--------------------------- MODULE MCRemoteFiles ---------------------------
(***************************************************************************)
(* TLC instances of RemoteFiles.  Separate: only one of the threads uses   *)
(* FTP.  Shared: both do.  Lone: one thread, two FTP tests.                *)
(***************************************************************************)
EXTENDS RemoteFiles, TLC

CONSTANTS j1, j2, c1, c2, c3, c4

Test(op, server) == [op |-> op, server |-> server]

SeparateSuite ==
    j1 :> <<Test("save", "FTP"), Test("orchestration_restore", "FTP"),
            Test("restore", "SCP")>> @@
    j2 :> <<Test("orchestration_save", "SCP"), Test("save", "TFTP")>>

LoneSuite == j1 :> <<Test("save", "FTP"), Test("restore", "FTP")>>

SharedSuite == j1 :> <<Test("save", "FTP")>> @@ j2 :> <<Test("save", "FTP")>>
=============================================================================
