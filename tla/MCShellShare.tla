---------------------------- MODULE MCShellShare ----------------------------
(***************************************************************************)
(* TLC instance of ShellShare.  Files: two shells with a package in        *)
(* common, of which one has another, and a third shell without             *)
(* dependencies that brings a standard, as the second one does.  Session:  *)
(* one thread stores a package under the lock and then a standard without  *)
(* it, the other one stores two packages; each of them clears the offline  *)
(* PyPI without the lock when it fails.                                    *)
(***************************************************************************)
EXTENDS ShellShare, TLC

CONSTANTS h1, h2, h3, t1, t2

MCPackages == h1 :> <<1, 2>> @@ h2 :> <<2>> @@ h3 :> <<>>
MCStandards == h1 :> {} @@ h2 :> {"std"} @@ h3 :> {"std"}

MCCalls == t1 :> <<"locked", "free">> @@ t2 :> <<"locked", "locked">>
=============================================================================
