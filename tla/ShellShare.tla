----------------------------- MODULE ShellShare -----------------------------
(***************************************************************************)
(* CloudShellSmbHandler from both sides.  ShellInstall has its requests as *)
(* single steps of the threads that prepare shells, and looks at the files *)
(* they leave; SmbSession has the steps inside a request, and looks at the *)
(* connection that the requests share.  Both have the thread of a caller   *)
(* (pc, next, attempts) and the lock of the handler.  A behaviour follows  *)
(* one of the two views: from the inside nothing is said about the files,  *)
(* and from the outside nothing about the connection.                      *)
(***************************************************************************)
EXTENDS ShellInstall

CONSTANTS
    Thread,      \* the threads that use the handler
    Calls,       \* the requests of each thread
    Clearing,    \* the requests by which a shell that failed clears the PyPI
    MaxFaults    \* bound: faults of the server and of the network

VARIABLES
    view,        \* "files" or "session"
    clearing, disturbed, crossed, got, session, conn, faults

Smb == INSTANCE SmbSession

ASSUME ShareAssumption == Smb!CallsAreProper

\* What only one of the two looks at.
outside == <<unread, known, listing, smbVars, installed, refused, mainVars>>
inside == <<clearing, disturbed, crossed, got, session, conn, faults>>

allVars == <<view, outside, Smb!vars>>

FilesInit ==
    /\ view = "files"
    /\ Init
    /\ clearing = <<>> /\ disturbed = <<>> /\ crossed = <<>> /\ got = <<>>
    /\ session = 0 /\ conn = <<>> /\ faults = 0

SessionInit ==
    /\ view = "session"
    /\ Smb!Init
    /\ unread = <<>> /\ known = <<>> /\ listing = <<>>
    /\ pypi = <<>> /\ standards = {} /\ cut = {}
    /\ installed = {} /\ refused = FALSE /\ mpc = "pool" /\ handlers = {}

\* A request, or another step of the threads that prepare and finish the shells.
FilesNext == view = "files" /\ Next /\ UNCHANGED <<view, inside>>

\* One step inside a request, or a fault.
SessionNext == view = "session" /\ Smb!Next /\ UNCHANGED <<view, outside>>

ShareSpec == (FilesInit \/ SessionInit) /\ [][FilesNext \/ SessionNext]_allVars

-----------------------------------------------------------------------------
(* Properties of the inside *)

\* What the property session returns has been connected, not only created,
\* unless another thread wrote the session during the call and one of the two
\* was made without the lock.
SessionIsConnected == view = "session" => Smb!SessionIsConnected

\* A request fails only if a fault happened during the call or it was crossed
\* so: what an earlier call left in _session never makes it fail, and requests
\* under the lock never make each other fail.
SmbFailureHasCause == view = "session" => Smb!SmbFailureHasCause

\* "def session(self) -> SMBConnection", and not None (smb_handler.py:51).
SessionReturnsConnection == view = "session" => Smb!SessionReturnsConnection
=============================================================================
