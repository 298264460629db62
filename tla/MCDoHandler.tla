---------------------------- MODULE MCDoHandler ----------------------------
(***************************************************************************)
(* TLC instances of DoHandler: two networking apps and a CloudShell on Do, *)
(* one worker fewer than there are jobs.                                   *)
(***************************************************************************)
EXTENDS DoHandler

CONSTANTS a1, a2

Apps == {a1, a2}
=============================================================================
