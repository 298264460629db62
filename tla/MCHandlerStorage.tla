-------------------------- MODULE MCHandlerStorage --------------------------
(***************************************************************************)
(* TLC instance of HandlerStorage: two sandboxes with a tested resource    *)
(* each, of different shells, a connectivity partner that both name, and a *)
(* third sandbox that names only the partner.                              *)
(***************************************************************************)
EXTENDS HandlerStorage, TLC

CONSTANTS s1, s2, s3, r1, r2, r3, h1, h2

MCSandbox == {s1, s2, s3}
MCResource == {r1, r2, r3}
MCShell == {h1, h2}
MCResourceNames == s1 :> {r1, r3} @@ s2 :> {r2, r3} @@ s3 :> {r3}
MCRunTests == {r1, r2}
\* The partner is of a configured shell, or of one that is not.
MCShellMaps == {r1 :> h1 @@ r2 :> h2 @@ r3 :> h : h \in {h2, NoShell}}
=============================================================================
