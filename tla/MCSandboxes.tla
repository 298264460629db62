----------------------------- MODULE MCSandboxes -----------------------------
(* Two sandboxes that share a resource, both from blueprints: the setup of one
   begins only after CloudShell has shown it as started. *)
EXTENDS Sandboxes, TLC

CONSTANTS s1, s2, r1, r2

MCUsedBy == (s1 :> {r1}) @@ (s2 :> {r1, r2})
=============================================================================
