----------------------------- MODULE MCTestRun -----------------------------
(***************************************************************************)
(* TLC instance of TestRun: two sandboxes that run at the same time and    *)
(* share the tested resource r1, which one of them has next to the         *)
(* connectivity partner r2 (run_tests is False), behind it or before it in *)
(* the queue of its single resource thread.                                *)
(***************************************************************************)
EXTENDS TestRun, TLC

CONSTANTS s1, s2, r1, r2

MCSandbox == {s1, s2}
MCResource == {r1, r2}
MCResourceNames == s1 :> {r1, r2} @@ s2 :> {r1}
MCRunTests == {r1}
=============================================================================
