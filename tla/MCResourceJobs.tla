--------------------------- MODULE MCResourceJobs ---------------------------
(***************************************************************************)
(* TLC instances of ResourceJobs.  Borrowed: two sandboxes test one        *)
(* resource each and borrow the same untested device d.  Tested: both      *)
(* resources of one sandbox run tests and are each other's device under    *)
(* test.                                                                   *)
(***************************************************************************)
EXTENDS ResourceJobs, TLC

CONSTANTS s1, s2, r1, r2, d

BorrowedSandbox == {s1, s2}
BorrowedResource == {r1, r2, d}
BorrowedNames == s1 :> {r1, d} @@ s2 :> {r2, d}
BorrowedTests == {r1, r2}

TestedSandbox == {s1}
TestedResource == {r1, r2}
TestedNames == s1 :> {r1, r2}
TestedTests == {r1, r2}
=============================================================================
