-------------------------- MODULE ReservationLease --------------------------
(***************************************************************************)
(* What whoever takes reservations on a CloudShell promises: a reservation *)
(* is taken at most once and ended at most once, and the user closes       *)
(* cleanly only when none is active.  A user that is interrupted, or that  *)
(* CloudShell refused to let end a reservation, abandons what is left.     *)
(***************************************************************************)
CONSTANT Reservation

VARIABLES
    lease,  \* reservation |-> "none", "active" or "ended"
    user    \* "open", "clean" or "abandoned"

leaseVars == <<lease, user>>

LeaseInit ==
    /\ lease = [r \in Reservation |-> "none"]
    /\ user = "open"

Take(r) ==
    /\ user # "clean"
    /\ lease[r] = "none"
    /\ lease' = [lease EXCEPT ![r] = "active"]
    /\ UNCHANGED user

End(r) ==
    /\ lease[r] = "active"
    /\ lease' = [lease EXCEPT ![r] = "ended"]
    /\ UNCHANGED user

Close ==
    /\ user = "open"
    /\ \A r \in Reservation : lease[r] # "active"
    /\ user' = "clean"
    /\ UNCHANGED lease

Abandon ==
    /\ user = "open"
    /\ user' = "abandoned"
    /\ UNCHANGED lease

LeaseNext ==
    \/ \E r \in Reservation : Take(r) \/ End(r)
    \/ Close
    \/ Abandon

LeaseSpec == LeaseInit /\ [][LeaseNext]_leaseVars
=============================================================================
