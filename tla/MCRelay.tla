-------------------------------- MODULE MCRelay --------------------------------
(***************************************************************************)
(* Instances of the Relay for TLC.  Every Stripe event is about the one    *)
(* refund r1, the case in which handlers meet on one action.               *)
(***************************************************************************)
EXTENDS RelayHistory, TLC

CONSTANTS a1, a2, r1, r2, e1, e2, e3, p1, p2, p3

MCRefundOf == [e \in Events |-> r1]

MCSymmetry ==
    Permutations(Handlers) \cup Permutations(Actions) \cup Permutations(Events)
================================================================================
