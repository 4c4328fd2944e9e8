---------------------------- MODULE EvidenceLedger ----------------------------
(***************************************************************************)
(* What the Relay promises, without files, locks or requests: for every    *)
(* opened action an append-only history of the Stripe events recorded for  *)
(* it, and for every refund a link to one action, written once.  An event  *)
(* is recorded for the action its refund is linked to, and only once.      *)
(*                                                                         *)
(* Relay is shown to implement this specification with the history read    *)
(* off metadata.json (Recorded), and, when requests are served one at a    *)
(* time, with the history read off the current bundle (Evidence).          *)
(***************************************************************************)
EXTENDS SequencesExt

CONSTANTS Actions, Refunds, Events, RefundOf, Absent

VARIABLES
    ledger,  \* ledger[a]: Absent, or the events recorded for action a
    link     \* link[r]: Absent, or the action refund r is linked to

vars == <<ledger, link>>

Init ==
    /\ ledger = [a \in Actions |-> Absent]
    /\ link = [r \in Refunds |-> Absent]

Open(a) ==
    /\ ledger[a] = Absent
    /\ ledger' = [ledger EXCEPT ![a] = <<>>]
    /\ UNCHANGED link

Link(r, a) ==
    /\ ledger[a] # Absent
    /\ link[r] = Absent
    /\ link' = [link EXCEPT ![r] = a]
    /\ UNCHANGED ledger

Record(e) ==
    LET a == link[RefundOf[e]] IN
    /\ a # Absent
    /\ e \notin ToSet(ledger[a])
    /\ ledger' = [ledger EXCEPT ![a] = Append(@, e)]
    /\ UNCHANGED link

Next ==
    \/ \E a \in Actions : Open(a)
    \/ \E r \in Refunds, a \in Actions : Link(r, a)
    \/ \E e \in Events : Record(e)

Spec == Init /\ [][Next]_vars
=============================================================================
