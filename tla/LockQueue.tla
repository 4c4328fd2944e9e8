-------------------------------- MODULE LockQueue --------------------------------
(***************************************************************************)
(* What RelayStore.withLock promises of one key, and what module           *)
(* RelayStore takes it for: calls queue in the order they were made, the   *)
(* one at the head runs its callback, and leaves when that has ended.      *)
(***************************************************************************)
EXTENDS Sequences

CONSTANT Calls

VARIABLES
    queue,    \* the calls that have not left, in the order they were made
    running   \* the calls whose callback runs

Init == queue = <<>> /\ running = {}

Enter(c) ==
    /\ queue' = Append(queue, c)
    /\ UNCHANGED running

Begin(c) ==
    /\ queue # <<>> /\ Head(queue) = c
    /\ running = {}
    /\ running' = {c}
    /\ UNCHANGED queue

Leave(c) ==
    /\ c \in running
    /\ running' = running \ {c}
    /\ queue' = Tail(queue)

Next == \E c \in Calls : Enter(c) \/ Begin(c) \/ Leave(c)

Spec == Init /\ [][Next]_<<queue, running>>
================================================================================
