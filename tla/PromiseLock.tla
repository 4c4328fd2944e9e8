------------------------------- MODULE PromiseLock -------------------------------
(***************************************************************************)
(* RelayStore.withLock (packages/relay/src/store.mjs) as the promises it   *)
(* is made of, for one key of its map.  Each call c has two promises:      *)
(*                                                                         *)
(*    current   resolved by release() when the callback of c has ended     *)
(*    queued    previous.then(() => current), which the map holds and the  *)
(*              next call waits for                                        *)
(*                                                                         *)
(* A promise that is resolved puts the reactions registered with it into   *)
(* the engine's queue of jobs, which run one at a time, in order.  queued  *)
(* takes three jobs to follow current: the reaction that returns current,  *)
(* the job that asks current to tell, and the one current starts.          *)
(***************************************************************************)
EXTENDS Naturals, FiniteSets, SequencesExt

CONSTANTS
    Calls,   \* calls of withLock with this key, each made at most once
    None     \* no entry in the map; a promise that is resolved already

ASSUME LockAssumption == None \notin Calls

VARIABLES
    entry,      \* the call whose queued the map holds, or None
    previous,   \* the call whose queued a call waits for, or None
    phase,      \* "new", "waiting", "running" or "ended"
    released,   \* the calls whose current is resolved
    asked,      \* the calls whose current has a reaction that settles queued
    settled,    \* the calls whose queued is resolved
    jobs,       \* the engine's queue of jobs
    made        \* ghost: the calls in the order they were made

vars == <<entry, previous, phase, released, asked, settled, jobs, made>>

Init ==
    /\ entry = None
    /\ previous = [c \in Calls |-> None]
    /\ phase = [c \in Calls |-> "new"]
    /\ released = {} /\ asked = {} /\ settled = {}
    /\ jobs = <<>>
    /\ made = <<>>

SetPhase(c, from, to) == phase[c] = from /\ phase' = [phase EXCEPT ![c] = to]

\* The reactions of the promise a call waits for, in the order they were
\* registered: that of then, and that of await.
Reactions(c) == <<<<"follow", c>>, <<"continue", c>>>>

-----------------------------------------------------------------------------
\* Mutant of Previous: the entry of a call whose callback has ended counts as
\* resolved.
PreviousRunning == IF entry # None /\ phase[entry] = "running" THEN entry ELSE None

\* this.locks.get(key) ?? Promise.resolve()
Previous == entry

\* withLock up to `await previous`.
Call(c) ==
    /\ SetPhase(c, "new", "waiting")
    /\ previous' = [previous EXCEPT ![c] = Previous]
    /\ entry' = c
    /\ jobs' = IF Previous = None \/ Previous \in settled THEN jobs \o Reactions(c) ELSE jobs
    /\ made' = Append(made, c)
    /\ UNCHANGED <<released, asked, settled>>

\* The callback of then returns current, and a job is started to adopt it.
Follow(c) ==
    /\ jobs' = Append(Tail(jobs), <<"adopt", c>>)
    /\ UNCHANGED <<entry, previous, phase, released, asked, settled, made>>

\* queued asks current to tell it.
Adopt(c) ==
    /\ asked' = asked \cup {c}
    /\ jobs' = IF c \in released THEN Append(Tail(jobs), <<"settle", c>>) ELSE Tail(jobs)
    /\ UNCHANGED <<entry, previous, phase, released, settled, made>>

\* queued is resolved, and so are the waits for it.
Settle(c) ==
    LET waiting == SetToSeq({d \in Calls : previous[d] = c})
    IN /\ settled' = settled \cup {c}
       /\ jobs' = Tail(jobs)
                    \o FlattenSeq([i \in DOMAIN waiting |-> Reactions(waiting[i])])
       /\ UNCHANGED <<entry, previous, phase, released, asked, made>>

\* `await previous` returns and the callback begins.
Continue(c) ==
    /\ SetPhase(c, "waiting", "running")
    /\ jobs' = Tail(jobs)
    /\ UNCHANGED <<entry, previous, released, asked, settled, made>>

\* One job of the engine.
Job ==
    /\ jobs # <<>>
    /\ LET kind == Head(jobs)[1]
           c == Head(jobs)[2]
       IN \/ kind = "follow" /\ Follow(c)
          \/ kind = "adopt" /\ Adopt(c)
          \/ kind = "settle" /\ Settle(c)
          \/ kind = "continue" /\ Continue(c)

\* Mutant of Release: a callback that throws does not pass the lock on.
ReleaseForgotten(c) == UNCHANGED <<released, jobs>>

\* release(): current is resolved.
Release(c) ==
    /\ released' = released \cup {c}
    /\ jobs' = IF c \in asked THEN Append(jobs, <<"settle", c>>) ELSE jobs

\* Mutant of Forget: the entry is never removed.
ForgetNever(c) == entry

\* The entry is removed when it is still the one of this call.
Forget(c) == IF entry = c THEN None ELSE entry

\* finally, after the callback has returned or thrown.
End(c) ==
    /\ SetPhase(c, "running", "ended")
    /\ Release(c)
    /\ entry' = Forget(c)
    /\ UNCHANGED <<previous, asked, settled, made>>

Next ==
    \/ \E c \in Calls : Call(c) \/ End(c)
    \/ Job

Spec == Init /\ [][Next]_vars

\* The engine runs its jobs, and every callback ends: its file operations do.
FairSpec == Spec /\ WF_vars(Job) /\ \A c \in Calls : WF_vars(End(c))

-----------------------------------------------------------------------------
\* The calls that have ended, by their place.
Ended == {i \in DOMAIN made : phase[made[i]] = "ended"}

\* Calls get the lock one at a time and in the order they were made: the chain
\* of promises is the queue that the models of the Relay take it for, in which
\* stand all calls but the first ones, as many as have ended.
Queue == INSTANCE LockQueue WITH
    queue <- SubSeq(made, Cardinality(Ended) + 1, Len(made)),
    running <- {c \in Calls : phase[c] = "running"}

ImplementsQueue == Queue!Spec

\* The map keeps no entry for a key that nobody holds or waits for, and none is
\* missing that a later call must wait for.
EntryExact ==
    entry # None <=> \E c \in Calls : phase[c] \in {"waiting", "running"}

\* The engine runs out of jobs only when every call that waits will be told by
\* one whose callback still runs, and no job it runs is one it cannot: however
\* the calls and the steps of their promises mix, no wake-up is lost or doubled.
Runnable ==
    jobs # <<>> /\ (Head(jobs)[1] = "continue" => phase[Head(jobs)[2]] = "waiting")

NobodyForgotten ==
    \A c \in Calls :
        phase[c] = "waiting" => Runnable \/ \E d \in Calls : phase[d] = "running"

\* No call waits forever, whether callbacks return or throw.
EveryCallEnds == \A c \in Calls : phase[c] # "new" ~> phase[c] = "ended"
================================================================================
