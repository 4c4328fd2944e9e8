---------------------------- MODULE RelayProperties ----------------------------
(***************************************************************************)
(* What must hold of the Relay (module Relay) under concurrent requests,   *)
(* failed file operations and restarts, and, at the end, what the          *)
(* repository's documents say of it that those can break.                  *)
(***************************************************************************)
EXTENDS Relay

\* Every variable has its type: the files hold what their readers expect,
\* so no read of an existing action ends in a missing file.
TypeOK ==
    /\ StoreTypeOK
    /\ pc \in [Handlers -> PCs]
    /\ req \in [Handlers -> Requests]
    /\ mem \in [Handlers -> Memory]
    /\ faults \in 0..MaxFaults
    /\ accepted \subseteq Events
    /\ opened \subseteq Actions \X (Refunds \cup {Absent})

\* The revisions of a that metadata.json vouches for.
Committed(a) == IF Exists(a) THEN 1..metadata[a].revision ELSE {}

\* The bundle GET /bundle returns.
CommittedBundle(a) == revisions[a][metadata[a].revision]

\* No step changes or removes a revision once metadata.json counts it,
\* whatever the interleaving of writers, the failures and the restarts
\* (store.mjs: appendRevision writes at existing.metadata.revision + 1).
CommittedImmutable ==
    [][\A a \in Actions :
          /\ Committed(a) \subseteq Committed(a)'
          /\ \A n \in Committed(a) : revisions'[a][n] = revisions[a][n]]_vars

\* An event delivered again, or by two handlers at once, is recorded once;
\* every recorded event has made one revision; no revision up to the current
\* one is missing, and at most one uncommitted file lies beyond it.
ExactlyOnce ==
    \A a \in Actions : Exists(a) =>
        /\ IsInjective(metadata[a].seen)
        /\ metadata[a].revision = Len(metadata[a].seen) + 1
        /\ Committed(a) \subseteq DOMAIN revisions[a]
        /\ DOMAIN revisions[a] \subseteq 1..(metadata[a].revision + 1)

\* Every committed revision after the first extends some earlier committed
\* revision, whose digest it names, by exactly the event recorded with it.
Lineage ==
    \A a \in Actions : \A n \in Committed(a) \ {1} :
        \E m \in 1..(n - 1) :
            /\ revisions[a][n].pred = Digest(revisions[a][m])
            /\ revisions[a][n].log =
                   Append(revisions[a][m].log, metadata[a].seen[n - 1])

\* An event answered 2xx is on disk for good: recorded for the action its
\* refund is linked to, with its evidence in some committed revision.
AckedDurable ==
    \A e \in accepted :
        LET a == index[RefundOf[e]] IN
        /\ a # Absent
        /\ Seen(metadata[a], e)
        /\ \E n \in Committed(a) : e \in ToSet(revisions[a][n].log)

\* The index never points at an action that does not exist or that was
\* created for another refund, and a creation answered 201 is linked.
IndexSound ==
    /\ \A r \in Refunds : index[r] # Absent =>
          Exists(index[r]) /\ metadata[index[r]].refund = r
    /\ \A c \in opened : c[2] # Absent => index[c[2]] = c[1]

\* A GET is answered with a bundle that is, and remains, the committed
\* revision its metadata names, although it is read without the lock; a
\* listing shows every revision committed when the request began, as stored.
ReadsCommitted ==
    \A p \in Handlers : pc[p] = "reply" /\ mem[p].status = 200 =>
        LET a == req[p].action
            n == mem[p].meta.revision
        IN  /\ n \in Committed(a)
            /\ IsPrefix(mem[p].meta.seen, metadata[a].seen)
            /\ req[p].op = "get" => mem[p].bundle = revisions[a][n]
            /\ req[p].op = "list" =>
                  /\ Len(mem[p].rows) >= n
                  /\ \A m \in 1..n : mem[p].rows[m] = Row(a, m)

\* Without failures, an action nobody is writing has a current.json that
\* summarises its committed bundle, and no stray revision file.
SettledFilesAgree ==
    faults = 0 =>
        \A a \in Actions : Exists(a) /\ locks[a] = <<>> =>
            /\ current[a] = Digest(CommittedBundle(a))
            /\ DOMAIN revisions[a] = Committed(a)

\* Handler p is queued on lock k with ticket t, or holds it.
Wants(p, k, t) ==
    \/ pc[p] \in ActionLockPCs /\ k = req[p].action /\ t = OuterTicket(p)
    \/ pc[p] \in IndexLockPCs /\ k = IndexKey /\ t = InnerTicket(p)

\* Handler p waits for a lock that handler q holds.
WaitsFor(p, q) ==
    \E k \in LockKeys, t \in Tickets :
        /\ Wants(p, k, t) /\ ~Holds(k, t)
        /\ locks[k] # <<>> /\ Head(locks[k])[1] = q

\* Nothing keeps the busy handler p from its next step.
Runs(p) ==
    /\ pc[p] # "idle" /\ Granted(p)
    /\ pc[p] = "read_current" => req[p].op \in {"ingest", "get", "list"}
    /\ pc[p] = "list_file" => mem[p].names # {}

\* Handlers never wait for each other in a circle, nor for one that is gone: a
\* busy handler runs, or waits for one that does, at most one lock further on
\* (store.mjs: withLock on the index inside withLock on the action).
NoDeadlock ==
    \A p \in Handlers : pc[p] # "idle" /\ ~Runs(p) =>
        \E q \in Handlers :
            /\ WaitsFor(p, q)
            /\ Runs(q) \/ \E r \in Handlers : WaitsFor(q, r) /\ Runs(r)

\* Every request is answered or lost in a restart: no handler waits forever
\* for a lock.
EveryRequestAnswered ==
    \A p \in Handlers : pc[p] # "idle" ~> pc[p] = "idle"

\* Once its refund is linked, an event Stripe keeps delivering is accepted,
\* whatever fails on the way.
LinkedEventsAccepted ==
    \A e \in Events : index[RefundOf[e]] # Absent ~> e \in accepted

\* Relay implements the ledger, with the events metadata.json records.
Recorded == INSTANCE EvidenceLedger WITH
    ledger <- [a \in Actions |->
                  IF Exists(a) THEN metadata[a].seen ELSE Absent],
    link <- index

RecordedSpec == Recorded!Spec

\* Relay implements the ledger, with the events the current bundle carries.
Evidence == INSTANCE EvidenceLedger WITH
    ledger <- [a \in Actions |->
                  IF Exists(a) THEN CommittedBundle(a).log ELSE Absent],
    link <- index

EvidenceSpec == Evidence!Spec

-----------------------------------------------------------------------------
(* What the repository says of the Relay and concurrency or a failure can  *)
(* break.                                                                  *)

\* Every revision links to its immediate predecessor's digest
\* (governance/NEXT_ACTION.md:21).
ImmediatePredecessor ==
    \A a \in Actions : \A n \in Committed(a) \ {1} :
        revisions[a][n].pred = Digest(revisions[a][n - 1])

\* No accepted evidence is missing from the current bundle, and so from the
\* verdict (integrations/RELAY_HTTP_API.md:39).
NothingLost ==
    \A e \in accepted :
        e \in ToSet(CommittedBundle(index[RefundOf[e]]).log)

\* An action created with a refund correlation is linked to the refund as
\* soon as its creation is over (integrations/RELAY_HTTP_API.md:74).
CorrelationLinked ==
    \A a \in Actions : Exists(a) /\ locks[a] = <<>> =>
        metadata[a].refund = Absent \/ index[metadata[a].refund] # Absent
=============================================================================
