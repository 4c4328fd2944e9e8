----------------------------- MODULE RelayHistory -----------------------------
(***************************************************************************)
(* The part of the Relay's inductive invariant that is about contents:     *)
(* what a handler has read or built and what the files hold, so that each  *)
(* revision can be traced to the one it was built from.  It stands on      *)
(* RelayInvariant; RelayHistoryProofs proves it inductive.                 *)
(***************************************************************************)
EXTENDS RelayInvariant

\* The action of a webhook is the one its refund is linked to.
LinkedInv(p) ==
    req[p].op = "ingest" /\ pc[p] \in ReadPCs \cup AppendPCs =>
        index[RefundOf[req[p].event]] = req[p].action

\* The metadata a handler has read outside the lock stays a past state of the
\* file, and the bundle it then reads is the revision that metadata names.
SourceInv(p) ==
    /\ pc[p] \in {"read_bundle", "read_current", "append_check"} \cup ListPCs =>
          /\ mem[p].meta \in Metadata
          /\ mem[p].meta.revision \in Committed(req[p].action)
          /\ IsPrefix(mem[p].meta.seen, metadata[req[p].action].seen)
    /\ pc[p] = "read_current" =>
          mem[p].bundle = revisions[req[p].action][mem[p].meta.revision]

\* A bundle is built from one of the given revisions by adding the event.
Extends(b, a, numbers, e) ==
    \E m \in numbers :
        /\ b.pred = Digest(revisions[a][m])
        /\ b.log = Append(revisions[a][m].log, e)

\* The new bundle extends a committed revision, and is what the writer has
\* put into the revision file and into current.json.
DraftInv(p) ==
    /\ pc[p] \in AppendPCs =>
          Extends(mem[p].bundle, req[p].action, Committed(req[p].action),
                  req[p].event)
    /\ pc[p] \in {"append_current", "append_metadata"} =>
          revisions[req[p].action][mem[p].meta.revision + 1] = mem[p].bundle
    /\ pc[p] = "append_metadata" =>
          current[req[p].action] = Digest(mem[p].bundle)
    /\ pc[p] \in {"create_current", "create_metadata"} =>
          revisions[req[p].action][1] = FirstBundle
    /\ pc[p] = "create_metadata" =>
          current[req[p].action] = Digest(FirstBundle)

\* A listing has read the files up to some point, and has the rest up to
\* one beyond the committed revisions before it.
ListingInv(p) ==
    /\ pc[p] \in ListPCs => req[p].op = "list"
    /\ pc[p] \notin {"list_file", "reply"} => mem[p].rows = <<>>
    /\ pc[p] = "list_file" =>
          /\ \E top \in mem[p].names :
                /\ mem[p].meta.revision <= top
                /\ mem[p].names = (Len(mem[p].rows) + 1)..top
          /\ \A m \in DOMAIN mem[p].rows \cap (1..mem[p].meta.revision) :
                mem[p].rows[m] = Row(req[p].action, m)

\* A webhook about to be answered 2xx has its event recorded.
AcceptedInv(p) ==
    pc[p] = "reply" /\ req[p].op = "ingest" /\ mem[p].status \in {200, 202} =>
        /\ index[RefundOf[req[p].event]] = req[p].action
        /\ req[p].action \in Actions
        /\ Exists(req[p].action)
        /\ Seen(metadata[req[p].action], req[p].event)

\* ReadsCommitted for one handler, with the types it needs.
ReplyInv(p) ==
    pc[p] = "reply" /\ mem[p].status = 200 =>
        LET a == req[p].action
            n == mem[p].meta.revision
        IN  /\ a \in Actions
            /\ mem[p].meta \in Metadata
            /\ n \in Committed(a)
            /\ IsPrefix(mem[p].meta.seen, metadata[a].seen)
            /\ req[p].op = "get" => mem[p].bundle = revisions[a][n]
            /\ req[p].op = "list" =>
                  /\ Len(mem[p].rows) >= n
                  /\ \A m \in 1..n : mem[p].rows[m] = Row(a, m)

HistoryInv(p) ==
    /\ LinkedInv(p)
    /\ SourceInv(p)
    /\ DraftInv(p)
    /\ ListingInv(p)
    /\ AcceptedInv(p)
    /\ ReplyInv(p)

\* Lineage for one action.
LineageInv(a) ==
    \A n \in Committed(a) \ {1} :
        Extends(revisions[a][n], a, 1..(n - 1), metadata[a].seen[n - 1])

\* Without failures the files of an action differ from what metadata.json
\* says only while a writer is between its writes.
SettledInv(a) ==
    faults = 0 /\ Exists(a) =>
        /\ \/ DOMAIN revisions[a] = Committed(a)
           \/ \E p \in Handlers : /\ pc[p] \in {"append_current", "append_metadata"}
                                  /\ req[p].action = a
        /\ \/ current[a] = Digest(CommittedBundle(a))
           \/ \E p \in Handlers : pc[p] = "append_metadata" /\ req[p].action = a

\* Accepted events are recorded for the action their refund is linked to.
AcceptedRecorded ==
    \A e \in accepted :
        LET a == index[RefundOf[e]] IN a # Absent /\ Seen(metadata[a], e)

HInv ==
    /\ Inv
    /\ \A p \in Handlers : HistoryInv(p)
    /\ \A a \in Actions : LineageInv(a) /\ SettledInv(a)
    /\ AcceptedRecorded

\* Each lock's queue has the ticket of every handler that wants the lock, once,
\* and no other; a handler that reads has a request for it.
QueueInv(k) ==
    /\ IsInjective(locks[k])
    /\ ToSet(locks[k]) = {t \in Tickets : Wants(t[1], k, t)}

LocksInv ==
    /\ \A k \in LockKeys : QueueInv(k)
    /\ \A p \in Handlers :
          pc[p] \in ReadPCs => req[p].op \in {"ingest", "get", "list"}
-----------------------------------------------------------------------------
(* What is stronger when webhooks of one action do not overlap.            *)

\* Webhook p has read the metadata of its action, and works from it.
Building(p) ==
    req[p].op = "ingest" /\ pc[p] \in {"read_bundle", "read_current"} \cup AppendPCs

\* No two webhooks of one action do at once; any other requests may.
Serial ==
    \A p, q \in Handlers :
        Building(p) /\ Building(q) /\ req[p].action = req[q].action => p = q

\* A bundle names another as its predecessor and carries the event besides.
AddsTo(b, previous, e) ==
    b.pred = Digest(previous) /\ b.log = Append(previous.log, e)

\* What such a webhook has read is still so, and what it has built extends the
\* committed bundle.
FreshInv(p) ==
    /\ Building(p) => mem[p].meta = metadata[req[p].action]
    /\ pc[p] \in AppendPCs =>
          AddsTo(mem[p].bundle, CommittedBundle(req[p].action), req[p].event)

\* The revisions are a chain, and the last carries all that is recorded.
ChainInv(a) ==
    /\ \A n \in Committed(a) \ {1} : revisions[a][n].pred = Digest(revisions[a][n - 1])
    /\ Exists(a) => CommittedBundle(a).log = metadata[a].seen

SerialInv ==
    /\ \A p \in Handlers : FreshInv(p)
    /\ \A a \in Actions : ChainInv(a)
================================================================================
