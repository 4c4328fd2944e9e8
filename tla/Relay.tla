-------------------------------- MODULE Relay --------------------------------
(***************************************************************************)
(* The Relay service (packages/relay/src/service.mjs) over its file store: *)
(* HTTP requests handled concurrently on one Node.js event loop.  A        *)
(* handler runs without interruption from one awaited file operation to    *)
(* the next, so each action below is one such operation together with the  *)
(* synchronous code that follows it.                                       *)
(*                                                                         *)
(* A request creates an action, ingests a Stripe webhook, reads an action  *)
(* or lists its revisions.  Any file operation may fail (IOError) and the  *)
(* process may stop at any point and be restarted on the same directory    *)
(* (Crash); together they happen at most MaxFaults times.                  *)
(***************************************************************************)
EXTENDS RelayStore

CONSTANTS
    InvalidRefunds,   \* what clients send as stripe_refund_id that is no string
    RefundOf,         \* the refund a Stripe event is about
    MaxFaults         \* bound on failed file operations and restarts

ASSUME InvalidRefundsAssumption == InvalidRefunds \subseteq Refunds
ASSUME RefundOfAssumption == RefundOf \in [Events -> Refunds]
ASSUME MaxFaultsAssumption == MaxFaults \in Nat

VARIABLES
    pc,         \* pc[p]: the operation handler p is waiting for
    req,        \* req[p]: the request it serves
    mem,        \* mem[p]: what it has read or built so far
    faults,     \* file operations failed and restarts so far
    accepted,   \* ghost: events whose webhook was answered 202 or 200
    opened      \* ghost: <<action, refund>> of creations answered 201

vars == <<disk, locks, pc, req, mem, faults, accepted, opened>>

-----------------------------------------------------------------------------
(* Requests, handler memory and program counters.                          *)

Requests ==
    [op : {"none", "create", "ingest", "get", "list"},
     action : Actions \cup {Absent},
     refund : Refunds \cup {Absent},
     event : Events \cup {Absent}]

NoRequest ==
    [op |-> "none", action |-> Absent, refund |-> Absent, event |-> Absent]

\* The entry of a listing for revision n of action a.
Row(a, n) == [revision |-> n, bundle |-> revisions[a][n]]

Listings == Seq([revision : Nat, bundle : Bundles])

Statuses == {0, 200, 201, 202, 400, 404, 409, 500}

\* Handler memory: metadata, bundle and current as read or built, the index
\* as read, the revision names still to be read, the rows read, the answer.
Memory ==
    [meta : Metadata \cup {Absent},
     bundle : Bundles \cup {Absent},
     summary : Digests \cup {Absent},
     links : [Refunds -> Actions \cup {Absent}] \cup {Absent},
     names : SUBSET Nat,
     rows : Listings,
     status : Statuses]

NoMemory ==
    [meta |-> Absent, bundle |-> Absent, summary |-> Absent, links |-> Absent,
     names |-> {}, rows |-> <<>>, status |-> 0]

CreatePCs == {"create_check", "create_revision", "create_current",
              "create_metadata", "link_read", "link_write"}
ReadPCs == {"read_metadata", "read_bundle", "read_current"}
AppendPCs == {"append_check", "append_revision", "append_current",
              "append_metadata"}
ListPCs == {"list_names", "list_file"}
PCs == CreatePCs \cup ReadPCs \cup AppendPCs \cup ListPCs
           \cup {"idle", "find_refund", "reply"}

\* Steps taken inside the callback of the action's lock.
ActionLockPCs == CreatePCs \cup AppendPCs
\* Steps taken inside the callback of the index lock, nested in the former.
IndexLockPCs == {"link_read", "link_write"}

OuterTicket(p) == <<p, "action">>
InnerTicket(p) == <<p, "index">>

\* Mutant of Granted: registerStripeRefund forgets to take the index lock.
GrantedWithoutIndexLock(p) ==
    pc[p] \in ActionLockPCs => Holds(req[p].action, OuterTicket(p))

\* Mutant of Granted: the store forgets to take the action's lock.
GrantedWithoutActionLock(p) ==
    pc[p] \in IndexLockPCs => Holds(IndexKey, InnerTicket(p))

\* The locks handler p needs for its next operation have been granted.
Granted(p) ==
    /\ pc[p] \in ActionLockPCs => Holds(req[p].action, OuterTicket(p))
    /\ pc[p] \in IndexLockPCs => Holds(IndexKey, InnerTicket(p))

Init ==
    /\ StoreInit
    /\ pc = [p \in Handlers |-> "idle"]
    /\ req = [p \in Handlers |-> NoRequest]
    /\ mem = [p \in Handlers |-> NoMemory]
    /\ faults = 0
    /\ accepted = {}
    /\ opened = {}

\* Handler p finishes the operation `from` and waits for `to`.
Step(p, from, to) ==
    /\ pc[p] = from
    /\ Granted(p)
    /\ pc' = [pc EXCEPT ![p] = to]

\* Handler p has the answer `status`; what remains is to send it.
Answer(p, from, status) ==
    /\ Step(p, from, "reply")
    /\ mem' = [mem EXCEPT ![p].status = status]

bookkeeping == <<faults, accepted, opened>>

-----------------------------------------------------------------------------
(* Arrival of requests.  Requests the handlers reject before any file is   *)
(* touched (malformed bodies, bad signatures) change nothing and are left  *)
(* out.                                                                    *)

\* Handler p receives request r and waits for `to`.
Receive(p, r, to) ==
    /\ pc[p] = "idle"
    /\ pc' = [pc EXCEPT ![p] = to]
    /\ req' = [req EXCEPT ![p] = r]
    /\ UNCHANGED <<disk, mem, bookkeeping>>

\* POST /v1/actions: revision 1 is built and the action's lock asked for.
\* Without correlations.stripe_refund_id the refund is Absent.
ReceiveCreate(p, a, r) ==
    /\ Receive(p, [NoRequest EXCEPT !.op = "create", !.action = a,
                                    !.refund = r], "create_check")
    /\ Enter(a, OuterTicket(p))

\* POST /v1/webhooks/stripe, at least once and in any order.
ReceiveWebhook(p, e) ==
    /\ Receive(p, [NoRequest EXCEPT !.op = "ingest", !.event = e], "find_refund")
    /\ UNCHANGED locks

\* GET /v1/actions/{id}, also /bundle and /packet.
ReceiveGet(p, a) ==
    /\ Receive(p, [NoRequest EXCEPT !.op = "get", !.action = a], "read_metadata")
    /\ UNCHANGED locks

\* GET /v1/actions/{id}/revisions.
ReceiveList(p, a) ==
    /\ Receive(p, [NoRequest EXCEPT !.op = "list", !.action = a], "read_metadata")
    /\ UNCHANGED locks

-----------------------------------------------------------------------------
(* RelayStore.createAction, in the action's lock.                          *)

FirstBundle == [number |-> 1, log |-> <<>>, pred |-> Absent]

CreateConflict(p) ==
    /\ Answer(p, "create_check", 409)
    /\ Exists(req[p].action)
    /\ Leave(p)
    /\ UNCHANGED <<disk, req, bookkeeping>>

\* Mutant of CreateCheck: an existing action is not refused.
CreateCheckUnguarded(p) ==
    /\ Step(p, "create_check", "create_revision")
    /\ UNCHANGED <<disk, locks, req, mem, bookkeeping>>

CreateCheck(p) ==
    /\ Step(p, "create_check", "create_revision")
    /\ ~Exists(req[p].action)
    /\ UNCHANGED <<disk, locks, req, mem, bookkeeping>>

CreateRevision(p) ==
    /\ Step(p, "create_revision", "create_current")
    /\ WriteRevision(req[p].action, 1, FirstBundle)
    /\ UNCHANGED <<current, metadata, index, locks, req, mem, bookkeeping>>

CreateCurrent(p) ==
    /\ Step(p, "create_current", "create_metadata")
    /\ WriteCurrent(req[p].action, Digest(FirstBundle))
    /\ UNCHANGED <<revisions, metadata, index, locks, req, mem, bookkeeping>>

\* Mutant of FirstMetadata: the list of recorded events is not initialised.
FirstMetadataWithoutList(p) ==
    [revision |-> 1, refund |-> req[p].refund, seen |-> Absent]

\* The action exists from here on.  A correlated one goes on to
\* registerStripeRefund, which refuses what is no identifier and otherwise
\* queues on the index lock.
FirstMetadata(p) == [revision |-> 1, refund |-> req[p].refund, seen |-> <<>>]

CreateMetadata(p) ==
    /\ \/ /\ Step(p, "create_metadata", "link_read")
          /\ req[p].refund \notin InvalidRefunds \cup {Absent}
          /\ Enter(IndexKey, InnerTicket(p))
          /\ UNCHANGED mem
       \/ /\ Answer(p, "create_metadata", 201)
          /\ req[p].refund = Absent
          /\ Leave(p)
       \/ /\ Answer(p, "create_metadata", 400)
          /\ req[p].refund \in InvalidRefunds
          /\ Leave(p)
    /\ WriteMetadata(req[p].action, FirstMetadata(p))
    /\ UNCHANGED <<revisions, current, index, req, bookkeeping>>

\* The refund is linked to another action.
LinkTaken(p) ==
    index[req[p].refund] \notin {Absent, req[p].action}

LinkConflict(p) ==
    /\ Answer(p, "link_read", 400)
    /\ LinkTaken(p)
    /\ Leave(p)
    /\ UNCHANGED <<disk, req, bookkeeping>>

LinkRead(p) ==
    /\ Step(p, "link_read", "link_write")
    /\ ~LinkTaken(p)
    /\ mem' = [mem EXCEPT ![p].links = index]
    /\ UNCHANGED <<disk, locks, req, bookkeeping>>

\* The whole index is written back from the copy read before.
LinkWrite(p) ==
    /\ Answer(p, "link_write", 201)
    /\ WriteIndex([mem[p].links EXCEPT ![req[p].refund] = req[p].action])
    /\ Leave(p)
    /\ UNCHANGED <<revisions, current, metadata, req, bookkeeping>>

-----------------------------------------------------------------------------
(* RelayStore.getAction: three reads, outside any lock.                    *)

\* findByStripeRefundId on behalf of a webhook.
LinkedAction(p) == index[RefundOf[req[p].event]]

FindRefund(p) ==
    /\ \/ /\ Answer(p, "find_refund", 404)
          /\ LinkedAction(p) = Absent
          /\ UNCHANGED req
       \/ /\ Step(p, "find_refund", "read_metadata")
          /\ LinkedAction(p) # Absent
          /\ req' = [req EXCEPT ![p].action = LinkedAction(p)]
          /\ UNCHANGED mem
    /\ UNCHANGED <<disk, locks, bookkeeping>>

ReadMetadata(p) ==
    /\ \/ /\ Answer(p, "read_metadata", 404)
          /\ ~Exists(req[p].action)
       \/ /\ Step(p, "read_metadata", "read_bundle")
          /\ Exists(req[p].action)
          /\ mem' = [mem EXCEPT ![p].meta = metadata[req[p].action]]
    /\ UNCHANGED <<disk, locks, req, bookkeeping>>

\* Mutant of ReadBundle: the newest file is read, not the one metadata names.
ReadNewestBundle(p) ==
    /\ Step(p, "read_bundle", "read_current")
    /\ \E n \in DOMAIN revisions[req[p].action] :
          /\ \A m \in DOMAIN revisions[req[p].action] : m <= n
          /\ mem' = [mem EXCEPT ![p].bundle = revisions[req[p].action][n]]
    /\ UNCHANGED <<disk, locks, req, bookkeeping>>

ReadBundle(p) ==
    /\ Step(p, "read_bundle", "read_current")
    /\ mem' = [mem EXCEPT ![p].bundle =
                  revisions[req[p].action][mem[p].meta.revision]]
    /\ UNCHANGED <<disk, locks, req, bookkeeping>>

\* The last read of a GET, which can now be answered.
ReadCurrentForGet(p) ==
    /\ Step(p, "read_current", "reply")
    /\ req[p].op = "get"
    /\ mem' = [mem EXCEPT ![p].summary = current[req[p].action],
                          ![p].status = 200]
    /\ UNCHANGED <<disk, locks, req, bookkeeping>>

-----------------------------------------------------------------------------
(* ingestStripeWebhook after its getAction, and RelayStore.appendRevision  *)
(* in the action's lock.                                                   *)

Seen(m, e) == e \in ToSet(m.seen)

\* Mutants of NextBundle: the earlier events are dropped, the new event is put
\* first, the predecessor's predecessor is named.
NextBundleAlone(p) ==
    [number |-> mem[p].meta.revision + 1,
     log |-> <<req[p].event>>,
     pred |-> Digest(mem[p].bundle)]

NextBundleInFront(p) ==
    [number |-> mem[p].meta.revision + 1,
     log |-> <<req[p].event>> \o mem[p].bundle.log,
     pred |-> Digest(mem[p].bundle)]

NextBundleSamePredecessor(p) ==
    [number |-> mem[p].meta.revision + 1,
     log |-> Append(mem[p].bundle.log, req[p].event),
     pred |-> mem[p].bundle.pred]

\* The next bundle as the handler builds it from what it has read.
NextBundle(p) ==
    [number |-> mem[p].meta.revision + 1,
     log |-> Append(mem[p].bundle.log, req[p].event),
     pred |-> Digest(mem[p].bundle)]

\* Mutant of ReadCurrentDuplicate: a delivery of a recorded event is refused.
ReadCurrentDuplicateRefused(p) ==
    /\ Answer(p, "read_current", 409)
    /\ req[p].op = "ingest"
    /\ Seen(mem[p].meta, req[p].event)
    /\ UNCHANGED <<disk, locks, req, bookkeeping>>

\* The event is already recorded: answered 200 without taking the lock.
ReadCurrentDuplicate(p) ==
    /\ Answer(p, "read_current", 200)
    /\ req[p].op = "ingest"
    /\ Seen(mem[p].meta, req[p].event)
    /\ UNCHANGED <<disk, locks, req, bookkeeping>>

\* Otherwise the new bundle is built, then the action's lock asked for.
ReadCurrentBuild(p) ==
    /\ Step(p, "read_current", "append_check")
    /\ req[p].op = "ingest"
    /\ ~Seen(mem[p].meta, req[p].event)
    /\ mem' = [mem EXCEPT ![p].bundle = NextBundle(p)]
    /\ Enter(req[p].action, OuterTicket(p))
    /\ UNCHANGED <<disk, req, bookkeeping>>

\* Mutant of AppendDuplicate: the early return does not release the lock.
AppendDuplicateLocked(p) ==
    /\ Answer(p, "append_check", 200)
    /\ Seen(metadata[req[p].action], req[p].event)
    /\ UNCHANGED <<disk, locks, req, bookkeeping>>

\* appendRevision reads the action again; no file of it changes meanwhile,
\* since its lock is held, so the three reads are one step.  Of the answer the
\* status is modelled; its packet is that of the bundle that is not saved.
AppendDuplicate(p) ==
    /\ Answer(p, "append_check", 200)
    /\ Seen(metadata[req[p].action], req[p].event)
    /\ Leave(p)
    /\ UNCHANGED <<disk, req, bookkeeping>>

\* Mutant of AppendCheck: the event is not looked up again in the lock.
AppendCheckOnce(p) ==
    /\ Step(p, "append_check", "append_revision")
    /\ mem' = [mem EXCEPT ![p].meta = metadata[req[p].action]]
    /\ UNCHANGED <<disk, locks, req, bookkeeping>>

AppendCheck(p) ==
    /\ Step(p, "append_check", "append_revision")
    /\ ~Seen(metadata[req[p].action], req[p].event)
    /\ mem' = [mem EXCEPT ![p].meta = metadata[req[p].action]]
    /\ UNCHANGED <<disk, locks, req, bookkeeping>>

\* Mutant of NextMetadata: the event is not recorded.
NextMetadataUnrecorded(p) == [mem[p].meta EXCEPT !.revision = @ + 1]

\* The metadata appendRevision writes: next revision, event recorded.
NextMetadata(p) ==
    [mem[p].meta EXCEPT !.revision = @ + 1,
                        !.seen = Append(@, req[p].event)]

AppendRevision(p) ==
    /\ Step(p, "append_revision", "append_current")
    /\ WriteRevision(req[p].action, NextMetadata(p).revision, mem[p].bundle)
    /\ UNCHANGED <<current, metadata, index, locks, req, mem, bookkeeping>>

\* Mutant of AppendCurrent: current.json keeps its old content.
AppendCurrentStale(p) ==
    /\ Step(p, "append_current", "append_metadata")
    /\ UNCHANGED <<disk, locks, req, mem, bookkeeping>>

AppendCurrent(p) ==
    /\ Step(p, "append_current", "append_metadata")
    /\ WriteCurrent(req[p].action, Digest(mem[p].bundle))
    /\ UNCHANGED <<revisions, metadata, index, locks, req, mem, bookkeeping>>

AppendMetadata(p) ==
    /\ Answer(p, "append_metadata", 202)
    /\ WriteMetadata(req[p].action, NextMetadata(p))
    /\ Leave(p)
    /\ UNCHANGED <<revisions, current, index, req, bookkeeping>>

-----------------------------------------------------------------------------
(* RelayStore.listRevisions after its getAction: one readdir, then every   *)
(* file in the order of the names.                                         *)

ReadCurrentForList(p) ==
    /\ Step(p, "read_current", "list_names")
    /\ req[p].op = "list"
    /\ UNCHANGED <<disk, locks, req, mem, bookkeeping>>

ListNames(p) ==
    /\ Step(p, "list_names", "list_file")
    /\ mem' = [mem EXCEPT ![p].names = DOMAIN revisions[req[p].action]]
    /\ UNCHANGED <<disk, locks, req, bookkeeping>>

ListFile(p) ==
    /\ \E n \in mem[p].names :
          /\ \A m \in mem[p].names : n <= m
          /\ mem' = [mem EXCEPT
                        ![p].names = @ \ {n},
                        ![p].rows = Append(@, Row(req[p].action, n)),
                        ![p].status = 200]
          /\ Step(p, "list_file",
                  IF mem[p].names = {n} THEN "reply" ELSE "list_file")
    /\ UNCHANGED <<disk, locks, req, bookkeeping>>

-----------------------------------------------------------------------------
\* The response is sent, and the handler is free for another request.
Reply(p) ==
    /\ Step(p, "reply", "idle")
    /\ req' = [req EXCEPT ![p] = NoRequest]
    /\ mem' = [mem EXCEPT ![p] = NoMemory]
    /\ accepted' = IF req[p].op = "ingest" /\ mem[p].status \in {200, 202}
                   THEN accepted \cup {req[p].event} ELSE accepted
    /\ opened' = IF req[p].op = "create" /\ mem[p].status = 201
                 THEN opened \cup {<<req[p].action, req[p].refund>>}
                 ELSE opened
    /\ UNCHANGED <<disk, locks, faults>>

\* A file operation fails with anything but ENOENT: the exception leaves
\* every callback, releasing the locks, and is answered 500.
IOError(p) ==
    /\ faults < MaxFaults
    /\ pc[p] \notin {"idle", "reply"}
    /\ Answer(p, pc[p], 500)
    /\ Leave(p)
    /\ faults' = faults + 1
    /\ UNCHANGED <<disk, req, accepted, opened>>

\* The process stops and is started again on the same data directory.
Crash ==
    /\ faults < MaxFaults
    /\ faults' = faults + 1
    /\ locks' = [k \in LockKeys |-> <<>>]
    /\ pc' = [p \in Handlers |-> "idle"]
    /\ req' = [p \in Handlers |-> NoRequest]
    /\ mem' = [p \in Handlers |-> NoMemory]
    /\ UNCHANGED <<disk, accepted, opened>>

-----------------------------------------------------------------------------
Arrival(p) ==
    \/ \E a \in Actions, r \in Refunds \cup {Absent} : ReceiveCreate(p, a, r)
    \/ \E e \in Events : ReceiveWebhook(p, e)
    \/ \E a \in Actions : ReceiveGet(p, a)
    \/ \E a \in Actions : ReceiveList(p, a)

Create(p) ==
    \/ CreateConflict(p) \/ CreateCheck(p) \/ CreateRevision(p)
    \/ CreateCurrent(p) \/ CreateMetadata(p)
    \/ LinkConflict(p) \/ LinkRead(p) \/ LinkWrite(p)

Read(p) ==
    \/ FindRefund(p) \/ ReadMetadata(p) \/ ReadBundle(p)
    \/ ReadCurrentForGet(p) \/ ReadCurrentForList(p)
    \/ ListNames(p) \/ ListFile(p)

Ingest(p) ==
    \/ ReadCurrentDuplicate(p) \/ ReadCurrentBuild(p)
    \/ AppendDuplicate(p) \/ AppendCheck(p) \/ AppendRevision(p)
    \/ AppendCurrent(p) \/ AppendMetadata(p)

\* What handler p does by itself once it has a request.
Progress(p) == Create(p) \/ Read(p) \/ Ingest(p) \/ Reply(p)

Next ==
    \/ \E p \in Handlers : Arrival(p) \/ Progress(p) \/ IOError(p)
    \/ Crash

Spec == Init /\ [][Next]_vars

-----------------------------------------------------------------------------
(* Fairness.  The event loop completes every file operation and runs every *)
(* continuation (weak fairness of Progress), so a lock queue drains too.   *)
(* Stripe delivers an event again until a delivery is answered 2xx, so     *)
(* such a delivery finds a free handler infinitely often (strong fairness).*)

Redeliver(e) ==
    /\ e \notin accepted
    /\ \E p \in Handlers : ReceiveWebhook(p, e)

FairSpec ==
    /\ Spec
    /\ \A p \in Handlers : WF_vars(Progress(p))

RetryingSpec ==
    /\ FairSpec
    /\ \A e \in Events : SF_vars(Redeliver(e))
==============================================================================
