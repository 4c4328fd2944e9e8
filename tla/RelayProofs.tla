------------------------------ MODULE RelayProofs ------------------------------
(***************************************************************************)
(* Proofs about the Relay, for any sets of handlers, actions, refunds and  *)
(* events, any number of failures, and whether or not some action is named *)
(* like the index lock.                                                    *)
(*                                                                         *)
(* The argument: a step of handler p changes no other handler's state      *)
(* (OthersKept), no lock another handler has been granted (GrantsKept),    *)
(* and files only in the growing direction and under the lock that covers  *)
(* them (FilesGrow, FilesGuarded); so what another handler knows stays     *)
(* true (OthersInv), and only p's own next step and the files it writes    *)
(* are left to look at, action by action.                                  *)
(***************************************************************************)
EXTENDS RelayInvariant, TLAPS

\* What handler p may do in one step.
HandlerStep(p) == Arrival(p) \/ Progress(p) \/ IOError(p)

-----------------------------------------------------------------------------
(* Types.                                                                  *)

\* Replacing one field of a handler's memory by a value of its type.
LEMMA MemoryUpdates ==
    ASSUME NEW m \in Memory
    PROVE  /\ \A x \in Statuses : [m EXCEPT !.status = x] \in Memory
           /\ \A x \in Metadata : [m EXCEPT !.meta = x] \in Memory
           /\ \A x \in Bundles : [m EXCEPT !.bundle = x] \in Memory
           /\ \A x \in [Refunds -> Actions \cup {Absent}] :
                 [m EXCEPT !.links = x] \in Memory
           /\ \A x \in SUBSET Nat : [m EXCEPT !.names = x] \in Memory
           /\ \A x \in Listings : [m EXCEPT !.rows = x] \in Memory
           /\ \A x \in Digests \cup {Absent} :
                 [m EXCEPT !.summary = x] \in Memory
<1>1. \A x \in Statuses : [m EXCEPT !.status = x] \in Memory
  BY DEF Memory
<1>2. \A x \in Metadata : [m EXCEPT !.meta = x] \in Memory
  BY DEF Memory
<1>3. \A x \in Bundles : [m EXCEPT !.bundle = x] \in Memory
  BY DEF Memory
<1>4. \A x \in [Refunds -> Actions \cup {Absent}] :
         [m EXCEPT !.links = x] \in Memory
  BY DEF Memory
<1>5. \A x \in SUBSET Nat : [m EXCEPT !.names = x] \in Memory
  BY DEF Memory
<1>6. \A x \in Listings : [m EXCEPT !.rows = x] \in Memory
  BY DEF Memory
<1>7. \A x \in Digests \cup {Absent} : [m EXCEPT !.summary = x] \in Memory
  BY DEF Memory
<1> QED BY <1>1, <1>2, <1>3, <1>4, <1>5, <1>6, <1>7

\* A step that answers leaves the counters and the memories well typed.
LEMMA AnswerType ==
    ASSUME TypeOK, NEW p \in Handlers, NEW from, NEW status \in Statuses,
           Answer(p, from, status)
    PROVE  /\ pc' \in [Handlers -> PCs]
           /\ mem' \in [Handlers -> Memory]
           /\ pc'[p] = "reply"
           /\ \A q \in Handlers \ {p} : pc'[q] = pc[q] /\ mem'[q] = mem[q]
<1>1. [mem[p] EXCEPT !.status = status] \in Memory
  BY MemoryUpdates DEF TypeOK
<1> QED BY <1>1 DEF TypeOK, Answer, Step, PCs

\* A step to a known counter leaves the counters well typed.
LEMMA StepType ==
    ASSUME TypeOK, NEW p \in Handlers, NEW from, NEW to \in PCs,
           Step(p, from, to)
    PROVE  /\ pc' \in [Handlers -> PCs]
           /\ pc'[p] = to
           /\ \A q \in Handlers \ {p} : pc'[q] = pc[q]
  BY DEF TypeOK, Step

\* Releasing locks leaves queues of tickets.
LEMMA LeaveType ==
    ASSUME TypeOK, NEW p \in Handlers, Leave(p)
    PROVE  locks' \in [LockKeys -> Seq(Tickets)]
<1>1. \A k \in LockKeys : locks[k] \in Seq(Tickets)
  BY DEF TypeOK, StoreTypeOK
<1>2. \A k \in LockKeys : locks[k] # <<>> => Tail(locks[k]) \in Seq(Tickets)
  BY <1>1
<1> QED BY <1>1, <1>2 DEF Leave

\* Queueing a ticket leaves queues of tickets.
LEMMA EnterType ==
    ASSUME TypeOK, NEW k \in LockKeys, NEW t \in Tickets, Enter(k, t)
    PROVE  locks' \in [LockKeys -> Seq(Tickets)]
<1>1. Append(locks[k], t) \in Seq(Tickets)
  BY DEF TypeOK, StoreTypeOK
<1> QED BY <1>1 DEF TypeOK, StoreTypeOK, Enter

\* The tickets of a handler are tickets.
LEMMA TicketTypes ==
    ASSUME NEW p \in Handlers
    PROVE  OuterTicket(p) \in Tickets /\ InnerTicket(p) \in Tickets
  BY DEF OuterTicket, InnerTicket, Tickets, Levels

\* The counters are what PCs says.
LEMMA PCTypes ==
    /\ CreatePCs \cup ReadPCs \cup AppendPCs \cup ListPCs \subseteq PCs
    /\ {"idle", "find_refund", "reply"} \subseteq PCs
  BY DEF PCs

\* Storing a new value in memory field by field keeps memories well typed.
LEMMA MemoryType ==
    ASSUME TypeOK, NEW p \in Handlers, NEW m \in Memory,
           mem' = [mem EXCEPT ![p] = m]
    PROVE  mem' \in [Handlers -> Memory]
  BY DEF TypeOK

\* Arrivals keep the types.
LEMMA ArrivalType ==
    ASSUME TypeOK, NEW p \in Handlers, Arrival(p)
    PROVE  TypeOK'
<1>1. ASSUME NEW r \in Requests, NEW to \in PCs, Receive(p, r, to)
      PROVE  pc' \in [Handlers -> PCs] /\ req' \in [Handlers -> Requests]
  BY <1>1 DEF Receive, TypeOK
<1>2. CASE \E a \in Actions, r \in Refunds \cup {Absent} : ReceiveCreate(p, a, r)
  <2>1. PICK a \in Actions, r \in Refunds \cup {Absent} : ReceiveCreate(p, a, r)
    BY <1>2
  <2>2. [NoRequest EXCEPT !.op = "create", !.action = a, !.refund = r] \in Requests
    BY DEF NoRequest, Requests
  <2>3. "create_check" \in PCs
    BY DEF PCs, CreatePCs
  <2>4. locks' \in [LockKeys -> Seq(Tickets)]
    BY <2>1, TicketTypes, EnterType DEF ReceiveCreate, LockKeys
  <2> QED
    BY <1>1, <2>1, <2>2, <2>3, <2>4
    DEF ReceiveCreate, Receive, TypeOK, StoreTypeOK, disk, bookkeeping
<1>3. CASE \E e \in Events : ReceiveWebhook(p, e)
  <2>1. PICK e \in Events : ReceiveWebhook(p, e)
    BY <1>3
  <2>2. [NoRequest EXCEPT !.op = "ingest", !.event = e] \in Requests
    BY DEF NoRequest, Requests
  <2> QED
    BY <1>1, <2>1, <2>2, PCTypes
    DEF ReceiveWebhook, Receive, TypeOK, StoreTypeOK, disk, bookkeeping
<1>4. CASE \E a \in Actions : ReceiveGet(p, a)
  <2>1. PICK a \in Actions : ReceiveGet(p, a)
    BY <1>4
  <2>2. [NoRequest EXCEPT !.op = "get", !.action = a] \in Requests
    BY DEF NoRequest, Requests
  <2>3. "read_metadata" \in PCs
    BY DEF PCs, ReadPCs
  <2> QED
    BY <1>1, <2>1, <2>2, <2>3
    DEF ReceiveGet, Receive, TypeOK, StoreTypeOK, disk, bookkeeping
<1>5. CASE \E a \in Actions : ReceiveList(p, a)
  <2>1. PICK a \in Actions : ReceiveList(p, a)
    BY <1>5
  <2>2. [NoRequest EXCEPT !.op = "list", !.action = a] \in Requests
    BY DEF NoRequest, Requests
  <2>3. "read_metadata" \in PCs
    BY DEF PCs, ReadPCs
  <2> QED
    BY <1>1, <2>1, <2>2, <2>3
    DEF ReceiveList, Receive, TypeOK, StoreTypeOK, disk, bookkeeping
<1> QED BY <1>2, <1>3, <1>4, <1>5 DEF Arrival

\* Writing a bundle under a revision number keeps the directories' type.
LEMMA WriteRevisionType ==
    ASSUME TypeOK, NEW a \in Actions, NEW n \in Nat, NEW b \in Bundles,
           WriteRevision(a, n, b)
    PROVE  /\ DOMAIN revisions' = Actions
           /\ \A c \in Actions :
                 /\ DOMAIN revisions'[c] \subseteq Nat
                 /\ \A m \in DOMAIN revisions'[c] : revisions'[c][m] \in Bundles
<1>1. DOMAIN revisions' = Actions
  BY DEF WriteRevision, TypeOK, StoreTypeOK
<1>2. ASSUME NEW c \in Actions, c # a
      PROVE  revisions'[c] = revisions[c]
  BY <1>2 DEF WriteRevision, TypeOK, StoreTypeOK
<1>3. revisions'[a] = Saved(revisions[a], n, b)
  BY DEF WriteRevision, TypeOK, StoreTypeOK
<1>4. /\ DOMAIN revisions'[a] = DOMAIN revisions[a] \cup {n}
      /\ revisions'[a][n] = b
      /\ \A m \in DOMAIN revisions[a] \ {n} : revisions'[a][m] = revisions[a][m]
  BY <1>3 DEF Saved
<1>5. /\ DOMAIN revisions[a] \subseteq Nat
      /\ \A m \in DOMAIN revisions[a] : revisions[a][m] \in Bundles
  BY DEF TypeOK, StoreTypeOK
<1>6. /\ DOMAIN revisions'[a] \subseteq Nat
      /\ \A m \in DOMAIN revisions'[a] : revisions'[a][m] \in Bundles
  BY <1>4, <1>5
<1>7. ASSUME NEW c \in Actions, c # a
      PROVE  /\ DOMAIN revisions'[c] \subseteq Nat
             /\ \A m \in DOMAIN revisions'[c] : revisions'[c][m] \in Bundles
  BY <1>2, <1>7 DEF TypeOK, StoreTypeOK
<1> QED BY <1>1, <1>6, <1>7

\* The bundles and metadata handlers write are what the files hold.
LEMMA FirstBundleType == FirstBundle \in Bundles /\ Digest(FirstBundle) \in Digests
  BY DEF FirstBundle, Bundles, Digests, Digest, Logs

LEMMA DigestType ==
    ASSUME NEW b \in Bundles
    PROVE  Digest(b) \in Digests
  BY DEF Bundles, Digests, Digest

LEMMA FirstMetadataType ==
    ASSUME TypeOK, NEW p \in Handlers
    PROVE  FirstMetadata(p) \in Metadata
  BY DEF TypeOK, Requests, FirstMetadata, Metadata, Logs

\* The metadata an appender is about to write, and what becomes of it.
LEMMA NextMetadataType ==
    ASSUME NEW p \in Handlers, mem[p].meta \in Metadata, req[p].event \in Events
    PROVE  /\ NextMetadata(p) \in Metadata
           /\ NextMetadata(p).revision = mem[p].meta.revision + 1
           /\ NextMetadata(p).refund = mem[p].meta.refund
           /\ NextMetadata(p).seen = Append(mem[p].meta.seen, req[p].event)
<1>1. Append(mem[p].meta.seen, req[p].event) \in Logs
  BY DEF Metadata, Logs
<1>2. mem[p].meta.revision + 1 \in Nat
  BY DEF Metadata
<1> QED BY <1>1, <1>2 DEF NextMetadata, Metadata

LEMMA NextBundleType ==
    ASSUME NEW p \in Handlers, mem[p].meta \in Metadata,
           mem[p].bundle \in Bundles, req[p].event \in Events
    PROVE  NextBundle(p) \in Bundles
<1>1. Append(mem[p].bundle.log, req[p].event) \in Logs
  BY DEF Bundles, Logs
<1>2. mem[p].meta.revision + 1 \in Nat
  BY DEF Metadata
<1> QED BY <1>1, <1>2, DigestType DEF NextBundle, Bundles

\* Handler steps keep the types.
LEMMA CreateType ==
    ASSUME Inv, NEW p \in Handlers, Create(p)
    PROVE  TypeOK'
<1>1. TypeOK
  BY DEF Inv
<1>2. /\ pc[p] \in CreatePCs => req[p].action \in Actions
      /\ pc[p] \in IndexLockPCs => req[p].refund \in Refunds
  BY DEF Inv, RequestInv
<1>3. \A x \in {201, 400, 409} : x \in Statuses
  BY DEF Statuses
<1>4. CASE CreateConflict(p)
  <2>1. pc' \in [Handlers -> PCs] /\ mem' \in [Handlers -> Memory]
    BY <1>1, <1>3, <1>4, AnswerType DEF CreateConflict
  <2> QED
    BY <1>1, <1>4, <2>1, LeaveType
    DEF CreateConflict, TypeOK, StoreTypeOK, disk, bookkeeping
<1>5. CASE CreateCheck(p)
  <2>1. pc' \in [Handlers -> PCs]
    BY <1>1, <1>5, StepType DEF CreateCheck, PCs, CreatePCs
  <2> QED
    BY <1>1, <1>5, <2>1 DEF CreateCheck, TypeOK, StoreTypeOK, disk, bookkeeping
<1>6. CASE CreateRevision(p)
  <2>1. pc' \in [Handlers -> PCs]
    BY <1>1, <1>6, StepType DEF CreateRevision, PCs, CreatePCs
  <2>2. req[p].action \in Actions
    BY <1>2, <1>6 DEF CreateRevision, Step, CreatePCs
  <2>3. /\ DOMAIN revisions' = Actions
        /\ \A c \in Actions :
              /\ DOMAIN revisions'[c] \subseteq Nat
              /\ \A m \in DOMAIN revisions'[c] : revisions'[c][m] \in Bundles
    BY <1>1, <1>6, <2>2, FirstBundleType, WriteRevisionType DEF CreateRevision
  <2> QED
    BY <1>1, <1>6, <2>1, <2>3
    DEF CreateRevision, TypeOK, StoreTypeOK, disk, bookkeeping
<1>7. CASE CreateCurrent(p)
  <2>1. pc' \in [Handlers -> PCs]
    BY <1>1, <1>7, StepType DEF CreateCurrent, PCs, CreatePCs
  <2>2. current' \in [Actions -> Digests \cup {Absent}]
    BY <1>1, <1>7, FirstBundleType
    DEF CreateCurrent, WriteCurrent, TypeOK, StoreTypeOK
  <2> QED
    BY <1>1, <1>7, <2>1, <2>2
    DEF CreateCurrent, TypeOK, StoreTypeOK, disk, bookkeeping
<1>8. CASE CreateMetadata(p)
  <2>1. metadata' \in [Actions -> Metadata \cup {Absent}]
    BY <1>1, <1>8, FirstMetadataType
    DEF CreateMetadata, WriteMetadata, TypeOK, StoreTypeOK
  <2>2. /\ pc' \in [Handlers -> PCs]
        /\ mem' \in [Handlers -> Memory]
        /\ locks' \in [LockKeys -> Seq(Tickets)]
    <3>1. ASSUME NEW status \in {201, 400}, Answer(p, "create_metadata", status), Leave(p)
          PROVE  /\ pc' \in [Handlers -> PCs]
                 /\ mem' \in [Handlers -> Memory]
                 /\ locks' \in [LockKeys -> Seq(Tickets)]
      BY <1>1, <1>3, <3>1, AnswerType, LeaveType
    <3>2. CASE /\ Step(p, "create_metadata", "link_read")
               /\ Enter(IndexKey, InnerTicket(p))
               /\ UNCHANGED mem
      <4>1. pc' \in [Handlers -> PCs]
        BY <1>1, <3>2, StepType DEF PCs, CreatePCs
      <4>2. IndexKey \in LockKeys
        BY DEF LockKeys
      <4> QED BY <1>1, <3>2, <4>1, <4>2, TicketTypes, EnterType DEF TypeOK
    <3> QED BY <1>8, <3>1, <3>2 DEF CreateMetadata
  <2> QED
    BY <1>1, <1>8, <2>1, <2>2
    DEF CreateMetadata, TypeOK, StoreTypeOK, bookkeeping
<1>9. CASE LinkConflict(p)
  <2>1. pc' \in [Handlers -> PCs] /\ mem' \in [Handlers -> Memory]
    BY <1>1, <1>3, <1>9, AnswerType DEF LinkConflict
  <2> QED
    BY <1>1, <1>9, <2>1, LeaveType
    DEF LinkConflict, TypeOK, StoreTypeOK, disk, bookkeeping
<1>10. CASE LinkRead(p)
  <2>1. pc' \in [Handlers -> PCs]
    BY <1>1, <1>10, StepType DEF LinkRead, PCs, CreatePCs
  <2>2. [mem[p] EXCEPT !.links = index] \in Memory
    BY <1>1, MemoryUpdates DEF TypeOK, StoreTypeOK
  <2>3. mem' \in [Handlers -> Memory]
    BY <1>1, <1>10, <2>2, MemoryType DEF LinkRead
  <2> QED
    BY <1>1, <1>10, <2>1, <2>3
    DEF LinkRead, TypeOK, StoreTypeOK, disk, bookkeeping
<1>11. CASE LinkWrite(p)
  <2>1. pc' \in [Handlers -> PCs] /\ mem' \in [Handlers -> Memory]
    BY <1>1, <1>3, <1>11, AnswerType DEF LinkWrite
  <2>2. /\ mem[p].links = index
        /\ req[p].action \in Actions
    BY <1>2, <1>11
    DEF Inv, LinkerInv, LinkWrite, Answer, Step, CreatePCs
  <2>3. index' \in [Refunds -> Actions \cup {Absent}]
    BY <1>1, <1>11, <2>2 DEF LinkWrite, WriteIndex, TypeOK, StoreTypeOK
  <2> QED
    BY <1>1, <1>11, <2>1, <2>3, LeaveType
    DEF LinkWrite, TypeOK, StoreTypeOK, bookkeeping
<1> QED
  BY <1>4, <1>5, <1>6, <1>7, <1>8, <1>9, <1>10, <1>11 DEF Create

LEMMA ReadType ==
    ASSUME Inv, NEW p \in Handlers, Read(p)
    PROVE  TypeOK'
<1>1. TypeOK
  BY DEF Inv
<1>2. /\ pc[p] \in ReadPCs \cup ListPCs => req[p].action \in Actions
      /\ pc[p] = "find_refund" => req[p].event \in Events
      /\ pc[p] \in {"read_bundle"} \cup ListPCs =>
            /\ mem[p].meta \in Metadata
            /\ mem[p].meta.revision \in Committed(req[p].action)
  BY DEF Inv, RequestInv, ReaderInv
<1>3. \A x \in {200, 404} : x \in Statuses
  BY DEF Statuses
<1>4. CASE FindRefund(p)
  <2>1. CASE Answer(p, "find_refund", 404) /\ UNCHANGED req
    <3>1. pc' \in [Handlers -> PCs] /\ mem' \in [Handlers -> Memory]
      BY <1>1, <1>3, <2>1, AnswerType
    <3> QED
      BY <1>1, <1>4, <2>1, <3>1
      DEF FindRefund, TypeOK, StoreTypeOK, disk, bookkeeping
  <2>2. CASE /\ Step(p, "find_refund", "read_metadata")
             /\ LinkedAction(p) # Absent
             /\ req' = [req EXCEPT ![p].action = LinkedAction(p)]
             /\ UNCHANGED mem
    <3>1. pc' \in [Handlers -> PCs]
      BY <1>1, <2>2, StepType DEF PCs, ReadPCs
    <3>2. LinkedAction(p) \in Actions
      BY <1>1, <1>2, <2>2, RefundOfAssumption
      DEF LinkedAction, Step, TypeOK, StoreTypeOK
    <3>3. [req[p] EXCEPT !.action = LinkedAction(p)] \in Requests
      BY <1>1, <3>2 DEF TypeOK, Requests
    <3>4. req' \in [Handlers -> Requests]
      BY <1>1, <2>2, <3>3 DEF TypeOK
    <3> QED
      BY <1>1, <1>4, <2>2, <3>1, <3>4
      DEF FindRefund, TypeOK, StoreTypeOK, disk, bookkeeping
  <2> QED BY <1>4, <2>1, <2>2 DEF FindRefund
<1>5. CASE ReadMetadata(p)
  <2>1. pc' \in [Handlers -> PCs] /\ mem' \in [Handlers -> Memory]
    <3>1. CASE Answer(p, "read_metadata", 404)
      BY <1>1, <1>3, <3>1, AnswerType
    <3>2. CASE /\ Step(p, "read_metadata", "read_bundle")
               /\ Exists(req[p].action)
               /\ mem' = [mem EXCEPT ![p].meta = metadata[req[p].action]]
      <4>1. pc' \in [Handlers -> PCs]
        BY <1>1, <3>2, StepType DEF PCs, ReadPCs
      <4>2. metadata[req[p].action] \in Metadata
        BY <1>1, <1>2, <3>2 DEF Step, Exists, ReadPCs, TypeOK, StoreTypeOK
      <4>3. [mem[p] EXCEPT !.meta = metadata[req[p].action]] \in Memory
        BY <1>1, <4>2, MemoryUpdates DEF TypeOK
      <4> QED BY <1>1, <3>2, <4>1, <4>3, MemoryType
    <3> QED BY <1>5, <3>1, <3>2 DEF ReadMetadata
  <2> QED
    BY <1>1, <1>5, <2>1 DEF ReadMetadata, TypeOK, StoreTypeOK, disk, bookkeeping
<1>6. CASE ReadBundle(p)
  <2> DEFINE b == revisions[req[p].action][mem[p].meta.revision]
  <2>1. pc' \in [Handlers -> PCs]
    BY <1>1, <1>6, StepType DEF ReadBundle, PCs, ReadPCs
  <2>2. /\ req[p].action \in Actions
        /\ mem[p].meta.revision \in Committed(req[p].action)
    BY <1>2, <1>6 DEF ReadBundle, Step, ReadPCs
  <2>3. b \in Bundles
    BY <1>1, <2>2 DEF Inv, FilesInv, Committed, TypeOK, StoreTypeOK
  <2>4. [mem[p] EXCEPT !.bundle = b] \in Memory
    BY <1>1, <2>3, MemoryUpdates DEF TypeOK
  <2>5. mem' \in [Handlers -> Memory]
    BY <1>1, <1>6, <2>4, MemoryType DEF ReadBundle
  <2> QED
    BY <1>1, <1>6, <2>1, <2>5
    DEF ReadBundle, TypeOK, StoreTypeOK, disk, bookkeeping
<1>7. CASE ReadCurrentForGet(p)
  <2> DEFINE m == [mem[p] EXCEPT !.summary = current[req[p].action]]
  <2>1. pc' \in [Handlers -> PCs]
    BY <1>1, <1>7, StepType, PCTypes DEF ReadCurrentForGet
  <2>2. current[req[p].action] \in Digests \cup {Absent}
    BY <1>1, <1>2, <1>7
    DEF ReadCurrentForGet, Step, ReadPCs, TypeOK, StoreTypeOK
  <2>3. m \in Memory
    BY <1>1, <2>2, MemoryUpdates DEF TypeOK
  <2>4. [m EXCEPT !.status = 200] \in Memory
    <3> HIDE DEF m
    <3> QED BY <1>3, <2>3, MemoryUpdates
  <2>5. mem' = [mem EXCEPT ![p] = [m EXCEPT !.status = 200]]
    BY <1>1, <1>7 DEF ReadCurrentForGet, TypeOK
  <2>6. mem' \in [Handlers -> Memory]
    BY <1>1, <2>4, <2>5, MemoryType
  <2> QED
    BY <1>1, <1>7, <2>1, <2>6
    DEF ReadCurrentForGet, TypeOK, StoreTypeOK, disk, bookkeeping
<1>8. CASE ReadCurrentForList(p)
  <2>1. pc' \in [Handlers -> PCs]
    BY <1>1, <1>8, StepType DEF ReadCurrentForList, PCs, ListPCs
  <2> QED
    BY <1>1, <1>8, <2>1
    DEF ReadCurrentForList, TypeOK, StoreTypeOK, disk, bookkeeping
<1>9. CASE ListNames(p)
  <2> DEFINE names == DOMAIN revisions[req[p].action]
  <2>1. pc' \in [Handlers -> PCs]
    BY <1>1, <1>9, StepType DEF ListNames, PCs, ListPCs
  <2>2. names \in SUBSET Nat
    BY <1>1, <1>2, <1>9 DEF ListNames, Step, ListPCs, TypeOK, StoreTypeOK
  <2>3. [mem[p] EXCEPT !.names = names] \in Memory
    BY <1>1, <2>2, MemoryUpdates DEF TypeOK
  <2>4. mem' \in [Handlers -> Memory]
    BY <1>1, <1>9, <2>3, MemoryType DEF ListNames
  <2> QED
    BY <1>1, <1>9, <2>1, <2>4
    DEF ListNames, TypeOK, StoreTypeOK, disk, bookkeeping
<1>10. CASE ListFile(p)
  <2>1. PICK n \in mem[p].names :
          /\ mem' = [mem EXCEPT
                        ![p].names = @ \ {n},
                        ![p].rows = Append(@, Row(req[p].action, n)),
                        ![p].status = 200]
          /\ Step(p, "list_file",
                  IF mem[p].names = {n} THEN "reply" ELSE "list_file")
    BY <1>10 DEF ListFile
  <2> DEFINE m1 == [mem[p] EXCEPT !.names = mem[p].names \ {n}]
             m2 == [m1 EXCEPT !.rows = Append(mem[p].rows, Row(req[p].action, n))]
             m3 == [m2 EXCEPT !.status = 200]
  <2>2. "list_file" \in PCs /\ "reply" \in PCs
    BY DEF PCs, ListPCs
  <2>3. pc' \in [Handlers -> PCs]
    BY <1>1, <2>1, <2>2, StepType
  <2>4. mem[p] \in Memory
    BY <1>1 DEF TypeOK
  <2>5. mem[p].names \in SUBSET Nat /\ mem[p].rows \in Listings
    BY <2>4 DEF Memory
  <2>6. m1 \in Memory
    BY <2>4, <2>5, MemoryUpdates
  <2>7. pc[p] = "list_file"
    BY <2>1 DEF Step
  <2>8. n \in DOMAIN revisions[req[p].action] /\ req[p].action \in Actions
    BY <1>2, <2>1, <2>7 DEF Inv, ReaderInv, ListPCs
  <2>9. Row(req[p].action, n) \in [revision : Nat, bundle : Bundles]
    BY <1>1, <2>8 DEF Row, TypeOK, StoreTypeOK
  <2>10. Append(mem[p].rows, Row(req[p].action, n)) \in Listings
    BY <2>5, <2>9 DEF Listings
  <2>11. m2 \in Memory
    <3> HIDE DEF m1
    <3> QED BY <2>6, <2>10, MemoryUpdates
  <2>12. m3 \in Memory
    <3> HIDE DEF m2
    <3> QED BY <1>3, <2>11, MemoryUpdates
  <2>13. mem' = [mem EXCEPT ![p] = m3]
    BY <1>1, <2>1, <2>4 DEF TypeOK, Memory
  <2>14. mem' \in [Handlers -> Memory]
    BY <1>1, <2>12, <2>13, MemoryType
  <2> QED
    BY <1>1, <1>10, <2>3, <2>14
    DEF ListFile, TypeOK, StoreTypeOK, disk, bookkeeping
<1> QED
  BY <1>4, <1>5, <1>6, <1>7, <1>8, <1>9, <1>10 DEF Read

LEMMA IngestType ==
    ASSUME Inv, NEW p \in Handlers, Ingest(p)
    PROVE  TypeOK'
<1>1. TypeOK
  BY DEF Inv
<1>2. /\ pc[p] \in {"read_current"} \cup AppendPCs => req[p].action \in Actions
      /\ req[p].op = "ingest" => req[p].event \in Events
      /\ pc[p] \in AppendPCs => req[p].event \in Events
      /\ pc[p] = "read_current" =>
            mem[p].meta \in Metadata /\ mem[p].bundle \in Bundles
      /\ pc[p] \in AppendPCs =>
            /\ mem[p].bundle \in Bundles
            /\ metadata[req[p].action] \in Metadata
      /\ pc[p] \in AppendPCs \ {"append_check"} => mem[p].meta \in Metadata
  BY <1>1 DEF Inv, RequestInv, ReaderInv, AppenderInv, ReadPCs, AppendPCs,
              Exists, TypeOK, StoreTypeOK
<1>3. \A x \in {200, 202} : x \in Statuses
  BY DEF Statuses
<1>4. CASE ReadCurrentDuplicate(p)
  <2>1. pc' \in [Handlers -> PCs] /\ mem' \in [Handlers -> Memory]
    BY <1>1, <1>3, <1>4, AnswerType DEF ReadCurrentDuplicate
  <2> QED
    BY <1>1, <1>4, <2>1
    DEF ReadCurrentDuplicate, TypeOK, StoreTypeOK, disk, bookkeeping
<1>5. CASE ReadCurrentBuild(p)
  <2>1. pc' \in [Handlers -> PCs]
    BY <1>1, <1>5, StepType DEF ReadCurrentBuild, PCs, AppendPCs
  <2>2. NextBundle(p) \in Bundles
    BY <1>2, <1>5, NextBundleType DEF ReadCurrentBuild, Step
  <2>3. [mem[p] EXCEPT !.bundle = NextBundle(p)] \in Memory
    BY <1>1, <2>2, MemoryUpdates DEF TypeOK
  <2>4. mem' \in [Handlers -> Memory]
    BY <1>1, <1>5, <2>3, MemoryType DEF ReadCurrentBuild
  <2>5. req[p].action \in LockKeys
    BY <1>2, <1>5 DEF ReadCurrentBuild, Step, LockKeys
  <2>6. locks' \in [LockKeys -> Seq(Tickets)]
    BY <1>1, <1>5, <2>5, TicketTypes, EnterType DEF ReadCurrentBuild
  <2> QED
    BY <1>1, <1>5, <2>1, <2>4, <2>6
    DEF ReadCurrentBuild, TypeOK, StoreTypeOK, disk, bookkeeping
<1>6. CASE AppendDuplicate(p)
  <2>1. pc' \in [Handlers -> PCs] /\ mem' \in [Handlers -> Memory]
    BY <1>1, <1>3, <1>6, AnswerType DEF AppendDuplicate
  <2> QED
    BY <1>1, <1>6, <2>1, LeaveType
    DEF AppendDuplicate, TypeOK, StoreTypeOK, disk, bookkeeping
<1>7. CASE AppendCheck(p)
  <2>1. pc' \in [Handlers -> PCs]
    BY <1>1, <1>7, StepType DEF AppendCheck, PCs, AppendPCs
  <2>2. metadata[req[p].action] \in Metadata
    BY <1>2, <1>7 DEF AppendCheck, Step, AppendPCs
  <2>3. [mem[p] EXCEPT !.meta = metadata[req[p].action]] \in Memory
    BY <1>1, <2>2, MemoryUpdates DEF TypeOK
  <2>4. mem' \in [Handlers -> Memory]
    BY <1>1, <1>7, <2>3, MemoryType DEF AppendCheck
  <2> QED
    BY <1>1, <1>7, <2>1, <2>4
    DEF AppendCheck, TypeOK, StoreTypeOK, disk, bookkeeping
<1>8. CASE AppendRevision(p)
  <2>1. pc' \in [Handlers -> PCs]
    BY <1>1, <1>8, StepType DEF AppendRevision, PCs, AppendPCs
  <2>2. pc[p] \in AppendPCs \ {"append_check"}
    BY <1>8 DEF AppendRevision, Step, AppendPCs
  <2>3. NextMetadata(p).revision \in Nat
    BY <1>2, <2>2, NextMetadataType DEF Metadata
  <2>4. /\ DOMAIN revisions' = Actions
        /\ \A c \in Actions :
              /\ DOMAIN revisions'[c] \subseteq Nat
              /\ \A m \in DOMAIN revisions'[c] : revisions'[c][m] \in Bundles
    BY <1>1, <1>2, <1>8, <2>2, <2>3, WriteRevisionType DEF AppendRevision
  <2> QED
    BY <1>1, <1>8, <2>1, <2>4
    DEF AppendRevision, TypeOK, StoreTypeOK, bookkeeping
<1>9. CASE AppendCurrent(p)
  <2>1. pc' \in [Handlers -> PCs]
    BY <1>1, <1>9, StepType DEF AppendCurrent, PCs, AppendPCs
  <2>2. mem[p].bundle \in Bundles
    BY <1>2, <1>9 DEF AppendCurrent, Step, AppendPCs
  <2>3. current' \in [Actions -> Digests \cup {Absent}]
    BY <1>1, <1>9, <2>2, DigestType
    DEF AppendCurrent, WriteCurrent, TypeOK, StoreTypeOK
  <2> QED
    BY <1>1, <1>9, <2>1, <2>3
    DEF AppendCurrent, TypeOK, StoreTypeOK, bookkeeping
<1>10. CASE AppendMetadata(p)
  <2>1. pc' \in [Handlers -> PCs] /\ mem' \in [Handlers -> Memory]
    BY <1>1, <1>3, <1>10, AnswerType DEF AppendMetadata
  <2>2. pc[p] \in AppendPCs \ {"append_check"}
    BY <1>10 DEF AppendMetadata, Answer, Step, AppendPCs
  <2>3. NextMetadata(p) \in Metadata
    BY <1>2, <2>2, NextMetadataType
  <2>4. metadata' \in [Actions -> Metadata \cup {Absent}]
    BY <1>1, <1>10, <2>3
    DEF AppendMetadata, WriteMetadata, TypeOK, StoreTypeOK
  <2> QED
    BY <1>1, <1>10, <2>1, <2>4, LeaveType
    DEF AppendMetadata, TypeOK, StoreTypeOK, bookkeeping
<1> QED
  BY <1>4, <1>5, <1>6, <1>7, <1>8, <1>9, <1>10 DEF Ingest

LEMMA NoMemoryType == NoMemory \in Memory /\ NoRequest \in Requests
<1>1. <<>> \in Listings
  BY DEF Listings
<1> QED BY <1>1 DEF NoMemory, Memory, Statuses, NoRequest, Requests

LEMMA ReplyType ==
    ASSUME Inv, NEW p \in Handlers, Reply(p)
    PROVE  TypeOK'
<1>1. TypeOK
  BY DEF Inv
<1>2. pc' \in [Handlers -> PCs]
  BY <1>1, StepType, PCTypes DEF Reply
<1>3. mem' \in [Handlers -> Memory] /\ req' \in [Handlers -> Requests]
  BY <1>1, NoMemoryType DEF Reply, TypeOK
<1>4. accepted' \subseteq Events
  BY <1>1 DEF Reply, Inv, RequestInv, TypeOK
<1>5. req[p].op = "create" =>
          <<req[p].action, req[p].refund>> \in Actions \X (Refunds \cup {Absent})
  BY <1>1 DEF Inv, RequestInv, TypeOK, Requests
<1>6. opened' \subseteq Actions \X (Refunds \cup {Absent})
  BY <1>1, <1>5 DEF Reply, TypeOK
<1> QED
  BY <1>1, <1>2, <1>3, <1>4, <1>6 DEF Reply, TypeOK, StoreTypeOK, disk

LEMMA FaultType ==
    ASSUME Inv, (\E p \in Handlers : IOError(p)) \/ Crash
    PROVE  TypeOK'
<1>1. TypeOK
  BY DEF Inv
<1>2. ASSUME NEW p \in Handlers, IOError(p)
      PROVE  TypeOK'
  <2>1. 500 \in Statuses
    BY DEF Statuses
  <2>2. pc' \in [Handlers -> PCs] /\ mem' \in [Handlers -> Memory]
    BY <1>1, <1>2, <2>1, AnswerType DEF IOError
  <2>3. faults' \in 0..MaxFaults
    BY <1>1, <1>2, MaxFaultsAssumption DEF IOError, TypeOK
  <2> QED
    BY <1>1, <1>2, <2>2, <2>3, LeaveType DEF IOError, TypeOK, StoreTypeOK, disk
<1>3. CASE Crash
  <2>1. pc' \in [Handlers -> PCs]
    BY <1>3, PCTypes DEF Crash
  <2>2. mem' \in [Handlers -> Memory] /\ req' \in [Handlers -> Requests]
    BY <1>3, NoMemoryType DEF Crash
  <2>3. locks' \in [LockKeys -> Seq(Tickets)]
    BY <1>3 DEF Crash
  <2>4. faults' \in 0..MaxFaults
    BY <1>1, <1>3, MaxFaultsAssumption DEF Crash, TypeOK
  <2> QED
    BY <1>1, <1>3, <2>1, <2>2, <2>3, <2>4 DEF Crash, TypeOK, StoreTypeOK, disk
<1> QED BY <1>2, <1>3

-----------------------------------------------------------------------------
(* What a step of one handler leaves alone.                                *)

\* A step of handler p changes no other handler's state.
LEMMA OthersKept ==
    ASSUME TypeOK, NEW p \in Handlers, HandlerStep(p), NEW q \in Handlers, q # p
    PROVE  pc'[q] = pc[q] /\ req'[q] = req[q] /\ mem'[q] = mem[q]
<1>1. ASSUME NEW from, NEW to, Step(p, from, to)
      PROVE  pc'[q] = pc[q]
  BY <1>1 DEF Step, TypeOK
<1>2. ASSUME NEW from, NEW status, Answer(p, from, status)
      PROVE  pc'[q] = pc[q] /\ mem'[q] = mem[q]
  BY <1>2 DEF Answer, Step, TypeOK
<1>3. CASE Arrival(p)
  BY <1>3
  DEF Arrival, ReceiveCreate, ReceiveWebhook, ReceiveGet, ReceiveList, Receive,
      TypeOK
<1>4. CASE Create(p)
  BY <1>1, <1>2, <1>4
  DEF Create, CreateConflict, CreateCheck, CreateRevision, CreateCurrent,
      CreateMetadata, LinkConflict, LinkRead, LinkWrite, TypeOK
<1>5. CASE Read(p)
  <2>1. CASE ListFile(p)
    BY <1>1, <2>1 DEF ListFile, TypeOK
  <2>2. CASE ~ListFile(p)
    BY <1>1, <1>2, <1>5, <2>2
    DEF Read, FindRefund, ReadMetadata, ReadBundle, ReadCurrentForGet,
        ReadCurrentForList, ListNames, TypeOK
  <2> QED BY <2>1, <2>2
<1>6. CASE Ingest(p)
  BY <1>1, <1>2, <1>6
  DEF Ingest, ReadCurrentDuplicate, ReadCurrentBuild, AppendDuplicate,
      AppendCheck, AppendRevision, AppendCurrent, AppendMetadata, TypeOK
<1>7. CASE Reply(p) \/ IOError(p)
  BY <1>1, <1>2, <1>7 DEF Reply, IOError, TypeOK
<1> QED BY <1>3, <1>4, <1>5, <1>6, <1>7 DEF HandlerStep, Progress

\* A step of handler p leaves the locks alone, queues a ticket, or releases
\* p's locks on the way to its answer.
LEMMA LockSteps ==
    ASSUME Inv, NEW p \in Handlers, HandlerStep(p)
    PROVE  \/ UNCHANGED locks
           \/ \E k \in LockKeys, t \in Tickets : Enter(k, t)
           \/ Leave(p) /\ pc'[p] = "reply"
<1>1. TypeOK
  BY DEF Inv
<1>2. ASSUME NEW from, NEW status, Answer(p, from, status)
      PROVE  pc'[p] = "reply"
  BY <1>1, <1>2 DEF Answer, Step, TypeOK
<1>3. /\ OuterTicket(p) \in Tickets
      /\ InnerTicket(p) \in Tickets
      /\ IndexKey \in LockKeys
      /\ Actions \subseteq LockKeys
  BY TicketTypes DEF LockKeys
<1>4. CASE Arrival(p)
  BY <1>3, <1>4
  DEF Arrival, ReceiveCreate, ReceiveWebhook, ReceiveGet, ReceiveList
<1>5. CASE Create(p)
  BY <1>2, <1>3, <1>5
  DEF Create, CreateConflict, CreateCheck, CreateRevision, CreateCurrent,
      CreateMetadata, LinkConflict, LinkRead, LinkWrite
<1>6. CASE Read(p)
  BY <1>6
  DEF Read, FindRefund, ReadMetadata, ReadBundle, ReadCurrentForGet,
      ReadCurrentForList, ListNames, ListFile
<1>7. CASE Ingest(p)
  <2>1. CASE ReadCurrentBuild(p)
    <3>1. req[p].action \in LockKeys
      BY <1>3, <2>1 DEF ReadCurrentBuild, Step, Inv, RequestInv, ReadPCs
    <3> QED BY <1>3, <2>1, <3>1 DEF ReadCurrentBuild
  <2>2. CASE ~ReadCurrentBuild(p)
    BY <1>2, <1>7, <2>2
    DEF Ingest, ReadCurrentDuplicate, AppendDuplicate, AppendCheck,
        AppendRevision, AppendCurrent, AppendMetadata
  <2> QED BY <2>1, <2>2
<1>8. CASE Reply(p) \/ IOError(p)
  BY <1>2, <1>8 DEF Reply, IOError
<1> QED BY <1>4, <1>5, <1>6, <1>7, <1>8 DEF HandlerStep, Progress

\* A lock granted to a handler is taken from it by nobody else.
LEMMA GrantsKept ==
    ASSUME Inv, NEW p \in Handlers, HandlerStep(p),
           NEW q \in Handlers, NEW level, NEW k \in LockKeys,
           Holds(k, <<q, level>>), q # p \/ pc'[p] # "reply"
    PROVE  Holds(k, <<q, level>>)'
<1>1. locks \in [LockKeys -> Seq(Tickets)]
  BY DEF Inv, TypeOK, StoreTypeOK
<1>2. locks[k] \in Seq(Tickets) /\ locks[k] # <<>> /\ Head(locks[k]) = <<q, level>>
  BY <1>1 DEF Holds
<1>3. CASE UNCHANGED locks
  BY <1>3 DEF Holds
<1>4. CASE \E j \in LockKeys, t \in Tickets : Enter(j, t)
  <2>1. PICK j \in LockKeys, t \in Tickets : Enter(j, t)
    BY <1>4
  <2>2. /\ Append(locks[k], t) # <<>>
        /\ Head(Append(locks[k], t)) = Head(locks[k])
    BY <1>2
  <2>3. locks'[k] = IF k = j THEN Append(locks[k], t) ELSE locks[k]
    BY <1>1, <2>1 DEF Enter
  <2> QED BY <1>2, <2>2, <2>3 DEF Holds
<1>5. CASE Leave(p) /\ q # p
  <2>1. Head(locks[k])[1] # p
    BY <1>2, <1>5
  <2>2. locks'[k] = locks[k]
    BY <1>5, <2>1 DEF Leave
  <2> QED BY <1>2, <2>2 DEF Holds
<1> QED BY <1>3, <1>4, <1>5, LockSteps

\* The steps that write files; every other step of a handler reads.
FileStep(p) ==
    \/ CreateRevision(p) \/ CreateCurrent(p) \/ CreateMetadata(p)
    \/ LinkWrite(p)
    \/ AppendRevision(p) \/ AppendCurrent(p) \/ AppendMetadata(p)

LEMMA FileSteps ==
    ASSUME NEW p \in Handlers, HandlerStep(p), ~FileStep(p)
    PROVE  UNCHANGED disk
<1>1. CASE Arrival(p)
  BY <1>1
  DEF Arrival, ReceiveCreate, ReceiveWebhook, ReceiveGet, ReceiveList, Receive
<1>2. CASE Create(p)
  BY <1>2 DEF Create, FileStep, CreateConflict, CreateCheck, LinkConflict, LinkRead
<1>3. CASE Read(p)
  BY <1>3
  DEF Read, FindRefund, ReadMetadata, ReadBundle, ReadCurrentForGet,
      ReadCurrentForList, ListNames, ListFile
<1>4. CASE Ingest(p)
  BY <1>4
  DEF Ingest, FileStep, ReadCurrentDuplicate, ReadCurrentBuild, AppendDuplicate,
      AppendCheck
<1>5. CASE Reply(p) \/ IOError(p)
  BY <1>5 DEF Reply, IOError
<1> QED BY <1>1, <1>2, <1>3, <1>4, <1>5 DEF HandlerStep, Progress

\* What a handler about to write knows.
LEMMA WriterKnows ==
    ASSUME Inv, NEW p \in Handlers, FileStep(p)
    PROVE  LET a == req[p].action IN
           /\ a \in Actions
           /\ Holds(a, OuterTicket(p))
           /\ CreateRevision(p) \/ CreateCurrent(p) \/ CreateMetadata(p) =>
                 ~Exists(a)
           /\ AppendRevision(p) \/ AppendCurrent(p) \/ AppendMetadata(p) =>
                 /\ Exists(a)
                 /\ metadata[a] \in Metadata
                 /\ mem[p].meta = metadata[a]
                 /\ mem[p].bundle \in Bundles
                 /\ req[p].event \in Events
                 /\ ~Seen(metadata[a], req[p].event)
                 /\ NextMetadata(p) \in Metadata
                 /\ NextMetadata(p).revision = metadata[a].revision + 1
                 /\ NextMetadata(p).refund = metadata[a].refund
                 /\ NextMetadata(p).seen = Append(metadata[a].seen, req[p].event)
           /\ LinkWrite(p) =>
                 /\ Holds(IndexKey, InnerTicket(p))
                 /\ req[p].refund \in Refunds
                 /\ mem[p].links = index
                 /\ ~LinkTaken(p)
                 /\ Exists(a)
                 /\ metadata[a].refund = req[p].refund
<1> DEFINE a == req[p].action
<1>1. TypeOK
  BY DEF Inv
<1>2. pc[p] \in ActionLockPCs \ {"create_check", "append_check"}
  BY DEF FileStep, CreateRevision, CreateCurrent, CreateMetadata, LinkWrite,
         AppendRevision, AppendCurrent, AppendMetadata, Answer, Step,
         ActionLockPCs, CreatePCs, AppendPCs
<1>3. a \in Actions /\ Holds(a, OuterTicket(p))
  BY <1>2 DEF Inv, LockInv, RequestInv, ActionLockPCs
<1>4. CreateRevision(p) \/ CreateCurrent(p) \/ CreateMetadata(p) => ~Exists(a)
  BY DEF Inv, CreatorInv, CreateRevision, CreateCurrent, CreateMetadata, Answer, Step
<1>5. ASSUME AppendRevision(p) \/ AppendCurrent(p) \/ AppendMetadata(p)
      PROVE  /\ Exists(a)
             /\ metadata[a] \in Metadata
             /\ mem[p].meta = metadata[a]
             /\ mem[p].bundle \in Bundles
             /\ req[p].event \in Events
             /\ ~Seen(metadata[a], req[p].event)
  <2>1. pc[p] \in AppendPCs \ {"append_check"}
    BY <1>5 DEF AppendRevision, AppendCurrent, AppendMetadata, Answer, Step, AppendPCs
  <2> QED
    BY <1>1, <1>3, <2>1
    DEF Inv, AppenderInv, RequestInv, Exists, TypeOK, StoreTypeOK
<1>6. ASSUME AppendRevision(p) \/ AppendCurrent(p) \/ AppendMetadata(p)
      PROVE  /\ NextMetadata(p) \in Metadata
             /\ NextMetadata(p).revision = metadata[a].revision + 1
             /\ NextMetadata(p).refund = metadata[a].refund
             /\ NextMetadata(p).seen = Append(metadata[a].seen, req[p].event)
  BY <1>5, <1>6, NextMetadataType
<1>7. ASSUME LinkWrite(p)
      PROVE  /\ Holds(IndexKey, InnerTicket(p))
             /\ req[p].refund \in Refunds
             /\ mem[p].links = index
             /\ ~LinkTaken(p)
             /\ Exists(a)
             /\ metadata[a].refund = req[p].refund
  <2>1. pc[p] = "link_write" /\ pc[p] \in IndexLockPCs
    BY <1>7 DEF LinkWrite, Answer, Step, IndexLockPCs
  <2> QED BY <2>1 DEF Inv, LockInv, LinkerInv, RequestInv
<1> QED BY <1>3, <1>4, <1>5, <1>6, <1>7

\* A step of handler p touches the files of one action, and only while p
\* holds its lock; it touches the index only while p holds the index lock.
LEMMA FilesGuarded ==
    ASSUME Inv, NEW p \in Handlers, HandlerStep(p)
    PROVE  /\ \A c \in Actions :
                 \/ /\ revisions'[c] = revisions[c]
                    /\ current'[c] = current[c]
                    /\ metadata'[c] = metadata[c]
                 \/ Holds(c, OuterTicket(p))
           /\ index' = index \/ Holds(IndexKey, InnerTicket(p))
<1>1. CASE ~FileStep(p)
  BY <1>1, FileSteps DEF disk
<1>2. CASE FileStep(p)
  <2>1. Holds(req[p].action, OuterTicket(p))
    BY <1>2, WriterKnows
  <2>2. ASSUME NEW c \in Actions, c # req[p].action
        PROVE  /\ revisions'[c] = revisions[c]
               /\ current'[c] = current[c]
               /\ metadata'[c] = metadata[c]
    BY <1>2, <2>2
    DEF Inv, TypeOK, StoreTypeOK, FileStep, CreateRevision, CreateCurrent,
        CreateMetadata, LinkWrite, AppendRevision, AppendCurrent, AppendMetadata,
        WriteRevision, WriteCurrent, WriteMetadata
  <2>3. CASE LinkWrite(p)
    BY <1>2, <2>1, <2>2, <2>3, WriterKnows
  <2>4. CASE ~LinkWrite(p)
    BY <1>2, <2>1, <2>2, <2>4
    DEF FileStep, CreateRevision, CreateCurrent, CreateMetadata,
        AppendRevision, AppendCurrent, AppendMetadata
  <2> QED BY <2>3, <2>4
<1> QED BY <1>1, <1>2

\* The state of an action's files after a step: an existing action remains,
\* with its refund and its committed revisions; no file disappears.
Grows(c) ==
    /\ Exists(c) =>
          /\ Exists(c)'
          /\ metadata'[c].refund = metadata[c].refund
          /\ metadata'[c].revision \in {metadata[c].revision, metadata[c].revision + 1}
          /\ \A n \in Committed(c) : revisions'[c][n] = revisions[c][n]
    /\ DOMAIN revisions[c] \subseteq DOMAIN revisions'[c]
    /\ current[c] \in Digests => current'[c] \in Digests

\* Writing revision n keeps every other revision.
LEMMA SavedRevision ==
    ASSUME TypeOK, NEW a \in Actions, NEW n, NEW b, WriteRevision(a, n, b)
    PROVE  /\ DOMAIN revisions'[a] = DOMAIN revisions[a] \cup {n}
           /\ revisions'[a][n] = b
           /\ \A m \in DOMAIN revisions[a] \ {n} : revisions'[a][m] = revisions[a][m]
<1>1. revisions'[a] = Saved(revisions[a], n, b)
  BY DEF WriteRevision, TypeOK, StoreTypeOK
<1> QED BY <1>1 DEF Saved

LEMMA FilesGrow ==
    ASSUME Inv, NEW p \in Handlers, HandlerStep(p), NEW c \in Actions
    PROVE  Grows(c)
<1> DEFINE a == req[p].action
<1>1. TypeOK
  BY DEF Inv
<1>2. CASE /\ revisions'[c] = revisions[c]
           /\ current'[c] = current[c]
           /\ metadata'[c] = metadata[c]
  BY <1>2 DEF Grows, Exists, Committed
<1>3. CASE FileStep(p) /\ c = a
  <2>1. CASE CreateRevision(p)
    BY <1>1, <1>3, <2>1, WriterKnows, SavedRevision DEF CreateRevision, Grows
  <2>2. CASE CreateCurrent(p)
    BY <1>1, <1>3, <2>2, WriterKnows, FirstBundleType
    DEF CreateCurrent, WriteCurrent, Grows, TypeOK, StoreTypeOK
  <2>3. CASE CreateMetadata(p)
    BY <1>3, <2>3, WriterKnows DEF CreateMetadata, Grows
  <2>4. CASE LinkWrite(p)
    BY <2>4, <1>2 DEF LinkWrite
  <2>5. CASE AppendRevision(p)
    <3>1. /\ DOMAIN revisions'[c] =
                DOMAIN revisions[c] \cup {metadata[c].revision + 1}
          /\ \A m \in DOMAIN revisions[c] \ {metadata[c].revision + 1} :
                revisions'[c][m] = revisions[c][m]
      BY <1>1, <1>3, <2>5, WriterKnows, SavedRevision DEF AppendRevision
    <3>2. /\ Committed(c) \subseteq DOMAIN revisions[c]
          /\ metadata[c].revision \in Nat
          /\ metadata[c].revision + 1 \notin Committed(c)
      BY <1>3, <2>5, WriterKnows DEF Inv, FilesInv, Committed, Exists, Metadata
    <3>3. metadata' = metadata /\ current' = current
      BY <2>5 DEF AppendRevision
    <3> QED BY <3>1, <3>2, <3>3 DEF Grows, Exists
  <2>6. CASE AppendCurrent(p)
    BY <1>1, <1>3, <2>6, WriterKnows, DigestType
    DEF AppendCurrent, WriteCurrent, Grows, Exists, TypeOK, StoreTypeOK
  <2>7. CASE AppendMetadata(p)
    <3>1. metadata'[c] = NextMetadata(p)
      BY <1>1, <1>3, <2>7 DEF AppendMetadata, WriteMetadata, TypeOK, StoreTypeOK
    <3>2. NextMetadata(p) # Absent
      BY <1>3, <2>7, WriterKnows, AbsentAssumption
    <3> QED
      BY <1>3, <2>7, <3>1, <3>2, WriterKnows DEF AppendMetadata, Grows, Exists
  <2> QED BY <1>3, <2>1, <2>2, <2>3, <2>4, <2>5, <2>6, <2>7 DEF FileStep
<1>4. CASE FileStep(p) /\ c # a
  BY <1>1, <1>2, <1>4
  DEF TypeOK, StoreTypeOK, FileStep, CreateRevision, CreateCurrent,
      CreateMetadata, LinkWrite, AppendRevision, AppendCurrent, AppendMetadata,
      WriteRevision, WriteCurrent, WriteMetadata
<1> QED BY <1>2, <1>3, <1>4, FileSteps DEF disk

\* What another handler knows stays true.
LEMMA OthersInv ==
    ASSUME Inv, NEW p \in Handlers, HandlerStep(p), NEW q \in Handlers, q # p
    PROVE  /\ LockInv(q)'
           /\ RequestInv(q)'
           /\ ReaderInv(q)'
           /\ AppenderInv(q)'
           /\ CreatorInv(q)'
           /\ LinkerInv(q)'
<1> DEFINE b == req[q].action
<1>1. TypeOK
  BY DEF Inv
<1>2. pc'[q] = pc[q] /\ req'[q] = req[q] /\ mem'[q] = mem[q]
  BY <1>1, OthersKept
<1>3. LockInv(q)'
  <2>1. ASSUME pc[q] \in ActionLockPCs \ {"create_check", "append_check"}
        PROVE  Holds(b, OuterTicket(q))'
    <3>1. b \in LockKeys
      BY <2>1 DEF Inv, RequestInv, ActionLockPCs, LockKeys
    <3>2. Holds(b, <<q, "action">>)
      BY <2>1 DEF Inv, LockInv, OuterTicket
    <3> QED BY <1>2, <3>1, <3>2, GrantsKept DEF OuterTicket, Holds
  <2>2. ASSUME pc[q] = "link_write"
        PROVE  Holds(IndexKey, InnerTicket(q))'
    <3>1. Holds(IndexKey, <<q, "index">>)
      BY <2>2 DEF Inv, LockInv, InnerTicket
    <3> QED BY <3>1, GrantsKept DEF InnerTicket, LockKeys
  <2> QED BY <1>2, <2>1, <2>2 DEF LockInv, Holds
<1>4. RequestInv(q)'
  BY <1>2 DEF Inv, RequestInv
<1>5. pc[q] \in ActionLockPCs \ {"create_check", "append_check"} =>
          /\ revisions'[b] = revisions[b]
          /\ current'[b] = current[b]
          /\ metadata'[b] = metadata[b]
  <2>1. SUFFICES ASSUME pc[q] \in ActionLockPCs \ {"create_check", "append_check"}
                 PROVE  ~Holds(b, OuterTicket(p)) /\ b \in Actions
    BY FilesGuarded
  <2>2. Holds(b, OuterTicket(q)) /\ b \in Actions
    BY <2>1 DEF Inv, LockInv, RequestInv, ActionLockPCs
  <2> QED BY <2>2 DEF Holds, OuterTicket
<1>6. pc[q] = "link_write" => index' = index
  <2>1. SUFFICES ASSUME pc[q] = "link_write"
                 PROVE  ~Holds(IndexKey, InnerTicket(p))
    BY FilesGuarded
  <2> QED BY <2>1 DEF Inv, LockInv, Holds, InnerTicket
<1>7. ReaderInv(q)'
  <2>1. ASSUME pc[q] \in {"read_bundle", "read_current"} \cup ListPCs
        PROVE  mem[q].meta.revision \in Committed(b)'
    <3>1. b \in Actions /\ mem[q].meta.revision \in Committed(b) /\ Exists(b)
      BY <2>1 DEF Inv, RequestInv, ReaderInv, ReadPCs, Committed
    <3>2. metadata[b].revision \in Nat
      BY <1>1, <3>1 DEF TypeOK, StoreTypeOK, Exists, Metadata
    <3> QED BY <1>2, <3>1, <3>2, FilesGrow DEF Grows, Committed, Exists
  <2>2. ASSUME pc[q] = "list_file"
        PROVE  mem[q].names \subseteq DOMAIN revisions'[b]
    BY <2>2, FilesGrow DEF Inv, RequestInv, ReaderInv, ListPCs, Grows
  <2> QED
    BY <1>2, <2>1, <2>2 DEF Inv, ReaderInv, Committed, Exists
<1>8. AppenderInv(q)'
  <2>1. pc[q] \in AppendPCs => Exists(b)'
    BY <1>2, FilesGrow DEF Inv, AppenderInv, RequestInv, Grows, Exists
  <2>2. AppendPCs \ {"append_check"} \subseteq
            ActionLockPCs \ {"create_check", "append_check"}
    BY DEF ActionLockPCs, AppendPCs
  <2>3. {"append_current", "append_metadata"} \subseteq AppendPCs \ {"append_check"}
    BY DEF AppendPCs
  <2> QED
    BY <1>2, <1>5, <2>1, <2>2, <2>3 DEF Inv, AppenderInv, Exists, Seen
<1>9. CreatorInv(q)'
  <2>1. {"create_revision", "create_current", "create_metadata"} \subseteq
            ActionLockPCs \ {"create_check", "append_check"}
    BY DEF ActionLockPCs, CreatePCs
  <2> QED BY <1>2, <1>5, <2>1 DEF Inv, CreatorInv, Exists
<1>10. LinkerInv(q)'
  <2>1. IndexLockPCs \subseteq ActionLockPCs \ {"create_check", "append_check"}
    BY DEF ActionLockPCs, CreatePCs, IndexLockPCs
  <2>2. (/\ pc[q] = "reply"
         /\ req[q].op = "create"
         /\ mem[q].status = 201
         /\ req[q].refund # Absent)
        => index'[req[q].refund] = req[q].action
    <3>1. SUFFICES ASSUME /\ pc[q] = "reply"
                          /\ req[q].op = "create"
                          /\ mem[q].status = 201
                          /\ req[q].refund # Absent
                   PROVE  index'[req[q].refund] = req[q].action
      OBVIOUS
    <3>2. /\ index[req[q].refund] = req[q].action
          /\ req[q].refund \in Refunds
          /\ req[q].action \in Actions
      BY <1>1, <3>1 DEF Inv, LinkerInv, RequestInv, TypeOK, Requests
    <3>3. CASE ~LinkWrite(p)
      <4>1. index' = index
        BY <3>3, FileSteps
        DEF disk, FileStep, CreateRevision, CreateCurrent, CreateMetadata,
            AppendRevision, AppendCurrent, AppendMetadata
      <4> QED BY <3>2, <4>1
    <3>4. CASE LinkWrite(p)
      <4>1. /\ mem[p].links = index
            /\ ~LinkTaken(p)
            /\ req[p].refund \in Refunds
        BY <3>4, WriterKnows DEF FileStep
      <4>2. index[req[q].refund] # Absent
        BY <3>2, AbsentAssumption
      <4> QED
        BY <1>1, <3>2, <3>4, <4>1, <4>2
        DEF LinkWrite, WriteIndex, LinkTaken, TypeOK, StoreTypeOK
    <3> QED BY <3>3, <3>4
  <2>3. pc[q] \in IndexLockPCs => Exists(b)'
    BY <1>2, FilesGrow, <2>1 DEF Inv, LinkerInv, RequestInv, IndexLockPCs, CreatePCs, Grows, Exists
  <2> QED
    BY <1>2, <1>5, <1>6, <2>1, <2>2, <2>3
    DEF Inv, LinkerInv, LinkTaken, Exists
<1> QED BY <1>3, <1>4, <1>7, <1>8, <1>9, <1>10

-----------------------------------------------------------------------------
(* What the handler that takes the step knows after it.                    *)

HandlerInv(p) ==
    /\ LockInv(p)
    /\ RequestInv(p)
    /\ ReaderInv(p)
    /\ AppenderInv(p)
    /\ CreatorInv(p)
    /\ LinkerInv(p)

\* A handler that has its answer knows no more than its request and, if it
\* has created a correlated action, that the refund is linked to it.
LEMMA AnsweredInv ==
    ASSUME Inv, NEW p \in Handlers, pc'[p] = "reply", req'[p] = req[p],
           \/ mem'[p].status # 201
           \/ req[p].op # "create"
           \/ req[p].refund = Absent
           \/ index'[req[p].refund] = req[p].action
    PROVE  HandlerInv(p)'
<1>1. RequestInv(p)'
  BY DEF Inv, RequestInv, CreatePCs, ReadPCs, AppendPCs, ListPCs, IndexLockPCs
<1>2. LinkerInv(p)'
  BY DEF LinkerInv, IndexLockPCs
<1> QED
  BY <1>1, <1>2
  DEF HandlerInv, LockInv, ReaderInv, AppenderInv, CreatorInv, ActionLockPCs,
      CreatePCs, AppendPCs, ListPCs

\* The answer's status is what Answer says.
LEMMA AnswerStatus ==
    ASSUME TypeOK, NEW p \in Handlers, NEW from, NEW status,
           Answer(p, from, status)
    PROVE  mem'[p].status = status /\ pc'[p] = "reply"
<1>1. mem[p] \in Memory
  BY DEF TypeOK
<1>2. mem'[p] = [mem[p] EXCEPT !.status = status]
  BY DEF TypeOK, Answer
<1>3. mem'[p].status = status
  BY <1>1, <1>2 DEF Memory
<1> QED BY <1>3 DEF Answer, Step, TypeOK

LEMMA ArrivalInv ==
    ASSUME Inv, NEW p \in Handlers, Arrival(p)
    PROVE  HandlerInv(p)'
<1>1. TypeOK
  BY DEF Inv
<1>2. ASSUME NEW a \in Actions, NEW r \in Refunds \cup {Absent}, ReceiveCreate(p, a, r)
      PROVE  HandlerInv(p)'
  <2>1. /\ pc'[p] = "create_check"
        /\ req'[p].op = "create"
        /\ req'[p].action = a
    BY <1>1, <1>2 DEF ReceiveCreate, Receive, NoRequest, TypeOK
  <2> QED
    BY <2>1
    DEF HandlerInv, LockInv, RequestInv, ReaderInv, AppenderInv, CreatorInv,
        LinkerInv, CreatePCs, ReadPCs, AppendPCs, ListPCs, IndexLockPCs
<1>3. ASSUME NEW e \in Events, ReceiveWebhook(p, e)
      PROVE  HandlerInv(p)'
  <2>1. /\ pc'[p] = "find_refund"
        /\ req'[p].op = "ingest"
        /\ req'[p].event = e
    BY <1>1, <1>3 DEF ReceiveWebhook, Receive, NoRequest, TypeOK
  <2> QED
    BY <2>1
    DEF HandlerInv, LockInv, RequestInv, ReaderInv, AppenderInv, CreatorInv,
        LinkerInv, ActionLockPCs, CreatePCs, ReadPCs, AppendPCs, ListPCs,
        IndexLockPCs
<1>4. ASSUME NEW a \in Actions, ReceiveGet(p, a) \/ ReceiveList(p, a)
      PROVE  HandlerInv(p)'
  <2>1. /\ pc'[p] = "read_metadata"
        /\ req'[p].op \in {"get", "list"}
        /\ req'[p].action = a
    BY <1>1, <1>4 DEF ReceiveGet, ReceiveList, Receive, NoRequest, TypeOK
  <2> QED
    BY <2>1
    DEF HandlerInv, LockInv, RequestInv, ReaderInv, AppenderInv, CreatorInv,
        LinkerInv, ActionLockPCs, CreatePCs, ReadPCs, AppendPCs, ListPCs,
        IndexLockPCs
<1> QED BY <1>2, <1>3, <1>4 DEF Arrival

LEMMA CreateInv ==
    ASSUME Inv, NEW p \in Handlers, Create(p)
    PROVE  HandlerInv(p)'
<1>1. TypeOK /\ HandlerInv(p)
  BY DEF Inv, HandlerInv
<1>2. HandlerStep(p)
  BY DEF HandlerStep, Progress
<1>3. CASE CreateConflict(p) \/ LinkConflict(p)
  <2>1. /\ pc'[p] = "reply"
        /\ req'[p] = req[p]
        /\ mem'[p].status # 201
    BY <1>1, <1>3, AnswerStatus DEF CreateConflict, LinkConflict
  <2> QED BY <2>1, AnsweredInv
<1>4. ASSUME pc[p] \in CreatePCs,
             UNCHANGED req,
             pc'[p] \in CreatePCs \ {"create_check"},
             pc'[p] # "reply",
             Holds(req[p].action, OuterTicket(p))
      PROVE  /\ RequestInv(p)' <=> (pc'[p] \in IndexLockPCs => req[p].refund \in Refunds)
             /\ ReaderInv(p)'
             /\ AppenderInv(p)'
             /\ Holds(req[p].action, OuterTicket(p))'
             /\ req[p].action \in Actions
             /\ req[p].op = "create"
  <2>1. req[p].action \in Actions /\ req[p].op = "create"
    BY <1>1, <1>4 DEF HandlerInv, RequestInv
  <2>2. Holds(req[p].action, OuterTicket(p))'
    BY <1>2, <1>4, <2>1, GrantsKept DEF OuterTicket, LockKeys, Holds
  <2>3. ReaderInv(p)' /\ AppenderInv(p)'
    BY <1>4 DEF ReaderInv, AppenderInv, CreatePCs, ListPCs, AppendPCs
  <2>4. RequestInv(p)' <=> (pc'[p] \in IndexLockPCs => req[p].refund \in Refunds)
    BY <1>4, <2>1 DEF RequestInv, CreatePCs, AppendPCs
  <2> QED BY <2>1, <2>2, <2>3, <2>4
<1>5. CASE CreateCheck(p)
  <2>1. /\ pc[p] = "create_check"
        /\ pc'[p] = "create_revision"
        /\ UNCHANGED <<disk, req>>
        /\ Holds(req[p].action, OuterTicket(p))
        /\ ~Exists(req[p].action)
    BY <1>1, <1>5 DEF CreateCheck, Step, Granted, ActionLockPCs, CreatePCs, TypeOK
  <2>2. ~Exists(req[p].action)'
    BY <2>1 DEF Exists, disk
  <2> QED
    BY <1>4, <2>1, <2>2
    DEF HandlerInv, LockInv, CreatorInv, LinkerInv, CreatePCs, IndexLockPCs, Holds
<1>6. CASE CreateRevision(p)
  <2>1. /\ pc[p] = "create_revision"
        /\ pc'[p] = "create_current"
        /\ UNCHANGED <<metadata, req>>
        /\ Holds(req[p].action, OuterTicket(p))
        /\ ~Exists(req[p].action)
        /\ req[p].action \in Actions
    BY <1>1, <1>6, WriterKnows DEF CreateRevision, Step, FileStep, TypeOK
  <2>2. 1 \in DOMAIN revisions'[req[p].action]
    BY <1>1, <1>6, <2>1, SavedRevision DEF CreateRevision
  <2>3. ~Exists(req[p].action)'
    BY <2>1 DEF Exists
  <2> QED
    BY <1>4, <2>1, <2>2, <2>3
    DEF HandlerInv, LockInv, CreatorInv, LinkerInv, CreatePCs, IndexLockPCs, Holds
<1>7. CASE CreateCurrent(p)
  <2>1. /\ pc[p] = "create_current"
        /\ pc'[p] = "create_metadata"
        /\ UNCHANGED <<revisions, metadata, req>>
        /\ Holds(req[p].action, OuterTicket(p))
        /\ ~Exists(req[p].action)
        /\ req[p].action \in Actions
    BY <1>1, <1>7, WriterKnows DEF CreateCurrent, Step, FileStep, TypeOK
  <2>2. current'[req[p].action] \in Digests
    BY <1>1, <1>7, <2>1, FirstBundleType
    DEF CreateCurrent, WriteCurrent, TypeOK, StoreTypeOK
  <2>3. ~Exists(req[p].action)' /\ 1 \in DOMAIN revisions[req[p].action]
    BY <1>1, <2>1 DEF Exists, HandlerInv, CreatorInv
  <2> QED
    BY <1>4, <2>1, <2>2, <2>3
    DEF HandlerInv, LockInv, CreatorInv, LinkerInv, CreatePCs, IndexLockPCs, Holds
<1>8. CASE CreateMetadata(p)
  <2>1. CASE req[p].refund \in InvalidRefunds \cup {Absent}
    <3>1. /\ pc'[p] = "reply" /\ req'[p] = req[p]
          /\ mem'[p].status # 201 \/ req[p].refund = Absent
      BY <1>1, <1>8, <2>1, AnswerStatus DEF CreateMetadata
    <3> QED BY <3>1, AnsweredInv
  <2>2. CASE req[p].refund \notin InvalidRefunds \cup {Absent}
    <3>1. /\ pc[p] = "create_metadata"
          /\ pc'[p] = "link_read"
          /\ UNCHANGED req
          /\ Holds(req[p].action, OuterTicket(p))
          /\ req[p].action \in Actions
      BY <1>1, <1>8, <2>2, WriterKnows DEF CreateMetadata, Step, FileStep, TypeOK
    <3>2. req[p].refund \in Refunds
      BY <1>1, <2>2 DEF TypeOK, Requests
    <3>3. metadata'[req[p].action] = FirstMetadata(p)
      BY <1>1, <1>8, <3>1 DEF CreateMetadata, WriteMetadata, TypeOK, StoreTypeOK
    <3>4. FirstMetadata(p) # Absent /\ FirstMetadata(p).refund = req[p].refund
      BY <1>1, FirstMetadataType, AbsentAssumption DEF FirstMetadata
    <3> QED
      BY <1>4, <3>1, <3>2, <3>3, <3>4
      DEF HandlerInv, LockInv, CreatorInv, LinkerInv, CreatePCs, IndexLockPCs,
          Exists, Holds
  <2> QED BY <2>1, <2>2
<1>9. CASE LinkRead(p)
  <2>1. /\ pc[p] = "link_read"
        /\ pc'[p] = "link_write"
        /\ UNCHANGED <<disk, locks, req>>
        /\ Holds(req[p].action, OuterTicket(p))
        /\ Holds(IndexKey, InnerTicket(p))
        /\ ~LinkTaken(p)
    BY <1>1, <1>9
    DEF LinkRead, Step, Granted, ActionLockPCs, IndexLockPCs, CreatePCs, TypeOK
  <2>2. mem'[p].links = index
    <3>1. mem[p] \in Memory
      BY <1>1 DEF TypeOK
    <3>2. mem'[p] = [mem[p] EXCEPT !.links = index]
      BY <1>1, <1>9 DEF LinkRead, TypeOK
    <3> QED BY <3>1, <3>2 DEF Memory
  <2>3. /\ Exists(req[p].action)
        /\ metadata[req[p].action].refund = req[p].refund
        /\ req[p].refund \in Refunds
    BY <1>1, <2>1 DEF HandlerInv, LinkerInv, RequestInv, IndexLockPCs
  <2> QED
    BY <1>4, <2>1, <2>2, <2>3
    DEF HandlerInv, LockInv, CreatorInv, LinkerInv, CreatePCs, IndexLockPCs,
        Exists, Holds, LinkTaken, disk
<1>10. CASE LinkWrite(p)
  <2>1. pc'[p] = "reply" /\ req'[p] = req[p]
    BY <1>1, <1>10, AnswerStatus DEF LinkWrite
  <2>2. mem[p].links = index /\ req[p].refund \in Refunds
    BY <1>10, WriterKnows DEF FileStep
  <2>3. index'[req[p].refund] = req[p].action
    BY <1>1, <1>10, <2>2 DEF LinkWrite, WriteIndex, TypeOK, StoreTypeOK
  <2> QED BY <2>1, <2>3, AnsweredInv
<1> QED
  BY <1>3, <1>5, <1>6, <1>7, <1>8, <1>9, <1>10 DEF Create

\* A reader's next step: nothing is written, nobody's lock is involved.
LEMMA ReadingInv ==
    ASSUME Inv, NEW p \in Handlers, UNCHANGED <<disk, locks>>,
           req'[p].action \in Actions,
           req'[p].op = "ingest" => req'[p].event \in Events,
           pc'[p] \in ReadPCs \cup ListPCs, ReaderInv(p)'
    PROVE  HandlerInv(p)'
<1>1. RequestInv(p)'
  BY DEF RequestInv, CreatePCs, ReadPCs, AppendPCs, ListPCs, IndexLockPCs
<1> QED
  BY <1>1
  DEF HandlerInv, LockInv, AppenderInv, CreatorInv, LinkerInv, ActionLockPCs,
      CreatePCs, ReadPCs, AppendPCs, ListPCs, IndexLockPCs

LEMMA ReadInv ==
    ASSUME Inv, NEW p \in Handlers, Read(p)
    PROVE  HandlerInv(p)'
<1>1. TypeOK /\ HandlerInv(p)
  BY DEF Inv, HandlerInv
<1>2. /\ UNCHANGED <<disk, locks>>
      /\ req[p].op = "ingest" => req[p].event \in Events
  BY <1>1
  DEF HandlerInv, RequestInv, Read, FindRefund, ReadMetadata, ReadBundle,
      ReadCurrentForGet, ReadCurrentForList, ListNames, ListFile
<1>3. mem[p] \in Memory
  BY <1>1 DEF TypeOK
<1>4. CASE FindRefund(p)
  <2>1. CASE LinkedAction(p) = Absent
    <3>1. pc'[p] = "reply" /\ req'[p] = req[p] /\ mem'[p].status # 201
      BY <1>1, <1>4, <2>1, AnswerStatus DEF FindRefund
    <3> QED BY <3>1, AnsweredInv
  <2>2. CASE LinkedAction(p) # Absent
    <3>1. /\ pc[p] = "find_refund"
          /\ pc'[p] = "read_metadata"
          /\ req'[p] = [req[p] EXCEPT !.action = LinkedAction(p)]
      BY <1>1, <1>4, <2>2 DEF FindRefund, Step, TypeOK
    <3>2. req[p].event \in Events
      BY <1>1, <3>1 DEF HandlerInv, RequestInv
    <3>3. LinkedAction(p) \in Actions
      BY <1>1, <2>2, <3>2, RefundOfAssumption DEF LinkedAction, TypeOK, StoreTypeOK
    <3>4. req'[p].action = LinkedAction(p) /\ req'[p].event = req[p].event
      BY <1>1, <3>1 DEF TypeOK, Requests
    <3>5. ReaderInv(p)'
      BY <3>1 DEF ReaderInv, ListPCs
    <3> QED BY <1>2, <3>1, <3>2, <3>3, <3>4, <3>5, ReadingInv DEF ReadPCs
  <2> QED BY <2>1, <2>2
<1>5. CASE ReadMetadata(p)
  <2>1. CASE ~Exists(req[p].action)
    <3>1. pc'[p] = "reply" /\ req'[p] = req[p] /\ mem'[p].status # 201
      BY <1>1, <1>5, <2>1, AnswerStatus DEF ReadMetadata
    <3> QED BY <3>1, AnsweredInv
  <2>2. CASE Exists(req[p].action)
    <3> DEFINE a == req[p].action
    <3>1. /\ pc[p] = "read_metadata"
          /\ pc'[p] = "read_bundle"
          /\ UNCHANGED <<disk, req>>
          /\ mem'[p] = [mem[p] EXCEPT !.meta = metadata[a]]
      BY <1>1, <1>5, <2>2 DEF ReadMetadata, Step, TypeOK
    <3>2. a \in Actions
      BY <1>1, <3>1 DEF HandlerInv, RequestInv, ReadPCs
    <3>3. mem'[p].meta = metadata[a]
      BY <1>3, <3>1 DEF Memory
    <3>4. /\ metadata[a] \in Metadata
          /\ metadata[a].seen \in Logs
          /\ metadata[a].revision = Len(metadata[a].seen) + 1
      BY <1>1, <2>2, <3>2
      DEF Inv, FilesInv, Exists, TypeOK, StoreTypeOK, Metadata
    <3>5. metadata[a].revision \in 1..metadata[a].revision
      BY <3>4 DEF Logs
    <3>6. ReaderInv(p)'
      BY <2>2, <3>1, <3>3, <3>4, <3>5
      DEF ReaderInv, Committed, Exists, ListPCs, disk
    <3> QED BY <1>2, <3>1, <3>2, <3>6, ReadingInv DEF ReadPCs
  <2> QED BY <2>1, <2>2
<1>6. CASE ReadBundle(p)
  <2> DEFINE a == req[p].action
             b == revisions[a][mem[p].meta.revision]
  <2>1. /\ pc[p] = "read_bundle"
        /\ pc'[p] = "read_current"
        /\ UNCHANGED <<disk, req>>
        /\ mem'[p] = [mem[p] EXCEPT !.bundle = b]
    BY <1>1, <1>6 DEF ReadBundle, Step, TypeOK
  <2>2. /\ a \in Actions
        /\ mem[p].meta \in Metadata
        /\ mem[p].meta.revision \in Committed(a)
    BY <1>1, <2>1 DEF HandlerInv, RequestInv, ReaderInv, ReadPCs
  <2>3. b \in Bundles
    BY <1>1, <2>2 DEF Inv, FilesInv, Committed, TypeOK, StoreTypeOK
  <2>4. mem'[p].bundle = b /\ mem'[p].meta = mem[p].meta
    BY <1>3, <2>1 DEF Memory
  <2>5. ReaderInv(p)'
    BY <2>1, <2>2, <2>3, <2>4 DEF ReaderInv, Committed, Exists, ListPCs, disk
  <2> QED BY <1>2, <2>1, <2>2, <2>5, ReadingInv DEF ReadPCs
<1>7. CASE ReadCurrentForGet(p)
  <2>1. pc'[p] = "reply" /\ req'[p] = req[p] /\ req[p].op = "get"
    BY <1>1, <1>7 DEF ReadCurrentForGet, Step, TypeOK
  <2> QED BY <2>1, AnsweredInv
<1>8. CASE ReadCurrentForList(p)
  <2>1. /\ pc[p] = "read_current"
        /\ pc'[p] = "list_names"
        /\ UNCHANGED <<disk, req, mem>>
    BY <1>1, <1>8 DEF ReadCurrentForList, Step, TypeOK
  <2>2. req[p].action \in Actions
    BY <1>1, <2>1 DEF HandlerInv, RequestInv, ReadPCs
  <2>3. ReaderInv(p)'
    BY <1>1, <2>1 DEF HandlerInv, ReaderInv, Committed, Exists, disk
  <2> QED BY <1>2, <2>1, <2>2, <2>3, ReadingInv DEF ListPCs
<1>9. CASE ListNames(p)
  <2> DEFINE a == req[p].action
  <2>1. /\ pc[p] = "list_names"
        /\ pc'[p] = "list_file"
        /\ UNCHANGED <<disk, req>>
        /\ mem'[p] = [mem[p] EXCEPT !.names = DOMAIN revisions[a]]
    BY <1>1, <1>9 DEF ListNames, Step, TypeOK
  <2>2. /\ a \in Actions
        /\ mem[p].meta \in Metadata
        /\ mem[p].meta.revision \in Committed(a)
    BY <1>1, <2>1 DEF HandlerInv, RequestInv, ReaderInv, ListPCs
  <2>3. mem'[p].names = DOMAIN revisions[a] /\ mem'[p].meta = mem[p].meta
    BY <1>3, <2>1 DEF Memory
  <2>4. ReaderInv(p)'
    BY <2>1, <2>2, <2>3 DEF ReaderInv, Committed, Exists, disk
  <2> QED BY <1>2, <2>1, <2>2, <2>4, ReadingInv DEF ListPCs
<1>10. CASE ListFile(p)
  <2> DEFINE a == req[p].action
  <2>1. PICK n \in mem[p].names :
          /\ mem' = [mem EXCEPT
                        ![p].names = @ \ {n},
                        ![p].rows = Append(@, Row(req[p].action, n)),
                        ![p].status = 200]
          /\ Step(p, "list_file",
                  IF mem[p].names = {n} THEN "reply" ELSE "list_file")
    BY <1>10 DEF ListFile
  <2>2. /\ pc[p] = "list_file"
        /\ pc'[p] \in {"reply", "list_file"}
        /\ UNCHANGED <<disk, req>>
    BY <1>1, <1>10, <2>1 DEF ListFile, Step, TypeOK
  <2>3. /\ mem'[p].names = mem[p].names \ {n}
        /\ mem'[p].meta = mem[p].meta
        /\ mem'[p].status = 200
    BY <1>1, <1>3, <2>1 DEF TypeOK, Memory
  <2>4. /\ a \in Actions
        /\ mem[p].meta \in Metadata
        /\ mem[p].meta.revision \in Committed(a)
        /\ mem[p].names \subseteq DOMAIN revisions[a]
    BY <1>1, <2>2 DEF HandlerInv, RequestInv, ReaderInv, ListPCs
  <2>5. CASE pc'[p] = "reply"
    BY <2>2, <2>3, <2>5, AnsweredInv
  <2>6. CASE pc'[p] = "list_file"
    <3>1. ReaderInv(p)'
      BY <2>2, <2>3, <2>4, <2>6 DEF ReaderInv, Committed, Exists, disk
    <3> QED BY <1>2, <2>2, <2>4, <2>6, <3>1, ReadingInv DEF ListPCs
  <2> QED BY <2>2, <2>5, <2>6
<1> QED
  BY <1>4, <1>5, <1>6, <1>7, <1>8, <1>9, <1>10 DEF Read

LEMMA IngestInv ==
    ASSUME Inv, NEW p \in Handlers, Ingest(p)
    PROVE  HandlerInv(p)'
<1> DEFINE a == req[p].action
<1>1. TypeOK /\ HandlerInv(p)
  BY DEF Inv, HandlerInv
<1>2. HandlerStep(p)
  BY DEF HandlerStep, Progress
<1>3. mem[p] \in Memory
  BY <1>1 DEF TypeOK
<1>4. CASE ReadCurrentDuplicate(p) \/ AppendDuplicate(p) \/ AppendMetadata(p)
  <2>1. /\ pc'[p] = "reply"
        /\ req'[p] = req[p]
        /\ mem'[p].status # 201
    BY <1>1, <1>4, AnswerStatus
    DEF ReadCurrentDuplicate, AppendDuplicate, AppendMetadata
  <2> QED BY <2>1, AnsweredInv
<1>5. ASSUME UNCHANGED req, pc'[p] \in AppendPCs, a \in Actions,
             req[p].op = "ingest", req[p].event \in Events,
             LockInv(p)', AppenderInv(p)'
      PROVE  HandlerInv(p)'
  <2>1. RequestInv(p)'
    BY <1>5 DEF RequestInv, CreatePCs, AppendPCs, IndexLockPCs
  <2> QED
    BY <1>5, <2>1
    DEF HandlerInv, ReaderInv, CreatorInv, LinkerInv, AppendPCs, ListPCs,
        IndexLockPCs
<1>6. CASE ReadCurrentBuild(p)
  <2>1. /\ pc[p] = "read_current"
        /\ pc'[p] = "append_check"
        /\ UNCHANGED <<disk, req>>
        /\ req[p].op = "ingest"
        /\ mem'[p] = [mem[p] EXCEPT !.bundle = NextBundle(p)]
    BY <1>1, <1>6 DEF ReadCurrentBuild, Step, TypeOK
  <2>2. /\ a \in Actions
        /\ req[p].event \in Events
        /\ mem[p].meta \in Metadata
        /\ mem[p].bundle \in Bundles
        /\ Exists(a)
    BY <1>1, <2>1 DEF HandlerInv, RequestInv, ReaderInv, ReadPCs, Committed
  <2>3. mem'[p].bundle = NextBundle(p) /\ NextBundle(p) \in Bundles
    BY <1>3, <2>1, <2>2, NextBundleType DEF Memory
  <2> QED
    BY <1>5, <2>1, <2>2, <2>3 DEF LockInv, AppenderInv, AppendPCs, Exists, disk
<1>7. CASE AppendCheck(p)
  <2>1. /\ pc[p] = "append_check"
        /\ pc'[p] = "append_revision"
        /\ UNCHANGED <<disk, locks, req>>
        /\ Holds(a, OuterTicket(p))
        /\ ~Seen(metadata[a], req[p].event)
        /\ mem'[p] = [mem[p] EXCEPT !.meta = metadata[a]]
    BY <1>1, <1>7 DEF AppendCheck, Step, Granted, ActionLockPCs, AppendPCs, TypeOK
  <2>2. /\ a \in Actions
        /\ req[p].op = "ingest"
        /\ req[p].event \in Events
        /\ Exists(a)
        /\ mem[p].bundle \in Bundles
    BY <1>1, <2>1 DEF HandlerInv, RequestInv, AppenderInv, AppendPCs
  <2>3. mem'[p].meta = metadata[a] /\ mem'[p].bundle = mem[p].bundle
    BY <1>3, <2>1 DEF Memory
  <2> QED
    BY <1>5, <2>1, <2>2, <2>3
    DEF LockInv, AppenderInv, AppendPCs, Exists, Holds, Seen, disk
<1>8. CASE AppendRevision(p) \/ AppendCurrent(p)
  <2>1. /\ pc[p] \in {"append_revision", "append_current"}
        /\ pc'[p] \in {"append_current", "append_metadata"}
        /\ UNCHANGED <<metadata, locks, req, mem>>
    BY <1>1, <1>8 DEF AppendRevision, AppendCurrent, Step, TypeOK
  <2>2. /\ a \in Actions
        /\ Holds(a, OuterTicket(p))
        /\ Exists(a)
        /\ mem[p].meta = metadata[a]
        /\ mem[p].bundle \in Bundles
        /\ req[p].event \in Events
        /\ ~Seen(metadata[a], req[p].event)
        /\ NextMetadata(p).revision = metadata[a].revision + 1
    BY <1>8, WriterKnows DEF FileStep
  <2>3. req[p].op = "ingest"
    BY <1>1, <2>1 DEF HandlerInv, RequestInv, AppendPCs
  <2>4. mem[p].meta.revision + 1 \in DOMAIN revisions'[a]
    <3>1. CASE AppendRevision(p)
      BY <1>1, <2>2, <3>1, SavedRevision DEF AppendRevision
    <3>2. CASE AppendCurrent(p)
      BY <1>1, <3>2 DEF AppendCurrent, Step, HandlerInv, AppenderInv
    <3> QED BY <1>8, <3>1, <3>2
  <2> QED
    BY <1>5, <2>1, <2>2, <2>3, <2>4
    DEF LockInv, AppenderInv, AppendPCs, Exists, Holds, Seen
<1> QED BY <1>4, <1>6, <1>7, <1>8 DEF Ingest

LEMMA OwnInv ==
    ASSUME Inv, NEW p \in Handlers, HandlerStep(p)
    PROVE  HandlerInv(p)'
<1>1. TypeOK
  BY DEF Inv
<1>2. CASE Reply(p)
  <2>1. /\ pc'[p] = "idle"
        /\ req'[p].op = "none"
    BY <1>1, <1>2 DEF Reply, Step, NoRequest, TypeOK
  <2> QED
    BY <2>1
    DEF HandlerInv, LockInv, RequestInv, ReaderInv, AppenderInv, CreatorInv,
        LinkerInv, ActionLockPCs, CreatePCs, ReadPCs, AppendPCs, ListPCs,
        IndexLockPCs
<1>3. CASE IOError(p)
  <2>1. /\ pc'[p] = "reply"
        /\ req'[p] = req[p]
        /\ mem'[p].status # 201
    BY <1>1, <1>3, AnswerStatus DEF IOError
  <2> QED BY <2>1, AnsweredInv
<1> QED
  BY <1>2, <1>3, ArrivalInv, CreateInv, ReadInv, IngestInv
  DEF HandlerStep, Progress

-----------------------------------------------------------------------------
(* The files and the index after a step.                                   *)

\* Recording an event that is not yet recorded keeps the record injective.
LEMMA RecordStaysInjective ==
    ASSUME NEW log \in Logs, NEW e \in Events, IsInjective(log), e \notin ToSet(log)
    PROVE  IsInjective(Append(log, e))
<1>1. Len(log) \in Nat
  BY DEF Logs
<1>2. IsInjective(Append(log, e))
  BY DEF IsInjective, ToSet, Logs
<1> QED BY <1>2

LEMMA RecordGrows ==
    ASSUME NEW log \in Logs, NEW e \in Events
    PROVE  Len(Append(log, e)) = Len(log) + 1
BY DEF Logs

LEMMA FilesStep ==
    ASSUME Inv, NEW p \in Handlers, HandlerStep(p), NEW c \in Actions
    PROVE  FilesInv(c)'
<1> DEFINE a == req[p].action
<1>1. TypeOK /\ FilesInv(c)
  BY DEF Inv
<1>2. Grows(c)
  BY FilesGrow
<1>3. CASE /\ revisions'[c] = revisions[c]
           /\ current'[c] = current[c]
           /\ metadata'[c] = metadata[c]
  BY <1>1, <1>3 DEF FilesInv, Exists, Committed
<1>4. CASE FileStep(p) /\ c = a
  <2>1. CASE CreateRevision(p)
    <3>1. ~Exists(c) /\ metadata' = metadata
      BY <1>4, <2>1, WriterKnows DEF CreateRevision
    <3>2. DOMAIN revisions'[c] = DOMAIN revisions[c] \cup {1}
      BY <1>1, <1>4, <2>1, SavedRevision DEF CreateRevision
    <3> QED BY <1>1, <3>1, <3>2 DEF FilesInv, Exists
  <2>2. CASE CreateCurrent(p)
    BY <1>1, <1>4, <2>2, WriterKnows DEF CreateCurrent, FilesInv, Exists
  <2>3. CASE CreateMetadata(p)
    <3>1. /\ ~Exists(c)
          /\ UNCHANGED <<revisions, current>>
          /\ metadata'[c] = FirstMetadata(p)
      BY <1>1, <1>4, <2>3, WriterKnows
      DEF CreateMetadata, WriteMetadata, TypeOK, StoreTypeOK
    <3>2. /\ DOMAIN revisions[c] \subseteq {1}
          /\ 1 \in DOMAIN revisions[c]
          /\ current[c] \in Digests
      BY <1>1, <1>4, <2>3, <3>1
      DEF FilesInv, Inv, CreatorInv, CreateMetadata, Answer, Step
    <3>3. /\ FirstMetadata(p).revision = 1
          /\ FirstMetadata(p).seen = <<>>
          /\ FirstMetadata(p) # Absent
      BY <1>1, FirstMetadataType, AbsentAssumption DEF FirstMetadata
    <3>4. IsInjective(<<>>) /\ Len(<<>>) = 0
      BY DEF IsInjective
    <3> QED BY <3>1, <3>2, <3>3, <3>4 DEF FilesInv, Exists, Committed
  <2>4. CASE LinkWrite(p)
    BY <2>4, <1>3 DEF LinkWrite
  <2>5. CASE AppendRevision(p)
    <3>1. /\ Exists(c)
          /\ metadata[c] \in Metadata
          /\ UNCHANGED <<metadata, current>>
          /\ DOMAIN revisions'[c] = DOMAIN revisions[c] \cup {metadata[c].revision + 1}
      BY <1>1, <1>4, <2>5, WriterKnows, SavedRevision DEF AppendRevision
    <3>2. metadata[c].revision \in Nat
      BY <3>1 DEF Metadata
    <3> QED BY <1>1, <3>1, <3>2 DEF FilesInv, Exists, Committed
  <2>6. CASE AppendCurrent(p)
    <3>1. current'[c] \in Digests
      BY <1>1, <1>4, <2>6, WriterKnows, DigestType
      DEF AppendCurrent, WriteCurrent, TypeOK, StoreTypeOK
    <3> QED BY <1>1, <2>6, <3>1 DEF AppendCurrent, FilesInv, Exists, Committed
  <2>7. CASE AppendMetadata(p)
    <3> DEFINE m == metadata[c]
               e == req[p].event
    <3>1. /\ Exists(c)
          /\ m \in Metadata
          /\ e \in Events
          /\ ~Seen(m, e)
          /\ NextMetadata(p).revision = m.revision + 1
          /\ NextMetadata(p).seen = Append(m.seen, e)
          /\ UNCHANGED <<revisions, current>>
          /\ metadata'[c] = NextMetadata(p)
      BY <1>1, <1>4, <2>7, WriterKnows
      DEF AppendMetadata, WriteMetadata, TypeOK, StoreTypeOK
    <3>2. m.revision + 1 \in DOMAIN revisions[c]
      <4>1. pc[p] = "append_metadata" /\ AppenderInv(p)
        BY <2>7 DEF AppendMetadata, Answer, Step, Inv
      <4> QED BY <1>4, <2>7, <4>1, WriterKnows DEF AppenderInv
    <3>3. /\ m.revision \in Nat
          /\ m.seen \in Logs
      BY <3>1 DEF Metadata
    <3>4. /\ IsInjective(Append(m.seen, e))
          /\ Len(Append(m.seen, e)) = m.revision
      <4>1. Len(m.seen) + 1 = m.revision /\ IsInjective(m.seen)
        BY <1>1, <3>1 DEF FilesInv
      <4>2. e \notin ToSet(m.seen)
        BY <3>1 DEF Seen
      <4> QED BY <3>1, <3>3, <4>1, <4>2, RecordStaysInjective, RecordGrows
    <3>5. /\ Committed(c) \subseteq DOMAIN revisions[c]
          /\ DOMAIN revisions[c] \subseteq 1..(m.revision + 1)
          /\ current[c] \in Digests
      BY <1>1, <3>1 DEF FilesInv
    <3>6. Committed(c) = 1..m.revision /\ Committed(c)' = 1..(m.revision + 1)
      BY <1>2, <3>1 DEF Committed, Grows
    <3>7. Committed(c)' \subseteq DOMAIN revisions'[c]
      BY <3>1, <3>2, <3>3, <3>5, <3>6
    <3>8. DOMAIN revisions'[c] \subseteq 1..(metadata'[c].revision + 1)
      BY <3>1, <3>3, <3>5
    <3> QED
      BY <1>2, <3>1, <3>3, <3>4, <3>5, <3>7, <3>8 DEF FilesInv, Exists, Grows
  <2> QED BY <1>4, <2>1, <2>2, <2>3, <2>4, <2>5, <2>6, <2>7 DEF FileStep
<1>5. CASE FileStep(p) /\ c # a
  BY <1>1, <1>3, <1>5
  DEF TypeOK, StoreTypeOK, FileStep, CreateRevision, CreateCurrent,
      CreateMetadata, LinkWrite, AppendRevision, AppendCurrent, AppendMetadata,
      WriteRevision, WriteCurrent, WriteMetadata
<1> QED BY <1>3, <1>4, <1>5, FileSteps DEF disk

\* A link is written once and for an action that carries the refund.
LEMMA IndexStep ==
    ASSUME Inv, NEW p \in Handlers, HandlerStep(p)
    PROVE  IndexSound'
<1>1. TypeOK /\ IndexSound
  BY DEF Inv
<1>2. \A r \in Refunds : index[r] # Absent => index[r] \in Actions
  BY <1>1 DEF TypeOK, StoreTypeOK
<1>3. \A c \in Actions :
          Exists(c) => Exists(c)' /\ metadata'[c].refund = metadata[c].refund
  BY FilesGrow DEF Grows
<1>4. CASE LinkWrite(p)
  <2> DEFINE a == req[p].action
             r == req[p].refund
  <2>1. /\ a \in Actions
        /\ r \in Refunds
        /\ mem[p].links = index
        /\ index[r] \in {Absent, a}
        /\ Exists(a)
        /\ metadata[a].refund = r
    BY <1>4, WriterKnows DEF FileStep, LinkTaken
  <2>2. index' = [index EXCEPT ![r] = a] /\ UNCHANGED <<metadata, opened>>
    BY <1>4, <2>1 DEF LinkWrite, WriteIndex, bookkeeping
  <2>3. a # Absent
    BY <2>1, AbsentAssumption
  <2>4. \A s \in Refunds : index'[s] = IF s = r THEN a ELSE index[s]
    BY <1>1, <2>2 DEF TypeOK, StoreTypeOK
  <2>5. \A s \in Refunds : index'[s] # Absent =>
            /\ metadata'[index'[s]] # Absent
            /\ metadata'[index'[s]].refund = s
    BY <1>1, <2>1, <2>2, <2>4 DEF IndexSound, Exists
  <2>6. \A c \in opened : c[2] # Absent => index'[c[2]] = c[1]
    <3>1. SUFFICES ASSUME NEW c \in opened, c[2] # Absent
                   PROVE  index'[c[2]] = c[1]
      OBVIOUS
    <3>2. c[2] \in Refunds /\ index[c[2]] = c[1] /\ c[1] \in Actions
      BY <1>1, <3>1 DEF TypeOK, IndexSound
    <3> QED BY <2>1, <2>4, <3>2, AbsentAssumption
  <2> QED BY <2>2, <2>5, <2>6 DEF IndexSound, Exists
<1>5. CASE ~LinkWrite(p)
  <2>1. index' = index
    BY <1>5, FileSteps
    DEF disk, FileStep, CreateRevision, CreateCurrent, CreateMetadata,
        AppendRevision, AppendCurrent, AppendMetadata
  <2>2. \A r \in Refunds : index[r] # Absent =>
            /\ metadata'[index[r]] # Absent
            /\ metadata'[index[r]].refund = r
    BY <1>1, <1>2, <1>3 DEF IndexSound, Exists
  <2>3. ASSUME NEW c \in opened', c[2] # Absent
        PROVE  index[c[2]] = c[1]
    <3>1. CASE c \in opened
      BY <1>1, <2>3, <3>1 DEF IndexSound
    <3>2. CASE c \notin opened
      <4>1. Reply(p)
        BY <2>3, <3>2
        DEF HandlerStep, Progress, Arrival, ReceiveCreate, ReceiveWebhook,
            ReceiveGet, ReceiveList, Receive, Create, CreateConflict, CreateCheck,
            CreateRevision, CreateCurrent, CreateMetadata, LinkConflict, LinkRead,
            LinkWrite, Read, FindRefund, ReadMetadata, ReadBundle,
            ReadCurrentForGet, ReadCurrentForList, ListNames, ListFile, Ingest,
            ReadCurrentDuplicate, ReadCurrentBuild, AppendDuplicate, AppendCheck,
            AppendRevision, AppendCurrent, AppendMetadata, IOError, bookkeeping
      <4>2. /\ pc[p] = "reply"
            /\ req[p].op = "create"
            /\ mem[p].status = 201
            /\ c = <<req[p].action, req[p].refund>>
        BY <2>3, <3>2, <4>1 DEF Reply, Step
      <4> QED BY <2>3, <4>2 DEF Inv, LinkerInv
    <3> QED BY <3>1, <3>2
  <2> QED BY <2>1, <2>2, <2>3 DEF IndexSound, Exists
<1> QED BY <1>4, <1>5

-----------------------------------------------------------------------------
(* The invariant.                                                          *)

LEMMA InitInv == Init => Inv
<1> SUFFICES ASSUME Init PROVE Inv
  OBVIOUS
<1>1. TypeOK
  <2>1. faults \in 0..MaxFaults
    BY MaxFaultsAssumption DEF Init
  <2>2. locks \in [LockKeys -> Seq(Tickets)]
    BY DEF Init, StoreInit
  <2>3. StoreTypeOK
    BY <2>2 DEF Init, StoreInit, StoreTypeOK
  <2> QED BY <2>1, <2>3, NoMemoryType, PCTypes DEF Init, TypeOK
<1>2. ASSUME NEW p \in Handlers
      PROVE  HandlerInv(p)
  <2>1. pc[p] = "idle" /\ req[p].op = "none"
    BY DEF Init, NoRequest
  <2> QED
    BY <2>1
    DEF HandlerInv, LockInv, RequestInv, ReaderInv, AppenderInv, CreatorInv,
        LinkerInv, ActionLockPCs, CreatePCs, ReadPCs, AppendPCs, ListPCs,
        IndexLockPCs
<1>3. ASSUME NEW a \in Actions
      PROVE  FilesInv(a)
  BY DEF Init, StoreInit, FilesInv, Exists
<1>4. IndexSound
  BY DEF Init, StoreInit, IndexSound
<1> QED BY <1>1, <1>2, <1>3, <1>4 DEF Inv, HandlerInv

LEMMA CrashInv ==
    ASSUME Inv, Crash
    PROVE  Inv'
<1>1. TypeOK'
  BY FaultType
<1>2. ASSUME NEW p \in Handlers
      PROVE  HandlerInv(p)'
  <2>1. pc'[p] = "idle" /\ req'[p].op = "none"
    BY DEF Crash, NoRequest
  <2> QED
    BY <2>1
    DEF HandlerInv, LockInv, RequestInv, ReaderInv, AppenderInv, CreatorInv,
        LinkerInv, ActionLockPCs, CreatePCs, ReadPCs, AppendPCs, ListPCs,
        IndexLockPCs
<1>3. (\A a \in Actions : FilesInv(a))' /\ IndexSound'
  BY DEF Inv, Crash, disk, FilesInv, IndexSound, Exists, Committed
<1> QED BY <1>1, <1>2, <1>3 DEF Inv, HandlerInv

LEMMA NextInv ==
    ASSUME Inv, [Next]_vars
    PROVE  Inv'
<1>1. CASE UNCHANGED vars
  BY <1>1
  DEF Inv, vars, disk, TypeOK, StoreTypeOK, LockInv, RequestInv, ReaderInv,
      AppenderInv, CreatorInv, LinkerInv, FilesInv, IndexSound, Exists, Committed,
      Holds, Seen, LinkTaken
<1>2. CASE Crash
  BY <1>2, CrashInv
<1>3. ASSUME NEW p \in Handlers, HandlerStep(p)
      PROVE  Inv'
  <2>1. TypeOK'
    BY <1>3, ArrivalType, CreateType, ReadType, IngestType, ReplyType, FaultType
    DEF HandlerStep, Progress, Inv
  <2>2. ASSUME NEW q \in Handlers
        PROVE  HandlerInv(q)'
    BY <1>3, OwnInv, OthersInv DEF HandlerInv
  <2> QED BY <1>3, <2>1, <2>2, FilesStep, IndexStep DEF Inv, HandlerInv
<1> QED BY <1>1, <1>2, <1>3 DEF Next, HandlerStep

\* The invariant holds in every reachable state, for all constants.
THEOREM Invariant == Spec => []Inv
<1>1. Init => Inv
  BY InitInv
<1>2. Inv /\ [Next]_vars => Inv'
  BY NextInv
<1> QED BY <1>1, <1>2, PTL DEF Spec

\* Type correctness: in particular no read of an existing action finds a
\* file missing (getAction, store.mjs:128).
THEOREM TypeCorrect == Spec => []TypeOK
<1>1. Inv => TypeOK
  BY DEF Inv
<1> QED BY <1>1, Invariant, PTL

\* A delivery repeated or raced is recorded once, in a gapless run of
\* revisions with at most one uncommitted file after it.
THEOREM RecordedOnce == Spec => []ExactlyOnce
<1>1. Inv => ExactlyOnce
  BY DEF Inv, FilesInv, ExactlyOnce
<1> QED BY <1>1, Invariant, PTL

\* The refund index points at actions created for the refund, and at every
\* such action whose creation was answered 201.
THEOREM IndexIsSound == Spec => []IndexSound
<1>1. Inv => IndexSound
  BY DEF Inv
<1> QED BY <1>1, Invariant, PTL

\* A committed revision is never changed, removed or uncounted, whatever
\* requests race, fail or are cut off by a restart.
THEOREM CommittedRevisionsImmutable == Spec => CommittedImmutable
<1> DEFINE A == \A a \in Actions :
                  /\ Committed(a) \subseteq Committed(a)'
                  /\ \A n \in Committed(a) : revisions'[a][n] = revisions[a][n]
<1>1. ASSUME Inv, [Next]_vars
      PROVE  A
  <2>1. CASE UNCHANGED vars \/ Crash
    BY <2>1 DEF vars, Crash, disk, Committed, Exists
  <2>2. ASSUME NEW p \in Handlers, HandlerStep(p), NEW a \in Actions
        PROVE  /\ Committed(a) \subseteq Committed(a)'
               /\ \A n \in Committed(a) : revisions'[a][n] = revisions[a][n]
    <3>1. Exists(a) => metadata[a].revision \in Nat
      BY <1>1, <2>2 DEF Inv, TypeOK, StoreTypeOK, Exists, Metadata
    <3>2. Grows(a)
      BY <1>1, <2>2, FilesGrow
    <3> QED BY <3>1, <3>2 DEF Grows, Committed, Exists
  <2> QED BY <1>1, <2>1, <2>2 DEF Next, HandlerStep
<1>2. Inv /\ [Next]_vars => [A]_vars
  BY <1>1
<1> QED BY <1>2, Invariant, PTL DEF Spec, CommittedImmutable
===============================================================================
