--------------------------- MODULE RelayHistoryProofs ---------------------------
(***************************************************************************)
(* Proofs about what the Relay's files contain and what its answers say,   *)
(* for any handlers, actions, refunds and events and any number of         *)
(* failures and restarts; and that it implements EvidenceLedger.           *)
(*                                                                         *)
(* The argument: histories, committed revisions and links only grow        *)
(* (HistoryGrows, LinksKept), so what a handler has read outside the lock  *)
(* stays a past state of the files; what a writer has written in the lock  *)
(* stays as it is until it releases it (WriterFilesKept).                  *)
(***************************************************************************)
EXTENDS RelayHistory, RelayProofs

-----------------------------------------------------------------------------
(* Sequences of recorded events.                                           *)

LEMMA PrefixReflexive ==
    ASSUME NEW s \in Logs
    PROVE  IsPrefix(s, s)
BY DEF IsPrefix, Logs

LEMMA PrefixAppend ==
    ASSUME NEW s \in Logs, NEW t \in Logs, NEW e \in Events, IsPrefix(s, t)
    PROVE  IsPrefix(s, Append(t, e))
<1>1. Len(s) \in Nat /\ Len(t) \in Nat /\ Len(s) <= Len(t)
  BY DEF IsPrefix, Logs
<1>2. Len(Append(t, e)) = Len(t) + 1
  BY RecordGrows
<1>3. SubSeq(Append(t, e), 1, Len(s)) = SubSeq(t, 1, Len(s))
  BY <1>1, <1>2 DEF Logs
<1> QED BY <1>1, <1>2, <1>3 DEF IsPrefix

LEMMA PrefixElements ==
    ASSUME NEW s \in Logs, NEW t \in Logs, IsPrefix(s, t)
    PROVE  ToSet(s) \subseteq ToSet(t)
<1>1. Len(s) \in Nat /\ Len(t) \in Nat /\ Len(s) <= Len(t)
  BY DEF IsPrefix, Logs
<1>2. SubSeq(s, 1, Len(s)) = SubSeq(t, 1, Len(s))
  BY DEF IsPrefix
<1>3. ASSUME NEW i \in 1..Len(s)
      PROVE  s[i] = t[i] /\ i \in 1..Len(t)
  <2>1. SubSeq(s, 1, Len(s))[i] = s[i] /\ SubSeq(t, 1, Len(s))[i] = t[i]
    BY <1>1, <1>3 DEF Logs
  <2> QED BY <1>1, <1>2, <1>3, <2>1
<1>4. DOMAIN s = 1..Len(s) /\ DOMAIN t = 1..Len(t)
  BY DEF Logs
<1> QED BY <1>3, <1>4 DEF ToSet

LEMMA AppendElements ==
    ASSUME NEW s \in Logs, NEW e \in Events
    PROVE  /\ e \in ToSet(Append(s, e))
           /\ ToSet(s) \subseteq ToSet(Append(s, e))
           /\ Append(s, e)[Len(s) + 1] = e
           /\ \A i \in 1..Len(s) : Append(s, e)[i] = s[i]
<1>1. Len(s) \in Nat /\ DOMAIN s = 1..Len(s)
  BY DEF Logs
<1>2. DOMAIN Append(s, e) = 1..(Len(s) + 1)
  BY DEF Logs
<1>3. Append(s, e)[Len(s) + 1] = e /\ \A i \in 1..Len(s) : Append(s, e)[i] = s[i]
  BY DEF Logs
<1> QED BY <1>1, <1>2, <1>3 DEF ToSet

-----------------------------------------------------------------------------
(* What a step of any handler keeps.                                       *)

\* The metadata of an existing action changes only when an event is recorded.
LEMMA MetadataSteps ==
    ASSUME Inv, NEW p \in Handlers, HandlerStep(p), NEW c \in Actions, Exists(c)
    PROVE  \/ metadata'[c] = metadata[c]
           \/ /\ AppendMetadata(p)
              /\ c = req[p].action
              /\ metadata'[c] = NextMetadata(p)
<1>1. TypeOK
  BY DEF Inv
<1>2. CASE ~FileStep(p)
  BY <1>2, FileSteps DEF disk
<1>3. CASE FileStep(p)
  <2>1. CASE CreateMetadata(p)
    BY <1>1, <1>3, <2>1, WriterKnows
    DEF CreateMetadata, WriteMetadata, TypeOK, StoreTypeOK
  <2>2. CASE AppendMetadata(p)
    BY <1>1, <2>2 DEF AppendMetadata, WriteMetadata, TypeOK, StoreTypeOK
  <2>3. CASE ~CreateMetadata(p) /\ ~AppendMetadata(p)
    BY <1>3, <2>3
    DEF FileStep, CreateRevision, CreateCurrent, LinkWrite, AppendRevision,
        AppendCurrent
  <2> QED BY <2>1, <2>2, <2>3
<1> QED BY <1>2, <1>3

\* Histories and committed revisions grow.
LEMMA HistoryGrows ==
    ASSUME Inv, NEW p \in Handlers, HandlerStep(p), NEW c \in Actions, Exists(c)
    PROVE  /\ metadata'[c] # Absent
           /\ metadata[c] \in Metadata /\ metadata'[c] \in Metadata
           /\ \A s \in Logs : IsPrefix(s, metadata[c].seen) => IsPrefix(s, metadata'[c].seen)
           /\ \A e \in Events : Seen(metadata[c], e) => Seen(metadata'[c], e)
           /\ \A i \in 1..Len(metadata[c].seen) : metadata'[c].seen[i] = metadata[c].seen[i]
           /\ \A n \in Committed(c) :
                 n \in 1..metadata'[c].revision /\ revisions'[c][n] = revisions[c][n]
<1>1. metadata[c] \in Metadata
  BY DEF Inv, TypeOK, StoreTypeOK, Exists
<1>2. metadata[c].seen \in Logs /\ metadata[c].revision \in Nat
  BY <1>1 DEF Metadata
<1>3. /\ metadata'[c] # Absent
      /\ \A n \in Committed(c) :
            n \in 1..metadata'[c].revision /\ revisions'[c][n] = revisions[c][n]
  BY <1>2, FilesGrow DEF Grows, Committed, Exists
<1>4. CASE metadata'[c] = metadata[c]
  BY <1>1, <1>3, <1>4 DEF Seen
<1>5. CASE /\ AppendMetadata(p)
           /\ c = req[p].action
           /\ metadata'[c] = NextMetadata(p)
  <2>1. /\ req[p].event \in Events
        /\ NextMetadata(p) \in Metadata
        /\ NextMetadata(p).seen = Append(metadata[c].seen, req[p].event)
    BY <1>5, WriterKnows DEF FileStep
  <2>2. metadata'[c].seen = Append(metadata[c].seen, req[p].event)
    BY <1>5, <2>1
  <2>3. \A s \in Logs : IsPrefix(s, metadata[c].seen) => IsPrefix(s, metadata'[c].seen)
    BY <1>2, <2>1, <2>2, PrefixAppend
  <2>4. /\ \A e \in Events : Seen(metadata[c], e) => Seen(metadata'[c], e)
        /\ \A i \in 1..Len(metadata[c].seen) : metadata'[c].seen[i] = metadata[c].seen[i]
    BY <1>2, <2>1, <2>2, AppendElements DEF Seen
  <2> QED BY <1>1, <1>3, <1>5, <2>1, <2>3, <2>4
<1> QED BY <1>4, <1>5, MetadataSteps

\* A link, once written, stays.
LEMMA LinksKept ==
    ASSUME Inv, NEW p \in Handlers, HandlerStep(p), NEW r \in Refunds,
           index[r] # Absent
    PROVE  index'[r] = index[r]
<1>1. TypeOK
  BY DEF Inv
<1>2. CASE LinkWrite(p)
  <2>1. /\ req[p].refund \in Refunds
        /\ mem[p].links = index
        /\ ~LinkTaken(p)
    BY <1>2, WriterKnows DEF FileStep
  <2> QED
    BY <1>1, <1>2, <2>1
    DEF LinkWrite, WriteIndex, LinkTaken, TypeOK, StoreTypeOK
<1>3. CASE ~LinkWrite(p)
  BY <1>3, FileSteps
  DEF disk, FileStep, CreateRevision, CreateCurrent, CreateMetadata,
      AppendRevision, AppendCurrent, AppendMetadata
<1> QED BY <1>2, <1>3

\* The files of an action whose lock another handler holds stay as they are.
LEMMA WriterFilesKept ==
    ASSUME Inv, NEW p \in Handlers, HandlerStep(p), NEW q \in Handlers, q # p,
           pc[q] \in ActionLockPCs \ {"create_check", "append_check"}
    PROVE  /\ revisions'[req[q].action] = revisions[req[q].action]
           /\ current'[req[q].action] = current[req[q].action]
           /\ metadata'[req[q].action] = metadata[req[q].action]
<1>1. Holds(req[q].action, OuterTicket(q)) /\ req[q].action \in Actions
  BY DEF Inv, LockInv, RequestInv, ActionLockPCs
<1>2. ~Holds(req[q].action, OuterTicket(p))
  BY <1>1 DEF Holds, OuterTicket
<1> QED BY <1>1, <1>2, FilesGuarded

-----------------------------------------------------------------------------
(* What other handlers have read, built and answered stays true.           *)

\* In both states: q's request, and what it says of q's action.
LEMMA RequestTypes ==
    ASSUME Inv, NEW q \in Handlers
    PROVE  /\ mem[q] \in Memory
           /\ req[q].op = "ingest" => req[q].event \in Events
           /\ pc[q] \in CreatePCs \cup ReadPCs \cup AppendPCs \cup ListPCs =>
                 req[q].action \in Actions
           /\ pc[q] \in AppendPCs =>
                 Exists(req[q].action) /\ req[q].op = "ingest"
           /\ \A a \in Actions : Committed(a) # {} => Exists(a)
BY DEF Inv, TypeOK, RequestInv, AppenderInv, Committed

LEMMA OthersHistory ==
    ASSUME HInv, NEW p \in Handlers, HandlerStep(p), NEW q \in Handlers, q # p
    PROVE  HistoryInv(q)'
<1> DEFINE a == req[q].action
           e == req[q].event
<1>1. Inv /\ TypeOK /\ HistoryInv(q)
  BY DEF HInv, Inv
<1>2. pc'[q] = pc[q] /\ req'[q] = req[q] /\ mem'[q] = mem[q]
  BY <1>1, OthersKept
<1>3. LinkedInv(q)'
  <2>1. SUFFICES ASSUME req[q].op = "ingest", pc[q] \in ReadPCs \cup AppendPCs
                 PROVE  index'[RefundOf[e]] = a
    BY <1>2 DEF LinkedInv
  <2>2. /\ RefundOf[e] \in Refunds
        /\ a \in Actions
        /\ index[RefundOf[e]] = a
    BY <1>1, <2>1, RequestTypes, RefundOfAssumption DEF HistoryInv, LinkedInv
  <2> QED BY <1>1, <2>2, LinksKept, AbsentAssumption
<1>4. SourceInv(q)'
  <2>1. ASSUME pc[q] \in {"read_bundle", "read_current", "append_check"} \cup ListPCs
        PROVE  /\ mem[q].meta \in Metadata
               /\ metadata'[a] # Absent
               /\ mem[q].meta.revision \in 1..metadata'[a].revision
               /\ IsPrefix(mem[q].meta.seen, metadata'[a].seen)
               /\ revisions'[a][mem[q].meta.revision] = revisions[a][mem[q].meta.revision]
    <3>1. /\ a \in Actions
          /\ mem[q].meta \in Metadata
          /\ mem[q].meta.revision \in Committed(a)
          /\ IsPrefix(mem[q].meta.seen, metadata[a].seen)
      BY <1>1, <2>1, RequestTypes DEF HistoryInv, SourceInv, ReadPCs, AppendPCs
    <3>2. Exists(a) /\ mem[q].meta.seen \in Logs
      BY <3>1 DEF Committed, Metadata
    <3> QED BY <1>1, <3>1, <3>2, HistoryGrows
  <2> QED
    BY <1>1, <1>2, <2>1 DEF HistoryInv, SourceInv, Committed, Exists
<1>5. DraftInv(q)'
  <2>1. ASSUME pc[q] \in AppendPCs
        PROVE  /\ metadata'[a] # Absent
               /\ \E m \in 1..metadata'[a].revision :
                     /\ mem[q].bundle.pred = Digest(revisions'[a][m])
                     /\ mem[q].bundle.log = Append(revisions'[a][m].log, e)
    <3>1. a \in Actions /\ Exists(a) /\ Extends(mem[q].bundle, a, Committed(a), e)
      BY <1>1, <2>1, RequestTypes DEF HistoryInv, DraftInv
    <3>2. metadata'[a] # Absent
      BY <1>1, <3>1, HistoryGrows
    <3>3. PICK m \in Committed(a) : /\ mem[q].bundle.pred = Digest(revisions[a][m])
                                    /\ mem[q].bundle.log = Append(revisions[a][m].log, e)
      BY <3>1 DEF Extends
    <3>4. m \in 1..metadata'[a].revision /\ revisions'[a][m] = revisions[a][m]
      BY <1>1, <3>1, HistoryGrows
    <3> QED BY <3>2, <3>3, <3>4
  <2>2. ASSUME pc[q] \in {"append_current", "append_metadata", "create_current", "create_metadata"}
        PROVE  revisions'[a] = revisions[a] /\ current'[a] = current[a]
    <3>1. pc[q] \in ActionLockPCs \ {"create_check", "append_check"}
      BY <2>2 DEF ActionLockPCs, CreatePCs, AppendPCs
    <3> QED BY <1>1, <3>1, WriterFilesKept
  <2>3. DraftInv(q)
    BY <1>1 DEF HistoryInv
  <2> QED
    BY <1>2, <2>1, <2>2, <2>3 DEF DraftInv, Extends, Committed, Exists
<1>6. ListingInv(q)'
  <2>1. ASSUME pc[q] = "list_file",
               NEW m \in DOMAIN mem[q].rows \cap (1..mem[q].meta.revision)
        PROVE  mem[q].rows[m] = [revision |-> m, bundle |-> revisions'[a][m]]
    <3>1. /\ a \in Actions
          /\ mem[q].meta.revision \in Committed(a)
          /\ mem[q].meta.revision \in Nat
          /\ mem[q].rows[m] = Row(a, m)
      BY <1>1, <2>1, RequestTypes
      DEF HistoryInv, SourceInv, ListingInv, ListPCs, Metadata
    <3>2. Exists(a) /\ metadata[a].revision \in Nat
      BY <1>1, <3>1 DEF Committed, Exists, TypeOK, StoreTypeOK, Metadata
    <3>3. m \in Committed(a)
      BY <3>1, <3>2 DEF Committed
    <3> QED BY <1>1, <3>1, <3>2, <3>3, HistoryGrows DEF Row
  <2> QED BY <1>1, <1>2, <2>1 DEF HistoryInv, ListingInv, Row
<1>7. AcceptedInv(q)'
  <2>1. SUFFICES ASSUME pc[q] = "reply", req[q].op = "ingest", mem[q].status \in {200, 202}
                 PROVE  /\ index'[RefundOf[e]] = a
                        /\ a \in Actions
                        /\ metadata'[a] # Absent
                        /\ Seen(metadata'[a], e)
    BY <1>2 DEF AcceptedInv, Exists, Seen
  <2>2. /\ index[RefundOf[e]] = a
        /\ a \in Actions
        /\ Exists(a)
        /\ Seen(metadata[a], e)
        /\ e \in Events
        /\ RefundOf[e] \in Refunds
    BY <1>1, <2>1, RequestTypes, RefundOfAssumption DEF HistoryInv, AcceptedInv
  <2>3. index'[RefundOf[e]] = index[RefundOf[e]]
    BY <1>1, <2>2, LinksKept, AbsentAssumption
  <2> QED BY <1>1, <2>2, <2>3, HistoryGrows DEF Exists
<1>8. ReplyInv(q)'
  <2>1. CASE pc[q] = "reply" /\ mem[q].status = 200
    <3> DEFINE n == mem[q].meta.revision
    <3>1. /\ a \in Actions
          /\ mem[q].meta \in Metadata
          /\ n \in Committed(a)
          /\ IsPrefix(mem[q].meta.seen, metadata[a].seen)
          /\ req[q].op = "get" => mem[q].bundle = revisions[a][n]
          /\ req[q].op = "list" =>
                /\ Len(mem[q].rows) >= n
                /\ \A m \in 1..n : mem[q].rows[m] = Row(a, m)
      BY <1>1, <2>1 DEF HistoryInv, ReplyInv
    <3>2. /\ Exists(a)
          /\ mem[q].meta.seen \in Logs
          /\ n \in Nat
          /\ metadata[a].revision \in Nat
      BY <1>1, <3>1 DEF Committed, Exists, TypeOK, StoreTypeOK, Metadata
    <3>3. /\ metadata'[a] # Absent
          /\ n \in 1..metadata'[a].revision
          /\ IsPrefix(mem[q].meta.seen, metadata'[a].seen)
          /\ revisions'[a][n] = revisions[a][n]
      BY <1>1, <3>1, <3>2, HistoryGrows
    <3>4. ASSUME req[q].op = "list", NEW m \in 1..n
          PROVE  mem[q].rows[m] = [revision |-> m, bundle |-> revisions'[a][m]]
      <4>1. m \in Committed(a)
        BY <3>1, <3>2, <3>4 DEF Committed
      <4> QED BY <1>1, <3>1, <3>2, <3>4, <4>1, HistoryGrows DEF Row
    <3>5. /\ a \in Actions /\ mem[q].meta \in Metadata
          /\ metadata'[a] # Absent /\ n \in 1..metadata'[a].revision
          /\ IsPrefix(mem[q].meta.seen, metadata'[a].seen)
          /\ req[q].op = "get" => mem[q].bundle = revisions'[a][n]
          /\ req[q].op = "list" =>
                /\ Len(mem[q].rows) >= n
                /\ \A m \in 1..n :
                      mem[q].rows[m] = [revision |-> m, bundle |-> revisions'[a][m]]
      BY <3>1, <3>3, <3>4
    <3> QED BY <1>2, <3>5 DEF ReplyInv, Row, Committed, Exists
  <2>2. CASE ~(pc[q] = "reply" /\ mem[q].status = 200)
    BY <1>2, <2>2 DEF ReplyInv
  <2> QED BY <2>1, <2>2
<1> QED BY <1>3, <1>4, <1>5, <1>6, <1>7, <1>8 DEF HistoryInv
-----------------------------------------------------------------------------
(* What the handler that takes the step has read, built and answered.      *)

\* Steps at which nothing has been read yet.
LEMMA QuietHistory ==
    ASSUME NEW p \in Handlers,
           pc'[p] \in {"idle", "find_refund"}
                         \cup (CreatePCs \ {"create_current", "create_metadata"}),
           mem'[p].rows = <<>>
    PROVE  HistoryInv(p)'
BY DEF HistoryInv, LinkedInv, SourceInv, DraftInv, ListingInv, AcceptedInv,
       ReplyInv, CreatePCs, ReadPCs, AppendPCs, ListPCs

\* An answer that tells of no event and no bundle.
LEMMA PlainAnswer ==
    ASSUME NEW p \in Handlers, pc'[p] = "reply", mem'[p].status # 200,
           req'[p].op # "ingest" \/ mem'[p].status # 202
    PROVE  HistoryInv(p)'
BY DEF HistoryInv, LinkedInv, SourceInv, DraftInv, ListingInv, AcceptedInv,
       ReplyInv, ReadPCs, AppendPCs, ListPCs

LEMMA ArrivalHistory ==
    ASSUME HInv, NEW p \in Handlers, Arrival(p)
    PROVE  HistoryInv(p)'
<1>1. TypeOK /\ ListingInv(p)
  BY DEF HInv, Inv, HistoryInv
<1>2. mem' = mem /\ pc[p] = "idle" /\ mem[p].rows = <<>>
  BY <1>1
  DEF Arrival, ReceiveCreate, ReceiveWebhook, ReceiveGet, ReceiveList, Receive,
      ListingInv
<1>3. CASE pc'[p] \in {"create_check", "find_refund"}
  BY <1>2, <1>3, QuietHistory DEF CreatePCs
<1>4. CASE pc'[p] = "read_metadata" /\ req'[p].op # "ingest"
  BY <1>2, <1>4
  DEF HistoryInv, LinkedInv, SourceInv, DraftInv, ListingInv, AcceptedInv,
      ReplyInv, AppendPCs, ListPCs
<1>5. \/ pc'[p] \in {"create_check", "find_refund"}
      \/ pc'[p] = "read_metadata" /\ req'[p].op # "ingest"
  BY <1>1
  DEF Arrival, ReceiveCreate, ReceiveWebhook, ReceiveGet, ReceiveList, Receive,
      NoRequest, TypeOK
<1> QED BY <1>3, <1>4, <1>5

LEMMA CreateHistory ==
    ASSUME HInv, NEW p \in Handlers, Create(p)
    PROVE  HistoryInv(p)'
<1> DEFINE a == req[p].action
<1>1. Inv /\ TypeOK /\ HistoryInv(p)
  BY DEF HInv, Inv
<1>2. /\ pc[p] \in CreatePCs
      /\ req' = req
      /\ req[p].op = "create"
      /\ a \in Actions
  BY <1>1
  DEF Create, CreateConflict, CreateCheck, CreateRevision, CreateCurrent,
      CreateMetadata, LinkConflict, LinkRead, LinkWrite, Answer, Step, CreatePCs,
      Inv, RequestInv
<1>3. mem[p].rows = <<>> /\ mem[p] \in Memory
  BY <1>1, <1>2 DEF HistoryInv, ListingInv, CreatePCs, TypeOK
<1>4. ASSUME NEW from, NEW status \in {400, 409, 201}, Answer(p, from, status)
      PROVE  HistoryInv(p)'
  <2>1. pc'[p] = "reply" /\ mem'[p].status # 200
    BY <1>1, <1>4, AnswerStatus
  <2> QED BY <1>2, <2>1, PlainAnswer
<1>5. CASE \/ CreateCheck(p) \/ LinkRead(p)
           \/ CreateMetadata(p) /\ req[p].refund \notin InvalidRefunds \cup {Absent}
  <2>1. pc'[p] \in {"create_revision", "link_read", "link_write"}
    BY <1>1, <1>5 DEF CreateCheck, LinkRead, CreateMetadata, Step, TypeOK
  <2>2. mem'[p].rows = <<>>
    BY <1>1, <1>3, <1>5 DEF CreateCheck, LinkRead, CreateMetadata, TypeOK, Memory
  <2> QED BY <2>1, <2>2, QuietHistory DEF CreatePCs
<1>6. CASE CreateRevision(p)
  <2>1. /\ pc'[p] = "create_current"
        /\ revisions'[a][1] = FirstBundle
        /\ mem' = mem
    BY <1>1, <1>2, <1>6, SavedRevision DEF CreateRevision, Step, TypeOK
  <2> QED
    BY <1>2, <1>3, <2>1
    DEF HistoryInv, LinkedInv, SourceInv, DraftInv, ListingInv, AcceptedInv,
        ReplyInv, ReadPCs, AppendPCs, ListPCs
<1>7. CASE CreateCurrent(p)
  <2>1. /\ pc[p] = "create_current"
        /\ pc'[p] = "create_metadata"
        /\ current'[a] = Digest(FirstBundle)
        /\ revisions' = revisions
        /\ mem' = mem
    BY <1>1, <1>2, <1>7 DEF CreateCurrent, WriteCurrent, Step, TypeOK, StoreTypeOK
  <2>2. revisions[a][1] = FirstBundle
    BY <1>1, <2>1 DEF HistoryInv, DraftInv
  <2> QED
    BY <1>2, <1>3, <2>1, <2>2
    DEF HistoryInv, LinkedInv, SourceInv, DraftInv, ListingInv, AcceptedInv,
        ReplyInv, ReadPCs, AppendPCs, ListPCs
<1>8. CASE CreateConflict(p) \/ LinkConflict(p) \/ LinkWrite(p)
  BY <1>4, <1>8 DEF CreateConflict, LinkConflict, LinkWrite
<1>9. CASE CreateMetadata(p) /\ req[p].refund \in InvalidRefunds \cup {Absent}
  BY <1>4, <1>9 DEF CreateMetadata
<1> QED BY <1>5, <1>6, <1>7, <1>8, <1>9 DEF Create

\* A reader's next step: what it has read is all there is to say of it.
LEMMA ReadingHistory ==
    ASSUME NEW p \in Handlers, pc'[p] \in ReadPCs \cup ListPCs,
           LinkedInv(p)', SourceInv(p)', ListingInv(p)'
    PROVE  HistoryInv(p)'
BY DEF HistoryInv, DraftInv, AcceptedInv, ReplyInv, ReadPCs, AppendPCs, ListPCs
LEMMA ReadHistory ==
    ASSUME HInv, NEW p \in Handlers, Read(p), ~ListNames(p), ~ListFile(p)
    PROVE  HistoryInv(p)'
<1> DEFINE a == req[p].action
<1>1. Inv /\ TypeOK /\ HistoryInv(p)
  BY DEF HInv, Inv
<1>2. UNCHANGED <<disk, locks>> /\ mem[p] \in Memory
  BY <1>1
  DEF TypeOK, Read, FindRefund, ReadMetadata, ReadBundle, ReadCurrentForGet,
      ReadCurrentForList
<1>3. ASSUME NEW from, Answer(p, from, 404)
      PROVE  HistoryInv(p)'
  <2>1. pc'[p] = "reply" /\ mem'[p].status = 404
    BY <1>1, <1>3, AnswerStatus DEF Statuses
  <2> QED BY <2>1, PlainAnswer
<1>4. CASE FindRefund(p)
  <2>1. CASE LinkedAction(p) = Absent
    BY <1>3, <1>4, <2>1 DEF FindRefund
  <2>2. CASE LinkedAction(p) # Absent
    <3>1. /\ pc[p] = "find_refund"
          /\ pc'[p] = "read_metadata"
          /\ req'[p] = [req[p] EXCEPT !.action = LinkedAction(p)]
          /\ mem' = mem
      BY <1>1, <1>4, <2>2 DEF FindRefund, Step, TypeOK
    <3>2. req'[p].action = LinkedAction(p) /\ req'[p].event = req[p].event
      BY <1>1, <3>1 DEF TypeOK, Requests
    <3>3. mem[p].rows = <<>>
      BY <1>1, <3>1 DEF HistoryInv, ListingInv
    <3>4. LinkedInv(p)'
      BY <1>2, <3>2 DEF LinkedInv, LinkedAction, disk
    <3> QED
      BY <3>1, <3>3, <3>4, ReadingHistory DEF SourceInv, ListingInv, ReadPCs, ListPCs
  <2> QED BY <2>1, <2>2
<1>5. CASE ReadMetadata(p)
  <2>1. CASE ~Exists(a)
    BY <1>3, <1>5, <2>1 DEF ReadMetadata
  <2>2. CASE Exists(a)
    <3>1. /\ pc[p] = "read_metadata"
          /\ pc'[p] = "read_bundle"
          /\ UNCHANGED <<disk, req>>
          /\ mem'[p] = [mem[p] EXCEPT !.meta = metadata[a]]
      BY <1>1, <1>5, <2>2 DEF ReadMetadata, Step, TypeOK
    <3>2. a \in Actions
      BY <1>1, <3>1, RequestTypes DEF ReadPCs
    <3>3. mem'[p].meta = metadata[a] /\ mem'[p].rows = mem[p].rows
      BY <1>2, <3>1 DEF Memory
    <3>4. /\ metadata[a] \in Metadata
          /\ metadata[a].seen \in Logs
          /\ metadata[a].revision = Len(metadata[a].seen) + 1
      BY <1>1, <2>2, <3>2
      DEF Inv, FilesInv, Exists, TypeOK, StoreTypeOK, Metadata
    <3>5. /\ metadata[a].revision \in 1..metadata[a].revision
          /\ IsPrefix(metadata[a].seen, metadata[a].seen)
      BY <3>4, PrefixReflexive DEF Logs
    <3>6. SourceInv(p)'
      BY <2>2, <3>1, <3>3, <3>4, <3>5 DEF SourceInv, Committed, Exists, ListPCs, disk
    <3>7. LinkedInv(p)' /\ ListingInv(p)'
      BY <1>1, <3>1, <3>3 DEF HistoryInv, LinkedInv, ListingInv, ReadPCs, ListPCs, disk
    <3> QED BY <3>1, <3>6, <3>7, ReadingHistory DEF ReadPCs
  <2> QED BY <2>1, <2>2
<1>6. CASE ReadBundle(p)
  <2> DEFINE b == revisions[a][mem[p].meta.revision]
  <2>1. /\ pc[p] = "read_bundle"
        /\ pc'[p] = "read_current"
        /\ UNCHANGED <<disk, req>>
        /\ mem'[p] = [mem[p] EXCEPT !.bundle = b]
    BY <1>1, <1>6 DEF ReadBundle, Step, TypeOK
  <2>2. /\ mem'[p].bundle = b
        /\ mem'[p].meta = mem[p].meta
        /\ mem'[p].rows = mem[p].rows
    BY <1>2, <2>1 DEF Memory
  <2>3. SourceInv(p)'
    BY <1>1, <2>1, <2>2
    DEF HistoryInv, SourceInv, Committed, Exists, ListPCs, disk
  <2>4. LinkedInv(p)' /\ ListingInv(p)'
    BY <1>1, <2>1, <2>2 DEF HistoryInv, LinkedInv, ListingInv, ReadPCs, ListPCs, disk
  <2> QED BY <2>1, <2>3, <2>4, ReadingHistory DEF ReadPCs
<1>7. CASE ReadCurrentForGet(p)
  <2>1. /\ pc[p] = "read_current"
        /\ pc'[p] = "reply"
        /\ UNCHANGED <<disk, req>>
        /\ req[p].op = "get"
        /\ mem'[p] = [mem[p] EXCEPT !.summary = current[a], !.status = 200]
    BY <1>1, <1>7 DEF ReadCurrentForGet, Step, TypeOK
  <2>2. mem'[p].bundle = mem[p].bundle /\ mem'[p].meta = mem[p].meta
    BY <1>2, <2>1 DEF Memory
  <2>3. /\ a \in Actions
        /\ mem[p].meta \in Metadata
        /\ mem[p].meta.revision \in Committed(a)
        /\ IsPrefix(mem[p].meta.seen, metadata[a].seen)
        /\ mem[p].bundle = revisions[a][mem[p].meta.revision]
    BY <1>1, <2>1, RequestTypes DEF HistoryInv, SourceInv, ReadPCs
  <2>4. ReplyInv(p)'
    BY <2>1, <2>2, <2>3 DEF ReplyInv, Committed, Exists, disk
  <2> QED
    BY <2>1, <2>4
    DEF HistoryInv, LinkedInv, SourceInv, DraftInv, ListingInv, AcceptedInv,
        ReadPCs, AppendPCs, ListPCs
<1>8. CASE ReadCurrentForList(p)
  <2>1. /\ pc[p] = "read_current"
        /\ pc'[p] = "list_names"
        /\ UNCHANGED <<disk, req, mem>>
        /\ req[p].op = "list"
    BY <1>1, <1>8 DEF ReadCurrentForList, Step, TypeOK
  <2>2. SourceInv(p)' /\ LinkedInv(p)' /\ ListingInv(p)'
    BY <1>1, <2>1
    DEF HistoryInv, SourceInv, LinkedInv, ListingInv, Committed, Exists, disk
  <2> QED BY <2>1, <2>2, ReadingHistory DEF ListPCs
<1> QED BY <1>4, <1>5, <1>6, <1>7, <1>8 DEF Read

\* The revision files have no gap.
LEMMA FilesWithoutGap ==
    ASSUME NEW last \in Nat, NEW D, 1..last \subseteq D, D \subseteq 1..(last + 1)
    PROVE  D = 1..last \/ (D = 1..(last + 1) /\ last + 1 \in D)
<1>1. CASE last + 1 \in D
  <2>1. ASSUME NEW i \in 1..(last + 1)
        PROVE  i \in D
    BY <1>1, <2>1
  <2> QED BY <1>1, <2>1
<1>2. CASE last + 1 \notin D
  <2>1. ASSUME NEW i \in D
        PROVE  i \in 1..last
    <3>1. i \in 1..(last + 1) /\ i # last + 1
      BY <1>2, <2>1
    <3> QED BY <3>1
  <2> QED BY <2>1
<1> QED BY <1>1, <1>2

LEMMA ListHistory ==
    ASSUME HInv, NEW p \in Handlers, ListNames(p) \/ ListFile(p)
    PROVE  HistoryInv(p)'
<1> DEFINE a == req[p].action
           n == mem[p].meta.revision
           rows == mem[p].rows
<1>1. Inv /\ TypeOK /\ HistoryInv(p) /\ mem[p] \in Memory
  BY DEF HInv, Inv, TypeOK
<1>2. UNCHANGED <<disk, req>> /\ pc[p] \in ListPCs /\ req[p].op = "list"
  BY <1>1 DEF ListNames, ListFile, Step, ListPCs, HistoryInv, ListingInv
<1>3. /\ a \in Actions
      /\ mem[p].meta \in Metadata
      /\ n \in Nat
      /\ n \in Committed(a)
      /\ IsPrefix(mem[p].meta.seen, metadata[a].seen)
  BY <1>1, <1>2, RequestTypes DEF HistoryInv, SourceInv, Metadata
<1>4. CASE ListNames(p)
  <2>1. /\ pc[p] = "list_names"
        /\ pc'[p] = "list_file"
        /\ mem'[p] = [mem[p] EXCEPT !.names = DOMAIN revisions[a]]
    BY <1>1, <1>4 DEF ListNames, Step, TypeOK
  <2>2. /\ mem'[p].names = DOMAIN revisions[a]
        /\ mem'[p].meta = mem[p].meta
        /\ mem'[p].rows = <<>>
    BY <1>1, <2>1 DEF Memory, HistoryInv, ListingInv
  <2>3. /\ Exists(a)
        /\ metadata[a].revision \in Nat
        /\ n \in 1..metadata[a].revision
        /\ 1..metadata[a].revision \subseteq DOMAIN revisions[a]
        /\ DOMAIN revisions[a] \subseteq 1..(metadata[a].revision + 1)
    BY <1>1, <1>3 DEF Inv, FilesInv, Committed, Exists, TypeOK, StoreTypeOK, Metadata
  <2>4. \E top \in DOMAIN revisions[a] : n <= top /\ DOMAIN revisions[a] = 1..top
    <3> DEFINE last == metadata[a].revision
    <3> HIDE DEF last
    <3>1. /\ last \in Nat /\ n <= last /\ last \in 1..last
          /\ 1..last \subseteq DOMAIN revisions[a]
          /\ DOMAIN revisions[a] \subseteq 1..(last + 1)
      BY <2>3 DEF last
    <3>2. \/ DOMAIN revisions[a] = 1..last
          \/ DOMAIN revisions[a] = 1..(last + 1) /\ last + 1 \in DOMAIN revisions[a]
      BY <3>1, FilesWithoutGap
    <3>3. last \in DOMAIN revisions[a] /\ n <= last + 1
      BY <1>3, <3>1
    <3> QED BY <3>1, <3>2, <3>3
  <2>5. ListingInv(p)'
    BY <1>2, <2>1, <2>2, <2>4 DEF ListingInv
  <2>6. SourceInv(p)' /\ LinkedInv(p)'
    BY <1>2, <1>3, <2>1, <2>2
    DEF SourceInv, LinkedInv, ReadPCs, AppendPCs, Committed, Exists, disk
  <2> QED BY <2>1, <2>5, <2>6, ReadingHistory DEF ListPCs
<1>5. CASE ListFile(p)
  <2>1. PICK k \in mem[p].names :
          /\ \A m \in mem[p].names : k <= m
          /\ mem' = [mem EXCEPT
                        ![p].names = @ \ {k},
                        ![p].rows = Append(@, Row(req[p].action, k)),
                        ![p].status = 200]
          /\ Step(p, "list_file",
                  IF mem[p].names = {k} THEN "reply" ELSE "list_file")
    BY <1>5 DEF ListFile
  <2>2. pc[p] = "list_file"
    BY <2>1 DEF Step
  <2>3. /\ mem'[p].names = mem[p].names \ {k}
        /\ mem'[p].meta = mem[p].meta
        /\ mem'[p].rows = Append(rows, Row(a, k))
        /\ mem'[p].status = 200
    BY <1>1, <2>1 DEF TypeOK, Memory
  <2>4. PICK top \in mem[p].names : n <= top /\ mem[p].names = (Len(rows) + 1)..top
    BY <1>1, <2>2 DEF HistoryInv, ListingInv
  <2>5. rows \in Listings /\ Len(rows) \in Nat /\ top \in Nat
    BY <1>1, <2>4 DEF Memory, Listings
  <2>6. k = Len(rows) + 1
    BY <2>1, <2>4, <2>5
  <2>7. /\ Len(mem'[p].rows) = k
        /\ DOMAIN mem'[p].rows = 1..k
        /\ mem'[p].rows[k] = Row(a, k)
        /\ \A m \in DOMAIN rows : mem'[p].rows[m] = rows[m]
        /\ DOMAIN rows = 1..(k - 1)
    <3>1. DOMAIN rows = 1..(k - 1) /\ Len(rows) + 1 = k
      BY <2>5, <2>6 DEF Listings
    <3>2. /\ Len(Append(rows, Row(a, k))) = Len(rows) + 1
          /\ DOMAIN Append(rows, Row(a, k)) = 1..(Len(rows) + 1)
          /\ Append(rows, Row(a, k))[Len(rows) + 1] = Row(a, k)
          /\ \A m \in DOMAIN rows : Append(rows, Row(a, k))[m] = rows[m]
      BY <2>5 DEF Listings
    <3> QED BY <2>3, <3>1, <3>2
  <2>8. ASSUME NEW m \in 1..k, m <= n
        PROVE  mem'[p].rows[m] = [revision |-> m, bundle |-> revisions'[a][m]]
    <3>1. CASE m = k
      BY <1>2, <2>7, <3>1 DEF Row, disk
    <3>2. CASE m # k
      <4>1. m \in DOMAIN rows \cap (1..n)
        BY <1>3, <2>5, <2>6, <2>7, <2>8, <3>2
      <4>2. rows[m] = Row(a, m)
        BY <1>1, <2>2, <4>1 DEF HistoryInv, ListingInv
      <4> QED BY <1>2, <2>7, <4>1, <4>2 DEF Row, disk
    <3> QED BY <3>1, <3>2
  <2>9. CASE mem[p].names = {k}
    <3>1. pc'[p] = "reply" /\ top = k /\ n <= k
      BY <1>1, <2>1, <2>4, <2>9 DEF Step, TypeOK
    <3>2. \A m \in 1..n : mem'[p].rows[m] = [revision |-> m, bundle |-> revisions'[a][m]]
      BY <1>3, <2>5, <2>6, <2>8, <3>1
    <3>3. ReplyInv(p)'
      BY <1>2, <1>3, <2>3, <2>7, <3>1, <3>2 DEF ReplyInv, Row, Committed, Exists, disk
    <3> QED
      BY <1>2, <3>1, <3>3
      DEF HistoryInv, LinkedInv, SourceInv, DraftInv, ListingInv, AcceptedInv,
          ReadPCs, AppendPCs, ListPCs
  <2>10. CASE mem[p].names # {k}
    <3>1. pc'[p] = "list_file"
      BY <1>1, <2>1, <2>10 DEF Step, TypeOK
    <3>2. top \in mem'[p].names /\ mem'[p].names = (k + 1)..top
      BY <2>3, <2>4, <2>5, <2>6, <2>10
    <3>3. \A m \in (1..k) \cap (1..n) :
              mem'[p].rows[m] = [revision |-> m, bundle |-> revisions'[a][m]]
      BY <1>3, <2>8
    <3>4. ListingInv(p)'
      BY <1>2, <2>3, <2>4, <2>7, <3>1, <3>2, <3>3 DEF ListingInv, Row
    <3>5. SourceInv(p)' /\ LinkedInv(p)'
      BY <1>2, <1>3, <2>3, <3>1
      DEF SourceInv, LinkedInv, ReadPCs, AppendPCs, Committed, Exists, disk
    <3> QED BY <3>1, <3>4, <3>5, ReadingHistory DEF ListPCs
  <2> QED BY <2>9, <2>10
<1> QED BY <1>4, <1>5
LEMMA IngestHistory ==
    ASSUME HInv, NEW p \in Handlers, Ingest(p)
    PROVE  HistoryInv(p)'
<1> DEFINE a == req[p].action
           e == req[p].event
<1>1. Inv /\ TypeOK /\ HistoryInv(p) /\ mem[p] \in Memory
  BY DEF HInv, Inv, TypeOK
<1>2. HandlerStep(p)
  BY DEF HandlerStep, Progress
<1>3. /\ pc[p] \in AppendPCs \cup {"read_current"}
      /\ req' = req
      /\ req[p].op = "ingest"
      /\ e \in Events
      /\ a \in Actions
      /\ Exists(a)
      /\ index[RefundOf[e]] = a
  <2>1. /\ pc[p] \in AppendPCs \cup {"read_current"}
        /\ req' = req
        /\ pc[p] = "read_current" => req[p].op = "ingest"
    BY DEF Ingest, ReadCurrentDuplicate, ReadCurrentBuild, AppendDuplicate,
           AppendCheck, AppendRevision, AppendCurrent, AppendMetadata, Answer,
           Step, AppendPCs
  <2>2. a \in Actions /\ req[p].op = "ingest" /\ e \in Events
    BY <1>1, <2>1, RequestTypes DEF ReadPCs
  <2>3. Exists(a)
    <3>1. CASE pc[p] \in AppendPCs
      BY <1>1, <3>1, RequestTypes
    <3>2. CASE pc[p] = "read_current"
      <4>1. mem[p].meta.revision \in Committed(a)
        BY <1>1, <3>2 DEF HistoryInv, SourceInv
      <4> QED BY <4>1 DEF Committed
    <3> QED BY <2>1, <3>1, <3>2
  <2> QED BY <1>1, <2>1, <2>2, <2>3 DEF HistoryInv, LinkedInv, ReadPCs
<1>4. ASSUME pc'[p] = "reply", mem'[p].status \in {200, 202},
             index' = index, metadata'[a] # Absent, Seen(metadata'[a], e),
             mem'[p].status = 200 => ReplyInv(p)'
      PROVE  HistoryInv(p)'
  <2>1. AcceptedInv(p)'
    BY <1>3, <1>4 DEF AcceptedInv, Exists, Seen
  <2>2. ReplyInv(p)'
    BY <1>4 DEF ReplyInv
  <2> QED
    BY <1>4, <2>1, <2>2
    DEF HistoryInv, LinkedInv, SourceInv, DraftInv, ListingInv, ReadPCs,
        AppendPCs, ListPCs
<1>5. CASE ReadCurrentDuplicate(p) \/ AppendDuplicate(p)
  <2>1. /\ pc[p] \in {"read_current", "append_check"}
        /\ pc'[p] = "reply"
        /\ UNCHANGED disk
        /\ mem'[p] = [mem[p] EXCEPT !.status = 200]
    BY <1>1, <1>5 DEF ReadCurrentDuplicate, AppendDuplicate, Answer, Step, TypeOK
  <2>2. mem'[p].status = 200 /\ mem'[p].meta = mem[p].meta
    BY <1>1, <2>1 DEF Memory
  <2>3. /\ mem[p].meta \in Metadata
        /\ mem[p].meta.revision \in Committed(a)
        /\ IsPrefix(mem[p].meta.seen, metadata[a].seen)
    BY <1>1, <2>1 DEF HistoryInv, SourceInv
  <2>4. ReplyInv(p)'
    BY <1>3, <2>1, <2>2, <2>3 DEF ReplyInv, Committed, Exists, disk
  <2>5. Seen(metadata[a], e)
    <3>1. CASE ReadCurrentDuplicate(p)
      <4>1. e \in ToSet(mem[p].meta.seen)
        BY <3>1 DEF ReadCurrentDuplicate, Seen
      <4>2. mem[p].meta.seen \in Logs /\ metadata[a].seen \in Logs
        BY <1>1, <1>3, <2>3 DEF Exists, TypeOK, StoreTypeOK, Metadata
      <4> QED BY <2>3, <4>1, <4>2, PrefixElements DEF Seen
    <3>2. CASE AppendDuplicate(p)
      BY <3>2 DEF AppendDuplicate
    <3> QED BY <1>5, <3>1, <3>2
  <2> QED BY <1>3, <1>4, <2>1, <2>2, <2>4, <2>5 DEF Exists, Seen, disk
<1>6. CASE AppendMetadata(p)
  <2>1. /\ pc'[p] = "reply"
        /\ mem'[p].status = 202
        /\ index' = index
        /\ metadata'[a] = NextMetadata(p)
    BY <1>1, <1>3, <1>6, AnswerStatus
    DEF AppendMetadata, WriteMetadata, TypeOK, StoreTypeOK, Statuses
  <2>2. /\ NextMetadata(p) \in Metadata
        /\ NextMetadata(p).seen = Append(metadata[a].seen, e)
        /\ metadata[a] \in Metadata
    BY <1>1, <1>6, WriterKnows DEF FileStep
  <2>3. metadata[a].seen \in Logs
    BY <2>2 DEF Metadata
  <2>4. Seen(metadata'[a], e)
    BY <1>3, <2>1, <2>2, <2>3, AppendElements DEF Seen
  <2> QED BY <1>4, <2>1, <2>2, <2>4, AbsentAssumption
<1>7. ASSUME pc'[p] \in AppendPCs, index' = index, mem'[p].rows = mem[p].rows,
             SourceInv(p)', DraftInv(p)'
      PROVE  HistoryInv(p)'
  <2>1. mem[p].rows = <<>>
    BY <1>1, <1>3 DEF HistoryInv, ListingInv, AppendPCs
  <2>2. LinkedInv(p)' /\ ListingInv(p)'
    BY <1>3, <1>7, <2>1 DEF LinkedInv, ListingInv, AppendPCs, ListPCs
  <2> QED
    BY <1>7, <2>2 DEF HistoryInv, AcceptedInv, ReplyInv, AppendPCs
<1>8. CASE ReadCurrentBuild(p)
  <2> DEFINE n == mem[p].meta.revision
  <2>1. /\ pc[p] = "read_current"
        /\ pc'[p] = "append_check"
        /\ UNCHANGED disk
        /\ mem'[p] = [mem[p] EXCEPT !.bundle = NextBundle(p)]
    BY <1>1, <1>8 DEF ReadCurrentBuild, Step, TypeOK
  <2>2. /\ mem'[p].bundle = NextBundle(p)
        /\ mem'[p].meta = mem[p].meta
        /\ mem'[p].rows = mem[p].rows
    BY <1>1, <2>1 DEF Memory
  <2>3. /\ mem[p].meta \in Metadata
        /\ n \in Committed(a)
        /\ IsPrefix(mem[p].meta.seen, metadata[a].seen)
        /\ mem[p].bundle = revisions[a][n]
    BY <1>1, <2>1 DEF HistoryInv, SourceInv
  <2>4. SourceInv(p)'
    BY <1>3, <2>1, <2>2, <2>3 DEF SourceInv, Committed, Exists, ListPCs, disk
  <2>5. /\ NextBundle(p).pred = Digest(revisions[a][n])
        /\ NextBundle(p).log = Append(revisions[a][n].log, e)
    BY <2>3 DEF NextBundle
  <2>6. DraftInv(p)'
    BY <1>3, <2>1, <2>2, <2>3, <2>5 DEF DraftInv, Extends, Committed, Exists, disk
  <2> QED BY <1>7, <2>1, <2>2, <2>4, <2>6 DEF AppendPCs, disk
<1>9. CASE AppendCheck(p)
  <2>1. /\ pc[p] = "append_check"
        /\ pc'[p] = "append_revision"
        /\ UNCHANGED disk
        /\ mem'[p] = [mem[p] EXCEPT !.meta = metadata[a]]
    BY <1>1, <1>9 DEF AppendCheck, Step, TypeOK
  <2>2. mem'[p].bundle = mem[p].bundle /\ mem'[p].rows = mem[p].rows
    BY <1>1, <2>1 DEF Memory
  <2>3. DraftInv(p)'
    BY <1>1, <1>3, <2>1, <2>2
    DEF HistoryInv, DraftInv, Extends, Committed, Exists, disk, AppendPCs
  <2>4. SourceInv(p)'
    BY <2>1 DEF SourceInv, ListPCs
  <2> QED BY <1>7, <2>1, <2>2, <2>3, <2>4 DEF AppendPCs, disk
<1>10. CASE AppendRevision(p)
  <2> DEFINE n == metadata[a].revision
  <2>1. /\ pc[p] = "append_revision"
        /\ pc'[p] = "append_current"
        /\ UNCHANGED <<metadata, index, mem>>
        /\ WriteRevision(a, NextMetadata(p).revision, mem[p].bundle)
    BY <1>1, <1>10 DEF AppendRevision, Step, TypeOK
  <2>2. /\ mem[p].meta = metadata[a]
        /\ NextMetadata(p).revision = n + 1
        /\ metadata[a] \in Metadata
    BY <1>1, <1>10, WriterKnows DEF FileStep
  <2>3. /\ revisions'[a][n + 1] = mem[p].bundle
        /\ \A m \in Committed(a) : revisions'[a][m] = revisions[a][m]
    <3>1. revisions'[a][n + 1] = mem[p].bundle
      BY <1>1, <1>3, <2>1, <2>2, SavedRevision
    <3> QED BY <1>1, <1>2, <1>3, <3>1, HistoryGrows
  <2>4. Extends(mem[p].bundle, a, Committed(a), e)
    BY <1>1, <2>1 DEF HistoryInv, DraftInv, AppendPCs
  <2>5. DraftInv(p)'
    BY <1>3, <2>1, <2>2, <2>3, <2>4 DEF DraftInv, Extends, Committed, Exists
  <2>6. SourceInv(p)'
    BY <2>1 DEF SourceInv, ListPCs
  <2> QED BY <1>7, <2>1, <2>5, <2>6 DEF AppendPCs
<1>11. CASE AppendCurrent(p)
  <2>1. /\ pc[p] = "append_current"
        /\ pc'[p] = "append_metadata"
        /\ UNCHANGED <<metadata, index, mem, revisions>>
        /\ current'[a] = Digest(mem[p].bundle)
    BY <1>1, <1>3, <1>11 DEF AppendCurrent, WriteCurrent, Step, TypeOK, StoreTypeOK
  <2>2. DraftInv(p)'
    BY <1>1, <1>3, <2>1 DEF HistoryInv, DraftInv, Extends, Committed, Exists, AppendPCs
  <2>3. SourceInv(p)'
    BY <2>1 DEF SourceInv, ListPCs
  <2> QED BY <1>7, <2>1, <2>2, <2>3 DEF AppendPCs
<1> QED BY <1>5, <1>6, <1>8, <1>9, <1>10, <1>11 DEF Ingest

LEMMA OwnHistory ==
    ASSUME HInv, NEW p \in Handlers, HandlerStep(p)
    PROVE  HistoryInv(p)'
<1>1. TypeOK
  BY DEF HInv, Inv
<1>2. CASE Reply(p)
  <2>1. pc'[p] = "idle" /\ mem'[p].rows = <<>>
    BY <1>1, <1>2 DEF Reply, Step, NoMemory, TypeOK
  <2> QED BY <2>1, QuietHistory
<1>3. CASE IOError(p)
  <2>1. pc'[p] = "reply" /\ mem'[p].status = 500
    BY <1>1, <1>3, AnswerStatus DEF IOError, Statuses
  <2> QED BY <2>1, PlainAnswer
<1> QED
  BY <1>2, <1>3, ArrivalHistory, CreateHistory, ReadHistory, ListHistory,
     IngestHistory
  DEF HandlerStep, Progress
-----------------------------------------------------------------------------
(* The files' contents after a step.                                       *)

\* Metadata appears only where a creator writes it.
LEMMA FirstMetadataSteps ==
    ASSUME Inv, NEW p \in Handlers, HandlerStep(p), NEW c \in Actions,
           ~Exists(c), metadata'[c] # Absent
    PROVE  /\ CreateMetadata(p)
           /\ c = req[p].action
           /\ metadata'[c] = FirstMetadata(p)
           /\ UNCHANGED <<revisions, current>>
<1>1. TypeOK
  BY DEF Inv
<1>2. FileStep(p)
  BY FileSteps DEF disk, Exists
<1>3. \/ CreateMetadata(p)
      \/ AppendMetadata(p) /\ Exists(req[p].action)
  BY <1>2, WriterKnows
  DEF FileStep, CreateRevision, CreateCurrent, LinkWrite, AppendRevision,
      AppendCurrent, Exists
<1> QED
  BY <1>1, <1>3
  DEF CreateMetadata, AppendMetadata, WriteMetadata, Exists, TypeOK, StoreTypeOK

LEMMA LineageStep ==
    ASSUME HInv, NEW p \in Handlers, HandlerStep(p), NEW c \in Actions
    PROVE  LineageInv(c)'
<1>1. Inv /\ TypeOK /\ HistoryInv(p) /\ LineageInv(c) /\ FilesInv(c)
  BY DEF HInv, Inv
<1>2. SUFFICES ASSUME metadata'[c] # Absent,
                      NEW n \in 1..metadata'[c].revision, n # 1
               PROVE  \E m \in 1..(n - 1) :
                         /\ revisions'[c][n].pred = Digest(revisions'[c][m])
                         /\ revisions'[c][n].log =
                                Append(revisions'[c][m].log, metadata'[c].seen[n - 1])
  BY DEF LineageInv, Extends, Committed, Exists
<1>3. Exists(c)
  <2>1. SUFFICES ASSUME ~Exists(c) PROVE FALSE
    OBVIOUS
  <2>2. metadata'[c] = FirstMetadata(p)
    BY <1>1, <1>2, <2>1, FirstMetadataSteps
  <2>3. FirstMetadata(p).revision = 1
    BY DEF FirstMetadata
  <2> QED BY <1>2, <2>2, <2>3
<1>4. /\ metadata[c].revision \in Nat
      /\ metadata[c].seen \in Logs
      /\ Len(metadata[c].seen) \in Nat
      /\ metadata[c].revision = Len(metadata[c].seen) + 1
  BY <1>1, <1>3 DEF FilesInv, Exists, TypeOK, StoreTypeOK, Metadata, Logs
<1>5. CASE n \in Committed(c)
  <2>1. PICK m \in 1..(n - 1) :
            /\ revisions[c][n].pred = Digest(revisions[c][m])
            /\ revisions[c][n].log =
                   Append(revisions[c][m].log, metadata[c].seen[n - 1])
    BY <1>1, <1>2, <1>5 DEF LineageInv, Extends
  <2>2. /\ revisions'[c][n] = revisions[c][n]
        /\ revisions'[c][m] = revisions[c][m]
    <3>1. m \in Committed(c)
      BY <1>3, <1>4, <1>5, <2>1 DEF Committed
    <3> QED BY <1>1, <1>3, <1>5, <3>1, HistoryGrows
  <2>3. n - 1 \in 1..Len(metadata[c].seen)
    BY <1>2, <1>3, <1>4, <1>5 DEF Committed
  <2>4. metadata'[c].seen[n - 1] = metadata[c].seen[n - 1]
    BY <1>1, <1>3, <2>3, HistoryGrows
  <2> QED BY <2>1, <2>2, <2>4
<1>6. CASE n \notin Committed(c)
  <2> DEFINE e == req[p].event
  <2>1. /\ AppendMetadata(p)
        /\ c = req[p].action
        /\ metadata'[c] = NextMetadata(p)
    BY <1>1, <1>2, <1>3, <1>6, MetadataSteps DEF Committed
  <2>2. /\ mem[p].meta = metadata[c]
        /\ e \in Events
        /\ NextMetadata(p).revision = metadata[c].revision + 1
        /\ NextMetadata(p).seen = Append(metadata[c].seen, e)
    BY <1>1, <2>1, WriterKnows DEF FileStep
  <2>3. n = metadata[c].revision + 1
    BY <1>2, <1>3, <1>4, <1>6, <2>1, <2>2 DEF Committed
  <2>4. metadata'[c].seen[n - 1] = e
    BY <1>4, <2>1, <2>2, <2>3, AppendElements
  <2>5. pc[p] = "append_metadata" /\ revisions' = revisions
    BY <2>1 DEF AppendMetadata, Answer, Step
  <2>6. revisions[c][n] = mem[p].bundle /\ Extends(mem[p].bundle, c, Committed(c), e)
    BY <1>1, <2>1, <2>2, <2>3, <2>5 DEF HistoryInv, DraftInv, AppendPCs
  <2>7. Committed(c) = 1..(n - 1)
    BY <1>3, <1>4, <2>3 DEF Committed
  <2> QED BY <2>4, <2>5, <2>6, <2>7 DEF Extends
<1> QED BY <1>5, <1>6

\* Between its writes, a writer only writes or fails.
LEMMA WriterSteps ==
    ASSUME NEW p \in Handlers, HandlerStep(p), ~IOError(p),
           pc[p] \in {"append_current", "append_metadata"}
    PROVE  AppendCurrent(p) \/ AppendMetadata(p)
BY DEF HandlerStep, Progress, Arrival, ReceiveCreate, ReceiveWebhook, ReceiveGet,
       ReceiveList, Receive, Create, CreateConflict, CreateCheck, CreateRevision,
       CreateCurrent, CreateMetadata, LinkConflict, LinkRead, LinkWrite, Read,
       FindRefund, ReadMetadata, ReadBundle, ReadCurrentForGet,
       ReadCurrentForList, ListNames, ListFile, Ingest, ReadCurrentDuplicate,
       ReadCurrentBuild, AppendDuplicate, AppendCheck, AppendRevision, Reply,
       Answer, Step

LEMMA FaultsCounted ==
    ASSUME TypeOK, NEW p \in Handlers, HandlerStep(p), faults' = 0
    PROVE  faults = 0 /\ ~IOError(p)
<1>1. faults \in Nat
  BY MaxFaultsAssumption DEF TypeOK
<1>2. ~IOError(p)
  BY <1>1 DEF IOError
<1> QED
  BY <1>2
  DEF HandlerStep, Progress, Arrival, ReceiveCreate, ReceiveWebhook, ReceiveGet,
      ReceiveList, Receive, Create, CreateConflict, CreateCheck, CreateRevision,
      CreateCurrent, CreateMetadata, LinkConflict, LinkRead, LinkWrite, Read,
      FindRefund, ReadMetadata, ReadBundle, ReadCurrentForGet,
      ReadCurrentForList, ListNames, ListFile, Ingest, ReadCurrentDuplicate,
      ReadCurrentBuild, AppendDuplicate, AppendCheck, AppendRevision,
      AppendCurrent, AppendMetadata, Reply, bookkeeping

LEMMA SettledStep ==
    ASSUME HInv, NEW p \in Handlers, HandlerStep(p), NEW c \in Actions
    PROVE  SettledInv(c)'
<1> DEFINE writing(q) == pc'[q] \in {"append_current", "append_metadata"} /\ req'[q].action = c
           summarised(q) == pc'[q] = "append_metadata" /\ req'[q].action = c
<1>1. Inv /\ TypeOK /\ HistoryInv(p) /\ SettledInv(c) /\ FilesInv(c)
  BY DEF HInv, Inv
<1>2. SUFFICES ASSUME faults' = 0, metadata'[c] # Absent
               PROVE  /\ \/ DOMAIN revisions'[c] = 1..metadata'[c].revision
                         \/ \E q \in Handlers : writing(q)
                      /\ \/ current'[c] = Digest(revisions'[c][metadata'[c].revision])
                         \/ \E q \in Handlers : summarised(q)
  BY DEF SettledInv, Committed, CommittedBundle, Exists
<1>3. faults = 0 /\ ~IOError(p)
  BY <1>1, <1>2, FaultsCounted
<1>4. CASE ~Exists(c)
  <2>1. /\ CreateMetadata(p)
        /\ c = req[p].action
        /\ metadata'[c] = FirstMetadata(p)
        /\ FirstMetadata(p).revision = 1
        /\ UNCHANGED <<revisions, current>>
    <3>1. FirstMetadata(p).revision = 1
      BY DEF FirstMetadata
    <3> QED BY <1>1, <1>2, <1>4, <3>1, FirstMetadataSteps
  <2>2. pc[p] = "create_metadata"
    BY <2>1 DEF CreateMetadata, Answer, Step
  <2>3. /\ revisions[c][1] = FirstBundle
        /\ current[c] = Digest(FirstBundle)
        /\ 1 \in DOMAIN revisions[c]
    BY <1>1, <2>1, <2>2 DEF HistoryInv, DraftInv, Inv, CreatorInv
  <2>4. DOMAIN revisions[c] = 1..1
    BY <1>1, <1>4, <2>3 DEF FilesInv
  <2> QED BY <2>1, <2>3, <2>4
<1>5. CASE Exists(c) /\ AppendMetadata(p) /\ c = req[p].action
  <2> DEFINE n == metadata[c].revision
  <2>1. /\ mem[p].meta = metadata[c]
        /\ metadata'[c].revision = n + 1
        /\ n \in Nat
    BY <1>1, <1>5, WriterKnows
    DEF FileStep, AppendMetadata, WriteMetadata, TypeOK, StoreTypeOK, Metadata
  <2>2. pc[p] = "append_metadata" /\ UNCHANGED <<revisions, current>>
    BY <1>5 DEF AppendMetadata, Answer, Step
  <2>3. /\ revisions[c][n + 1] = mem[p].bundle
        /\ current[c] = Digest(mem[p].bundle)
        /\ n + 1 \in DOMAIN revisions[c]
    BY <1>1, <1>5, <2>1, <2>2 DEF HistoryInv, DraftInv, Inv, AppenderInv
  <2>4. 1..n \subseteq DOMAIN revisions[c] /\ DOMAIN revisions[c] \subseteq 1..(n + 1)
    BY <1>1, <1>5 DEF FilesInv, Committed
  <2>5. DOMAIN revisions[c] = 1..(n + 1)
    <3>1. n + 1 \notin 1..n
      BY <2>1
    <3> QED BY <2>1, <2>3, <2>4, <3>1, FilesWithoutGap
  <2> QED BY <2>1, <2>2, <2>3, <2>5
<1>6. CASE Exists(c) /\ AppendCurrent(p) /\ c = req[p].action
  <2>1. pc'[p] = "append_metadata" /\ req'[p].action = c
    BY <1>1, <1>6 DEF AppendCurrent, Step, TypeOK
  <2> QED BY <2>1
<1>7. CASE Exists(c) /\ ~((AppendMetadata(p) \/ AppendCurrent(p)) /\ c = req[p].action)
  <2>1. ASSUME NEW q \in Handlers, req[q].action = c,
               pc[q] \in {"append_current", "append_metadata"}
        PROVE  pc'[q] = pc[q] /\ req'[q].action = c
    <3>1. q # p
      BY <1>3, <1>7, <2>1, WriterSteps
    <3> QED BY <1>1, <2>1, <3>1, OthersKept
  <2>2. metadata'[c] = metadata[c]
    BY <1>1, <1>7, MetadataSteps
  <2>3. metadata[c].revision \in Committed(c)
    BY <1>1, <1>7 DEF FilesInv, Committed, Exists, TypeOK, StoreTypeOK, Metadata, Logs
  <2>4. revisions'[c][metadata[c].revision] = revisions[c][metadata[c].revision]
    BY <1>1, <1>7, <2>3, HistoryGrows
  <2>5. \/ revisions'[c] = revisions[c] /\ current'[c] = current[c]
        \/ AppendRevision(p) /\ c = req[p].action
    <3>1. CASE ~FileStep(p)
      BY <3>1, FileSteps DEF disk
    <3>2. CASE FileStep(p) /\ c = req[p].action
      BY <1>1, <1>7, <3>2, WriterKnows DEF FileStep, LinkWrite
    <3>3. CASE FileStep(p) /\ c # req[p].action
      BY <1>1, <3>3
      DEF TypeOK, StoreTypeOK, FileStep, CreateRevision, CreateCurrent,
          CreateMetadata, LinkWrite, AppendRevision, AppendCurrent,
          AppendMetadata, WriteRevision, WriteCurrent, WriteMetadata
    <3> QED BY <3>1, <3>2, <3>3
  <2>6. \/ current'[c] = Digest(revisions'[c][metadata'[c].revision])
        \/ \E q \in Handlers : summarised(q)
    <3>1. current'[c] = current[c]
      BY <2>5 DEF AppendRevision
    <3>2. \/ current[c] = Digest(revisions[c][metadata[c].revision])
          \/ \E q \in Handlers : pc[q] = "append_metadata" /\ req[q].action = c
      BY <1>1, <1>3, <1>7 DEF SettledInv, CommittedBundle
    <3> QED BY <2>1, <2>2, <2>4, <3>1, <3>2
  <2>7. \/ DOMAIN revisions'[c] = 1..metadata'[c].revision
        \/ \E q \in Handlers : writing(q)
    <3>1. CASE AppendRevision(p) /\ c = req[p].action
      <4>1. pc'[p] = "append_current" /\ req'[p].action = c
        BY <1>1, <3>1 DEF AppendRevision, Step, TypeOK
      <4> QED BY <4>1
    <3>2. CASE revisions'[c] = revisions[c]
      <4>1. \/ DOMAIN revisions[c] = 1..metadata[c].revision
            \/ \E q \in Handlers : /\ pc[q] \in {"append_current", "append_metadata"}
                                   /\ req[q].action = c
        BY <1>1, <1>3, <1>7 DEF SettledInv, Committed
      <4> QED BY <2>1, <2>2, <3>2, <4>1
    <3> QED BY <2>5, <3>1, <3>2
  <2> QED BY <2>6, <2>7
<1> QED BY <1>4, <1>5, <1>6, <1>7
LEMMA AcceptedStep ==
    ASSUME HInv, NEW p \in Handlers, HandlerStep(p)
    PROVE  AcceptedRecorded'
<1>1. Inv /\ TypeOK /\ IndexSound /\ AcceptedInv(p) /\ AcceptedRecorded
  BY DEF HInv, Inv, HistoryInv
<1>2. SUFFICES ASSUME NEW e \in accepted'
               PROVE  /\ index'[RefundOf[e]] # Absent
                      /\ Seen(metadata'[index'[RefundOf[e]]], e)
  BY DEF AcceptedRecorded, Seen
<1>3. CASE e \in accepted
  <2> DEFINE a == index[RefundOf[e]]
  <2>1. e \in Events /\ RefundOf[e] \in Refunds
    BY <1>1, <1>3, RefundOfAssumption DEF TypeOK
  <2>2. a # Absent /\ Seen(metadata[a], e)
    BY <1>1, <1>3 DEF AcceptedRecorded
  <2>3. a \in Actions /\ Exists(a)
    BY <1>1, <2>1, <2>2 DEF IndexSound, TypeOK, StoreTypeOK
  <2>4. index'[RefundOf[e]] = a
    BY <1>1, <2>1, <2>2, LinksKept
  <2> QED BY <1>1, <2>1, <2>2, <2>3, <2>4, HistoryGrows
<1>4. CASE e \notin accepted
  <2>1. Reply(p)
    BY <1>2, <1>4
    DEF HandlerStep, Progress, Arrival, ReceiveCreate, ReceiveWebhook, ReceiveGet,
        ReceiveList, Receive, Create, CreateConflict, CreateCheck, CreateRevision,
        CreateCurrent, CreateMetadata, LinkConflict, LinkRead, LinkWrite, Read,
        FindRefund, ReadMetadata, ReadBundle, ReadCurrentForGet,
        ReadCurrentForList, ListNames, ListFile, Ingest, ReadCurrentDuplicate,
        ReadCurrentBuild, AppendDuplicate, AppendCheck, AppendRevision,
        AppendCurrent, AppendMetadata, IOError, bookkeeping
  <2>2. /\ pc[p] = "reply"
        /\ req[p].op = "ingest"
        /\ mem[p].status \in {200, 202}
        /\ e = req[p].event
        /\ UNCHANGED disk
    BY <1>2, <1>4, <2>1 DEF Reply, Step
  <2> QED BY <1>1, <2>2, AbsentAssumption DEF AcceptedInv, disk
<1> QED BY <1>3, <1>4

-----------------------------------------------------------------------------
(* The invariant.                                                          *)

LEMMA InitHistory == Init => HInv
<1> SUFFICES ASSUME Init PROVE HInv
  OBVIOUS
<1>1. \A p \in Handlers : HistoryInv(p)
  BY DEF Init, NoMemory, HistoryInv, LinkedInv, SourceInv, DraftInv, ListingInv,
         AcceptedInv, ReplyInv, ReadPCs, AppendPCs, ListPCs
<1>2. \A a \in Actions : LineageInv(a) /\ SettledInv(a)
  BY DEF Init, StoreInit, LineageInv, SettledInv, Committed, Exists
<1>3. AcceptedRecorded
  BY DEF Init, AcceptedRecorded
<1> QED BY <1>1, <1>2, <1>3, InitInv DEF HInv

LEMMA CrashHistory ==
    ASSUME HInv, Crash
    PROVE  HInv'
<1>1. Inv' /\ TypeOK
  BY CrashInv DEF HInv, Inv
<1>2. (\A p \in Handlers : HistoryInv(p))'
  BY DEF Crash, NoMemory, HistoryInv, LinkedInv, SourceInv, DraftInv, ListingInv,
         AcceptedInv, ReplyInv, ReadPCs, AppendPCs, ListPCs
<1>3. (\A a \in Actions : LineageInv(a))' /\ AcceptedRecorded'
  BY DEF HInv, Crash, disk, LineageInv, AcceptedRecorded, Extends, Committed, Exists,
         Seen
<1>4. faults' # 0
  BY <1>1, MaxFaultsAssumption DEF Crash, TypeOK
<1>5. (\A a \in Actions : SettledInv(a))'
  BY <1>4 DEF SettledInv
<1> QED BY <1>1, <1>2, <1>3, <1>5 DEF HInv

LEMMA NextHistory ==
    ASSUME HInv, [Next]_vars
    PROVE  HInv'
<1>1. CASE UNCHANGED vars
  <2>1. Inv'
    BY <1>1, NextInv DEF HInv
  <2>2. /\ UNCHANGED <<revisions, current, metadata, index>>
        /\ UNCHANGED <<pc, req, mem, faults, accepted>>
    BY <1>1 DEF vars, disk
  <2>3. ASSUME NEW q \in Handlers
        PROVE  HistoryInv(q)'
    <3>1. LinkedInv(q)' /\ AcceptedInv(q)'
      BY <2>2 DEF HInv, HistoryInv, LinkedInv, AcceptedInv, Exists, Seen
    <3>2. SourceInv(q)' /\ DraftInv(q)'
      BY <2>2
      DEF HInv, HistoryInv, SourceInv, DraftInv, Extends, Committed, Exists
    <3>3. ListingInv(q)' /\ ReplyInv(q)'
      BY <2>2 DEF HInv, HistoryInv, ListingInv, ReplyInv, Committed, Exists, Row
    <3> QED BY <3>1, <3>2, <3>3 DEF HistoryInv
  <2>4. ASSUME NEW a \in Actions
        PROVE  LineageInv(a)' /\ SettledInv(a)'
    <3>1. LineageInv(a)'
      BY <2>2 DEF HInv, LineageInv, Extends, Committed, Exists
    <3>2. SettledInv(a)'
      BY <2>2 DEF HInv, SettledInv, Committed, CommittedBundle, Exists
    <3> QED BY <3>1, <3>2
  <2>5. AcceptedRecorded'
    BY <2>2 DEF HInv, AcceptedRecorded, Seen
  <2> QED BY <2>1, <2>3, <2>4, <2>5 DEF HInv
<1>2. CASE Crash
  BY <1>2, CrashHistory
<1>3. ASSUME NEW p \in Handlers, HandlerStep(p)
      PROVE  HInv'
  <2>1. Inv'
    BY NextInv DEF HInv
  <2>2. ASSUME NEW q \in Handlers
        PROVE  HistoryInv(q)'
    BY <1>3, OwnHistory, OthersHistory
  <2> QED
    BY <1>3, <2>1, <2>2, LineageStep, SettledStep, AcceptedStep DEF HInv
<1> QED BY <1>1, <1>2, <1>3 DEF Next, HandlerStep

\* What handlers have read and written stays traceable, for all constants.
THEOREM HistoryInvariant == Spec => []HInv
<1>1. Init => HInv
  BY InitHistory
<1>2. HInv /\ [Next]_vars => HInv'
  BY NextHistory
<1> QED BY <1>1, <1>2, PTL DEF Spec

\* Each committed revision names the one it was built from and adds to it the
\* one event recorded with it (appendRevision, store.mjs).
THEOREM EveryRevisionDescends == Spec => []Lineage
<1>1. HInv => Lineage
  BY DEF HInv, LineageInv, Extends, Lineage
<1> QED BY <1>1, HistoryInvariant, PTL
\* An answer 2xx to a webhook is a promise: the event is recorded where its
\* refund is linked, with its evidence in a committed revision, for good.
THEOREM AcceptedIsDurable == Spec => []AckedDurable
<1>1. ASSUME HInv
      PROVE  AckedDurable
  <2>1. SUFFICES ASSUME NEW e \in accepted
                 PROVE  LET a == index[RefundOf[e]] IN
                        /\ a # Absent
                        /\ Seen(metadata[a], e)
                        /\ \E n \in Committed(a) : e \in ToSet(revisions[a][n].log)
    BY DEF AckedDurable
  <2> DEFINE a == index[RefundOf[e]]
             seen == metadata[a].seen
  <2>2. a # Absent /\ Seen(metadata[a], e)
    BY <1>1, <2>1 DEF HInv, AcceptedRecorded
  <2>3. Inv /\ TypeOK /\ e \in Events /\ RefundOf[e] \in Refunds
    BY <1>1, <2>1, RefundOfAssumption DEF HInv, Inv, TypeOK
  <2>4. a \in Actions /\ Exists(a)
    BY <2>2, <2>3 DEF Inv, IndexSound, TypeOK, StoreTypeOK
  <2>5. /\ seen \in Logs
        /\ metadata[a].revision = Len(seen) + 1
        /\ Committed(a) \subseteq DOMAIN revisions[a]
    BY <2>3, <2>4 DEF Inv, FilesInv, Exists, TypeOK, StoreTypeOK, Metadata
  <2>6. PICK k \in 1..Len(seen) : seen[k] = e
    BY <2>2, <2>5 DEF Seen, ToSet, Logs
  <2>7. /\ k + 1 \in Committed(a) \ {1}
        /\ (k + 1) - 1 = k
        /\ 1..k \subseteq Committed(a)
    BY <2>4, <2>5, <2>6 DEF Committed, Logs
  <2>8. PICK m \in 1..k : revisions[a][k + 1].log = Append(revisions[a][m].log, e)
    BY <1>1, <2>4, <2>6, <2>7 DEF HInv, LineageInv, Extends
  <2>9. revisions[a][m].log \in Logs
    BY <2>3, <2>4, <2>5, <2>7 DEF TypeOK, StoreTypeOK, Bundles
  <2>10. e \in ToSet(revisions[a][k + 1].log)
    BY <2>3, <2>8, <2>9, AppendElements
  <2> QED BY <2>2, <2>7, <2>10
<1> QED BY <1>1, HistoryInvariant, PTL

\* A GET or a listing answers with committed revisions as stored, although it
\* reads without a lock while others write.
THEOREM AnswersAreCommitted == Spec => []ReadsCommitted
<1>1. HInv => ReadsCommitted
  BY DEF HInv, HistoryInv, ReplyInv, ReadsCommitted
<1> QED BY <1>1, HistoryInvariant, PTL

\* Without failures, an action that no request works on is consistent on disk.
THEOREM FilesSettle == Spec => []SettledFilesAgree
<1>1. ASSUME HInv, faults = 0, NEW a \in Actions, Exists(a), locks[a] = <<>>
      PROVE  /\ current[a] = Digest(CommittedBundle(a))
             /\ DOMAIN revisions[a] = Committed(a)
  <2>1. ASSUME NEW p \in Handlers, pc[p] \in {"append_current", "append_metadata"}
        PROVE  req[p].action # a
    <3>1. pc[p] \in ActionLockPCs \ {"create_check", "append_check"}
      BY <2>1 DEF ActionLockPCs, AppendPCs
    <3> QED BY <1>1, <3>1 DEF HInv, Inv, LockInv, Holds
  <2> QED BY <1>1, <2>1 DEF HInv, SettledInv
<1>2. HInv => SettledFilesAgree
  BY <1>1 DEF SettledFilesAgree
<1> QED BY <1>2, HistoryInvariant, PTL

-----------------------------------------------------------------------------
(* The Relay implements the ledger.                                        *)

\* The history the ledger has for action c.
History(c) == IF Exists(c) THEN metadata[c].seen ELSE Absent

\* An action has a history when it exists.
LEMMA HistoryPresent ==
    ASSUME TypeOK, NEW c \in Actions
    PROVE  (History(c) # Absent) <=> Exists(c)
BY AbsentAssumption DEF TypeOK, StoreTypeOK, History, Exists, Metadata

LEMMA LedgerStep ==
    ASSUME HInv, [Next]_vars
    PROVE  [Recorded!Next]_(Recorded!vars)
<1> DEFINE ledger == [c \in Actions |-> IF Exists(c) THEN metadata[c].seen ELSE Absent]
<1>1. Inv /\ TypeOK
  BY DEF HInv, Inv
<1>2. CASE UNCHANGED <<metadata, index>>
  BY <1>2 DEF Recorded!vars, Exists
<1>3. ASSUME NEW p \in Handlers, HandlerStep(p), ~UNCHANGED <<metadata, index>>
      PROVE  [Recorded!Next]_(Recorded!vars)
  <2> DEFINE a == req[p].action
             r == req[p].refund
             e == req[p].event
  <2>1. \/ CreateMetadata(p)
        \/ LinkWrite(p)
        \/ AppendMetadata(p)
    <3>1. FileStep(p)
      BY <1>3, FileSteps DEF disk
    <3> QED
      BY <1>3, <3>1
      DEF FileStep, CreateRevision, CreateCurrent, AppendRevision, AppendCurrent
  <2>2. CASE CreateMetadata(p)
    <3>1. a \in Actions /\ ~Exists(a)
      BY <1>1, <2>2, WriterKnows DEF FileStep
    <3>2. /\ metadata' = [metadata EXCEPT ![a] = FirstMetadata(p)]
          /\ index' = index
          /\ FirstMetadata(p) # Absent
          /\ FirstMetadata(p).seen = <<>>
      BY <1>1, <2>2, FirstMetadataType, AbsentAssumption
      DEF CreateMetadata, WriteMetadata, FirstMetadata
    <3>3. ledger' = [ledger EXCEPT ![a] = <<>>]
      BY <1>1, <3>1, <3>2 DEF TypeOK, StoreTypeOK, Exists
    <3>4. ledger[a] = Absent
      BY <3>1
    <3>5. \E c \in Actions : Recorded!Open(c)
      BY <3>1, <3>2, <3>3, <3>4 DEF Recorded!Open
    <3> QED BY <3>5 DEF Recorded!Next
  <2>3. CASE LinkWrite(p)
    <3>1. /\ a \in Actions
          /\ r \in Refunds
          /\ mem[p].links = index
          /\ index[r] \in {Absent, a}
          /\ Exists(a)
      BY <1>1, <2>3, WriterKnows DEF FileStep, LinkTaken
    <3>2. index' = [index EXCEPT ![r] = a] /\ metadata' = metadata
      BY <2>3, <3>1 DEF LinkWrite, WriteIndex
    <3>3. CASE index[r] = a
      BY <1>1, <1>3, <3>1, <3>2, <3>3 DEF TypeOK, StoreTypeOK
    <3>4. CASE index[r] = Absent
      <4>1. History(a) # Absent
        BY <1>1, <3>1, HistoryPresent
      <4>2. Recorded!Link(r, a)
        BY <3>1, <3>2, <3>4, <4>1 DEF Recorded!Link, History, Exists
      <4> QED BY <3>1, <4>2 DEF Recorded!Next
    <3> QED BY <3>1, <3>3, <3>4
  <2>4. CASE AppendMetadata(p)
    <3>1. /\ a \in Actions
          /\ Exists(a)
          /\ metadata[a] \in Metadata
          /\ e \in Events
          /\ ~Seen(metadata[a], e)
          /\ NextMetadata(p) \in Metadata
          /\ NextMetadata(p).seen = Append(metadata[a].seen, e)
      BY <1>1, <2>4, WriterKnows DEF FileStep
    <3>2. /\ metadata' = [metadata EXCEPT ![a] = NextMetadata(p)]
          /\ index' = index
          /\ pc[p] = "append_metadata"
      BY <2>4 DEF AppendMetadata, WriteMetadata, Answer, Step
    <3>3. index[RefundOf[e]] = a
      <4>1. LinkedInv(p) /\ req[p].op = "ingest"
        BY <1>1, <3>2, RequestTypes DEF HInv, HistoryInv, AppendPCs
      <4> QED BY <3>2, <4>1 DEF LinkedInv, AppendPCs
    <3>4. ledger' = [ledger EXCEPT ![a] = Append(ledger[a], e)]
      BY <1>1, <3>1, <3>2, AbsentAssumption DEF TypeOK, StoreTypeOK, Exists
    <3>5. /\ ledger[a] = metadata[a].seen
          /\ e \notin Recorded!ToSet(ledger[a])
          /\ a # Absent
      BY <3>1, AbsentAssumption DEF Seen, ToSet, Recorded!ToSet
    <3>6. \E x \in Events : Recorded!Record(x)
      BY <3>1, <3>2, <3>3, <3>4, <3>5 DEF Recorded!Record
    <3> QED BY <3>6 DEF Recorded!Next
  <2> QED BY <2>1, <2>2, <2>3, <2>4
<1>4. CASE Crash \/ UNCHANGED vars
  BY <1>2, <1>4 DEF Crash, vars, disk
<1> QED BY <1>2, <1>3, <1>4 DEF Next, HandlerStep

\* Under any interleaving, failures and restarts, the Relay is a ledger of
\* append-only histories and write-once links.
THEOREM ImplementsLedger == Spec => RecordedSpec
<1>1. Init => Recorded!Init
  BY DEF Init, StoreInit, Recorded!Init, Exists
<1>2. HInv /\ [Next]_vars => [Recorded!Next]_(Recorded!vars)
  BY LedgerStep
<1> QED BY <1>1, <1>2, HistoryInvariant, PTL DEF Spec, RecordedSpec, Recorded!Spec
-----------------------------------------------------------------------------
(* When the webhooks of an action do not overlap.                          *)

\* A handler comes to work on a webhook, or goes on with it, only like this.
LEMMA BuildingSteps ==
    ASSUME TypeOK, NEW p \in Handlers, HandlerStep(p),
           pc'[p] \in {"read_bundle", "read_current"} \cup AppendPCs
    PROVE  /\ req' = req /\ mem[p] \in Memory
           /\ \/ ReadMetadata(p) /\ pc'[p] = "read_bundle"
              \/ ReadBundle(p) /\ pc'[p] = "read_current"
              \/ ReadCurrentBuild(p) /\ pc'[p] = "append_check"
              \/ AppendCheck(p) /\ pc'[p] = "append_revision"
              \/ AppendRevision(p) /\ pc'[p] = "append_current"
              \/ AppendCurrent(p) /\ pc'[p] = "append_metadata"
<1>0. /\ \A x : pc' = [pc EXCEPT ![p] = x] => pc'[p] = x
      /\ mem[p] \in Memory
  BY DEF TypeOK
<1>1. CASE Arrival(p)
  <2> DEFINE Goes(to) == pc' = [pc EXCEPT ![p] = to]
  <2>0. ASSUME NEW r, NEW to, Receive(p, r, to) PROVE Goes(to)
    BY <2>0 DEF Receive
  <2> HIDE DEF Goes
  <2>1. \E to \in {"create_check", "find_refund", "read_metadata"} : Goes(to)
    <3>1. CASE \E a \in Actions, r \in Refunds \cup {Absent} : ReceiveCreate(p, a, r)
      <4>1. PICK a \in Actions, r \in Refunds \cup {Absent} : ReceiveCreate(p, a, r)
        BY <3>1
      <4>2. Goes("create_check")
        BY <2>0, <4>1, Zenon DEF ReceiveCreate
      <4> QED BY <4>2
    <3>2. CASE \E e \in Events : ReceiveWebhook(p, e)
      <4>1. PICK e \in Events : ReceiveWebhook(p, e)
        BY <3>2
      <4>2. Goes("find_refund")
        BY <2>0, <4>1, Zenon DEF ReceiveWebhook
      <4> QED BY <4>2
    <3>3. CASE \E a \in Actions : ReceiveGet(p, a) \/ ReceiveList(p, a)
      <4>1. PICK a \in Actions : ReceiveGet(p, a) \/ ReceiveList(p, a)
        BY <3>3
      <4>2. Goes("read_metadata")
        BY <2>0, <4>1, Zenon DEF ReceiveGet, ReceiveList
      <4> QED BY <4>2
    <3> QED BY <1>1, <3>1, <3>2, <3>3 DEF Arrival
  <2>2. pc'[p] \in {"create_check", "find_refund", "read_metadata"}
    BY <1>0, <2>1 DEF Goes
  <2> QED BY <2>2 DEF AppendPCs
<1>2. CASE Create(p)
  BY <1>0, <1>2
  DEF Create, CreateConflict, CreateCheck, CreateRevision, CreateCurrent,
      CreateMetadata, LinkConflict, LinkRead, LinkWrite, Answer, Step, AppendPCs
<1>3. CASE Read(p)
  <2>1. CASE ReadMetadata(p) \/ ReadBundle(p)
    BY <1>0, <2>1 DEF ReadMetadata, ReadBundle, Answer, Step, AppendPCs
  <2>2. CASE FindRefund(p) \/ ReadCurrentForGet(p) \/ ReadCurrentForList(p)
    BY <1>0, <2>2
    DEF FindRefund, ReadCurrentForGet, ReadCurrentForList, Answer, Step, AppendPCs
  <2>3. CASE ListNames(p)
    BY <1>0, <2>3 DEF ListNames, Step, AppendPCs
  <2>4. CASE ListFile(p)
    <3>1. \E to \in {"reply", "list_file"} : pc' = [pc EXCEPT ![p] = to]
      BY <2>4 DEF ListFile, Step
    <3> QED BY <1>0, <3>1 DEF AppendPCs
  <2> QED BY <1>3, <2>1, <2>2, <2>3, <2>4 DEF Read
<1>4. CASE Ingest(p)
  BY <1>0, <1>4
  DEF Ingest, ReadCurrentDuplicate, ReadCurrentBuild, AppendDuplicate,
      AppendCheck, AppendRevision, AppendCurrent, AppendMetadata, Answer, Step,
      AppendPCs
<1>5. CASE Reply(p) \/ IOError(p)
  BY <1>0, <1>5 DEF Reply, IOError, Answer, Step, AppendPCs
<1> QED BY <1>1, <1>2, <1>3, <1>4, <1>5 DEF HandlerStep, Progress

\* The committed bundle is another only after an event is recorded.
LEMMA CommittedBundleKept ==
    ASSUME Inv, NEW p \in Handlers, HandlerStep(p), NEW c \in Actions, Exists(c),
           metadata'[c] = metadata[c]
    PROVE  revisions'[c][metadata'[c].revision] = CommittedBundle(c)
<1>1. metadata[c].revision \in Committed(c)
  BY DEF Inv, TypeOK, StoreTypeOK, FilesInv, Metadata, Logs, Committed, Exists
<1> QED BY <1>1, HistoryGrows DEF CommittedBundle

LEMMA FreshStep ==
    ASSUME HInv, Serial, SerialInv, NEW p \in Handlers, HandlerStep(p),
           NEW q \in Handlers
    PROVE  FreshInv(q)'
<1> DEFINE a == req[q].action
<1>1. Inv /\ TypeOK /\ FreshInv(q) /\ HistoryInv(q)
  BY DEF HInv, Inv, SerialInv
<1>2. ASSUME pc[q] \in {"read_bundle", "read_current"} \cup AppendPCs
      PROVE  a \in Actions /\ Exists(a)
  <2>1. a \in Actions
    BY <1>1, <1>2, RequestTypes DEF ReadPCs
  <2>2. pc[q] \in {"read_bundle", "read_current"} => mem[q].meta.revision \in Committed(a)
    BY <1>1 DEF HistoryInv, SourceInv
  <2>3. pc[q] \in AppendPCs => Exists(a)
    BY <1>1, RequestTypes
  <2> QED BY <1>2, <2>1, <2>2, <2>3 DEF Committed
<1>3. CASE q # p
  <2>1. pc'[q] = pc[q] /\ req'[q] = req[q] /\ mem'[q] = mem[q]
    BY <1>1, <1>3, OthersKept
  <2>2. ASSUME Building(q)
        PROVE  /\ metadata'[a] = metadata[a]
               /\ revisions'[a][metadata'[a].revision] = CommittedBundle(a)
    <3>1. a \in Actions /\ Exists(a)
      BY <1>2, <2>2 DEF Building
    <3>2. ~(AppendMetadata(p) /\ a = req[p].action)
      <4>1. SUFFICES ASSUME AppendMetadata(p), a = req[p].action PROVE FALSE
        OBVIOUS
      <4>2. pc[p] = "append_metadata"
        BY <4>1 DEF AppendMetadata, Answer, Step
      <4>3. Building(p)
        BY <1>1, <4>2, RequestTypes DEF Building, AppendPCs
      <4> QED BY <1>3, <2>2, <4>1, <4>3 DEF Serial
    <3>3. metadata'[a] = metadata[a]
      BY <1>1, <3>1, <3>2, MetadataSteps
    <3> QED BY <1>1, <3>1, <3>3, CommittedBundleKept
  <2>3. pc[q] \in AppendPCs => Building(q)
    BY <1>1, RequestTypes DEF Building
  <2>4. Building(q)' <=> Building(q)
    BY <2>1 DEF Building
  <2>5. Building(q)' => mem'[q].meta = metadata'[req'[q].action]
    BY <1>1, <2>1, <2>2, <2>4 DEF FreshInv
  <2>6. pc'[q] \in AppendPCs =>
           AddsTo(mem'[q].bundle,
                  revisions'[req'[q].action][metadata'[req'[q].action].revision],
                  req'[q].event)
    BY <1>1, <2>1, <2>2, <2>3 DEF FreshInv
  <2> QED BY <2>5, <2>6 DEF FreshInv, CommittedBundle
<1>4. CASE q = p /\ pc'[p] \in {"read_bundle", "read_current"} \cup AppendPCs
  <2>1. req' = req /\ mem[p] \in Memory
    BY <1>1, <1>4, BuildingSteps
  <2>2. CASE ReadMetadata(p) /\ pc'[p] = "read_bundle"
    <3>1. mem'[p].meta = metadata[a] /\ metadata' = metadata
      BY <1>1, <1>4, <2>1, <2>2
      DEF ReadMetadata, Answer, Step, disk, TypeOK, Memory
    <3> QED BY <1>4, <2>1, <2>2, <3>1 DEF FreshInv, Building, AppendPCs
  <2>3. CASE ReadBundle(p) /\ pc'[p] = "read_current"
    <3>1. mem'[p].meta = mem[p].meta /\ metadata' = metadata /\ pc[p] = "read_bundle"
      BY <1>1, <1>4, <2>1, <2>3 DEF ReadBundle, Step, disk, TypeOK, Memory
    <3> QED BY <1>1, <1>4, <2>1, <2>3, <3>1 DEF FreshInv, Building, AppendPCs
  <2>4. CASE ReadCurrentBuild(p) /\ pc'[p] = "append_check"
    <3>1. /\ mem'[p].meta = mem[p].meta /\ mem'[p].bundle = NextBundle(p)
          /\ UNCHANGED disk /\ pc[p] = "read_current" /\ req[p].op = "ingest"
      BY <1>1, <1>4, <2>1, <2>4 DEF ReadCurrentBuild, Step, TypeOK, Memory
    <3>2. mem[p].meta = metadata[a]
      BY <1>1, <1>4, <3>1 DEF FreshInv, Building
    <3>3. mem[p].bundle = CommittedBundle(a)
      BY <1>1, <1>4, <3>1, <3>2 DEF HistoryInv, SourceInv, CommittedBundle
    <3>4. revisions'[a][metadata'[a].revision] = CommittedBundle(a) /\ metadata' = metadata
      BY <1>4, <2>1, <3>1 DEF CommittedBundle, disk
    <3>5. AddsTo(NextBundle(p), CommittedBundle(a), req[q].event)
      BY <1>4, <3>3 DEF NextBundle, AddsTo
    <3>6. /\ AddsTo(mem'[q].bundle,
                    revisions'[req'[q].action][metadata'[req'[q].action].revision],
                    req'[q].event)
          /\ mem'[q].meta = metadata'[req'[q].action]
      BY <1>4, <2>1, <3>1, <3>2, <3>4, <3>5
    <3> QED BY <3>6 DEF FreshInv, CommittedBundle
  <2>5. ASSUME pc[p] \in AppendPCs, metadata' = metadata,
               mem'[p].bundle = mem[p].bundle, mem'[p].meta = metadata[a]
        PROVE  FreshInv(q)'
    <3>1. a \in Actions /\ Exists(a)
      BY <1>2, <1>4, <2>5
    <3>2. revisions'[a][metadata'[a].revision] = CommittedBundle(a)
      BY <1>1, <2>5, <3>1, CommittedBundleKept
    <3>3. AddsTo(mem[q].bundle, CommittedBundle(a), req[q].event)
      BY <1>1, <1>4, <2>5 DEF FreshInv
    <3>4. AddsTo(mem'[q].bundle,
                 revisions'[req'[q].action][metadata'[req'[q].action].revision],
                 req'[q].event)
      BY <1>4, <2>1, <2>5, <3>2, <3>3
    <3>5. mem'[q].meta = metadata'[req'[q].action]
      BY <1>4, <2>1, <2>5
    <3> QED BY <3>4, <3>5 DEF FreshInv, CommittedBundle
  <2>6. CASE AppendCheck(p)
    <3>1. pc[p] \in AppendPCs /\ metadata' = metadata
      BY <2>6 DEF AppendCheck, Step, disk, AppendPCs
    <3>2. mem'[p].bundle = mem[p].bundle /\ mem'[p].meta = metadata[a]
      BY <1>1, <1>4, <2>1, <2>6 DEF AppendCheck, TypeOK, Memory
    <3> QED BY <2>5, <3>1, <3>2
  <2>7. CASE AppendRevision(p) \/ AppendCurrent(p)
    <3>1. pc[p] \in AppendPCs /\ metadata' = metadata /\ mem' = mem
      BY <2>7 DEF AppendRevision, AppendCurrent, Step, AppendPCs
    <3>2. mem[p].meta = metadata[a]
      BY <1>1, <1>4, <2>7, WriterKnows DEF FileStep
    <3> QED BY <2>5, <3>1, <3>2
  <2> QED
    BY <1>1, <1>4, <2>2, <2>3, <2>4, <2>6, <2>7, BuildingSteps
<1>5. CASE q = p /\ pc'[p] \notin {"read_bundle", "read_current"} \cup AppendPCs
  BY <1>5 DEF FreshInv, Building
<1> QED BY <1>3, <1>4, <1>5

LEMMA ChainStep ==
    ASSUME HInv, SerialInv, NEW p \in Handlers, HandlerStep(p), NEW c \in Actions
    PROVE  ChainInv(c)'
<1>1. Inv /\ TypeOK /\ HistoryInv(p) /\ FreshInv(p) /\ ChainInv(c) /\ FilesInv(c)
  BY DEF HInv, Inv, SerialInv
<1>2. SUFFICES ASSUME metadata'[c] # Absent
               PROVE  /\ \A n \in 1..metadata'[c].revision :
                            n # 1 => revisions'[c][n].pred = Digest(revisions'[c][n - 1])
                      /\ revisions'[c][metadata'[c].revision].log = metadata'[c].seen
  BY DEF ChainInv, Committed, CommittedBundle, Exists
<1>3. CASE ~Exists(c)
  <2>1. /\ CreateMetadata(p)
        /\ c = req[p].action
        /\ metadata'[c] = FirstMetadata(p)
        /\ revisions' = revisions
    BY <1>1, <1>2, <1>3, FirstMetadataSteps
  <2>2. FirstMetadata(p).revision = 1 /\ FirstMetadata(p).seen = <<>>
    BY DEF FirstMetadata
  <2>3. pc[p] = "create_metadata"
    BY <2>1 DEF CreateMetadata, Answer, Step
  <2>4. revisions[c][1].log = <<>>
    BY <1>1, <2>1, <2>3 DEF HistoryInv, DraftInv, FirstBundle
  <2> QED BY <2>1, <2>2, <2>4
<1>4. CASE Exists(c)
  <2> DEFINE n == metadata[c].revision
  <2>1. n \in Nat /\ n >= 1 /\ Committed(c) = 1..n
    BY <1>1, <1>4
    DEF FilesInv, TypeOK, StoreTypeOK, Metadata, Logs, Committed, Exists
  <2>2. \A m \in 1..n : revisions'[c][m] = revisions[c][m]
    BY <1>1, <1>4, <2>1, HistoryGrows
  <2>3. /\ \A m \in 1..n : m # 1 => revisions[c][m].pred = Digest(revisions[c][m - 1])
        /\ revisions[c][n].log = metadata[c].seen
    BY <1>1, <1>4, <2>1 DEF ChainInv, CommittedBundle
  <2>4. \A m \in 1..n : m # 1 => revisions'[c][m].pred = Digest(revisions'[c][m - 1])
    BY <2>1, <2>2, <2>3
  <2>5. CASE metadata'[c] = metadata[c]
    BY <2>1, <2>2, <2>3, <2>4, <2>5
  <2>6. CASE /\ AppendMetadata(p)
             /\ c = req[p].action
             /\ metadata'[c] = NextMetadata(p)
    <3>1. /\ mem[p].meta = metadata[c]
          /\ NextMetadata(p).revision = n + 1
          /\ NextMetadata(p).seen = Append(metadata[c].seen, req[p].event)
      BY <1>1, <2>6, WriterKnows DEF FileStep
    <3>2. pc[p] = "append_metadata" /\ revisions' = revisions
      BY <2>6 DEF AppendMetadata, Answer, Step
    <3>3. revisions[c][n + 1] = mem[p].bundle
      BY <1>1, <2>6, <3>1, <3>2 DEF HistoryInv, DraftInv
    <3>4. AddsTo(mem[p].bundle, revisions[c][n], req[p].event)
      <4>1. pc[p] \in AppendPCs
        BY <3>2 DEF AppendPCs
      <4> QED BY <1>1, <2>6, <4>1 DEF FreshInv, CommittedBundle
    <3> DEFINE e == req[p].event
               s == metadata[c].seen
    <3>5. /\ revisions'[c][n + 1].pred = Digest(revisions'[c][n])
          /\ revisions'[c][n + 1].log = Append(s, e)
      BY <2>3, <3>2, <3>3, <3>4 DEF AddsTo
    <3>6. metadata'[c].revision = n + 1 /\ metadata'[c].seen = Append(s, e)
      BY <2>6, <3>1
    <3> HIDE DEF n, s, e
    <3>7. \A m \in 1..(n + 1) : m \in 1..n \/ (m = n + 1 /\ m - 1 = n)
      BY <2>1
    <3>8. \A m \in 1..(n + 1) : m # 1 => revisions'[c][m].pred = Digest(revisions'[c][m - 1])
      BY <2>4, <3>5, <3>7
    <3> QED BY <3>5, <3>6, <3>8
  <2> QED BY <1>1, <1>4, <2>5, <2>6, MetadataSteps
<1> QED BY <1>3, <1>4

LEMMA SerialStep ==
    ASSUME HInv, Serial, SerialInv, [Next]_vars
    PROVE  SerialInv'
<1>1. CASE UNCHANGED vars
  <2>1. UNCHANGED <<revisions, metadata, pc, req, mem>>
    BY <1>1 DEF vars, disk
  <2>2. ASSUME NEW p \in Handlers PROVE FreshInv(p)'
    <3>1. FreshInv(p)
      BY DEF SerialInv
    <3> QED BY <2>1, <3>1 DEF FreshInv, Building, CommittedBundle
  <2>3. \A a \in Actions : ChainInv(a)'
    BY <2>1 DEF SerialInv, ChainInv, Committed, CommittedBundle, Exists
  <2> QED BY <2>2, <2>3 DEF SerialInv
<1>2. CASE Crash
  <2>1. \A p \in Handlers : FreshInv(p)'
    BY <1>2 DEF Crash, FreshInv, Building, AppendPCs
  <2>2. \A a \in Actions : ChainInv(a)'
    BY <1>2
    DEF Crash, disk, SerialInv, ChainInv, Committed, CommittedBundle, Exists
  <2> QED BY <2>1, <2>2 DEF SerialInv
<1>3. ASSUME NEW p \in Handlers, HandlerStep(p)
      PROVE  SerialInv'
  BY <1>3, FreshStep, ChainStep DEF SerialInv
<1> QED BY <1>1, <1>2, <1>3 DEF Next, HandlerStep

\* While no two webhooks of one action overlap, the committed revisions are a
\* chain and the last one carries all that is recorded.
THEOREM SerialInvariant == Spec /\ []Serial => []SerialInv
<1>1. Init => SerialInv
  BY DEF Init, StoreInit, SerialInv, FreshInv, Building, AppendPCs, ChainInv,
         Committed, Exists
<1>2. HInv /\ Serial /\ SerialInv /\ [Next]_vars => SerialInv'
  BY SerialStep
<1> QED BY <1>1, <1>2, HistoryInvariant, PTL DEF Spec

\* The promise of an immediate predecessor needs no more than that the webhooks
\* of an action do not overlap (service.mjs: ingestStripeWebhook reads the
\* previous revision before it asks for the lock).
THEOREM PredecessorIsImmediate == Spec /\ []Serial => []ImmediatePredecessor
<1>1. SerialInv => ImmediatePredecessor
  BY DEF SerialInv, ChainInv, ImmediatePredecessor
<1> QED BY <1>1, SerialInvariant, PTL

\* A step of the ledger, or none, from histories h to histories k.
LedgerMove(h, k) ==
    \/ \E a \in Actions :
          /\ h[a] = Absent
          /\ k = [h EXCEPT ![a] = <<>>]
          /\ UNCHANGED index
    \/ \E r \in Refunds, a \in Actions :
          /\ h[a] # Absent
          /\ index[r] = Absent
          /\ index' = [index EXCEPT ![r] = a]
          /\ k = h
    \/ \E e \in Events :
          /\ index[RefundOf[e]] # Absent
          /\ e \notin {h[index[RefundOf[e]]][i] : i \in DOMAIN h[index[RefundOf[e]]]}
          /\ k = [h EXCEPT ![index[RefundOf[e]]] = Append(h[index[RefundOf[e]]], e)]
          /\ UNCHANGED index
    \/ <<k, index'>> = <<h, index>>

\* Then the evidence in the current bundles is a ledger too: none is lost.
THEOREM ImplementsEvidence == Spec /\ []Serial => EvidenceSpec
<1>1. Init => Evidence!Init
  BY DEF Init, StoreInit, Evidence!Init, Exists
<1>2. HInv /\ SerialInv /\ HInv' /\ SerialInv' /\ [Next]_vars
         => [Evidence!Next]_(Evidence!vars)
  <2> SUFFICES ASSUME HInv, SerialInv, HInv', SerialInv', [Next]_vars
               PROVE  [Evidence!Next]_(Evidence!vars)
    OBVIOUS
  <2> DEFINE recorded == [a \in Actions |-> IF Exists(a) THEN metadata[a].seen ELSE Absent]
             evidence == [a \in Actions |->
                             IF Exists(a) THEN CommittedBundle(a).log ELSE Absent]
  <2>1. LedgerMove(recorded, recorded')
    <3>1. [Recorded!Next]_(Recorded!vars)
      BY LedgerStep
    <3> QED
      BY <3>1, Zenon
      DEF Recorded!Next, Recorded!vars, Recorded!Open, Recorded!Link, Recorded!Record,
          Recorded!ToSet, LedgerMove
  <2>2. evidence = recorded
    BY DEF SerialInv, ChainInv
  <2>3. evidence' = recorded'
    BY DEF SerialInv, ChainInv
  <2> HIDE DEF recorded, evidence
  <2>4. LedgerMove(evidence, evidence')
    BY <2>1, <2>2, <2>3
  <2> USE DEF evidence
  <2> QED
    BY <2>4, Zenon
    DEF Evidence!Next, Evidence!vars, Evidence!Open, Evidence!Link, Evidence!Record,
        Evidence!ToSet, LedgerMove
<1> QED
  BY <1>1, <1>2, HistoryInvariant, SerialInvariant, PTL
  DEF Spec, EvidenceSpec, Evidence!Spec

\* A relay that serves one request at a time keeps both promises, whatever fails.
COROLLARY OneRequestAtATime ==
    ASSUME \A p, q \in Handlers : p = q
    PROVE  Spec => []ImmediatePredecessor /\ EvidenceSpec
<1>1. Serial
  BY DEF Serial
<1> QED BY <1>1, PredecessorIsImmediate, ImplementsEvidence, PTL
-----------------------------------------------------------------------------
(* Locks.  A step of a handler queues one ticket, or gives back every lock *)
(* it wants, or changes nothing about them; so the queues hold exactly the *)
(* tickets of the handlers that want the lock.                             *)

LEMMA TicketQueued ==
    ASSUME NEW s \in Seq(Tickets), NEW t \in Tickets, IsInjective(s), t \notin ToSet(s)
    PROVE  IsInjective(Append(s, t)) /\ ToSet(Append(s, t)) = ToSet(s) \cup {t}
<1> DEFINE u == Append(s, t)
<1>1. /\ Len(s) \in Nat /\ DOMAIN s = 1..Len(s) /\ DOMAIN u = 1..(Len(s) + 1)
      /\ u[Len(s) + 1] = t /\ \A i \in 1..Len(s) : u[i] = s[i]
  OBVIOUS
<1> HIDE DEF u
<1>2. \A i \in 1..Len(s) : s[i] # t
  BY <1>1 DEF ToSet
<1>3. IsInjective(u)
  BY <1>1, <1>2 DEF IsInjective
<1>4. ToSet(u) = ToSet(s) \cup {t}
  BY <1>1 DEF ToSet
<1> QED BY <1>3, <1>4 DEF u

LEMMA TicketServed ==
    ASSUME NEW s \in Seq(Tickets), s # <<>>, IsInjective(s)
    PROVE  IsInjective(Tail(s)) /\ ToSet(Tail(s)) = ToSet(s) \ {Head(s)}
<1> DEFINE u == Tail(s)
<1>1. /\ Len(s) \in Nat \ {0} /\ DOMAIN s = 1..Len(s) /\ DOMAIN u = 1..(Len(s) - 1)
      /\ Head(s) = s[1] /\ \A i \in 1..(Len(s) - 1) : u[i] = s[i + 1]
  OBVIOUS
<1> HIDE DEF u
<1>2. \A i \in 1..Len(s) : i = 1 \/ (s[i] # s[1] /\ i - 1 \in 1..(Len(s) - 1))
  BY <1>1 DEF IsInjective
<1>3. IsInjective(u)
  BY <1>1 DEF IsInjective
<1>4. ASSUME NEW x \in ToSet(u)
      PROVE  x \in ToSet(s) \ {Head(s)}
  <2>1. PICK i \in 1..(Len(s) - 1) : x = s[i + 1]
    BY <1>1, <1>4 DEF ToSet
  <2>2. i + 1 \in 1..Len(s) /\ i + 1 # 1
    BY <1>1
  <2> QED BY <1>1, <1>2, <2>1, <2>2 DEF ToSet
<1>5. ASSUME NEW x \in ToSet(s) \ {Head(s)}
      PROVE  x \in ToSet(u)
  <2>1. PICK i \in 1..Len(s) : x = s[i] /\ i # 1
    BY <1>1, <1>5 DEF ToSet
  <2>2. i - 1 \in 1..(Len(s) - 1) /\ (i - 1) + 1 = i
    BY <1>1, <2>1
  <2> QED BY <1>1, <2>1, <2>2 DEF ToSet
<1>6. ToSet(u) = ToSet(s) \ {Head(s)}
  BY <1>4, <1>5
<1> QED BY <1>3, <1>6 DEF u

\* Handler p wants the locks it wanted before.
WantsKept(p) == \A k, t : Wants(p, k, t)' <=> Wants(p, k, t)

\* Handler p wants lock j as well, and queues for it.
Queues(p, j, t) ==
    /\ Enter(j, t) /\ t[1] = p /\ ~Wants(p, j, t)
    /\ \A k, u : Wants(p, k, u)' <=> Wants(p, k, u) \/ (k = j /\ u = t)

LEMMA WantSteps ==
    ASSUME Inv, NEW p \in Handlers, HandlerStep(p)
    PROVE  \/ UNCHANGED locks /\ WantsKept(p)
           \/ \E j \in LockKeys, t \in Tickets : Queues(p, j, t)
           \/ Leave(p) /\ Granted(p) /\ pc'[p] = "reply"
<1>1. TypeOK /\ pc \in [Handlers -> PCs] /\ req \in [Handlers -> Requests]
  BY DEF Inv, TypeOK
<1>2. ASSUME NEW from, NEW to, Step(p, from, to)
      PROVE  pc[p] = from /\ pc'[p] = to /\ Granted(p)
  BY <1>1, <1>2 DEF Step
<1>3. ASSUME NEW from, NEW status, Answer(p, from, status)
      PROVE  pc[p] = from /\ pc'[p] = "reply" /\ Granted(p)
  BY <1>2, <1>3 DEF Answer
<1>4. /\ OuterTicket(p) \in Tickets /\ OuterTicket(p)[1] = p
      /\ InnerTicket(p) \in Tickets /\ InnerTicket(p)[1] = p
      /\ OuterTicket(p) # InnerTicket(p)
      /\ IndexKey \in LockKeys /\ Actions \subseteq LockKeys
  BY TicketTypes DEF LockKeys, OuterTicket, InnerTicket
<1>5. ASSUME \/ pc[p] \notin ActionLockPCs /\ pc'[p] \notin ActionLockPCs
             \/ /\ {pc[p], pc'[p]} \subseteq ActionLockPCs
                /\ req' = req
                /\ pc[p] \in IndexLockPCs <=> pc'[p] \in IndexLockPCs
      PROVE  WantsKept(p)
  BY <1>5 DEF WantsKept, Wants, ActionLockPCs, CreatePCs, IndexLockPCs
<1>6. ASSUME NEW a \in Actions, pc[p] \notin ActionLockPCs,
             pc'[p] \in {"create_check", "append_check"},
             req'[p].action = a, Enter(a, OuterTicket(p))
      PROVE  Queues(p, a, OuterTicket(p))
  BY <1>4, <1>6
  DEF Queues, Wants, ActionLockPCs, CreatePCs, AppendPCs, IndexLockPCs
<1>7. CASE Arrival(p)
  <2>1. CASE \E a \in Actions, r \in Refunds \cup {Absent} : ReceiveCreate(p, a, r)
    <3>1. PICK a \in Actions, r \in Refunds \cup {Absent} : ReceiveCreate(p, a, r)
      BY <2>1
    <3>2. /\ pc[p] = "idle" /\ pc'[p] = "create_check" /\ Enter(a, OuterTicket(p))
          /\ req'[p].action = a
      BY <1>1, <3>1 DEF ReceiveCreate, Receive, NoRequest
    <3>3. Queues(p, a, OuterTicket(p))
      BY <1>6, <3>2 DEF ActionLockPCs, CreatePCs, AppendPCs
    <3> QED BY <1>4, <3>3
  <2>2. CASE \/ \E e \in Events : ReceiveWebhook(p, e)
             \/ \E a \in Actions : ReceiveGet(p, a)
             \/ \E a \in Actions : ReceiveList(p, a)
    <3>1. /\ pc[p] = "idle" /\ pc'[p] \in {"find_refund", "read_metadata"}
          /\ UNCHANGED locks
      BY <1>1, <2>2 DEF ReceiveWebhook, ReceiveGet, ReceiveList, Receive
    <3> QED BY <1>5, <3>1 DEF ActionLockPCs, CreatePCs, AppendPCs
  <2> QED BY <1>7, <2>1, <2>2 DEF Arrival
<1>8. CASE Create(p)
  <2>1. CASE CreateConflict(p) \/ LinkConflict(p) \/ LinkWrite(p)
    BY <1>3, <2>1 DEF CreateConflict, LinkConflict, LinkWrite
  <2>2. CASE CreateCheck(p) \/ CreateRevision(p) \/ CreateCurrent(p) \/ LinkRead(p)
    <3>1. /\ {pc[p], pc'[p]} \subseteq ActionLockPCs
          /\ pc[p] \in IndexLockPCs <=> pc'[p] \in IndexLockPCs
      BY <1>2, <2>2
      DEF CreateCheck, CreateRevision, CreateCurrent, LinkRead, ActionLockPCs,
          CreatePCs, IndexLockPCs
    <3>2. req' = req /\ UNCHANGED locks
      BY <2>2 DEF CreateCheck, CreateRevision, CreateCurrent, LinkRead
    <3> QED BY <1>5, <3>1, <3>2
  <2>3. CASE CreateMetadata(p)
    <3>1. ASSUME NEW status \in {201, 400}, Answer(p, "create_metadata", status), Leave(p)
          PROVE  Granted(p) /\ pc'[p] = "reply"
      BY <1>3, <3>1
    <3>2. CASE /\ Step(p, "create_metadata", "link_read")
               /\ Enter(IndexKey, InnerTicket(p))
      <4>1. pc[p] = "create_metadata" /\ pc'[p] = "link_read" /\ req' = req
        BY <1>2, <2>3, <3>2 DEF CreateMetadata
      <4>2. Queues(p, IndexKey, InnerTicket(p))
        BY <1>4, <3>2, <4>1 DEF Queues, Wants, ActionLockPCs, CreatePCs, IndexLockPCs
      <4> QED BY <1>4, <4>2
    <3> QED BY <2>3, <3>1, <3>2 DEF CreateMetadata
  <2> QED BY <1>8, <2>1, <2>2, <2>3 DEF Create
<1>9. CASE Read(p)
  <2>1. UNCHANGED locks
    BY <1>9
    DEF Read, FindRefund, ReadMetadata, ReadBundle, ReadCurrentForGet,
        ReadCurrentForList, ListNames, ListFile
  <2>2. \E from, to : /\ Step(p, from, to)
                      /\ from \in {"find_refund"} \cup ReadPCs \cup ListPCs
                      /\ to \in {"reply"} \cup ReadPCs \cup ListPCs
    BY <1>9
    DEF Read, FindRefund, ReadMetadata, ReadBundle, ReadCurrentForGet,
        ReadCurrentForList, ListNames, ListFile, Answer, ReadPCs, ListPCs
  <2>3. pc[p] \notin ActionLockPCs /\ pc'[p] \notin ActionLockPCs
    BY <1>2, <2>2 DEF ActionLockPCs, CreatePCs, AppendPCs, ReadPCs, ListPCs
  <2> QED BY <1>5, <2>1, <2>3
<1>10. CASE Ingest(p)
  <2>1. CASE ReadCurrentDuplicate(p)
    <3>1. pc[p] = "read_current" /\ pc'[p] = "reply" /\ UNCHANGED locks
      BY <1>3, <2>1 DEF ReadCurrentDuplicate
    <3> QED BY <1>5, <3>1 DEF ActionLockPCs, CreatePCs, AppendPCs
  <2>2. CASE ReadCurrentBuild(p)
    <3>1. /\ pc[p] = "read_current" /\ pc'[p] = "append_check" /\ req' = req
          /\ Enter(req[p].action, OuterTicket(p))
      BY <1>2, <2>2 DEF ReadCurrentBuild
    <3>2. req[p].action \in Actions
      BY <3>1 DEF Inv, RequestInv, ReadPCs
    <3>3. Queues(p, req[p].action, OuterTicket(p))
      BY <1>6, <3>1, <3>2 DEF ActionLockPCs, CreatePCs, AppendPCs
    <3> QED BY <1>4, <3>2, <3>3
  <2>3. CASE AppendDuplicate(p) \/ AppendMetadata(p)
    BY <1>3, <2>3 DEF AppendDuplicate, AppendMetadata
  <2>4. CASE AppendCheck(p) \/ AppendRevision(p) \/ AppendCurrent(p)
    <3>1. /\ {pc[p], pc'[p]} \subseteq ActionLockPCs \ IndexLockPCs
      BY <1>2, <2>4
      DEF AppendCheck, AppendRevision, AppendCurrent, ActionLockPCs, AppendPCs,
          IndexLockPCs
    <3>2. req' = req /\ UNCHANGED locks
      BY <2>4 DEF AppendCheck, AppendRevision, AppendCurrent
    <3> QED BY <1>5, <3>1, <3>2
  <2> QED BY <1>10, <2>1, <2>2, <2>3, <2>4 DEF Ingest
<1>11. CASE Reply(p)
  <2>1. pc[p] = "reply" /\ pc'[p] = "idle" /\ UNCHANGED locks
    BY <1>2, <1>11 DEF Reply
  <2> QED BY <1>5, <2>1 DEF ActionLockPCs, CreatePCs, AppendPCs
<1>12. CASE IOError(p)
  BY <1>3, <1>12 DEF IOError
<1> QED BY <1>7, <1>8, <1>9, <1>10, <1>11, <1>12 DEF HandlerStep, Progress


LEMMA QueueStep ==
    ASSUME Inv, LocksInv, NEW p \in Handlers, HandlerStep(p), NEW k \in LockKeys
    PROVE  QueueInv(k)'
<1> DEFINE queued == {t \in Tickets : Wants(t[1], k, t)}
<1>1. /\ locks[k] \in Seq(Tickets) /\ locks \in [LockKeys -> Seq(Tickets)]
      /\ IsInjective(locks[k]) /\ ToSet(locks[k]) = queued
  BY DEF Inv, TypeOK, StoreTypeOK, LocksInv, QueueInv
<1>2. \A t \in Tickets : t[1] # p => (Wants(t[1], k, t)' <=> Wants(t[1], k, t))
  <2>1. ASSUME NEW q \in Handlers, q # p, NEW t
        PROVE  Wants(q, k, t)' <=> Wants(q, k, t)
    <3>1. pc'[q] = pc[q] /\ req'[q] = req[q]
      BY <2>1, OthersKept DEF Inv
    <3> QED BY <3>1 DEF Wants
  <2> QED BY <2>1 DEF Tickets
<1>3. SUFFICES IsInjective(locks'[k]) /\ ToSet(locks'[k]) = queued'
  BY DEF QueueInv
<1>4. CASE UNCHANGED locks /\ WantsKept(p)
  <2>1. \A t \in Tickets : Wants(t[1], k, t)' <=> Wants(t[1], k, t)
    BY <1>2, <1>4 DEF WantsKept
  <2> QED BY <1>1, <1>4, <2>1
<1>5. CASE \E j \in LockKeys, t \in Tickets : Queues(p, j, t)
  <2>1. PICK j \in LockKeys, t \in Tickets : Queues(p, j, t)
    BY <1>5
  <2>2. \A u \in Tickets : Wants(u[1], k, u)' <=> Wants(u[1], k, u) \/ (k = j /\ u = t)
    BY <1>2, <2>1 DEF Queues
  <2>3. CASE k = j
    <3>1. locks'[k] = Append(locks[k], t) /\ t \notin ToSet(locks[k])
      BY <1>1, <2>1, <2>3 DEF Queues, Enter
    <3>2. queued' = queued \cup {t}
      BY <2>2, <2>3
    <3> QED BY <1>1, <3>1, <3>2, TicketQueued
  <2>4. CASE k # j
    BY <1>1, <2>1, <2>2, <2>4 DEF Queues, Enter
  <2> QED BY <2>3, <2>4
<1>6. CASE Leave(p) /\ Granted(p) /\ pc'[p] = "reply"
  <2>1. \A t \in Tickets : Wants(t[1], k, t)' <=> Wants(t[1], k, t) /\ t[1] # p
    <3>1. \A t : ~Wants(p, k, t)'
      BY <1>6 DEF Wants, ActionLockPCs, CreatePCs, AppendPCs, IndexLockPCs
    <3> QED BY <1>2, <3>1
  <2>2. \A t : Wants(p, k, t) => locks[k] # <<>> /\ t = Head(locks[k])
    BY <1>6 DEF Wants, Granted, Holds
  <2>3. CASE locks[k] # <<>> /\ Head(locks[k])[1] = p
    <3>1. locks'[k] = Tail(locks[k])
      BY <1>6, <2>3 DEF Leave
    <3>2. \A t \in Tickets :
              Wants(t[1], k, t) /\ t[1] # p <=> Wants(t[1], k, t) /\ t # Head(locks[k])
      BY <2>2, <2>3
    <3>3. queued' = {t \in Tickets : Wants(t[1], k, t)'}
      OBVIOUS
    <3>4. queued' = queued \ {Head(locks[k])}
      BY <2>1, <3>2, <3>3
    <3> QED BY <1>1, <2>3, <3>1, <3>4, TicketServed
  <2>4. CASE ~(locks[k] # <<>> /\ Head(locks[k])[1] = p)
    <3>1. locks'[k] = locks[k]
      BY <1>6, <2>4 DEF Leave
    <3>2. \A t \in Tickets : Wants(t[1], k, t) => t[1] # p
      BY <2>2, <2>4
    <3>3. queued' = queued
      BY <2>1, <3>2
    <3> QED BY <1>1, <3>1, <3>3
  <2> QED BY <2>3, <2>4
<1> QED BY <1>4, <1>5, <1>6, WantSteps

\* Only a request that reads comes to the reads.
LEMMA ReadRequests ==
    ASSUME Inv, LocksInv, NEW p \in Handlers, HandlerStep(p), NEW q \in Handlers,
           pc'[q] \in ReadPCs
    PROVE  req'[q].op \in {"ingest", "get", "list"}
<1>1. TypeOK /\ pc \in [Handlers -> PCs] /\ req \in [Handlers -> Requests]
  BY DEF Inv, TypeOK
<1>2. CASE q # p
  BY <1>1, <1>2, OthersKept DEF LocksInv
<1>3. ASSUME NEW from, NEW to, Step(p, from, to)
      PROVE  pc[p] = from /\ pc'[p] = to
  BY <1>1, <1>3 DEF Step
<1>4. ASSUME NEW from, NEW status, Answer(p, from, status)
      PROVE  pc[p] = from /\ pc'[p] = "reply"
  BY <1>3, <1>4 DEF Answer
<1>5. CASE q = p
  <2>1. CASE Arrival(p)
    <3>1. CASE \E a \in Actions : ReceiveGet(p, a) \/ ReceiveList(p, a)
      <4>1. req'[p].op \in {"get", "list"}
        BY <1>1, <3>1 DEF ReceiveGet, ReceiveList, Receive, NoRequest
      <4> QED BY <1>5, <4>1
    <3>2. CASE \/ \E a \in Actions, r \in Refunds \cup {Absent} : ReceiveCreate(p, a, r)
               \/ \E e \in Events : ReceiveWebhook(p, e)
      BY <1>1, <1>5, <3>2 DEF ReceiveCreate, ReceiveWebhook, Receive, ReadPCs
    <3> QED BY <2>1, <3>1, <3>2 DEF Arrival
  <2>2. CASE Create(p)
    BY <1>3, <1>4, <1>5, <2>2
    DEF Create, CreateConflict, CreateCheck, CreateRevision, CreateCurrent,
        CreateMetadata, LinkConflict, LinkRead, LinkWrite, ReadPCs
  <2>3. CASE Read(p)
    <3>1. CASE FindRefund(p)
      <4>1. pc[p] = "find_refund"
        BY <1>3, <1>4, <3>1 DEF FindRefund
      <4>2. req[p].op = "ingest"
        BY <4>1 DEF Inv, RequestInv
      <4>3. \/ req' = req
            \/ req' = [req EXCEPT ![p] = [req[p] EXCEPT !.action = LinkedAction(p)]]
        BY <3>1 DEF FindRefund
      <4>4. req[p] \in Requests
        BY <1>1
      <4>5. [req[p] EXCEPT !.action = LinkedAction(p)].op = req[p].op
        BY <4>4 DEF Requests
      <4>6. req'[p].op = req[p].op
        BY <1>1, <4>3, <4>5
      <4>7. req'[p].op \in {"ingest", "get", "list"}
        BY <4>2, <4>6
      <4> QED BY <1>5, <4>7, Zenon
    <3>2. CASE ReadMetadata(p) \/ ReadBundle(p)
      <4>1. pc[p] \in {"read_metadata", "read_bundle"} /\ req' = req
        BY <1>3, <1>4, <3>2 DEF ReadMetadata, ReadBundle
      <4>2. pc[p] \in ReadPCs
        BY <4>1 DEF ReadPCs
      <4>3. req[p].op \in {"ingest", "get", "list"}
        BY <4>2 DEF LocksInv
      <4>4. req'[p].op \in {"ingest", "get", "list"}
        BY <4>1, <4>3, Zenon
      <4> QED BY <1>5, <4>4, Zenon
    <3>3. CASE ReadCurrentForGet(p) \/ ReadCurrentForList(p) \/ ListNames(p) \/ ListFile(p)
      <4>1. pc'[p] \in {"reply", "list_names", "list_file"}
        BY <1>3, <3>3 DEF ReadCurrentForGet, ReadCurrentForList, ListNames, ListFile
      <4> QED BY <1>5, <4>1 DEF ReadPCs
    <3> QED BY <2>3, <3>1, <3>2, <3>3 DEF Read
  <2>4. CASE Ingest(p)
    BY <1>3, <1>4, <1>5, <2>4
    DEF Ingest, ReadCurrentDuplicate, ReadCurrentBuild, AppendDuplicate, AppendCheck,
        AppendRevision, AppendCurrent, AppendMetadata, ReadPCs
  <2>5. CASE Reply(p) \/ IOError(p)
    BY <1>3, <1>4, <1>5, <2>5 DEF Reply, IOError, ReadPCs
  <2> QED BY <2>1, <2>2, <2>3, <2>4, <2>5 DEF HandlerStep, Progress
<1> QED BY <1>2, <1>5

LEMMA InitLocks == Init => LocksInv
<1> SUFFICES ASSUME Init
             PROVE  LocksInv
  OBVIOUS
<1>1. \A p \in Handlers : pc[p] = "idle"
  BY DEF Init
<1>2. \A p \in Handlers : \A k, t : ~Wants(p, k, t)
  BY <1>1 DEF Wants, ActionLockPCs, CreatePCs, AppendPCs, IndexLockPCs
<1>3. ASSUME NEW k \in LockKeys
      PROVE  QueueInv(k)
  BY <1>2 DEF Init, StoreInit, QueueInv, IsInjective, ToSet, Tickets
<1> QED BY <1>1, <1>3 DEF LocksInv, ReadPCs

LEMMA NextLocks ==
    ASSUME Inv, LocksInv, [Next]_vars
    PROVE  LocksInv'
<1>1. CASE UNCHANGED vars
  BY <1>1 DEF vars, LocksInv, QueueInv, Wants
<1>2. CASE Crash
  <2>1. \A p \in Handlers : pc'[p] = "idle"
    BY <1>2 DEF Crash
  <2>2. \A p \in Handlers : \A k, t : ~Wants(p, k, t)'
    BY <2>1 DEF Wants, ActionLockPCs, CreatePCs, AppendPCs, IndexLockPCs
  <2>3. ASSUME NEW k \in LockKeys
        PROVE  QueueInv(k)'
    BY <1>2, <2>2 DEF Crash, QueueInv, IsInjective, ToSet, Tickets
  <2> QED BY <2>1, <2>3 DEF LocksInv, ReadPCs
<1>3. ASSUME NEW p \in Handlers, HandlerStep(p)
      PROVE  LocksInv'
  BY <1>3, QueueStep, ReadRequests DEF LocksInv
<1> QED BY <1>1, <1>2, <1>3 DEF Next, HandlerStep

\* No busy handler waits in a circle or for a lock nobody will give back,
\* unless an action is named like the index lock (withLock, store.mjs).
THEOREM NestedLocksNeverDeadlock ==
    ASSUME IndexKey \notin Actions
    PROVE  Spec => []NoDeadlock
<1>1. ASSUME HInv, LocksInv, NEW p \in Handlers, pc[p] # "idle", Granted(p)
      PROVE  Runs(p)
  <2>1. pc[p] = "list_file" => mem[p].names # {}
    BY <1>1 DEF HInv, HistoryInv, ListingInv
  <2> QED BY <1>1, <2>1 DEF Runs, LocksInv, ReadPCs
<1>2. ASSUME Inv, LocksInv, NEW p \in Handlers, NEW k \in LockKeys, NEW t \in Tickets,
             Wants(p, k, t), ~Holds(k, t)
      PROVE  \E q \in Handlers, u \in Tickets :
                u[1] = q /\ Wants(q, k, u) /\ Holds(k, u) /\ WaitsFor(p, q)
  <2>1. /\ locks[k] \in Seq(Tickets)
        /\ ToSet(locks[k]) = {u \in Tickets : Wants(u[1], k, u)}
    BY <1>2 DEF Inv, TypeOK, StoreTypeOK, LocksInv, QueueInv
  <2>2. t[1] = p
    BY <1>2 DEF Wants, OuterTicket, InnerTicket
  <2>3. locks[k] # <<>>
    BY <1>2, <2>1, <2>2 DEF ToSet
  <2>4. Head(locks[k]) \in ToSet(locks[k])
    BY <2>1, <2>3 DEF ToSet
  <2>5. PICK u \in Tickets : u = Head(locks[k]) /\ Wants(u[1], k, u)
    BY <2>1, <2>4
  <2>6. u[1] \in Handlers
    BY DEF Tickets
  <2> QED BY <1>2, <2>3, <2>5, <2>6 DEF Holds, WaitsFor
<1>3. ASSUME HInv, LocksInv, NEW p \in Handlers, pc[p] \in IndexLockPCs, ~Granted(p)
      PROVE  \E q \in Handlers : WaitsFor(p, q) /\ Runs(q)
  <2>1. Holds(req[p].action, OuterTicket(p))
    BY <1>3 DEF HInv, Inv, LockInv, ActionLockPCs, CreatePCs, IndexLockPCs
  <2>2. /\ Wants(p, IndexKey, InnerTicket(p)) /\ ~Holds(IndexKey, InnerTicket(p))
        /\ IndexKey \in LockKeys /\ InnerTicket(p) \in Tickets
    BY <1>3, <2>1, TicketTypes DEF Granted, Wants, LockKeys
  <2>3. PICK q \in Handlers, u \in Tickets :
            u[1] = q /\ Wants(q, IndexKey, u) /\ Holds(IndexKey, u) /\ WaitsFor(p, q)
    BY <1>2, <1>3, <2>2 DEF HInv
  <2>4. pc[q] \in ActionLockPCs => req[q].action \in Actions
    BY <1>3 DEF HInv, Inv, RequestInv, ActionLockPCs
  <2>5. pc[q] \in IndexLockPCs /\ u = InnerTicket(q)
    BY <2>3, <2>4 DEF Wants
  <2>6. Holds(req[q].action, OuterTicket(q)) /\ pc[q] # "idle"
    BY <1>3, <2>5 DEF HInv, Inv, LockInv, ActionLockPCs, CreatePCs, IndexLockPCs
  <2>7. Granted(q)
    BY <2>3, <2>5, <2>6 DEF Granted
  <2> QED BY <1>1, <1>3, <2>3, <2>6, <2>7
<1>4. ASSUME HInv, LocksInv, NEW p \in Handlers, pc[p] # "idle", ~Runs(p)
      PROVE  \E q \in Handlers :
                /\ WaitsFor(p, q)
                /\ Runs(q) \/ \E r \in Handlers : WaitsFor(q, r) /\ Runs(r)
  <2>1. ~Granted(p)
    BY <1>1, <1>4
  <2>2. CASE pc[p] \in IndexLockPCs
    BY <1>3, <1>4, <2>1, <2>2
  <2>3. CASE pc[p] \notin IndexLockPCs
    <3>1. /\ Wants(p, req[p].action, OuterTicket(p))
          /\ ~Holds(req[p].action, OuterTicket(p))
          /\ req[p].action \in LockKeys /\ OuterTicket(p) \in Tickets
      BY <1>4, <2>1, <2>3, TicketTypes
      DEF Granted, Wants, LockKeys, HInv, Inv, RequestInv, ActionLockPCs
    <3>2. PICK q \in Handlers, u \in Tickets :
              /\ u[1] = q /\ Wants(q, req[p].action, u) /\ Holds(req[p].action, u)
              /\ WaitsFor(p, q)
      BY <1>2, <1>4, <3>1 DEF HInv
    <3>3. req[p].action # IndexKey
      BY <1>4, <2>1, <2>3 DEF Granted, HInv, Inv, RequestInv, ActionLockPCs
    <3>4. /\ pc[q] \in ActionLockPCs /\ pc[q] # "idle"
          /\ Holds(req[q].action, OuterTicket(q))
      BY <3>2, <3>3 DEF Wants, ActionLockPCs, CreatePCs, AppendPCs
    <3>5. CASE Granted(q)
      BY <1>1, <1>4, <3>2, <3>4, <3>5
    <3>6. CASE ~Granted(q)
      <4>1. pc[q] \in IndexLockPCs
        BY <3>4, <3>6 DEF Granted
      <4> QED BY <1>3, <1>4, <3>2, <3>6, <4>1
    <3> QED BY <3>5, <3>6
  <2> QED BY <2>2, <2>3
<1>5. HInv /\ LocksInv => NoDeadlock
  BY <1>4 DEF NoDeadlock
<1>6. Init => LocksInv
  BY InitLocks
<1>7. HInv /\ LocksInv /\ [Next]_vars => LocksInv'
  BY NextLocks DEF HInv
<1> QED BY <1>5, <1>6, <1>7, HistoryInvariant, PTL DEF Spec
=================================================================================
