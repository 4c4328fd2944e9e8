---------------------------- MODULE RelayInvariant ----------------------------
(***************************************************************************)
(* The inductive invariant of the Relay: what a handler that has come to a *)
(* given step knows about the files and locks, and what that makes of the  *)
(* files.  RelayProofs proves it inductive; TLC checks it first.           *)
(***************************************************************************)
EXTENDS RelayProperties

\* Past its check, a writer holds its action's lock; about to write the
\* index, it holds the index lock as well.
LockInv(p) ==
    /\ pc[p] \in ActionLockPCs \ {"create_check", "append_check"} =>
          Holds(req[p].action, OuterTicket(p))
    /\ pc[p] = "link_write" => Holds(IndexKey, InnerTicket(p))

\* The request fits the step.
RequestInv(p) ==
    /\ pc[p] \in CreatePCs => req[p].op = "create"
    /\ pc[p] \in AppendPCs \cup {"find_refund"} => req[p].op = "ingest"
    /\ pc[p] \in CreatePCs \cup ReadPCs \cup AppendPCs \cup ListPCs =>
          req[p].action \in Actions
    /\ pc[p] \in IndexLockPCs => req[p].refund \in Refunds
    /\ req[p].op = "ingest" => req[p].event \in Events
    /\ req[p].op = "create" => req[p].action \in Actions

\* A reader has metadata that was and stays committed.
ReaderInv(p) ==
    /\ pc[p] \in {"read_bundle", "read_current"} \cup ListPCs =>
          /\ mem[p].meta \in Metadata
          /\ mem[p].meta.revision \in Committed(req[p].action)
    /\ pc[p] = "read_current" => mem[p].bundle \in Bundles
    /\ pc[p] = "list_file" =>
          mem[p].names \subseteq DOMAIN revisions[req[p].action]

\* An appender has a bundle; past its check it knows the metadata on disk,
\* and past its first write the revision file is there.
AppenderInv(p) ==
    /\ pc[p] \in AppendPCs =>
          Exists(req[p].action) /\ mem[p].bundle \in Bundles
    /\ pc[p] \in AppendPCs \ {"append_check"} =>
          /\ mem[p].meta = metadata[req[p].action]
          /\ ~Seen(mem[p].meta, req[p].event)
    /\ pc[p] \in {"append_current", "append_metadata"} =>
          mem[p].meta.revision + 1 \in DOMAIN revisions[req[p].action]

\* A creator works on an action that has no metadata until it writes it.
CreatorInv(p) ==
    /\ pc[p] \in {"create_revision", "create_current", "create_metadata"} =>
          ~Exists(req[p].action)
    /\ pc[p] \in {"create_current", "create_metadata"} =>
          1 \in DOMAIN revisions[req[p].action]
    /\ pc[p] = "create_metadata" => current[req[p].action] \in Digests

\* A linker's action carries the refund, and its copy of the index is exact.
LinkerInv(p) ==
    /\ pc[p] \in IndexLockPCs =>
          /\ Exists(req[p].action)
          /\ metadata[req[p].action].refund = req[p].refund
    /\ pc[p] = "link_write" => mem[p].links = index /\ ~LinkTaken(p)
    /\ /\ pc[p] = "reply"
       /\ req[p].op = "create"
       /\ mem[p].status = 201
       /\ req[p].refund # Absent
       => index[req[p].refund] = req[p].action

\* The files of one action.
FilesInv(a) ==
    /\ Exists(a) =>
          /\ metadata[a].revision = Len(metadata[a].seen) + 1
          /\ IsInjective(metadata[a].seen)
          /\ Committed(a) \subseteq DOMAIN revisions[a]
          /\ DOMAIN revisions[a] \subseteq 1..(metadata[a].revision + 1)
          /\ current[a] \in Digests
    /\ ~Exists(a) => DOMAIN revisions[a] \subseteq {1}

Inv ==
    /\ TypeOK
    /\ \A p \in Handlers :
          /\ LockInv(p)
          /\ RequestInv(p)
          /\ ReaderInv(p)
          /\ AppenderInv(p)
          /\ CreatorInv(p)
          /\ LinkerInv(p)
    /\ \A a \in Actions : FilesInv(a)
    /\ IndexSound
===============================================================================
