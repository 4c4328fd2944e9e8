----------------------------- MODULE RelayStore -----------------------------
(***************************************************************************)
(* The file store of the Relay (packages/relay/src/store.mjs): for every   *)
(* action a directory with numbered revision files, current.json and       *)
(* metadata.json, one index file that links Stripe refunds to actions, and *)
(* the in-memory FIFO locks that serialise writers.                        *)
(*                                                                         *)
(* This module holds the state and one operator per file operation; the    *)
(* handlers that call them, one awaited operation per step, are in Relay.  *)
(* A file that does not exist is the value Absent.  writeJsonAtomic writes *)
(* a temporary file and renames it, so a file changes in one step.         *)
(***************************************************************************)
EXTENDS Naturals, SequencesExt

CONSTANTS
    Handlers,   \* concurrent HTTP requests the server can be working on
    Actions,    \* action identifiers
    Refunds,    \* Stripe refund identifiers, as clients give them
    Events,     \* Stripe event identifiers
    IndexKey,   \* the lock key '__stripe_refund_index__'
    Absent      \* a missing file, or a missing optional field

VARIABLES
    revisions,  \* revisions[a][n]: the bundle in revisions/<n>.bundle.json
    current,    \* current[a]: digest of the bundle current.json summarises
    metadata,   \* metadata[a]: the content of metadata.json
    index,      \* index[r]: the action a refund is linked to
    locks       \* locks[k]: the tickets queued on lock k, the holder first

disk == <<revisions, current, metadata, index>>

-----------------------------------------------------------------------------
(* Data.  The log of a bundle is the sequence of Stripe events whose       *)
(* outcome events it carries; the agent's claim, which every bundle of an  *)
(* action starts with, is left out.  A digest identifies a payload: two    *)
(* bundles have one digest exactly when they have the same number and log. *)

Logs == Seq(Events)

Metadata == [revision : Nat, refund : Refunds \cup {Absent}, seen : Logs]

Digests == [number : Nat, log : Logs]

Bundles == [number : Nat, log : Logs, pred : Digests \cup {Absent}]

Digest(b) == [number |-> b.number, log |-> b.log]

Levels == {"action", "index"}

Tickets == Handlers \X Levels

LockKeys == Actions \cup {IndexKey}

ASSUME AbsentAssumption ==
    Absent \notin Refunds \cup Actions \cup Logs \cup Metadata \cup Digests \cup Bundles

-----------------------------------------------------------------------------
(* Files.                                                                  *)

\* A directory or map after the entry k has been written.
Saved(map, k, v) ==
    [x \in DOMAIN map \cup {k} |-> IF x = k THEN v ELSE map[x]]

WriteRevision(a, n, b) ==
    revisions' = [revisions EXCEPT ![a] = Saved(revisions[a], n, b)]

WriteCurrent(a, d) == current' = [current EXCEPT ![a] = d]

WriteMetadata(a, m) == metadata' = [metadata EXCEPT ![a] = m]

WriteIndex(links) == index' = links

\* The store's existence test looks at metadata.json only.
Exists(a) == metadata[a] # Absent

-----------------------------------------------------------------------------
(* Locks.  withLock(key, callback) chains onto the promise of the previous *)
(* caller, so each key has a FIFO queue whose head runs its callback.  A   *)
(* ticket is the handler and the nesting level it takes the lock at: the   *)
(* action's lock, or inside it the lock of the refund index.               *)

Holds(k, t) == locks[k] # <<>> /\ Head(locks[k]) = t

Enter(k, t) == locks' = [locks EXCEPT ![k] = Append(@, t)]

\* `finally { release(); ... }` on the way out of every callback of p.
Leave(p) ==
    locks' = [k \in LockKeys |->
                 IF locks[k] # <<>> /\ Head(locks[k])[1] = p
                 THEN Tail(locks[k]) ELSE locks[k]]

-----------------------------------------------------------------------------
\* A store whose init() has run: no action yet, an empty index.
StoreInit ==
    /\ revisions = [a \in Actions |-> <<>>]
    /\ current = [a \in Actions |-> Absent]
    /\ metadata = [a \in Actions |-> Absent]
    /\ index = [r \in Refunds |-> Absent]
    /\ locks = [k \in LockKeys |-> <<>>]

StoreTypeOK ==
    /\ DOMAIN revisions = Actions
    /\ \A a \in Actions :
          /\ DOMAIN revisions[a] \subseteq Nat
          /\ \A n \in DOMAIN revisions[a] : revisions[a][n] \in Bundles
    /\ current \in [Actions -> Digests \cup {Absent}]
    /\ metadata \in [Actions -> Metadata \cup {Absent}]
    /\ index \in [Refunds -> Actions \cup {Absent}]
    /\ locks \in [LockKeys -> Seq(Tickets)]
=============================================================================
