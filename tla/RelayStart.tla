------------------------------- MODULE RelayStart -------------------------------
(***************************************************************************)
(* How a Relay process starts on a data directory: it loads or creates the *)
(* signing key (packages/relay/src/keys.mjs), makes sure that the index    *)
(* file exists (RelayStore.init) and serves (bin/timeproofs-relay.mjs).    *)
(* One awaited file operation is one step.  Processes are stopped and      *)
(* started again at any moment, several may run on one directory, and the  *)
(* supervisor restarts what has ended (compose.yaml).                      *)
(*                                                                         *)
(* The key file is written in place under its final name: the exclusive    *)
(* open creates it empty, so it is Torn until the content is there.  The   *)
(* index is written to another file and renamed.                           *)
(***************************************************************************)
EXTENDS Naturals, FiniteSets

CONSTANTS
    Processes,  \* Relay processes given the same data directory
    Keys,       \* key pairs generateKeyPairSync can return
    Refunds,    \* refunds linked by the processes that serve
    Absent,     \* no file, or no key in memory
    Torn,       \* a key file whose content is not all there
    MaxStops    \* bound on stopped processes and failed file operations

ASSUME StartAssumption ==
    /\ Absent # Torn
    /\ {Absent, Torn} \cap Keys = {}
    /\ \A links \in SUBSET Refunds : links # Absent
    /\ MaxStops \in Nat

VARIABLES
    keyFile,      \* keys/relay-ed25519.json
    index,        \* the refunds in indexes/stripe-refunds.json, or Absent
    pc,           \* the operation a process awaits
    key,          \* the key a process holds in memory
    stops,        \* how many stops there were
    interrupted,  \* ghost: a stop hit the writing of the key file
    shared,       \* ghost: two processes have been running at once
    used,         \* ghost: the keys that signed something
    linked        \* ghost: the refunds whose link was acknowledged

vars == <<keyFile, index, pc, key, stops, interrupted, shared, used, linked>>

Steps == {"down", "load", "open", "write", "probe", "initialise", "serve"}

Init ==
    /\ keyFile = Absent
    /\ index = Absent
    /\ pc = [p \in Processes |-> "down"]
    /\ key = [p \in Processes |-> Absent]
    /\ stops = 0
    /\ interrupted = FALSE
    /\ shared = FALSE
    /\ used = {}
    /\ linked = {}

Goto(p, from, to) == pc[p] = from /\ pc' = [pc EXCEPT ![p] = to]

Hold(p, k) == key' = [key EXCEPT ![p] = k]

ghosts == <<stops, interrupted, shared, used, linked>>

-----------------------------------------------------------------------------
Start(p) ==
    /\ Goto(p, "down", "load")
    /\ shared' = (shared \/ \E q \in Processes \ {p} : pc[q] # "down")
    /\ UNCHANGED <<keyFile, index, key, stops, interrupted, used, linked>>

\* readFile of the key file: a complete key is taken as it is.
LoadKey(p) ==
    /\ keyFile \in Keys
    /\ Goto(p, "load", "probe")
    /\ Hold(p, keyFile)
    /\ UNCHANGED <<keyFile, index, ghosts>>

\* Mutant of LoadTorn: what the key file holds is not checked.
LoadTornUnchecked(p) ==
    /\ keyFile = Torn
    /\ Goto(p, "load", "probe")
    /\ Hold(p, Torn)
    /\ UNCHANGED <<keyFile, index, ghosts>>

\* JSON.parse throws, the error is not ENOENT, and the process ends.
LoadTorn(p) ==
    /\ keyFile = Torn
    /\ Goto(p, "load", "down")
    /\ UNCHANGED <<keyFile, index, key, ghosts>>

\* ENOENT: a fresh key pair is generated.
GenerateKey(p) ==
    /\ keyFile = Absent
    /\ Goto(p, "load", "open")
    /\ \E k \in Keys : Hold(p, k)
    /\ UNCHANGED <<keyFile, index, ghosts>>

\* writeFile with flag 'wx' creates the file, and only if there is none.
OpenKey(p) ==
    /\ keyFile = Absent
    /\ Goto(p, "open", "write")
    /\ keyFile' = Torn
    /\ UNCHANGED <<index, key, ghosts>>

\* Mutant of OpenTaken: EEXIST is ignored and the key in memory used.
OpenTakenIgnored(p) ==
    /\ keyFile # Absent
    /\ Goto(p, "open", "probe")
    /\ UNCHANGED <<keyFile, index, key, ghosts>>

\* Mutant of OpenTaken: the open is tried again until it succeeds.
OpenTakenRetried(p) ==
    /\ keyFile # Absent
    /\ Goto(p, "open", "open")
    /\ UNCHANGED <<keyFile, index, key, ghosts>>

\* EEXIST: another process created the file first, and this one ends.
OpenTaken(p) ==
    /\ keyFile # Absent
    /\ Goto(p, "open", "down")
    /\ Hold(p, Absent)
    /\ UNCHANGED <<keyFile, index, ghosts>>

\* The content; the chmod after it changes no mode the open has not set.
WriteKey(p) ==
    /\ Goto(p, "write", "probe")
    /\ keyFile' = key[p]
    /\ UNCHANGED <<index, key, ghosts>>

-----------------------------------------------------------------------------
\* RelayStore.init reads the index; when there is one the process serves.
IndexThere(p) ==
    /\ index # Absent
    /\ Goto(p, "probe", "serve")
    /\ UNCHANGED <<keyFile, index, key, ghosts>>

\* Mutant of IndexMissing: the index is initialised at every start.
IndexAlwaysMissing(p) ==
    /\ Goto(p, "probe", "initialise")
    /\ UNCHANGED <<keyFile, index, key, ghosts>>

IndexMissing(p) ==
    /\ index = Absent
    /\ Goto(p, "probe", "initialise")
    /\ UNCHANGED <<keyFile, index, key, ghosts>>

\* writeJsonAtomic(stripeIndexPath, {}), whatever is there by now.
InitialiseIndex(p) ==
    /\ Goto(p, "initialise", "serve")
    /\ index' = {}
    /\ UNCHANGED <<keyFile, key, ghosts>>

\* A serving process signs a bundle and links its refund.
Serve(p, r) ==
    /\ pc[p] = "serve"
    /\ r \notin linked
    /\ used' = used \cup {key[p]}
    /\ index' = index \cup {r}
    /\ linked' = linked \cup {r}
    /\ UNCHANGED <<keyFile, pc, key, stops, interrupted, shared>>

\* A process is killed, or a file operation of its start fails and ends it.
Stop(p) ==
    /\ stops < MaxStops
    /\ pc[p] # "down"
    /\ pc' = [pc EXCEPT ![p] = "down"]
    /\ Hold(p, Absent)
    /\ stops' = stops + 1
    /\ interrupted' = (interrupted \/ pc[p] = "write")
    /\ UNCHANGED <<keyFile, index, shared, used, linked>>

Starting(p) ==
    \/ LoadKey(p) \/ LoadTorn(p) \/ GenerateKey(p)
    \/ OpenKey(p) \/ OpenTaken(p) \/ WriteKey(p)
    \/ IndexThere(p) \/ IndexMissing(p) \/ InitialiseIndex(p)

Next ==
    \E p \in Processes :
        \/ Start(p)
        \/ Starting(p)
        \/ \E r \in Refunds : Serve(p, r)
        \/ Stop(p)

Spec == Init /\ [][Next]_vars

\* The supervisor restarts a process that ended, and the event loop completes
\* the operations of one that runs.
FairSpec == Spec /\ \A p \in Processes : WF_vars(Start(p)) /\ WF_vars(Starting(p))

-----------------------------------------------------------------------------
\* The variables have their types, and a serving process has a key and an index.
TypeOK ==
    /\ keyFile \in Keys \cup {Absent, Torn}
    /\ index = Absent \/ index \subseteq Refunds
    /\ pc \in [Processes -> Steps]
    /\ key \in [Processes -> Keys \cup {Absent}]
    /\ stops \in 0..MaxStops
    /\ interrupted \in BOOLEAN /\ shared \in BOOLEAN
    /\ used \subseteq Keys /\ linked \subseteq Refunds
    /\ \A p \in Processes : pc[p] = "serve" => key[p] \in Keys /\ index # Absent

\* Whatever was ever signed was signed with the key that is on disk now, so one
\* issuer key outlives every restart, also when two processes race to create
\* it and whenever they are stopped.
OneIssuerKey == used \subseteq {keyFile}

\* Restarting forgets no link of a refund, as long as processes that share the
\* directory never overlap.
LinksSurvive == ~shared => linked \subseteq (IF index = Absent THEN {} ELSE index)

\* Every process ends up serving, also the one that lost the race for the key,
\* unless a stop hit the writing of the key file.
EveryProcessServes ==
    [](~interrupted) => \A p \in Processes : <>[](pc[p] = "serve")
================================================================================
