---------------------------- MODULE RelayStartProofs ----------------------------
(***************************************************************************)
(* Proofs about RelayStart, for any number of processes, keys, refunds and *)
(* stops: one issuer key outlives every race and every stop, and no link   *)
(* is forgotten by a restart.                                              *)
(***************************************************************************)
EXTENDS RelayStart, TLAPS

\* What a process holds at each step of its start: the key on disk once it has
\* read or written one, and a torn file of its own while it writes.
KeyInv ==
    /\ \A p \in Processes :
          /\ pc[p] \in {"probe", "initialise", "serve"} =>
                key[p] = keyFile /\ keyFile \in Keys
          /\ pc[p] \in {"open", "write"} => key[p] \in Keys
          /\ pc[p] = "write" => keyFile = Torn
    /\ \A p, q \in Processes : pc[p] = "write" /\ pc[q] = "write" => p = q

\* While no two processes have been running, one that initialises the index is
\* alone and there is none.
IndexInv ==
    ~shared =>
        /\ \A p, q \in Processes : pc[p] # "down" /\ pc[q] # "down" => p = q
        /\ \A p \in Processes : pc[p] = "initialise" => index = Absent

IInv == TypeOK /\ KeyInv /\ OneIssuerKey /\ IndexInv /\ LinksSurvive
-----------------------------------------------------------------------------
LEMMA Initially == Init => IInv
<1> SUFFICES ASSUME Init PROVE IInv
  OBVIOUS
<1>1. TypeOK
  <2>1. pc \in [Processes -> Steps] /\ key \in [Processes -> Keys \cup {Absent}]
    BY DEF Init, Steps
  <2>2. \A p \in Processes : pc[p] = "down"
    BY DEF Init
  <2>3. stops \in 0..MaxStops
    BY StartAssumption DEF StartAssumption, Init
  <2> QED BY <2>1, <2>2, <2>3 DEF Init, TypeOK
<1>2. KeyInv /\ IndexInv
  BY DEF Init, KeyInv, IndexInv
<1>3. OneIssuerKey /\ LinksSurvive
  BY DEF Init, OneIssuerKey, LinksSurvive
<1> QED BY <1>1, <1>2, <1>3 DEF IInv

\* A step of the start keeps the files and the memory of the others apart.
LEMMA StartSteps ==
  ASSUME IInv, NEW p \in Processes, Start(p) \/ Starting(p)
  PROVE  IInv'
<1> USE StartAssumption DEF StartAssumption, IInv, TypeOK, KeyInv, OneIssuerKey, IndexInv, LinksSurvive,
        Steps, Goto, Hold, ghosts
<1>1. CASE Start(p)
  <2>1. TypeOK'
    BY <1>1 DEF Start
  <2>2. KeyInv' /\ OneIssuerKey'
    BY <1>1 DEF Start
  <2>3. IndexInv' /\ LinksSurvive'
    BY <1>1 DEF Start
  <2> QED BY <2>1, <2>2, <2>3
<1>2. CASE LoadKey(p)
  BY <1>2 DEF LoadKey
<1>3. CASE LoadTorn(p)
  BY <1>3 DEF LoadTorn
<1>4. CASE GenerateKey(p)
  BY <1>4 DEF GenerateKey
<1>5. CASE OpenKey(p)
  BY <1>5 DEF OpenKey
<1>6. CASE OpenTaken(p)
  BY <1>6 DEF OpenTaken
<1>7. CASE WriteKey(p)
  BY <1>7 DEF WriteKey
<1>8. CASE IndexThere(p)
  BY <1>8 DEF IndexThere
<1>9. CASE IndexMissing(p)
  BY <1>9 DEF IndexMissing
<1>10. CASE InitialiseIndex(p)
  BY <1>10 DEF InitialiseIndex
<1> QED BY <1>1, <1>2, <1>3, <1>4, <1>5, <1>6, <1>7, <1>8, <1>9, <1>10 DEF Starting

LEMMA ServeStep ==
  ASSUME IInv, NEW p \in Processes, NEW r \in Refunds, Serve(p, r)
  PROVE  IInv'
<1>1. index # Absent /\ index \subseteq Refunds /\ index' = index \cup {r}
  BY DEF Serve, IInv, TypeOK
<1>2. index' \in SUBSET Refunds /\ index' # Absent
  BY <1>1, StartAssumption DEF StartAssumption
<1>3. key[p] = keyFile /\ keyFile \in Keys
  BY DEF Serve, IInv, KeyInv
<1>4. TypeOK'
  BY <1>2, <1>3 DEF Serve, IInv, TypeOK
<1>5. KeyInv' /\ OneIssuerKey'
  BY <1>3 DEF Serve, IInv, KeyInv, OneIssuerKey
<1>6. IndexInv'
  BY DEF Serve, IInv, IndexInv
<1>7. LinksSurvive'
  BY <1>1, <1>2 DEF Serve, IInv, LinksSurvive
<1> QED BY <1>4, <1>5, <1>6, <1>7 DEF IInv

LEMMA StopStep ==
  ASSUME IInv, NEW p \in Processes, Stop(p)
  PROVE  IInv'
<1>1. TypeOK'
  BY StartAssumption DEF StartAssumption, Stop, IInv, TypeOK, Steps, Hold
<1>2. KeyInv' /\ OneIssuerKey'
  BY DEF Stop, IInv, TypeOK, KeyInv, OneIssuerKey, Hold
<1>3. IndexInv' /\ LinksSurvive'
  BY DEF Stop, IInv, TypeOK, IndexInv, LinksSurvive, Hold
<1> QED BY <1>1, <1>2, <1>3 DEF IInv

LEMMA Stuttering == IInv /\ UNCHANGED vars => IInv'
BY DEF IInv, TypeOK, KeyInv, OneIssuerKey, IndexInv, LinksSurvive, vars

LEMMA Inductive == IInv /\ [Next]_vars => IInv'
BY StartSteps, ServeStep, StopStep, Stuttering DEF Next

-----------------------------------------------------------------------------
\* At every step of every start, with any number of processes and stops, a
\* process knows of the key file and of the index what KeyInv and IndexInv say.
THEOREM StartInvariant == Spec => []IInv
BY Initially, Inductive, PTL DEF Spec

\* A process that serves has a key and an index, and the files have their types
\* (loadOrCreateRelayKey and RelayStore.init).
THEOREM StartTypeCorrect == Spec => []TypeOK
<1>1. IInv => TypeOK
  BY DEF IInv
<1> QED BY <1>1, StartInvariant, PTL

\* All that any process ever signs is signed with the one key on disk: the
\* exclusive open in writePrivateJson decides the race.
THEOREM OneKeyForEver == Spec => []OneIssuerKey
<1>1. IInv => OneIssuerKey
  BY DEF IInv
<1> QED BY <1>1, StartInvariant, PTL

\* RelayStore.init never empties the index of processes that ran one at a time.
THEOREM LinksAreKept == Spec => []LinksSurvive
<1>1. IInv => LinksSurvive
  BY DEF IInv
<1> QED BY <1>1, StartInvariant, PTL
================================================================================
