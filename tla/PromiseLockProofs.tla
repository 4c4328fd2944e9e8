--------------------------- MODULE PromiseLockProofs ---------------------------
(***************************************************************************)
(* Proofs about PromiseLock, for any set of calls: the chain of promises   *)
(* is a queue, its map entry is exact and no wake-up is lost.              *)
(***************************************************************************)
EXTENDS PromiseLock, SequenceTheorems, FiniteSetTheorems, TLAPS

-----------------------------------------------------------------------------
(* The inductive invariant.                                                *)

In(s, x) == \E i \in 1..Len(s) : s[i] = x

Pending(kind, c) == In(jobs, <<kind, c>>)

\* What the call waits for is resolved.
Ready(c) == previous[c] = None \/ previous[c] \in settled

Kinds == {"follow", "adopt", "settle", "continue"}

LockTypeOK ==
    /\ entry \in Calls \cup {None}
    /\ previous \in [Calls -> Calls \cup {None}]
    /\ phase \in [Calls -> {"new", "waiting", "running", "ended"}]
    /\ released \subseteq Calls /\ asked \subseteq Calls /\ settled \subseteq Calls
    /\ jobs \in Seq(Kinds \X Calls)
    /\ made \in Seq(Calls)

\* Every call waits for the one made just before it, or for none when all
\* before it have ended; behind one that has not ended all calls wait.
ChainInv ==
    /\ IsInjective(made)
    /\ \A c \in Calls : In(made, c) <=> phase[c] # "new"
    /\ \A i, j \in 1..Len(made) :
          i < j /\ phase[made[i]] # "ended" => phase[made[j]] = "waiting"
    /\ \A i \in 1..Len(made) :
          IF previous[made[i]] = None
          THEN \A j \in 1..(i - 1) : phase[made[j]] = "ended"
          ELSE i > 1 /\ previous[made[i]] = made[i - 1]

\* The map holds the last call until that has ended.
EntryInv ==
    IF entry = None THEN \A i \in 1..Len(made) : phase[made[i]] = "ended"
    ELSE made # <<>> /\ entry = made[Len(made)] /\ phase[entry] # "ended"

\* The promises of a call and the jobs about it: each job is there once, when
\* it is due and until it is done.
CallInv(c) ==
    /\ c \in released <=> phase[c] = "ended"
    /\ phase[c] = "new" => previous[c] = None /\ c \notin asked
    /\ ~Ready(c) => phase[c] = "waiting"
    /\ Pending("continue", c) <=> phase[c] = "waiting" /\ Ready(c)
    /\ c \in asked \/ Pending("follow", c) \/ Pending("adopt", c)
          <=> phase[c] # "new" /\ Ready(c)
    /\ Pending("follow", c) => ~Pending("adopt", c) /\ c \notin asked
    /\ Pending("adopt", c) => c \notin asked
    /\ Pending("settle", c) <=> c \in asked /\ c \in released /\ c \notin settled
    /\ c \in settled => c \in asked /\ c \in released

JobsInv == IsInjective(jobs) /\ \A c \in Calls : CallInv(c)

IInv == LockTypeOK /\ ChainInv /\ EntryInv /\ JobsInv

-----------------------------------------------------------------------------
(* The queue of jobs.                                                      *)

\* Taking the first job leaves the others.
LEMMA Popped ==
  ASSUME NEW S, NEW s \in Seq(S), s # <<>>, IsInjective(s)
  PROVE  /\ Tail(s) \in Seq(S) /\ IsInjective(Tail(s))
         /\ Head(s) = s[1] /\ In(s, Head(s)) /\ Head(s) \in S
         /\ \A x : In(Tail(s), x) <=> In(s, x) /\ x # Head(s)
<1>1. /\ Tail(s) \in Seq(S) /\ Len(s) \in Nat \ {0} /\ Len(Tail(s)) = Len(s) - 1
      /\ Head(s) = s[1] /\ Head(s) \in S
      /\ \A i \in 1..Len(Tail(s)) : Tail(s)[i] = s[i + 1]
  OBVIOUS
<1>2. DOMAIN s = 1..Len(s) /\ DOMAIN Tail(s) = 1..Len(Tail(s))
  BY <1>1
<1>3. IsInjective(Tail(s))
  BY <1>1, <1>2 DEF IsInjective
<1>4. ASSUME NEW x, In(s, x), x # Head(s) PROVE In(Tail(s), x)
  <2>1. PICK i \in 1..Len(s) : s[i] = x
    BY <1>4 DEF In
  <2>2. i # 1 /\ i - 1 \in 1..Len(Tail(s)) /\ Tail(s)[i - 1] = x
    BY <1>1, <1>4, <2>1
  <2> QED BY <2>2 DEF In
<1>5. ASSUME NEW x, In(Tail(s), x) PROVE In(s, x) /\ x # Head(s)
  <2>1. PICK i \in 1..Len(Tail(s)) : Tail(s)[i] = x
    BY <1>5 DEF In
  <2>2. i + 1 \in 1..Len(s) /\ s[i + 1] = x /\ i + 1 # 1 /\ 1 \in 1..Len(s)
    BY <1>1, <2>1
  <2> QED BY <1>1, <1>2, <2>2 DEF In, IsInjective
<1>6. In(s, Head(s))
  BY <1>1 DEF In
<1> QED BY <1>1, <1>3, <1>4, <1>5, <1>6

\* A job that is not there yet is put behind the others.
LEMMA Pushed ==
  ASSUME NEW S, NEW s \in Seq(S), NEW x \in S, IsInjective(s), ~In(s, x)
  PROVE  /\ Append(s, x) \in Seq(S) /\ IsInjective(Append(s, x))
         /\ \A y : In(Append(s, x), y) <=> In(s, y) \/ y = x
<1> DEFINE t == Append(s, x)
<1>1. /\ t \in Seq(S) /\ Len(s) \in Nat /\ Len(t) = Len(s) + 1
      /\ t[Len(t)] = x
      /\ \A i \in 1..Len(s) : t[i] = s[i]
  OBVIOUS
<1>2. DOMAIN s = 1..Len(s) /\ DOMAIN t = 1..Len(t)
  BY <1>1
<1> HIDE DEF t
<1>3. \A i \in 1..Len(t) : i = Len(t) \/ i \in 1..Len(s)
  BY <1>1
<1>4. IsInjective(t)
  BY <1>1, <1>2, <1>3 DEF IsInjective, In
<1>5. ASSUME NEW y PROVE In(t, y) <=> In(s, y) \/ y = x
  <2>1. Len(t) \in 1..Len(t) /\ \A i \in 1..Len(s) : i \in 1..Len(t)
    BY <1>1
  <2> QED BY <1>1, <1>3, <2>1 DEF In
<1> QED BY <1>1, <1>4, <1>5 DEF t

LEMMA ConcatPair == \A x, y : <<x>> \o <<y>> = <<x, y>>
<1> SUFFICES ASSUME NEW x, NEW y PROVE <<x>> \o <<y>> = <<x, y>>
  OBVIOUS
<1>1. <<x>> \in Seq({x, y}) /\ <<y>> \in Seq({x, y}) /\ <<x, y>> \in Seq({x, y})
      /\ Len(<<x>>) = 1 /\ Len(<<y>>) = 1 /\ Len(<<x, y>>) = 2
  OBVIOUS
<1>2. <<x>> \o <<y>> \in Seq({x, y}) /\ Len(<<x>> \o <<y>>) = 2
      /\ (<<x>> \o <<y>>)[1] = x /\ (<<x>> \o <<y>>)[2] = y
  BY <1>1, ConcatProperties
<1>3. \A i \in 1..2 : (<<x>> \o <<y>>)[i] = <<x, y>>[i]
  BY <1>2
<1> QED BY <1>1, <1>2, <1>3, SeqEqual

\* The reactions of a promise are two jobs.
LEMMA PushedReactions ==
  ASSUME NEW S, NEW s \in Seq(S), IsInjective(s), NEW c,
         <<"follow", c>> \in S, <<"continue", c>> \in S,
         ~In(s, <<"follow", c>>), ~In(s, <<"continue", c>>)
  PROVE  /\ s \o Reactions(c) \in Seq(S) /\ IsInjective(s \o Reactions(c))
         /\ \A x : In(s \o Reactions(c), x) <=>
                      In(s, x) \/ x = <<"follow", c>> \/ x = <<"continue", c>>
<1> DEFINE t == Append(s, <<"follow", c>>)
<1>1. /\ t \in Seq(S) /\ IsInjective(t)
      /\ \A x : In(t, x) <=> In(s, x) \/ x = <<"follow", c>>
  BY Pushed
<1>2. ~In(t, <<"continue", c>>)
  BY <1>1
<1>3. Append(t, <<"continue", c>>) = s \o Reactions(c)
  <2>1. t = s \o <<<<"follow", c>>>>
    BY AppendIsConcat
  <2>2. Append(t, <<"continue", c>>) = t \o <<<<"continue", c>>>>
    BY <1>1, AppendIsConcat
  <2>3. (s \o <<<<"follow", c>>>>) \o <<<<"continue", c>>>>
          = s \o (<<<<"follow", c>>>> \o <<<<"continue", c>>>>)
    BY ConcatAssociative
  <2>4. <<<<"follow", c>>>> \o <<<<"continue", c>>>> = Reactions(c)
    BY ConcatPair DEF Reactions
  <2> QED BY <2>1, <2>2, <2>3, <2>4
<1> HIDE DEF t
<1>4. /\ Append(t, <<"continue", c>>) \in Seq(S)
      /\ IsInjective(Append(t, <<"continue", c>>))
      /\ \A x : In(Append(t, <<"continue", c>>), x) <=> In(t, x) \/ x = <<"continue", c>>
  BY <1>1, <1>2, Pushed
<1> QED BY <1>1, <1>3, <1>4

-----------------------------------------------------------------------------
(* Those who wait for a call: nobody, or one.                              *)

Waiting(c) == {d \in Calls : previous[d] = c}

Woken(c) ==
    LET waiting == SetToSeq(Waiting(c))
    IN FlattenSeq([i \in DOMAIN waiting |-> Reactions(waiting[i])])

LEMMA NobodyWoken ==
  ASSUME NEW c, Waiting(c) = {}
  PROVE  Woken(c) = <<>>
<1>1. Cardinality({}) = 0
  BY FS_EmptySet
<1>2. <<>> \in [1..0 -> {}] /\ \A f \in [1..0 -> {}] : f = <<>>
  <2>1. \A f \in [1..0 -> {}] : f \in Seq({}) /\ Len(f) = 0
    BY SeqDef
  <2> QED BY <2>1, EmptySeq
<1>3. \E f \in [1..0 -> {}] : IsInjective(f)
  BY <1>2 DEF IsInjective
<1>4. SetToSeq({}) = <<>>
  BY <1>1, <1>2, <1>3 DEF SetToSeq
<1>5. Len([i \in DOMAIN <<>> |-> Reactions(<<>>[i])]) = 0
      /\ [i \in DOMAIN <<>> |-> Reactions(<<>>[i])] = <<>>
  OBVIOUS
<1> QED BY <1>4, <1>5 DEF Woken, FlattenSeq

LEMMA OneWoken ==
  ASSUME NEW c, NEW d, Waiting(c) = {d}
  PROVE  Woken(c) = Reactions(d)
<1>1. Cardinality({d}) = 1
  BY FS_Singleton
<1>2. <<d>> \in [1..1 -> {d}] /\ IsInjective(<<d>>)
  BY DEF IsInjective
<1>3. \A f \in [1..1 -> {d}] : f = <<d>>
  OBVIOUS
<1>4. SetToSeq({d}) = <<d>>
  BY <1>1, <1>2, <1>3 DEF SetToSeq
<1> DEFINE seqs == [i \in DOMAIN <<d>> |-> Reactions(<<d>>[i])]
           Flat(f) == [i \in 1..Len(seqs) |->
                         IF i = 1 THEN seqs[i] ELSE f[i - 1] \o seqs[i]]
           flatten == CHOOSE f : f = Flat(f)
<1>5. Len(seqs) = 1 /\ seqs[1] = Reactions(d)
  OBVIOUS
<1>6. FlattenSeq(seqs) = flatten[1]
  BY <1>5 DEF FlattenSeq
<1> HIDE DEF seqs
<1>7. [i \in 1..1 |-> Reactions(d)] = Flat([i \in 1..1 |-> Reactions(d)])
  BY <1>5
<1>8. flatten = Flat(flatten)
  BY <1>7
<1>9. flatten[1] = Reactions(d)
  BY <1>5, <1>8
<1> QED BY <1>4, <1>6, <1>9 DEF Woken, seqs

-----------------------------------------------------------------------------
(* The actions keep the invariant.                                         *)

LEMMA Initially == Init => IInv
<1> SUFFICES ASSUME Init PROVE IInv
  OBVIOUS
<1>1. LockTypeOK
  BY DEF Init, LockTypeOK
<1>2. Len(made) = 0 /\ Len(jobs) = 0 /\ 1..0 = {} /\ DOMAIN made = {} /\ DOMAIN jobs = {}
  BY DEF Init
<1>3. ChainInv
  BY <1>2 DEF Init, ChainInv, In, IsInjective
<1>4. EntryInv
  BY <1>2 DEF Init, EntryInv
<1>5. JobsInv
  BY <1>2 DEF Init, JobsInv, CallInv, Pending, Ready, In, IsInjective
<1> QED BY <1>1, <1>3, <1>4, <1>5 DEF IInv

\* The call that the map holds has the last place, and all before it have
\* ended when it holds none.
LEMMA CallStep ==
  ASSUME IInv, NEW c \in Calls, Call(c)
  PROVE  IInv'
<1> USE LockAssumption DEF LockAssumption, IInv
<1>1. /\ phase[c] = "new" /\ phase' = [phase EXCEPT ![c] = "waiting"]
      /\ previous' = [previous EXCEPT ![c] = entry] /\ entry' = c
      /\ made' = Append(made, c)
      /\ released' = released /\ asked' = asked /\ settled' = settled
  BY DEF Call, SetPhase, Previous
<1>2. ~In(made, c) /\ c # entry
  <2>1. ~In(made, c)
    BY <1>1 DEF ChainInv
  <2>2. entry # None => Len(made) \in 1..Len(made)
    BY DEF EntryInv, LockTypeOK
  <2> QED BY <2>1, <2>2 DEF EntryInv, In
<1>3. /\ made' \in Seq(Calls) /\ Len(made) \in Nat /\ Len(made') = Len(made) + 1
      /\ made'[Len(made')] = c
      /\ \A i \in 1..Len(made) : made'[i] = made[i] /\ made[i] \in Calls /\ made[i] # c
      /\ IsInjective(made') /\ \A d : In(made', d) <=> In(made, d) \/ d = c
  <2>1. made \in Seq(Calls) /\ IsInjective(made)
    BY DEF LockTypeOK, ChainInv
  <2>2. /\ made' \in Seq(Calls) /\ Len(made) \in Nat /\ Len(made') = Len(made) + 1
        /\ made'[Len(made')] = c
        /\ \A i \in 1..Len(made) : made'[i] = made[i] /\ made[i] \in Calls
    BY <1>1, <2>1
  <2>3. \A i \in 1..Len(made) : made[i] # c
    BY <1>2 DEF In
  <2> QED BY <1>1, <1>2, <2>1, <2>2, <2>3, Pushed
<1>4. \A i \in 1..Len(made') : i = Len(made') \/ i \in 1..Len(made)
  BY <1>3
<1>5. \A d \in Calls : phase'[d] = IF d = c THEN "waiting" ELSE phase[d]
  BY <1>1 DEF LockTypeOK
<1>6. \A d \in Calls : previous'[d] = IF d = c THEN entry ELSE previous[d]
  BY <1>1 DEF LockTypeOK
<1>7. ChainInv'
  <2>1. IsInjective(made') /\ \A d \in Calls : In(made', d) <=> phase'[d] # "new"
    BY <1>3, <1>5 DEF ChainInv
  <2>2. ASSUME NEW i \in 1..Len(made'), NEW j \in 1..Len(made'),
               i < j, phase'[made'[i]] # "ended"
        PROVE  phase'[made'[j]] = "waiting"
    BY <1>3, <1>4, <1>5, <2>2 DEF ChainInv
  <2>3. ASSUME NEW i \in 1..Len(made')
        PROVE  IF previous'[made'[i]] = None
               THEN \A j \in 1..(i - 1) : phase'[made'[j]] = "ended"
               ELSE i > 1 /\ previous'[made'[i]] = made'[i - 1]
    <3>1. CASE i \in 1..Len(made)
      <4>1. \A j \in 1..(i - 1) : j \in 1..Len(made)
        BY <3>1
      <4>2. i > 1 => i - 1 \in 1..Len(made)
        BY <1>3, <3>1
      <4> QED BY <1>3, <1>5, <1>6, <3>1, <4>1, <4>2 DEF ChainInv
    <3>2. CASE i = Len(made')
      <4>1. previous'[made'[i]] = entry
        BY <1>3, <1>6, <3>2
      <4>2. \A j \in 1..(i - 1) : j \in 1..Len(made)
        BY <1>3, <3>2
      <4>3. made # <<>> => Len(made) \in 1..Len(made)
        BY DEF LockTypeOK
      <4> QED BY <1>3, <1>5, <3>2, <4>1, <4>2, <4>3 DEF EntryInv
    <3> QED BY <1>4, <3>1, <3>2
  <2> QED BY <2>1, <2>2, <2>3 DEF ChainInv
<1>8. EntryInv'
  BY <1>1, <1>3, <1>5 DEF EntryInv
<1>9. c \notin released /\ c \notin asked /\ c \notin settled
      /\ ~Pending("follow", c) /\ ~Pending("continue", c) /\ ~Pending("adopt", c)
      /\ ~Pending("settle", c)
  BY <1>1 DEF JobsInv, CallInv
<1>10. entry \in Calls => phase[entry] # "ended" /\ entry \notin settled
  BY DEF EntryInv, JobsInv, CallInv
<1>11. jobs' = IF entry = None THEN jobs \o Reactions(c) ELSE jobs
  BY <1>10 DEF Call, Previous, LockTypeOK
<1>12. /\ jobs' \in Seq(Kinds \X Calls) /\ IsInjective(jobs')
       /\ \A x : In(jobs', x) <=>
             In(jobs, x) \/ (entry = None /\ (x = <<"follow", c>> \/ x = <<"continue", c>>))
  <2>1. jobs \in Seq(Kinds \X Calls) /\ IsInjective(jobs)
    BY DEF LockTypeOK, JobsInv
  <2>2. <<"follow", c>> \in Kinds \X Calls /\ <<"continue", c>> \in Kinds \X Calls
    BY DEF Kinds
  <2> QED BY <1>9, <1>11, <2>1, <2>2, PushedReactions DEF Pending
<1>13. LockTypeOK'
  BY <1>1, <1>3, <1>12 DEF LockTypeOK
<1>14. \A d \in Calls : CallInv(d)'
  <2>1. ASSUME NEW d \in Calls, NEW k \in Kinds
        PROVE  Pending(k, d)' <=>
                 Pending(k, d) \/ (entry = None /\ d = c /\ k \in {"follow", "continue"})
    BY <1>12 DEF Pending
  <2>2. ASSUME NEW d \in Calls, d # c
        PROVE  Ready(d)' <=> Ready(d)
    BY <1>1, <1>6, <2>2 DEF Ready
  <2>3. Ready(c)' <=> entry = None
    BY <1>1, <1>6, <1>10 DEF Ready, LockTypeOK
  <2>4. ASSUME NEW d \in Calls, d # c PROVE CallInv(d)'
    BY <1>1, <1>5, <1>6, <2>1, <2>2, <2>4 DEF JobsInv, CallInv, Kinds
  <2>5. CallInv(c)'
    BY <1>1, <1>5, <1>9, <2>1, <2>3 DEF CallInv, Kinds
  <2> QED BY <2>4, <2>5
<1> QED BY <1>7, <1>8, <1>12, <1>13, <1>14 DEF JobsInv

\* A job that the engine takes is one of a call, there no more afterwards.
LEMMA Taken ==
  ASSUME IInv, jobs # <<>>
  PROVE  /\ Head(jobs)[1] \in Kinds /\ Head(jobs)[2] \in Calls
         /\ Head(jobs) = <<Head(jobs)[1], Head(jobs)[2]>>
         /\ Pending(Head(jobs)[1], Head(jobs)[2])
         /\ Tail(jobs) \in Seq(Kinds \X Calls) /\ IsInjective(Tail(jobs))
         /\ \A x : In(Tail(jobs), x) <=> In(jobs, x) /\ x # Head(jobs)
<1>1. jobs \in Seq(Kinds \X Calls) /\ IsInjective(jobs)
  BY DEF IInv, LockTypeOK, JobsInv
<1>2. /\ Tail(jobs) \in Seq(Kinds \X Calls) /\ IsInjective(Tail(jobs))
      /\ Head(jobs) \in Kinds \X Calls /\ In(jobs, Head(jobs))
      /\ \A x : In(Tail(jobs), x) <=> In(jobs, x) /\ x # Head(jobs)
  BY <1>1, Popped
<1>3. /\ Head(jobs)[1] \in Kinds /\ Head(jobs)[2] \in Calls
      /\ Head(jobs) = <<Head(jobs)[1], Head(jobs)[2]>>
  BY <1>2
<1> QED BY <1>2, <1>3 DEF Pending

LEMMA FollowStep ==
  ASSUME IInv, jobs # <<>>, NEW c \in Calls, Head(jobs) = <<"follow", c>>, Follow(c)
  PROVE  IInv'
<1>1. jobs' = Append(Tail(jobs), <<"adopt", c>>)
      /\ UNCHANGED <<entry, previous, phase, released, asked, settled, made>>
  BY DEF Follow
<1>2. Pending("follow", c) /\ ~Pending("adopt", c) /\ c \notin asked
  BY Taken DEF IInv, JobsInv, CallInv
<1>3. ~In(Tail(jobs), <<"adopt", c>>) /\ <<"adopt", c>> \in Kinds \X Calls
  BY <1>2, Taken DEF Pending, Kinds
<1>4. /\ jobs' \in Seq(Kinds \X Calls) /\ IsInjective(jobs')
      /\ \A x : In(jobs', x) <=>
            (In(jobs, x) /\ x # <<"follow", c>>) \/ x = <<"adopt", c>>
  <2>1. Tail(jobs) \in Seq(Kinds \X Calls) /\ IsInjective(Tail(jobs))
    BY Taken
  <2>2. LET t == Append(Tail(jobs), <<"adopt", c>>)
        IN  /\ t \in Seq(Kinds \X Calls) /\ IsInjective(t)
            /\ \A x : In(t, x) <=> In(Tail(jobs), x) \/ x = <<"adopt", c>>
    BY <1>3, <2>1, Pushed
  <2> QED BY <1>1, <2>2, Taken
<1>5. ASSUME NEW d \in Calls, NEW k \in Kinds
      PROVE  Pending(k, d)' <=>
               (Pending(k, d) /\ ~(k = "follow" /\ d = c)) \/ (k = "adopt" /\ d = c)
  BY <1>4 DEF Pending
<1>6. \A d \in Calls : CallInv(d)'
  BY <1>1, <1>2, <1>5 DEF IInv, JobsInv, CallInv, Kinds, Ready
<1>7. LockTypeOK' /\ ChainInv' /\ EntryInv'
  BY <1>1, <1>4 DEF IInv, LockTypeOK, ChainInv, EntryInv
<1> QED BY <1>4, <1>6, <1>7 DEF IInv, JobsInv

LEMMA AdoptStep ==
  ASSUME IInv, jobs # <<>>, NEW c \in Calls, Head(jobs) = <<"adopt", c>>, Adopt(c)
  PROVE  IInv'
<1>1. asked' = asked \cup {c}
      /\ jobs' = (IF c \in released THEN Append(Tail(jobs), <<"settle", c>>) ELSE Tail(jobs))
      /\ UNCHANGED <<entry, previous, phase, released, settled, made>>
  BY DEF Adopt
<1>2. Pending("adopt", c) /\ ~Pending("settle", c) /\ ~Pending("follow", c)
      /\ c \notin asked /\ c \notin settled
  BY Taken DEF IInv, JobsInv, CallInv
<1>3. ~In(Tail(jobs), <<"settle", c>>) /\ <<"settle", c>> \in Kinds \X Calls
  BY <1>2, Taken DEF Pending, Kinds
<1>4. /\ jobs' \in Seq(Kinds \X Calls) /\ IsInjective(jobs')
      /\ \A x : In(jobs', x) <=>
            (In(jobs, x) /\ x # <<"adopt", c>>) \/ (c \in released /\ x = <<"settle", c>>)
  <2>1. Tail(jobs) \in Seq(Kinds \X Calls) /\ IsInjective(Tail(jobs))
    BY Taken
  <2>2. /\ jobs' \in Seq(Kinds \X Calls) /\ IsInjective(jobs')
        /\ \A x : In(jobs', x) <=>
              In(Tail(jobs), x) \/ (c \in released /\ x = <<"settle", c>>)
    <3>1. CASE c \in released
      <4>1. jobs' = Append(Tail(jobs), <<"settle", c>>)
        BY <1>1, <3>1
      <4> DEFINE t == Append(Tail(jobs), <<"settle", c>>)
      <4>2. /\ t \in Seq(Kinds \X Calls) /\ IsInjective(t)
            /\ \A x : In(t, x) <=> In(Tail(jobs), x) \/ x = <<"settle", c>>
        BY <1>3, <2>1, Pushed
      <4> HIDE DEF t
      <4>3. jobs' = t
        BY <4>1 DEF t
      <4> QED BY <3>1, <4>2, <4>3
    <3>2. CASE c \notin released
      BY <1>1, <2>1, <3>2
    <3> QED BY <3>1, <3>2
  <2> QED BY <2>2, Taken
<1>5. ASSUME NEW d \in Calls, NEW k \in Kinds
      PROVE  Pending(k, d)' <=>
               (Pending(k, d) /\ ~(k = "adopt" /\ d = c))
                  \/ (c \in released /\ k = "settle" /\ d = c)
  BY <1>4 DEF Pending
<1>6. \A d \in Calls : CallInv(d)'
  BY <1>1, <1>2, <1>5 DEF IInv, JobsInv, CallInv, Kinds, Ready
<1>7. LockTypeOK' /\ ChainInv' /\ EntryInv'
  BY <1>1, <1>4 DEF IInv, LockTypeOK, ChainInv, EntryInv
<1> QED BY <1>4, <1>6, <1>7 DEF IInv, JobsInv

\* At most one call waits for a call: the one made right after it.
LEMMA OneWaits ==
  ASSUME IInv, NEW c \in Calls, NEW d \in Waiting(c), NEW e \in Waiting(c)
  PROVE  d = e
<1>1. d \in Calls /\ e \in Calls /\ previous[d] = c /\ previous[e] = c /\ c # None
  BY LockAssumption DEF LockAssumption, Waiting
<1>2. In(made, d) /\ In(made, e)
  BY <1>1 DEF IInv, JobsInv, CallInv, ChainInv
<1>3. PICK i \in 1..Len(made), j \in 1..Len(made) : made[i] = d /\ made[j] = e
  BY <1>2 DEF In
<1>4. i > 1 /\ j > 1 /\ made[i - 1] = made[j - 1]
  BY <1>1, <1>3 DEF IInv, ChainInv
<1>5. i - 1 \in DOMAIN made /\ j - 1 \in DOMAIN made
  BY <1>3, <1>4 DEF IInv, LockTypeOK
<1>6. i - 1 = j - 1
  BY <1>4, <1>5 DEF IInv, ChainInv, IsInjective
<1> QED BY <1>3, <1>6

LEMMA SettleStep ==
  ASSUME IInv, jobs # <<>>, NEW c \in Calls, Head(jobs) = <<"settle", c>>, Settle(c)
  PROVE  IInv'
<1>1. settled' = settled \cup {c} /\ jobs' = Tail(jobs) \o Woken(c)
      /\ UNCHANGED <<entry, previous, phase, released, asked, made>>
  BY DEF Settle, Woken, Waiting
<1>2. Pending("settle", c) /\ c \in asked /\ c \in released /\ c \notin settled
  BY Taken DEF IInv, JobsInv, CallInv
<1>3. ASSUME NEW d \in Waiting(c)
      PROVE  /\ d \in Calls /\ previous[d] = c /\ d # c
             /\ ~Ready(d) /\ ~Pending("follow", d) /\ ~Pending("continue", d)
  <2>1. d \in Calls /\ previous[d] = c /\ c # None
    BY LockAssumption DEF LockAssumption, Waiting
  <2>2. ~Ready(d)
    BY <1>2, <2>1 DEF Ready
  <2>3. Ready(c)
    BY <1>2 DEF IInv, JobsInv, CallInv
  <2> QED BY <2>1, <2>2, <2>3 DEF IInv, JobsInv, CallInv
<1>4. /\ jobs' \in Seq(Kinds \X Calls) /\ IsInjective(jobs')
      /\ \A x : In(jobs', x) <=>
            \/ In(jobs, x) /\ x # <<"settle", c>>
            \/ \E d \in Waiting(c) : x = <<"follow", d>> \/ x = <<"continue", d>>
  <2>1. CASE Waiting(c) = {}
    <3>1. jobs' = Tail(jobs)
      BY <1>1, <2>1, NobodyWoken, Taken, ConcatEmptySeq
    <3> QED BY <2>1, <3>1, Taken
  <2>2. ASSUME NEW d \in Waiting(c) 
        PROVE  /\ jobs' \in Seq(Kinds \X Calls) /\ IsInjective(jobs')
               /\ \A x : In(jobs', x) <=>
                     \/ In(jobs, x) /\ x # <<"settle", c>>
                     \/ \E e \in Waiting(c) : x = <<"follow", e>> \/ x = <<"continue", e>>
    <3>1. Waiting(c) = {d}
      BY OneWaits, <2>2
    <3>2. jobs' = Tail(jobs) \o Reactions(d)
      BY <1>1, <3>1, OneWoken
    <3>3. <<"follow", d>> \in Kinds \X Calls /\ <<"continue", d>> \in Kinds \X Calls
      BY <1>3, <2>2 DEF Kinds
    <3>4. ~In(Tail(jobs), <<"follow", d>>) /\ ~In(Tail(jobs), <<"continue", d>>)
      BY <1>3, <2>2, Taken DEF Pending
    <3>5. /\ jobs' \in Seq(Kinds \X Calls) /\ IsInjective(jobs')
          /\ \A x : In(jobs', x) <=> In(Tail(jobs), x) \/ x = <<"follow", d>> \/ x = <<"continue", d>>
      BY <3>2, <3>3, <3>4, Taken, PushedReactions
    <3> QED BY <3>1, <3>5, Taken
  <2> QED BY <2>1, <2>2
<1>5. ASSUME NEW d \in Calls, NEW k \in Kinds
      PROVE  Pending(k, d)' <=>
               (Pending(k, d) /\ ~(k = "settle" /\ d = c))
                  \/ (d \in Waiting(c) /\ k \in {"follow", "continue"})
  BY <1>4 DEF Pending
<1>6. ASSUME NEW d \in Calls PROVE Ready(d)' <=> Ready(d) \/ d \in Waiting(c)
  BY <1>1 DEF Ready, Waiting
<1>7. \A d \in Waiting(c) : phase[d] = "waiting" /\ d \notin asked /\ ~Pending("adopt", d)
  <2> SUFFICES ASSUME NEW d \in Waiting(c)
               PROVE  phase[d] = "waiting" /\ d \notin asked /\ ~Pending("adopt", d)
    OBVIOUS
  <2>1. d \in Calls /\ ~Ready(d)
    BY <1>3
  <2> QED BY <2>1 DEF IInv, JobsInv, CallInv
<1>8. \A d \in Calls : CallInv(d)'
  BY <1>1, <1>2, <1>3, <1>5, <1>6, <1>7 DEF IInv, JobsInv, CallInv, Kinds
<1>9. LockTypeOK' /\ ChainInv' /\ EntryInv'
  BY <1>1, <1>4 DEF IInv, LockTypeOK, ChainInv, EntryInv
<1> QED BY <1>4, <1>8, <1>9 DEF IInv, JobsInv

\* A call whose turn has come finds all before it ended.
LEMMA ReadyIsFirst ==
  ASSUME IInv, NEW i \in 1..Len(made), Ready(made[i]), NEW j \in 1..(i - 1)
  PROVE  phase[made[j]] = "ended"
<1>1. i \in Nat /\ Len(made) \in Nat /\ made[i] \in Calls
      /\ j \in 1..Len(made) /\ made[j] \in Calls /\ j < i
  BY DEF IInv, LockTypeOK
<1>2. CASE previous[made[i]] = None
  BY <1>2 DEF IInv, ChainInv
<1>3. CASE previous[made[i]] # None
  <2>1. i > 1 /\ previous[made[i]] = made[i - 1] /\ i - 1 \in 1..Len(made)
    BY <1>1, <1>3 DEF IInv, ChainInv
  <2>2. made[i - 1] \in Calls /\ made[i - 1] \in settled
    BY <1>1, <1>3, <2>1 DEF Ready, IInv, LockTypeOK
  <2>3. phase[made[i - 1]] = "ended"
    BY <2>2 DEF IInv, JobsInv, CallInv
  <2>4. j = i - 1 \/ j < i - 1
    BY <1>1, <2>1
  <2> QED BY <1>1, <2>1, <2>3, <2>4 DEF IInv, ChainInv
<1> QED BY <1>2, <1>3

LEMMA ContinueStep ==
  ASSUME IInv, jobs # <<>>, NEW c \in Calls, Head(jobs) = <<"continue", c>>, Continue(c)
  PROVE  IInv'
<1>1. phase[c] = "waiting" /\ phase' = [phase EXCEPT ![c] = "running"] /\ jobs' = Tail(jobs)
      /\ UNCHANGED <<entry, previous, released, asked, settled, made>>
  BY DEF Continue, SetPhase
<1>2. Ready(c)
  BY Taken DEF IInv, JobsInv, CallInv
<1>3. \A d \in Calls : phase'[d] = IF d = c THEN "running" ELSE phase[d]
  BY <1>1 DEF IInv, LockTypeOK
<1>4. ASSUME NEW d \in Calls, NEW k \in Kinds
      PROVE  Pending(k, d)' <=> Pending(k, d) /\ ~(k = "continue" /\ d = c)
  BY <1>1, Taken DEF Pending
<1>5. \A d \in Calls : CallInv(d)'
  BY <1>1, <1>2, <1>3, <1>4 DEF IInv, JobsInv, CallInv, Kinds, Ready
<1>6. \A i \in 1..Len(made) : made[i] \in Calls
  BY DEF IInv, LockTypeOK
<1>7. ASSUME NEW i \in 1..Len(made), NEW j \in 1..Len(made),
             i < j, phase'[made[i]] # "ended"
      PROVE  phase'[made[j]] = "waiting"
  <2>1. phase[made[i]] # "ended" /\ phase[made[j]] = "waiting"
    BY <1>1, <1>3, <1>6, <1>7 DEF IInv, ChainInv
  <2>2. i \in 1..(j - 1)
    BY <1>7 DEF IInv, LockTypeOK
  <2>3. made[j] # c
    BY <1>2, <2>1, <2>2, ReadyIsFirst
  <2> QED BY <1>3, <1>6, <2>1, <2>3
<1>8. ChainInv'
  <2>1. \A d \in Calls : In(made, d) <=> phase'[d] # "new"
    BY <1>1, <1>3 DEF IInv, ChainInv
  <2>2. \A i \in 1..Len(made) : phase[made[i]] = "ended" => phase'[made[i]] = "ended"
    BY <1>1, <1>3, <1>6
  <2>3. \A i \in 1..Len(made) : \A j \in 1..(i - 1) : j \in 1..Len(made)
    BY DEF IInv, LockTypeOK
  <2> QED BY <1>1, <1>7, <2>1, <2>2, <2>3 DEF IInv, ChainInv
<1>9. EntryInv'
  BY <1>1, <1>3, <1>6 DEF IInv, EntryInv, LockTypeOK
<1>10. LockTypeOK'
  BY <1>1, Taken DEF IInv, LockTypeOK
<1>11. IsInjective(jobs')
  BY <1>1, Taken
<1> QED BY <1>5, <1>8, <1>9, <1>10, <1>11 DEF IInv, JobsInv

LEMMA EndStep ==
  ASSUME IInv, NEW c \in Calls, End(c)
  PROVE  IInv'
<1>1. phase[c] = "running" /\ phase' = [phase EXCEPT ![c] = "ended"]
      /\ released' = released \cup {c}
      /\ jobs' = (IF c \in asked THEN Append(jobs, <<"settle", c>>) ELSE jobs)
      /\ entry' = (IF entry = c THEN None ELSE entry)
      /\ UNCHANGED <<previous, asked, settled, made>>
  BY DEF End, SetPhase, Release, Forget
<1>2. \A d \in Calls : phase'[d] = IF d = c THEN "ended" ELSE phase[d]
  BY <1>1 DEF IInv, LockTypeOK
<1>3. c \notin released /\ ~Pending("settle", c) /\ c \notin settled /\ Ready(c)
  BY <1>1 DEF IInv, JobsInv, CallInv
<1>4. /\ jobs' \in Seq(Kinds \X Calls) /\ IsInjective(jobs')
      /\ \A x : In(jobs', x) <=> In(jobs, x) \/ (c \in asked /\ x = <<"settle", c>>)
  <2>1. jobs \in Seq(Kinds \X Calls) /\ IsInjective(jobs) /\ <<"settle", c>> \in Kinds \X Calls
    BY DEF IInv, LockTypeOK, JobsInv, Kinds
  <2>2. CASE c \in asked
    BY <1>1, <1>3, <2>1, <2>2, Pushed DEF Pending
  <2>3. CASE c \notin asked
    BY <1>1, <2>1, <2>3
  <2> QED BY <2>2, <2>3
<1>5. ASSUME NEW d \in Calls, NEW k \in Kinds
      PROVE  Pending(k, d)' <=> Pending(k, d) \/ (c \in asked /\ k = "settle" /\ d = c)
  BY <1>4 DEF Pending
<1>6. \A d \in Calls : CallInv(d)'
  BY <1>1, <1>2, <1>3, <1>5 DEF IInv, JobsInv, CallInv, Kinds, Ready
<1>7. \A i \in 1..Len(made) : made[i] \in Calls
  BY DEF IInv, LockTypeOK
<1>8. PICK n \in 1..Len(made) : made[n] = c
  BY <1>1 DEF IInv, ChainInv, In
<1>9. ChainInv'
  <2>1. \A d \in Calls : In(made, d) <=> phase'[d] # "new"
    BY <1>1, <1>2 DEF IInv, ChainInv
  <2>2. \A i \in 1..Len(made) : phase[made[i]] = "ended" => phase'[made[i]] = "ended"
    BY <1>2, <1>7
  <2>3. \A i \in 1..Len(made) : \A j \in 1..(i - 1) : j \in 1..Len(made)
    BY DEF IInv, LockTypeOK
  <2>4. ASSUME NEW i \in 1..Len(made), NEW j \in 1..Len(made),
               i < j, phase'[made[i]] # "ended"
        PROVE  phase'[made[j]] = "waiting"
    BY <1>1, <1>2, <1>7, <2>4 DEF IInv, ChainInv
  <2> QED BY <1>1, <2>1, <2>2, <2>3, <2>4 DEF IInv, ChainInv
<1>10. EntryInv'
  <2>1. CASE entry = None
    BY <1>1, <1>2, <1>8, <2>1 DEF IInv, EntryInv
  <2>2. CASE entry = c
    <3>1. n = Len(made)
      <4>1. Len(made) \in DOMAIN made /\ n \in DOMAIN made
        BY <1>8, <2>2 DEF IInv, LockTypeOK
      <4> QED BY <1>8, <2>2, <4>1, LockAssumption
              DEF LockAssumption, IInv, EntryInv, ChainInv, IsInjective
    <3>2. \A i \in 1..Len(made) : i = n \/ i \in 1..(n - 1)
      BY <3>1 DEF IInv, LockTypeOK
    <3>3. \A i \in 1..Len(made) : phase'[made[i]] = "ended"
      BY <1>2, <1>3, <1>7, <1>8, <3>2, ReadyIsFirst
    <3> QED BY <1>1, <2>2, <3>3 DEF EntryInv
  <2>3. CASE entry # None /\ entry # c
    BY <1>1, <1>2, <2>3 DEF IInv, LockTypeOK, EntryInv
  <2> QED BY <2>1, <2>2, <2>3
<1>11. LockTypeOK'
  BY <1>1, <1>4 DEF IInv, LockTypeOK
<1> QED BY <1>4, <1>6, <1>9, <1>10, <1>11 DEF IInv, JobsInv

LEMMA JobStep ==
  ASSUME IInv, Job
  PROVE  IInv'
<1> DEFINE c == Head(jobs)[2]
<1>1. jobs # <<>> /\ c \in Calls /\ Head(jobs)[1] \in Kinds /\ Head(jobs) = <<Head(jobs)[1], c>>
  BY Taken DEF Job
<1> HIDE DEF c
<1>2. CASE Head(jobs)[1] = "follow"
  BY <1>1, <1>2, FollowStep DEF Job, c
<1>3. CASE Head(jobs)[1] = "adopt"
  BY <1>1, <1>3, AdoptStep DEF Job, c
<1>4. CASE Head(jobs)[1] = "settle"
  BY <1>1, <1>4, SettleStep DEF Job, c
<1>5. CASE Head(jobs)[1] = "continue"
  BY <1>1, <1>5, ContinueStep DEF Job, c
<1> QED BY <1>1, <1>2, <1>3, <1>4, <1>5 DEF Kinds

LEMMA Stuttering == IInv /\ UNCHANGED vars => IInv'
BY DEF vars, IInv, LockTypeOK, ChainInv, EntryInv, JobsInv, CallInv, Pending, Ready

LEMMA Inductive == IInv /\ [Next]_vars => IInv'
BY CallStep, EndStep, JobStep, Stuttering DEF Next

-----------------------------------------------------------------------------
(* The order of the natural numbers, from which the first call of those    *)
(* that have not ended is taken.                                           *)

LEMMA LeastNumber ==
  ASSUME NEW T \in SUBSET Nat, T # {}
  PROVE  \E x \in T : \A y \in T : x <= y
<1> DEFINE R == {ss \in Nat \X Nat : ss[1] < ss[2]}
<1>1. IsWellFoundedOn(R, Nat)
  BY NatLessThanWellFounded DEF OpToRel
<1> HIDE DEF R
<1>2. PICK x \in T : \A y \in T : ~(<<y, x>> \in R)
  BY <1>1, WFMin
<1>3. \A y \in T : <<y, x>> \in Nat \X Nat
  OBVIOUS
<1>4. \A y \in T : ~(y < x)
  BY <1>2, <1>3 DEF R
<1> QED BY <1>4

\* The calls that have ended are the first ones.
LEMMA EndedFirst ==
  ASSUME LockTypeOK, ChainInv
  PROVE  \E k \in 0..Len(made) :
            /\ Ended = 1..k /\ Cardinality(Ended) = k
            /\ \A i \in 1..Len(made) : phase[made[i]] = "ended" <=> i <= k
<1> DEFINE Open == {i \in 1..Len(made) : phase[made[i]] # "ended"}
<1>1. Len(made) \in Nat /\ DOMAIN made = 1..Len(made)
  BY DEF LockTypeOK
<1>2. \E k \in 0..Len(made) : \A i \in 1..Len(made) : phase[made[i]] = "ended" <=> i <= k
  <2>1. CASE Open = {}
    <3>1. \A i \in 1..Len(made) : phase[made[i]] = "ended" /\ i <= Len(made)
      BY <1>1, <2>1
    <3>2. Len(made) \in 0..Len(made)
      BY <1>1
    <3> QED BY <3>1, <3>2
  <2>2. CASE Open # {}
    <3>1. PICK n \in Open : \A i \in Open : n <= i
      <4>1. Open \in SUBSET Nat
        BY <1>1
      <4> HIDE DEF Open
      <4> QED BY <2>2, <4>1, LeastNumber
    <3>2. n - 1 \in 0..Len(made) /\ n \in 1..Len(made)
      BY <1>1, <3>1
    <3>3. \A i \in 1..Len(made) : phase[made[i]] = "ended" <=> i <= n - 1
      <4>1. ASSUME NEW i \in 1..Len(made), phase[made[i]] = "ended" PROVE i <= n - 1
        <5>1. ~(n < i)
          BY <3>1, <4>1 DEF ChainInv
        <5>2. i # n
          BY <3>1, <4>1
        <5> QED BY <1>1, <3>2, <5>1, <5>2
      <4>2. ASSUME NEW i \in 1..Len(made), i <= n - 1 PROVE phase[made[i]] = "ended"
        BY <1>1, <3>1, <3>2, <4>2
      <4> QED BY <4>1, <4>2
    <3> QED BY <3>2, <3>3
  <2> QED BY <2>1, <2>2
<1>3. PICK k \in 0..Len(made) :
         \A i \in 1..Len(made) : phase[made[i]] = "ended" <=> i <= k
  BY <1>2
<1>4. Ended = 1..k
  BY <1>1, <1>3 DEF Ended
<1>5. Cardinality(1..k) = k
  BY <1>1, FS_Interval
<1> QED BY <1>3, <1>4, <1>5

-----------------------------------------------------------------------------
\* The chain of promises is in step with the phases of the calls whatever the
\* order of the calls and of the engine's jobs (store.mjs: withLock).
THEOREM LockInvariant == Spec => []IInv
BY Initially, Inductive, PTL DEF Spec

LEMMA ExactEntry == IInv => EntryExact
<1> SUFFICES ASSUME IInv PROVE EntryExact
  OBVIOUS
<1>1. CASE entry = None
  <2>1. \A c \in Calls : phase[c] \notin {"waiting", "running"}
    BY <1>1 DEF IInv, LockTypeOK, ChainInv, EntryInv, In
  <2> QED BY <1>1, <2>1 DEF EntryExact
<1>2. CASE entry # None
  <2>1. entry \in Calls /\ phase[entry] # "ended" /\ Len(made) \in 1..Len(made)
        /\ entry = made[Len(made)]
    BY <1>2 DEF IInv, LockTypeOK, EntryInv
  <2>2. phase[entry] # "new"
    BY <2>1 DEF IInv, ChainInv, In
  <2>3. phase[entry] \in {"waiting", "running"}
    BY <2>1, <2>2 DEF IInv, LockTypeOK
  <2> QED BY <1>2, <2>1, <2>3 DEF EntryExact
<1> QED BY <1>1, <1>2

\* The map has an entry for a key exactly while somebody holds the lock or
\* waits for it (store.mjs: withLock, the finally block).
THEOREM EntryIsExact == Spec => []EntryExact
BY ExactEntry, LockInvariant, PTL

LEMMA NoWakeUpLost == IInv => NobodyForgotten
<1> SUFFICES ASSUME IInv, NEW c \in Calls, phase[c] = "waiting",
                    \A d \in Calls : phase[d] # "running"
             PROVE  Runnable
  BY DEF NobodyForgotten
<1>1. CASE jobs # <<>>
  <2>1. Head(jobs)[2] \in Calls /\ Pending(Head(jobs)[1], Head(jobs)[2])
    BY <1>1, Taken
  <2>2. Head(jobs)[1] = "continue" => phase[Head(jobs)[2]] = "waiting"
    BY <2>1 DEF IInv, JobsInv, CallInv
  <2> QED BY <1>1, <2>2 DEF Runnable
<1>2. CASE jobs = <<>>
  <2>1. \A k, d : ~Pending(k, d)
    BY <1>2 DEF Pending, In
  <2>2. PICK k \in 0..Len(made) :
           \A i \in 1..Len(made) : phase[made[i]] = "ended" <=> i <= k
    BY EndedFirst DEF IInv
  <2>3. PICK n \in 1..Len(made) : made[n] = c
    BY DEF IInv, ChainInv, In
  <2>4. Len(made) \in Nat /\ k + 1 \in 1..Len(made) /\ made[k + 1] \in Calls
    BY <2>2, <2>3 DEF IInv, LockTypeOK
  <2> DEFINE first == made[k + 1]
  <2>5. phase[first] = "waiting"
    <3>1. phase[first] # "ended" /\ phase[first] # "running"
      BY <2>2, <2>4
    <3>2. phase[first] # "new"
      BY <2>4 DEF IInv, ChainInv, In
    <3> QED BY <2>4, <3>1, <3>2 DEF IInv, LockTypeOK
  <2>6. ~Ready(first)
    BY <2>1, <2>4, <2>5 DEF IInv, JobsInv, CallInv
  <2>7. k + 1 > 1 /\ previous[first] = made[k] /\ made[k] \notin settled
    BY <2>2, <2>4, <2>6 DEF Ready, IInv, ChainInv
  <2>8. k \in 1..Len(made) /\ made[k] \in Calls /\ phase[made[k]] = "ended"
    BY <2>2, <2>4, <2>7 DEF IInv, LockTypeOK
  <2>9. made[k] \in asked
    BY <2>1, <2>8 DEF IInv, JobsInv, CallInv
  <2> QED BY <2>1, <2>7, <2>8, <2>9 DEF IInv, JobsInv, CallInv
<1> QED BY <1>1, <1>2

\* No wake-up is lost: the safety half of EveryCallEnds (store.mjs: withLock).
THEOREM NobodyIsForgotten == Spec => []NobodyForgotten
BY NoWakeUpLost, LockInvariant, PTL

-----------------------------------------------------------------------------
(* The refinement.                                                         *)

\* The calls in the abstract queue, and the one that runs.
Left == SubSeq(made, Cardinality(Ended) + 1, Len(made))
Running == {c \in Calls : phase[c] = "running"}

LEMMA QueueInitially == Init => Queue!Init
<1> SUFFICES ASSUME Init PROVE Queue!Init
  OBVIOUS
<1>1. Ended = {} /\ Len(made) = 0
  BY DEF Init, Ended
<1>2. Left = <<>>
  BY <1>1, FS_EmptySet, SubSeqEmpty DEF Left
<1>3. Running = {}
  BY DEF Init, Running
<1> QED BY <1>2, <1>3 DEF Queue!Init, Left, Running

\* What the queue is when k calls have ended, and what running tells of it.
LEMMA QueueShape ==
  ASSUME LockTypeOK, ChainInv
  PROVE  \E k \in 0..Len(made) :
            /\ Left = SubSeq(made, k + 1, Len(made))
            /\ Len(Left) = Len(made) - k
            /\ \A i \in 1..(Len(made) - k) : Left[i] = made[k + i]
            /\ \A i \in 1..Len(made) : phase[made[i]] = "ended" <=> i <= k
            /\ \A c \in Calls : phase[c] = "running" =>
                  k < Len(made) /\ c = made[k + 1] /\ Running = {c}
<1>1. PICK k \in 0..Len(made) :
         /\ Cardinality(Ended) = k
         /\ \A i \in 1..Len(made) : phase[made[i]] = "ended" <=> i <= k
  BY EndedFirst
<1>2. Len(made) \in Nat /\ \A i \in 1..Len(made) : made[i] \in Calls
  BY DEF LockTypeOK
<1>3. /\ Left = SubSeq(made, k + 1, Len(made))
      /\ Len(Left) = Len(made) - k
      /\ \A i \in 1..(Len(made) - k) : Left[i] = made[k + i]
  <2>1. \A i \in (k + 1)..Len(made) : made[i] \in Calls
    BY <1>2
  <2>2. k + 1 \in Int /\ Len(made) \in Int
    BY <1>2
  <2>3. /\ Len(SubSeq(made, k + 1, Len(made))) = IF k + 1 <= Len(made) THEN Len(made) - (k + 1) + 1 ELSE 0
        /\ \A i \in 1..(Len(made) - (k + 1) + 1) :
              SubSeq(made, k + 1, Len(made))[i] = made[k + 1 + i - 1]
    BY <2>1, <2>2, SubSeqProperties
  <2>4. Left = SubSeq(made, k + 1, Len(made))
    BY <1>1 DEF Left
  <2> QED BY <1>2, <2>3, <2>4
<1>4. ASSUME NEW c \in Calls, phase[c] = "running"
      PROVE  k < Len(made) /\ c = made[k + 1] /\ Running = {c}
  <2>1. \A d \in Calls : phase[d] = "running" => k + 1 \in 1..Len(made) /\ d = made[k + 1]
    <3> SUFFICES ASSUME NEW d \in Calls, phase[d] = "running"
                 PROVE  k + 1 \in 1..Len(made) /\ d = made[k + 1]
      OBVIOUS
    <3>1. PICK i \in 1..Len(made) : made[i] = d
      BY DEF ChainInv, In
    <3>2. i > k /\ k + 1 \in 1..Len(made) /\ phase[made[k + 1]] # "ended"
      BY <1>1, <1>2, <3>1
    <3>3. ~(k + 1 < i)
      BY <3>1, <3>2 DEF ChainInv
    <3> QED BY <1>2, <3>1, <3>2, <3>3
  <2> QED BY <1>2, <1>4, <2>1 DEF Running
<1> QED BY <1>1, <1>3, <1>4

\* The queue in terms of how many calls have ended.
LEMMA Behind ==
  ASSUME NEW m \in Seq(Calls), NEW f, NEW k \in 0..Len(m),
         \A i \in 1..Len(m) : f[m[i]] = "ended" <=> i <= k
  PROVE  SubSeq(m, Cardinality({i \in DOMAIN m : f[m[i]] = "ended"}) + 1, Len(m))
           = SubSeq(m, k + 1, Len(m))
<1>1. {i \in DOMAIN m : f[m[i]] = "ended"} = 1..k
  OBVIOUS
<1>2. Cardinality(1..k) = k
  BY FS_Interval
<1> QED BY <1>1, <1>2

LEMMA EnterStep ==
  ASSUME IInv, IInv', NEW c \in Calls, Call(c)
  PROVE  Queue!Enter(c)
<1>1. phase[c] = "new" /\ phase' = [phase EXCEPT ![c] = "waiting"] /\ made' = Append(made, c)
      /\ made \in Seq(Calls) /\ phase \in [Calls -> {"new", "waiting", "running", "ended"}]
  BY DEF Call, SetPhase, IInv, LockTypeOK
<1>2. PICK k \in 0..Len(made) :
         /\ Left = SubSeq(made, k + 1, Len(made))
         /\ \A i \in 1..Len(made) : phase[made[i]] = "ended" <=> i <= k
  BY QueueShape DEF IInv
<1>3. /\ made' \in Seq(Calls) /\ Len(made) \in Nat /\ Len(made') = Len(made) + 1
      /\ made'[Len(made')] = c
      /\ \A i \in 1..Len(made) : made'[i] = made[i] /\ made[i] \in Calls
  BY <1>1
<1>4. \A i \in 1..Len(made') : phase'[made'[i]] = "ended" <=> i <= k
  <2>1. \A i \in 1..Len(made') : i = Len(made') \/ i \in 1..Len(made)
    BY <1>3
  <2>2. \A i \in 1..Len(made) : made[i] # c
    BY <1>1 DEF IInv, ChainInv, In
  <2> QED BY <1>1, <1>2, <1>3, <2>1, <2>2
<1>5. Left' = SubSeq(made', k + 1, Len(made'))
  <2>1. k \in 0..Len(made')
    BY <1>3
  <2>2. SubSeq(made', Cardinality({i \in DOMAIN made' : phase'[made'[i]] = "ended"}) + 1, Len(made'))
          = SubSeq(made', k + 1, Len(made'))
    BY <1>3, <1>4, <2>1, Behind
  <2> QED BY <2>2 DEF Left, Ended
<1>6. SubSeq(made', k + 1, Len(made')) = SubSeq(made', k + 1, Len(made)) \o <<c>>
  <2>1. k + 1 \in 1..Len(made') /\ Len(made') \in (k + 1)..Len(made')
    BY <1>3
  <2>2. SubSeq(made', k + 1, Len(made')) =
          SubSeq(made', k + 1, Len(made') - 1) \o <<made'[Len(made')]>>
    BY <1>3, <2>1, SubSeqRecursiveSecond
  <2>3. Len(made') - 1 = Len(made)
    BY <1>3
  <2> QED BY <1>3, <2>2, <2>3
<1>7. SubSeq(made', k + 1, Len(made)) = Left /\ Left \in Seq(Calls)
  <2>1. \A i \in (k + 1)..Len(made) : made[i] \in Calls /\ made'[i] = made[i] /\ made'[i] \in Calls
    BY <1>3
  <2>2. k + 1 \in Int /\ Len(made) \in Int
    BY <1>3
  <2> DEFINE s == SubSeq(made, k + 1, Len(made))
             t == SubSeq(made', k + 1, Len(made))
             n == IF k + 1 <= Len(made) THEN Len(made) - (k + 1) + 1 ELSE 0
  <2>3. s \in Seq(Calls) /\ Len(s) = n
        /\ \A i \in 1..(Len(made) - (k + 1) + 1) : s[i] = made[k + 1 + i - 1]
    BY <2>1, <2>2, SubSeqProperties
  <2>4. t \in Seq(Calls) /\ Len(t) = n
        /\ \A i \in 1..(Len(made) - (k + 1) + 1) : t[i] = made'[k + 1 + i - 1]
    BY <2>1, <2>2, SubSeqProperties
  <2> HIDE DEF s, t
  <2>5. \A i \in 1..Len(s) : s[i] = t[i]
    <3>1. \A i \in 1..Len(s) : /\ i \in 1..(Len(made) - (k + 1) + 1)
                                /\ k + 1 + i - 1 \in (k + 1)..Len(made)
      BY <1>3, <2>3
    <3> HIDE DEF n
    <3> QED BY <2>1, <2>3, <2>4, <3>1
  <2>6. s = t
    BY <2>3, <2>4, <2>5, SeqEqual
  <2> QED BY <1>2, <2>3, <2>6 DEF s, t
<1>8. Left' = Append(Left, c)
  BY <1>5, <1>6, <1>7, AppendIsConcat
<1>9. Running' = Running
  BY <1>1 DEF Running
<1> QED BY <1>8, <1>9 DEF Queue!Enter, Left, Running

LEMMA BeginStep ==
  ASSUME IInv, IInv', NEW c \in Calls, Continue(c)
  PROVE  Queue!Begin(c)
<1>1. phase[c] = "waiting" /\ phase' = [phase EXCEPT ![c] = "running"] /\ made' = made
      /\ made \in Seq(Calls) /\ phase \in [Calls -> {"new", "waiting", "running", "ended"}]
  BY DEF Continue, SetPhase, IInv, LockTypeOK
<1>2. PICK k \in 0..Len(made) :
         /\ Len(Left) = Len(made) - k
         /\ \A i \in 1..(Len(made) - k) : Left[i] = made[k + i]
         /\ \A i \in 1..Len(made) : phase[made[i]] = "ended" <=> i <= k
         /\ Left = SubSeq(made, k + 1, Len(made))
  BY QueueShape DEF IInv
<1>3. Len(made) \in Nat /\ \A i \in 1..Len(made) : made[i] \in Calls
  BY <1>1
<1>4. PICK n \in 1..Len(made) : made[n] = c
  BY <1>1 DEF IInv, ChainInv, In
<1>5. n = k + 1
  <2>1. n > k /\ k + 1 \in 1..Len(made) /\ phase[made[k + 1]] # "ended"
        /\ phase'[made[k + 1]] # "ended"
    BY <1>1, <1>2, <1>3, <1>4
  <2>2. phase'[made[n]] = "running"
    BY <1>1, <1>4
  <2>3. ~(k + 1 < n)
    BY <1>1, <1>4, <2>1, <2>2 DEF IInv, ChainInv
  <2> QED BY <1>3, <2>1, <2>3
<1>6. Left # <<>> /\ Head(Left) = c
  <2>1. Len(Left) # 0
    <3>1. Len(Left) = Len(made) - k /\ k \in Nat /\ Len(made) \in Nat /\ k + 1 <= Len(made)
      BY <1>2, <1>3, <1>4, <1>5
    <3> QED BY <3>1
  <2>2. Left # <<>>
    BY <2>1
  <2>3. Head(Left) = made[k + 1]
    <3>1. k + 1 \in 1..Len(made) /\ Len(made) \in (k + 1)..Len(made)
      BY <1>3, <1>5
    <3> QED BY <1>1, <1>2, <3>1, HeadTailOfSubSeq
  <2> QED BY <1>4, <1>5, <2>2, <2>3
<1>7. Running = {}
  <2>1. ASSUME NEW d \in Calls, phase[d] = "running" PROVE FALSE
    <3>1. PICK j \in 1..Len(made) : made[j] = d
      BY <2>1 DEF IInv, ChainInv, In
    <3>2. j > k
      BY <1>2, <1>3, <2>1, <3>1
    <3>3. j # n
      BY <1>1, <1>4, <2>1, <3>1
    <3>4. phase[made[j]] = "waiting"
      BY <1>1, <1>2, <1>3, <1>4, <1>5, <3>2, <3>3 DEF IInv, ChainInv
    <3> QED BY <2>1, <3>1, <3>4
  <2> QED BY <2>1 DEF Running
<1>8. Running' = {c}
  BY <1>1, <1>7 DEF Running
<1>9. Left' = Left
  <2>1. \A i \in 1..Len(made) : phase'[made[i]] = "ended" <=> i <= k
    BY <1>1, <1>2, <1>3
  <2>2. SubSeq(made, Cardinality({i \in DOMAIN made : phase'[made[i]] = "ended"}) + 1, Len(made))
          = SubSeq(made, k + 1, Len(made))
    BY <1>1, <2>1, Behind
  <2>3. Left' = SubSeq(made, k + 1, Len(made))
    BY <1>1, <2>2 DEF Left, Ended
  <2> QED BY <1>2, <2>3
<1> QED BY <1>6, <1>7, <1>8, <1>9 DEF Queue!Begin, Left, Running

LEMMA LeaveStep ==
  ASSUME IInv, IInv', NEW c \in Calls, End(c)
  PROVE  Queue!Leave(c)
<1>1. phase[c] = "running" /\ phase' = [phase EXCEPT ![c] = "ended"] /\ made' = made
      /\ made \in Seq(Calls) /\ phase \in [Calls -> {"new", "waiting", "running", "ended"}]
  BY DEF End, SetPhase, IInv, LockTypeOK
<1>2. PICK k \in 0..Len(made) :
         /\ Left = SubSeq(made, k + 1, Len(made))
         /\ \A i \in 1..Len(made) : phase[made[i]] = "ended" <=> i <= k
         /\ k < Len(made) /\ c = made[k + 1] /\ Running = {c}
  BY <1>1, QueueShape DEF IInv
<1>3. k + 1 \in 0..Len(made) /\ k + 1 \in 1..Len(made) /\ \A i \in 1..Len(made) : made[i] \in Calls
  BY <1>1, <1>2
<1>4. \A i \in 1..Len(made) : phase'[made[i]] = "ended" <=> i <= k + 1
  <2>1. \A i \in 1..Len(made) : made[i] = c <=> i = k + 1
    BY <1>1, <1>2, <1>3 DEF IInv, ChainInv, IsInjective
  <2> QED BY <1>1, <1>2, <1>3, <2>1
<1>5. Left' = SubSeq(made, k + 1 + 1, Len(made))
  <2>1. SubSeq(made, Cardinality({i \in DOMAIN made : phase'[made[i]] = "ended"}) + 1, Len(made))
          = SubSeq(made, k + 1 + 1, Len(made))
    <3> DEFINE n == k + 1
    <3>1. n \in 0..Len(made) /\ \A i \in 1..Len(made) : phase'[made[i]] = "ended" <=> i <= n
      BY <1>3, <1>4
    <3> HIDE DEF n
    <3>2. SubSeq(made, Cardinality({i \in DOMAIN made : phase'[made[i]] = "ended"}) + 1, Len(made))
            = SubSeq(made, n + 1, Len(made))
      BY <1>1, <3>1, Behind
    <3> QED BY <3>2 DEF n
  <2> QED BY <1>1, <2>1 DEF Left, Ended
<1>6. Tail(Left) = SubSeq(made, k + 1 + 1, Len(made))
  BY <1>1, <1>2, <1>3, HeadTailOfSubSeq
<1>7. Running' = Running \ {c}
  BY <1>1 DEF Running
<1>8. c \in Running
  BY <1>1 DEF Running
<1> QED BY <1>5, <1>6, <1>7, <1>8 DEF Queue!Leave, Left, Running

LEMMA QueueUnmoved ==
  ASSUME made' = made, phase' = phase
  PROVE  UNCHANGED <<Left, Running>>
BY DEF Left, Ended, Running

\* Every step of the promises is a step of the queue or none.
LEMMA QueueStep ==
  ASSUME IInv, IInv', [Next]_vars
  PROVE  [Queue!Next]_<<Left, Running>>
<1>1. ASSUME NEW c \in Calls, Call(c) PROVE Queue!Next
  BY <1>1, EnterStep DEF Queue!Next
<1>2. ASSUME NEW c \in Calls, End(c) PROVE Queue!Next
  BY <1>2, LeaveStep DEF Queue!Next
<1>3. ASSUME Job PROVE [Queue!Next]_<<Left, Running>>
  <2> DEFINE c == Head(jobs)[2]
  <2>1. c \in Calls
    BY <1>3, Taken DEF Job
  <2>2. \/ Continue(c) \/ Follow(c) \/ Adopt(c) \/ Settle(c)
    BY <1>3 DEF Job
  <2> HIDE DEF c
  <2>3. CASE Continue(c)
    BY <2>1, <2>3, BeginStep DEF Queue!Next
  <2>4. CASE Follow(c) \/ Adopt(c) \/ Settle(c)
    BY <2>4, QueueUnmoved DEF Follow, Adopt, Settle
  <2> QED BY <2>2, <2>3, <2>4
<1>4. CASE UNCHANGED vars
  BY <1>4, QueueUnmoved DEF vars
<1> QED BY <1>1, <1>2, <1>3, <1>4 DEF Next

\* The chain of promises implements the queue (store.mjs: withLock): callbacks
\* run one at a time and in the order in which withLock was called.
THEOREM LockIsQueue == Spec => ImplementsQueue
<1>1. Init => Queue!Init
  BY QueueInitially
<1>2. IInv /\ IInv' /\ [Next]_vars => [Queue!Next]_<<Left, Running>>
  BY QueueStep
<1> QED BY <1>1, <1>2, LockInvariant, PTL DEF Spec, ImplementsQueue, Queue!Spec, Left, Running
================================================================================
