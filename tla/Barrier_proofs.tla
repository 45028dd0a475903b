--------------------------- MODULE Barrier_proofs ---------------------------
(***************************************************************************)
(* wait() implements BarrierSpec for any finite set of threads and any     *)
(* number of rounds, spinning or with the condition variable, with any     *)
(* spurious wakeups.  The thread scheduler is proved on top of             *)
(* BarrierSpec, so that the two proofs join.                               *)
(***************************************************************************)
EXTENDS Barrier, FiniteSetTheorems, TLAPS

Waiting == {"spin", "blocked", "woken"}
Last == {"reset", "release"}

TypeOK ==
  /\ mUseCondition \in BOOLEAN
  /\ mCount \in Nat
  /\ mGeneration \in Nat
  /\ pc \in [Threads -> Locations]
  /\ gen \in [Threads -> Nat]
  /\ rounds \in [Threads -> Nat]

\* The threads whose call is counted in the current generation.
CountedNow == {t \in Threads : pc[t] \in Waiting \cup Last /\ rounds[t] = mGeneration}

\* Where a thread is tells how many generations it has gone through: one that
\* waits may still have to notice that it was released.
RoundsFollowGeneration ==
  \A t \in Threads :
    /\ pc[t] \in {"out", "fetch"} \cup Last => rounds[t] = mGeneration
    /\ pc[t] = "fetch" => gen[t] = mGeneration
    /\ pc[t] \in Waiting => /\ gen[t] = rounds[t]
                            /\ rounds[t] = mGeneration \/ rounds[t] + 1 = mGeneration
    /\ pc[t] = "notify" => rounds[t] + 1 = mGeneration

\* Between the last call and the release all others wait in this generation.
OthersWait ==
  \A t \in Threads : pc[t] \in Last =>
    \A u \in Threads \ {t} : pc[u] \in Waiting /\ rounds[u] = mGeneration

CountIsExact ==
  /\ (\A t \in Threads : pc[t] \notin Last) =>
       mCount = Cardinality(CountedNow) /\ mCount < mLimit
  /\ (\E t \in Threads : pc[t] = "release") => mCount = 0

Inv == TypeOK /\ RoundsFollowGeneration /\ OthersWait /\ CountIsExact

-----------------------------------------------------------------------------

LEMMA LimitType == mLimit \in Nat /\ mLimit > 0
<1>1. Cardinality(Threads) \in Nat
  BY BarrierAssumption, FS_CardinalityType
<1>2. Cardinality(Threads) # 0
  BY BarrierAssumption, FS_EmptySet
<1> QED BY <1>1, <1>2 DEF mLimit

\* Counting one more call; the call that makes the count complete is made when
\* all other threads are counted.
LEMMA OneMore ==
  ASSUME NEW S \in SUBSET Threads, NEW t \in Threads \ S
  PROVE  /\ Cardinality(S) \in Nat
         /\ Cardinality(S \cup {t}) = Cardinality(S) + 1
         /\ Cardinality(S) + 1 <= mLimit
         /\ Cardinality(S) + 1 = mLimit => S \cup {t} = Threads
<1>1. IsFiniteSet(S) /\ Cardinality(S) \in Nat
  BY BarrierAssumption, FS_Subset, FS_CardinalityType
<1>2. Cardinality(S \cup {t}) = Cardinality(S) + 1
  BY <1>1, FS_AddElement
<1>3. S \cup {t} \in SUBSET Threads
  OBVIOUS
<1>4. /\ Cardinality(S \cup {t}) <= Cardinality(Threads)
      /\ Cardinality(S \cup {t}) = Cardinality(Threads) => S \cup {t} = Threads
  BY <1>3, BarrierAssumption, FS_Subset
<1> QED BY <1>1, <1>2, <1>4 DEF mLimit

\* The last caller is counted and so are all others.
LEMMA LastMeansAll ==
  ASSUME Inv, NEW t \in Threads, pc[t] \in Last
  PROVE  CountedNow = Threads
BY DEF Inv, RoundsFollowGeneration, OthersWait, CountedNow

LEMMA InitInv == Init => Inv
<1> SUFFICES ASSUME Init PROVE Inv
  OBVIOUS
<1>1. CountedNow = {}
  BY DEF Init, CountedNow, Waiting, Last
<1>2. Cardinality({}) = 0
  BY FS_EmptySet
<1> QED BY <1>1, <1>2, LimitType DEF Init, Inv, TypeOK, RoundsFollowGeneration,
           OthersWait, CountIsExact, Locations, Waiting, Last

\* A thread outside the barrier, and one that has not noticed its release, show
\* that nobody is between the last call and the release.
LEMMA NobodyLast ==
  ASSUME Inv, NEW t \in Threads,
         pc[t] \in {"out", "fetch", "notify"} \/ rounds[t] # mGeneration
  PROVE  /\ \A u \in Threads : pc[u] \notin Last
         /\ mCount = Cardinality(CountedNow) /\ mCount < mLimit
         /\ t \notin CountedNow
<1>1. \A u \in Threads : pc[u] \notin Last
  BY DEF Inv, RoundsFollowGeneration, OthersWait, Waiting, Last
<1>2. t \notin CountedNow
  BY DEF CountedNow, Waiting, Last
<1> QED BY <1>1, <1>2 DEF Inv, CountIsExact

\* A step of one thread that counts nothing, releases nobody and leaves the last
\* caller where it is.
LEMMA UncountedStep ==
  ASSUME Inv, TypeOK', RoundsFollowGeneration',
         UNCHANGED <<mCount, mGeneration>>,
         CountedNow' = CountedNow,
         \A u \in Threads : pc[u] \notin Last /\ pc'[u] \notin Last
  PROVE  Inv'
BY DEF Inv, OthersWait, CountIsExact, Last, mLimit

LEMMA LoadGenerationInv ==
  ASSUME Inv, NEW t \in Threads, LoadGeneration(t), UNCHANGED mUseCondition
  PROVE  Inv'
<1>1. /\ pc[t] = "out" /\ pc' = [pc EXCEPT ![t] = "fetch"]
      /\ gen' = [gen EXCEPT ![t] = mGeneration]
      /\ UNCHANGED <<mUseCondition, mCount, mGeneration, rounds>>
  BY DEF LoadGeneration, Goto
<1>2. TypeOK'
  BY <1>1 DEF Inv, TypeOK, Locations
<1>3. RoundsFollowGeneration'
  BY <1>1 DEF Inv, TypeOK, RoundsFollowGeneration, Waiting, Last
<1>4. CountedNow' = CountedNow
  BY <1>1 DEF Inv, TypeOK, CountedNow, Waiting, Last
<1>5. \A u \in Threads : pc[u] \notin Last /\ pc'[u] \notin Last
  BY <1>1, NobodyLast DEF Inv, TypeOK, Last
<1> QED BY <1>1, <1>2, <1>3, <1>4, <1>5, UncountedStep

\* The last of fetch_add() makes everybody else a waiter of this generation.
LEMMA FetchAddInv ==
  ASSUME Inv, NEW t \in Threads, FetchAdd(t), UNCHANGED mUseCondition
  PROVE  Inv'
<1>1. /\ pc[t] = "fetch" /\ mCount' = mCount + 1
      /\ pc' = [pc EXCEPT ![t] = IF mCount = mLimit - 1 THEN "reset" ELSE "spin"]
      /\ UNCHANGED <<mUseCondition, mGeneration, gen, rounds>>
  BY DEF FetchAdd, Goto
<1>2. /\ \A u \in Threads : pc[u] \notin Last
      /\ mCount = Cardinality(CountedNow) /\ t \notin CountedNow
  BY <1>1, NobodyLast
<1>3. rounds[t] = mGeneration /\ gen[t] = mGeneration
  BY <1>1 DEF Inv, RoundsFollowGeneration
<1>4. CountedNow' = CountedNow \cup {t}
  BY <1>1, <1>3 DEF Inv, TypeOK, CountedNow, Waiting, Last
<1>5. CountedNow \in SUBSET Threads
  BY DEF CountedNow
<1>6. /\ Cardinality(CountedNow) \in Nat
      /\ Cardinality(CountedNow') = Cardinality(CountedNow) + 1
      /\ Cardinality(CountedNow) + 1 <= mLimit
      /\ Cardinality(CountedNow) + 1 = mLimit => CountedNow' = Threads
  BY <1>2, <1>4, <1>5, OneMore
<1>7. TypeOK'
  BY <1>1 DEF Inv, TypeOK, Locations
<1>8. RoundsFollowGeneration'
  BY <1>1, <1>3 DEF Inv, TypeOK, RoundsFollowGeneration, Waiting, Last
<1>9. mLimit' = mLimit /\ mLimit \in Nat
  BY LimitType DEF mLimit
<1>10. CASE mCount = mLimit - 1
  <2>1. \A u \in Threads \ {t} : pc[u] \in Waiting /\ rounds[u] = mGeneration
    <3>1. CountedNow \cup {t} = Threads
      BY <1>2, <1>4, <1>6, <1>9, <1>10
    <3> QED BY <1>2, <3>1 DEF CountedNow
  <2>2. \A u \in Threads \ {t} : pc'[u] \in Waiting /\ rounds'[u] = mGeneration'
    BY <1>1, <2>1 DEF Inv, TypeOK
  <2>3. pc'[t] = "reset"
    BY <1>1, <1>10 DEF Inv, TypeOK
  <2>4. OthersWait'
    BY <2>2, <2>3 DEF OthersWait, Waiting, Last
  <2>5. CountIsExact'
    BY <2>2, <2>3 DEF CountIsExact, Waiting, Last
  <2> QED BY <1>7, <1>8, <2>4, <2>5 DEF Inv
<1>11. CASE mCount # mLimit - 1
  <2>1. \A u \in Threads : pc'[u] \notin Last
    BY <1>1, <1>2, <1>11 DEF Inv, TypeOK, Last
  <2>2. mCount' = Cardinality(CountedNow') /\ mCount' < mLimit
    BY <1>1, <1>2, <1>6, <1>9, <1>11
  <2> QED BY <1>7, <1>8, <1>9, <2>1, <2>2 DEF Inv, OthersWait, CountIsExact, Last
<1> QED BY <1>10, <1>11

LEMMA ResetCountInv ==
  ASSUME Inv, NEW t \in Threads, ResetCount(t), UNCHANGED mUseCondition
  PROVE  Inv'
<1>1. /\ pc[t] = "reset" /\ mCount' = 0
      /\ pc' = [pc EXCEPT ![t] = "release"]
      /\ UNCHANGED <<mUseCondition, mGeneration, gen, rounds>>
  BY DEF ResetCount, Goto
<1>2. TypeOK'
  BY <1>1 DEF Inv, TypeOK, Locations
<1>3. RoundsFollowGeneration'
  BY <1>1 DEF Inv, TypeOK, RoundsFollowGeneration, Waiting, Last
<1>4. \A u \in Threads \ {t} : pc'[u] \in Waiting /\ rounds'[u] = mGeneration'
  BY <1>1 DEF Inv, TypeOK, OthersWait, Last
<1>5. pc'[t] = "release"
  BY <1>1 DEF Inv, TypeOK
<1>6. OthersWait' /\ CountIsExact'
  BY <1>1, <1>4, <1>5 DEF OthersWait, CountIsExact, Waiting, Last
<1> QED BY <1>2, <1>3, <1>6 DEF Inv

\* A new generation begins with nobody counted.
LEMMA NewGeneration ==
  ASSUME Inv, NEW t \in Threads, TypeOK', mCount' = 0,
         mGeneration' = mGeneration + 1,
         \A u \in Threads \ {t} : /\ pc'[u] = pc[u] /\ pc[u] \in Waiting
                                  /\ gen'[u] = gen[u]
                                  /\ rounds'[u] = rounds[u] /\ rounds[u] = mGeneration,
         \/ pc'[t] = "out" /\ rounds'[t] = mGeneration'
         \/ pc'[t] = "notify" /\ rounds'[t] = mGeneration
  PROVE  Inv'
<1>1. RoundsFollowGeneration'
  BY DEF Inv, TypeOK, RoundsFollowGeneration, Waiting, Last
<1>2. \A u \in Threads : pc'[u] \notin Last
  BY DEF Waiting, Last
<1>3. CountedNow' = {}
  BY DEF Inv, TypeOK, CountedNow, Waiting, Last
<1>4. CountIsExact'
  BY <1>2, <1>3, LimitType, FS_EmptySet DEF CountIsExact, Last, mLimit
<1> QED BY <1>1, <1>2, <1>4 DEF Inv, OthersWait

LEMMA ReleaseInv ==
  ASSUME Inv, NEW t \in Threads, Release(t), UNCHANGED mUseCondition
  PROVE  Inv'
<1>1. /\ pc[t] = "release" /\ mGeneration' = mGeneration + 1
      /\ pc' = [pc EXCEPT ![t] = "out"] /\ rounds' = [rounds EXCEPT ![t] = @ + 1]
      /\ UNCHANGED <<mUseCondition, mCount, gen>>
  BY DEF Release, Return, Goto
<1>2. TypeOK'
  BY <1>1 DEF Inv, TypeOK, Locations
<1>3. mCount' = 0
  BY <1>1 DEF Inv, CountIsExact
<1>4. \A u \in Threads \ {t} : pc[u] \in Waiting /\ rounds[u] = mGeneration
  BY <1>1 DEF Inv, OthersWait, Last
<1>5. pc'[t] = "out" /\ rounds'[t] = mGeneration'
  BY <1>1 DEF Inv, TypeOK, RoundsFollowGeneration, Last
<1>6. \A u \in Threads \ {t} : /\ pc'[u] = pc[u] /\ gen'[u] = gen[u]
                               /\ rounds'[u] = rounds[u]
  BY <1>1 DEF Inv, TypeOK
<1> QED BY <1>1, <1>2, <1>3, <1>4, <1>5, <1>6, NewGeneration

\* A waiter that has noticed its release, and the last caller after
\* notify_all(), return into the present generation.
LEMMA ReturnInv ==
  ASSUME Inv, NEW t \in Threads, TypeOK', UNCHANGED <<mCount, mGeneration, gen>>,
         rounds[t] + 1 = mGeneration, rounds' = [rounds EXCEPT ![t] = @ + 1],
         pc'[t] = "out",
         \A u \in Threads \ {t} : pc'[u] = pc[u] \/ {pc[u], pc'[u]} \subseteq Waiting
  PROVE  Inv'
<1>1. rounds'[t] = mGeneration /\ rounds[t] # mGeneration
  BY DEF Inv, TypeOK
<1>2. \A u \in Threads \ {t} : rounds'[u] = rounds[u]
  BY DEF Inv, TypeOK
<1>3. RoundsFollowGeneration'
  BY <1>1, <1>2 DEF Inv, RoundsFollowGeneration, Waiting, Last
<1>4. \A u \in Threads : pc[u] \notin Last /\ pc'[u] \notin Last
  BY <1>1, NobodyLast DEF Waiting, Last
<1>5. CountedNow' = CountedNow
  BY <1>1, <1>2 DEF CountedNow, Waiting, Last
<1> QED BY <1>3, <1>4, <1>5, UncountedStep

LEMMA SpinInv ==
  ASSUME Inv, NEW t \in Threads, Spin(t), UNCHANGED mUseCondition
  PROVE  Inv'
<1>1. /\ pc[t] = "spin" /\ mGeneration # gen[t]
      /\ pc' = [pc EXCEPT ![t] = "out"] /\ rounds' = [rounds EXCEPT ![t] = @ + 1]
      /\ UNCHANGED <<mUseCondition, mCount, mGeneration, gen>>
  BY DEF Spin, Return, Goto
<1>2. TypeOK'
  BY <1>1 DEF Inv, TypeOK, Locations
<1>3. rounds[t] + 1 = mGeneration
  BY <1>1 DEF Inv, RoundsFollowGeneration, Waiting
<1>4. pc'[t] = "out" /\ \A u \in Threads \ {t} : pc'[u] = pc[u]
  BY <1>1 DEF Inv, TypeOK
<1> QED BY <1>1, <1>2, <1>3, <1>4, ReturnInv

LEMMA WaitLockedInv ==
  ASSUME Inv, NEW t \in Threads, WaitLocked(t), UNCHANGED mUseCondition
  PROVE  Inv'
<1>1. /\ pc[t] = "out" /\ gen' = [gen EXCEPT ![t] = mGeneration]
      /\ UNCHANGED <<mUseCondition, rounds>>
      /\ LastCaller(t) \/ EarlierCaller(t)
  BY DEF WaitLocked
<1>2. /\ \A u \in Threads : pc[u] \notin Last
      /\ mCount = Cardinality(CountedNow) /\ t \notin CountedNow
  BY <1>1, NobodyLast
<1>3. rounds[t] = mGeneration
  BY <1>1 DEF Inv, RoundsFollowGeneration
<1>4. CountedNow \in SUBSET Threads
  BY DEF CountedNow
<1>5. /\ Cardinality(CountedNow) \in Nat
      /\ Cardinality(CountedNow \cup {t}) = Cardinality(CountedNow) + 1
      /\ Cardinality(CountedNow) + 1 <= mLimit
      /\ Cardinality(CountedNow) + 1 = mLimit => CountedNow \cup {t} = Threads
  BY <1>2, <1>4, OneMore
<1>6. CASE LastCaller(t)
  <2>1. /\ mCount + 1 = mLimit /\ mCount' = 0 /\ mGeneration' = mGeneration + 1
        /\ pc' = [pc EXCEPT ![t] = "notify"]
    BY <1>6 DEF LastCaller, Goto
  <2>2. TypeOK'
    BY <1>1, <2>1 DEF Inv, TypeOK, Locations
  <2>3. \A u \in Threads \ {t} : pc[u] \in Waiting /\ rounds[u] = mGeneration
    BY <1>2, <1>5, <2>1 DEF CountedNow
  <2>4. \A u \in Threads \ {t} : /\ pc'[u] = pc[u] /\ gen'[u] = gen[u]
                                 /\ rounds'[u] = rounds[u]
    BY <1>1, <2>1 DEF Inv, TypeOK
  <2>5. pc'[t] = "notify" /\ rounds'[t] = mGeneration
    BY <1>1, <1>3, <2>1 DEF Inv, TypeOK
  <2> QED BY <2>1, <2>2, <2>3, <2>4, <2>5, NewGeneration
<1>7. CASE EarlierCaller(t)
  <2>1. /\ mCount + 1 # mLimit /\ mCount' = mCount + 1 /\ mGeneration' = mGeneration
        /\ pc' = [pc EXCEPT ![t] = "blocked"]
    BY <1>7 DEF EarlierCaller, Goto
  <2>2. TypeOK'
    BY <1>1, <2>1 DEF Inv, TypeOK, Locations
  <2>3. RoundsFollowGeneration'
    BY <1>1, <1>3, <2>1 DEF Inv, TypeOK, RoundsFollowGeneration, Waiting, Last
  <2>4. CountedNow' = CountedNow \cup {t}
    BY <1>1, <1>3, <2>1 DEF Inv, TypeOK, CountedNow, Waiting, Last
  <2>5. \A u \in Threads : pc'[u] \notin Last
    BY <1>2, <2>1 DEF Inv, TypeOK, Last
  <2>6. mLimit' = mLimit /\ mLimit \in Nat
    BY LimitType DEF mLimit
  <2>7. mCount' = Cardinality(CountedNow') /\ mCount' < mLimit
    BY <1>2, <1>5, <2>1, <2>4, <2>6
  <2> QED BY <2>2, <2>3, <2>5, <2>6, <2>7 DEF Inv, OthersWait, CountIsExact, Last
<1> QED BY <1>1, <1>6, <1>7

LEMMA NotifyAllInv ==
  ASSUME Inv, NEW t \in Threads, NotifyAll(t), UNCHANGED mUseCondition
  PROVE  Inv'
<1>1. /\ pc[t] = "notify"
      /\ pc' = [u \in Threads |-> IF u = t THEN "out"
                                  ELSE IF pc[u] = "blocked" THEN "woken" ELSE pc[u]]
      /\ rounds' = [rounds EXCEPT ![t] = @ + 1]
      /\ UNCHANGED <<mUseCondition, mCount, mGeneration, gen>>
  BY DEF NotifyAll
<1>2. TypeOK'
  BY <1>1 DEF Inv, TypeOK, Locations
<1>3. rounds[t] + 1 = mGeneration
  BY <1>1 DEF Inv, RoundsFollowGeneration
<1>4. pc'[t] = "out"
  BY <1>1
<1>5. \A u \in Threads \ {t} : pc'[u] = pc[u] \/ {pc[u], pc'[u]} \subseteq Waiting
  BY <1>1 DEF Waiting
<1> QED BY <1>1, <1>2, <1>3, <1>4, <1>5, ReturnInv

\* A wakeup and a vain look at the generation change nothing that counts.
LEMMA WaitingInv ==
  ASSUME Inv, NEW t \in Threads, NEW to \in Waiting, pc[t] \in Waiting, Goto(t, to),
         UNCHANGED <<mUseCondition, mCount, mGeneration, gen, rounds>>
  PROVE  Inv'
<1>1. pc' = [pc EXCEPT ![t] = to]
  BY DEF Goto
<1>2. TypeOK'
  BY <1>1 DEF Inv, TypeOK, Locations, Waiting
<1>3. RoundsFollowGeneration'
  BY <1>1 DEF Inv, TypeOK, RoundsFollowGeneration, Waiting, Last
<1>4. CountedNow' = CountedNow
  BY <1>1 DEF Inv, TypeOK, CountedNow, Waiting, Last
<1>5. OthersWait'
  BY <1>1 DEF Inv, TypeOK, OthersWait, Waiting, Last
<1>6. CountIsExact'
  BY <1>1, <1>4 DEF Inv, TypeOK, CountIsExact, Waiting, Last, mLimit
<1> QED BY <1>2, <1>3, <1>5, <1>6 DEF Inv

LEMMA RecheckInv ==
  ASSUME Inv, NEW t \in Threads, Recheck(t), UNCHANGED mUseCondition
  PROVE  Inv'
<1>1. pc[t] = "woken" /\ UNCHANGED <<mUseCondition, mCount, mGeneration, gen>>
  BY DEF Recheck
<1>2. CASE gen[t] = mGeneration /\ Goto(t, "blocked") /\ UNCHANGED rounds
  BY <1>1, <1>2, WaitingInv DEF Waiting
<1>3. CASE gen[t] # mGeneration /\ Return(t)
  <2>1. pc' = [pc EXCEPT ![t] = "out"] /\ rounds' = [rounds EXCEPT ![t] = @ + 1]
    BY <1>3 DEF Return, Goto
  <2>2. TypeOK'
    BY <1>1, <2>1 DEF Inv, TypeOK, Locations
  <2>3. rounds[t] + 1 = mGeneration
    BY <1>1, <1>3 DEF Inv, RoundsFollowGeneration, Waiting
  <2>4. pc'[t] = "out" /\ \A u \in Threads \ {t} : pc'[u] = pc[u]
    BY <2>1 DEF Inv, TypeOK
  <2> QED BY <1>1, <2>1, <2>2, <2>3, <2>4, ReturnInv
<1> QED BY <1>2, <1>3 DEF Recheck

LEMMA NextInv == Inv /\ [Next]_vars => Inv'
<1> SUFFICES ASSUME Inv, [Next]_vars PROVE Inv'
  OBVIOUS
<1>1. ASSUME NEW t \in Threads, Step(t) PROVE Inv'
  BY <1>1, LoadGenerationInv, FetchAddInv, ResetCountInv, ReleaseInv, SpinInv,
     WaitLockedInv, NotifyAllInv, RecheckInv DEF Step, SpinStep, ConditionStep
<1>2. ASSUME NEW t \in Threads, SpuriousWakeup(t), UNCHANGED mUseCondition PROVE Inv'
  BY <1>2, WaitingInv DEF SpuriousWakeup, Waiting
<1>3. CASE UNCHANGED vars
  BY <1>3 DEF vars, Inv, TypeOK, RoundsFollowGeneration, OthersWait, CountIsExact,
     CountedNow, mLimit
<1> QED BY <1>1, <1>2, <1>3 DEF Next, Done

(***************************************************************************)
(* The count, the generation number and the locals of the callers agree in *)
(* every interleaving.                                                     *)
(***************************************************************************)
THEOREM Invariance == Spec => []Inv
BY InitInv, NextInv, PTL DEF Spec

-----------------------------------------------------------------------------
(* The refinement of BarrierSpec.                                          *)

Arrived == [t \in Threads |-> rounds[t] + (IF pc[t] \in Counted THEN 1 ELSE 0)]

\* A call is counted: the thread arrives.
LEMMA Arrives ==
  ASSUME Inv, NEW t \in Threads, pc[t] \notin Counted, pc'[t] \in Counted,
         \A u \in Threads \ {t} : pc'[u] = pc[u], UNCHANGED rounds
  PROVE  Contract!Arrive(t)
<1>1. Arrived[t] = rounds[t] /\ Arrived'[t] = rounds[t] + 1
  BY DEF Arrived, Inv, TypeOK
<1>2. \A u \in Threads \ {t} : Arrived'[u] = Arrived[u]
  BY DEF Arrived
<1>3. Arrived' = [Arrived EXCEPT ![t] = @ + 1]
  BY <1>1, <1>2 DEF Arrived
<1> QED BY <1>1, <1>3 DEF Contract!Arrive, Arrived

\* A call returns: everybody has been counted in its generation.
LEMMA Departs ==
  ASSUME Inv, NEW t \in Threads, pc[t] \in Counted, pc'[t] \notin Counted,
         \A u \in Threads \ {t} : pc'[u] \in Counted <=> pc[u] \in Counted,
         rounds' = [rounds EXCEPT ![t] = @ + 1],
         rounds[t] + 1 = mGeneration \/ pc[t] \in Last
  PROVE  Contract!Depart(t)
<1>1. Arrived[t] = rounds[t] + 1 /\ Arrived'[t] = rounds[t] + 1
  BY DEF Arrived, Inv, TypeOK
<1>2. \A u \in Threads \ {t} : Arrived'[u] = Arrived[u]
  BY DEF Arrived, Inv, TypeOK
<1>3. Arrived' = Arrived
  BY <1>1, <1>2 DEF Arrived
<1>4. \A u \in Threads : Arrived[u] >= Arrived[t]
  <2> SUFFICES ASSUME NEW u \in Threads PROVE Arrived[u] >= rounds[t] + 1
    BY <1>1
  <2>1. rounds[u] \in Nat /\ rounds[t] \in Nat /\ mGeneration \in Nat
    BY DEF Inv, TypeOK
  <2>2. Arrived[u] = rounds[u] + (IF pc[u] \in Counted THEN 1 ELSE 0)
    BY DEF Arrived
  <2>3. CASE pc[t] \in Last
    <3>1. rounds[t] = mGeneration
      BY <2>3 DEF Inv, RoundsFollowGeneration
    <3>2. u # t => pc[u] \in Waiting /\ rounds[u] = mGeneration
      BY <2>3 DEF Inv, OthersWait
    <3> QED BY <2>1, <2>2, <3>1, <3>2 DEF Waiting, Counted
  <2>4. CASE rounds[t] + 1 = mGeneration
    <3>1. pc[u] \in {"out", "fetch", "notify"} \cup Waiting \cup Last
      BY DEF Inv, TypeOK, Locations, Waiting, Last
    <3>2. CASE pc[u] \in {"out", "fetch"} \cup Last
      BY <2>1, <2>2, <2>4, <3>2 DEF Inv, RoundsFollowGeneration
    <3>3. CASE pc[u] \in Waiting \cup {"notify"}
      <4>1. rounds[u] = mGeneration \/ rounds[u] + 1 = mGeneration
        BY <3>3 DEF Inv, RoundsFollowGeneration
      <4>2. pc[u] \in Counted
        BY <3>3 DEF Waiting, Counted
      <4> QED BY <2>1, <2>2, <2>4, <4>1, <4>2
    <3> QED BY <3>1, <3>2, <3>3
  <2> QED BY <2>3, <2>4
<1> QED BY <1>1, <1>3, <1>4 DEF Contract!Depart, Arrived

\* A step that counts nobody and lets nobody return.
LEMMA Stutters ==
  ASSUME \A u \in Threads : pc'[u] \in Counted <=> pc[u] \in Counted, UNCHANGED rounds
  PROVE  UNCHANGED Contract!barrierVars
BY DEF Contract!barrierVars

LEMMA StepRefines == Inv /\ [Next]_vars => [Contract!Next]_(Contract!barrierVars)
<1> SUFFICES ASSUME Inv, [Next]_vars
             PROVE  \/ \E t \in Threads : Contract!Arrive(t) \/ Contract!Depart(t)
                    \/ UNCHANGED Contract!barrierVars
  BY DEF Contract!Next
<1> USE DEF Goto, Return
<1>0. pc \in [Threads -> Locations]
  BY DEF Inv, TypeOK
<1>1. ASSUME NEW t \in Threads, LoadGeneration(t) PROVE UNCHANGED Contract!barrierVars
  BY <1>0, <1>1, Stutters DEF LoadGeneration, Counted
<1>2. ASSUME NEW t \in Threads, FetchAdd(t) PROVE Contract!Arrive(t)
  BY <1>0, <1>2, Arrives DEF FetchAdd, Counted
<1>3. ASSUME NEW t \in Threads, ResetCount(t) PROVE UNCHANGED Contract!barrierVars
  BY <1>0, <1>3, Stutters DEF ResetCount, Counted
<1>4. ASSUME NEW t \in Threads, Release(t) PROVE Contract!Depart(t)
  BY <1>0, <1>4, Departs DEF Release, Counted, Last
<1>5. ASSUME NEW t \in Threads, Spin(t) PROVE Contract!Depart(t)
  <2>1. rounds[t] + 1 = mGeneration
    BY <1>5 DEF Spin, Inv, RoundsFollowGeneration, Waiting
  <2> QED BY <1>0, <1>5, <2>1, Departs DEF Spin, Counted
<1>6. ASSUME NEW t \in Threads, WaitLocked(t) PROVE Contract!Arrive(t)
  BY <1>0, <1>6, Arrives DEF WaitLocked, LastCaller, EarlierCaller, Counted
<1>7. ASSUME NEW t \in Threads, NotifyAll(t) PROVE Contract!Depart(t)
  <2>1. rounds[t] + 1 = mGeneration
    BY <1>7 DEF NotifyAll, Inv, RoundsFollowGeneration
  <2> QED BY <1>0, <1>7, <2>1, Departs DEF NotifyAll, Counted
<1>8. ASSUME NEW t \in Threads, Recheck(t)
      PROVE  Contract!Depart(t) \/ UNCHANGED Contract!barrierVars
  <2>1. CASE gen[t] = mGeneration /\ Goto(t, "blocked") /\ UNCHANGED rounds
    BY <1>0, <1>8, <2>1, Stutters DEF Recheck, Counted
  <2>2. CASE gen[t] # mGeneration /\ Return(t)
    <3>1. rounds[t] + 1 = mGeneration
      BY <1>8, <2>2 DEF Recheck, Inv, RoundsFollowGeneration, Waiting
    <3> QED BY <1>0, <1>8, <2>2, <3>1, Departs DEF Recheck, Counted
  <2> QED BY <1>8, <2>1, <2>2 DEF Recheck
<1>9. ASSUME NEW t \in Threads, SpuriousWakeup(t) PROVE UNCHANGED Contract!barrierVars
  BY <1>0, <1>9, Stutters DEF SpuriousWakeup, Counted
<1>10. CASE UNCHANGED vars
  BY <1>10, Stutters DEF vars
<1> QED BY <1>1, <1>2, <1>3, <1>4, <1>5, <1>6, <1>7, <1>8, <1>9, <1>10
        DEF Next, Step, SpinStep, ConditionStep, Done

(***************************************************************************)
(* wait() keeps its promise: no call returns before every thread has made  *)
(* its call of the same generation.                                        *)
(***************************************************************************)
THEOREM Refinement == Spec => ContractSpec
<1>1. Init => Contract!Init
  BY DEF Init, Contract!Init, Counted
<1> QED BY <1>1, StepRefines, Invariance, PTL DEF Spec, ContractSpec, Contract!Spec
=============================================================================
