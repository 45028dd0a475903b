-------------------------- MODULE PowerFlow_proofs --------------------------
(***************************************************************************)
(* Theorems about PowerFlow, for every number of nodes, every system,      *)
(* every network (Solution is any operator, and only Reuse asks something  *)
(* of it), all limits, loads and iteration bounds.                         *)
(*                                                                         *)
(* The inductive invariant Inv describes the bus lists by the original     *)
(* ones and the pinned buses, and keeps what the last look at the limits   *)
(* has found until the task is over.  ReuseInv adds that every answer is   *)
(* where the rounds of the outer loop lead from its load alone.  The zones *)
(* of the union-find forest are shown to be the connected parts of the     *)
(* lines, for any list of components.                                      *)
(***************************************************************************)
EXTENDS PowerFlow, WellFoundedInduction, TLAPS

OriginalsPartition ==
  /\ mPQBusesOrig \cup mPVBusesOrig \cup mVDBuses = Nodes
  /\ mPQBusesOrig \cap mPVBusesOrig = {}
  /\ mVDBuses \cap (mPQBusesOrig \cup mPVBusesOrig) = {}

ListsFollowPinned ==
  /\ Initialized => OriginalsPartition
  /\ Initialized => mPQBuses = mPQBusesOrig \cup Pinned
  /\ Initialized => mPVBuses = mPVBusesOrig \ Pinned
  /\ Pinned \subseteq mPVBusesOrig
  /\ ~Initialized => Pinned = {}

IndicesFollowLists ==
  Initialized => mPQBusIndices = mPQBuses /\ mPVBusIndices = mPVBuses

PinnedHasLimit ==
  \A n \in Pinned : /\ mQLimitConvertedAtMax[n] = "max" => limits[n].max # NoLimit
                    /\ mQLimitConvertedAtMax[n] = "min" => limits[n].min # NoLimit

SettledKnown ==
  /\ settled => ToPQ \cup ToPV = {}
  /\ pc \in {"newton", "limits"} => ~settled
  /\ pc = "limits" => isConverged
  /\ pc = "created" => ~isConverged /\ ~settled
  /\ (pc = "idle" /\ isConverged /\ mEnforceReactiveLimits) => settled

NothingPinnedUnlessEnforced ==
  /\ ~mEnforceReactiveLimits => Pinned = {}
  /\ pc = "limits" => mEnforceReactiveLimits

Inv == /\ TypeOK /\ ListsFollowPinned /\ IndicesFollowLists /\ PinnedAtLimit
       /\ PinnedHasLimit /\ SwitchesBounded /\ SettledKnown
       /\ NothingPinnedUnlessEnforced

-----------------------------------------------------------------------------
(* The invariant holds at the start and after every action.                *)

\* Before initialize() there are no buses and nothing has been solved.
LEMMA InitInv == Init => Inv
<1> SUFFICES ASSUME Init PROVE Inv
  OBVIOUS
<1>1. TypeOK
  <2>1. load \in [Nodes -> Int] /\ mQLimitConvertedAtMax \in [Nodes -> {"no", "max", "min"}]
        /\ mQLimitSwitchCount \in [Nodes -> Nat] /\ solves \in 0..MaxSolves
    BY PowerFlowAssumption DEF Init
  <2>2. \A B \in {mPQBuses, mPVBuses, mVDBuses, mPQBusesOrig, mPVBusesOrig,
                  mPQBusIndices, mPVBusIndices} : B \subseteq Nodes
    BY DEF Init
  <2> QED
    BY <2>1, <2>2 DEF Init, TypeOK
<1>2. Pinned = {}
  BY DEF Init, Pinned
<1>3. ListsFollowPinned /\ IndicesFollowLists /\ NothingPinnedUnlessEnforced
  BY <1>2 DEF Init, ListsFollowPinned, IndicesFollowLists, NothingPinnedUnlessEnforced, Initialized
<1>4. PinnedAtLimit /\ PinnedHasLimit /\ SettledKnown
  BY <1>2 DEF Init, PinnedAtLimit, PinnedHasLimit, SettledKnown
<1>5. SwitchesBounded
  BY PowerFlowAssumption DEF Init, SwitchesBounded
<1> QED
  BY <1>1, <1>3, <1>4, <1>5 DEF Inv

\* determinePFBusType() puts every node into exactly one list.
LEMMA TypesPartition ==
  ASSUME NEW cs
  PROVE  /\ BusesOfType(cs, "PQ") \cup BusesOfType(cs, "PV") \cup BusesOfType(cs, "VD") = Nodes
         /\ BusesOfType(cs, "PQ") \cap BusesOfType(cs, "PV") = {}
         /\ BusesOfType(cs, "VD") \cap (BusesOfType(cs, "PQ") \cup BusesOfType(cs, "PV")) = {}
BY DEF BusesOfType, BusType

\* initialize() establishes the lists; nothing is pinned.
LEMMA InitializeInv == Inv /\ Initialize => Inv'
<1> SUFFICES ASSUME Inv, Initialize PROVE Inv'
  OBVIOUS
<1> USE DEF settings, switching, results
<1>1. TypeOK'
  BY DEF Inv, Initialize, TypeOK, BusesOfType
<1>2. Pinned = {} /\ Pinned' = {}
  BY DEF Inv, Initialize, ListsFollowPinned, Initialized, Pinned
<1>3. OriginalsPartition'
  BY TypesPartition DEF Initialize, OriginalsPartition
<1>4. ListsFollowPinned' /\ IndicesFollowLists'
  BY <1>2, <1>3 DEF Initialize, ListsFollowPinned, IndicesFollowLists
<1>5. PinnedAtLimit' /\ PinnedHasLimit'
  BY <1>2 DEF PinnedAtLimit, PinnedHasLimit
<1>6. SwitchesBounded'
  BY DEF Inv, Initialize, SwitchesBounded
<1>7. ~settled /\ ~isConverged /\ UNCHANGED <<settled, isConverged>> /\ pc' \in {"rejected", "idle"}
  <2>1. ~isConverged /\ UNCHANGED <<settled, isConverged>> /\ pc' \in {"rejected", "idle"}
    BY DEF Inv, Initialize, SettledKnown
  <2>2. ~settled
    BY DEF Inv, Initialize, SettledKnown
  <2> QED
    BY <2>1, <2>2
<1>8. SettledKnown'
  BY <1>7 DEF SettledKnown
<1>9. NothingPinnedUnlessEnforced'
  BY <1>2, <1>7 DEF NothingPinnedUnlessEnforced
<1> QED
  BY <1>1, <1>4, <1>5, <1>6, <1>8, <1>9 DEF Inv

\* A new solve starts from the original lists, or from lists that were never
\* changed.
LEMMA GenerateInitialSolutionInv == Inv /\ GenerateInitialSolution => Inv'
<1> SUFFICES ASSUME Inv, GenerateInitialSolution PROVE Inv'
  OBVIOUS
<1> USE DEF settings, originals, results
<1>0. Initialized /\ Initialized'
  BY DEF GenerateInitialSolution, Initialized
<1>1. TypeOK'
  <2>1. load' \in [Nodes -> Int] /\ solves' \in 0..MaxSolves
    BY PowerFlowAssumption DEF Inv, TypeOK, GenerateInitialSolution
  <2>2. /\ mQLimitConvertedAtMax' \in [Nodes -> {"no", "max", "min"}]
        /\ mQLimitSwitchCount' \in [Nodes -> Nat]
    BY DEF Inv, TypeOK, GenerateInitialSolution, Restarted, ClearedSwitchCount
  <2>3. \A B \in {mPQBuses', mPVBuses', mPQBusIndices', mPVBusIndices'} : B \subseteq Nodes
    BY DEF Inv, TypeOK, GenerateInitialSolution, Restarted, StartPQBuses, StartPVBuses
  <2> QED
    BY <2>1, <2>2, <2>3 DEF Inv, GenerateInitialSolution, TypeOK
<1>2. Pinned' = {} \/ (~mEnforceReactiveLimits /\ Pinned' = Pinned)
  BY DEF GenerateInitialSolution, Restarted, Pinned
<1>3. CASE mEnforceReactiveLimits
  <2>1. Pinned' = {}
    BY <1>2, <1>3
  <2>2. ListsFollowPinned' /\ IndicesFollowLists'
    BY <2>1, <1>0, <1>3 DEF Inv, GenerateInitialSolution, ListsFollowPinned, OriginalsPartition,
       IndicesFollowLists, StartPQBuses, StartPVBuses, Restarted
  <2>3. PinnedAtLimit' /\ PinnedHasLimit'
    BY <2>1 DEF PinnedAtLimit, PinnedHasLimit
  <2>4. SwitchesBounded'
    BY <1>3, PowerFlowAssumption DEF GenerateInitialSolution, SwitchesBounded, ClearedSwitchCount, Restarted
  <2>5. SettledKnown'
    BY DEF GenerateInitialSolution, SettledKnown
  <2> QED
    BY <1>1, <2>1, <2>2, <2>3, <2>4, <2>5 DEF Inv, NothingPinnedUnlessEnforced,
       GenerateInitialSolution
<1>4. CASE ~mEnforceReactiveLimits
  <2>1. Pinned = {} /\ Pinned' = {}
    BY <1>2, <1>4 DEF Inv, NothingPinnedUnlessEnforced
  <2>2. ListsFollowPinned' /\ IndicesFollowLists'
    BY <2>1, <1>0, <1>4 DEF Inv, GenerateInitialSolution, ListsFollowPinned, OriginalsPartition,
       IndicesFollowLists, StartPQBuses, StartPVBuses, Restarted
  <2>3. PinnedAtLimit' /\ PinnedHasLimit'
    BY <2>1 DEF PinnedAtLimit, PinnedHasLimit
  <2>4. SwitchesBounded'
    BY <1>4 DEF GenerateInitialSolution, SwitchesBounded
  <2>5. SettledKnown'
    BY DEF GenerateInitialSolution, SettledKnown
  <2> QED
    BY <1>1, <2>1, <2>2, <2>3, <2>4, <2>5 DEF Inv, NothingPinnedUnlessEnforced,
       GenerateInitialSolution
<1> QED
  BY <1>3, <1>4

\* The iteration moves no bus.
LEMMA NewtonRaphsonInv == Inv /\ NewtonRaphson => Inv'
<1> SUFFICES ASSUME Inv, NewtonRaphson PROVE Inv'
  OBVIOUS
<1> USE DEF settings, originals, classes, indices, switching, results
<1>0. Initialized /\ Initialized'
  BY DEF NewtonRaphson, Initialized
<1>1. TypeOK'
  BY DEF Inv, NewtonRaphson, TypeOK
<1>2. Pinned' = Pinned
  BY DEF NewtonRaphson, Pinned
<1>3. ListsFollowPinned' /\ IndicesFollowLists'
  BY <1>0, <1>2 DEF Inv, NewtonRaphson, ListsFollowPinned, OriginalsPartition, IndicesFollowLists
<1>4. PinnedAtLimit' /\ PinnedHasLimit' /\ SwitchesBounded' /\ NothingPinnedUnlessEnforced'
  BY <1>2 DEF Inv, NewtonRaphson, PinnedAtLimit, PinnedHasLimit, SwitchesBounded,
     NothingPinnedUnlessEnforced
<1>5. ~settled'
  BY DEF Inv, NewtonRaphson, SettledKnown
<1>6. SettledKnown'
  BY <1>5 DEF NewtonRaphson, SettledKnown
<1> QED
  BY <1>1, <1>3, <1>4, <1>6 DEF Inv

\* A bus above its maximum or below its minimum has that limit.
LEMMA BeyondLimit ==
  ASSUME Inv, NEW n \in Nodes, AboveMax(n) \/ BelowMin(n)
  PROVE  /\ AboveMax(n) => limits[n].max # NoLimit /\ PinnedInjection(n) + load[n] = limits[n].max
         /\ ~AboveMax(n) => limits[n].min # NoLimit /\ PinnedInjection(n) + load[n] = limits[n].min
<1>1. limits[n] \in Limits /\ load[n] \in Int
  BY DEF Inv, TypeOK
<1>2. {limits[n].max, limits[n].min} \subseteq Int \cup {NoLimit}
  BY <1>1, PowerFlowAssumption
<1> QED
  BY <1>1, <1>2 DEF AboveMax, BelowMin, PinnedInjection

\* One pass over the buses: those that switch leave one list for the other and
\* the record follows.
LEMMA EnforceReactiveLimitsInv == Inv /\ EnforceReactiveLimits => Inv'
<1> SUFFICES ASSUME Inv, EnforceReactiveLimits PROVE Inv'
  OBVIOUS
<1> USE DEF settings, originals, results
<1>0. Initialized /\ Initialized' /\ mEnforceReactiveLimits /\ UNCHANGED mEnforceReactiveLimits
  BY DEF Inv, EnforceReactiveLimits, Initialized, NothingPinnedUnlessEnforced
<1>1. CASE ToPQ \cup ToPV = {}
  <2>1. /\ UNCHANGED <<classes, indices, switching, Qesp, sol_Q, sol_V, outer>>
        /\ settled' = TRUE /\ pc' = "finish"
        /\ UNCHANGED <<limits, load, isConverged, mPQBusesOrig, mPVBusesOrig, mVDBuses>>
    BY <1>1 DEF EnforceReactiveLimits
  <2> USE DEF classes, indices, switching
  <2>2. Pinned' = Pinned /\ ToPQ' = ToPQ /\ ToPV' = ToPV
    BY <2>1 DEF Pinned, ToPQ, ToPV, Frozen, AboveMax, BelowMin, GeneratorQ, Limited
  <2>3. TypeOK'
    BY <1>1 DEF Inv, EnforceReactiveLimits, TypeOK
  <2>4. ListsFollowPinned' /\ IndicesFollowLists'
    BY <1>0, <2>1, <2>2 DEF Inv, ListsFollowPinned, OriginalsPartition, IndicesFollowLists
  <2>5. PinnedAtLimit' /\ PinnedHasLimit' /\ SwitchesBounded' /\ NothingPinnedUnlessEnforced'
    BY <1>0, <2>1, <2>2 DEF Inv, PinnedAtLimit, PinnedHasLimit, SwitchesBounded,
       NothingPinnedUnlessEnforced
  <2>6. SettledKnown'
    BY <1>1, <2>1, <2>2 DEF SettledKnown
  <2> QED
    BY <2>3, <2>4, <2>5, <2>6 DEF Inv
<1>2. CASE ToPQ \cup ToPV # {}
  <2> DEFINE Counted == [n \in Nodes |->
               mQLimitSwitchCount[n] + (IF n \in ToPQ \cup ToPV THEN 1 ELSE 0)]
             Recorded == [n \in Nodes |-> IF n \in ToPV THEN "no"
                            ELSE IF n \notin ToPQ THEN mQLimitConvertedAtMax[n]
                            ELSE IF AboveMax(n) THEN "max" ELSE "min"]
             Specified == [n \in Nodes |-> IF n \in ToPQ THEN PinnedInjection(n) ELSE Qesp[n]]
  <2>1. /\ mPQBuses' = (mPQBuses \cup ToPQ) \ ToPV
        /\ mPVBuses' = (mPVBuses \ ToPQ) \cup ToPV
        /\ Qesp' = Specified /\ mQLimitConvertedAtMax' = Recorded
        /\ mQLimitSwitchCount' = Counted
        /\ mPQBusIndices' = mPQBuses' /\ mPVBusIndices' = mPVBuses'
        /\ pc' = "newton"
        /\ UNCHANGED <<limits, load, settled, isConverged, mPQBusesOrig, mPVBusesOrig, mVDBuses>>
    BY <1>2 DEF EnforceReactiveLimits, ReclassifyBuses
  <2>2. /\ ToPQ \subseteq mPVBuses /\ ToPQ \subseteq Nodes /\ mPVBuses \subseteq mPVBusesOrig \ Pinned
        /\ ToPV \subseteq Pinned /\ Pinned \subseteq mPVBusesOrig
        /\ mPVBusesOrig \subseteq Nodes
    BY <1>0 DEF Inv, ListsFollowPinned, ToPQ, ToPV, Pinned, TypeOK
  <2>3. Pinned' = (Pinned \cup ToPQ) \ ToPV
    BY <2>1, <2>2 DEF Pinned
  <2>4. TypeOK'
    <3>1. Counted \in [Nodes -> Nat] /\ Recorded \in [Nodes -> {"no", "max", "min"}]
      BY DEF Inv, TypeOK
    <3>2. outer' \in Nat
      BY <1>2 DEF EnforceReactiveLimits, Inv, TypeOK
    <3> QED
      BY <2>1, <2>2, <3>1, <3>2 DEF Inv, EnforceReactiveLimits, TypeOK
  <2>5. ListsFollowPinned' /\ IndicesFollowLists'
    <3>1. OriginalsPartition /\ OriginalsPartition'
      BY <1>0, <2>1 DEF Inv, ListsFollowPinned, OriginalsPartition
    <3>2. mPQBuses = mPQBusesOrig \cup Pinned /\ mPVBuses = mPVBusesOrig \ Pinned
      BY <1>0 DEF Inv, ListsFollowPinned
    <3>3. mPQBuses' = mPQBusesOrig' \cup Pinned' /\ mPVBuses' = mPVBusesOrig' \ Pinned'
      BY <2>1, <2>2, <2>3, <3>1, <3>2 DEF OriginalsPartition
    <3> QED
      BY <1>0, <2>1, <2>2, <2>3, <3>1, <3>3 DEF ListsFollowPinned, IndicesFollowLists
  <2>6. PinnedAtLimit' /\ PinnedHasLimit'
    <3>1. SUFFICES ASSUME NEW n \in Pinned'
                   PROVE  /\ Recorded[n] = "max" => /\ Specified[n] + load[n] = limits[n].max
                                                    /\ limits[n].max # NoLimit
                          /\ Recorded[n] = "min" => /\ Specified[n] + load[n] = limits[n].min
                                                    /\ limits[n].min # NoLimit
      BY <2>1 DEF PinnedAtLimit, PinnedHasLimit
    <3>2. n \in Nodes /\ n \notin ToPV
      BY <2>2, <2>3
    <3>3. CASE n \in ToPQ
      BY <3>2, <3>3, BeyondLimit DEF ToPQ
    <3>4. CASE n \notin ToPQ
      BY <3>2, <3>4, <2>3 DEF Inv, PinnedAtLimit, PinnedHasLimit
    <3> QED
      BY <3>3, <3>4
  <2>7. SwitchesBounded'
    <3>1. SUFFICES ASSUME NEW n \in Nodes PROVE Counted[n] <= MaxSwitches
      BY <2>1 DEF SwitchesBounded
    <3>2. mQLimitSwitchCount[n] \in Nat /\ mQLimitSwitchCount[n] <= MaxSwitches /\ MaxSwitches \in Nat
      BY <1>0, PowerFlowAssumption DEF Inv, TypeOK, SwitchesBounded
    <3>3. n \in ToPQ \cup ToPV => ~(mQLimitSwitchCount[n] >= MaxSwitches)
      BY DEF ToPQ, ToPV, Frozen
    <3> QED
      BY <3>2, <3>3
  <2>8. SettledKnown'
    BY <2>1 DEF Inv, EnforceReactiveLimits, SettledKnown
  <2>9. NothingPinnedUnlessEnforced'
    BY <1>0 DEF NothingPinnedUnlessEnforced
  <2> QED
    BY <2>4, <2>5, <2>6, <2>7, <2>8, <2>9 DEF Inv
<1> QED
  BY <1>1, <1>2

\* setSolution() only reports.
LEMMA SetSolutionInv == Inv /\ SetSolution => Inv'
<1> SUFFICES ASSUME Inv, SetSolution PROVE Inv'
  OBVIOUS
<1> USE DEF settings, originals, classes, indices, switching
<1>0. Initialized /\ Initialized'
  BY DEF SetSolution, Initialized
<1>1. TypeOK'
  BY DEF Inv, SetSolution, TypeOK, Converged
<1>2. Pinned' = Pinned /\ ToPQ' = ToPQ /\ ToPV' = ToPV
  BY DEF SetSolution, Pinned, ToPQ, ToPV, Frozen, AboveMax, BelowMin, GeneratorQ, Limited
<1>3. ListsFollowPinned' /\ IndicesFollowLists'
  BY <1>0, <1>2 DEF Inv, SetSolution, ListsFollowPinned, OriginalsPartition, IndicesFollowLists
<1>4. PinnedAtLimit' /\ PinnedHasLimit' /\ SwitchesBounded' /\ NothingPinnedUnlessEnforced'
  BY <1>2 DEF Inv, SetSolution, PinnedAtLimit, PinnedHasLimit, SwitchesBounded,
     NothingPinnedUnlessEnforced
<1>5. SettledKnown'
  BY <1>2 DEF Inv, SetSolution, SettledKnown, Converged
<1> QED
  BY <1>1, <1>3, <1>4, <1>5 DEF Inv

\* Nothing is read that a stuttering step could change.
LEMMA StutterInv == Inv /\ UNCHANGED vars => Inv'
<1> SUFFICES ASSUME Inv, UNCHANGED vars PROVE Inv'
  OBVIOUS
<1> USE DEF vars, settings, originals, classes, indices, switching, results
<1>1. Pinned' = Pinned /\ ToPQ' = ToPQ /\ ToPV' = ToPV /\ Initialized' = Initialized
  BY DEF Pinned, ToPQ, ToPV, Frozen, AboveMax, BelowMin, GeneratorQ, Limited, Initialized
<1>2. TypeOK'
  BY DEF Inv, TypeOK
<1>3. ListsFollowPinned' /\ IndicesFollowLists'
  BY <1>1 DEF Inv, ListsFollowPinned, OriginalsPartition, IndicesFollowLists
<1>4. PinnedAtLimit' /\ PinnedHasLimit' /\ SwitchesBounded' /\ NothingPinnedUnlessEnforced'
  BY <1>1 DEF Inv, PinnedAtLimit, PinnedHasLimit, SwitchesBounded, NothingPinnedUnlessEnforced
<1>5. SettledKnown'
  BY <1>1 DEF Inv, SettledKnown
<1> QED
  BY <1>2, <1>3, <1>4, <1>5 DEF Inv

\* Inv is inductive.
LEMMA NextInv == Inv /\ [Next]_vars => Inv'
BY InitializeInv, GenerateInitialSolutionInv, NewtonRaphsonInv, EnforceReactiveLimitsInv,
   SetSolutionInv, StutterInv DEF Next, Done

\* Inv holds in every reachable state of the power flow solver.
THEOREM Invariance == Spec => []Inv
BY InitInv, NextInv, PTL DEF Spec

-----------------------------------------------------------------------------
(* What follows.                                                           *)

\* Every node is in exactly one bus list, and the PQ list is the original one
\* and the pinned buses, however often the outer loop switches and however
\* many solves reuse the solver.
THEOREM Classification == Spec => []ClassificationConsistent
<1>1. Inv => ClassificationConsistent
  BY DEF Inv, ListsFollowPinned, OriginalsPartition, ClassificationConsistent, Buses
<1> QED
  BY <1>1, Invariance, PTL

\* The iteration works on the classification that is in force.
THEOREM CurrentLists == Spec => []IterationOnCurrentLists
<1>1. Inv => IterationOnCurrentLists
  BY DEF Inv, IndicesFollowLists, IterationOnCurrentLists, Initialized
<1> QED
  BY <1>1, Invariance, PTL

\* A pinned generator delivers exactly its limit.
THEOREM Pinning == Spec => []PinnedAtLimit
<1>1. Inv => PinnedAtLimit
  BY DEF Inv
<1> QED
  BY <1>1, Invariance, PTL

\* No bus switches more often than mMaxQLimitSwitchesPerBus.
THEOREM Bounded == Spec => []SwitchesBounded
<1>1. Inv => SwitchesBounded
  BY DEF Inv
<1> QED
  BY <1>1, Invariance, PTL

\* A converged solve with enforced limits satisfies them at every bus that may
\* still switch, in both directions.
THEOREM Complementarity == Spec => []SettledMeansComplementary
<1>1. Inv => SettledMeansComplementary
  <2> SUFFICES ASSUME Inv, pc = "idle", isConverged, mEnforceReactiveLimits,
                      NEW n \in mPVBusesOrig, ~Frozen(n)
               PROVE  IF n \in Pinned
                      THEN IF mQLimitConvertedAtMax[n] = "max"
                           THEN ~(sol_V[n] > VSet[n]) ELSE ~(sol_V[n] < VSet[n])
                      ELSE ~AboveMax(n) /\ ~BelowMin(n)
    BY DEF SettledMeansComplementary
  <2>1. n \in Nodes /\ n \notin ToPQ /\ n \notin ToPV
    BY DEF Inv, SettledKnown, TypeOK
  <2>2. CASE n \in Pinned
    <3>1. mQLimitConvertedAtMax[n] \in {"max", "min"}
      BY <2>1, <2>2 DEF Inv, TypeOK, Pinned
    <3>2. Limited(n)
      BY <3>1, <2>2 DEF Inv, PinnedHasLimit, Limited
    <3> QED
      BY <2>1, <2>2, <3>1, <3>2 DEF ToPV
  <2>3. CASE n \notin Pinned
    <3>1. n \in mPVBuses
      BY <2>3 DEF Inv, ListsFollowPinned, Initialized
    <3> QED
      BY <2>1, <2>3, <3>1 DEF ToPQ
  <2> QED
    BY <2>2, <2>3
<1> QED
  BY <1>1, Invariance, PTL
-----------------------------------------------------------------------------
(* Reuse of the solver.  The rounds of the outer loop are a function of the *)
(* loads: of two solves with the same loads one follows the other round by  *)
(* round, so both end in the same one.                                      *)

\* What stays the same after initialize().
Given == [limits |-> limits, enforced |-> mEnforceReactiveLimits,
          pq |-> mPQBusesOrig, pv |-> mPVBusesOrig]

\* A round: the pinned buses and how often each has been switched.
Rounds == [pinned : [Nodes -> {"no", "max", "min"}], count : [Nodes -> Nat]]
FirstRound == [pinned |-> [n \in Nodes |-> "no"], count |-> [n \in Nodes |-> 0]]
PresentRound == [pinned |-> mQLimitConvertedAtMax, count |-> mQLimitSwitchCount]

\* What the iteration of a round holds and finds, with the loads l.
PinnedIn(r) == {n \in Nodes : r.pinned[n] # "no"}
HeldInjections(g, r) == g.pq \cup PinnedIn(r)
HeldQ(g, l, r) ==
  [n \in Nodes |-> IF n \notin HeldInjections(g, r) THEN 0
                   ELSE IF r.pinned[n] = "max" THEN g.limits[n].max - l[n]
                   ELSE IF r.pinned[n] = "min" THEN g.limits[n].min - l[n]
                   ELSE 0 - l[n]]
Found(g, l, r) == Solution(HeldInjections(g, r), VSet, HeldQ(g, l, r))

\* The buses a round switches, and the round after it.
OverMax(g, l, r, n) ==
  g.limits[n].max # NoLimit /\ Found(g, l, r).q[n] + l[n] > g.limits[n].max
UnderMin(g, l, r, n) ==
  g.limits[n].min # NoLimit /\ Found(g, l, r).q[n] + l[n] < g.limits[n].min
Pins(g, l, r) ==
  {n \in g.pv \ PinnedIn(r) : /\ ~(r.count[n] >= MaxSwitches)
                              /\ OverMax(g, l, r, n) \/ UnderMin(g, l, r, n)}
Releases(g, l, r) ==
  {n \in Nodes : /\ ~(r.count[n] >= MaxSwitches)
                 /\ g.limits[n].max # NoLimit \/ g.limits[n].min # NoLimit
                 /\ \/ r.pinned[n] = "max" /\ Found(g, l, r).v[n] > VSet[n]
                    \/ r.pinned[n] = "min" /\ Found(g, l, r).v[n] < VSet[n]}
RoundAfter(g, l, r) ==
  [pinned |-> [n \in Nodes |-> IF n \in Releases(g, l, r) THEN "no"
                              ELSE IF n \notin Pins(g, l, r) THEN r.pinned[n]
                              ELSE IF OverMax(g, l, r, n) THEN "max" ELSE "min"],
   count |-> [n \in Nodes |->
                r.count[n] + (IF n \in Pins(g, l, r) \cup Releases(g, l, r) THEN 1 ELSE 0)]]
LastRound(g, l, r) == g.enforced => Pins(g, l, r) \cup Releases(g, l, r) = {}

\* The rounds that follow r.
ClosedRounds(g, l, S) == \A r \in S : LastRound(g, l, r) \/ RoundAfter(g, l, r) \in S
RoundsFrom(g, l, r) ==
  {s \in Rounds : \A S \in SUBSET Rounds : r \in S /\ ClosedRounds(g, l, S) => s \in S}

\* A round is followed by a round.
LEMMA RoundAfterType ==
  ASSUME NEW g, NEW l, NEW r \in Rounds
  PROVE  RoundAfter(g, l, r) \in Rounds
<1> DEFINE c == [n \in Nodes |-> IF n \in Releases(g, l, r) THEN "no"
                              ELSE IF n \notin Pins(g, l, r) THEN r.pinned[n]
                              ELSE IF OverMax(g, l, r, n) THEN "max" ELSE "min"]
           k == [n \in Nodes |->
                r.count[n] + (IF n \in Pins(g, l, r) \cup Releases(g, l, r) THEN 1 ELSE 0)]
<1>1. r.pinned \in [Nodes -> {"no", "max", "min"}] /\ r.count \in [Nodes -> Nat]
  BY DEF Rounds
<1>2. c \in [Nodes -> {"no", "max", "min"}] /\ k \in [Nodes -> Nat]
  <2> HIDE DEF Rounds
  <2> QED
    BY <1>1
<1>3. RoundAfter(g, l, r) = [pinned |-> c, count |-> k]
  BY DEF RoundAfter
<1> HIDE DEF c, k
<1> QED
  BY <1>2, <1>3 DEF Rounds

\* The first round is one, and the rounds of a solve are closed.
LEMMA RoundsFollow ==
  ASSUME NEW g, NEW l, NEW r \in Rounds
  PROVE  /\ r \in RoundsFrom(g, l, r)
         /\ ClosedRounds(g, l, RoundsFrom(g, l, r))
<1>1. r \in RoundsFrom(g, l, r)
  BY DEF RoundsFrom
<1>2. ASSUME NEW s \in RoundsFrom(g, l, r), ~LastRound(g, l, s)
      PROVE  RoundAfter(g, l, s) \in RoundsFrom(g, l, r)
  <2>1. s \in Rounds
    BY DEF RoundsFrom
  <2>2. RoundAfter(g, l, s) \in Rounds
    BY <2>1, RoundAfterType
  <2>3. ASSUME NEW S \in SUBSET Rounds, r \in S, ClosedRounds(g, l, S)
        PROVE  RoundAfter(g, l, s) \in S
    <3>1. s \in S
      BY <2>3 DEF RoundsFrom
    <3> QED
      BY <3>1, <2>3, <1>2 DEF ClosedRounds
  <2> QED
    BY <2>2, <2>3 DEF RoundsFrom
<1> QED
  BY <1>1, <1>2 DEF ClosedRounds

\* Two last rounds after the same first one are the same: from every round
\* before t the rounds lead to t.
LEMMA OneLastRound ==
  ASSUME NEW g, NEW l, NEW f \in Rounds,
         NEW s \in RoundsFrom(g, l, f), LastRound(g, l, s),
         NEW t \in RoundsFrom(g, l, f), LastRound(g, l, t)
  PROVE  s = t
<1> DEFINE Before == {r \in Rounds : t \in RoundsFrom(g, l, r)}
<1>1. s \in Rounds /\ t \in Rounds
  BY DEF RoundsFrom
<1>2. ASSUME NEW r \in Before, ~LastRound(g, l, r)
      PROVE  RoundAfter(g, l, r) \in Before
  <2>1. RoundAfter(g, l, r) \in Rounds
    BY RoundAfterType
  <2>2. ASSUME NEW S \in SUBSET Rounds, RoundAfter(g, l, r) \in S, ClosedRounds(g, l, S)
        PROVE  t \in S
    <3>1. ClosedRounds(g, l, S \cup {r})
      BY <2>2 DEF ClosedRounds
    <3>2. S \cup {r} \in SUBSET Rounds
      OBVIOUS
    <3>3. t \in S \cup {r}
      BY <3>1, <3>2 DEF RoundsFrom
    <3> QED
      BY <3>3, <1>2
  <2> QED
    BY <2>1, <2>2, <1>1 DEF RoundsFrom
<1>3. ClosedRounds(g, l, Before) /\ Before \in SUBSET Rounds /\ f \in Before
  BY <1>2 DEF ClosedRounds
<1>4. t \in RoundsFrom(g, l, s)
  <2>1. s \in Before
    <3> HIDE DEF Before
    <3> QED
      BY <1>3 DEF RoundsFrom
  <2> QED
    BY <2>1
<1>5. ClosedRounds(g, l, {s}) /\ {s} \in SUBSET Rounds
  BY <1>1 DEF ClosedRounds
<1> QED
  BY <1>4, <1>5 DEF RoundsFrom


\* What earlier solves leave behind: at a bus that starts as PQ nothing was ever
\* reported, the kept voltages are voltages, and without limits nothing is counted.
KeptInv(V) ==
  /\ pc = "created" => answers = {} /\ generatorQ = [n \in Nodes |-> 0]
  /\ \A n \in mPQBusesOrig : generatorQ[n] = 0
  /\ mLastConvergedV = <<>> \/ mLastConvergedV \in [Nodes -> V]
  /\ ~mEnforceReactiveLimits => PresentRound = FirstRound

\* The solve in progress is in a round of its loads, and holds what that holds.
PresentHeld ==
  /\ Qesp \in [Nodes -> Int]
  /\ \A n \in mPQBuses : Qesp[n] = HeldQ(Given, load, PresentRound)[n]
SetPointsHeld(V) ==
  /\ PresentRound \in RoundsFrom(Given, load, FirstRound)
  /\ sol_V \in [Nodes -> V]
  /\ \A n \in Nodes \ mPQBuses : sol_V[n] = VSet[n]
PresentFound ==
  /\ sol_V = Found(Given, load, PresentRound).v
  /\ sol_Q = Found(Given, load, PresentRound).q
SolveInv(V) ==
  /\ pc \in {"newton", "limits"} => PresentHeld
  /\ pc \in {"newton", "limits"} \/ (pc = "finish" /\ isConverged) => SetPointsHeld(V)
  /\ pc = "limits" \/ (pc = "finish" /\ isConverged) => PresentFound
  /\ pc = "finish" /\ Converged => LastRound(Given, load, PresentRound)

\* What has been found is what the last round of its loads finds.
AnswerOf(g, l, r) ==
  [load |-> l, v |-> Found(g, l, r).v, pv |-> g.pv \ PinnedIn(r)]
AnswersInv ==
  \A a \in answers : \E r \in RoundsFrom(Given, a.load, FirstRound) :
    LastRound(Given, a.load, r) /\ a = AnswerOf(Given, a.load, r)

ReuseInv(V) == KeptInv(V) /\ SolveInv(V) /\ AnswersInv

\* The first round is a round, and so is the present one.
LEMMA RoundTypes == FirstRound \in Rounds /\ (TypeOK => PresentRound \in Rounds)
BY DEF FirstRound, PresentRound, Rounds, TypeOK

\* What the present round holds are the PQ buses.
LEMMA PresentBuses ==
  ASSUME Inv, Initialized
  PROVE  /\ PinnedIn(PresentRound) = Pinned
         /\ HeldInjections(Given, PresentRound) = mPQBuses
         /\ Given.pv \ PinnedIn(PresentRound) = mPVBuses
<1>1. PinnedIn(PresentRound) = Pinned
  BY DEF PinnedIn, PresentRound, Pinned
<1>2. Given.pq = mPQBusesOrig /\ Given.pv = mPVBusesOrig
  BY DEF Given
<1> QED
  BY <1>1, <1>2 DEF HeldInjections, Inv, ListsFollowPinned

\* Whatever the iteration starts from, it finds what belongs to the round.
LEMMA IterationFinds ==
  ASSUME NEW V, HeldDetermines(V, Int), Inv, Initialized, PresentHeld, SetPointsHeld(V)
  PROVE  LET s == Solution(mPQBuses, sol_V, Qesp)
         IN  /\ s = Found(Given, load, PresentRound)
             /\ s.v \in [Nodes -> V]
             /\ \A n \in Nodes \ mPQBuses : s.v[n] = VSet[n]
<1> DEFINE s == Solution(mPQBuses, sol_V, Qesp)
           hq == [n \in Nodes |-> IF n \in mPQBuses THEN Qesp[n] ELSE 0]
<1>1. mPQBuses \in SUBSET Nodes /\ sol_V \in [Nodes -> V] /\ Qesp \in [Nodes -> Int]
  BY DEF Inv, TypeOK, PresentHeld, SetPointsHeld
<1>2. /\ s.v \in [Nodes -> V]
      /\ \A n \in Nodes \ mPQBuses : s.v[n] = VSet[n]
      /\ s = Solution(mPQBuses, VSet, hq)
  <2>1. \A v \in [Nodes -> V], q \in [Nodes -> Int] :
          (\A n \in Nodes \ mPQBuses : v[n] = VSet[n]) =>
            /\ Solution(mPQBuses, v, q).v \in [Nodes -> V]
            /\ \A n \in Nodes \ mPQBuses : Solution(mPQBuses, v, q).v[n] = VSet[n]
            /\ Solution(mPQBuses, v, q) =
                 Solution(mPQBuses, VSet, [n \in Nodes |-> IF n \in mPQBuses THEN q[n] ELSE 0])
    BY <1>1, Zenon DEF HeldDetermines
  <2>2. \A n \in Nodes \ mPQBuses : sol_V[n] = VSet[n]
    BY DEF SetPointsHeld
  <2> QED
    BY <2>1, <2>2, <1>1, Zenon
<1>3. HeldInjections(Given, PresentRound) = mPQBuses
  BY PresentBuses
<1>4. hq = HeldQ(Given, load, PresentRound)
  BY <1>3 DEF HeldQ, PresentHeld
<1>5. s = Found(Given, load, PresentRound)
  BY <1>2, <1>3, <1>4 DEF Found
<1> QED
  BY <1>2, <1>5

\* The buses that enforceReactiveLimits() switches are those the round switches.
LEMMA RoundSwitches ==
  ASSUME Inv, Initialized, PresentFound
  PROVE  /\ ToPQ = Pins(Given, load, PresentRound)
         /\ ToPV = Releases(Given, load, PresentRound)
         /\ \A n \in Nodes : AboveMax(n) <=> OverMax(Given, load, PresentRound, n)
<1>1. Given.limits = limits
  BY DEF Given
<1>2. \A n \in Nodes : AboveMax(n) <=> OverMax(Given, load, PresentRound, n)
  BY <1>1 DEF PresentFound, AboveMax, OverMax, GeneratorQ
<1>3. \A n \in Nodes : BelowMin(n) <=> UnderMin(Given, load, PresentRound, n)
  BY <1>1 DEF PresentFound, BelowMin, UnderMin, GeneratorQ
<1>4. mPVBuses \subseteq Nodes /\ Given.pv \ PinnedIn(PresentRound) = mPVBuses
  BY PresentBuses DEF Inv, TypeOK
<1>5. PresentRound.count = mQLimitSwitchCount /\ PresentRound.pinned = mQLimitConvertedAtMax
  BY DEF PresentRound
<1>6. ToPQ = Pins(Given, load, PresentRound)
  BY <1>2, <1>3, <1>4, <1>5 DEF ToPQ, Pins, Frozen
<1>7. ToPV = Releases(Given, load, PresentRound)
  BY <1>1, <1>5 DEF ToPV, Releases, Frozen, Limited, PresentFound
<1> QED
  BY <1>2, <1>6, <1>7

\* What is given does not change after initialize().
LEMMA GivenKept ==
  ASSUME UNCHANGED <<limits, mEnforceReactiveLimits, mPQBusesOrig, mPVBusesOrig>>
  PROVE  Given' = Given
BY DEF Given

\* Before initialize() nothing is known.
LEMMA InitReuse ==
  ASSUME NEW V, Init
  PROVE  ReuseInv(V)
<1>1. PresentRound = FirstRound
  BY DEF Init, PresentRound, FirstRound
<1>2. KeptInv(V)
  BY <1>1 DEF Init, KeptInv
<1>3. SolveInv(V) /\ AnswersInv
  BY DEF Init, SolveInv, AnswersInv
<1> QED
  BY <1>2, <1>3 DEF ReuseInv

\* initialize() decides what is given; there are no answers yet.
LEMMA InitializeReuse ==
  ASSUME NEW V, Inv, ReuseInv(V), Initialize
  PROVE  ReuseInv(V)'
<1>1. /\ answers' = {} /\ generatorQ' = [n \in Nodes |-> 0] /\ pc' \in {"idle", "rejected"}
      /\ UNCHANGED <<mLastConvergedV, mEnforceReactiveLimits>>
  BY DEF ReuseInv, KeptInv, Initialize, results, settings
<1>2. PresentRound' = PresentRound
  BY DEF Initialize, PresentRound, switching
<1>3. mPQBusesOrig' \subseteq Nodes
  BY DEF Initialize, BusesOfType
<1>4. KeptInv(V)'
  BY <1>1, <1>2, <1>3 DEF ReuseInv, KeptInv, FirstRound
<1>5. SolveInv(V)' /\ AnswersInv'
  BY <1>1 DEF SolveInv, AnswersInv
<1> QED
  BY <1>4, <1>5 DEF ReuseInv

\* A solve begins with the first round: the lists are the original ones, and
\* what is kept are starting values of unknowns.
LEMMA GenerateInitialSolutionReuse ==
  ASSUME NEW V, 0 \in V, VSet \in [Nodes -> V], Inv, ReuseInv(V), GenerateInitialSolution
  PROVE  ReuseInv(V)'
<1>0. /\ pc = "idle" /\ pc' = "newton"
      /\ UNCHANGED <<limits, mEnforceReactiveLimits, mPQBusesOrig, mPVBusesOrig, generatorQ,
                     mLastConvergedV, answers>>
  BY DEF GenerateInitialSolution, settings, originals, results
<1>1. Given' = Given
  BY <1>0, GivenKept
<1>2. PresentRound' = FirstRound
  <2>1. CASE mEnforceReactiveLimits
    BY <2>1 DEF GenerateInitialSolution, Restarted, ClearedSwitchCount, PresentRound, FirstRound
  <2>2. CASE ~mEnforceReactiveLimits
    <3>1. UNCHANGED <<mQLimitConvertedAtMax, mQLimitSwitchCount>>
      BY <2>2 DEF GenerateInitialSolution, Restarted, ClearedSwitchCount
    <3> QED
      BY <2>2, <3>1 DEF PresentRound, ReuseInv, KeptInv
  <2> QED
    BY <2>1, <2>2
<1>3. mPQBuses' = mPQBusesOrig
  <2>1. CASE mEnforceReactiveLimits
    BY <2>1 DEF GenerateInitialSolution, Restarted, StartPQBuses
  <2>2. CASE ~mEnforceReactiveLimits
    <3>1. mPQBuses' = mPQBuses
      BY <2>2 DEF GenerateInitialSolution, Restarted, StartPQBuses
    <3> QED
      BY <2>2, <3>1, <1>0 DEF Inv, NothingPinnedUnlessEnforced, ListsFollowPinned, Initialized
  <2> QED
    BY <2>1, <2>2
<1>4. mPQBusesOrig \subseteq Nodes /\ load' \in [Nodes -> Int]
  <2>1. load' \in Loads
    BY DEF GenerateInitialSolution
  <2> QED
    BY <2>1, PowerFlowAssumption DEF Inv, TypeOK
<1>5. KeptInv(V)'
  BY <1>0, <1>2 DEF ReuseInv, KeptInv, FirstRound
<1>6. SetPointsHeld(V)'
  <2>1. FirstRound \in RoundsFrom(Given', load', FirstRound)
    BY RoundTypes, RoundsFollow
  <2>2. sol_V' = [n \in Nodes |-> IF n \notin mPQBuses' THEN VSet[n]
                     ELSE IF mKeepLastSolution /\ mLastConvergedV # <<>>
                          THEN mLastConvergedV[n] ELSE 0]
    BY DEF GenerateInitialSolution
  <2>3. mLastConvergedV = <<>> \/ mLastConvergedV \in [Nodes -> V]
    BY DEF ReuseInv, KeptInv
  <2>4. sol_V' \in [Nodes -> V]
    BY <2>2, <2>3
  <2>5. \A n \in Nodes \ mPQBuses' : sol_V'[n] = VSet[n]
    BY <2>2
  <2> QED
    BY <2>1, <2>4, <2>5, <1>2 DEF SetPointsHeld, FirstRound
<1>7. PresentHeld'
  <2>1. Qesp' = [n \in Nodes |-> (IF n \in mPQBuses' THEN generatorQ[n] ELSE 0) - load'[n]]
    BY DEF GenerateInitialSolution
  <2>2. \A n \in mPQBuses' : generatorQ[n] = 0
    BY <1>3 DEF ReuseInv, KeptInv
  <2>3. Qesp' = [n \in Nodes |-> 0 - load'[n]]
    BY <2>1, <2>2
  <2>4. HeldInjections(Given, FirstRound) = mPQBusesOrig
    BY DEF HeldInjections, PinnedIn, FirstRound, Given
  <2>5. \A n \in mPQBuses' : HeldQ(Given, load', FirstRound)[n] = 0 - load'[n]
    BY <2>4, <1>3, <1>4 DEF HeldQ, FirstRound
  <2>6. Qesp' \in [Nodes -> Int]
    BY <2>3, <1>4
  <2> QED
    BY <2>3, <2>5, <2>6, <1>1, <1>2, <1>3, <1>4 DEF PresentHeld
<1>8. SolveInv(V)'
  BY <1>0, <1>6, <1>7 DEF SolveInv
<1>9. AnswersInv'
  BY <1>0, <1>1 DEF ReuseInv, AnswersInv, FirstRound
<1> QED
  BY <1>5, <1>8, <1>9 DEF ReuseInv

\* The iteration finds what belongs to the round; without limits to enforce it
\* is the last.
LEMMA NewtonRaphsonReuse ==
  ASSUME NEW V, HeldDetermines(V, Int), Inv, ReuseInv(V), NewtonRaphson
  PROVE  ReuseInv(V)'
<1>0. /\ pc = "newton" /\ pc' \in {"limits", "finish"} /\ isConverged' \in BOOLEAN
      /\ UNCHANGED <<limits, mEnforceReactiveLimits, mPQBusesOrig, mPVBusesOrig, mPQBuses,
                     generatorQ, mLastConvergedV, answers, load, Qesp, settled,
                     mQLimitConvertedAtMax, mQLimitSwitchCount>>
      /\ pc' = "limits" => isConverged'
  BY DEF NewtonRaphson, settings, originals, classes, switching, results
<1>1. Given' = Given /\ PresentRound' = PresentRound
  BY <1>0, GivenKept DEF PresentRound
<1>2. Initialized /\ PresentHeld /\ SetPointsHeld(V)
  BY <1>0 DEF Initialized, ReuseInv, SolveInv
<1>3. KeptInv(V)'
  BY <1>0, <1>1 DEF ReuseInv, KeptInv, FirstRound
<1>4. PresentHeld'
  BY <1>0, <1>1, <1>2 DEF PresentHeld
<1>5. ASSUME isConverged'
      PROVE  SetPointsHeld(V)' /\ PresentFound'
  <2>1. /\ sol_V' = Solution(mPQBuses, sol_V, Qesp).v
        /\ sol_Q' = Solution(mPQBuses, sol_V, Qesp).q
    BY <1>0, <1>2, <1>5 DEF NewtonRaphson, Inv, IndicesFollowLists
  <2>2. /\ Solution(mPQBuses, sol_V, Qesp) = Found(Given, load, PresentRound)
        /\ Solution(mPQBuses, sol_V, Qesp).v \in [Nodes -> V]
        /\ \A n \in Nodes \ mPQBuses : Solution(mPQBuses, sol_V, Qesp).v[n] = VSet[n]
    BY <1>2, IterationFinds
  <2>3. PresentFound'
    BY <2>1, <2>2, <1>0, <1>1 DEF PresentFound
  <2>4. SetPointsHeld(V)'
    BY <2>1, <2>2, <1>0, <1>1, <1>2 DEF SetPointsHeld, FirstRound
  <2> QED
    BY <2>3, <2>4
<1>6. ASSUME Converged'
      PROVE  LastRound(Given, load, PresentRound)'
  <2>1. ~settled'
    BY <1>0 DEF Inv, SettledKnown
  <2>2. ~mEnforceReactiveLimits'
    BY <1>6, <2>1 DEF Converged
  <2> QED
    BY <2>2, <1>0 DEF LastRound, Given
<1>7. SolveInv(V)'
  BY <1>0, <1>4, <1>5, <1>6 DEF SolveInv
<1>8. AnswersInv'
  BY <1>0, <1>1 DEF ReuseInv, AnswersInv, FirstRound
<1> QED
  BY <1>3, <1>7, <1>8 DEF ReuseInv

\* enforceReactiveLimits() finds the last round of these loads, or goes on to
\* the round after the present one.
LEMMA EnforceReactiveLimitsReuse ==
  ASSUME NEW V, VSet \in [Nodes -> V], Inv, ReuseInv(V), EnforceReactiveLimits
  PROVE  ReuseInv(V)'
<1>0. /\ pc = "limits" /\ mEnforceReactiveLimits
      /\ UNCHANGED <<limits, mEnforceReactiveLimits, mPQBusesOrig, mPVBusesOrig,
                     generatorQ, mLastConvergedV, answers, load, isConverged>>
  BY DEF EnforceReactiveLimits, settings, originals, results, Inv, NothingPinnedUnlessEnforced
<1>1. Given' = Given
  BY <1>0, GivenKept
<1>2. Initialized /\ PresentHeld /\ SetPointsHeld(V) /\ PresentFound
  BY <1>0 DEF Initialized, ReuseInv, SolveInv
<1>3. KeptInv(V)' /\ AnswersInv'
  <2>1. pc' # "created"
    BY DEF EnforceReactiveLimits
  <2> QED
    BY <2>1, <1>0, <1>1 DEF ReuseInv, KeptInv, AnswersInv, FirstRound
<1>4. /\ ToPQ = Pins(Given, load, PresentRound)
      /\ ToPV = Releases(Given, load, PresentRound)
      /\ \A n \in Nodes : AboveMax(n) <=> OverMax(Given, load, PresentRound, n)
  BY <1>2, RoundSwitches
<1>5. CASE ToPQ \cup ToPV = {}
  <2>1. /\ pc' = "finish"
        /\ UNCHANGED <<mPQBuses, mQLimitConvertedAtMax, mQLimitSwitchCount, Qesp, sol_V, sol_Q>>
    BY <1>5 DEF EnforceReactiveLimits, classes, indices, switching
  <2>2. PresentRound' = PresentRound
    BY <2>1 DEF PresentRound
  <2>3. SetPointsHeld(V)' /\ PresentFound'
    BY <2>1, <2>2, <1>0, <1>1, <1>2 DEF SetPointsHeld, PresentFound, FirstRound
  <2>4. LastRound(Given, load, PresentRound)
    BY <1>4, <1>5 DEF LastRound
  <2>5. LastRound(Given, load, PresentRound)'
    BY <2>4, <2>2, <1>0, <1>1 DEF LastRound
  <2>6. SolveInv(V)'
    BY <2>1, <2>3, <2>5 DEF SolveInv
  <2> QED
    BY <1>3, <2>6 DEF ReuseInv
<1>6. CASE ToPQ \cup ToPV # {}
  <2> DEFINE Counted == [n \in Nodes |->
               mQLimitSwitchCount[n] + (IF n \in ToPQ \cup ToPV THEN 1 ELSE 0)]
             Recorded == [n \in Nodes |-> IF n \in ToPV THEN "no"
                            ELSE IF n \notin ToPQ THEN mQLimitConvertedAtMax[n]
                            ELSE IF AboveMax(n) THEN "max" ELSE "min"]
             Specified == [n \in Nodes |-> IF n \in ToPQ THEN PinnedInjection(n) ELSE Qesp[n]]
  <2>1. /\ mPQBuses' = (mPQBuses \cup ToPQ) \ ToPV
        /\ Qesp' = Specified /\ mQLimitConvertedAtMax' = Recorded
        /\ mQLimitSwitchCount' = Counted
        /\ sol_V' = [n \in Nodes |-> IF n \in ToPV THEN VSet[n] ELSE sol_V[n]]
        /\ pc' = "newton"
    BY <1>6 DEF EnforceReactiveLimits, ReclassifyBuses
  <2>2. PresentRound' = RoundAfter(Given, load, PresentRound)
    <3>1. PresentRound.pinned = mQLimitConvertedAtMax /\ PresentRound.count = mQLimitSwitchCount
      BY DEF PresentRound
    <3>2. PresentRound' = [pinned |-> Recorded, count |-> Counted]
      BY <2>1 DEF PresentRound
    <3>3. RoundAfter(Given, load, PresentRound).pinned = Recorded
      BY <1>4, <3>1 DEF RoundAfter
    <3>4. RoundAfter(Given, load, PresentRound).count = Counted
      BY <1>4, <3>1 DEF RoundAfter
    <3> QED
      BY <3>2, <3>3, <3>4 DEF RoundAfter
  <2>3. PresentRound' \in RoundsFrom(Given, load, FirstRound)
    <3>1. PresentRound \in RoundsFrom(Given, load, FirstRound)
      BY <1>2 DEF SetPointsHeld
    <3>2. ClosedRounds(Given, load, RoundsFrom(Given, load, FirstRound))
      BY RoundsFollow, RoundTypes
    <3>3. ~LastRound(Given, load, PresentRound)
      BY <1>0, <1>4, <1>6 DEF LastRound, Given
    <3> QED
      BY <3>1, <3>2, <3>3, <2>2 DEF ClosedRounds
  <2>4. SetPointsHeld(V)'
    <3>1. sol_V' \in [Nodes -> V]
      BY <2>1, <1>2 DEF SetPointsHeld
    <3>2. \A n \in Nodes \ mPQBuses' : sol_V'[n] = VSet[n]
      BY <2>1, <1>2 DEF SetPointsHeld
    <3> QED
      BY <3>1, <3>2, <2>3, <1>0, <1>1 DEF SetPointsHeld, FirstRound
  <2>5. PresentHeld'
    <3>1. Specified \in [Nodes -> Int]
      <4>1. ASSUME NEW n \in Nodes
            PROVE  (IF n \in ToPQ THEN PinnedInjection(n) ELSE Qesp[n]) \in Int
        <5>1. limits[n] \in Limits /\ load[n] \in Int /\ Qesp[n] \in Int
          BY <1>2 DEF Inv, TypeOK, PresentHeld
        <5>2. {limits[n].max, limits[n].min} \subseteq Int \cup {NoLimit}
          BY <5>1, PowerFlowAssumption
        <5> QED
          BY <5>1, <5>2 DEF ToPQ, AboveMax, BelowMin, PinnedInjection
      <4> HIDE DEF PinnedInjection, ToPQ
      <4> QED
        BY <4>1
    <3>2. ASSUME NEW n \in mPQBuses'
          PROVE  Specified[n] = HeldQ(Given, load, PresentRound')[n]
      <4>1. n \in Nodes /\ n \notin ToPV /\ n \in mPQBuses \cup ToPQ
        BY <2>1, <3>2 DEF Inv, TypeOK, ToPQ
      <4>2. PresentRound'.pinned = Recorded /\ PresentRound.pinned = mQLimitConvertedAtMax
        BY <2>1 DEF PresentRound
      <4>3. Given.limits = limits
        BY DEF Given
      <4>4. CASE n \in ToPQ
        <5>1. Recorded[n] = (IF AboveMax(n) THEN "max" ELSE "min")
          BY <4>1, <4>4
        <5>2. n \in HeldInjections(Given, PresentRound')
          BY <4>1, <4>2, <5>1 DEF HeldInjections, PinnedIn
        <5>3. HeldQ(Given, load, PresentRound')[n] = PinnedInjection(n)
          BY <4>1, <4>2, <4>3, <5>1, <5>2 DEF HeldQ, PinnedInjection
        <5> QED
          BY <5>3, <4>1, <4>4
      <4>5. CASE n \notin ToPQ
        <5>1. n \in mPQBuses /\ n \in HeldInjections(Given, PresentRound)
          BY <4>1, <4>5, <1>2, PresentBuses
        <5>2. Recorded[n] = mQLimitConvertedAtMax[n]
          BY <4>1, <4>5
        <5>3. n \in HeldInjections(Given, PresentRound')
          BY <4>1, <4>2, <5>1, <5>2 DEF HeldInjections, PinnedIn
        <5>4. HeldQ(Given, load, PresentRound')[n] = HeldQ(Given, load, PresentRound)[n]
          BY <4>1, <4>2, <5>1, <5>2, <5>3 DEF HeldQ
        <5> QED
          BY <4>1, <4>5, <5>1, <5>4, <1>2 DEF PresentHeld
      <4> QED
        BY <4>4, <4>5
    <3> QED
      BY <3>1, <3>2, <2>1, <1>0, <1>1 DEF PresentHeld
  <2>6. SolveInv(V)'
    BY <2>1, <2>4, <2>5 DEF SolveInv
  <2> QED
    BY <1>3, <2>6 DEF ReuseInv
<1> QED
  BY <1>5, <1>6

\* setSolution() adds the answer of the last round, and reports at buses that
\* never start as PQ.
LEMMA SetSolutionReuse ==
  ASSUME NEW V, Inv, ReuseInv(V), SetSolution
  PROVE  ReuseInv(V)'
<1>0. /\ pc = "finish" /\ pc' = "idle"
      /\ UNCHANGED <<limits, mEnforceReactiveLimits, mPQBusesOrig, mPVBusesOrig,
                     mQLimitConvertedAtMax, mQLimitSwitchCount>>
  BY DEF SetSolution, settings, originals, switching
<1>1. Given' = Given /\ PresentRound' = PresentRound
  BY <1>0, GivenKept DEF PresentRound
<1>2. SolveInv(V)'
  BY <1>0 DEF SolveInv
<1>3. CASE ~Converged
  <2>1. UNCHANGED <<mLastConvergedV, generatorQ, answers>>
    BY <1>3 DEF SetSolution, results
  <2> QED
    BY <2>1, <1>0, <1>1, <1>2 DEF ReuseInv, KeptInv, AnswersInv, FirstRound
<1>4. CASE Converged
  <2>1. Initialized /\ isConverged
    BY <1>0, <1>4 DEF Initialized, Converged
  <2>2. SetPointsHeld(V) /\ PresentFound /\ LastRound(Given, load, PresentRound)
    BY <1>0, <1>4, <2>1 DEF ReuseInv, SolveInv
  <2>3. /\ generatorQ' = [n \in Nodes |-> IF n \in mPVBuses \cup mVDBuses
                                          THEN GeneratorQ(n) ELSE generatorQ[n]]
        /\ mLastConvergedV' = sol_V
        /\ answers' = answers \cup {[load |-> load, v |-> sol_V, pv |-> mPVBuses]}
    BY <1>4 DEF SetSolution
  <2>4. mPQBusesOrig \subseteq Nodes /\ mPQBusesOrig \cap (mPVBuses \cup mVDBuses) = {}
    BY <2>1 DEF Inv, TypeOK, ListsFollowPinned, OriginalsPartition
  <2>5. \A n \in mPQBusesOrig : generatorQ'[n] = 0
    BY <2>3, <2>4 DEF ReuseInv, KeptInv
  <2>6. KeptInv(V)'
    BY <2>2, <2>3, <2>5, <1>0, <1>1 DEF ReuseInv, KeptInv, SetPointsHeld, FirstRound
  <2>7. [load |-> load, v |-> sol_V, pv |-> mPVBuses] = AnswerOf(Given, load, PresentRound)
    BY <2>1, <2>2, PresentBuses DEF AnswerOf, PresentFound
  <2>8. AnswersInv'
    <3>1. SUFFICES ASSUME NEW a \in answers'
                   PROVE  \E r \in RoundsFrom(Given, a.load, FirstRound) :
                            LastRound(Given, a.load, r) /\ a = AnswerOf(Given, a.load, r)
      BY <1>1 DEF AnswersInv, FirstRound
    <3>2. CASE a \in answers
      BY <3>2 DEF ReuseInv, AnswersInv
    <3>3. CASE a = AnswerOf(Given, load, PresentRound)
      <4>1. a.load = load
        BY <3>3 DEF AnswerOf
      <4> QED
        BY <3>3, <4>1, <2>2 DEF SetPointsHeld
    <3> QED
      BY <3>1, <3>2, <3>3, <2>3, <2>7
  <2> QED
    BY <2>6, <2>8, <1>2 DEF ReuseInv
<1> QED
  BY <1>3, <1>4

\* Nothing is read that a stuttering step could change.
LEMMA StutterReuse ==
  ASSUME NEW V, ReuseInv(V), UNCHANGED vars
  PROVE  ReuseInv(V)'
<1> USE DEF vars, settings, originals, classes, indices, switching, results
<1>1. Given' = Given /\ PresentRound' = PresentRound
  BY DEF Given, PresentRound
<1>2. KeptInv(V)' /\ AnswersInv'
  BY <1>1 DEF ReuseInv, KeptInv, AnswersInv, FirstRound
<1>3. PresentHeld' = PresentHeld /\ SetPointsHeld(V)' = SetPointsHeld(V) /\ PresentFound' = PresentFound
  BY <1>1 DEF PresentHeld, SetPointsHeld, PresentFound, FirstRound
<1>4. /\ LastRound(Given, load, PresentRound)' = LastRound(Given, load, PresentRound)
      /\ Converged' = Converged
  BY <1>1 DEF LastRound, Converged
<1>5. SolveInv(V)'
  BY <1>3, <1>4 DEF ReuseInv, SolveInv
<1> QED
  BY <1>2, <1>5 DEF ReuseInv

\* Two answers for the same loads come from the same round.
LEMMA AnswersAgree == AnswersInv => SameLoadSameSolution
<1> SUFFICES ASSUME AnswersInv, NEW a \in answers, NEW b \in answers, a.load = b.load
             PROVE  a = b
  BY DEF SameLoadSameSolution
<1>1. PICK r \in RoundsFrom(Given, a.load, FirstRound) :
        LastRound(Given, a.load, r) /\ a = AnswerOf(Given, a.load, r)
  BY DEF AnswersInv
<1>2. PICK s \in RoundsFrom(Given, a.load, FirstRound) :
        LastRound(Given, a.load, s) /\ b = AnswerOf(Given, a.load, s)
  BY DEF AnswersInv
<1>3. r = s
  BY <1>1, <1>2, OneLastRound, RoundTypes
<1> QED
  BY <1>1, <1>2, <1>3

\* The solver may be reused: if the iteration finds the solution of what it
\* holds, whatever it starts from, two converged solves with the same loads find
\* the same voltages and the same classification, although the lists, the switch
\* counts, the set points and the last voltages are kept from solve to solve.
THEOREM Reuse ==
  ASSUME NEW V, HeldDetermines(V, Int)
  PROVE  Spec => []SameLoadSameSolution
<1>1. Init => ReuseInv(V)
  BY InitReuse
<1>2. Inv /\ ReuseInv(V) /\ [Next]_vars => ReuseInv(V)'
  BY InitializeReuse, GenerateInitialSolutionReuse, NewtonRaphsonReuse,
     EnforceReactiveLimitsReuse, SetSolutionReuse, StutterReuse DEF Next, Done, HeldDetermines
<1>3. ReuseInv(V) => SameLoadSameSolution
  BY AnswersAgree DEF ReuseInv
<1> QED
  BY <1>1, <1>2, <1>3, Invariance, PTL DEF Spec

-----------------------------------------------------------------------------
(* Zones.  The union-find forest joins the nodes that lines connect, and no *)
(* others.                                                                  *)

\* A set of numbers has a smallest one: the induction that everything about
\* recursive functions rests on.
LEMMA LeastNumber ==
  ASSUME NEW T \in SUBSET Nat, T # {}
  PROVE  \E m \in T : \A k \in T : m <= k
<1> DEFINE R == OpToRel(<, Nat)
<1>1. IsWellFoundedOn(R, Nat)
  BY NatLessThanWellFounded
<1>2. R = {p \in Nat \X Nat : p[1] < p[2]}
  BY DEF OpToRel
<1> HIDE DEF R
<1>3. PICK x \in T : \A y \in T : ~(<<y, x>> \in R)
  BY <1>1, WFMin
<1>4. ASSUME NEW k \in T
      PROVE  x <= k
  <2>1. x \in Nat /\ k \in Nat /\ <<k, x>> \notin R
    BY <1>3
  <2>2. ~(k < x)
    BY <2>1, <1>2
  <2> QED
    BY <2>1, <2>2
<1> QED
  BY <1>4

\* What zoneParent is: a forest, in which root leads to the root of every node
\* and depth falls on the way.
Tree(parent, root, depth) ==
  /\ parent \in [Nodes -> Nodes] /\ root \in [Nodes -> Nodes] /\ depth \in [Nodes -> Nat]
  /\ \A n \in Nodes : root[n] = IF parent[n] = n THEN n ELSE root[parent[n]]
  /\ \A n \in Nodes : parent[n] # n => depth[parent[n]] < depth[n]
  /\ \A n \in Nodes : parent[root[n]] = root[n]

\* findZone() ends at the root.
LEMMA FindZoneIsRoot ==
  ASSUME NEW p, NEW r, NEW d, Tree(p, r, d)
  PROVE  FindZone(p) = r
<1> DEFINE f == FindZone(p)
<1>0. /\ p \in [Nodes -> Nodes] /\ r \in [Nodes -> Nodes] /\ d \in [Nodes -> Nat]
      /\ \A n \in Nodes : r[n] = IF p[n] = n THEN n ELSE r[p[n]]
      /\ \A n \in Nodes : p[n] # n => d[p[n]] < d[n]
  BY DEF Tree
<1>1. r = [n \in Nodes |-> IF p[n] = n THEN n ELSE r[p[n]]]
  BY <1>0
<1>2. f = [n \in Nodes |-> IF p[n] = n THEN n ELSE f[p[n]]]
  BY <1>1 DEF FindZone
<1> HIDE DEF f
<1> DEFINE Wrong == {n \in Nodes : f[n] # r[n]}
           Depths == {d[n] : n \in Wrong}
<1>3. ASSUME Wrong # {}
      PROVE  FALSE
  <2>1. Depths \in SUBSET Nat /\ Depths # {}
    BY <1>0, <1>3
  <2>2. PICK m \in Depths : \A k \in Depths : m <= k
    <3> HIDE DEF Depths
    <3> QED
      BY <2>1, LeastNumber
  <2>3. PICK n \in Wrong : d[n] = m
    BY <2>2
  <2>4. n \in Nodes /\ f[n] # r[n] /\ p[n] \in Nodes
    BY <1>0, <2>3
  <2>5. p[n] # n
    BY <2>4, <1>0, <1>2
  <2>6. f[n] = f[p[n]] /\ r[n] = r[p[n]]
    BY <2>4, <2>5, <1>0, <1>2
  <2>7. p[n] \in Wrong
    BY <2>4, <2>6
  <2>8. d[n] <= d[p[n]]
    BY <2>2, <2>3, <2>7
  <2> QED
    BY <2>4, <2>5, <2>8, <1>0
<1>4. \A n \in Nodes : f[n] = r[n]
  BY <1>3
<1> QED
  BY <1>0, <1>2, <1>4 DEF f

\* uniteZones() hooks one tree to the root of the other.
HookedRoot(root, a, b) == [n \in Nodes |-> IF root[n] = root[a] THEN root[b] ELSE root[n]]
HookedDepth(root, depth, a, b) ==
  [n \in Nodes |-> IF root[n] = root[a] THEN depth[n] + depth[root[b]] + 1 ELSE depth[n]]

LEMMA UniteKeepsTree ==
  ASSUME NEW p, NEW r, NEW d, Tree(p, r, d), NEW a \in Nodes, NEW b \in Nodes
  PROVE  Tree(UniteZones(p, a, b), HookedRoot(r, a, b), HookedDepth(r, d, a, b))
<1>0. /\ p \in [Nodes -> Nodes] /\ r \in [Nodes -> Nodes] /\ d \in [Nodes -> Nat]
      /\ \A n \in Nodes : r[n] = IF p[n] = n THEN n ELSE r[p[n]]
      /\ \A n \in Nodes : p[n] # n => d[p[n]] < d[n]
      /\ \A n \in Nodes : p[r[n]] = r[n]
  BY DEF Tree
<1>1. PICK ra \in Nodes : ra = r[a]
  BY <1>0
<1>2. PICK rb \in Nodes : rb = r[b]
  BY <1>0
<1>3. p[ra] = ra /\ p[rb] = rb /\ r[ra] = ra /\ r[rb] = rb
  BY <1>0, <1>1, <1>2
<1>4. PICK q : q = [p EXCEPT ![ra] = rb]
  OBVIOUS
<1>5. UniteZones(p, a, b) = q
  BY <1>1, <1>2, <1>4, FindZoneIsRoot DEF UniteZones
<1>6. PICK s : s = [n \in Nodes |-> IF r[n] = ra THEN rb ELSE r[n]]
  OBVIOUS
<1>7. PICK e : e = [n \in Nodes |-> IF r[n] = ra THEN d[n] + d[rb] + 1 ELSE d[n]]
  OBVIOUS
<1>8. HookedRoot(r, a, b) = s /\ HookedDepth(r, d, a, b) = e
  BY <1>1, <1>2, <1>6, <1>7 DEF HookedRoot, HookedDepth
<1>9. q \in [Nodes -> Nodes] /\ s \in [Nodes -> Nodes] /\ e \in [Nodes -> Nat]
  BY <1>0, <1>4, <1>6, <1>7
<1>10. /\ q[ra] = rb
       /\ \A n \in Nodes : n # ra => q[n] = p[n]
       /\ \A n \in Nodes : s[n] = IF r[n] = ra THEN rb ELSE r[n]
       /\ \A n \in Nodes : e[n] = IF r[n] = ra THEN d[n] + d[rb] + 1 ELSE d[n]
  BY <1>0, <1>4, <1>6, <1>7
<1>11. ASSUME NEW n \in Nodes
       PROVE  s[n] = IF q[n] = n THEN n ELSE s[q[n]]
  <2>1. CASE n = ra
    BY <2>1, <1>3, <1>10
  <2>2. CASE n # ra
    <3>1. q[n] = p[n] /\ p[n] \in Nodes
      BY <2>2, <1>0, <1>10
    <3>2. CASE p[n] = n
      <4>1. r[n] = n
        BY <3>2, <1>0
      <4> QED
        BY <4>1, <3>1, <3>2, <2>2, <1>10
    <3>3. CASE p[n] # n
      <4>1. r[n] = r[p[n]]
        BY <3>3, <1>0
      <4> QED
        BY <4>1, <3>1, <3>3, <1>10
    <3> QED
      BY <3>2, <3>3
  <2> QED
    BY <2>1, <2>2
<1>12. ASSUME NEW n \in Nodes, q[n] # n
       PROVE  e[q[n]] < e[n]
  <2>1. CASE n = ra
    <3>1. rb # ra /\ q[n] = rb
      BY <2>1, <1>10, <1>12
    <3>2. e[rb] = d[rb] /\ e[ra] = d[ra] + d[rb] + 1
      BY <3>1, <1>3, <1>10
    <3>3. d[ra] \in Nat /\ d[rb] \in Nat
      BY <1>0
    <3> QED
      BY <2>1, <3>1, <3>2, <3>3
  <2>2. CASE n # ra
    <3>1. q[n] = p[n] /\ p[n] \in Nodes /\ p[n] # n
      BY <2>2, <1>0, <1>10, <1>12
    <3>2. r[n] = r[p[n]] /\ d[p[n]] < d[n]
      BY <3>1, <1>0
    <3>3. d[n] \in Nat /\ d[p[n]] \in Nat /\ d[rb] \in Nat
      BY <3>1, <1>0
    <3>4. e[n] = (IF r[n] = ra THEN d[n] + d[rb] + 1 ELSE d[n])
      BY <1>10
    <3>5. e[p[n]] = (IF r[n] = ra THEN d[p[n]] + d[rb] + 1 ELSE d[p[n]])
      BY <3>1, <3>2, <1>10
    <3> QED
      BY <3>1, <3>2, <3>3, <3>4, <3>5
  <2> QED
    BY <2>1, <2>2
<1>13. ASSUME NEW n \in Nodes
       PROVE  q[s[n]] = s[n]
  <2>1. CASE r[n] = ra
    BY <2>1, <1>3, <1>10
  <2>2. CASE r[n] # ra
    BY <2>2, <1>0, <1>10
  <2> QED
    BY <2>1, <2>2
<1> QED
  BY <1>5, <1>8, <1>9, <1>11, <1>12, <1>13 DEF Tree

\* Being connected is an equivalence, and every line connects its ends.
LEMMA ConnectedReflexive ==
  ASSUME NEW cs, NEW n \in Nodes
  PROVE  n \in ConnectedWith(cs, n) /\ ClosedUnderLines(cs, ConnectedWith(cs, n))
<1>1. n \in ConnectedWith(cs, n)
  BY DEF ConnectedWith
<1>2. ASSUME NEW k \in ConnectedWith(cs, n), NEW l \in Nodes, Joined(cs, k, l)
      PROVE  l \in ConnectedWith(cs, n)
  <2>1. ASSUME NEW S \in SUBSET Nodes, n \in S, ClosedUnderLines(cs, S)
        PROVE  l \in S
    <3>1. k \in S
      BY <2>1 DEF ConnectedWith
    <3> QED
      BY <3>1, <2>1, <1>2 DEF ClosedUnderLines
  <2> QED
    BY <2>1 DEF ConnectedWith
<1> QED
  BY <1>1, <1>2 DEF ClosedUnderLines

LEMMA ConnectedTransitive ==
  ASSUME NEW cs, NEW n \in Nodes, NEW m \in ConnectedWith(cs, n), NEW k \in ConnectedWith(cs, m)
  PROVE  k \in ConnectedWith(cs, n)
<1>1. ConnectedWith(cs, n) \in SUBSET Nodes
  BY DEF ConnectedWith
<1>2. ClosedUnderLines(cs, ConnectedWith(cs, n))
  BY ConnectedReflexive
<1> QED
  BY <1>1, <1>2 DEF ConnectedWith

LEMMA ConnectedSymmetric ==
  ASSUME NEW cs, NEW n \in Nodes, NEW m \in ConnectedWith(cs, n)
  PROVE  n \in ConnectedWith(cs, m)
<1> DEFINE S == {k \in Nodes : n \in ConnectedWith(cs, k)}
<1>1. n \in S
  BY ConnectedReflexive
<1>2. ASSUME NEW k \in S, NEW l \in Nodes, Joined(cs, k, l)
      PROVE  l \in S
  <2>1. Joined(cs, l, k) /\ k \in Nodes
    BY <1>2 DEF Joined
  <2>2. k \in ConnectedWith(cs, l)
    BY <2>1, ConnectedReflexive DEF ClosedUnderLines
  <2> QED
    BY <2>1, <2>2, ConnectedTransitive
<1>3. S \in SUBSET Nodes /\ ClosedUnderLines(cs, S)
  BY <1>2 DEF ClosedUnderLines
<1>4. m \in S
  <2> HIDE DEF S
  <2> QED
    BY <1>1, <1>3 DEF ConnectedWith
<1> QED
  BY <1>4

\* The ends of the i-th component, if it is a line.
LEMMA LineEnds ==
  ASSUME NEW cs, WellFormed(cs), NEW i \in 1..Len(cs), cs[i].kind \in LineKinds
  PROVE  /\ cs[i].nodes[1] \in Nodes /\ cs[i].nodes[2] \in Nodes
         /\ Joined(cs, cs[i].nodes[1], cs[i].nodes[2])
<1>1. cs \in Seq(Component) /\ i \in DOMAIN cs /\ cs[i] \in Component
  BY DEF WellFormed
<1>2. cs[i].nodes \in Seq(Nodes) /\ Len(cs[i].nodes) = 2
  BY <1>1 DEF WellFormed, Component
<1>3. cs[i].nodes[1] \in Nodes /\ cs[i].nodes[2] \in Nodes
  BY <1>2
<1> QED
  BY <1>1, <1>3 DEF Joined, LineKinds

\* What the loop over the lines makes of the forest with the i-th component.
WithComponent(cs, i, parent) ==
  IF cs[i].kind \notin LineKinds THEN parent
  ELSE UniteZones(parent, cs[i].nodes[1], cs[i].nodes[2])
SeparateNodes == [n \in Nodes |-> n]

\* The forests of the loop exist for every number of components ...
LEMMA LoopRuns ==
  ASSUME NEW cs, NEW L \in Nat
  PROVE  \E g : g = [i \in 0..L |-> IF i = 0 THEN SeparateNodes
                                   ELSE WithComponent(cs, i, g[i - 1])]
<1> DEFINE Runs(k) == \E g : g = [i \in 0..k |-> IF i = 0 THEN SeparateNodes
                                                ELSE WithComponent(cs, i, g[i - 1])]
           Not == {k \in Nat : ~Runs(k)}
<1>1. ASSUME Not # {}
      PROVE  FALSE
  <2>1. PICK m \in Not : \A k \in Not : m <= k
    <3>1. Not \in SUBSET Nat
      OBVIOUS
    <3> HIDE DEF Not
    <3> QED
      BY <1>1, <3>1, LeastNumber
  <2>2. m \in Nat /\ ~Runs(m)
    BY <2>1
  <2>3. CASE m = 0
    <3> DEFINE g == [i \in 0..0 |-> SeparateNodes]
    <3>1. g = [i \in 0..0 |-> IF i = 0 THEN SeparateNodes ELSE WithComponent(cs, i, g[i - 1])]
      OBVIOUS
    <3> HIDE DEF g
    <3> QED
      BY <2>2, <2>3, <3>1
  <2>4. CASE m # 0
    <3>1. m - 1 \in Nat /\ m - 1 \notin Not
      BY <2>1, <2>2, <2>4
    <3>2. Runs(m - 1)
      BY <3>1
    <3>3. PICK g : g = [i \in 0..(m - 1) |-> IF i = 0 THEN SeparateNodes
                                            ELSE WithComponent(cs, i, g[i - 1])]
      BY <3>2
    <3>4. PICK h : h = [i \in 0..m |-> IF i < m THEN g[i] ELSE WithComponent(cs, i, g[i - 1])]
      OBVIOUS
    <3>5. \A i \in 0..(m - 1) : h[i] = g[i]
      BY <3>4, <2>2
    <3>6. ASSUME NEW i \in 0..m
          PROVE  h[i] = IF i = 0 THEN SeparateNodes ELSE WithComponent(cs, i, h[i - 1])
      <4>1. CASE i = 0
        <5>1. h[i] = g[i] /\ g[i] = SeparateNodes
          BY <4>1, <3>3, <3>5, <2>2, <2>4
        <5> QED
          BY <4>1, <5>1
      <4>2. CASE i # 0
        <5>1. i - 1 \in 0..(m - 1) /\ h[i - 1] = g[i - 1]
          BY <4>2, <3>5, <2>2
        <5>2. h[i] = WithComponent(cs, i, g[i - 1])
          <6>1. CASE i < m
            <7>1. i \in 0..(m - 1)
              BY <6>1, <2>2
            <7>2. h[i] = g[i] /\ g[i] = WithComponent(cs, i, g[i - 1])
              BY <7>1, <4>2, <3>3, <3>5
            <7> QED
              BY <7>2
          <6>2. CASE ~(i < m)
            BY <6>2, <3>4
          <6> QED
            BY <6>1, <6>2
        <5> QED
          BY <4>2, <5>1, <5>2
      <4> QED
        BY <4>1, <4>2
    <3>7. h = [i \in 0..m |-> IF i = 0 THEN SeparateNodes ELSE WithComponent(cs, i, h[i - 1])]
      BY <3>4, <3>6
    <3> QED
      BY <3>7, <2>2
  <2> QED
    BY <2>3, <2>4
<1> HIDE DEF Runs
<1>2. Runs(L)
  BY <1>1
<1> QED
  BY <1>2 DEF Runs

\* ... and the last of them is zoneParent.
LEMMA LoopResult ==
  ASSUME NEW cs, Len(cs) \in Nat
  PROVE  \E g : /\ g[0] = SeparateNodes
                /\ \A i \in 1..Len(cs) : g[i] = WithComponent(cs, i, g[i - 1])
                /\ ZoneParent(cs) = g[Len(cs)]
<1> DEFINE after == CHOOSE g : g = [i \in 0..Len(cs) |->
                      IF i = 0 THEN SeparateNodes ELSE WithComponent(cs, i, g[i - 1])]
<1>1. after = [i \in 0..Len(cs) |->
                 IF i = 0 THEN SeparateNodes ELSE WithComponent(cs, i, after[i - 1])]
  BY LoopRuns
<1>2. ZoneParent(cs) = after[Len(cs)]
  BY DEF ZoneParent, SeparateNodes, WithComponent
<1> HIDE DEF after
<1>3. after[0] = SeparateNodes
  BY <1>1
<1>4. \A i \in 1..Len(cs) : after[i] = WithComponent(cs, i, after[i - 1])
  BY <1>1
<1> QED
  BY <1>2, <1>3, <1>4

\* What holds after i components: the ends of every line so far have one root,
\* and a node and its root are connected.
Joins(cs, i, root) ==
  /\ \A j \in 1..i : cs[j].kind \in LineKinds =>
       root[cs[j].nodes[1]] = root[cs[j].nodes[2]]
  /\ \A n \in Nodes : root[n] \in ConnectedWith(cs, n)
ForestAfter(cs, i, parent) ==
  \E root, depth : Tree(parent, root, depth) /\ Joins(cs, i, root)

LEMMA ForestAtStart ==
  ASSUME NEW cs
  PROVE  ForestAfter(cs, 0, SeparateNodes)
<1> DEFINE depth == [n \in Nodes |-> 0]
<1>1. Tree(SeparateNodes, SeparateNodes, depth)
  BY DEF Tree, SeparateNodes
<1>2. Joins(cs, 0, SeparateNodes)
  BY ConnectedReflexive DEF Joins, SeparateNodes
<1> QED
  BY <1>1, <1>2 DEF ForestAfter

LEMMA ForestAfterComponent ==
  ASSUME NEW cs, WellFormed(cs), NEW i \in 1..Len(cs), NEW p, ForestAfter(cs, i - 1, p)
  PROVE  ForestAfter(cs, i, WithComponent(cs, i, p))
<1>0. PICK r, d : Tree(p, r, d) /\ Joins(cs, i - 1, r)
  BY DEF ForestAfter
<1>i. Len(cs) \in Nat /\ i \in Nat \ {0}
  BY DEF WellFormed
<1>1. CASE cs[i].kind \notin LineKinds
  <2>1. \A j \in 1..i : j \in 1..(i - 1) \/ j = i
    BY <1>i
  <2>2. Joins(cs, i, r)
    BY <2>1, <1>0, <1>1 DEF Joins
  <2> QED
    BY <2>2, <1>0, <1>1 DEF ForestAfter, WithComponent
<1>2. CASE cs[i].kind \in LineKinds
  <2>1. PICK a \in Nodes : a = cs[i].nodes[1]
    BY <1>2, LineEnds
  <2>2. PICK b \in Nodes : b = cs[i].nodes[2]
    BY <1>2, LineEnds
  <2>3. PICK s : s = HookedRoot(r, a, b)
    OBVIOUS
  <2>4. Tree(UniteZones(p, a, b), s, HookedDepth(r, d, a, b))
    BY <1>0, <2>3, UniteKeepsTree
  <2>5. r \in [Nodes -> Nodes] /\ \A n \in Nodes : s[n] = IF r[n] = r[a] THEN r[b] ELSE r[n]
    BY <1>0, <2>3 DEF HookedRoot, Tree
  <2>6. ASSUME NEW j \in 1..i, cs[j].kind \in LineKinds
        PROVE  s[cs[j].nodes[1]] = s[cs[j].nodes[2]]
    <3>1. cs[j].nodes[1] \in Nodes /\ cs[j].nodes[2] \in Nodes
      BY <2>6, <1>i, LineEnds
    <3>2. CASE j = i
      BY <3>1, <3>2, <2>1, <2>2, <2>5
    <3>3. CASE j # i
      <4>1. j \in 1..(i - 1)
        BY <3>3, <1>i
      <4>2. r[cs[j].nodes[1]] = r[cs[j].nodes[2]]
        BY <4>1, <2>6, <1>0 DEF Joins
      <4> QED
        BY <3>1, <4>2, <2>5
    <3> QED
      BY <3>2, <3>3
  <2>7. ASSUME NEW n \in Nodes
        PROVE  s[n] \in ConnectedWith(cs, n)
    <3>1. r[n] \in ConnectedWith(cs, n)
      BY <1>0 DEF Joins
    <3>2. CASE r[n] # r[a]
      BY <3>1, <3>2, <2>5
    <3>3. CASE r[n] = r[a]
      <4>1. r[a] \in ConnectedWith(cs, a) /\ r[b] \in ConnectedWith(cs, b) /\ r[a] \in Nodes
        BY <1>0, <2>5 DEF Joins
      <4>2. a \in ConnectedWith(cs, r[a])
        BY <4>1, ConnectedSymmetric
      <4>3. a \in ConnectedWith(cs, n)
        BY <3>1, <3>3, <4>2, ConnectedTransitive
      <4>4. b \in ConnectedWith(cs, a)
        <5>1. Joined(cs, a, b)
          BY <1>2, <2>1, <2>2, LineEnds
        <5> QED
          BY <5>1, ConnectedReflexive DEF ClosedUnderLines
      <4>5. r[b] \in ConnectedWith(cs, a)
        BY <4>1, <4>4, ConnectedTransitive
      <4>6. r[b] \in ConnectedWith(cs, n)
        BY <4>3, <4>5, ConnectedTransitive
      <4> QED
        BY <4>6, <3>3, <2>5
    <3> QED
      BY <3>2, <3>3
  <2>8. Joins(cs, i, s)
    BY <2>6, <2>7 DEF Joins
  <2>9. WithComponent(cs, i, p) = UniteZones(p, a, b)
    BY <1>2, <2>1, <2>2 DEF WithComponent
  <2> QED
    BY <2>4, <2>8, <2>9 DEF ForestAfter
<1> QED
  BY <1>1, <1>2

LEMMA ForestOfLines ==
  ASSUME NEW cs, WellFormed(cs)
  PROVE  ForestAfter(cs, Len(cs), ZoneParent(cs))
<1>0. Len(cs) \in Nat
  BY DEF WellFormed
<1>1. PICK g : /\ g[0] = SeparateNodes
               /\ \A i \in 1..Len(cs) : g[i] = WithComponent(cs, i, g[i - 1])
               /\ ZoneParent(cs) = g[Len(cs)]
  BY <1>0, LoopResult
<1> DEFINE Bad == {i \in 0..Len(cs) : ~ForestAfter(cs, i, g[i])}
<1>2. ASSUME Bad # {}
      PROVE  FALSE
  <2>1. PICK m \in Bad : \A k \in Bad : m <= k
    <3>1. Bad \in SUBSET Nat
      BY <1>0
    <3> HIDE DEF Bad
    <3> QED
      BY <1>2, <3>1, LeastNumber
  <2>2. m \in 0..Len(cs) /\ ~ForestAfter(cs, m, g[m])
    BY <2>1
  <2>3. m # 0
    BY <2>2, <1>1, ForestAtStart
  <2>4. m - 1 \in 0..Len(cs) /\ m \in 1..Len(cs) /\ ~(m <= m - 1)
    BY <2>2, <2>3, <1>0
  <2>5. ForestAfter(cs, m - 1, g[m - 1])
    BY <2>1, <2>4
  <2>6. ForestAfter(cs, m, WithComponent(cs, m, g[m - 1]))
    BY <2>4, <2>5, ForestAfterComponent
  <2> QED
    BY <2>2, <2>4, <2>6, <1>1
<1>3. ForestAfter(cs, Len(cs), g[Len(cs)])
  BY <1>0, <1>2
<1> QED
  BY <1>1, <1>3

\* Two nodes are in one zone exactly if lines connect them.
LEMMA ZonesAreConnected ==
  ASSUME NEW cs, WellFormed(cs)
  PROVE  /\ Zone(cs) \in [Nodes -> Nodes]
         /\ \A n, m \in Nodes : Zone(cs)[n] = Zone(cs)[m] <=> m \in ConnectedWith(cs, n)
<1>1. PICK r, d : Tree(ZoneParent(cs), r, d) /\ Joins(cs, Len(cs), r)
  BY ForestOfLines DEF ForestAfter
<1>2. Zone(cs) = r
  BY <1>1, FindZoneIsRoot DEF Zone
<1>3. r \in [Nodes -> Nodes]
  BY <1>1 DEF Tree
<1>4. ASSUME NEW n \in Nodes, NEW m \in Nodes, r[n] = r[m]
      PROVE  m \in ConnectedWith(cs, n)
  <2>1. r[n] \in ConnectedWith(cs, n) /\ r[m] \in ConnectedWith(cs, m)
    BY <1>1 DEF Joins
  <2>2. m \in ConnectedWith(cs, r[m])
    BY <2>1, ConnectedSymmetric
  <2> QED
    BY <2>1, <2>2, <1>4, ConnectedTransitive
<1>5. ASSUME NEW n \in Nodes, NEW m \in ConnectedWith(cs, n)
      PROVE  r[n] = r[m]
  <2> DEFINE S == {k \in Nodes : r[k] = r[n]}
  <2>1. ASSUME NEW k \in S, NEW l \in Nodes, Joined(cs, k, l)
        PROVE  l \in S
    <3>1. PICK i \in DOMAIN cs : /\ cs[i].kind \in LineKinds
                                 /\ {k, l} = {cs[i].nodes[1], cs[i].nodes[2]}
      BY <2>1 DEF Joined, LineKinds
    <3>2. i \in 1..Len(cs)
      BY DEF WellFormed
    <3>3. r[cs[i].nodes[1]] = r[cs[i].nodes[2]]
      BY <3>1, <3>2, <1>1 DEF Joins
    <3>4. (k = cs[i].nodes[1] /\ l = cs[i].nodes[2]) \/ (k = cs[i].nodes[2] /\ l = cs[i].nodes[1])
          \/ k = l
      BY <3>1
    <3> QED
      BY <3>3, <3>4
  <2>2. S \in SUBSET Nodes /\ n \in S /\ ClosedUnderLines(cs, S)
    BY <2>1 DEF ClosedUnderLines
  <2>3. m \in S
    <3> HIDE DEF S
    <3> QED
      BY <2>2 DEF ConnectedWith
  <2> QED
    BY <2>3
<1>6. \A n, m \in Nodes : r[n] = r[m] <=> m \in ConnectedWith(cs, n)
  BY <1>4, <1>5
<1> QED
  BY <1>2, <1>3, <1>6

-----------------------------------------------------------------------------
(* Base voltages.                                                           *)

\* A voltage differs from itself in no tolerance, and what differs in a wide
\* tolerance differs in a narrow one.
LEMMA WiderTolerance ==
  ASSUME NEW s \in Nat, NEW t \in Nat, s <= t, NEW x \in Int, NEW y \in Int
  PROVE  /\ ~Differs(x, x, t)
         /\ Differs(x, y, t) => Differs(x, y, s)
<1>1. \A z \in Int : Magnitude(z) \in Nat
  BY DEF Magnitude
<1>2. PICK w \in Nat : w = Larger(Magnitude(x), Magnitude(y))
  BY <1>1 DEF Larger
<1>3. s * w <= t * w
  <2>1. PICK u \in Nat : t = s + u
    <3>1. t - s \in Nat /\ t = s + (t - s)
      OBVIOUS
    <3> QED
      BY <3>1
  <2>2. t * w = s * w + u * w
    BY <2>1
  <2>3. u * w \in Nat /\ s * w \in Nat
    OBVIOUS
  <2> QED
    BY <2>2, <2>3
<1>4. Differs(x, y, t) => Differs(x, y, s)
  <2>1. PICK k \in Nat : k = Magnitude(x - y)
    BY <1>1
  <2>2. s * w \in Nat /\ t * w \in Nat
    OBVIOUS
  <2> QED
    BY <1>2, <1>3, <2>1, <2>2 DEF Differs
<1>5. ~Differs(x, x, t)
  <2>1. PICK k \in Nat : k = Larger(Magnitude(x), Magnitude(x))
    BY <1>1 DEF Larger
  <2>2. Magnitude(x - x) = 0 /\ t * k \in Nat
    BY DEF Magnitude
  <2> QED
    BY <2>1, <2>2 DEF Differs
<1> QED
  BY <1>4, <1>5

\* A component has a voltage at each of its nodes, a load its rating.
LEMMA VoltageAtNode ==
  ASSUME NEW cs, WellFormed(cs), NEW n \in Nodes, NEW i \in At(cs, n)
  PROVE  /\ i \in 1..Len(cs)
         /\ ComponentBaseVoltage(cs[i], n) \in Int
         /\ cs[i].kind = "Load" => /\ cs[i].nodes[1] = n
                                   /\ ComponentBaseVoltage(cs[i], n) = cs[i].rating[1]
<1>1. i \in DOMAIN cs /\ cs \in Seq(Component) /\ cs[i] \in Component
  BY DEF WellFormed, At
<1>2. PICK c \in Component : c = cs[i]
  BY <1>1
<1>3. c.nodes \in Seq(Nodes) /\ c.rating \in Seq(Int) /\ Len(c.rating) = Len(c.nodes)
  BY <1>1, <1>2 DEF Component, WellFormed
<1> DEFINE T == {k \in DOMAIN c.nodes : c.nodes[k] = n}
<1>4. T \in SUBSET Nat /\ T # {}
  BY <1>2, <1>3 DEF At
<1>5. PICK t \in T : \A k \in T : t <= k
  <2> HIDE DEF T
  <2> QED
    BY <1>4, LeastNumber
<1>6. t \in DOMAIN c.nodes /\ c.nodes[t] = n /\ \A j \in 1..(t - 1) : c.nodes[j] # n
  <2>1. t \in 1..Len(c.nodes) /\ c.nodes[t] = n
    BY <1>3, <1>5
  <2>2. ASSUME NEW j \in 1..(t - 1), c.nodes[j] = n
        PROVE  FALSE
    <3>1. j \in T
      BY <2>1, <2>2, <1>3
    <3> QED
      BY <3>1, <1>5, <2>1
  <2> QED
    BY <2>1, <2>2, <1>3
<1>7. PICK u : u = (CHOOSE k \in DOMAIN c.nodes : c.nodes[k] = n /\ \A j \in 1..(k - 1) : c.nodes[j] # n)
  OBVIOUS
<1>8. u \in DOMAIN c.nodes /\ c.nodes[u] = n
  BY <1>6, <1>7
<1>9. ComponentBaseVoltage(c, n) = c.rating[u]
  BY <1>7 DEF ComponentBaseVoltage
<1>10. c.rating[u] \in Int
  BY <1>3, <1>8
<1>11. c.kind = "Load" => u = 1
  <2>1. c.kind = "Load" => Len(c.nodes) = 1
    BY <1>1, <1>2 DEF WellFormed
  <2> QED
    BY <2>1, <1>3, <1>8
<1> QED
  BY <1>1, <1>2, <1>8, <1>9, <1>10, <1>11

\* Of some proposals one comes first.
LEMMA FirstIsOne ==
  ASSUME NEW P \in SUBSET (Nat \X Nat), P # {}
  PROVE  First(P) \in P
<1> DEFINE A == {p[1] : p \in P}
<1>1. PICK a \in A : \A k \in A : a <= k
  <2>1. A \in SUBSET Nat /\ A # {}
    OBVIOUS
  <2> HIDE DEF A
  <2> QED
    BY <2>1, LeastNumber
<1> DEFINE B == {p[2] : p \in {q \in P : q[1] = a}}
<1>2. PICK b \in B : \A k \in B : b <= k
  <2>1. B \in SUBSET Nat /\ B # {}
    BY <1>1
  <2> HIDE DEF B
  <2> QED
    BY <2>1, LeastNumber
<1>3. PICK p \in P : p[1] = a /\ p[2] = b
  BY <1>2
<1>4. ASSUME NEW q \in P
      PROVE  p[1] < q[1] \/ (p[1] = q[1] /\ p[2] <= q[2])
  <2>1. q[1] \in Nat /\ q[2] \in Nat /\ a \in Nat /\ a <= q[1]
    BY <1>1
  <2>2. q[1] = a => b <= q[2]
    BY <1>2
  <2> QED
    BY <2>1, <2>2, <1>3
<1> QED
  BY <1>3, <1>4 DEF First

\* All proposals for a zone.
Candidates(cs, z) == Proposals(cs, z, TRUE) \cup Proposals(cs, z, FALSE)

\* A component proposes its voltage for the zone of its node.
LEMMA CandidatesOf ==
  ASSUME NEW cs, WellFormed(cs), NEW n \in Nodes, NEW i \in At(cs, n),
         ComponentBaseVoltage(cs[i], n) # 0
  PROVE  /\ cs[i].kind \in AuthoritativeKinds => <<n, i>> \in Proposals(cs, Zone(cs)[n], TRUE)
         /\ cs[i].kind \notin AuthoritativeKinds => <<n, i>> \in Proposals(cs, Zone(cs)[n], FALSE)
         /\ <<n, i>> \in Candidates(cs, Zone(cs)[n])
         /\ Proposed(cs, <<n, i>>) = ComponentBaseVoltage(cs[i], n)
<1>1. i \in DOMAIN cs
  BY DEF At
<1>2. cs[i].kind \in AuthoritativeKinds => <<n, i>> \in Proposals(cs, Zone(cs)[n], TRUE)
  BY <1>1 DEF Proposals
<1>3. cs[i].kind \notin AuthoritativeKinds => <<n, i>> \in Proposals(cs, Zone(cs)[n], FALSE)
  BY <1>1 DEF Proposals
<1> QED
  BY <1>2, <1>3 DEF Proposed, Candidates

\* And every proposal is one of a component at a node of the zone.
LEMMA CandidateIs ==
  ASSUME NEW cs, WellFormed(cs), NEW z, NEW p \in Candidates(cs, z)
  PROVE  /\ p[1] \in Nodes /\ p[2] \in At(cs, p[1]) /\ Zone(cs)[p[1]] = z
         /\ Proposed(cs, p) = ComponentBaseVoltage(cs[p[2]], p[1])
         /\ Proposed(cs, p) \in Int /\ Proposed(cs, p) # 0
<1>1. /\ p[1] \in Nodes /\ p[2] \in At(cs, p[1]) /\ Zone(cs)[p[1]] = z
      /\ ComponentBaseVoltage(cs[p[2]], p[1]) # 0
  BY DEF Candidates, Proposals
<1> QED
  BY <1>1, VoltageAtNode DEF Proposed

\* The voltage of a zone is proposed for it; without proposals it is 0.
LEMMA ZoneVoltageProposed ==
  ASSUME NEW cs, WellFormed(cs), NEW z
  PROVE  /\ Candidates(cs, z) = {} => ZoneVoltage(cs, z) = 0
         /\ Candidates(cs, z) # {} =>
              \E p \in Candidates(cs, z) : ZoneVoltage(cs, z) = Proposed(cs, p)
<1> DEFINE strong == Proposals(cs, z, TRUE)
           weak == Proposals(cs, z, FALSE)
<1>1. strong \in SUBSET (Nat \X Nat) /\ weak \in SUBSET (Nat \X Nat)
  <2>1. Nodes \in SUBSET Nat
    BY ZonesAssumption DEF Nodes
  <2>2. DOMAIN cs \in SUBSET Nat
    BY DEF WellFormed
  <2> QED
    BY <2>1, <2>2 DEF Proposals
<1>2. ZoneVoltage(cs, z) = IF strong # {} THEN Proposed(cs, First(strong))
                           ELSE IF weak # {} THEN Proposed(cs, First(weak)) ELSE 0
  BY DEF ZoneVoltage
<1>3. Candidates(cs, z) = strong \cup weak
  BY DEF Candidates
<1> HIDE DEF strong, weak
<1>4. (strong # {} => First(strong) \in strong) /\ (weak # {} => First(weak) \in weak)
  BY <1>1, FirstIsOne
<1> QED
  BY <1>2, <1>3, <1>4

LEMMA ZoneVoltageType ==
  ASSUME NEW cs, WellFormed(cs), NEW z
  PROVE  ZoneVoltage(cs, z) \in Int
BY ZoneVoltageProposed, CandidateIs

\* A system is rejected only if two components of one zone have voltages that
\* differ.
LEMMA MismatchIsReal ==
  ASSUME StrictTolerance <= LooseTolerance, WellFormed(comps), ZoneMismatch(comps)
  PROVE  LevelsWiredTogether
<1>1. PICK z \in Nodes, t \in {StrictTolerance, LooseTolerance} :
        \E p \in Candidates(comps, z) : Differs(Proposed(comps, p), ZoneVoltage(comps, z), t)
  BY DEF ZoneMismatch, Mismatch, Candidates
<1>2. PICK p \in Candidates(comps, z) : Differs(Proposed(comps, p), ZoneVoltage(comps, z), t)
  BY <1>1
<1>3. PICK q \in Candidates(comps, z) : ZoneVoltage(comps, z) = Proposed(comps, q)
  BY ZoneVoltageProposed
<1>4. /\ p[1] \in Nodes /\ p[2] \in At(comps, p[1]) /\ Zone(comps)[p[1]] = z
      /\ Proposed(comps, p) = ComponentBaseVoltage(comps[p[2]], p[1])
      /\ Proposed(comps, p) \in Int /\ Proposed(comps, p) # 0
  BY CandidateIs
<1>5. /\ q[1] \in Nodes /\ q[2] \in At(comps, q[1]) /\ Zone(comps)[q[1]] = z
      /\ Proposed(comps, q) = ComponentBaseVoltage(comps[q[2]], q[1])
      /\ Proposed(comps, q) \in Int /\ Proposed(comps, q) # 0
  BY CandidateIs
<1>6. Differs(Proposed(comps, p), Proposed(comps, q), StrictTolerance)
  BY <1>2, <1>3, <1>4, <1>5, WiderTolerance, ZonesAssumption
<1>7. p[1] \in ConnectedWith(comps, p[1]) /\ q[1] \in ConnectedWith(comps, p[1])
  BY <1>4, <1>5, ZonesAreConnected
<1> QED
  BY <1>4, <1>5, <1>6, <1>7 DEF LevelsWiredTogether

\* Taking over a voltage changes the rating of a load and nothing else.
LEMMA Synced ==
  ASSUME NEW cs, WellFormed(cs), NEW i \in 1..Len(cs)
  PROVE  /\ SyncLoads(cs)[i].kind = cs[i].kind /\ SyncLoads(cs)[i].nodes = cs[i].nodes
         /\ cs[i].kind # "Load" => SyncLoads(cs)[i] = cs[i]
         /\ SyncLoads(cs)[i] \in Component
         /\ Len(SyncLoads(cs)[i].rating) = Len(cs[i].rating)
         /\ cs[i].kind = "Load" =>
              LET v == ZoneVoltage(cs, Zone(cs)[cs[i].nodes[1]])
              IN  IF v # 0 THEN SyncLoads(cs)[i].rating[1] = v ELSE SyncLoads(cs)[i] = cs[i]
<1>1. i \in DOMAIN cs /\ cs[i] \in Component
  BY DEF WellFormed
<1>2. PICK v \in Int : v = ZoneVoltage(cs, Zone(cs)[cs[i].nodes[1]])
  BY ZoneVoltageType
<1>3. SyncLoads(cs)[i] = IF cs[i].kind = "Load" /\ v # 0
                         THEN [cs[i] EXCEPT !.rating = <<v>>] ELSE cs[i]
  BY <1>1, <1>2 DEF SyncLoads
<1>4. PICK c \in Component : c = cs[i]
  BY <1>1
<1>5. cs[i].kind = "Load" => Len(cs[i].rating) = 1
  BY <1>1 DEF WellFormed
<1>6. PICK e : e = [c EXCEPT !.rating = <<v>>]
  OBVIOUS
<1>7. e \in Component /\ e.kind = c.kind /\ e.nodes = c.nodes /\ e.rating = <<v>>
  <2>1. c = [kind |-> c.kind, nodes |-> c.nodes, rating |-> c.rating, bus |-> c.bus]
    BY DEF Component
  <2>2. e = [kind |-> c.kind, nodes |-> c.nodes, rating |-> <<v>>, bus |-> c.bus]
    BY <1>6, <2>1
  <2>3. c.kind \in STRING /\ c.nodes \in Seq(Nodes) /\ c.bus \in STRING
    BY DEF Component
  <2>4. <<v>> \in Seq(Int)
    OBVIOUS
  <2> QED
    BY <2>2, <2>3, <2>4 DEF Component
<1>8. CASE cs[i].kind = "Load" /\ v # 0
  <2>1. SyncLoads(cs)[i] = e
    BY <1>3, <1>4, <1>6, <1>8
  <2>2. Len(e.rating) = 1 /\ e.rating[1] = v
    BY <1>7
  <2> QED
    BY <2>1, <2>2, <1>2, <1>4, <1>5, <1>7, <1>8
<1>9. CASE ~(cs[i].kind = "Load" /\ v # 0)
  <2>1. SyncLoads(cs)[i] = cs[i]
    BY <1>3, <1>9
  <2> QED
    BY <2>1, <1>1, <1>2, <1>9
<1> QED
  BY <1>8, <1>9

LEMMA SyncedWellFormed ==
  ASSUME NEW cs, WellFormed(cs)
  PROVE  /\ WellFormed(SyncLoads(cs))
         /\ \A n \in Nodes : At(SyncLoads(cs), n) = At(cs, n)
         /\ \A n \in Nodes : ConnectedWith(SyncLoads(cs), n) = ConnectedWith(cs, n)
         /\ NoBranch(SyncLoads(cs)) <=> NoBranch(cs)
<1>1. PICK sy : sy = SyncLoads(cs)
  OBVIOUS
<1>2. DOMAIN sy = DOMAIN cs /\ DOMAIN cs = 1..Len(cs) /\ Len(cs) \in Nat
  BY <1>1 DEF SyncLoads, WellFormed
<1>3. \A i \in 1..Len(cs) : /\ sy[i].kind = cs[i].kind /\ sy[i].nodes = cs[i].nodes
                            /\ sy[i] \in Component /\ Len(sy[i].rating) = Len(cs[i].rating)
  BY <1>1, Synced
<1>4. sy \in Seq(Component) /\ Len(sy) = Len(cs)
  <2>1. sy = [i \in 1..Len(cs) |-> sy[i]]
    BY <1>1, <1>2 DEF SyncLoads
  <2> QED
    BY <2>1, <1>2, <1>3
<1>5. WellFormed(sy)
  BY <1>2, <1>3, <1>4 DEF WellFormed
<1>6. \A n \in Nodes : At(sy, n) = At(cs, n)
  BY <1>2, <1>3 DEF At
<1>7. \A k, l : Joined(sy, k, l) <=> Joined(cs, k, l)
  BY <1>2, <1>3 DEF Joined
<1>8. \A S : ClosedUnderLines(sy, S) <=> ClosedUnderLines(cs, S)
  BY <1>7 DEF ClosedUnderLines
<1>9. \A n \in Nodes : ConnectedWith(sy, n) = ConnectedWith(cs, n)
  BY <1>8 DEF ConnectedWith
<1>10. NoBranch(sy) <=> NoBranch(cs)
  BY <1>2, <1>3 DEF NoBranch
<1> QED
  BY <1>1, <1>5, <1>6, <1>9, <1>10

\* In an accepted system every component agrees with the voltage of its zone.
LEMMA AcceptedAgree ==
  ASSUME StrictTolerance <= LooseTolerance, NEW cs, WellFormed(cs), ~ZoneMismatch(cs),
         NEW m \in Nodes, NEW i \in At(cs, m)
  PROVE  LET r == ComponentBaseVoltage(SyncLoads(cs)[i], m)
             v == ZoneVoltage(cs, Zone(cs)[m])
         IN  /\ cs[i].kind = "Load" => r = v
             /\ r # 0 => ~Differs(r, v, LooseTolerance)
             /\ r # 0 /\ cs[i].kind \in AuthoritativeKinds => ~Differs(r, v, StrictTolerance)
<1>1. PICK z \in Nodes : z = Zone(cs)[m]
  BY ZonesAreConnected
<1>2. PICK v \in Int : v = ZoneVoltage(cs, z)
  BY ZoneVoltageType
<1>3. i \in 1..Len(cs) /\ ComponentBaseVoltage(cs[i], m) \in Int
  BY VoltageAtNode
<1>4. PICK sy : sy = SyncLoads(cs)
  OBVIOUS
<1>5. i \in At(sy, m) /\ WellFormed(sy)
  BY <1>4, SyncedWellFormed
<1>6. CASE cs[i].kind = "Load"
  <2>1. sy[i].kind = "Load"
    BY <1>3, <1>4, <1>6, Synced
  <2>2. ComponentBaseVoltage(sy[i], m) = sy[i].rating[1] /\ cs[i].nodes[1] = m
    BY <1>5, <1>6, <2>1, VoltageAtNode
  <2>3. ComponentBaseVoltage(sy[i], m) = v
    <3>1. CASE v # 0
      BY <3>1, <2>2, <1>1, <1>2, <1>3, <1>4, <1>6, Synced
    <3>2. CASE v = 0
      <4>1. sy[i] = cs[i]
        BY <3>2, <2>2, <1>1, <1>2, <1>3, <1>4, <1>6, Synced
      <4>2. ComponentBaseVoltage(cs[i], m) = 0
        <5>1. SUFFICES ASSUME ComponentBaseVoltage(cs[i], m) # 0 PROVE FALSE
          OBVIOUS
        <5>2. Candidates(cs, z) # {}
          BY <5>1, <1>1, CandidatesOf
        <5>3. PICK p \in Candidates(cs, z) : v = Proposed(cs, p)
          BY <5>2, <1>2, ZoneVoltageProposed
        <5> QED
          BY <5>3, <3>2, CandidateIs
      <4> QED
        BY <4>1, <4>2, <3>2
    <3> QED
      BY <3>1, <3>2
  <2>4. ~Differs(v, v, LooseTolerance) /\ ~Differs(v, v, StrictTolerance)
    BY WiderTolerance, ZonesAssumption
  <2> QED
    BY <2>3, <2>4, <1>1, <1>2, <1>4
<1>7. CASE cs[i].kind # "Load"
  <2>1. sy[i] = cs[i]
    BY <1>3, <1>4, <1>7, Synced
  <2>2. PICK r \in Int : r = ComponentBaseVoltage(cs[i], m)
    BY <1>3
  <2>3. ASSUME r # 0, cs[i].kind \in AuthoritativeKinds
        PROVE  ~Differs(r, v, StrictTolerance)
    <3>1. /\ <<m, i>> \in Proposals(cs, z, TRUE) /\ Proposed(cs, <<m, i>>) = r
      BY <2>2, <2>3, <1>1, CandidatesOf
    <3>2. ~Mismatch(cs, Proposals(cs, z, TRUE), v, StrictTolerance)
      BY <1>2 DEF ZoneMismatch
    <3> QED
      BY <3>1, <3>2 DEF Mismatch
  <2>4. ASSUME r # 0, cs[i].kind \notin AuthoritativeKinds
        PROVE  ~Differs(r, v, LooseTolerance)
    <3>1. /\ <<m, i>> \in Proposals(cs, z, FALSE) /\ Proposed(cs, <<m, i>>) = r
      BY <2>2, <2>4, <1>1, CandidatesOf
    <3>2. ~Mismatch(cs, Proposals(cs, z, FALSE), v, LooseTolerance)
      BY <1>2 DEF ZoneMismatch
    <3> QED
      BY <3>1, <3>2 DEF Mismatch
  <2>5. ~Differs(r, v, StrictTolerance) => ~Differs(r, v, LooseTolerance)
    BY WiderTolerance, ZonesAssumption
  <2> QED
    BY <2>1, <2>2, <2>3, <2>4, <2>5, <1>1, <1>2, <1>4, <1>7
<1> QED
  BY <1>6, <1>7

\* The verdict of initialize() is right.
LEMMA InitializeVerifies ==
  ASSUME StrictTolerance <= LooseTolerance, WellFormed(comps), Initialize
  PROVE  BaseVoltagesVerified'
<1>1. CASE ZoneMismatch(comps)
  <2>1. pc' = "rejected" /\ comps' = comps
    BY <1>1 DEF Initialize
  <2>2. LevelsWiredTogether
    BY <1>1, MismatchIsReal
  <2>3. LevelsWiredTogether'
    BY <2>1, <2>2 DEF LevelsWiredTogether
  <2> QED
    BY <2>1, <2>3 DEF BaseVoltagesVerified, Initialized
<1>2. CASE ~ZoneMismatch(comps)
  <2>1. /\ mBaseVoltageAtNode' = BaseVoltageAtNode(comps) /\ comps' = SyncLoads(comps)
        /\ pc' = IF NoBranch(comps) THEN "rejected" ELSE "idle"
    BY <1>2 DEF Initialize
  <2>2. pc' = "rejected" => NoBranch(comps')
    BY <2>1, SyncedWellFormed
  <2>3. PICK cs : cs = comps
    OBVIOUS
  <2>4. ASSUME NEW n \in Nodes, NEW m \in ConnectedWith(cs, n)
        PROVE  /\ m \in Nodes
               /\ ZoneVoltage(cs, Zone(cs)[m]) = ZoneVoltage(cs, Zone(cs)[n])
    <3>1. m \in Nodes
      BY DEF ConnectedWith
    <3> QED
      BY <3>1, <2>3, ZonesAreConnected
  <2>5. ASSUME NEW n \in Nodes, NEW m \in ConnectedWith(comps', n)
        PROVE  /\ mBaseVoltageAtNode'[m] = mBaseVoltageAtNode'[n]
               /\ \A i \in At(comps', m) :
                    LET r == ComponentBaseVoltage(comps'[i], m)
                        v == mBaseVoltageAtNode'[n]
                    IN  /\ comps'[i].kind = "Load" => r = v
                        /\ r # 0 => ~Differs(r, v, LooseTolerance)
                        /\ r # 0 /\ comps'[i].kind \in AuthoritativeKinds
                             => ~Differs(r, v, StrictTolerance)
    <3>1. m \in ConnectedWith(cs, n)
      BY <2>1, <2>3, SyncedWellFormed
    <3>2. m \in Nodes /\ ZoneVoltage(cs, Zone(cs)[m]) = ZoneVoltage(cs, Zone(cs)[n])
      BY <3>1, <2>4
    <3>3. /\ mBaseVoltageAtNode'[m] = ZoneVoltage(cs, Zone(cs)[m])
          /\ mBaseVoltageAtNode'[n] = ZoneVoltage(cs, Zone(cs)[m])
      BY <3>2, <2>1, <2>3 DEF BaseVoltageAtNode
    <3>4. ASSUME NEW i \in At(comps', m)
          PROVE  LET r == ComponentBaseVoltage(comps'[i], m)
                     v == mBaseVoltageAtNode'[n]
                 IN  /\ comps'[i].kind = "Load" => r = v
                     /\ r # 0 => ~Differs(r, v, LooseTolerance)
                     /\ r # 0 /\ comps'[i].kind \in AuthoritativeKinds
                          => ~Differs(r, v, StrictTolerance)
      <4>1. i \in At(cs, m)
        BY <3>2, <2>1, <2>3, SyncedWellFormed
      <4>2. i \in 1..Len(cs)
        BY <4>1, <3>2, <2>3, VoltageAtNode
      <4>3. comps'[i].kind = cs[i].kind /\ comps' = SyncLoads(cs)
        BY <4>2, <2>1, <2>3, Synced
      <4> QED
        BY <4>1, <4>3, <3>2, <3>3, <2>3, <1>2, AcceptedAgree
    <3> QED
      BY <3>3, <3>4
  <2>6. DOMAIN comps' = DOMAIN comps
    BY <2>1 DEF SyncLoads
  <2>7. OneLevelPerZone'
    BY <2>5 DEF OneLevelPerZone
  <2> QED
    BY <2>1, <2>2, <2>7 DEF BaseVoltagesVerified, Initialized
<1> QED
  BY <1>1, <1>2

\* A system is given once and verified once.
LevelsInv ==
  /\ pc = "created" => comps \in Systems
  /\ BaseVoltagesVerified

\* The zones, their voltages and the verdict are right, for every system, in
\* whatever order the lines are listed: an accepted system has one voltage in
\* each zone, with which all ratings there agree, and a rejected one has no
\* branch, or a zone in which two components contradict each other.
THEOREM Verification ==
  ASSUME StrictTolerance <= LooseTolerance
  PROVE  Spec => []BaseVoltagesVerified
<1>1. Init => LevelsInv
  BY DEF Init, LevelsInv, BaseVoltagesVerified, Initialized
<1>2. LevelsInv /\ [Next]_vars => LevelsInv'
  <2> SUFFICES ASSUME LevelsInv, [Next]_vars PROVE LevelsInv'
    OBVIOUS
  <2>1. CASE Initialize
    <3>1. WellFormed(comps) /\ pc' # "created"
      BY <2>1, SystemsAssumption DEF LevelsInv, Initialize
    <3> QED
      BY <2>1, <3>1, InitializeVerifies DEF LevelsInv
  <2>2. CASE UNCHANGED <<comps, mBaseVoltageAtNode>> /\ pc # "created" /\ pc # "rejected"
             /\ pc' # "created" /\ pc' # "rejected"
    BY <2>2 DEF LevelsInv, BaseVoltagesVerified, Initialized, OneLevelPerZone
  <2>3. CASE UNCHANGED vars
    <3>1. UNCHANGED <<comps, mBaseVoltageAtNode, pc>>
      BY <2>3 DEF vars
    <3> QED
      BY <3>1 DEF LevelsInv, BaseVoltagesVerified, Initialized, OneLevelPerZone, LevelsWiredTogether
  <2>4. GenerateInitialSolution \/ NewtonRaphson \/ EnforceReactiveLimits \/ SetSolution
        => UNCHANGED <<comps, mBaseVoltageAtNode>> /\ pc # "created" /\ pc # "rejected"
           /\ pc' # "created" /\ pc' # "rejected"
    BY DEF GenerateInitialSolution, NewtonRaphson, EnforceReactiveLimits, SetSolution
  <2> QED
    BY <2>1, <2>2, <2>3, <2>4 DEF Next, Done
<1>3. LevelsInv => BaseVoltagesVerified
  BY DEF LevelsInv
<1> QED
  BY <1>1, <1>2, <1>3, PTL DEF Spec
=============================================================================
