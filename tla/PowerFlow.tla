------------------------------ MODULE PowerFlow -----------------------------
(***************************************************************************)
(* The power flow solver: initialize(), then one SolveTask per time step,  *)
(* which prepares a start, runs Newton-Raphson, and, if the reactive       *)
(* limits of the generators are enforced, converts buses between PV and PQ *)
(* in an outer loop until no bus switches.                                 *)
(*                                                                         *)
(* The iteration is a parameter: for a classification of the buses,        *)
(* voltages and injections, Solution is what a converged iteration finds.  *)
(* It may also fail to converge at any time.  Only reactive power and      *)
(* voltage magnitudes are kept; active power and angles never decide a     *)
(* step.                                                                   *)
(***************************************************************************)
EXTENDS ElectricalZones

CONSTANTS
  Systems,             \* lists of components a solver may be created for
  VSet,                \* V_set of the generators or the external grid, by node
  Limits,              \* the limits of the reactive power at a node, summed
                       \*   over its generators: [max |-> .., min |-> ..]
  NoLimit,             \* an infinite limit
  Loads,               \* what the loads at the nodes may draw in a step
  Solution(_, _, _),   \* Solution(pq, v, q): the voltages v and reactive
                       \*   injections q of all nodes, if the nodes pq are
                       \*   held at q and the others at v
  Diverged,            \* an entry of a voltage vector that solves nothing
  OuterIterations,     \* the values of mMaxOuterIterations
  MaxSwitches,         \* mMaxQLimitSwitchesPerBus
  MaxSolves            \* bound: time steps

ASSUME PowerFlowAssumption ==
  /\ OuterIterations \subseteq Nat /\ MaxSwitches \in Nat \ {0} /\ MaxSolves \in Nat
  /\ NoLimit \notin Int
  /\ \A l \in Limits : {l.max, l.min} \subseteq Int \cup {NoLimit}
  /\ Loads \subseteq [Nodes -> Int]

ASSUME SystemsAssumption == \A cs \in Systems : WellFormed(cs)

VARIABLES
  comps,                \* mSystem.mComponents
  limits,               \* [Nodes -> Limits]: Q_max_pu and Q_min_pu
  mEnforceReactiveLimits, mKeepLastSolution, mMaxOuterIterations,
  pc,                   \* where initialize() or the SolveTask is
  mBaseVoltageAtNode,
  mPQBuses, mPVBuses, mVDBuses,
  mPQBusesOrig, mPVBusesOrig,
  mPQBusIndices, mPVBusIndices,  \* what the iteration works on
  load,                 \* Q_pu of the loads at every node, in this step
  sol_V,                \* the voltage magnitudes
  sol_Q,                \* the reactive injections of the last iteration
  Qesp,                 \* the specified injections
  mQLimitConvertedAtMax,   \* "max", "min" or "no" for every node
  mQLimitSwitchCount,
  outer, settled,       \* of solvePowerflow()
  isConverged,
  mLastConvergedV,      \* empty: there is no converged solution yet
  generatorQ,           \* mSetPointReactivePowerPerUnit of the first
                        \*   generator of every node
  solves,               \* the time steps so far
  answers               \* history: what the converged solves found

settings == <<limits, mEnforceReactiveLimits, mKeepLastSolution, mMaxOuterIterations>>
originals == <<mPQBusesOrig, mPVBusesOrig, mVDBuses>>
classes == <<mPQBuses, mPVBuses>>
indices == <<mPQBusIndices, mPVBusIndices>>
switching == <<mQLimitConvertedAtMax, mQLimitSwitchCount>>
results == <<mLastConvergedV, generatorQ, answers>>
vars == <<comps, settings, pc, mBaseVoltageAtNode, classes, originals, indices,
          load, sol_V, sol_Q, Qesp, switching, outer, settled, isConverged,
          results, solves>>

Init ==
  /\ comps \in Systems /\ limits \in [Nodes -> Limits]
  /\ mEnforceReactiveLimits \in BOOLEAN /\ mKeepLastSolution \in BOOLEAN
  /\ mMaxOuterIterations \in OuterIterations
  /\ pc = "created"
  /\ mBaseVoltageAtNode = <<>>
  /\ mPQBuses = {} /\ mPVBuses = {} /\ mVDBuses = {}
  /\ mPQBusesOrig = {} /\ mPVBusesOrig = {}
  /\ mPQBusIndices = {} /\ mPVBusIndices = {}
  /\ load = [n \in Nodes |-> 0]
  /\ sol_V = <<>> /\ sol_Q = <<>> /\ Qesp = <<>>
  /\ mQLimitConvertedAtMax = [n \in Nodes |-> "no"]
  /\ mQLimitSwitchCount = [n \in Nodes |-> 0]
  /\ outer = 0 /\ settled = FALSE /\ isConverged = FALSE
  /\ mLastConvergedV = <<>>
  /\ generatorQ = [n \in Nodes |-> 0]
  /\ solves = 0 /\ answers = {}

-----------------------------------------------------------------------------
(* initialize().                                                           *)

\* The bus types of the components at a node; lines, transformers and shunts
\* have none.
BusTypesAt(cs, n) == {cs[i].bus : i \in At(cs, n)}

\* determinePFBusType(): VD before PV before PQ.
BusType(types) ==
  IF "VD" \in types THEN "VD" ELSE IF "PV" \in types THEN "PV" ELSE "PQ"
BusesOfType(cs, type) == {n \in Nodes : BusType(BusTypesAt(cs, n)) = type}

\* composeAdmittanceMatrix() throws.
NoBranch(cs) == \A i \in DOMAIN cs : cs[i].kind \notin {"PiLine", "Transformer"}

Initialize ==
  /\ pc = "created"
  /\ mPQBuses' = BusesOfType(comps, "PQ") /\ mPQBusesOrig' = mPQBuses'
  /\ mPVBuses' = BusesOfType(comps, "PV") /\ mPVBusesOrig' = mPVBuses'
  /\ mVDBuses' = BusesOfType(comps, "VD")
  /\ mPQBusIndices' = mPQBuses' /\ mPVBusIndices' = mPVBuses'
  /\ IF ZoneMismatch(comps)
     THEN pc' = "rejected" /\ UNCHANGED <<comps, mBaseVoltageAtNode>>
     ELSE /\ mBaseVoltageAtNode' = BaseVoltageAtNode(comps)
          /\ comps' = SyncLoads(comps)
          /\ pc' = IF NoBranch(comps) THEN "rejected" ELSE "idle"
  /\ UNCHANGED <<settings, load, sol_V, sol_Q, Qesp, switching, outer, settled,
                 isConverged, results, solves>>

-----------------------------------------------------------------------------
(* SolveTask::execute().                                                   *)

\* resetToOriginalClassification() with clearReactiveLimitState(), if limits
\* are enforced: what the bus lists and the switching start from.
Restarted(original, current) == IF mEnforceReactiveLimits THEN original ELSE current

\* Fault: the switches of the last solve are still counted.
StartSwitchCount == mQLimitSwitchCount
ClearedSwitchCount == Restarted([n \in Nodes |-> 0], mQLimitSwitchCount)

\* Fault: the bus lists of the last solve are used again.
OldPQBuses == mPQBuses
StartPQBuses == Restarted(mPQBusesOrig, mPQBuses)

StartPVBuses == Restarted(mPVBusesOrig, mPVBuses)

\* generateInitialSolution(): PQ buses start flat unless the last solution is
\* kept, the others at their set point.
GenerateInitialSolution ==
  /\ pc = "idle" /\ solves < MaxSolves
  /\ load' \in Loads
  /\ mPQBuses' = StartPQBuses /\ mPQBusIndices' = StartPQBuses
  /\ mPVBuses' = StartPVBuses /\ mPVBusIndices' = StartPVBuses
  /\ mQLimitConvertedAtMax' =
       Restarted([n \in Nodes |-> "no"], mQLimitConvertedAtMax)
  /\ mQLimitSwitchCount' = ClearedSwitchCount
  /\ LET can_keep == mKeepLastSolution /\ mLastConvergedV # <<>>
     IN  sol_V' = [n \in Nodes |-> IF n \notin mPQBuses' THEN VSet[n]
                                   ELSE IF can_keep THEN mLastConvergedV[n] ELSE 0]
  /\ Qesp' = [n \in Nodes |-> (IF n \in mPQBuses' THEN generatorQ[n] ELSE 0) - load'[n]]
  /\ sol_Q' = Qesp'
  /\ outer' = 0 /\ settled' = FALSE /\ solves' = solves + 1
  /\ pc' = "newton"
  /\ UNCHANGED <<comps, settings, mBaseVoltageAtNode, originals, isConverged, results>>

\* runNewtonRaphson() on the index vectors, and the condition of the loop in
\* solvePowerflow().
NewtonRaphson ==
  /\ pc = "newton"
  /\ isConverged' \in BOOLEAN
  /\ IF isConverged'
     THEN LET s == Solution(mPQBusIndices, sol_V, Qesp)
          IN  sol_V' = s.v /\ sol_Q' = s.q
     ELSE /\ sol_V' = [n \in Nodes |-> IF n \in mPQBusIndices THEN Diverged ELSE sol_V[n]]
          /\ UNCHANGED sol_Q
  /\ pc' = IF mEnforceReactiveLimits /\ isConverged' /\ outer < mMaxOuterIterations
           THEN "limits" ELSE "finish"
  /\ UNCHANGED <<comps, settings, mBaseVoltageAtNode, classes, originals, indices,
                 load, Qesp, switching, outer, settled, results, solves>>

Frozen(n) == mQLimitSwitchCount[n] >= MaxSwitches

\* generatorReactivePowerPerUnit().
GeneratorQ(n) == sol_Q[n] + load[n]

\* busLimits() fails without a finite limit.
Limited(n) == limits[n].max # NoLimit \/ limits[n].min # NoLimit

AboveMax(n) == limits[n].max # NoLimit /\ GeneratorQ(n) > limits[n].max
BelowMin(n) == limits[n].min # NoLimit /\ GeneratorQ(n) < limits[n].min

\* The buses that hit a limit, and the pinned buses whose limit is no longer
\* binding.
ToPQ == {n \in mPVBuses : ~Frozen(n) /\ (AboveMax(n) \/ BelowMin(n))}

ToPV == {n \in Nodes : /\ ~Frozen(n) /\ Limited(n)
                       /\ \/ mQLimitConvertedAtMax[n] = "max" /\ sol_V[n] > VSet[n]
                          \/ mQLimitConvertedAtMax[n] = "min" /\ sol_V[n] < VSet[n]}

\* Fault: the load at the bus is forgotten.
PinnedAtGeneratorLimit(n) == IF AboveMax(n) THEN limits[n].max ELSE limits[n].min

\* The injection of a pinned bus: its limit less the load.
PinnedInjection(n) == (IF AboveMax(n) THEN limits[n].max ELSE limits[n].min) - load[n]

\* reclassifyBuses().
ReclassifyBuses == mPQBusIndices' = mPQBuses' /\ mPVBusIndices' = mPVBuses'

\* enforceReactiveLimits(): it returns false and the loop ends, or it switches
\* buses and the iteration runs again.
EnforceReactiveLimits ==
  /\ pc = "limits"
  /\ IF ToPQ \cup ToPV = {}
     THEN /\ settled' = TRUE /\ pc' = "finish"
          /\ UNCHANGED <<classes, indices, switching, Qesp, sol_Q, sol_V, outer>>
     ELSE /\ mPQBuses' = (mPQBuses \cup ToPQ) \ ToPV
          /\ mPVBuses' = (mPVBuses \ ToPQ) \cup ToPV
          /\ Qesp' = [n \in Nodes |-> IF n \in ToPQ THEN PinnedInjection(n) ELSE Qesp[n]]
          /\ sol_Q' = [n \in Nodes |-> IF n \in ToPQ THEN Qesp'[n] ELSE sol_Q[n]]
          /\ sol_V' = [n \in Nodes |-> IF n \in ToPV THEN VSet[n] ELSE sol_V[n]]
          /\ mQLimitConvertedAtMax' =
               [n \in Nodes |-> IF n \in ToPV THEN "no"
                                ELSE IF n \notin ToPQ THEN mQLimitConvertedAtMax[n]
                                ELSE IF AboveMax(n) THEN "max" ELSE "min"]
          /\ mQLimitSwitchCount' =
               [n \in Nodes |-> mQLimitSwitchCount[n] + (IF n \in ToPQ \cup ToPV THEN 1 ELSE 0)]
          /\ ReclassifyBuses
          /\ outer' = outer + 1 /\ pc' = "newton"
          /\ UNCHANGED settled
  /\ UNCHANGED <<comps, settings, mBaseVoltageAtNode, originals, load, isConverged,
                 results, solves>>

\* Fault: a classification that has not settled counts as converged.
ConvergedUnsettled == isConverged

\* The end of solvePowerflow(): an unsettled classification has not converged.
Converged == isConverged /\ (mEnforceReactiveLimits => settled)

\* setSolution(): the reactive power of the generators at the slack and the PV
\* buses, and the start of the next solve.
SetSolution ==
  /\ pc = "finish"
  /\ isConverged' = Converged
  /\ IF Converged
     THEN /\ generatorQ' = [n \in Nodes |-> IF n \in mPVBuses \cup mVDBuses
                                            THEN GeneratorQ(n) ELSE generatorQ[n]]
          /\ mLastConvergedV' = sol_V
          /\ answers' = answers \cup {[load |-> load, v |-> sol_V, pv |-> mPVBuses]}
     ELSE UNCHANGED results
  /\ pc' = "idle"
  /\ UNCHANGED <<comps, settings, mBaseVoltageAtNode, classes, originals, indices,
                 load, sol_V, sol_Q, Qesp, switching, outer, settled, solves>>

-----------------------------------------------------------------------------

\* The solver is not used any more: nothing but the repetition of the last state.
Done ==
  /\ pc = "rejected" \/ (pc = "idle" /\ solves = MaxSolves)
  /\ UNCHANGED vars

Next == \/ Initialize \/ GenerateInitialSolution \/ NewtonRaphson
        \/ EnforceReactiveLimits \/ SetSolution \/ Done

Spec == Init /\ [][Next]_vars

-----------------------------------------------------------------------------
(* Properties.                                                             *)

Buses == mPQBuses \cup mPVBuses \cup mVDBuses
Initialized == pc \notin {"created", "rejected"}
Pinned == {n \in Nodes : mQLimitConvertedAtMax[n] # "no"}

TypeOK ==
  /\ limits \in [Nodes -> Limits]
  /\ mEnforceReactiveLimits \in BOOLEAN /\ mKeepLastSolution \in BOOLEAN
  /\ mMaxOuterIterations \in OuterIterations
  /\ pc \in {"created", "rejected", "idle", "newton", "limits", "finish"}
  /\ \A B \in {mPQBuses, mPVBuses, mVDBuses, mPQBusesOrig, mPVBusesOrig,
               mPQBusIndices, mPVBusIndices} : B \subseteq Nodes
  /\ load \in [Nodes -> Int]
  /\ mQLimitConvertedAtMax \in [Nodes -> {"no", "max", "min"}]
  /\ mQLimitSwitchCount \in [Nodes -> Nat]
  /\ outer \in Nat /\ settled \in BOOLEAN /\ isConverged \in BOOLEAN
  /\ solves \in 0..MaxSolves

\* Switching moves buses between two lists and keeps a record of it: at any
\* time every node is in exactly one list, the slack buses are the original
\* ones, and the PQ list is the original one and the pinned buses
\* (enforceReactiveLimits(), resetToOriginalClassification()).
ClassificationConsistent ==
  Initialized =>
    /\ Buses = Nodes
    /\ mPQBuses \cap mPVBuses = {} /\ mVDBuses \cap (mPQBuses \cup mPVBuses) = {}
    /\ mPQBuses = mPQBusesOrig \cup Pinned /\ Pinned \subseteq mPVBusesOrig

\* The iteration runs on index vectors that agree with the bus lists: a bus
\* that has been pinned is an unknown of its equations, one that has been
\* released is not (rebuildBusIndexAggregates()).
IterationOnCurrentLists ==
  pc = "newton" => mPQBusIndices = mPQBuses /\ mPVBusIndices = mPVBuses

\* A generator that has been pinned delivers exactly its limit, with the load
\* of this step at its bus, in every later iteration of the solve.
PinnedAtLimit ==
  \A n \in Pinned :
    /\ mQLimitConvertedAtMax[n] = "max" => Qesp[n] + load[n] = limits[n].max
    /\ mQLimitConvertedAtMax[n] = "min" => Qesp[n] + load[n] = limits[n].min

\* A bus never switches more often than allowed, so the outer loop cannot toggle
\* it for ever (mMaxQLimitSwitchesPerBus).
SwitchesBounded ==
  mEnforceReactiveLimits => \A n \in Nodes : mQLimitSwitchCount[n] <= MaxSwitches

\* A converged solve with enforced limits has settled: no generator that may
\* still switch is beyond a limit, and every pinned generator that may still
\* switch is held back by its limit: its voltage is at most the set point if
\* it is pinned at the maximum, at least if at the minimum.
SettledMeansComplementary ==
  (pc = "idle" /\ isConverged /\ mEnforceReactiveLimits) =>
    \A n \in mPVBusesOrig :
      Frozen(n) \/ IF n \in Pinned
                   THEN IF mQLimitConvertedAtMax[n] = "max"
                        THEN ~(sol_V[n] > VSet[n]) ELSE ~(sol_V[n] < VSet[n])
                   ELSE ~AboveMax(n) /\ ~BelowMin(n)

\* The solver is reused for every time step, and what it has switched or kept
\* before must not show: two converged solves with the same loads find the
\* same classification and the same voltages.
SameLoadSameSolution ==
  \A a, b \in answers : a.load = b.load => a = b

\* What is held determines the solution: with all nodes but pq at their set
\* points, the iteration finds the same whatever it begins with at the nodes pq,
\* and whatever the others inject, and the set points stay.  V and Q are the
\* voltages and injections there are.
HeldDetermines(V, Q) ==
  /\ 0 \in V /\ VSet \in [Nodes -> V]
  /\ \A pq \in SUBSET Nodes, v \in [Nodes -> V], q \in [Nodes -> Q] :
       (\A n \in Nodes \ pq : v[n] = VSet[n]) =>
         LET s == Solution(pq, v, q)
         IN  /\ s.v \in [Nodes -> V]
             /\ \A n \in Nodes \ pq : s.v[n] = VSet[n]
             /\ s = Solution(pq, VSet, [n \in Nodes |-> IF n \in pq THEN q[n] ELSE 0])

\* An accepted system has lines only between nodes of one voltage level: all
\* nodes of a zone have the same base voltage, the ratings there agree with it,
\* and a load there has it as its nominal voltage.
OneLevelPerZone ==
  \A n \in Nodes :
    LET same == ConnectedWith(comps, n)
        v == mBaseVoltageAtNode[n]
    IN  /\ \A m \in same : mBaseVoltageAtNode[m] = v
        /\ \A i \in DOMAIN comps, m \in same :
             i \in At(comps, m) =>
               LET r == ComponentBaseVoltage(comps[i], m)
               IN  /\ comps[i].kind = "Load" => r = v
                   /\ r # 0 => ~Differs(r, v, LooseTolerance)
                   /\ r # 0 /\ comps[i].kind \in AuthoritativeKinds
                        => ~Differs(r, v, StrictTolerance)

\* The voltages somewhere in a zone differ.
LevelsWiredTogether ==
  \E n \in Nodes : \E m, k \in ConnectedWith(comps, n) :
    \E i \in At(comps, m), j \in At(comps, k) :
      LET x == ComponentBaseVoltage(comps[i], m)
          y == ComponentBaseVoltage(comps[j], k)
      IN  x # 0 /\ y # 0 /\ Differs(x, y, StrictTolerance)

\* propagateAndVerifyBaseVoltage() accepts a system only if lines join nodes of
\* one voltage level, and rejects it only if they really wire two together (or
\* there is no branch), in whatever order the lines are visited.
BaseVoltagesVerified ==
  /\ Initialized => OneLevelPerZone
  /\ pc = "rejected" => NoBranch(comps) \/ LevelsWiredTogether
=============================================================================
