------------------------------ MODULE MnaSolver ------------------------------
(***************************************************************************)
(* The MNA solver (dpsim/src/MNASolver.cpp, dpsim/src/MNASolverDirect.cpp) *)
(* with the breakers of module Breaker, over whole time steps: switch      *)
(* commands at the start of a step (Simulation::step() handles the events  *)
(* first), the solve task, then in any order the post-step tasks of the    *)
(* breakers and the state-space extraction (dpsim/src/                     *)
(* MNAStateSpaceExtractor.cpp).                                            *)
(*                                                                         *)
(* The system matrix is either looked up among those precomputed for every *)
(* combination of switch states, or recomputed when a component reports a  *)
(* change.  A matrix is the stamp of each breaker in it; the static        *)
(* components stamp the same into all.  The solution is the sign of the    *)
(* current of each pole, which the network decides.                        *)
(***************************************************************************)
EXTENDS Breaker, FiniteSets

CONSTANTS
  NumSwitches,     \* mVariableComps, in the order they were added
  Setups,          \* the systems: see SetupRecords
  MaxCommands      \* bound: opening and closing commands of a run

Switches == 1 .. NumSwitches

SetupRecords ==
  [mode : [Switches -> SwitchingModes], closed : [Switches -> BOOLEAN],
   synchronized : [Switches -> BOOLEAN],
   recomputation : {"Auto", "Enabled", "Disabled"}]

ASSUME MnaAssumption ==
  /\ NumSwitches \in Nat
  /\ MaxCommands \in Nat
  /\ Setups \subseteq SetupRecords

\* The state-space extraction task, next to the post-step tasks 1 .. NumSwitches.
Extraction == 0
Tasks == Switches \cup {Extraction}

VARIABLES
  setup,        \* the system that is simulated
  breakers,     \* the breakers
  status,       \* mCurrentSwitchStatus
  matrix,       \* mVariableSystemMatrix, as factorized
  used,         \* the matrix the last solve used
  changed,      \* mSystemMatrixChanged or mVariableComponentChanged
  current,      \* the sign of the current of each pole after the last solve
  pending,      \* the tasks of this step that follow the solve
  valid,        \* mStateMatrixValid
  extracted,    \* the matrix the state matrix mAd was computed with
  commands,     \* commands given
  sampled,      \* history: the signs each pole saw since its opening command
  separate      \* history: no two components ever changed in one step

vars == <<setup, breakers, status, matrix, used, changed, current, pending,
          valid, extracted, commands, sampled, separate>>

Matrices == [Switches -> [Phases -> 0 .. SwitchingSteps]]

TypeOK ==
  /\ setup \in Setups
  /\ breakers \in [Switches -> Breakers]
  /\ status \in [Switches -> BOOLEAN]
  /\ {matrix, used, extracted} \subseteq Matrices
  /\ {changed, valid, separate} \subseteq BOOLEAN
  /\ current \in [Switches -> [Phases -> Signs]]
  /\ pending \subseteq Tasks
  /\ commands \in 0 .. MaxCommands
  /\ sampled \in [Switches -> [Phases -> SUBSET Signs]]

(***************************************************************************)
(* resolveSystemMatrixRecomputationMode(): Auto recomputes when a          *)
(* component has states that no precomputed matrix represents.             *)
(***************************************************************************)
Recomputing ==
  \/ setup.recomputation = "Enabled"
  \/ /\ setup.recomputation = "Auto"
     /\ \E s \in Switches : setup.mode[s] # "Ideal"

\* The matrix that fits the breakers as they are now.
StampedMatrix == [s \in Switches |-> Stamp(breakers[s])]

\* The precomputed matrix of a switch status.
SwitchedMatrix(st) == [s \in Switches |-> SwitchStamp(st[s])]

\* updateSwitchStatus()
SwitchStatus == [s \in Switches |-> IsClosed(breakers[s])]

NoSamples == [p \in Phases |-> {}]

\* initializeComponents() and initializeSystem(): with recomputation the
\* matrix is stamped once, otherwise the switch status is read.
Init ==
  /\ setup \in Setups
  /\ breakers = [s \in Switches |->
                   InitialBreaker(setup.mode[s], setup.closed[s],
                                  setup.synchronized[s])]
  /\ matrix = StampedMatrix
  /\ status = IF Recomputing THEN [s \in Switches |-> FALSE] ELSE SwitchStatus
  /\ used = StampedMatrix
  /\ extracted = StampedMatrix
  /\ changed = FALSE
  /\ valid = FALSE
  /\ current = [s \in Switches |-> [p \in Phases |-> 0]]
  /\ pending = {}
  /\ commands = 0
  /\ sampled = [s \in Switches |-> NoSamples]
  /\ separate = TRUE

-----------------------------------------------------------------------------
\* SwitchEvent::execute() with false, at the start of a step: openSwitch().
Open(s) ==
  /\ pending = {}
  /\ commands < MaxCommands
  /\ breakers' = [breakers EXCEPT ![s] = OpenSwitch(@)]
  /\ commands' = commands + 1
  /\ sampled' = [sampled EXCEPT ![s] = NoSamples]
  /\ UNCHANGED <<setup, status, matrix, used, changed, current, pending, valid,
                 extracted, separate>>

\* SwitchEvent::execute() with true: closeSwitch().
Close(s) ==
  /\ pending = {}
  /\ commands < MaxCommands
  /\ breakers' = [breakers EXCEPT ![s] = CloseSwitch(@)]
  /\ commands' = commands + 1
  /\ sampled' = [sampled EXCEPT ![s] = NoSamples]
  /\ UNCHANGED <<setup, status, matrix, used, changed, current, pending, valid,
                 extracted, separate>>

\* The currents a solve may find: those of closed poles are arbitrary; the
\* others, and those no mode looks at, are left at 0.
Currents ==
  {c \in [Switches -> [Phases -> Signs]] :
     \A s \in Switches, p \in Phases :
       c[s][p] # 0 => breakers[s].mode = "CurrentZero" /\ breakers[s].poles[p]}

ChangedSwitches == {s \in Switches : HasParameterChanged(breakers[s])}

\* What any solve task leaves behind.
Solved ==
  /\ pending' = Tasks
  /\ current' \in Currents
  /\ separate' = (separate /\ \A s, t \in ChangedSwitches : s = t)
  /\ UNCHANGED <<setup, valid, extracted, commands, sampled>>

\* Fault: the switch status is read after the solve.
SolveWithOldStatus ==
  /\ pending = {}
  /\ ~Recomputing
  /\ status' = SwitchStatus
  /\ used' = SwitchedMatrix(status)
  /\ changed' = (status' # status)
  /\ Solved
  /\ UNCHANGED <<breakers, matrix>>

\* Fault: the previous status is saved after the status was read again.
SolveWithoutChange ==
  /\ pending = {}
  /\ ~Recomputing
  /\ status' = SwitchStatus
  /\ used' = SwitchedMatrix(status')
  /\ changed' = FALSE
  /\ Solved
  /\ UNCHANGED <<breakers, matrix>>

(***************************************************************************)
(* MnaSolverDirect::solve(): the status of this step is the key of the     *)
(* precomputed matrix.  The iterations that synchronous generators ask for *)
(* read the same status again, for no breaker moves before the post-steps. *)
(***************************************************************************)
Solve ==
  /\ pending = {}
  /\ ~Recomputing
  /\ status' = SwitchStatus
  /\ used' = SwitchedMatrix(status')
  /\ changed' = (status' # status)
  /\ Solved
  /\ UNCHANGED <<breakers, matrix>>

\* hasVariableComponentChanged(): the first component that reports a change
\* ends the loop; the ones behind it are not asked.
PolledBreakers ==
  [s \in Switches |->
     IF s \in ChangedSwitches /\ \A t \in ChangedSwitches : s <= t
       THEN Reported(breakers[s])
       ELSE breakers[s]]

\* MnaSolverDirect::solveWithSystemMatrixRecomputation() and
\* recomputeSystemMatrix(): all breakers are stamped when one has changed.
SolveRecomp ==
  /\ pending = {}
  /\ Recomputing
  /\ changed' = (ChangedSwitches # {})
  /\ breakers' = PolledBreakers
  /\ matrix' = IF changed' THEN StampedMatrix ELSE matrix
  /\ used' = matrix'
  /\ Solved
  /\ UNCHANGED status

\* The post-step task of a breaker.
PostStep(s) ==
  /\ s \in pending
  /\ pending' = pending \ {s}
  /\ breakers' = [breakers EXCEPT ![s] = PostStepped(@, current[s])]
  /\ sampled' = [sampled EXCEPT ![s] =
                   IF breakers[s].requested
                     THEN [p \in Phases |-> @[p] \cup {current[s][p]}]
                     ELSE @]
  /\ UNCHANGED <<setup, status, matrix, used, changed, current, valid,
                 extracted, commands, separate>>

\* extractStateSpace() and MNAStateSpaceExtractor::extract(): the state matrix
\* is computed again only when the system matrix has changed.
Extract ==
  /\ Extraction \in pending
  /\ pending' = pending \ {Extraction}
  /\ extracted' = IF valid /\ ~changed THEN extracted ELSE used
  /\ valid' = TRUE
  /\ UNCHANGED <<setup, breakers, status, matrix, used, changed, current,
                 commands, sampled, separate>>

Next ==
  \/ \E s \in Switches : Open(s) \/ Close(s) \/ PostStep(s)
  \/ Solve
  \/ SolveRecomp
  \/ Extract

Spec == Init /\ [][Next]_vars

\* Fairness: the simulation loop starts every step and the scheduler runs every
\* task of it.
FairSpec ==
  /\ Spec
  /\ WF_vars(Solve \/ SolveRecomp)
  /\ WF_vars(Extract)
  /\ \A s \in Switches : WF_vars(PostStep(s))

-----------------------------------------------------------------------------
(***************************************************************************)
(* The poles follow the commands of openSwitch() and closeSwitch(): a      *)
(* breaker that is commanded closed has no opening request and, once no    *)
(* transition is under way, all poles closed at R_closed; one that is      *)
(* commanded open has all poles open at R_open as soon as the request and  *)
(* the transition are over.                                                *)
(***************************************************************************)
Follows(b) ==
  /\ b.isClosed => ~b.requested
  /\ b.requested => \E p \in Phases : b.poles[p]
  /\ b.active => b.mode = "ExponentialZCSEmulation" /\ b.closing = b.isClosed
  /\ ~b.active /\ ~b.requested =>
       /\ b.poles = AllPoles(b.isClosed)
       /\ Stamp(b) = SwitchStamp(b.isClosed)

CommandsFollowed == \A s \in Switches : Follows(breakers[s])

(***************************************************************************)
(* updateZeroCrossingState() opens a pole in the CurrentZero mode only at  *)
(* a zero of its current after the command: the last sample is zero, or    *)
(* both signs were sampled since openSwitch().                             *)
(***************************************************************************)
PolesOpenAtCurrentZero ==
  [][\A s \in Switches, p \in Phases :
       breakers[s].mode = "CurrentZero" /\ breakers[s].poles[p]
         /\ ~breakers'[s].poles[p]
         => 0 \in sampled'[s][p] \/ {-1, 1} \subseteq sampled'[s][p]]_vars

(***************************************************************************)
(* solve() and solveWithSystemMatrixRecomputation() use a matrix that      *)
(* holds the present stamp of every breaker.  With precomputed matrices    *)
(* this needs ideal switches only, which Auto ensures; with recomputation  *)
(* it needs that no two components change between two solves and that      *)
(* the breaker recorded its state at initialization.                       *)
(***************************************************************************)
SolvedWithPresentStamps ==
  [][pending = {} /\ pending' # {} =>
       \A s \in Switches :
         \/ used'[s] = Stamp(breakers[s])
         \/ ~Recomputing /\ setup.mode[s] # "Ideal"
         \/ Recomputing /\ ~(separate' /\ setup.synchronized[s])]_vars

\* The same without conditions: solveWithSystemMatrixRecomputation() updates
\* the system matrix according to the status of all variable components.
EverySolveWithPresentStamps ==
  [][pending = {} /\ pending' # {} => used' = StampedMatrix]_vars

\* After extract() the state matrix belongs to the system matrix of the solve.
ExtractedFromSolvedMatrix == Extraction \notin pending => extracted = used

(***************************************************************************)
(* Every opening request and every transition ends, if the current of each *)
(* closed pole keeps changing its sign (in the CurrentZero mode), once the *)
(* commands cease.                                                         *)
(***************************************************************************)
Alternating(s, sign) ==
  \A p \in Phases :
    []<>(\/ breakers[s].mode # "CurrentZero"
         \/ ~breakers[s].poles[p]
         \/ current[s][p] = sign)

TransitionsEnd ==
  \A s \in Switches :
    Alternating(s, 1) /\ Alternating(s, -1) =>
      (breakers[s].requested \/ breakers[s].active
         ~> ~breakers[s].requested /\ ~breakers[s].active)
=============================================================================
