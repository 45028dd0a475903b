----------------------------- MODULE Decoupling -----------------------------
(***************************************************************************)
(* The decoupling elements that split a system into subsystems solved in   *)
(* parallel: DecouplingLine (dpsim-models/src/Signal/DecouplingLine.cpp,   *)
(* DecouplingLineEMT.cpp, DecouplingLineEMT_Ph3.cpp) and the ideal         *)
(* transformer of DecouplingIdealTransformer_EMT_Ph1.cpp (and _EMT_Ph3).   *)
(* What one end sees of the other is a value of an earlier step, taken     *)
(* from a ring buffer.                                                     *)
(*                                                                         *)
(* Voltages and currents are abstracted to the number of the step they     *)
(* were solved in; Initial stands for the initial solution and Earlier for *)
(* mCurrent1Extrap0, the current one delay before it.  Times are counted   *)
(* in units of which a time step has PerStep.                              *)
(***************************************************************************)
EXTENDS Integers

CONSTANTS
  PerStep,    \* units of time in a time step
  Delays,     \* the values of mDelay, in these units
  MaxSteps    \* bound on the simulated steps

ASSUME DecouplingAssumption ==
  /\ PerStep \in Nat \ {0}
  /\ Delays \subseteq Nat
  /\ MaxSteps \in Nat

Kinds == {"Line", "IdealTransformer"}

\* enum CouplingMethod
Methods == {"DELAY", "EXTRAPOLATION_ZOH", "EXTRAPOLATION_LINEAR"}

\* At end 1 a current is recorded and at end 2 a voltage.
Ends == {1, 2}

Initial == -1
Earlier == -2

VARIABLES
  kind, mDelay, mCouplingMethod, mBufSize,
  timeStepCount,
  done,           \* the tasks executed in this step
  mBufIdx, mMacroBufIdx,
  ring,           \* mCur1 and mVol2, mVolt1 and mVolt2: [Ends -> ring buffer]
  extrap,         \* mCur1Extrap and mVol2Extrap
  ref,            \* of the source at each end: the samples it combines
  rightVector,    \* the step whose source value is in the right-hand side,
  leftVector,     \* in the solution of the subsystem,
  intf            \* and in the interface quantities of the end's components

parameters == <<kind, mDelay, mCouplingMethod, mBufSize>>
buffers == <<mBufIdx, mMacroBufIdx, ring, extrap>>
network == <<rightVector, leftVector, intf>>
vars == <<parameters, buffers, network, timeStepCount, done, ref>>

(***************************************************************************)
(* The tasks of one step and the order that their attributes give them:    *)
(* the element's own PreStep and PostStep, and in the subsystem of each    *)
(* end the pre-step of the source, the solve and the post-step of the      *)
(* component that is read.                                                 *)
(***************************************************************************)
PreStepTask == <<"PreStep", 0>>
PostStepTask == <<"PostStep", 0>>
EndTasks == {"SourcePreStep", "Solve", "MnaPostStep"} \X Ends
Tasks == {PreStepTask, PostStepTask} \cup EndTasks

\* Fault: PostStep declares the attributes of one end only.
DependenciesOfEndOne == {<<"MnaPostStep", 1>>}

\* The writers of the attributes that PostStep declares to read.
PostStepDependencies == {<<"MnaPostStep", e>> : e \in Ends}

Execute(task, dependencies) ==
  /\ task \notin done
  /\ dependencies \subseteq done
  /\ done' = done \cup {task}

-----------------------------------------------------------------------------

\* ceil(mDelay / timeStep), or 1 without a delay
BufSizes(delay) ==
  IF delay = 0 THEN {1}
  ELSE {n \in 1 .. delay : (n - 1) * PerStep < delay /\ delay <= n * PerStep}

\* 1 - mAlpha, in units of time: the weight of the later value
LateWeight == IF mDelay = 0 THEN 0 ELSE mBufSize * PerStep - mDelay

mExtrapolationDegree ==
  IF mCouplingMethod = "EXTRAPOLATION_LINEAR" THEN 1 ELSE 0

RingIndices == 0 .. mBufSize - 1
MacroIndices == 0 .. mExtrapolationDegree

(***************************************************************************)
(* A source value is  early + (late - early) * lead / unit,  where unit is *)
(* a time step for interpolate() and mBufSize steps for extrapolate().     *)
(***************************************************************************)
Sample(early, late, lead) == [early |-> early, late |-> late, lead |-> lead]
Held(value) == Sample(value, value, 0)

\* interpolate()
Interpolate(data) ==
  Sample(data[mBufIdx],
         data[IF mBufIdx = mBufSize - 1 THEN 0 ELSE mBufIdx + 1],
         LateWeight)

\* Fault: the sample of this step is placed at the end of the last one.
ExtrapolateToLastStep(data) ==
  IF mCouplingMethod = "EXTRAPOLATION_LINEAR"
  THEN Sample(data[mMacroBufIdx],
              data[IF mMacroBufIdx = mExtrapolationDegree
                   THEN 0 ELSE mMacroBufIdx + 1],
              mBufSize + mBufIdx)
  ELSE Held(data[mMacroBufIdx])

\* extrapolate(): the newest two values of the periods, evaluated at tEval
Extrapolate(data) ==
  IF mCouplingMethod = "EXTRAPOLATION_LINEAR"
  THEN Sample(data[mMacroBufIdx],
              data[IF mMacroBufIdx = mExtrapolationDegree
                   THEN 0 ELSE mMacroBufIdx + 1],
              mBufSize + mBufIdx + 1)
  ELSE Held(data[mMacroBufIdx])

SampleOf(e) ==
  IF mCouplingMethod = "DELAY" THEN Interpolate(ring[e]) ELSE Extrapolate(extrap[e])

\* The ends whose recorded values the source at end e combines in step n.
SeenFrom(e, n) ==
  IF kind = "IdealTransformer" THEN Ends \ {e}
  ELSE IF n = 0 THEN {e}
  ELSE Ends

(***************************************************************************)
(* setParameters() and initialize().  A line always delays, and refuses a  *)
(* delay below the time step.                                              *)
(***************************************************************************)
Init ==
  /\ kind \in Kinds
  /\ mDelay \in Delays
  /\ mCouplingMethod \in Methods
  /\ kind = "Line" => mCouplingMethod = "DELAY" /\ mDelay >= PerStep
  \* extrapolate() divides by the delay
  /\ mCouplingMethod = "EXTRAPOLATION_LINEAR" => mDelay # 0
  /\ mBufSize \in BufSizes(mDelay)
  /\ timeStepCount = 0
  /\ done = {}
  /\ mBufIdx = 0
  /\ mMacroBufIdx = 0
  /\ ring = [e \in Ends |-> [j \in RingIndices |-> Initial]]
  /\ extrap = [e \in Ends |-> [j \in MacroIndices |->
                 IF e = 1 /\ j = 0 THEN Earlier ELSE Initial]]
  /\ ref = [e \in Ends |-> [h \in Ends \ {e} |-> Held(Initial)]]
  /\ rightVector = [e \in Ends |-> Initial]
  /\ leftVector = [e \in Ends |-> Initial]
  /\ intf = [e \in Ends |-> Initial]

\* PreStep::execute(): step()
PreStep ==
  /\ Execute(PreStepTask, {})
  /\ ref' = [e \in Ends |-> [h \in SeenFrom(e, timeStepCount) |-> SampleOf(h)]]
  /\ UNCHANGED <<parameters, buffers, network, timeStepCount>>

\* The source at end e stamps its reference into the right-hand side.
SourcePreStep(e) ==
  /\ Execute(<<"SourcePreStep", e>>, {PreStepTask})
  /\ rightVector' = [rightVector EXCEPT ![e] = timeStepCount]
  /\ UNCHANGED <<parameters, buffers, leftVector, intf, timeStepCount, ref>>

\* The subsystem of end e is solved.
Solve(e) ==
  /\ Execute(<<"Solve", e>>, {<<"SourcePreStep", e>>})
  /\ leftVector' = [leftVector EXCEPT ![e] = rightVector[e]]
  /\ UNCHANGED <<parameters, buffers, rightVector, intf, timeStepCount, ref>>

\* The component that is read at end e updates its interface quantities.
MnaPostStep(e) ==
  /\ Execute(<<"MnaPostStep", e>>, {<<"Solve", e>>})
  /\ intf' = [intf EXCEPT ![e] = leftVector[e]]
  /\ UNCHANGED <<parameters, buffers, rightVector, leftVector, timeStepCount, ref>>

Wrapped == mBufIdx + 1 = mBufSize

(***************************************************************************)
(* PostStep::execute(): postStep().  The end of a period, when the ring    *)
(* buffer wraps, also takes the newest value for the extrapolation.        *)
(***************************************************************************)
PostStep ==
  /\ Execute(PostStepTask, PostStepDependencies)
  /\ ring' = [e \in Ends |-> [ring[e] EXCEPT ![mBufIdx] = intf[e]]]
  /\ IF Wrapped
     THEN /\ extrap' = [e \in Ends |-> [extrap[e] EXCEPT ![mMacroBufIdx] = intf[e]]]
          /\ mMacroBufIdx' =
               IF mMacroBufIdx = mExtrapolationDegree THEN 0 ELSE mMacroBufIdx + 1
          /\ mBufIdx' = 0
     ELSE /\ mBufIdx' = mBufIdx + 1
          /\ UNCHANGED <<extrap, mMacroBufIdx>>
  /\ UNCHANGED <<parameters, network, timeStepCount, ref>>

\* Simulation::step(): all tasks of a step, then the next one.
NextStep ==
  /\ done = Tasks
  /\ timeStepCount < MaxSteps
  /\ timeStepCount' = timeStepCount + 1
  /\ done' = {}
  /\ UNCHANGED <<parameters, buffers, network, ref>>

Next ==
  \/ PreStep
  \/ \E e \in Ends : SourcePreStep(e) \/ Solve(e) \/ MnaPostStep(e)
  \/ PostStep
  \/ NextStep

Spec == Init /\ [][Next]_vars

-----------------------------------------------------------------------------

\* What is known of step k: before the simulation there is only Initial.
Past(k) == IF k < 0 THEN Initial ELSE k

\* The source values of this step are in place.
RefsOfThisStep == PreStepTask \in done

(***************************************************************************)
(* What an end sees of an end is exactly one delay old: the samples are    *)
(* the solutions of the two steps around that time and the weight is the   *)
(* position between them, whatever the length of the ring buffer and       *)
(* however the two subsystems interleave.  Below one time step the delay   *)
(* of the transformer is one time step.  (interpolate() of                 *)
(* DecouplingLine.cpp reads the ring buffer that postStep() writes.)       *)
(***************************************************************************)
DelayedExactly ==
  RefsOfThisStep /\ mCouplingMethod = "DELAY" =>
    \A e \in Ends : \A h \in DOMAIN ref[e] :
      LET s == ref[e][h] IN
      IF mDelay < PerStep
      THEN s.early = Past(timeStepCount - 1) /\ s.late = Past(timeStepCount - 1)
      ELSE \E k \in timeStepCount - mBufSize .. timeStepCount - 1 :
             /\ s.early = Past(k)
             /\ s.lead # 0 => s.late = Past(k + 1)
             /\ s.lead \in 0 .. PerStep - 1
             /\ k * PerStep + s.lead = timeStepCount * PerStep - mDelay

\* The value the extrapolation has of end e at step k.
Recorded(e, k) == IF k < -1 /\ e = 1 THEN Earlier ELSE Past(k)

(***************************************************************************)
(* Extrapolation undoes the delay.  The linear one runs through the ends   *)
(* of the last two periods and is evaluated at the present step: from the  *)
(* step m - mBufSize it leads by the mBufSize steps to m and by those from *)
(* m to now.  The value that the zero-order hold uses is at most one       *)
(* period old, once a first period has ended.  (extrapolate() of           *)
(* DecouplingIdealTransformer_EMT_Ph1.cpp reads the copies that postStep() *)
(* takes when the ring buffer wraps.)                                      *)
(***************************************************************************)
ExtrapolatedToPresent ==
  RefsOfThisStep =>
    \A e \in Ends : \A h \in DOMAIN ref[e] :
      LET s == ref[e][h] IN
      /\ mCouplingMethod = "EXTRAPOLATION_LINEAR" =>
           \E m \in timeStepCount - mBufSize .. timeStepCount - 1 :
             /\ s.late = Past(m)
             /\ s.early = Recorded(h, m - mBufSize)
             /\ s.lead = mBufSize + (timeStepCount - m)
      /\ mCouplingMethod = "EXTRAPOLATION_ZOH" /\ timeStepCount >= mBufSize =>
           /\ s.early \in timeStepCount - mBufSize .. timeStepCount - 1
           /\ s.late = s.early
=============================================================================
