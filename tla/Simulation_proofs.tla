-------------------------- MODULE Simulation_proofs --------------------------
(***************************************************************************)
(* Events, steps and log rows of a simulation, for every time step, final  *)
(* time and list of loggers, any events, and any rounding errors that are  *)
(* small against the tolerances (SimulationAssumption).                    *)
(***************************************************************************)
EXTENDS Simulation, TLAPS

Executions == [event : Events, step : Nat]

Typed ==
  /\ mode \in Modes /\ isNRP \in BOOLEAN
  /\ mFinalTime \in Nat
  /\ pc \in {"created", "loop", "events", "tasks", "stopped", "thrown"}
  /\ mTime \in Int /\ mTimeStepCount \in Nat
  /\ mEvents \subseteq Events
  /\ eventTime \in [Events -> Int] /\ addedAt \in [Events -> Int]
  /\ executed \in Seq(Executions)

\* The time of a step is its exact time up to the rounding errors.
TimeInv ==
  /\ pc = "created" => mTime = 0 /\ mTimeStepCount = 0 /\ executed = <<>>
  /\ pc \in {"loop", "events", "tasks", "stopped"} =>
       /\ mTime <= ExactTime(mTimeStepCount) + Rounding
       /\ ExactTime(mTimeStepCount) <= mTime + Rounding

\* The events in the queue are those that were added and not executed, and
\* whoever was added before an execution belongs behind it.
QueueInv ==
  /\ \A f \in mEvents : /\ eventTime[f] # Unset
                        /\ addedAt[f] <= mTimeStepCount
  /\ \A i \in 1..Len(executed) :
       /\ eventTime[executed[i].event] # Unset
       /\ executed[i].event \notin mEvents
       /\ executed[i].step <= mTimeStepCount
       /\ pc = "loop" => executed[i].step < mTimeStepCount
       /\ \A f \in mEvents : addedAt[f] <= executed[i].step
                               => eventTime[executed[i].event] <= eventTime[f]

\* No event that is due is left for a later step, and none came early.
DueInv ==
  /\ pc = "tasks" => \A e \in mEvents : eventTime[e] > ExactTime(mTimeStepCount)
  /\ \A i \in 1..Len(executed) :
       eventTime[executed[i].event]
         < ExactTime(executed[i].step) + EventTolerance + Rounding

\* The second and every later step was begun before the final time.
EndInv ==
  /\ pc \in {"events", "tasks"} /\ mTimeStepCount >= 1 => mTime < mFinalTime + Epsilon
  /\ pc \in {"loop", "stopped"} /\ mTimeStepCount >= 2 =>
       ExactTime(mTimeStepCount - 1) < mFinalTime + Epsilon + Rounding
  /\ pc = "stopped" /\ mode # "next" => mTime >= mFinalTime

Inv == Typed /\ TimeInv /\ QueueInv /\ EventsInOrder /\ DueInv /\ EndInv

-----------------------------------------------------------------------------

LEMMA TolerancesTyped ==
  /\ DT \in Nat /\ DT > 0 /\ Epsilon \in Nat /\ Epsilon > 0
  /\ EventTolerance \in Nat /\ Rounding \in Nat /\ EventTolerance > Rounding
  /\ Downsampling \in Nat /\ Downsampling > 0
  /\ DT > 2 * (EventTolerance + Rounding)
BY SimulationAssumption

LEMMA ExactTimes ==
  ASSUME NEW n \in Nat
  PROVE  /\ ExactTime(n) \in Nat
         /\ ExactTime(n + 1) = ExactTime(n) + DT
         /\ ExactTime(0) = FirstTime
BY TolerancesTyped DEF ExactTime, FirstTime

LEMMA ExactTimesKept ==
  ASSUME UNCHANGED settings
  PROVE  \A n : ExactTime(n)' = ExactTime(n)
BY DEF settings, ExactTime, FirstTime

LEMMA DivisionByStep ==
  ASSUME NEW k \in Nat, NEW d \in Nat, NEW r \in Nat, r < d
  PROVE  (k * d + r) \div d = k
  BY SMTT(30)

LEMMA InitInv == Init => Inv
<1> SUFFICES ASSUME Init PROVE Inv
  OBVIOUS
<1>1. executed = <<>> /\ Len(executed) = 0 /\ mEvents = {}
  BY DEF Init
<1>2. mFinalTime \in Nat
  BY SimulationAssumption DEF Init
<1>3. Typed
  BY <1>1, <1>2 DEF Init, Typed, Unset
<1> QED BY <1>1, <1>3 DEF Init, Inv, TimeInv, QueueInv, EventsInOrder, DueInv, EndInv

\* What has been executed, entry by entry.
LEMMA ExecutionsTyped ==
  ASSUME Inv
  PROVE  /\ Len(executed) \in Nat
         /\ \A i \in 1..Len(executed) : executed[i].event \in Events /\ executed[i].step \in Nat
<1>1. executed \in Seq(Executions)
  BY DEF Inv, Typed
<1>2. Len(executed) \in Nat /\ \A i \in 1..Len(executed) : executed[i] \in Executions
  BY <1>1
<1> QED BY <1>2 DEF Executions

\* Steps that leave the queue and the step count alone and do not reach a place
\* of which more is said.
LEMMA QueueKept ==
  ASSUME Inv, UNCHANGED <<settings, eventVars, mTimeStepCount>>,
         pc' = "loop" => pc \in {"loop", "created"}, pc' # "tasks"
  PROVE  QueueInv' /\ EventsInOrder' /\ DueInv'
<1>1. \A n : ExactTime(n)' = ExactTime(n)
  BY ExactTimesKept
<1>2. /\ mEvents' = mEvents /\ eventTime' = eventTime /\ addedAt' = addedAt
      /\ executed' = executed /\ mTimeStepCount' = mTimeStepCount
  BY DEF eventVars
<1>3. pc = "created" => Len(executed) = 0
  BY DEF Inv, TimeInv
<1>4. QueueInv'
  BY <1>2, <1>3 DEF Inv, QueueInv
<1>5. EventsInOrder'
  BY <1>2 DEF Inv, EventsInOrder
<1>6. DueInv'
  BY <1>1, <1>2 DEF Inv, DueInv
<1> QED BY <1>4, <1>5, <1>6

LEMMA AddEventInv ==
  ASSUME Inv, NEW e \in Events, AddEvent(e)
  PROVE  Inv'
<1> USE DEF settings
<1>1. PICK t \in EventTimes : eventTime' = [eventTime EXCEPT ![e] = t]
  BY DEF AddEvent
<1>2. t \in Nat
  BY <1>1, SimulationAssumption
<1>3. /\ pc = "created" \/ pc = "loop"
      /\ eventTime[e] = Unset /\ mEvents' = mEvents \cup {e}
      /\ addedAt' = [addedAt EXCEPT ![e] = mTimeStepCount]
      /\ UNCHANGED <<settings, pc, mTime, mTimeStepCount, executed>>
  BY DEF AddEvent
<1>4. Typed'
  BY <1>1, <1>2, <1>3 DEF Inv, Typed
<1>5. \A n : ExactTime(n)' = ExactTime(n)
  BY <1>3, ExactTimesKept
<1>6. TimeInv' /\ EndInv'
  BY <1>3, <1>5 DEF Inv, TimeInv, EndInv
<1>7. e \notin mEvents /\ \A i \in 1..Len(executed) : executed[i].event # e
  BY <1>3 DEF Inv, QueueInv
<1>8. /\ eventTime'[e] = t /\ addedAt'[e] = mTimeStepCount
      /\ \A f \in Events \ {e} : eventTime'[f] = eventTime[f] /\ addedAt'[f] = addedAt[f]
  BY <1>1, <1>3 DEF Inv, Typed
<1>9. \A i \in 1..Len(executed) : /\ executed[i].event \in Events \ {e}
                                  /\ executed[i].step \in Nat
  BY <1>7, ExecutionsTyped
<1>10. \A i \in 1..Len(executed) : executed[i].step < mTimeStepCount
  BY <1>3 DEF Inv, QueueInv, TimeInv
<1>11. QueueInv'
  <2>1. \A f \in mEvents' : eventTime'[f] # Unset /\ addedAt'[f] <= mTimeStepCount'
    BY <1>2, <1>3, <1>8 DEF Inv, Typed, QueueInv, Unset
  <2>2. ASSUME NEW i \in 1..Len(executed)
        PROVE  /\ eventTime'[executed[i].event] # Unset
               /\ executed[i].event \notin mEvents'
               /\ \A f \in mEvents' : addedAt'[f] <= executed[i].step
                    => eventTime'[executed[i].event] <= eventTime'[f]
    <3>1. executed[i].event \in Events \ {e} /\ executed[i].step < mTimeStepCount
      BY <1>9, <1>10
    <3>2. eventTime'[executed[i].event] = eventTime[executed[i].event]
      BY <1>8, <3>1
    <3>3. ASSUME NEW f \in mEvents', addedAt'[f] <= executed[i].step
          PROVE  eventTime[executed[i].event] <= eventTime'[f]
      <4>1. mTimeStepCount \in Nat /\ executed[i].step \in Nat
        BY <1>9 DEF Inv, Typed
      <4>2. f # e
        BY <1>8, <3>1, <3>3, <4>1
      <4>3. f \in mEvents /\ f \in Events \ {e}
        BY <1>3, <3>3, <4>2 DEF Inv, Typed
      <4> QED BY <1>8, <3>3, <4>3 DEF Inv, QueueInv
    <3> QED BY <1>3, <1>7, <3>1, <3>2, <3>3 DEF Inv, QueueInv
  <2> QED BY <1>3, <1>10, <2>1, <2>2 DEF Inv, QueueInv
<1>12. EventsInOrder'
  BY <1>3, <1>8, <1>9 DEF Inv, EventsInOrder
<1>13. DueInv'
  BY <1>3, <1>5, <1>8, <1>9 DEF Inv, DueInv
<1> QED BY <1>4, <1>6, <1>11, <1>12, <1>13 DEF Inv

\* The events are executed from the top of the queue, when they are due.
LEMMA HandleEventInv ==
  ASSUME Inv, NEW e \in Events, HandleEvent(e)
  PROVE  Inv'
<1> USE DEF settings
<1> DEFINE x == [event |-> e, step |-> mTimeStepCount]
<1>1. /\ pc = "events" /\ e \in TopEvents /\ Due(e)
      /\ executed' = Append(executed, x) /\ mEvents' = mEvents \ {e}
      /\ UNCHANGED <<settings, pc, mTime, mTimeStepCount, eventTime, addedAt>>
  BY DEF HandleEvent
<1>2. x \in Executions /\ executed \in Seq(Executions)
  BY DEF Inv, Typed, Executions
<1>3. Typed'
  <2>1. executed' \in Seq(Executions)
    BY <1>1, <1>2
  <2> QED BY <1>1, <2>1 DEF Inv, Typed
<1>4. \A n : ExactTime(n)' = ExactTime(n)
  BY <1>1, ExactTimesKept
<1>5. TimeInv' /\ EndInv'
  BY <1>1, <1>4 DEF Inv, TimeInv, EndInv
<1>6. /\ Len(executed') = Len(executed) + 1 /\ Len(executed) \in Nat
      /\ executed'[Len(executed) + 1] = x
      /\ \A i \in 1..Len(executed) : executed'[i] = executed[i]
  BY <1>1, <1>2
<1>7. e \in mEvents /\ \A f \in mEvents : eventTime[e] <= eventTime[f]
  BY <1>1 DEF TopEvents
<1>8. \A i \in 1..Len(executed) : executed[i].event # e
  BY <1>7 DEF Inv, QueueInv
<1>9. eventTime[e] \in Int /\ mTime \in Int
  BY DEF Inv, Typed
<1>10. QueueInv'
  <2>1. \A i \in 1..Len(executed) + 1 : i \in 1..Len(executed) \/ i = Len(executed) + 1
    BY <1>6
  <2>2. \A f \in mEvents' : eventTime'[f] # Unset /\ addedAt'[f] <= mTimeStepCount'
    BY <1>1 DEF Inv, QueueInv
  <2>3. ASSUME NEW i \in 1..Len(executed')
        PROVE  /\ eventTime'[executed'[i].event] # Unset
               /\ executed'[i].event \notin mEvents'
               /\ executed'[i].step <= mTimeStepCount'
               /\ \A f \in mEvents' : addedAt'[f] <= executed'[i].step
                    => eventTime'[executed'[i].event] <= eventTime'[f]
    <3>1. CASE i \in 1..Len(executed)
      BY <1>1, <1>6, <3>1 DEF Inv, QueueInv
    <3>2. CASE i = Len(executed) + 1
      <4>1. executed'[i] = x
        BY <1>6, <3>2
      <4>2. executed'[i].event = e /\ executed'[i].step = mTimeStepCount
        BY <4>1
      <4>3. eventTime[e] # Unset /\ mTimeStepCount <= mTimeStepCount
        BY <1>7 DEF Inv, QueueInv, Typed
      <4> QED BY <1>1, <1>7, <4>2, <4>3
    <3> QED BY <1>6, <2>1, <3>1, <3>2
  <2> QED BY <1>1, <2>2, <2>3 DEF QueueInv
<1>11. EventsInOrder'
  <2> SUFFICES ASSUME NEW i \in 1..Len(executed'), NEW j \in 1..Len(executed'), i < j
               PROVE  /\ executed'[i].event # executed'[j].event
                      /\ addedAt'[executed'[j].event] <= executed'[i].step =>
                           eventTime'[executed'[i].event] <= eventTime'[executed'[j].event]
    BY DEF EventsInOrder
  <2>1. i \in 1..Len(executed)
    BY <1>6
  <2>2. CASE j \in 1..Len(executed)
    BY <1>1, <1>6, <2>1, <2>2 DEF Inv, EventsInOrder
  <2>3. CASE j = Len(executed) + 1
    <3>1. executed'[j].event = e /\ executed'[i] = executed[i]
      BY <1>6, <2>1, <2>3
    <3> QED BY <1>1, <1>7, <1>8, <2>1, <3>1 DEF Inv, QueueInv
  <2> QED BY <1>6, <2>2, <2>3
<1>12. DueInv'
  <2>1. eventTime[e] < mTime + EventTolerance
    BY <1>1, <1>9, TolerancesTyped DEF Due
  <2>2. mTime <= ExactTime(mTimeStepCount) + Rounding
    BY <1>1 DEF Inv, TimeInv
  <2>3. ExactTime(mTimeStepCount) \in Nat
    BY ExactTimes DEF Inv, Typed
  <2>4. eventTime[e] < ExactTime(mTimeStepCount) + EventTolerance + Rounding
    BY <1>9, <2>1, <2>2, <2>3, TolerancesTyped
  <2>5. ASSUME NEW i \in 1..Len(executed')
        PROVE  eventTime'[executed'[i].event]
                 < ExactTime(executed'[i].step) + EventTolerance + Rounding
    <3>1. CASE i \in 1..Len(executed)
      BY <1>1, <1>6, <3>1 DEF Inv, DueInv
    <3>2. CASE i = Len(executed) + 1
      <4>1. executed'[i].event = e /\ executed'[i].step = mTimeStepCount
        BY <1>6, <3>2
      <4> QED BY <1>1, <2>4, <4>1
    <3> QED BY <1>6, <3>1, <3>2
  <2>6. pc' # "tasks"
    BY <1>1
  <2> QED BY <1>4, <2>5, <2>6 DEF DueInv
<1> QED BY <1>3, <1>5, <1>10, <1>11, <1>12 DEF Inv

\* The loop of handleEvents() ends at an event that is not due: with the
\* tolerance above the rounding errors it belongs to a later step.
LEMMA EventsHandledInv ==
  ASSUME Inv, EventsHandled \/ NoEventLeft
  PROVE  Inv'
<1> USE DEF settings, eventVars
<1>1. /\ pc = "events" /\ pc' = "tasks"
      /\ UNCHANGED <<settings, mTime, mTimeStepCount, eventVars>>
      /\ mEvents = {} \/ \E e \in TopEvents : ~Due(e)
  BY DEF EventsHandled, NoEventLeft
<1>2. \A n : ExactTime(n)' = ExactTime(n)
  BY <1>1, ExactTimesKept
<1>3. Typed' /\ TimeInv' /\ QueueInv' /\ EventsInOrder' /\ EndInv'
  BY <1>1, <1>2 DEF Inv, Typed, TimeInv, QueueInv, EventsInOrder, EndInv
<1>4. ASSUME NEW f \in mEvents PROVE eventTime[f] > ExactTime(mTimeStepCount)
  <2>1. PICK e \in TopEvents : ~Due(e)
    BY <1>1, <1>4
  <2>2. e \in mEvents /\ eventTime[e] <= eventTime[f]
    BY <2>1 DEF TopEvents
  <2>3. eventTime[e] \in Int /\ eventTime[f] \in Int /\ mTime \in Int
    BY <2>2 DEF Inv, Typed
  <2>4. mTime <= eventTime[e] /\ eventTime[e] - mTime >= EventTolerance
    BY <2>1, <2>3, TolerancesTyped DEF Due
  <2>5. ExactTime(mTimeStepCount) <= mTime + Rounding /\ ExactTime(mTimeStepCount) \in Nat
    BY <1>1, ExactTimes DEF Inv, Typed, TimeInv
  <2> QED BY <2>2, <2>3, <2>4, <2>5, TolerancesTyped
<1>5. DueInv'
  BY <1>1, <1>2, <1>4 DEF Inv, DueInv
<1> QED BY <1>3, <1>5 DEF Inv

LEMMA StartInv ==
  ASSUME Inv, Start
  PROVE  Inv'
<1> USE DEF settings, eventVars
<1>1. /\ pc = "created" /\ mTime = 0 /\ mTimeStepCount = 0
      /\ UNCHANGED <<settings, mTimeStepCount, eventVars>>
      /\ \/ pc' \in {"events", "loop"} /\ mTime' = FirstTime
         \/ pc' = "thrown" /\ mTime' = mTime
  BY DEF Start, StartRealTime, StartPowerFlow, StartDynamic, FirstStepTime, FirstTime,
         Inv, TimeInv
<1>2. FirstTime \in Int
  BY TolerancesTyped DEF FirstTime
<1>3. Typed'
  BY <1>1, <1>2 DEF Inv, Typed
<1>4. \A n : ExactTime(n)' = ExactTime(n)
  BY <1>1, ExactTimesKept
<1>5. ExactTime(0) = FirstTime
  BY ExactTimes
<1>6. TimeInv' /\ EndInv'
  BY <1>1, <1>2, <1>4, <1>5, TolerancesTyped DEF TimeInv, EndInv
<1> QED BY <1>1, <1>3, <1>6, QueueKept DEF Inv

LEMMA BeginStepInv ==
  ASSUME Inv, BeginStep
  PROVE  Inv'
<1> USE DEF settings, eventVars
<1>1. /\ pc = "loop" /\ GoesOn /\ pc' = "events"
      /\ UNCHANGED <<settings, mTime, mTimeStepCount, eventVars>>
  BY DEF BeginStep
<1>2. \A n : ExactTime(n)' = ExactTime(n)
  BY <1>1, ExactTimesKept
<1>3. Typed' /\ TimeInv'
  BY <1>1, <1>2 DEF Inv, Typed, TimeInv
<1>4. EndInv'
  BY <1>1, TolerancesTyped DEF Inv, Typed, EndInv, GoesOn
<1> QED BY <1>1, <1>3, <1>4, QueueKept DEF Inv

LEMMA StopInv ==
  ASSUME Inv, Stop \/ StopEarly
  PROVE  Inv'
<1> USE DEF settings, eventVars
<1>1. /\ pc = "loop" /\ pc' = "stopped" /\ (~GoesOn \/ mode = "next")
      /\ UNCHANGED <<settings, mTime, mTimeStepCount, eventVars>>
  BY DEF Stop, StopEarly
<1>2. \A n : ExactTime(n)' = ExactTime(n)
  BY <1>1, ExactTimesKept
<1>3. Typed' /\ TimeInv'
  BY <1>1, <1>2 DEF Inv, Typed, TimeInv
<1>4. ~GoesOn => mTime >= mFinalTime
  BY TolerancesTyped DEF Inv, Typed, GoesOn
<1>5. EndInv'
  BY <1>1, <1>2, <1>4 DEF Inv, EndInv
<1> QED BY <1>1, <1>3, <1>5, QueueKept DEF Inv

LEMMA RunTasksInv ==
  ASSUME Inv, RunTasks
  PROVE  Inv'
<1> USE DEF settings, eventVars
<1>1. /\ pc = "tasks" /\ pc' = "loop"
      /\ mTime' \in NextTimes /\ mTimeStepCount' = mTimeStepCount + 1
      /\ UNCHANGED <<settings, eventVars>>
  BY DEF RunTasks
<1>2. /\ mTimeStepCount \in Nat /\ mTime \in Int
      /\ ExactTime(mTimeStepCount) \in Nat /\ ExactTime(mTimeStepCount + 1) \in Nat
  <2>1. mTimeStepCount \in Nat /\ mTimeStepCount + 1 \in Nat /\ mTime \in Int
    BY DEF Inv, Typed
  <2> QED BY <2>1, ExactTimes
<1>3. \A n : ExactTime(n)' = ExactTime(n)
  BY <1>1, ExactTimesKept
<1>4. /\ mTime' \in Int
      /\ mTime' >= ExactTime(mTimeStepCount + 1) - Rounding
      /\ mTime' <= ExactTime(mTimeStepCount + 1) + Rounding
  BY <1>1, <1>2, TolerancesTyped DEF NextTimes
<1>5. Typed'
  BY <1>1, <1>2, <1>4 DEF Inv, Typed
<1>6. TimeInv'
  <2>1. ExactTime(mTimeStepCount)' = ExactTime(mTimeStepCount + 1)
    BY <1>1, <1>3
  <2>2. /\ mTime' <= ExactTime(mTimeStepCount + 1) + Rounding
        /\ ExactTime(mTimeStepCount + 1) <= mTime' + Rounding
    BY <1>2, <1>4, TolerancesTyped
  <2> QED BY <1>1, <2>1, <2>2 DEF TimeInv
<1>7. QueueInv'
  <2>1. \A i \in 1..Len(executed) : executed[i].step \in Nat
    BY ExecutionsTyped
  <2>2. \A f \in mEvents : addedAt[f] \in Int
    BY DEF Inv, Typed
  <2> QED BY <1>1, <1>2, <2>1, <2>2 DEF Inv, QueueInv
<1>8. EventsInOrder' /\ DueInv'
  BY <1>1, <1>3 DEF Inv, EventsInOrder, DueInv
<1>9. EndInv'
  <2>1. mTimeStepCount >= 1 => ExactTime(mTimeStepCount) < mFinalTime + Epsilon + Rounding
    BY <1>1, <1>2, TolerancesTyped DEF Inv, Typed, TimeInv, EndInv
  <2>2. mTimeStepCount' - 1 = mTimeStepCount
    BY <1>1, <1>2
  <2>3. mTimeStepCount' >= 2 =>
          ExactTime(mTimeStepCount' - 1) < mFinalTime + Epsilon + Rounding
    BY <1>1, <1>2, <2>1, <2>2
  <2> QED BY <1>1, <1>3, <2>3 DEF EndInv
<1> QED BY <1>5, <1>6, <1>7, <1>8, <1>9 DEF Inv

LEMMA ThrowInv ==
  ASSUME Inv, ThrowOutOfBounds
  PROVE  Inv'
<1> USE DEF settings, eventVars
<1>1. /\ pc' = "thrown" /\ UNCHANGED <<settings, mTime, mTimeStepCount, eventVars>>
  BY DEF ThrowOutOfBounds
<1>2. Typed' /\ TimeInv' /\ EndInv'
  BY <1>1 DEF Inv, Typed, TimeInv, EndInv
<1> QED BY <1>1, <1>2, QueueKept DEF Inv

LEMMA NextInv == Inv /\ [Next]_vars => Inv'
<1> SUFFICES ASSUME Inv, [Next]_vars PROVE Inv'
  OBVIOUS
<1>1. CASE UNCHANGED vars
  <2>1. \A n : ExactTime(n)' = ExactTime(n)
    BY <1>1, ExactTimesKept DEF vars
  <2> QED BY <1>1, <2>1 DEF vars, settings, eventVars, Inv, Typed, TimeInv, QueueInv,
             EventsInOrder, DueInv, EndInv
<1> QED BY <1>1, AddEventInv, HandleEventInv, EventsHandledInv, StartInv, BeginStepInv,
           StopInv, RunTasksInv, ThrowInv DEF Next, Step, Ended

(***************************************************************************)
(* The queue, the time and the end of a simulation in every interleaving   *)
(* of its steps and its user's calls.                                      *)
(***************************************************************************)
THEOREM Invariance == Spec => []Inv
BY InitInv, NextInv, PTL DEF Spec

(***************************************************************************)
(* handleEvents() executes an event in the step of its time, whatever the  *)
(* rounding errors of the summed time.                                     *)
(***************************************************************************)
THEOREM Punctuality == Spec => []EventsInTheirStep
<1>1. Inv => EventsInTheirStep
  BY DEF Inv, Typed, DueInv, EventsInTheirStep, RangeOf
<1> QED BY <1>1, Invariance, PTL

(***************************************************************************)
(* Every event is executed at most once, and in the order of time.         *)
(***************************************************************************)
THEOREM Order == Spec => []EventsInOrder
<1>1. Inv => EventsInOrder
  BY DEF Inv
<1> QED BY <1>1, Invariance, PTL

(***************************************************************************)
(* The loops of run() and RealTimeSimulation::run() end at the final time. *)
(***************************************************************************)
THEOREM EndOfRun == Spec => []LastStepAtFinalTime
<1>1. ASSUME Inv PROVE LastStepAtFinalTime
  <2> SUFFICES ASSUME pc = "stopped", mode # "next" PROVE LastStepAtFinalTime
    BY DEF LastStepAtFinalTime
  <2>1. ExactTime(mTimeStepCount) \in Nat /\ mTime \in Int /\ mFinalTime \in Nat
    BY <1>1, ExactTimes DEF Inv, Typed
  <2>2. ExactTime(mTimeStepCount) + Rounding >= mFinalTime
    BY <1>1, <2>1, TolerancesTyped DEF Inv, TimeInv, EndInv
  <2>3. mTimeStepCount > 1 => mTimeStepCount >= 2
    BY <1>1 DEF Inv, Typed
  <2> QED BY <1>1, <2>2, <2>3 DEF Inv, EndInv, LastStepAtFinalTime
<1> QED BY <1>1, Invariance, PTL
-----------------------------------------------------------------------------
(* The rows of the logs.                                                   *)

InProgress == pc \in {"loop", "events", "tasks", "stopped"}

\* The rows are in order and before the time of the step; the file has a row for
\* each step so far that is not skipped, the memory one for every step.
RowsInv ==
  /\ fileRows \in Seq(Int)
  /\ \A i, j \in 1..Len(fileRows) : i < j => fileRows[i] < fileRows[j]
  /\ InProgress => \A i \in 1..Len(fileRows) : fileRows[i] < ExactTime(mTimeStepCount)
  /\ InProgress /\ "file" \in RangeOf(mLoggers) =>
       \A n \in 0..(mTimeStepCount - 1) :
         n % Downsampling = 0 => \E i \in 1..Len(fileRows) : fileRows[i] = ExactTime(n)
  /\ InProgress /\ "memory" \in RangeOf(mLoggers) =>
       /\ memoryRows \in [1..RowNumber(mFinalTime) -> Int]
       /\ mTimeStepCount <= RowNumber(mFinalTime) \/ mTimeStepCount = 0
       /\ \A n \in 0..(mTimeStepCount - 1) : memoryRows[n + 1] = ExactTime(n)

\* A printed time has lost its rounding error.
LEMMA PrintedExact ==
  ASSUME NEW n \in Nat, NEW t \in Int,
         t <= ExactTime(n) + Rounding, ExactTime(n) <= t + Rounding
  PROVE  Printed(t) = ExactTime(n)
<1>1. PICK k \in Nat : ExactTime(n) = k * DT
  <2>1. ExactTime(n) = n * DT \/ ExactTime(n) = DT + n * DT
    BY TolerancesTyped DEF ExactTime, FirstTime
  <2>2. DT + n * DT = (n + 1) * DT
    BY TolerancesTyped
  <2> QED BY <2>1, <2>2
<1> DEFINE e == k * DT
           r == t + Rounding - e
<1>2. e \in Nat
  BY TolerancesTyped
<1>3. r \in Nat /\ r < DT /\ t + Rounding = e + r
  <2> HIDE DEF e
  <2> QED BY <1>1, <1>2, TolerancesTyped DEF e
<1>4. (k * DT + r) \div DT = k
  <2> HIDE DEF r
  <2> QED BY <1>3, TolerancesTyped, DivisionByStep
<1> QED BY <1>1, <1>3, <1>4 DEF Printed

LEMMA PrintedZero == Printed(0) = 0
<1>1. (0 * DT + Rounding) \div DT = 0
  BY TolerancesTyped, DivisionByStep
<1>2. 0 * DT = 0 /\ 0 + Rounding = 0 * DT + Rounding
  BY TolerancesTyped
<1> QED BY <1>1, <1>2 DEF Printed

LEMMA RowNumberTyped == \A final \in Nat : RowNumber(final) \in Int
  BY TolerancesTyped DEF RowNumber

\* A row that is later than all others keeps them in order.
LEMMA AppendedRow ==
  ASSUME NEW rows \in Seq(Int), NEW x \in Int,
         \A i, j \in 1..Len(rows) : i < j => rows[i] < rows[j],
         \A i \in 1..Len(rows) : rows[i] < x
  PROVE  LET new == Append(rows, x) IN
         /\ new \in Seq(Int)
         /\ \A i, j \in 1..Len(new) : i < j => new[i] < new[j]
         /\ \A i \in 1..Len(new) : new[i] <= x
         /\ \A i \in 1..Len(rows) : i \in 1..Len(new) /\ new[i] = rows[i]
         /\ Len(new) \in 1..Len(new) /\ new[Len(new)] = x
<1> DEFINE new == Append(rows, x)
<1>1. /\ new \in Seq(Int) /\ Len(rows) \in Nat /\ Len(new) = Len(rows) + 1
      /\ \A i \in 1..Len(rows) : new[i] = rows[i] /\ rows[i] \in Int
      /\ new[Len(rows) + 1] = x
  OBVIOUS
<1> HIDE DEF new
<1>2. \A i \in 1..Len(new) : i \in 1..Len(rows) \/ i = Len(rows) + 1
  BY <1>1
<1>3. ASSUME NEW i \in 1..Len(new), NEW j \in 1..Len(new), i < j
      PROVE  new[i] < new[j]
  <2>1. i \in 1..Len(rows)
    BY <1>1, <1>2, <1>3
  <2>2. CASE j \in 1..Len(rows)
    <3>1. rows[i] < rows[j]
      BY <1>3, <2>1, <2>2
    <3> QED BY <1>1, <2>1, <2>2, <3>1
  <2>3. CASE j = Len(rows) + 1
    <3>1. rows[i] < x
      BY <2>1
    <3> QED BY <1>1, <2>1, <2>3, <3>1
  <2> QED BY <1>2, <2>2, <2>3
<1>4. ASSUME NEW i \in 1..Len(new)
      PROVE  new[i] <= x
  <2>1. CASE i \in 1..Len(rows)
    <3>1. rows[i] < x /\ rows[i] \in Int
      BY <1>1, <2>1
    <3> QED BY <1>1, <2>1, <3>1
  <2>2. CASE i = Len(rows) + 1
    BY <1>1, <2>2
  <2> QED BY <1>2, <2>1, <2>2
<1> QED BY <1>1, <1>3, <1>4 DEF new

\* A row that is overwritten stays a time.
LEMMA OverwrittenRow ==
  ASSUME NEW S, NEW rows \in [S -> Int], NEW n, NEW x \in Int
  PROVE  [rows EXCEPT ![n] = x] \in [S -> Int]
OBVIOUS

\* The step of the loggers, in a time step that is made.
LEMMA RunTasksRows ==
  ASSUME Inv, RowsInv, RunTasks
  PROVE  RowsInv'
<1> USE DEF settings
<1> DEFINE now == ExactTime(mTimeStepCount)
<1>1. /\ pc = "tasks" /\ pc' = "loop" /\ mTimeStepCount' = mTimeStepCount + 1
      /\ UNCHANGED settings /\ InProgress
  BY DEF RunTasks, InProgress
<1>2. /\ mTimeStepCount \in Nat /\ now \in Nat /\ mTime \in Int
      /\ ExactTime(mTimeStepCount + 1) = now + DT
  BY ExactTimes DEF Inv, Typed
<1>3. Printed(mTime) = now
  BY <1>1, <1>2, PrintedExact DEF Inv, TimeInv
<1>4. \A n : ExactTime(n)' = ExactTime(n)
  BY <1>1, ExactTimesKept
<1>5. RangeOf(mLoggers)' = RangeOf(mLoggers) /\ RowNumber(mFinalTime)' = RowNumber(mFinalTime)
  BY <1>1 DEF RangeOf, RowNumber
<1>6. fileRows' = fileRows \/ fileRows' = Append(fileRows, now)
  BY <1>3 DEF RunTasks, LogFile
<1>7. /\ fileRows \in Seq(Int)
      /\ \A i, j \in 1..Len(fileRows) : i < j => fileRows[i] < fileRows[j]
      /\ \A i \in 1..Len(fileRows) : fileRows[i] < now
  BY <1>1 DEF RowsInv
<1> HIDE DEF now
<1>8. /\ fileRows' \in Seq(Int)
      /\ \A i, j \in 1..Len(fileRows') : i < j => fileRows'[i] < fileRows'[j]
      /\ \A i \in 1..Len(fileRows') : fileRows'[i] <= now
      /\ \A i \in 1..Len(fileRows) : i \in 1..Len(fileRows') /\ fileRows'[i] = fileRows[i]
  <2>1. CASE fileRows' = fileRows
    <3>1. \A i \in 1..Len(fileRows) : fileRows[i] \in Int
      BY <1>7
    <3> QED BY <1>2, <1>7, <2>1, <3>1
  <2>2. CASE fileRows' = Append(fileRows, now)
    BY <1>2, <1>7, <2>2, AppendedRow
  <2> QED BY <1>6, <2>1, <2>2
<1>9. \A i \in 1..Len(fileRows') : fileRows'[i] < ExactTime(mTimeStepCount + 1)
  <2>1. \A i \in 1..Len(fileRows') : fileRows'[i] \in Int
    BY <1>8
  <2> QED BY <1>2, <1>8, <2>1, TolerancesTyped
<1>10. ASSUME "file" \in RangeOf(mLoggers), NEW n \in 0..mTimeStepCount, n % Downsampling = 0
       PROVE  \E i \in 1..Len(fileRows') : fileRows'[i] = ExactTime(n)
  <2>1. CASE n \in 0..(mTimeStepCount - 1)
    <3>1. PICK i \in 1..Len(fileRows) : fileRows[i] = ExactTime(n)
      BY <1>1, <1>10, <2>1 DEF RowsInv
    <3> QED BY <1>8, <3>1
  <2>2. CASE n = mTimeStepCount
    <3>1. fileRows' = Append(fileRows, now)
      BY <1>3, <1>10, <2>2 DEF RunTasks, LogFile
    <3>2. Len(fileRows') \in 1..Len(fileRows') /\ fileRows'[Len(fileRows')] = now
      BY <1>2, <1>7, <3>1, AppendedRow
    <3> QED BY <2>2, <3>2 DEF now
  <2> QED BY <1>2, <2>1, <2>2
<1>11. ASSUME "memory" \in RangeOf(mLoggers)
       PROVE  /\ memoryRows' \in [1..RowNumber(mFinalTime) -> Int]
              /\ mTimeStepCount + 1 <= RowNumber(mFinalTime)
              /\ \A n \in 0..mTimeStepCount : memoryRows'[n + 1] = ExactTime(n)
  <2>1. RowNumber(mFinalTime) \in Int
    BY RowNumberTyped DEF Inv, Typed
  <2>2. ~(mTimeStepCount >= RowNumber(mFinalTime))
    BY <1>11 DEF RunTasks, RowMissing
  <2>3. mTimeStepCount + 1 \in 1..RowNumber(mFinalTime)
    BY <1>2, <2>1, <2>2
  <2>4. memoryRows' = [memoryRows EXCEPT ![mTimeStepCount + 1] = now]
    BY <1>3, <1>11 DEF RunTasks, LogMemory
  <2>5. /\ memoryRows \in [1..RowNumber(mFinalTime) -> Int]
        /\ \A n \in 0..(mTimeStepCount - 1) : memoryRows[n + 1] = ExactTime(n)
    BY <1>1, <1>11 DEF RowsInv
  <2>6. ASSUME NEW n \in 0..mTimeStepCount PROVE memoryRows'[n + 1] = ExactTime(n)
    <3>1. CASE n = mTimeStepCount
      BY <1>2, <2>3, <2>4, <2>5, <3>1 DEF now
    <3>2. CASE n # mTimeStepCount
      <4>1. n \in 0..(mTimeStepCount - 1) /\ n + 1 # mTimeStepCount + 1
        BY <1>2, <3>2
      <4> QED BY <2>4, <2>5, <4>1, <2>3, <1>2
    <3> QED BY <3>1, <3>2
  <2> QED BY <1>2, <2>1, <2>3, <2>4, <2>5, <2>6
<1>12. mTimeStepCount' - 1 = mTimeStepCount
  BY <1>1, <1>2
<1> QED BY <1>1, <1>4, <1>5, <1>8, <1>9, <1>10, <1>11, <1>12 DEF RowsInv

\* start() begins with an empty log, or with the initial values as a row.
LEMMA StartRows ==
  ASSUME Inv, RowsInv, Start
  PROVE  RowsInv'
<1> USE DEF settings
<1>1. /\ pc = "created" /\ mTimeStepCount = 0 /\ mTimeStepCount' = 0
      /\ UNCHANGED settings
      /\ pc' \in {"events", "loop", "thrown"}
  BY DEF Start, StartRealTime, StartPowerFlow, StartDynamic, Inv, TimeInv
<1>2. /\ fileRows' = <<>> \/ (pc' \in {"loop", "thrown"} /\ fileRows' = <<0>> /\ FirstTime = DT)
      /\ memoryRows' \in [1..RowNumber(mFinalTime) -> Int]
  <2>1. RowNumber(mFinalTime) \in Int
    BY RowNumberTyped DEF Inv, Typed
  <2>2. EmptyMemory \in [1..RowNumber(mFinalTime) -> Int]
    BY DEF EmptyMemory, Unset
  <2>3. CASE StartRealTime \/ StartPowerFlow
    BY <2>2, <2>3 DEF StartRealTime, StartPowerFlow
  <2>4. CASE StartDynamic
    <3>1. LogFile(<<>>, 0, 0) = <<0>> \/ LogFile(<<>>, 0, 0) = <<>>
      <4>1. Append(<<>>, 0) = <<0>>
        OBVIOUS
      <4> QED BY <4>1, PrintedZero DEF LogFile
    <3>2. fileRows' = LogFile(<<>>, 0, 0) \/ fileRows' = <<>>
      BY <2>4 DEF StartDynamic
    <3>3. FirstTime = DT /\ pc' \in {"loop", "thrown"}
      BY <2>4 DEF StartDynamic, FirstTime
    <3>4. LogMemory(EmptyMemory, 0, 0) \in [1..RowNumber(mFinalTime) -> Int]
      <4>1. LogMemory(EmptyMemory, 0, 0) = [EmptyMemory EXCEPT ![0 + 1] = 0]
        BY PrintedZero DEF LogMemory
      <4>2. 0 \in Int
        OBVIOUS
      <4>3. [EmptyMemory EXCEPT ![0 + 1] = 0] \in [1..RowNumber(mFinalTime) -> Int]
        BY ONLY <2>2, <4>2, OverwrittenRow, Zenon
      <4> QED BY <4>1, <4>3
    <3>5. memoryRows' = EmptyMemory \/ memoryRows' = LogMemory(EmptyMemory, 0, 0)
      BY <2>4 DEF StartDynamic
    <3> QED BY <2>2, <3>1, <3>2, <3>3, <3>4, <3>5
  <2> QED BY <2>3, <2>4 DEF Start
<1>3. ExactTime(0)' = ExactTime(0) /\ ExactTime(0) = FirstTime /\ FirstTime \in Nat
  BY <1>1, ExactTimesKept, ExactTimes, TolerancesTyped DEF FirstTime
<1>4. RangeOf(mLoggers)' = RangeOf(mLoggers) /\ RowNumber(mFinalTime)' = RowNumber(mFinalTime)
  BY <1>1 DEF RangeOf, RowNumber
<1>5. /\ fileRows' \in Seq(Int)
      /\ \A i, j \in 1..Len(fileRows') : i < j => fileRows'[i] < fileRows'[j]
      /\ \A i \in 1..Len(fileRows') : fileRows'[i] < FirstTime
  <2>1. CASE fileRows' = <<>>
    BY <2>1
  <2>2. CASE fileRows' = <<0>> /\ FirstTime = DT
    <3>1. fileRows' \in Seq(Int) /\ Len(fileRows') = 1 /\ fileRows'[1] = 0
      BY <2>2
    <3>2. \A i \in 1..Len(fileRows') : i = 1
      BY <3>1
    <3> QED BY <2>2, <3>1, <3>2, TolerancesTyped
  <2> QED BY <1>2, <2>1, <2>2
<1>6. 0..(mTimeStepCount' - 1) = {}
  BY <1>1
<1> QED BY <1>1, <1>2, <1>3, <1>4, <1>5, <1>6 DEF RowsInv, InProgress

LEMMA NextRows == Inv /\ RowsInv /\ [Next]_vars => RowsInv'
<1> SUFFICES ASSUME Inv, RowsInv, [Next]_vars PROVE RowsInv'
  OBVIOUS
<1> USE DEF settings
<1>1. ASSUME UNCHANGED <<settings, mTimeStepCount, fileRows, memoryRows>>,
             InProgress' => InProgress
      PROVE  RowsInv'
  <2>1. \A n : ExactTime(n)' = ExactTime(n)
    BY <1>1, ExactTimesKept
  <2>2. RangeOf(mLoggers)' = RangeOf(mLoggers) /\ RowNumber(mFinalTime)' = RowNumber(mFinalTime)
    BY <1>1 DEF RangeOf, RowNumber
  <2> QED BY <1>1, <2>1, <2>2 DEF RowsInv
<1>2. CASE ThrowOutOfBounds
  <2>1. ~InProgress' /\ pc = "tasks" /\ InProgress
    BY <1>2 DEF ThrowOutOfBounds, InProgress
  <2>2. /\ mTimeStepCount \in Nat /\ mTime \in Int
        /\ ExactTime(mTimeStepCount) \in Nat
    BY ExactTimes DEF Inv, Typed
  <2>3. Printed(mTime) = ExactTime(mTimeStepCount)
    BY <2>1, <2>2, PrintedExact DEF Inv, TimeInv
  <2>4. fileRows' = fileRows \/ fileRows' = Append(fileRows, ExactTime(mTimeStepCount))
    BY <1>2, <2>3 DEF ThrowOutOfBounds, LogFile
  <2>5. /\ fileRows' \in Seq(Int)
        /\ \A i, j \in 1..Len(fileRows') : i < j => fileRows'[i] < fileRows'[j]
    <3> DEFINE now == ExactTime(mTimeStepCount)
    <3>1. /\ fileRows \in Seq(Int) /\ now \in Int
          /\ \A i, j \in 1..Len(fileRows) : i < j => fileRows[i] < fileRows[j]
          /\ \A i \in 1..Len(fileRows) : fileRows[i] < now
          /\ fileRows' = fileRows \/ fileRows' = Append(fileRows, now)
      BY <2>1, <2>2, <2>4 DEF RowsInv
    <3> HIDE DEF now
    <3>2. CASE fileRows' = fileRows
      BY <3>1, <3>2
    <3>3. CASE fileRows' = Append(fileRows, now)
      BY <3>1, <3>3, AppendedRow
    <3> QED BY <3>1, <3>2, <3>3
  <2> QED BY <2>1, <2>5 DEF RowsInv
<1>3. CASE \E e \in Events : AddEvent(e) \/ HandleEvent(e)
  BY <1>1, <1>3 DEF AddEvent, HandleEvent, logVars, InProgress
<1>4. CASE BeginStep \/ EventsHandled \/ NoEventLeft \/ Stop \/ StopEarly
  BY <1>1, <1>4 DEF BeginStep, EventsHandled, NoEventLeft, Stop, StopEarly, logVars, InProgress
<1>5. CASE UNCHANGED vars
  BY <1>1, <1>5 DEF vars, logVars, InProgress
<1> QED BY <1>2, <1>3, <1>4, <1>5, StartRows, RunTasksRows DEF Next, Step, Ended

(***************************************************************************)
(* No row of a log is missing, out of order or written twice, with any     *)
(* downsampling and any list of loggers.                                   *)
(***************************************************************************)
THEOREM CompleteLogs == Spec => []RowsFollowTime
<1>1. Init => RowsInv
  BY DEF Init, RowsInv, InProgress
<1>2. ASSUME Inv, RowsInv PROVE RowsFollowTime
  <2>1. "file" \in RangeOf(mLoggers) /\ pc \in {"loop", "stopped"} =>
          {ExactTime(n) : n \in {k \in 0..(mTimeStepCount - 1) : k % Downsampling = 0}}
            \subseteq RangeOf(fileRows)
    BY <1>2 DEF RowsInv, InProgress, RangeOf
  <2> QED BY <1>2, <2>1 DEF RowsInv, InProgress, RowsFollowTime
<1> QED BY <1>1, <1>2, NextRows, Invariance, PTL DEF Spec
=============================================================================
