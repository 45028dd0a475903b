----------------------------- MODULE Simulation -----------------------------
(***************************************************************************)
(* The life of a simulation: Simulation::run(), the stepping interface     *)
(* start()/next()/stop() and RealTimeSimulation::run(), with the event     *)
(* queue and the two data loggers.                                         *)
(*                                                                         *)
(* Times are floating-point numbers in the code and integers here: DT units *)
(* are a time step, Epsilon is DOUBLE_EPSILON, EventTolerance the 100 ns of *)
(* handleEvents(), and the sum mTime += **mTimeStep may be off the exact    *)
(* time by up to Rounding units.                                           *)
(***************************************************************************)
EXTENDS Integers, Sequences, FiniteSets

CONSTANTS
  Events, EventTimes,   \* the events a user may add, and their times
  FinalTimes,           \* the values of **mFinalTime
  LoggerLists,          \* the values of mLoggers: sequences without repetition
                        \*   over "file" (DataLogger) and "memory"
                        \*   (RealTimeDataLogger)
  DT, Epsilon, EventTolerance, Rounding,
  Downsampling          \* mDownsampling of the DataLogger

Modes == {"run", "next", "realtime"}
Loggers == {"file", "memory"}

ASSUME SimulationAssumption ==
  /\ EventTimes \subseteq Nat /\ FinalTimes \subseteq Nat
  /\ LoggerLists \subseteq Seq(Loggers)
  /\ {DT, Epsilon, EventTolerance, Downsampling} \subseteq Nat \ {0}
  /\ Rounding \in Nat /\ EventTolerance > Rounding
  /\ DT > 2 * (EventTolerance + Rounding)

VARIABLES
  mode,             \* how the simulation is driven
  isNRP,            \* mSolverType = Solver::Type::NRP, a power flow
  mFinalTime, mLoggers,
  pc,               \* where the simulation is
  mTime, mTimeStepCount,
  mEvents,          \* the events in the queue
  eventTime,        \* mTime of the events added so far
  addedAt,          \* history: the step before which they were added
  executed,         \* history: the events executed, each with its step
  active,           \* what start() has started and stop() has not stopped
  fileRows,         \* the times of the rows the DataLogger has written
  memoryRows        \* the times in mAttributeData of the RealTimeDataLogger

settings == <<mode, isNRP, mFinalTime, mLoggers>>
eventVars == <<mEvents, eventTime, addedAt, executed>>
logVars == <<fileRows, memoryRows>>
vars == <<settings, pc, mTime, mTimeStepCount, eventVars, active, logVars>>

RangeOf(s) == {s[i] : i \in 1..Len(s)}

\* The time of the first step and, without rounding, of step n.
FirstTime == IF mode # "realtime" /\ ~isNRP THEN DT ELSE 0
ExactTime(n) == FirstTime + n * DT

\* A time as it is printed: rounding errors are beyond its last digit.
Printed(t) == ((t + Rounding) \div DT) * DT

\* mRowNumber: finalTime / timeStep + 0.5, truncated.
RowNumber(final) == (2 * final + DT) \div (2 * DT)

Unset == -1

Init ==
  /\ mode \in Modes /\ isNRP \in BOOLEAN
  /\ mFinalTime \in FinalTimes /\ mLoggers \in LoggerLists
  /\ pc = "created"
  /\ mTime = 0 /\ mTimeStepCount = 0
  /\ mEvents = {} /\ executed = <<>>
  /\ eventTime = [e \in Events |-> Unset] /\ addedAt = [e \in Events |-> Unset]
  /\ active = {}
  /\ fileRows = <<>> /\ memoryRows = <<>>

-----------------------------------------------------------------------------
(* Calls of the user.                                                      *)

\* addEvent(), before the simulation starts or between two calls of next().
AddEvent(e) ==
  /\ pc = "created" \/ (pc = "loop" /\ mode = "next")
  /\ eventTime[e] = Unset
  /\ \E t \in EventTimes : eventTime' = [eventTime EXCEPT ![e] = t]
  /\ mEvents' = mEvents \cup {e}
  /\ addedAt' = [addedAt EXCEPT ![e] = mTimeStepCount]
  /\ UNCHANGED <<settings, pc, mTime, mTimeStepCount, executed, active, logVars>>

\* The user of the stepping interface calls stop() before the final time.
StopEarly ==
  /\ pc = "loop" /\ mode = "next"
  /\ pc' = "stopped"
  /\ active' = {}
  /\ UNCHANGED <<settings, mTime, mTimeStepCount, eventVars, logVars>>

-----------------------------------------------------------------------------
(* The loggers.                                                            *)

\* Fault: the rows are counted from one.
LogFileCountedFromOne(rows, t, count) ==
  IF (count + 1) % Downsampling = 0 THEN Append(rows, Printed(t)) ELSE rows

\* log(time, count) of the DataLogger: a row if the step is not skipped.
LogFile(rows, t, count) ==
  IF count % Downsampling = 0 THEN Append(rows, Printed(t)) ELSE rows

\* log(time, count) of the RealTimeDataLogger: row count is overwritten, and
\* it throws if there is no such row.
RowMissing(count) == count >= RowNumber(mFinalTime)
LogMemory(rows, t, count) == [rows EXCEPT ![count + 1] = Printed(t)]

\* start() of the loggers: the file is empty, the memory allocated.
EmptyMemory == [n \in 1..RowNumber(mFinalTime) |-> Unset]

-----------------------------------------------------------------------------
(* start(), step() and stop().                                             *)

\* The common part of start() and RealTimeSimulation::run(): initialize(),
\* the loggers are started, the interfaces opened and synchronised.
Prepare == active' = {"scheduler", "interfaces"} \cup RangeOf(mLoggers)

\* A real-time simulation logs nothing before the first step, and nothing is
\* tested before it.
StartRealTime ==
  /\ pc = "created" /\ mode = "realtime"
  /\ Prepare
  /\ pc' = "events"
  /\ fileRows' = <<>> /\ memoryRows' = EmptyMemory
  /\ UNCHANGED <<settings, mTime, mTimeStepCount, eventVars>>

StartPowerFlow ==
  /\ pc = "created" /\ mode # "realtime" /\ isNRP
  /\ Prepare
  /\ pc' = "loop"
  /\ fileRows' = <<>> /\ memoryRows' = EmptyMemory
  /\ UNCHANGED <<settings, mTime, mTimeStepCount, eventVars>>

\* The time of the first step, "to calculate first results at t=timestep".
FirstStepTime == DT

\* mLoggers[0], and no other logger, logs the initial values as row 0.
StartDynamic ==
  /\ pc = "created" /\ mode # "realtime" /\ ~isNRP
  /\ Prepare
  /\ LET first(l) == mLoggers # <<>> /\ Head(mLoggers) = l IN
       /\ fileRows' = IF first("file") THEN LogFile(<<>>, 0, 0) ELSE <<>>
       /\ \/ /\ ~(first("memory") /\ RowMissing(0))
             /\ memoryRows' = IF first("memory") THEN LogMemory(EmptyMemory, 0, 0)
                              ELSE EmptyMemory
             /\ mTime' = FirstStepTime
             /\ pc' = "loop"
          \/ /\ first("memory") /\ RowMissing(0)
             /\ memoryRows' = EmptyMemory
             /\ mTime' = mTime
             /\ pc' = "thrown"
  /\ UNCHANGED <<settings, mTimeStepCount, eventVars>>

\* Fault: only steps that end by the final time are made.
GoesOnToWholeSteps == mTime + DT < mFinalTime + Epsilon

\* The condition of the loop: with a margin, except in real time.
GoesOn == mTime < mFinalTime + (IF mode = "realtime" THEN 0 ELSE Epsilon)

BeginStep ==
  /\ pc = "loop"
  /\ GoesOn
  /\ pc' = "events"
  /\ UNCHANGED <<settings, mTime, mTimeStepCount, eventVars, active, logVars>>

\* Fault: the interfaces are not closed.
StopKeepsInterfaces ==
  /\ pc = "loop"
  /\ ~GoesOn
  /\ pc' = "stopped"
  /\ active' = {"interfaces"}
  /\ UNCHANGED <<settings, mTime, mTimeStepCount, eventVars, logVars>>

Stop ==
  /\ pc = "loop"
  /\ ~GoesOn
  /\ pc' = "stopped"
  /\ active' = {}
  /\ UNCHANGED <<settings, mTime, mTimeStepCount, eventVars, logVars>>

\* Fault: the queue is ordered by the latest event.
LatestEvents == {e \in mEvents : \A f \in mEvents : eventTime[f] <= eventTime[e]}

\* The events that may be at the top of the queue: equal times are unordered.
TopEvents == {e \in mEvents : \A f \in mEvents : eventTime[e] <= eventTime[f]}

\* Fault: the time is compared without tolerance.
DueExactly(e) == mTime >= eventTime[e]

Due(e) == mTime > eventTime[e] \/ eventTime[e] - mTime < EventTolerance

\* One turn of the loop of handleEvents().
HandleEvent(e) ==
  /\ pc = "events"
  /\ e \in TopEvents
  /\ Due(e)
  /\ executed' = Append(executed, [event |-> e, step |-> mTimeStepCount])
  /\ mEvents' = mEvents \ {e}
  /\ UNCHANGED <<settings, pc, mTime, mTimeStepCount, eventTime, addedAt, active, logVars>>

EventsHandled ==
  /\ pc = "events"
  /\ \E e \in TopEvents : ~Due(e)
  /\ pc' = "tasks"
  /\ UNCHANGED <<settings, mTime, mTimeStepCount, eventVars, active, logVars>>

NoEventLeft ==
  /\ pc = "events"
  /\ mEvents = {}
  /\ pc' = "tasks"
  /\ UNCHANGED <<settings, mTime, mTimeStepCount, eventVars, active, logVars>>

\* What the sum may be: off the exact time by at most Rounding.
NextTimes ==
  {t \in (mTime + DT - Rounding)..(mTime + DT + Rounding) :
     /\ t >= ExactTime(mTimeStepCount + 1) - Rounding
     /\ t <= ExactTime(mTimeStepCount + 1) + Rounding}

\* The scheduler executes the tasks, those of the loggers among them; time and
\* step count advance.
RunTasks ==
  /\ pc = "tasks"
  /\ ~("memory" \in RangeOf(mLoggers) /\ RowMissing(mTimeStepCount))
  /\ fileRows' = IF "file" \in RangeOf(mLoggers)
                 THEN LogFile(fileRows, mTime, mTimeStepCount) ELSE fileRows
  /\ memoryRows' = IF "memory" \in RangeOf(mLoggers)
                   THEN LogMemory(memoryRows, mTime, mTimeStepCount) ELSE memoryRows
  /\ mTime' \in NextTimes
  /\ mTimeStepCount' = mTimeStepCount + 1
  /\ pc' = "loop"
  /\ UNCHANGED <<settings, eventVars, active>>

\* The exception of the logger leaves run() or next(); the task of the other
\* logger may have been executed before.  Nothing is stopped or written.
ThrowOutOfBounds ==
  /\ pc = "tasks"
  /\ "memory" \in RangeOf(mLoggers) /\ RowMissing(mTimeStepCount)
  /\ \/ UNCHANGED fileRows
     \/ /\ "file" \in RangeOf(mLoggers)
        /\ fileRows' = LogFile(fileRows, mTime, mTimeStepCount)
  /\ pc' = "thrown"
  /\ UNCHANGED <<settings, mTime, mTimeStepCount, eventVars, active, memoryRows>>

-----------------------------------------------------------------------------

Start == StartRealTime \/ StartPowerFlow \/ StartDynamic

Step == \/ BeginStep \/ (\E e \in Events : HandleEvent(e)) \/ EventsHandled
        \/ NoEventLeft \/ RunTasks \/ ThrowOutOfBounds

\* The user makes no more calls once the simulation has stopped or thrown.
Ended == pc \in {"stopped", "thrown"} /\ UNCHANGED vars

Next ==
  \/ \E e \in Events : AddEvent(e)
  \/ StopEarly
  \/ Start \/ Step \/ Stop
  \/ Ended

Spec == Init /\ [][Next]_vars

\* The thread of the simulation runs on; users call what they like.
FairSpec == Spec /\ WF_vars(Step \/ Stop)

-----------------------------------------------------------------------------

\* Whatever the rounding errors of the time, the solvers of a step see the
\* effect of every event up to its exact time, and of no event of a later
\* step: an event on the time grid is executed in exactly its step.
EventsInTheirStep ==
  /\ pc = "tasks" => \A e \in mEvents : eventTime[e] > ExactTime(mTimeStepCount)
  /\ \A x \in RangeOf(executed) :
       eventTime[x.event] < ExactTime(x.step) + EventTolerance + Rounding

\* Events are executed once each and in the order of their times, except that
\* one added after a later one was executed comes after it.
EventsInOrder ==
  \A i, j \in 1..Len(executed) : i < j =>
    LET e == executed[i].event
        f == executed[j].event
    IN  /\ e # f
        /\ addedAt[f] <= executed[i].step => eventTime[e] <= eventTime[f]

\* The rows of a log are in the order of time, none twice, and the file is
\* complete up to the step before: the initial row of start() and row 0 of the
\* first step are different rows.
RowsFollowTime ==
  /\ \A i, j \in 1..Len(fileRows) : i < j => fileRows[i] < fileRows[j]
  /\ pc \in {"loop", "stopped"} /\ "file" \in RangeOf(mLoggers) =>
       {ExactTime(n) : n \in {k \in 0..(mTimeStepCount - 1) : k % Downsampling = 0}}
         \subseteq RangeOf(fileRows)
  /\ pc \in {"loop", "stopped"} /\ "memory" \in RangeOf(mLoggers) =>
       \A n \in 0..(mTimeStepCount - 1) : memoryRows[n + 1] = ExactTime(n)

\* A simulation that runs to its end makes its last step at the final time,
\* or less than a step before: rounding errors add or cost one step only
\* where the final time is within them of a step.
LastStepAtFinalTime ==
  pc = "stopped" /\ mode # "next" =>
    /\ ExactTime(mTimeStepCount) + Rounding >= mFinalTime
    /\ mTimeStepCount > 1 =>
         ExactTime(mTimeStepCount - 1) < mFinalTime + Epsilon + Rounding

\* RealTimeDataLogger "preallocates mAttributeData from either the final time
\* and step size or an explicit row count, fills it during the run, and writes
\* at the end" (Logger Implementation): a run is not ended by a missing row.
LogIsWritten == pc # "thrown"

\* run() comes to its end, with everything stopped unless a logger threw.
RunEnds ==
  (pc = "loop" /\ mode # "next") ~> ((pc = "stopped" /\ active = {}) \/ pc = "thrown")
=============================================================================
