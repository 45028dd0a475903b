-------------------------- MODULE ThreadScheduler --------------------------
(***************************************************************************)
(* ThreadScheduler of dpsim/src/ThreadScheduler.cpp: the threads, the start *)
(* barrier, the schedule entries with their end counters, and the calls    *)
(* step() and stop() that the simulation makes from thread 0.              *)
(*                                                                         *)
(* A schedule entry is <<t, i>>, the i-th entry of thread t, so its        *)
(* position in mSchedules is its identity.  The barrier is the contract    *)
(* that Barrier implements.  Executing a task is a step that begins it and *)
(* a step that ends it, so executions of different threads overlap.        *)
(***************************************************************************)
EXTENDS Integers, FiniteSets

CONSTANTS
  Threads,      \* the thread indices 0..mNumThreads-1; 0 is the caller
  Schedules,    \* the schedules createSchedule() may produce: records
                \*   size: how many entries each thread has
                \*   req:  the entries whose counters each entry waits for
  MaxSteps      \* bound: how many steps the simulation makes

Helpers == Threads \ {0}

\* The entries of a schedule that gives thread t size[t] entries.
EntriesOf(sz) == UNION {{t} \X (1..sz[t]) : t \in Threads}

ASSUME SchedulerAssumption ==
  /\ IsFiniteSet(Threads) /\ 0 \in Threads /\ Threads \subseteq Nat
  /\ MaxSteps \in Nat
  /\ \A s \in Schedules :
       /\ s.size \in [Threads -> Nat]
       /\ s.req \in [EntriesOf(s.size) -> SUBSET EntriesOf(s.size)]

VARIABLES
  size, req,        \* mTempSchedules and the reqCounters of mSchedules
  endCounter,       \* the endCounter of every entry
  pc,               \* where each thread is
  pos,              \* the entry doStep() of each thread is at
  pending,          \* the entries whose counters it still has to wait for
  arrived, departed,\* calls of mStartBarrier.wait() made and returned
  mTimeStepCount,   \* the member read by all threads
  mJoining,         \* the member that tells the helpers to exit
  simStep           \* Simulation::mTimeStepCount: steps completed

schedVars == <<size, req>>
vars == <<size, req, endCounter, pc, pos, pending, arrived, departed,
          mTimeStepCount, mJoining, simStep>>

Entries == EntriesOf(size)

StartBarrier == INSTANCE BarrierSpec

Locations == {"created", "idle", "arrive", "barrier", "check", "wait", "exec",
              "finish", "stopArrive", "stopBarrier", "join", "stopped",
              "none", "exited"}

Init ==
  /\ size = [t \in Threads |-> 0]
  /\ req = [e \in {} |-> {}]
  /\ endCounter = [e \in {} |-> 0]
  /\ pc = [t \in Threads |-> IF t = 0 THEN "created" ELSE "none"]
  /\ pos = [t \in Threads |-> 1]
  /\ pending = [t \in Threads |-> {}]
  /\ StartBarrier!Init
  /\ mTimeStepCount = 0
  /\ mJoining = FALSE
  /\ simStep = 0

\* The counter of entry r has the value its waiters wait for.
Ended(r) == endCounter[r] = mTimeStepCount + 1

\* Fault: step() returns without waiting for the other threads.
NoLastEntries == {}

\* The last entries of the helper threads that have any.
LastEntries == {<<t, size[t]>> : t \in {u \in Helpers : size[u] # 0}}

Goto(t, to) == pc' = [pc EXCEPT ![t] = to]

\* doStep(): thread t goes on to its i-th entry, or leaves the loop after
\* the last one.  Thread 0 is then at the end of step(), where it waits for
\* the last entries of the others; a helper is back at the start barrier.
GotoEntry(t, i) ==
  /\ pos' = [pos EXCEPT ![t] = i]
  /\ \/ /\ i <= size[t]
        /\ pending' = [pending EXCEPT ![t] = req[<<t, i>>]]
        /\ Goto(t, "wait")
     \/ /\ i > size[t]
        /\ t = 0
        /\ pending' = [pending EXCEPT ![t] = LastEntries]
        /\ Goto(t, "finish")
     \/ /\ i > size[t]
        /\ t # 0
        /\ pending' = [pending EXCEPT ![t] = {}]
        /\ Goto(t, "arrive")

-----------------------------------------------------------------------------
(* The calls made by the simulation.                                       *)

\* createSchedule() ends in finishSchedule(), which builds the entries and
\* spawns the helper threads.
CreateSchedule ==
  /\ pc[0] = "created"
  /\ \E s \in Schedules :
       /\ size' = s.size
       /\ req' = s.req
       /\ endCounter' = [e \in EntriesOf(s.size) |-> 0]
  /\ pc' = [t \in Threads |-> IF t = 0 THEN "idle" ELSE "arrive"]
  /\ UNCHANGED <<pos, pending, arrived, departed, mTimeStepCount, mJoining, simStep>>

\* step(mTime, mTimeStepCount) of Simulation::step().
CallStep ==
  /\ pc[0] = "idle"
  /\ simStep < MaxSteps
  /\ mTimeStepCount' = simStep
  /\ Goto(0, "arrive")
  /\ UNCHANGED <<schedVars, endCounter, pos, pending, arrived, departed, mJoining, simStep>>

\* step() returns and Simulation::step() counts it.
ReturnStep ==
  /\ pc[0] = "finish"
  /\ pending[0] = {}
  /\ Goto(0, "idle")
  /\ simStep' = simStep + 1
  /\ UNCHANGED <<schedVars, endCounter, pos, pending, arrived, departed,
                 mTimeStepCount, mJoining>>

\* Fault: mJoining is not set before the barrier.
CallStopKeepsRunning ==
  /\ pc[0] = "idle"
  /\ Goto(0, IF Helpers = {} THEN "stopped" ELSE "stopArrive")
  /\ UNCHANGED <<schedVars, endCounter, pos, pending, arrived, departed,
                 mTimeStepCount, mJoining, simStep>>

\* stop(): with no helper threads there is nothing to do.
CallStop ==
  /\ pc[0] = "idle"
  /\ \/ /\ Helpers = {}
        /\ Goto(0, "stopped")
        /\ UNCHANGED mJoining
     \/ /\ Helpers # {}
        /\ mJoining' = TRUE
        /\ Goto(0, "stopArrive")
  /\ UNCHANGED <<schedVars, endCounter, pos, pending, arrived, departed,
                 mTimeStepCount, simStep>>

Join ==
  /\ pc[0] = "join"
  /\ \A t \in Helpers : pc[t] = "exited"
  /\ Goto(0, "stopped")
  /\ UNCHANGED <<schedVars, endCounter, pos, pending, arrived, departed,
                 mTimeStepCount, mJoining, simStep>>

-----------------------------------------------------------------------------
(* mStartBarrier.wait().                                                   *)

ArriveAtBarrier(t) ==
  /\ \/ pc[t] = "arrive"     /\ Goto(t, "barrier")
     \/ pc[t] = "stopArrive" /\ Goto(t, "stopBarrier")
  /\ StartBarrier!Arrive(t)
  /\ UNCHANGED <<schedVars, endCounter, pos, pending, mTimeStepCount, mJoining, simStep>>

\* Thread 0 goes on to doStep(0) in step() and to the joins in stop().
LeaveBarrierCaller ==
  /\ StartBarrier!Depart(0)
  /\ \/ pc[0] = "barrier" /\ GotoEntry(0, 1)
     \/ pc[0] = "stopBarrier" /\ Goto(0, "join") /\ UNCHANGED <<pos, pending>>
  /\ UNCHANGED <<schedVars, endCounter, mTimeStepCount, mJoining, simStep>>

\* A helper goes on to the test of mJoining.
LeaveBarrierHelper(t) ==
  /\ t # 0
  /\ pc[t] = "barrier"
  /\ StartBarrier!Depart(t)
  /\ Goto(t, "check")
  /\ UNCHANGED <<schedVars, endCounter, pos, pending, mTimeStepCount, mJoining, simStep>>

-----------------------------------------------------------------------------
(* threadFunction() and doStep().                                          *)

CheckJoining(t) ==
  /\ pc[t] = "check"
  /\ \/ mJoining  /\ Goto(t, "exited") /\ UNCHANGED <<pos, pending>>
     \/ ~mJoining /\ GotoEntry(t, 1)
  /\ UNCHANGED <<schedVars, endCounter, arrived, departed, mTimeStepCount,
                 mJoining, simStep>>

\* Counter::wait(mTimeStepCount + 1) on one more counter; the loop of
\* doStep() waits for them one by one, and so does the end of step().
WaitCounter(t) ==
  /\ pc[t] \in {"wait", "finish"}
  /\ \E r \in pending[t] :
       /\ Ended(r)
       /\ pending' = [pending EXCEPT ![t] = @ \ {r}]
  /\ UNCHANGED <<schedVars, endCounter, pc, pos, arrived, departed,
                 mTimeStepCount, mJoining, simStep>>

\* Fault: the required counters are not waited for.
BeginTaskEarly(t) ==
  /\ pc[t] = "wait"
  /\ Goto(t, "exec")
  /\ UNCHANGED <<schedVars, endCounter, pos, pending, arrived, departed,
                 mTimeStepCount, mJoining, simStep>>

BeginTask(t) ==
  /\ pc[t] = "wait"
  /\ pending[t] = {}
  /\ Goto(t, "exec")
  /\ UNCHANGED <<schedVars, endCounter, pos, pending, arrived, departed,
                 mTimeStepCount, mJoining, simStep>>

\* Fault: the end counter is not incremented.
EndTaskUncounted(t) ==
  /\ pc[t] = "exec"
  /\ GotoEntry(t, pos[t] + 1)
  /\ UNCHANGED <<schedVars, endCounter, arrived, departed, mTimeStepCount,
                 mJoining, simStep>>

\* execute() returns, endCounter.inc() follows.
EndTask(t) ==
  /\ pc[t] = "exec"
  /\ endCounter' = [endCounter EXCEPT ![<<t, pos[t]>>] = @ + 1]
  /\ GotoEntry(t, pos[t] + 1)
  /\ UNCHANGED <<schedVars, arrived, departed, mTimeStepCount, mJoining, simStep>>

-----------------------------------------------------------------------------

\* The simulation is over: all threads are gone.
Stopped == pc[0] = "stopped" /\ UNCHANGED vars

ThreadStep(t) ==
  \/ ArriveAtBarrier(t) \/ LeaveBarrierHelper(t) \/ CheckJoining(t)
  \/ WaitCounter(t) \/ BeginTask(t) \/ EndTask(t)

CallerStep == CreateSchedule \/ CallStep \/ ReturnStep \/ CallStop \/ Join
                \/ LeaveBarrierCaller

Next ==
  \/ CallerStep
  \/ \E t \in Threads : ThreadStep(t)
  \/ Stopped

\* Every thread that can go on does: the operating system schedules all
\* threads, tasks terminate, and the simulation runs to its end and stops.
Fairness ==
  /\ WF_vars(CallerStep)
  /\ \A t \in Threads : WF_vars(ThreadStep(t))

Spec == Init /\ [][Next]_vars
FairSpec == Spec /\ Fairness

-----------------------------------------------------------------------------
(* The inductive invariant.                                                *)

CallerOutside == {"idle", "stopArrive", "stopBarrier", "join", "stopped"}
CallerInStep  == {"arrive", "barrier", "wait", "exec", "finish"}

\* Where the caller is determines its barrier calls, mTimeStepCount and
\* mJoining.
CallerInv ==
  /\ pc[0] \in {"created"} \cup CallerOutside \cup CallerInStep
  /\ pc[0] \in {"created", "idle", "arrive", "stopArrive"} =>
       arrived[0] = simStep /\ departed[0] = simStep
  /\ pc[0] \in {"barrier", "stopBarrier"} =>
       arrived[0] = simStep + 1 /\ departed[0] = simStep
  /\ pc[0] \in {"wait", "exec", "finish", "join"} =>
       arrived[0] = simStep + 1 /\ departed[0] = simStep + 1
  /\ pc[0] \in CallerInStep =>
       ~mJoining /\ mTimeStepCount = simStep /\ simStep < MaxSteps
  /\ pc[0] \in {"created", "idle"} => ~mJoining
  /\ pc[0] \in {"stopArrive", "stopBarrier", "join"} => mJoining
  /\ pc[0] = "stopped" => mJoining \/ Helpers = {}
  /\ pc[0] = "created" => simStep = 0 /\ \A t \in Threads : size[t] = 0

\* A helper never passes the start barrier before the caller has called it,
\* and is inside doStep() only during the step the caller has begun.
HelperInv ==
  \A t \in Helpers :
    /\ pc[t] \in {"none", "arrive", "barrier", "check", "wait", "exec", "exited"}
    /\ pc[t] = "none" <=> pc[0] = "created"
    /\ pc[t] \in {"none", "arrive", "check", "wait", "exec"} => arrived[t] = departed[t]
    /\ pc[t] = "none" => departed[t] = 0
    /\ pc[t] = "barrier" => arrived[t] = departed[t] + 1
    /\ pc[t] # "exited" => departed[t] <= arrived[0]
    /\ pc[t] = "exited" => mJoining
    /\ pc[t] \in {"wait", "exec"} =>
         pc[0] \in {"barrier", "wait", "exec", "finish"} /\ departed[t] = simStep + 1

\* The counter of each entry follows from how often its thread has passed the
\* start barrier and from how far it is in doStep().
EntryCounterInv(t, i) ==
  LET c == endCounter[<<t, i>>] IN
    /\ c \in {simStep, simStep + 1}
    /\ pc[0] \in CallerOutside \cup {"arrive"} => c = simStep
    /\ pc[t] \in {"arrive", "barrier", "finish"} => c = departed[t]
    /\ pc[t] = "check" => c = departed[t] - 1
    /\ pc[t] \in {"wait", "exec"} =>
         c = IF i < pos[t] THEN departed[t] ELSE departed[t] - 1

CounterInv == \A t \in Threads : \A i \in 1..size[t] : EntryCounterInv(t, i)

\* What has been waited for stays done for the rest of the step.
WaitInv ==
  \A t \in Threads :
    /\ pc[t] \in {"wait", "exec"} => pos[t] \in 1..size[t]
    /\ pc[t] \notin {"wait", "finish"} => pending[t] = {}
    /\ pc[t] \in {"wait", "exec"} =>
         \A r \in req[<<t, pos[t]>>] \ pending[t] : Ended(r)
    /\ pc[t] = "finish" => \A r \in LastEntries \ pending[t] : Ended(r)

IndInv == CallerInv /\ HelperInv /\ CounterInv /\ WaitInv

-----------------------------------------------------------------------------
(* Properties.                                                             *)

\* Types of the scheduler's members and of the threads' locals.
TypeOK ==
  /\ size \in [Threads -> Nat]
  /\ req \in [Entries -> SUBSET Entries]
  /\ endCounter \in [Entries -> Nat]
  /\ pc \in [Threads -> Locations]
  /\ pos \in [Threads -> Nat \ {0}]
  /\ pending \in [Threads -> SUBSET Entries]
  /\ arrived \in [Threads -> Nat]
  /\ departed \in [Threads -> Nat]
  /\ mTimeStepCount \in 0..MaxSteps
  /\ mJoining \in BOOLEAN
  /\ simStep \in 0..MaxSteps

InStep(t) == pc[t] \in {"wait", "exec"}

\* A task is executed only while the counters of all its required entries
\* stand at this step's value, and no required task is being executed
\* meanwhile: what it reads has been written and is not written again.
DependencyOrder ==
  \A t \in Threads : pc[t] = "exec" =>
    \A r \in req[<<t, pos[t]>>] :
      /\ Ended(r)
      /\ \A u \in Threads : pc[u] = "exec" => <<u, pos[u]>> # r

\* When step() has returned, every entry of every thread has been executed
\* exactly once per step made so far and nobody is inside doStep(); the next
\* write of mTime and mTimeStepCount meets no reader.
StepComplete ==
  pc[0] \in {"idle", "stopArrive", "stopBarrier", "join", "stopped"} =>
    /\ \A e \in Entries : endCounter[e] = simStep
    /\ \A t \in Threads : ~InStep(t)

\* Counter::wait() tests for equality, so a counter that runs past the value
\* would leave its waiters spinning for ever: no thread is a step ahead of
\* the counters others still wait for.
NoCounterOvertaken ==
  \A t \in Threads : \A r \in pending[t] : endCounter[r] <= mTimeStepCount + 1

\* Every helper thread has a task.  Neither scheduler ensures it: a level with
\* fewer tasks than threads leaves some without.
BusyHelpers == \A t \in Helpers : size[t] # 0

\* mJoining is a plain Bool: stop() must not write it while a helper may be
\* about to read it for the step before.  It holds if the helpers are busy.
NoRaceOnJoining ==
  pc[0] = "stopArrive" /\ BusyHelpers => \A t \in Helpers : pc[t] # "check"

Stepping == pc[0] \in CallerInStep

\* Some order of all entries agrees with what they wait for and with the order
\* of each thread; ScheduleBuilder shows that the schedules are of this kind.
Orderable ==
  \E rank \in [Entries -> 1..Cardinality(Entries)] :
    \A e, f \in Entries :
      (e \in req[f] \/ (e[1] = f[1] /\ e[2] < f[2])) => rank[e] < rank[f]

\* Nothing that thread t waits for is missing.
CanGoOn(t) ==
  \/ pc[t] \in {"arrive", "stopArrive"} /\ arrived[t] = departed[t]
  \/ /\ pc[t] \in {"barrier", "stopBarrier"} /\ arrived[t] = departed[t] + 1
     /\ \A u \in Threads : arrived[u] >= arrived[t]
  \/ pc[t] \in {"check", "exec"}
  \/ pc[t] \in {"wait", "finish"} /\ (pending[t] = {} \/ \E r \in pending[t] : Ended(r))
  \/ pc[t] = "join" /\ \A u \in Helpers : pc[u] = "exited"

\* The threads never all wait for each other, at the barrier, for counters or
\* for an exit: not within a step if the schedule can be ordered, and not within
\* stop() if every helper has a task.
NeverStuck ==
  \/ Stepping /\ Orderable
  \/ pc[0] \in {"stopArrive", "stopBarrier", "join"} /\ BusyHelpers
  => \E t \in Threads : CanGoOn(t)

\* Every call of step() returns.
StepReturns == (pc[0] = "arrive") ~> (pc[0] = "idle")

\* stop() is "called on simulation stop to reliably clean up e.g. running
\* helper threads" (Scheduler.h): it ends with all threads joined.
StopReturns == (pc[0] = "stopArrive") ~> (pc[0] = "stopped")

\* stop() ends with all threads joined if every helper has a task.
StopReturnsIfBusy == (pc[0] = "stopArrive" /\ BusyHelpers) ~> (pc[0] = "stopped")

\* What the simulation sees of the scheduler: the step in progress (Stepping),
\* the tasks being executed and those whose counters show them executed in this step.
Running  == {<<t, pos[t]>> : t \in {u \in Threads : pc[u] = "exec"}}
Done     == {e \in Entries : Ended(e)}

Execution == INSTANCE TaskExecution WITH
  Graphs   <- {[tasks |-> EntriesOf(s.size), deps |-> s.req] : s \in Schedules},
  tasks    <- Entries,
  deps     <- req,
  stepping <- Stepping,
  running  <- Running,
  done     <- Done,
  steps    <- simStep

\* The threads together execute every task once per step, in the order of the
\* dependencies, and nothing between two steps: step() keeps its promise.
ExecutionSpec == Execution!Spec
=============================================================================
