----------------------- MODULE ThreadScheduler_proofs -----------------------
(***************************************************************************)
(* Proofs about ThreadScheduler, for any number of threads, any schedule   *)
(* and any number of steps.                                                *)
(***************************************************************************)
EXTENDS ThreadScheduler, WellFoundedInduction, TLAPS

-----------------------------------------------------------------------------
(* Entries are pairs of a thread and a position in its schedule.           *)

\* A position within the size of a thread's schedule is an entry.
LEMMA PositionIsEntry ==
  ASSUME NEW sz \in [Threads -> Nat], NEW t \in Threads, NEW i \in 1..sz[t]
  PROVE  <<t, i>> \in EntriesOf(sz)
BY DEF EntriesOf

\* Every entry is such a pair.
LEMMA EntryIsPosition ==
  ASSUME NEW sz \in [Threads -> Nat], NEW e \in EntriesOf(sz)
  PROVE  \E t \in Threads : \E i \in 1..sz[t] : e = <<t, i>>
BY DEF EntriesOf

\* The last entries are entries.
LEMMA LastEntriesAreEntries ==
  ASSUME size \in [Threads -> Nat]
  PROVE  LastEntries \subseteq Entries
<1> SUFFICES ASSUME NEW t \in Helpers, size[t] # 0
             PROVE  <<t, size[t]>> \in Entries
  BY DEF LastEntries
<1>1. t \in Threads /\ size[t] \in 1..size[t]
  BY DEF Helpers
<1> QED
  BY <1>1, PositionIsEntry DEF Entries

-----------------------------------------------------------------------------
(* Type correctness.                                                       *)

\* Moving thread t to its i-th entry keeps the types of the locals.
LEMMA GotoEntryTyped ==
  ASSUME TypeOK, NEW t \in Threads, NEW i \in Nat \ {0}, GotoEntry(t, i)
  PROVE  /\ pc' \in [Threads -> Locations]
         /\ pos' \in [Threads -> Nat \ {0}]
         /\ pending' \in [Threads -> SUBSET Entries]
<1> USE DEF TypeOK
<1>1. pos' \in [Threads -> Nat \ {0}]
  BY DEF GotoEntry
<1>2. pc' \in [Threads -> Locations]
  BY DEF GotoEntry, Goto, Locations
<1>3. CASE i <= size[t]
  <2>1. <<t, i>> \in Entries
    BY <1>3, PositionIsEntry DEF Entries
  <2>2. pending' = [pending EXCEPT ![t] = req[<<t, i>>]]
    BY <1>3 DEF GotoEntry
  <2> QED
    BY <2>1, <2>2, <1>1, <1>2
<1>4. CASE i > size[t]
  <2>1. LastEntries \subseteq Entries
    BY LastEntriesAreEntries
  <2> QED
    BY <2>1, <1>1, <1>2, <1>4 DEF GotoEntry
<1> QED
  BY <1>3, <1>4

\* Each step keeps the types, given the inductive invariant.
LEMMA TypePreserved ==
  ASSUME TypeOK, IndInv, [Next]_vars
  PROVE  TypeOK'
<1> USE SchedulerAssumption DEF TypeOK, Entries
<1>1. CASE CreateSchedule
  <2>1. PICK s \in Schedules : /\ size' = s.size
                               /\ req' = s.req
                               /\ endCounter' = [e \in EntriesOf(s.size) |-> 0]
    BY <1>1 DEF CreateSchedule
  <2>2. pending' \in [Threads -> SUBSET EntriesOf(size')]
    <3>1. pending = [t \in Threads |-> {}]
      BY <1>1 DEF CreateSchedule, IndInv, CallerInv, HelperInv, WaitInv, Helpers
    <3> QED
      BY <3>1, <1>1 DEF CreateSchedule
  <2>3. pc' \in [Threads -> Locations]
    BY <1>1 DEF CreateSchedule, Locations
  <2>4. UNCHANGED <<pos, arrived, departed, mTimeStepCount, mJoining, simStep>>
    BY <1>1 DEF CreateSchedule
  <2> QED
    BY <2>1, <2>2, <2>3, <2>4
<1>2. CASE CallStep
  BY <1>2 DEF CallStep, schedVars, Goto, Locations
<1>3. CASE ReturnStep
  BY <1>3 DEF ReturnStep, schedVars, Goto, Locations, IndInv, CallerInv, CallerInStep
<1>4. CASE CallStop
  BY <1>4 DEF CallStop, schedVars, Goto, Locations
<1>5. CASE Join
  BY <1>5 DEF Join, schedVars, Goto, Locations
<1>6. CASE LeaveBarrierCaller
  <2>1. departed' \in [Threads -> Nat] /\ UNCHANGED arrived
    BY <1>6 DEF LeaveBarrierCaller, StartBarrier!Depart
  <2>2. /\ pc' \in [Threads -> Locations]
        /\ pos' \in [Threads -> Nat \ {0}]
        /\ pending' \in [Threads -> SUBSET Entries]
    <3>1. CASE GotoEntry(0, 1)
      BY <3>1, GotoEntryTyped
    <3>2. CASE Goto(0, "join") /\ UNCHANGED <<pos, pending>>
      BY <3>2 DEF Goto, Locations
    <3> QED
      BY <1>6, <3>1, <3>2 DEF LeaveBarrierCaller
  <2> QED
    BY <1>6, <2>1, <2>2 DEF LeaveBarrierCaller, schedVars
<1>7. ASSUME NEW t \in Threads, ThreadStep(t)
      PROVE  TypeOK'
  <2>1. CASE ArriveAtBarrier(t)
    <3>1. pc' \in [Threads -> Locations]
      BY <2>1 DEF ArriveAtBarrier, Goto, Locations
    <3>2. arrived' \in [Threads -> Nat] /\ UNCHANGED departed
      <4>1. StartBarrier!Arrive(t)
        BY <2>1 DEF ArriveAtBarrier
      <4> QED
        BY <4>1 DEF StartBarrier!Arrive
    <3>3. UNCHANGED <<size, req, endCounter, pos, pending, mTimeStepCount,
                      mJoining, simStep>>
      BY <2>1 DEF ArriveAtBarrier, schedVars
    <3> QED
      BY <3>1, <3>2, <3>3
  <2>2. CASE LeaveBarrierHelper(t)
    BY <2>2 DEF LeaveBarrierHelper, StartBarrier!Depart, schedVars, Goto, Locations
  <2>3. CASE CheckJoining(t)
    <3>1. CASE GotoEntry(t, 1)
      <4>1. /\ pc' \in [Threads -> Locations]
            /\ pos' \in [Threads -> Nat \ {0}]
            /\ pending' \in [Threads -> SUBSET Entries]
        BY <3>1, GotoEntryTyped
      <4> QED
        BY <2>3, <4>1 DEF CheckJoining, schedVars
    <3>2. CASE Goto(t, "exited") /\ UNCHANGED <<pos, pending>>
      BY <2>3, <3>2 DEF CheckJoining, schedVars, Goto, Locations
    <3> QED
      BY <2>3, <3>1, <3>2 DEF CheckJoining
  <2>4. CASE WaitCounter(t)
    BY <2>4 DEF WaitCounter, schedVars
  <2>5. CASE BeginTask(t)
    BY <2>5 DEF BeginTask, schedVars, Goto, Locations
  <2>6. CASE EndTask(t)
    <3>1. <<t, pos[t]>> \in Entries
      BY <2>6, PositionIsEntry DEF EndTask, IndInv, WaitInv
    <3>2. endCounter' \in [Entries -> Nat]
      BY <2>6, <3>1 DEF EndTask
    <3> QED
      BY <2>6, <3>2, GotoEntryTyped DEF EndTask, schedVars
  <2> QED
    BY <1>7, <2>1, <2>2, <2>3, <2>4, <2>5, <2>6 DEF ThreadStep
<1>8. CASE UNCHANGED vars
  BY <1>8 DEF vars
<1> QED
  BY <1>1, <1>2, <1>3, <1>4, <1>5, <1>6, <1>7, <1>8 DEF Next, CallerStep, Stopped

-----------------------------------------------------------------------------
(* The inductive invariant, one lemma per action.                          *)

\* Thread 0 is the caller, every other thread is a helper.
LEMMA CallerOrHelper ==
  /\ 0 \in Threads /\ 0 \notin Helpers /\ Helpers \subseteq Threads
  /\ \A t \in Threads : t = 0 \/ t \in Helpers
BY SchedulerAssumption DEF Helpers

\* The counter of a position of a schedule is a number.
LEMMA CounterIsNat ==
  ASSUME TypeOK, NEW t \in Threads, NEW i \in 1..size[t]
  PROVE  <<t, i>> \in Entries /\ endCounter[<<t, i>>] \in Nat
BY PositionIsEntry DEF TypeOK, Entries

\* finishSchedule() starts every thread in front of the start barrier and
\* every counter at zero.
LEMMA CreateSchedulePreserves ==
  ASSUME TypeOK, TypeOK', IndInv, CreateSchedule
  PROVE  IndInv'
<1> USE CallerOrHelper
<1>1. /\ pc[0] = "created" /\ simStep = 0 /\ simStep' = 0
      /\ \A t \in Threads : arrived[t] = 0 /\ departed[t] = 0
      /\ UNCHANGED <<pos, pending, arrived, departed, mJoining>>
      /\ pc' = [t \in Threads |-> IF t = 0 THEN "idle" ELSE "arrive"]
      /\ ~mJoining
  BY DEF CreateSchedule, IndInv, CallerInv, HelperInv, TypeOK
<1>2. CallerInv'
  BY <1>1 DEF CallerInv, CallerOutside, CallerInStep
<1>3. HelperInv'
  BY <1>1 DEF HelperInv
<1>4. CounterInv'
  <2>1. PICK s \in Schedules : /\ size' = s.size
                              /\ endCounter' = [e \in EntriesOf(s.size) |-> 0]
    BY DEF CreateSchedule
  <2>2. \A t \in Threads : \A i \in 1..size'[t] : endCounter'[<<t, i>>] = 0
    BY <2>1, PositionIsEntry, SchedulerAssumption
  <2> QED
    BY <1>1, <2>2 DEF CounterInv, EntryCounterInv
<1>5. WaitInv'
  <2>1. \A t \in Threads : pending[t] = {}
    BY <1>1 DEF IndInv, HelperInv, WaitInv
  <2> QED
    BY <1>1, <2>1 DEF WaitInv
<1> QED
  BY <1>2, <1>3, <1>4, <1>5 DEF IndInv

\* A call of step() finds no helper in doStep().
LEMMA CallStepPreserves ==
  ASSUME TypeOK, TypeOK', IndInv, CallStep
  PROVE  IndInv'
<1> USE CallerOrHelper
<1>1. /\ pc[0] = "idle" /\ simStep < MaxSteps /\ mTimeStepCount' = simStep
      /\ pc' = [pc EXCEPT ![0] = "arrive"]
      /\ UNCHANGED <<size, req, endCounter, pos, pending, arrived, departed,
                     mJoining, simStep>>
  BY DEF CallStep, Goto, schedVars
<1>2. CallerInv'
  BY <1>1 DEF IndInv, TypeOK, CallerInv, CallerOutside, CallerInStep
<1>3. HelperInv'
  BY <1>1 DEF IndInv, TypeOK, HelperInv
<1>4. CounterInv'
  <2> SUFFICES ASSUME NEW t \in Threads, NEW i \in 1..size[t]
               PROVE  EntryCounterInv(t, i)'
    BY <1>1 DEF CounterInv
  <2>1. EntryCounterInv(t, i)
    BY DEF IndInv, CounterInv
  <2>2. pc'[0] = "arrive" /\ (t # 0 => pc'[t] = pc[t])
    BY <1>1 DEF TypeOK
  <2>3. CASE t = 0
    BY <1>1, <2>1, <2>2, <2>3 DEF IndInv, CallerInv, EntryCounterInv, CallerOutside
  <2>4. CASE t # 0
    BY <1>1, <2>1, <2>2, <2>4 DEF EntryCounterInv, CallerOutside
  <2> QED
    BY <2>3, <2>4
<1>5. WaitInv'
  BY <1>1 DEF IndInv, TypeOK, HelperInv, WaitInv
<1> QED
  BY <1>2, <1>3, <1>4, <1>5 DEF IndInv

\* When step() returns, the last entries of all helpers have their new
\* values, and with them all entries: nobody is behind.
LEMMA ReturnStepPreserves ==
  ASSUME TypeOK, TypeOK', IndInv, ReturnStep
  PROVE  IndInv'
<1> USE CallerOrHelper
<1>1. /\ pc[0] = "finish" /\ pending[0] = {}
      /\ pc' = [pc EXCEPT ![0] = "idle"]
      /\ simStep' = simStep + 1
      /\ UNCHANGED <<size, req, endCounter, pos, pending, arrived, departed,
                     mTimeStepCount, mJoining>>
  BY DEF ReturnStep, Goto, schedVars
<1>2. /\ ~mJoining /\ mTimeStepCount = simStep
      /\ arrived[0] = simStep + 1 /\ departed[0] = simStep + 1
  BY <1>1 DEF IndInv, CallerInv, CallerInStep
<1>3. ASSUME NEW t \in Threads, NEW i \in 1..size[t]
      PROVE  endCounter[<<t, i>>] = simStep + 1
  <2>1. CASE t = 0
    BY <1>1, <1>2, <2>1 DEF IndInv, CounterInv, EntryCounterInv
  <2>2. CASE t \in Helpers
    <3>1. size[t] # 0 /\ size[t] \in 1..size[t]
      BY DEF TypeOK
    <3>2. endCounter[<<t, size[t]>>] = simStep + 1
      <4>1. <<t, size[t]>> \in LastEntries
        BY <2>2, <3>1 DEF LastEntries
      <4> QED
        BY <1>1, <1>2, <4>1 DEF IndInv, WaitInv, Ended
    <3>3. pc[t] \in {"arrive", "barrier"}
      <4>1. pc[t] \notin {"none", "exited"}
        BY <1>1, <1>2, <2>2 DEF IndInv, HelperInv
      <4>2. pc[t] # "check"
        BY <1>2, <2>2, <3>1, <3>2 DEF IndInv, HelperInv, CounterInv, EntryCounterInv, TypeOK
      <4>3. pc[t] \notin {"wait", "exec"}
        <5>1. SUFFICES ASSUME pc[t] \in {"wait", "exec"} PROVE FALSE
          OBVIOUS
        <5>2. departed[t] = simStep + 1 /\ pos[t] \in 1..size[t]
          BY <2>2, <5>1 DEF IndInv, HelperInv, WaitInv
        <5>3. endCounter[<<t, size[t]>>]
                = IF size[t] < pos[t] THEN departed[t] ELSE departed[t] - 1
          BY <3>1, <5>1 DEF IndInv, CounterInv, EntryCounterInv
        <5> QED
          BY <3>1, <3>2, <5>2, <5>3 DEF TypeOK
      <4> QED
        BY <2>2, <4>1, <4>2, <4>3 DEF IndInv, HelperInv
    <3> QED
      BY <3>1, <3>2, <3>3 DEF IndInv, CounterInv, EntryCounterInv
  <2> QED
    BY <2>1, <2>2
<1>4. ASSUME NEW t \in Helpers
      PROVE  pc[t] \notin {"wait", "exec"}
  <2>1. SUFFICES ASSUME pc[t] \in {"wait", "exec"} PROVE FALSE
    OBVIOUS
  <2>2. departed[t] = simStep + 1 /\ pos[t] \in 1..size[t]
    BY <2>1 DEF IndInv, HelperInv, WaitInv
  <2>3. endCounter[<<t, pos[t]>>] = departed[t] - 1
    BY <2>1, <2>2 DEF IndInv, CounterInv, EntryCounterInv, TypeOK
  <2> QED
    BY <1>3, <2>2, <2>3 DEF TypeOK
<1>5. CallerInv'
  BY <1>1, <1>2 DEF IndInv, TypeOK, CallerInv, CallerOutside, CallerInStep
<1>6. HelperInv'
  BY <1>1, <1>4 DEF IndInv, TypeOK, HelperInv
<1>7. CounterInv'
  <2> SUFFICES ASSUME NEW t \in Threads, NEW i \in 1..size[t]
               PROVE  /\ endCounter[<<t, i>>] = simStep'
                      /\ pc'[t] \in {"arrive", "barrier", "finish"} =>
                           endCounter[<<t, i>>] = departed[t]
                      /\ pc'[t] = "check" => endCounter[<<t, i>>] = departed[t] - 1
                      /\ pc'[t] \notin {"wait", "exec"}
    BY <1>1 DEF CounterInv, EntryCounterInv, TypeOK
  <2>1. endCounter[<<t, i>>] = simStep'
    BY <1>1, <1>3
  <2>2. CASE t = 0
    BY <1>1, <2>1, <2>2 DEF TypeOK
  <2>3. CASE t \in Helpers
    BY <1>1, <1>4, <2>1, <2>3 DEF TypeOK, IndInv, CounterInv, EntryCounterInv
  <2> QED
    BY <2>2, <2>3
<1>8. WaitInv'
  BY <1>1, <1>4 DEF IndInv, TypeOK, HelperInv, WaitInv
<1> QED
  BY <1>5, <1>6, <1>7, <1>8 DEF IndInv

\* stop() is called between steps.
LEMMA CallStopPreserves ==
  ASSUME TypeOK, TypeOK', IndInv, CallStop
  PROVE  IndInv'
<1> USE CallerOrHelper
<1>1. /\ pc[0] = "idle"
      /\ UNCHANGED <<size, req, endCounter, pos, pending, arrived, departed,
                     mTimeStepCount, simStep>>
      /\ \/ Helpers = {} /\ pc' = [pc EXCEPT ![0] = "stopped"] /\ UNCHANGED mJoining
         \/ mJoining' = TRUE /\ pc' = [pc EXCEPT ![0] = "stopArrive"]
  BY DEF CallStop, Goto, schedVars
<1>2. CallerInv'
  BY <1>1 DEF IndInv, TypeOK, CallerInv, CallerOutside, CallerInStep
<1>3. HelperInv'
  BY <1>1 DEF IndInv, TypeOK, HelperInv
<1>4. CounterInv'
  <2> SUFFICES ASSUME NEW t \in Threads, NEW i \in 1..size[t]
               PROVE  EntryCounterInv(t, i)'
    BY <1>1 DEF CounterInv
  <2>1. EntryCounterInv(t, i)
    BY DEF IndInv, CounterInv
  <2>2. pc'[0] \in {"stopped", "stopArrive"} /\ (t # 0 => pc'[t] = pc[t])
    BY <1>1 DEF TypeOK
  <2>3. CASE t = 0
    BY <1>1, <2>1, <2>2, <2>3 DEF IndInv, CallerInv, EntryCounterInv, CallerOutside
  <2>4. CASE t # 0
    BY <1>1, <2>1, <2>2, <2>4 DEF EntryCounterInv, CallerOutside
  <2> QED
    BY <2>3, <2>4
<1>5. WaitInv'
  BY <1>1 DEF IndInv, TypeOK, HelperInv, WaitInv, Ended, LastEntries
<1> QED
  BY <1>2, <1>3, <1>4, <1>5 DEF IndInv

\* stop() returns when all helpers are gone.
LEMMA JoinPreserves ==
  ASSUME TypeOK, TypeOK', IndInv, Join
  PROVE  IndInv'
<1> USE CallerOrHelper
<1>1. /\ pc[0] = "join" /\ pc' = [pc EXCEPT ![0] = "stopped"]
      /\ UNCHANGED <<size, req, endCounter, pos, pending, arrived, departed,
                     mTimeStepCount, mJoining, simStep>>
  BY DEF Join, Goto, schedVars
<1>2. CallerInv'
  BY <1>1 DEF IndInv, TypeOK, CallerInv, CallerOutside, CallerInStep
<1>3. HelperInv'
  BY <1>1 DEF IndInv, TypeOK, HelperInv
<1>4. CounterInv'
  <2> SUFFICES ASSUME NEW t \in Threads, NEW i \in 1..size[t]
               PROVE  EntryCounterInv(t, i)'
    BY <1>1 DEF CounterInv
  <2>1. EntryCounterInv(t, i)
    BY DEF IndInv, CounterInv
  <2>2. pc'[0] = "stopped" /\ (t # 0 => pc'[t] = pc[t])
    BY <1>1 DEF TypeOK
  <2>3. CASE t = 0
    BY <1>1, <2>1, <2>2, <2>3 DEF IndInv, CallerInv, EntryCounterInv, CallerOutside
  <2>4. CASE t # 0
    BY <1>1, <2>1, <2>2, <2>4 DEF EntryCounterInv, CallerOutside
  <2> QED
    BY <2>3, <2>4
<1>5. WaitInv'
  BY <1>1 DEF IndInv, TypeOK, HelperInv, WaitInv, Ended, LastEntries
<1> QED
  BY <1>2, <1>3, <1>4, <1>5 DEF IndInv

\* A call of the start barrier.
LEMMA ArriveAtBarrierPreserves ==
  ASSUME TypeOK, TypeOK', IndInv, NEW t \in Threads, ArriveAtBarrier(t)
  PROVE  IndInv'
<1> USE CallerOrHelper
<1>1. /\ arrived[t] = departed[t]
      /\ arrived' = [arrived EXCEPT ![t] = @ + 1]
      /\ UNCHANGED departed
  <2>1. StartBarrier!Arrive(t)
    BY DEF ArriveAtBarrier
  <2> QED
    BY <2>1 DEF StartBarrier!Arrive
<1>2. /\ \/ pc[t] = "arrive" /\ pc' = [pc EXCEPT ![t] = "barrier"]
         \/ pc[t] = "stopArrive" /\ pc' = [pc EXCEPT ![t] = "stopBarrier"]
      /\ UNCHANGED <<size, req, endCounter, pos, pending, mTimeStepCount,
                     mJoining, simStep>>
  BY DEF ArriveAtBarrier, Goto, schedVars
<1>3. CallerInv'
  BY <1>1, <1>2 DEF IndInv, TypeOK, CallerInv, CallerOutside, CallerInStep
<1>4. HelperInv'
  BY <1>1, <1>2 DEF IndInv, TypeOK, HelperInv
<1>5. CounterInv'
  <2> SUFFICES ASSUME NEW u \in Threads, NEW i \in 1..size[u]
               PROVE  EntryCounterInv(u, i)'
    BY <1>2 DEF CounterInv
  <2>1. EntryCounterInv(u, i)
    BY DEF IndInv, CounterInv
  <2> QED
    BY <1>1, <1>2, <2>1 DEF TypeOK, EntryCounterInv, CallerOutside
<1>6. WaitInv'
  BY <1>1, <1>2 DEF IndInv, TypeOK, WaitInv, Ended, LastEntries
<1> QED
  BY <1>3, <1>4, <1>5, <1>6 DEF IndInv

\* A helper leaves the start barrier after the caller has called it.
LEMMA LeaveBarrierHelperPreserves ==
  ASSUME TypeOK, TypeOK', IndInv, NEW t \in Threads, LeaveBarrierHelper(t)
  PROVE  IndInv'
<1> USE CallerOrHelper
<1>1. /\ arrived[t] = departed[t] + 1
      /\ arrived[0] >= arrived[t]
      /\ departed' = [departed EXCEPT ![t] = @ + 1]
      /\ UNCHANGED arrived
  <2>1. StartBarrier!Depart(t)
    BY DEF LeaveBarrierHelper
  <2> QED
    BY <2>1 DEF StartBarrier!Depart
<1>2. /\ t # 0 /\ t \in Helpers
      /\ pc[t] = "barrier" /\ pc' = [pc EXCEPT ![t] = "check"]
      /\ UNCHANGED <<size, req, endCounter, pos, pending, mTimeStepCount,
                     mJoining, simStep>>
  BY DEF LeaveBarrierHelper, Goto, schedVars
<1>3. CallerInv'
  BY <1>1, <1>2 DEF IndInv, TypeOK, CallerInv
<1>4. HelperInv'
  BY <1>1, <1>2 DEF IndInv, TypeOK, HelperInv
<1>5. CounterInv'
  <2> SUFFICES ASSUME NEW u \in Threads, NEW i \in 1..size[u]
               PROVE  EntryCounterInv(u, i)'
    BY <1>2 DEF CounterInv
  <2> QED
    BY <1>1, <1>2, CounterIsNat DEF IndInv, TypeOK, CounterInv, EntryCounterInv
<1>6. WaitInv'
  BY <1>1, <1>2 DEF IndInv, TypeOK, WaitInv, Ended, LastEntries
<1> QED
  BY <1>3, <1>4, <1>5, <1>6 DEF IndInv

\* The caller leaves the barrier into doStep(0) or into the joins of stop().
LEMMA LeaveBarrierCallerPreserves ==
  ASSUME TypeOK, TypeOK', IndInv, LeaveBarrierCaller
  PROVE  IndInv'
<1> USE CallerOrHelper
<1>1. /\ arrived[0] = departed[0] + 1
      /\ departed' = [departed EXCEPT ![0] = @ + 1]
      /\ UNCHANGED arrived
  <2>1. StartBarrier!Depart(0)
    BY DEF LeaveBarrierCaller
  <2> QED
    BY <2>1 DEF StartBarrier!Depart
<1>2. UNCHANGED <<size, req, endCounter, mTimeStepCount, mJoining, simStep>>
  BY DEF LeaveBarrierCaller, schedVars
<1>3. CASE pc[0] = "barrier" /\ GotoEntry(0, 1)
  <2>1. /\ pos' = [pos EXCEPT ![0] = 1]
        /\ \/ /\ 1 <= size[0] /\ pc' = [pc EXCEPT ![0] = "wait"]
              /\ pending' = [pending EXCEPT ![0] = req[<<0, 1>>]]
           \/ /\ 1 > size[0] /\ pc' = [pc EXCEPT ![0] = "finish"]
              /\ pending' = [pending EXCEPT ![0] = LastEntries]
    BY <1>3 DEF GotoEntry, Goto
  <2>2. CallerInv'
    BY <1>1, <1>2, <1>3, <2>1 DEF IndInv, TypeOK, CallerInv, CallerOutside, CallerInStep
  <2>3. HelperInv'
    BY <1>1, <1>2, <1>3, <2>1 DEF IndInv, TypeOK, HelperInv
  <2>4. CounterInv'
    <3> SUFFICES ASSUME NEW u \in Threads, NEW i \in 1..size[u]
                 PROVE  EntryCounterInv(u, i)'
      BY <1>2 DEF CounterInv
    <3>1. EntryCounterInv(u, i)
      BY DEF IndInv, CounterInv
    <3>2. i \in Nat /\ i >= 1 /\ i <= size[u]
      BY DEF TypeOK
    <3> QED
      BY <1>1, <1>2, <1>3, <2>1, <3>1, <3>2 DEF TypeOK, EntryCounterInv, CallerOutside
  <2>5. WaitInv'
    BY <1>2, <1>3, <2>1 DEF IndInv, TypeOK, WaitInv, Ended, LastEntries
  <2> QED
    BY <2>2, <2>3, <2>4, <2>5 DEF IndInv
<1>4. CASE pc[0] = "stopBarrier" /\ Goto(0, "join") /\ UNCHANGED <<pos, pending>>
  <2>1. pc' = [pc EXCEPT ![0] = "join"] /\ UNCHANGED <<pos, pending>>
    BY <1>4 DEF Goto
  <2>2. CallerInv'
    BY <1>1, <1>2, <1>4, <2>1 DEF IndInv, TypeOK, CallerInv, CallerOutside, CallerInStep
  <2>3. HelperInv'
    BY <1>1, <1>2, <1>4, <2>1 DEF IndInv, TypeOK, HelperInv
  <2>4. CounterInv'
    <3> SUFFICES ASSUME NEW u \in Threads, NEW i \in 1..size[u]
                 PROVE  EntryCounterInv(u, i)'
      BY <1>2 DEF CounterInv
    <3>1. EntryCounterInv(u, i)
      BY DEF IndInv, CounterInv
    <3> QED
      BY <1>1, <1>2, <1>4, <2>1, <3>1 DEF TypeOK, EntryCounterInv, CallerOutside
  <2>5. WaitInv'
    BY <1>2, <1>4, <2>1 DEF IndInv, TypeOK, WaitInv, Ended, LastEntries
  <2> QED
    BY <2>2, <2>3, <2>4, <2>5 DEF IndInv
<1> QED
  BY <1>3, <1>4 DEF LeaveBarrierCaller

\* A helper that finds mJoining unset with entries to run is in the step the
\* caller has begun: otherwise its first counter would be a step ahead.
LEMMA CheckJoiningPreserves ==
  ASSUME TypeOK, TypeOK', IndInv, NEW t \in Threads, CheckJoining(t)
  PROVE  IndInv'
<1> USE CallerOrHelper
<1>1. /\ pc[t] = "check" /\ t # 0 /\ t \in Helpers
      /\ UNCHANGED <<size, req, endCounter, arrived, departed, mTimeStepCount,
                     mJoining, simStep>>
  BY DEF CheckJoining, schedVars, IndInv, CallerInv, CallerOutside, CallerInStep
<1>2. \/ mJoining /\ pc' = [pc EXCEPT ![t] = "exited"] /\ UNCHANGED <<pos, pending>>
      \/ /\ ~mJoining /\ 1 <= size[t] /\ pc' = [pc EXCEPT ![t] = "wait"]
         /\ pos' = [pos EXCEPT ![t] = 1]
         /\ pending' = [pending EXCEPT ![t] = req[<<t, 1>>]]
      \/ /\ ~mJoining /\ 1 > size[t] /\ pc' = [pc EXCEPT ![t] = "arrive"]
         /\ pos' = [pos EXCEPT ![t] = 1]
         /\ pending' = [pending EXCEPT ![t] = {}]
  BY <1>1 DEF CheckJoining, GotoEntry, Goto
<1>3. ASSUME ~mJoining, 1 <= size[t]
      PROVE  /\ departed[t] = simStep + 1
             /\ pc[0] \in {"barrier", "wait", "exec", "finish"}
  <2>1. 1 \in 1..size[t]
    BY <1>3 DEF TypeOK
  <2>2. departed[t] - 1 \in {simStep, simStep + 1}
    BY <1>1, <2>1 DEF IndInv, CounterInv, EntryCounterInv
  <2>3. departed[t] <= arrived[0]
    BY <1>1 DEF IndInv, HelperInv
  <2>4. pc[0] \notin {"created", "stopBarrier", "join", "stopped"}
    BY <1>1, <1>3 DEF IndInv, CallerInv, HelperInv
  <2> QED
    BY <1>1, <2>2, <2>3, <2>4
       DEF IndInv, CallerInv, CallerOutside, CallerInStep, TypeOK
<1>4. CallerInv'
  BY <1>1, <1>2 DEF IndInv, TypeOK, CallerInv
<1>5. HelperInv'
  BY <1>1, <1>2, <1>3 DEF IndInv, TypeOK, HelperInv
<1>6. CounterInv'
  <2> SUFFICES ASSUME NEW u \in Threads, NEW i \in 1..size[u]
               PROVE  EntryCounterInv(u, i)'
    BY <1>1 DEF CounterInv
  <2>1. EntryCounterInv(u, i)
    BY DEF IndInv, CounterInv
  <2>2. i \in Nat /\ i >= 1 /\ i <= size[u]
    BY DEF TypeOK
  <2> QED
    BY <1>1, <1>2, <2>1, <2>2 DEF TypeOK, EntryCounterInv
<1>7. WaitInv'
  BY <1>1, <1>2 DEF IndInv, TypeOK, WaitInv, Ended, LastEntries
<1> QED
  BY <1>4, <1>5, <1>6, <1>7 DEF IndInv

\* Waiting for a counter.
LEMMA WaitCounterPreserves ==
  ASSUME TypeOK, TypeOK', IndInv, NEW t \in Threads, WaitCounter(t)
  PROVE  IndInv'
<1> USE CallerOrHelper
<1>1. /\ pc[t] \in {"wait", "finish"}
      /\ UNCHANGED <<size, req, endCounter, pc, pos, arrived, departed,
                     mTimeStepCount, mJoining, simStep>>
  BY DEF WaitCounter, schedVars
<1>2. PICK r \in pending[t] : Ended(r) /\ pending' = [pending EXCEPT ![t] = @ \ {r}]
  BY DEF WaitCounter
<1>3. CallerInv' /\ HelperInv' /\ CounterInv'
  BY <1>1 DEF IndInv, CallerInv, HelperInv, CounterInv, EntryCounterInv
<1>4. WaitInv'
  BY <1>1, <1>2 DEF IndInv, TypeOK, WaitInv, Ended, LastEntries
<1> QED
  BY <1>3, <1>4 DEF IndInv

\* The task begins.
LEMMA BeginTaskPreserves ==
  ASSUME TypeOK, TypeOK', IndInv, NEW t \in Threads, BeginTask(t)
  PROVE  IndInv'
<1> USE CallerOrHelper
<1>1. /\ pc[t] = "wait" /\ pending[t] = {} /\ pc' = [pc EXCEPT ![t] = "exec"]
      /\ UNCHANGED <<size, req, endCounter, pos, pending, arrived, departed,
                     mTimeStepCount, mJoining, simStep>>
  BY DEF BeginTask, Goto, schedVars
<1>2. CallerInv'
  BY <1>1 DEF IndInv, TypeOK, CallerInv, CallerOutside, CallerInStep
<1>3. HelperInv'
  BY <1>1 DEF IndInv, TypeOK, HelperInv
<1>4. CounterInv'
  <2> SUFFICES ASSUME NEW u \in Threads, NEW i \in 1..size[u]
               PROVE  EntryCounterInv(u, i)'
    BY <1>1 DEF CounterInv
  <2>1. EntryCounterInv(u, i)
    BY DEF IndInv, CounterInv
  <2> QED
    BY <1>1, <2>1 DEF TypeOK, EntryCounterInv, CallerOutside
<1>5. WaitInv'
  BY <1>1 DEF IndInv, TypeOK, WaitInv, Ended, LastEntries
<1> QED
  BY <1>2, <1>3, <1>4, <1>5 DEF IndInv

\* A thread that executes a task has not incremented its counter yet.
LEMMA ExecutingEntry ==
  ASSUME TypeOK, IndInv, NEW t \in Threads, pc[t] \in {"wait", "exec"}
  PROVE  /\ pos[t] \in 1..size[t]
         /\ <<t, pos[t]>> \in Entries
         /\ pc[0] \in CallerInStep /\ mTimeStepCount = simStep
         /\ departed[t] = simStep + 1
         /\ endCounter[<<t, pos[t]>>] = simStep
<1> USE CallerOrHelper
<1>1. pos[t] \in 1..size[t] /\ <<t, pos[t]>> \in Entries
  BY CounterIsNat DEF IndInv, WaitInv
<1>2. pc[0] \in CallerInStep /\ departed[t] = simStep + 1
  BY DEF IndInv, CallerInv, HelperInv, CallerInStep
<1>3. mTimeStepCount = simStep
  BY <1>2 DEF IndInv, CallerInv
<1>4. endCounter[<<t, pos[t]>>] = departed[t] - 1
  BY <1>1 DEF IndInv, CounterInv, EntryCounterInv, TypeOK
<1> QED
  BY <1>1, <1>2, <1>3, <1>4 DEF TypeOK

\* The end of a task raises its counter to the value the others wait for.
LEMMA EndTaskPreserves ==
  ASSUME TypeOK, TypeOK', IndInv, NEW t \in Threads, EndTask(t)
  PROVE  IndInv'
<1> USE CallerOrHelper
<1> DEFINE e == <<t, pos[t]>>
<1>1. /\ pc[t] = "exec"
      /\ endCounter' = [endCounter EXCEPT ![e] = @ + 1]
      /\ pos' = [pos EXCEPT ![t] = pos[t] + 1]
      /\ UNCHANGED <<size, req, arrived, departed, mTimeStepCount, mJoining, simStep>>
      /\ \/ /\ pos[t] + 1 <= size[t] /\ pc' = [pc EXCEPT ![t] = "wait"]
            /\ pending' = [pending EXCEPT ![t] = req[<<t, pos[t] + 1>>]]
         \/ /\ pos[t] + 1 > size[t] /\ t = 0 /\ pc' = [pc EXCEPT ![t] = "finish"]
            /\ pending' = [pending EXCEPT ![t] = LastEntries]
         \/ /\ pos[t] + 1 > size[t] /\ t # 0 /\ pc' = [pc EXCEPT ![t] = "arrive"]
            /\ pending' = [pending EXCEPT ![t] = {}]
  BY DEF EndTask, GotoEntry, Goto, schedVars
<1>2. /\ pos[t] \in 1..size[t] /\ e \in Entries
      /\ pc[0] \in CallerInStep /\ mTimeStepCount = simStep
      /\ departed[t] = simStep + 1 /\ endCounter[e] = simStep
  BY <1>1, ExecutingEntry
<1>3. \A r \in Entries : Ended(r) => Ended(r)'
  BY <1>1, <1>2 DEF Ended, TypeOK
<1>4. CallerInv'
  BY <1>1, <1>2 DEF IndInv, TypeOK, CallerInv, CallerOutside, CallerInStep
<1>5. HelperInv'
  BY <1>1, <1>2 DEF IndInv, TypeOK, HelperInv, CallerInStep
<1>6. CounterInv'
  <2> SUFFICES ASSUME NEW u \in Threads, NEW i \in 1..size[u]
               PROVE  EntryCounterInv(u, i)'
    BY <1>1 DEF CounterInv
  <2>1. EntryCounterInv(u, i) /\ <<u, i>> \in Entries
    BY CounterIsNat DEF IndInv, CounterInv
  <2>2. i \in Nat /\ i >= 1 /\ i <= size[u] /\ pos[t] \in Nat /\ pos[t] <= size[t]
    BY <1>2 DEF TypeOK
  <2>3. pc'[0] \in {"arrive", "barrier", "wait", "exec", "finish"} /\ (pc'[0] = "arrive" => pc[0] = "arrive")
    BY <1>1, <1>2 DEF CallerInStep, TypeOK
  <2>4. pc[0] # "arrive"
    BY <1>1, <1>2 DEF IndInv, HelperInv
  <2>5. CASE u = t /\ i = pos[t]
    BY <1>1, <1>2, <2>1, <2>2, <2>3, <2>4, <2>5
       DEF TypeOK, EntryCounterInv, CallerOutside
  <2>6. CASE u = t /\ i # pos[t]
    <3>1. endCounter'[<<u, i>>] = endCounter[<<u, i>>]
      BY <1>1, <2>1, <2>6 DEF TypeOK
    <3>2. endCounter[<<u, i>>] = IF i < pos[t] THEN departed[t] ELSE departed[t] - 1
      BY <1>1, <2>1, <2>6 DEF EntryCounterInv
    <3>3. i < pos[t] + 1 <=> i < pos[t]
      BY <2>2, <2>6
    <3>4. /\ pos'[u] = pos[t] + 1 /\ departed'[u] = simStep + 1
          /\ \/ pc'[u] = "wait"
             \/ pc'[u] \in {"finish", "arrive"} /\ i < pos[t]
      <4>1. pos'[u] = pos[t] + 1 /\ departed'[u] = simStep + 1
        BY <1>1, <1>2, <2>6 DEF TypeOK
      <4>2. size[t] \in Nat /\ (pos[t] + 1 > size[t] => i < pos[t])
        BY <2>2, <2>6 DEF TypeOK
      <4>3. \/ pc'[u] = "wait"
            \/ pc'[u] \in {"finish", "arrive"} /\ pos[t] + 1 > size[t]
        BY <1>1, <2>6 DEF TypeOK
      <4> QED
        BY <4>1, <4>2, <4>3
    <3>5. simStep \in Nat
      BY SchedulerAssumption DEF TypeOK
    <3> QED
      BY <1>1, <1>2, <2>3, <2>4, <3>1, <3>2, <3>3, <3>4, <3>5, <2>6
         DEF EntryCounterInv, CallerOutside
  <2>7. CASE u # t
    <3>1. endCounter'[<<u, i>>] = endCounter[<<u, i>>]
      BY <1>1, <2>1, <2>7 DEF TypeOK
    <3>2. pc'[u] = pc[u] /\ pos'[u] = pos[u] /\ departed'[u] = departed[u]
      BY <1>1, <2>7 DEF TypeOK
    <3> QED
      BY <1>1, <2>1, <2>3, <2>4, <3>1, <3>2 DEF EntryCounterInv, CallerOutside
  <2> QED
    BY <2>5, <2>6, <2>7
<1>7. WaitInv'
  <2>1. LastEntries \subseteq Entries /\ LastEntries' = LastEntries
    BY <1>1, LastEntriesAreEntries DEF TypeOK, LastEntries
  <2>2. pos[t] \in Nat
    BY DEF TypeOK
  <2> SUFFICES ASSUME NEW u \in Threads
               PROVE  /\ pc'[u] \in {"wait", "exec"} => pos'[u] \in 1..size[u]
                      /\ pc'[u] \notin {"wait", "finish"} => pending'[u] = {}
                      /\ pc'[u] \in {"wait", "exec"} =>
                           \A r \in req[<<u, pos'[u]>>] \ pending'[u] : Ended(r)'
                      /\ pc'[u] = "finish" =>
                           \A r \in LastEntries \ pending'[u] : Ended(r)'
    BY <1>1, <2>1 DEF WaitInv
  <2>3. CASE u = t
    BY <1>1, <1>2, <2>2, <2>3 DEF TypeOK
  <2>4. CASE u # t
    <3>1. pc'[u] = pc[u] /\ pos'[u] = pos[u] /\ pending'[u] = pending[u]
      BY <1>1, <2>4 DEF TypeOK
    <3>2. pc[u] \in {"wait", "exec"} => req[<<u, pos[u]>>] \subseteq Entries
      BY ExecutingEntry DEF TypeOK
    <3> QED
      BY <1>3, <2>1, <3>1, <3>2 DEF IndInv, WaitInv
  <2> QED
    BY <2>3, <2>4
<1> QED
  BY <1>4, <1>5, <1>6, <1>7 DEF IndInv

-----------------------------------------------------------------------------
(* The invariants of the specification.                                    *)

Inv == TypeOK /\ IndInv

\* Before the schedule is created nothing has happened.
LEMMA InitInv == Init => Inv
<1> SUFFICES ASSUME Init PROVE TypeOK /\ IndInv
  BY DEF Inv
<1> USE CallerOrHelper
<1>1. Entries = {}
  BY DEF Init, Entries, EntriesOf
<1>2. TypeOK
  BY <1>1, SchedulerAssumption DEF Init, TypeOK, Locations, StartBarrier!Init
<1>3. CallerInv /\ HelperInv
  BY DEF Init, StartBarrier!Init, CallerInv, HelperInv, CallerInStep, CallerOutside
<1>4. CounterInv /\ WaitInv
  BY DEF Init, CounterInv, WaitInv
<1> QED
  BY <1>2, <1>3, <1>4 DEF IndInv

\* Every step keeps it.
LEMMA NextInv == Inv /\ [Next]_vars => Inv'
<1> SUFFICES ASSUME TypeOK, IndInv, [Next]_vars PROVE TypeOK' /\ IndInv'
  BY DEF Inv
<1>1. TypeOK'
  BY TypePreserved
<1>2. ASSUME CallerStep PROVE IndInv'
  BY <1>1, <1>2, CreateSchedulePreserves, CallStepPreserves, ReturnStepPreserves,
     CallStopPreserves, JoinPreserves, LeaveBarrierCallerPreserves DEF CallerStep
<1>3. ASSUME NEW t \in Threads, ThreadStep(t) PROVE IndInv'
  BY <1>1, <1>3, ArriveAtBarrierPreserves, LeaveBarrierHelperPreserves,
     CheckJoiningPreserves, WaitCounterPreserves, BeginTaskPreserves,
     EndTaskPreserves DEF ThreadStep
<1>4. CASE UNCHANGED vars
  <2>1. CallerInv' /\ HelperInv' /\ CounterInv'
    BY <1>4 DEF vars, IndInv, CallerInv, HelperInv, CounterInv, EntryCounterInv
  <2>2. WaitInv'
    BY <1>4 DEF vars, IndInv, WaitInv, Ended, LastEntries
  <2> QED
    BY <1>1, <2>1, <2>2 DEF IndInv
<1> QED
  BY <1>1, <1>2, <1>3, <1>4 DEF Next, Stopped

\* The inductive invariant holds of every reachable state of the scheduler.
THEOREM Invariance == Spec => []Inv
  BY InitInv, NextInv, PTL DEF Spec

\* The members and the threads' locals keep their types.
THEOREM TypeCorrectness == Spec => []TypeOK
<1>1. Inv => TypeOK
  BY DEF Inv
<1> QED
  BY <1>1, Invariance, PTL

\* A task is executed only after the tasks it depends on have been executed in
\* the same step, and never at the same time as one of them.
THEOREM DependencyCorrectness == Spec => []DependencyOrder
<1>1. Inv => DependencyOrder
  <2> SUFFICES ASSUME TypeOK, IndInv, NEW t \in Threads, pc[t] = "exec",
                      NEW r \in req[<<t, pos[t]>>]
               PROVE  /\ Ended(r)
                      /\ \A u \in Threads : pc[u] = "exec" => <<u, pos[u]>> # r
    BY DEF Inv, DependencyOrder
  <2>1. Ended(r)
    BY DEF IndInv, WaitInv
  <2>2. \A u \in Threads : pc[u] = "exec" => ~Ended(<<u, pos[u]>>)
    BY ExecutingEntry, SchedulerAssumption DEF Ended, TypeOK
  <2> QED
    BY <2>1, <2>2
<1> QED
  BY <1>1, Invariance, PTL

\* Between two calls of step() every task has been executed as often as step()
\* has returned, and no helper is inside doStep().
THEOREM StepCompleteness == Spec => []StepComplete
<1>1. Inv => StepComplete
  <2> SUFFICES ASSUME TypeOK, IndInv, pc[0] \in CallerOutside
               PROVE  /\ \A e \in Entries : endCounter[e] = simStep
                      /\ \A t \in Threads : ~InStep(t)
    BY DEF Inv, StepComplete, CallerOutside
  <2>1. \A e \in Entries : endCounter[e] = simStep
    BY EntryIsPosition DEF TypeOK, Entries, IndInv, CounterInv, EntryCounterInv
  <2>2. \A t \in Threads : ~InStep(t)
    BY CallerOrHelper DEF InStep, IndInv, HelperInv, CallerOutside
  <2> QED
    BY <2>1, <2>2
<1> QED
  BY <1>1, Invariance, PTL

\* No counter runs past the value that a thread still waits for.
THEOREM CountersInStep == Spec => []NoCounterOvertaken
<1>1. Inv => NoCounterOvertaken
  <2> SUFFICES ASSUME TypeOK, IndInv, NEW t \in Threads, NEW r \in pending[t]
               PROVE  endCounter[r] <= mTimeStepCount + 1
    BY DEF Inv, NoCounterOvertaken
  <2>1. pc[t] \in {"wait", "finish"} /\ r \in Entries
    BY DEF IndInv, WaitInv, TypeOK
  <2>2. mTimeStepCount = simStep
    BY <2>1, CallerOrHelper, ExecutingEntry
       DEF IndInv, CallerInv, HelperInv, CallerInStep
  <2>3. endCounter[r] \in {simStep, simStep + 1}
    BY <2>1, EntryIsPosition DEF TypeOK, Entries, IndInv, CounterInv, EntryCounterInv
  <2> QED
    BY <2>2, <2>3, SchedulerAssumption DEF TypeOK
<1> QED
  BY <1>1, Invariance, PTL

\* If every helper has a task, stop() never writes mJoining while a helper may
\* still read it: having counted its last entry of the step, the helper has
\* passed the test of mJoining, and step() waits for that count.
THEOREM NoRaceIfBusy == Spec => []NoRaceOnJoining
<1> USE CallerOrHelper
<1>1. Inv => NoRaceOnJoining
  <2> SUFFICES ASSUME TypeOK, IndInv, pc[0] = "stopArrive", BusyHelpers,
                      NEW t \in Helpers, pc[t] = "check"
               PROVE  FALSE
    BY DEF Inv, NoRaceOnJoining
  <2>1. size[t] \in 1..size[t]
    BY DEF TypeOK, BusyHelpers
  <2>2. endCounter[<<t, size[t]>>] = simStep /\ endCounter[<<t, size[t]>>] = departed[t] - 1
    BY <2>1 DEF IndInv, CounterInv, EntryCounterInv, CallerOutside
  <2>3. departed[t] <= arrived[0] /\ arrived[0] = simStep
    BY DEF IndInv, HelperInv, CallerInv
  <2>4. simStep \in Nat /\ departed[t] \in Nat
    <3>1. t \in Threads
      OBVIOUS
    <3>2. departed \in [Threads -> Nat] /\ simStep \in 0..MaxSteps /\ MaxSteps \in Nat
      BY SchedulerAssumption DEF TypeOK
    <3> HIDE CallerOrHelper
    <3> QED
      BY <3>1, <3>2
  <2>5. departed[t] - 1 = simStep /\ departed[t] <= simStep
    BY <2>2, <2>3
  <2> QED
    BY <2>4, <2>5
<1> QED
  BY <1>1, Invariance, PTL

-----------------------------------------------------------------------------
(* The threads never all wait for each other.                              *)

\* Nobody is a round of the start barrier ahead, a thread waits for what its
\* entry requires, and a busy helper that has left was let through the barrier
\* by the last step, not by stop().
RoundInv   == \A t, u \in Threads : departed[t] <= arrived[u]
PendingInv == \A t \in Threads : pc[t] = "wait" => pending[t] \subseteq req[<<t, pos[t]>>]
ExitedInv  == \A t \in Helpers : pc[t] = "exited" /\ BusyHelpers => arrived[t] = simStep + 1

WaitingInv == RoundInv /\ PendingInv /\ ExitedInv

\* Rounds and numbers of steps can be compared.
LEMMA RoundsAreNat ==
  ASSUME TypeOK
  PROVE  /\ simStep \in Nat /\ mTimeStepCount \in Nat
         /\ \A t \in Threads : arrived[t] \in Nat /\ departed[t] \in Nat
                               /\ pos[t] \in Nat /\ size[t] \in Nat
BY SchedulerAssumption DEF TypeOK

LEMMA InitWaiting == Init => WaitingInv
<1> SUFFICES ASSUME Init PROVE WaitingInv
  OBVIOUS
<1> USE CallerOrHelper
<1>1. RoundInv
  BY DEF Init, StartBarrier!Init, RoundInv
<1>2. PendingInv /\ ExitedInv
  BY DEF Init, PendingInv, ExitedInv
<1> QED
  BY <1>1, <1>2 DEF WaitingInv

\* The barrier lets a thread go when all have come.
LEMMA RoundPreserved ==
  ASSUME TypeOK, TypeOK', RoundInv, [Next]_vars
  PROVE  RoundInv'
<1> USE RoundsAreNat
<1>1. ASSUME NEW t \in Threads, StartBarrier!Arrive(t) PROVE RoundInv'
  <2>1. departed' = departed /\ arrived' = [arrived EXCEPT ![t] = @ + 1]
    BY <1>1 DEF StartBarrier!Arrive
  <2>2. \A u \in Threads : arrived[u] <= arrived'[u]
    BY <2>1 DEF TypeOK
  <2>3. \A u \in Threads : arrived'[u] \in Nat
    BY DEF TypeOK
  <2> QED
    BY <2>1, <2>2, <2>3 DEF RoundInv
<1>2. ASSUME NEW t \in Threads, StartBarrier!Depart(t) PROVE RoundInv'
  <2>1. /\ arrived' = arrived /\ departed' = [departed EXCEPT ![t] = @ + 1]
        /\ arrived[t] = departed[t] + 1
        /\ \A u \in Threads : arrived[u] >= arrived[t]
    BY <1>2 DEF StartBarrier!Depart
  <2> SUFFICES ASSUME NEW w \in Threads, NEW u \in Threads
               PROVE  departed'[w] <= arrived[u]
    BY <2>1 DEF RoundInv
  <2>2. CASE w = t
    BY <2>1, <2>2 DEF TypeOK
  <2>3. CASE w # t
    BY <2>1, <2>3 DEF TypeOK, RoundInv
  <2> QED
    BY <2>2, <2>3
<1>3. CASE UNCHANGED <<arrived, departed>>
  BY <1>3 DEF RoundInv
<1>4. CASE CallerStep
  BY <1>2, <1>3, <1>4, CallerOrHelper
     DEF CallerStep, CreateSchedule, CallStep, ReturnStep, CallStop, Join, LeaveBarrierCaller
<1>5. ASSUME NEW t \in Threads, ThreadStep(t) PROVE RoundInv'
  BY <1>1, <1>2, <1>3, <1>5
     DEF ThreadStep, ArriveAtBarrier, LeaveBarrierHelper, CheckJoining, WaitCounter,
         BeginTask, EndTask
<1>6. CASE UNCHANGED vars
  BY <1>3, <1>6 DEF vars
<1> QED
  BY <1>4, <1>5, <1>6 DEF Next, Stopped

\* A thread that goes on to an entry waits for the counters the entry requires.
LEMMA GotoEntryPending ==
  ASSUME TypeOK, PendingInv, NEW t \in Threads, NEW i, GotoEntry(t, i), req' = req
  PROVE  PendingInv'
<1> SUFFICES ASSUME NEW u \in Threads, pc'[u] = "wait"
             PROVE  pending'[u] \subseteq req[<<u, pos'[u]>>]
  BY DEF PendingInv
<1>1. CASE u = t
  BY <1>1 DEF GotoEntry, Goto, TypeOK
<1>2. CASE u # t
  <2>1. pc[u] = "wait" /\ pos'[u] = pos[u] /\ pending'[u] = pending[u]
    BY <1>2 DEF GotoEntry, Goto, TypeOK
  <2> QED
    BY <2>1 DEF PendingInv
<1> QED
  BY <1>1, <1>2

LEMMA PendingPreserved ==
  ASSUME TypeOK, IndInv, PendingInv, [Next]_vars
  PROVE  PendingInv'
<1> USE CallerOrHelper
<1>1. CASE CreateSchedule
  BY <1>1 DEF CreateSchedule, PendingInv
<1>2. CASE CallStep \/ ReturnStep \/ CallStop \/ Join
  BY <1>2 DEF CallStep, ReturnStep, CallStop, Join, Goto, schedVars, PendingInv, TypeOK
<1>3. CASE LeaveBarrierCaller
  <2>1. req' = req
    BY <1>3 DEF LeaveBarrierCaller, schedVars
  <2>2. CASE GotoEntry(0, 1)
    BY <2>1, <2>2, GotoEntryPending
  <2>3. CASE Goto(0, "join") /\ UNCHANGED <<pos, pending>>
    BY <2>1, <2>3 DEF Goto, PendingInv, TypeOK
  <2> QED
    BY <1>3, <2>2, <2>3 DEF LeaveBarrierCaller
<1>4. ASSUME NEW t \in Threads, ArriveAtBarrier(t) \/ LeaveBarrierHelper(t) \/ BeginTask(t)
      PROVE  PendingInv'
  BY <1>4 DEF ArriveAtBarrier, LeaveBarrierHelper, BeginTask, Goto, schedVars, PendingInv, TypeOK
<1>5. ASSUME NEW t \in Threads, CheckJoining(t)
      PROVE  PendingInv'
  <2>1. req' = req
    BY <1>5 DEF CheckJoining, schedVars
  <2>2. CASE GotoEntry(t, 1)
    BY <2>1, <2>2, GotoEntryPending
  <2>3. CASE Goto(t, "exited") /\ UNCHANGED <<pos, pending>>
    BY <2>1, <2>3 DEF Goto, PendingInv, TypeOK
  <2> QED
    BY <1>5, <2>2, <2>3 DEF CheckJoining
<1>6. ASSUME NEW t \in Threads, WaitCounter(t)
      PROVE  PendingInv'
  <2>1. PICK r \in pending[t] : pending' = [pending EXCEPT ![t] = @ \ {r}]
    BY <1>6 DEF WaitCounter
  <2>2. \A u \in Threads : pending'[u] \subseteq pending[u]
    BY <2>1 DEF TypeOK
  <2> QED
    BY <1>6, <2>2 DEF WaitCounter, schedVars, PendingInv
<1>7. ASSUME NEW t \in Threads, EndTask(t)
      PROVE  PendingInv'
  BY <1>7, GotoEntryPending DEF EndTask, schedVars
<1>8. CASE UNCHANGED vars
  BY <1>8 DEF vars, PendingInv
<1> QED
  BY <1>1, <1>2, <1>3, <1>4, <1>5, <1>6, <1>7, <1>8
     DEF Next, CallerStep, ThreadStep, Stopped

\* Once mJoining is set the schedule and the number of steps stay.
LEMMA JoiningIsFinal ==
  ASSUME TypeOK, IndInv, [Next]_vars, mJoining
  PROVE  size' = size /\ simStep' = simStep
<1>1. pc[0] \notin {"created", "idle", "finish"}
  BY DEF IndInv, CallerInv, CallerInStep
<1>2. CASE CallerStep
  BY <1>1, <1>2 DEF CallerStep, CreateSchedule, CallStep, ReturnStep, CallStop, Join,
                    LeaveBarrierCaller, schedVars
<1>3. ASSUME NEW t \in Threads, ThreadStep(t) PROVE size' = size /\ simStep' = simStep
  BY <1>3 DEF ThreadStep, ArriveAtBarrier, LeaveBarrierHelper, CheckJoining, WaitCounter,
              BeginTask, EndTask, schedVars
<1> QED
  BY <1>2, <1>3 DEF Next, Stopped, vars

\* A helper that has left stays away.
LEMMA ExitedIsFinal ==
  ASSUME TypeOK, IndInv, [Next]_vars, NEW t \in Helpers, pc[t] = "exited"
  PROVE  pc'[t] = "exited" /\ arrived'[t] = arrived[t]
<1> USE CallerOrHelper
<1>1. mJoining /\ pc[0] # "created"
  BY DEF IndInv, HelperInv, CallerInv
<1>2. CASE CallerStep
  <2>1. arrived' = arrived
    BY <1>1, <1>2 DEF CallerStep, CreateSchedule, CallStep, ReturnStep, CallStop, Join,
                      LeaveBarrierCaller, StartBarrier!Depart
  <2>2. pc'[t] = pc[t]
    BY <1>1, <1>2 DEF CallerStep, CreateSchedule, CallStep, ReturnStep, CallStop, Join,
                      LeaveBarrierCaller, GotoEntry, Goto, TypeOK
  <2> QED
    BY <2>1, <2>2
<1>3. ASSUME NEW u \in Threads, ThreadStep(u) PROVE pc'[t] = "exited" /\ arrived'[t] = arrived[t]
  <2>1. u # t
    BY <1>3 DEF ThreadStep, ArriveAtBarrier, LeaveBarrierHelper, CheckJoining, WaitCounter,
                BeginTask, EndTask
  <2>2. arrived'[t] = arrived[t]
    BY <1>3, <2>1 DEF ThreadStep, ArriveAtBarrier, LeaveBarrierHelper, CheckJoining, WaitCounter,
                      BeginTask, EndTask, StartBarrier!Arrive, StartBarrier!Depart, TypeOK
  <2>3. pc'[t] = pc[t]
    BY <1>3, <2>1 DEF ThreadStep, ArriveAtBarrier, LeaveBarrierHelper, CheckJoining, WaitCounter,
                      BeginTask, EndTask, GotoEntry, Goto, TypeOK
  <2> QED
    BY <2>2, <2>3
<1> QED
  BY <1>2, <1>3 DEF Next, Stopped, vars

\* A busy helper that reads mJoining has counted its first entry in every step,
\* so it has left the barrier once more than there were steps.
LEMMA ExitedPreserved ==
  ASSUME TypeOK, TypeOK', IndInv, ExitedInv, [Next]_vars
  PROVE  ExitedInv'
<1> USE CallerOrHelper
<1> SUFFICES ASSUME NEW t \in Helpers, pc'[t] = "exited", BusyHelpers'
             PROVE  arrived'[t] = simStep' + 1
  BY DEF ExitedInv
<1>1. CASE pc[t] = "exited"
  <2>1. mJoining
    BY <1>1 DEF IndInv, HelperInv
  <2>2. size' = size /\ simStep' = simStep
    BY <2>1, JoiningIsFinal
  <2>3. BusyHelpers
    BY <2>2 DEF BusyHelpers
  <2>4. arrived'[t] = arrived[t]
    BY <1>1, ExitedIsFinal
  <2> QED
    BY <1>1, <2>2, <2>3, <2>4 DEF ExitedInv
<1>2. CASE pc[t] # "exited"
  <2>1. CheckJoining(t) /\ mJoining
    <3>1. ASSUME CreateSchedule PROVE FALSE
      BY <3>1 DEF CreateSchedule, TypeOK
    <3>2. ASSUME CallerStep PROVE FALSE
      BY <1>2, <3>1, <3>2 DEF CallerStep, CallStep, ReturnStep, CallStop, Join,
                        LeaveBarrierCaller, GotoEntry, Goto, TypeOK
    <3>3. PICK u \in Threads : ThreadStep(u)
      BY <1>2, <3>2 DEF Next, Stopped, vars
    <3>4. u = t
      BY <1>2, <3>3 DEF ThreadStep, ArriveAtBarrier, LeaveBarrierHelper, CheckJoining, WaitCounter,
                      BeginTask, EndTask, GotoEntry, Goto, TypeOK
    <3>5. ~ArriveAtBarrier(t) /\ ~LeaveBarrierHelper(t) /\ ~BeginTask(t)
      BY <1>2 DEF ArriveAtBarrier, LeaveBarrierHelper, BeginTask, Goto, TypeOK
    <3>6. ~WaitCounter(t) /\ ~EndTask(t)
      BY <1>2 DEF WaitCounter, EndTask, GotoEntry, Goto, TypeOK
    <3>7. CheckJoining(t)
      BY <3>3, <3>4, <3>5, <3>6 DEF ThreadStep
    <3> QED
      BY <3>7 DEF CheckJoining, GotoEntry, Goto, TypeOK
  <2>2. pc[t] = "check" /\ UNCHANGED <<size, arrived, departed, simStep>>
    BY <2>1 DEF CheckJoining, schedVars
  <2>3. pc[0] \in CallerOutside
    BY <2>1, <2>2 DEF IndInv, CallerInv, HelperInv
  <2>4. 1 \in 1..size[t]
    BY <2>2 DEF BusyHelpers, TypeOK
  <2>5. endCounter[<<t, 1>>] = simStep /\ endCounter[<<t, 1>>] = departed[t] - 1
    BY <2>2, <2>3, <2>4 DEF IndInv, CounterInv, EntryCounterInv
  <2>6. arrived[t] = departed[t]
    BY <2>2 DEF IndInv, HelperInv
  <2>7. t \in Threads
    OBVIOUS
  <2> HIDE CallerOrHelper
  <2>8. simStep \in Nat /\ departed[t] \in Nat
    BY <2>7, RoundsAreNat
  <2> QED
    BY <2>2, <2>5, <2>6, <2>8
<1> QED
  BY <1>1, <1>2

\* Every reachable state of the scheduler satisfies both invariants.
THEOREM WaitingInvariance == Spec => [](Inv /\ WaitingInv)
<1>1. Inv /\ Inv' /\ WaitingInv /\ [Next]_vars => WaitingInv'
  BY RoundPreserved, PendingPreserved, ExitedPreserved DEF Inv, WaitingInv
<1> QED
  BY <1>1, InitWaiting, Invariance, PTL DEF Spec

\* A set of numbers has a least one.
LEMMA LeastNumber ==
  ASSUME NEW T \in SUBSET Nat, T # {}
  PROVE  \E m \in T : \A k \in T : m <= k
<1> DEFINE R == OpToRel(<, Nat)
<1>1. IsWellFoundedOn(R, Nat)
  BY NatLessThanWellFounded
<1>2. R = {p \in Nat \X Nat : p[1] < p[2]}
  BY DEF OpToRel
<1> HIDE DEF R
<1>3. PICK x \in T : \A y \in T : ~(<<y, x>> \in R)
  BY <1>1, WFMin
<1>4. ASSUME NEW k \in T
      PROVE  x <= k
  <2>1. x \in Nat /\ k \in Nat /\ <<k, x>> \notin R
    BY <1>3
  <2>2. ~(k < x)
    BY <2>1, <1>2
  <2> QED
    BY <2>1, <2>2
<1> QED
  BY <1>4

\* Of the entries that are not done, the one of the lowest rank waits for
\* nothing: what it requires and what its thread does before it rank lower.
LEMMA LowestEntryGoesOn ==
  ASSUME TypeOK, IndInv, PendingInv, Orderable, mTimeStepCount = simStep,
         NEW e \in Entries, ~Ended(e),
         \A u \in Threads : \A i \in 1..size[u] :
            ~Ended(<<u, i>>) => pc[u] = "wait" /\ departed[u] = simStep + 1
  PROVE  \E t \in Threads : CanGoOn(t)
<1>1. PICK rank \in [Entries -> 1..Cardinality(Entries)] :
         \A d, f \in Entries :
            (d \in req[f] \/ (d[1] = f[1] /\ d[2] < f[2])) => rank[d] < rank[f]
  BY DEF Orderable
<1> DEFINE Left == {r \in Entries : ~Ended(r)}
           Ranks == {rank[r] : r \in Left}
<1>2. \A r \in Entries : rank[r] \in Nat
  BY <1>1
<1>3. PICK m \in Ranks : \A k \in Ranks : m <= k
  <2>1. Ranks \in SUBSET Nat /\ Ranks # {}
    BY <1>2
  <2> QED
    BY <2>1, LeastNumber
<1>4. PICK f \in Left : m = rank[f]
  BY <1>3
<1>5. \A r \in Entries : rank[r] < rank[f] => Ended(r)
  BY <1>2, <1>3, <1>4
<1>6. PICK t \in Threads : \E i \in 1..size[t] : f = <<t, i>>
  BY <1>4, EntryIsPosition DEF TypeOK, Entries
<1>7. PICK i \in 1..size[t] : f = <<t, i>>
  BY <1>6
<1>8. /\ pc[t] = "wait" /\ departed[t] = simStep + 1
      /\ pos[t] \in 1..size[t] /\ size[t] \in Nat /\ simStep \in Nat
  BY <1>4, <1>7, RoundsAreNat DEF IndInv, WaitInv
<1>9. i = pos[t]
  <2>1. endCounter[f] = IF i < pos[t] THEN departed[t] ELSE departed[t] - 1
    BY <1>7, <1>8 DEF IndInv, CounterInv, EntryCounterInv
  <2>2. ~(i < pos[t])
    BY <2>1, <1>4, <1>8 DEF Ended
  <2>3. ~(pos[t] < i)
    <3> SUFFICES ASSUME pos[t] < i PROVE FALSE
      OBVIOUS
    <3> DEFINE g == <<t, pos[t]>>
    <3>1. g \in Entries
      BY <1>8, CounterIsNat
    <3>2. g[1] = f[1] /\ g[2] < f[2]
      BY <1>7
    <3>3. endCounter[g] = departed[t] - 1
      BY <1>8 DEF IndInv, CounterInv, EntryCounterInv
    <3>4. ~Ended(g)
      BY <3>3, <1>8 DEF Ended
    <3> HIDE DEF g
    <3> QED
      BY <3>1, <3>2, <3>4, <1>1, <1>4, <1>5
  <2> QED
    BY <2>2, <2>3, <1>7, <1>8
<1>10. \A r \in pending[t] : Ended(r)
  <2>1. pending[t] \subseteq req[f] /\ pending[t] \subseteq Entries
    BY <1>7, <1>8, <1>9 DEF PendingInv, TypeOK
  <2> QED
    BY <2>1, <1>1, <1>4, <1>5
<1> QED
  BY <1>8, <1>10 DEF CanGoOn

\* Within a step: if nobody could go on, all threads would have passed the start
\* barrier, and the entry of the lowest rank that is not done could.
LEMMA StepGoesOn ==
  ASSUME TypeOK, IndInv, WaitingInv, Stepping, Orderable
  PROVE  \E t \in Threads : CanGoOn(t)
<1> SUFFICES ASSUME \A t \in Threads : ~CanGoOn(t) PROVE FALSE
  OBVIOUS
<1>1. 0 \in Threads
  BY CallerOrHelper
<1>2. pc[0] \in {"barrier", "wait", "finish"} /\ mTimeStepCount = simStep /\ ~mJoining
  BY <1>1 DEF Stepping, CallerInStep, CanGoOn, IndInv, CallerInv
<1>3. ASSUME NEW t \in Helpers
      PROVE  /\ t \in Threads
             /\ \/ pc[t] = "barrier" /\ arrived[t] = departed[t] + 1
                \/ pc[t] = "wait" /\ arrived[t] = simStep + 1 /\ departed[t] = simStep + 1
  <2>1. t \in Threads
    BY CallerOrHelper
  <2>2. pc[t] \in {"barrier", "wait"}
    BY <1>2, <2>1 DEF IndInv, HelperInv, CanGoOn
  <2> QED
    BY <2>1, <2>2 DEF IndInv, HelperInv
<1>4. ASSUME NEW t \in Helpers, pc[t] = "barrier", \A u \in Threads : arrived[u] >= arrived[t]
      PROVE  FALSE
  BY <1>3, <1>4 DEF CanGoOn
<1>5. pc[0] # "barrier"
  <2> SUFFICES ASSUME pc[0] = "barrier" PROVE FALSE
    OBVIOUS
  <2>1. arrived[0] = simStep + 1 /\ departed[0] = simStep
    BY DEF IndInv, CallerInv
  <2>2. PICK u \in Threads : ~(arrived[u] >= simStep + 1)
    BY <1>1, <2>1 DEF CanGoOn
  <2>3. \A w \in Threads : arrived[w] >= simStep
    BY <1>1, <2>1, RoundsAreNat DEF WaitingInv, RoundInv
  <2>4. arrived[u] = simStep
    BY <2>2, <2>3, RoundsAreNat
  <2>5. u \in Helpers /\ pc[u] = "barrier"
    BY <1>3, <2>1, <2>4, RoundsAreNat, CallerOrHelper
  <2> QED
    BY <1>4, <2>3, <2>4, <2>5
<1>6. arrived[0] = simStep + 1 /\ departed[0] = simStep + 1
  BY <1>2, <1>5 DEF IndInv, CallerInv
<1>7. \A u \in Threads : arrived[u] >= simStep + 1
  BY <1>1, <1>6, RoundsAreNat DEF WaitingInv, RoundInv
<1>8. ASSUME NEW t \in Helpers, pc[t] = "barrier"
      PROVE  departed[t] = simStep + 1
  <2>1. t \in Threads /\ arrived[t] = departed[t] + 1
    BY <1>3, <1>8
  <2>2. departed[t] <= simStep + 1
    BY <1>6, <1>8 DEF IndInv, HelperInv
  <2>3. arrived[t] >= simStep + 1
    BY <1>7, <2>1
  <2>4. arrived[t] # simStep + 1
    BY <1>4, <1>7, <1>8
  <2> QED
    BY <2>1, <2>2, <2>3, <2>4, RoundsAreNat
<1>9. \A u \in Threads : \A i \in 1..size[u] :
        ~Ended(<<u, i>>) => pc[u] = "wait" /\ departed[u] = simStep + 1
  <2> SUFFICES ASSUME NEW u \in Threads, NEW i \in 1..size[u], pc[u] # "wait"
               PROVE  Ended(<<u, i>>)
    BY <1>2, <1>3, <1>6, CallerOrHelper
  <2>1. pc[u] \in {"barrier", "finish"} /\ departed[u] = simStep + 1
    BY <1>2, <1>3, <1>5, <1>6, <1>8, CallerOrHelper
  <2>2. endCounter[<<u, i>>] = departed[u]
    BY <2>1 DEF IndInv, CounterInv, EntryCounterInv
  <2> QED
    BY <1>2, <2>1, <2>2 DEF Ended
<1>10. CASE \A e \in Entries : Ended(e)
  <2>1. pending[0] \subseteq Entries
    BY <1>1 DEF TypeOK
  <2> QED
    BY <1>1, <1>2, <1>5, <1>10, <2>1 DEF CanGoOn
<1>11. CASE \E e \in Entries : ~Ended(e)
  BY <1>2, <1>9, <1>11, LowestEntryGoesOn DEF WaitingInv
<1> QED
  BY <1>10, <1>11

\* Within stop(): a busy helper cannot have left before the barrier of stop(), so
\* the barrier completes, the helpers leave and the caller joins them.
LEMMA StopGoesOn ==
  ASSUME TypeOK, IndInv, WaitingInv, BusyHelpers,
         pc[0] \in {"stopArrive", "stopBarrier", "join"}
  PROVE  \E t \in Threads : CanGoOn(t)
<1> SUFFICES ASSUME \A t \in Threads : ~CanGoOn(t) PROVE FALSE
  OBVIOUS
<1>1. 0 \in Threads
  BY CallerOrHelper
<1>2. pc[0] \in {"stopBarrier", "join"}
  BY <1>1 DEF IndInv, CallerInv, CanGoOn
<1>3. ASSUME NEW t \in Helpers
      PROVE  /\ t \in Threads
             /\ \/ pc[t] = "barrier" /\ arrived[t] = departed[t] + 1 /\ departed[t] = simStep
                \/ pc[t] = "exited" /\ arrived[t] = simStep + 1
  <2>1. t \in Threads
    BY CallerOrHelper
  <2>2. pc[t] \in {"barrier", "exited"}
    BY <1>2, <2>1 DEF IndInv, HelperInv, CanGoOn
  <2>3. CASE pc[t] = "exited"
    BY <2>1, <2>3 DEF WaitingInv, ExitedInv
  <2>4. CASE pc[t] = "barrier"
    <3>1. 1 \in 1..size[t]
      BY <2>1 DEF BusyHelpers, TypeOK
    <3>2. endCounter[<<t, 1>>] = simStep /\ endCounter[<<t, 1>>] = departed[t]
      BY <1>2, <2>1, <2>4, <3>1 DEF IndInv, CounterInv, EntryCounterInv, CallerOutside
    <3> QED
      BY <2>1, <2>4, <3>2 DEF IndInv, HelperInv
  <2> QED
    BY <2>2, <2>3, <2>4
<1>4. \A u \in Threads : arrived[u] >= simStep + 1
  <2>1. arrived[0] = simStep + 1 /\ simStep \in Nat
    BY <1>2, RoundsAreNat DEF IndInv, CallerInv
  <2>2. \A u \in Helpers : arrived[u] = simStep + 1
    BY <1>3
  <2> QED
    BY <2>1, <2>2, CallerOrHelper
<1>5. \A u \in Helpers : pc[u] = "exited"
  BY <1>3, <1>4 DEF CanGoOn
<1>6. pc[0] # "join"
  BY <1>1, <1>5 DEF CanGoOn
<1>7. pc[0] = "stopBarrier" /\ arrived[0] = simStep + 1 /\ departed[0] = simStep
  BY <1>2, <1>6 DEF IndInv, CallerInv
<1> QED
  BY <1>1, <1>4, <1>7 DEF CanGoOn

\* The scheduler never deadlocks in a step whose entries can be ordered, nor in
\* stop() when every helper has a task.
THEOREM DeadlockFreedom == Spec => []NeverStuck
<1>1. Inv /\ WaitingInv => NeverStuck
  BY StepGoesOn, StopGoesOn DEF Inv, NeverStuck
<1> QED
  BY <1>1, WaitingInvariance, PTL

-----------------------------------------------------------------------------
(* The scheduler implements TaskExecution.                                 *)

\* An entry that is being executed is not done yet.
LEMMA RunningIsNotDone ==
  ASSUME TypeOK, IndInv
  PROVE  /\ Running \subseteq Entries
         /\ Running \cap Done = {}
         /\ pc[0] \in CallerOutside => Running = {}
<1> USE CallerOrHelper
<1>1. ASSUME NEW t \in Threads, pc[t] = "exec"
      PROVE  <<t, pos[t]>> \in Entries /\ ~Ended(<<t, pos[t]>>) /\ pc[0] \in CallerInStep
  BY <1>1, ExecutingEntry, SchedulerAssumption DEF Ended, TypeOK
<1> QED
  BY <1>1 DEF Running, Done, CallerInStep, CallerOutside

\* A thread is executing at most the entry it is at.
LEMMA RunningEntry ==
  ASSUME TypeOK, NEW t \in Threads
  PROVE  <<t, pos[t]>> \in Running <=> pc[t] = "exec"
BY DEF Running

\* Moving between other places than "exec" changes nothing the simulation sees.
LEMMA Stutter ==
  ASSUME TypeOK, TypeOK', IndInv, Stepping' = Stepping,
         UNCHANGED <<size, req, endCounter, mTimeStepCount, simStep>>,
         \A t \in Threads : /\ pc'[t] = "exec" <=> pc[t] = "exec"
                            /\ pc[t] = "exec" => pos'[t] = pos[t]
  PROVE  UNCHANGED Execution!execVars
<1>1. Entries' = Entries /\ Done' = Done
  BY DEF Entries, Done, Ended
<1>2. Running' = Running
  BY DEF Running
<1> QED
  BY <1>1, <1>2 DEF Execution!execVars

\* Creating the schedule is what hands the task graph over.
LEMMA CreateScheduleImplements ==
  ASSUME TypeOK, TypeOK', IndInv, CreateSchedule
  PROVE  Execution!Schedule
<1> USE CallerOrHelper
<1>1. PICK s \in Schedules : /\ size' = s.size
                            /\ req' = s.req
                            /\ endCounter' = [e \in EntriesOf(s.size) |-> 0]
  BY DEF CreateSchedule
<1>2. /\ pc[0] = "created" /\ simStep = 0 /\ simStep' = simStep
      /\ pc' = [t \in Threads |-> IF t = 0 THEN "idle" ELSE "arrive"]
      /\ mTimeStepCount' = mTimeStepCount
      /\ \A t \in Threads : size[t] = 0
  BY DEF CreateSchedule, IndInv, CallerInv
<1>3. Entries = {}
  BY <1>2 DEF Entries, EntriesOf
<1>4. Stepping = FALSE /\ Stepping' = FALSE
  BY <1>2 DEF Stepping, CallerInStep
<1>5. Done = {} /\ Done' = {}
  <2>1. \A e \in Entries' : endCounter'[e] = 0
    BY <1>1 DEF Entries
  <2> QED
    BY <1>2, <1>3, <2>1, SchedulerAssumption DEF Done, Ended, TypeOK
<1>6. Running = {} /\ Running' = {}
  BY <1>2 DEF Running, IndInv, HelperInv
<1>7. \E g \in {[tasks |-> EntriesOf(q.size), deps |-> q.req] : q \in Schedules} :
        Entries' = g.tasks /\ req' = g.deps
  <2> DEFINE g == [tasks |-> EntriesOf(s.size), deps |-> s.req]
  <2>1. Entries' = g.tasks /\ req' = g.deps
    BY <1>1 DEF Entries
  <2> QED
    BY <2>1
<1>8. UNCHANGED <<Stepping, Running, Done, simStep>>
  BY <1>2, <1>4, <1>5, <1>6
<1> QED
  BY <1>2, <1>3, <1>4, <1>7, <1>8 DEF Execution!Schedule

\* The call of step() is where every task becomes due again.
LEMMA CallStepImplements ==
  ASSUME TypeOK, TypeOK', IndInv, CallStep
  PROVE  Execution!BeginStep
<1> USE CallerOrHelper
<1>1. /\ pc[0] = "idle" /\ mTimeStepCount' = simStep
      /\ pc' = [pc EXCEPT ![0] = "arrive"]
      /\ UNCHANGED <<size, req, endCounter, pos, simStep>>
  BY DEF CallStep, Goto, schedVars
<1>2. ~Stepping /\ Stepping' = TRUE
  BY <1>1 DEF Stepping, CallerInStep, TypeOK
<1>3. \A e \in Entries : endCounter[e] = simStep
  BY <1>1, EntryIsPosition
     DEF TypeOK, Entries, IndInv, CounterInv, EntryCounterInv, CallerOutside
<1>4. Done' = {}
  BY <1>1, <1>3, SchedulerAssumption DEF Done, Ended, Entries, TypeOK
<1>5. Entries' = Entries /\ Running' = Running
  BY <1>1 DEF Entries, Running, TypeOK
<1> QED
  BY <1>1, <1>2, <1>4, <1>5 DEF Execution!BeginStep

\* The return of step() finds all tasks done.
LEMMA ReturnStepImplements ==
  ASSUME TypeOK, TypeOK', IndInv, ReturnStep
  PROVE  Execution!EndStep
<1> USE CallerOrHelper
<1>1. /\ pc[0] = "finish" /\ simStep' = simStep + 1
      /\ pc' = [pc EXCEPT ![0] = "idle"]
      /\ UNCHANGED <<size, req, endCounter, pos, mTimeStepCount>>
  BY DEF ReturnStep, Goto, schedVars
<1>2. Stepping /\ Stepping' = FALSE
  BY <1>1 DEF Stepping, CallerInStep, TypeOK
<1>3. IndInv'
  BY ReturnStepPreserves
<1>4. pc'[0] = "idle" /\ mTimeStepCount = simStep
  BY <1>1 DEF IndInv, CallerInv, CallerInStep, TypeOK
<1>5. Running' = {} /\ Running' = Running
  <2>1. Running' = Running
    BY <1>1 DEF Running, TypeOK
  <2>2. \A t \in Threads : pc'[t] # "exec"
    BY <1>3, <1>4 DEF IndInv, HelperInv
  <2> QED
    BY <2>1, <2>2 DEF Running
<1>6. \A e \in Entries : endCounter[e] = simStep + 1
  <2>1. \A t \in Threads : \A i \in 1..size[t] : endCounter[<<t, i>>] = simStep + 1
    BY <1>1, <1>3, <1>4 DEF IndInv, CounterInv, EntryCounterInv, CallerOutside
  <2> QED
    BY <2>1, EntryIsPosition DEF TypeOK, Entries
<1>7. Done = Entries /\ Done' = Done /\ Entries' = Entries
  BY <1>1, <1>4, <1>6 DEF Done, Ended, Entries
<1> QED
  BY <1>1, <1>2, <1>5, <1>7 DEF Execution!EndStep

\* A task begins with all it depends on done, for the first time in this step.
LEMMA BeginTaskImplements ==
  ASSUME TypeOK, TypeOK', IndInv, NEW t \in Threads, BeginTask(t)
  PROVE  Execution!Next
<1> USE CallerOrHelper
<1> DEFINE e == <<t, pos[t]>>
<1>1. /\ pc[t] = "wait" /\ pending[t] = {} /\ pc' = [pc EXCEPT ![t] = "exec"]
      /\ UNCHANGED <<size, req, endCounter, pos, mTimeStepCount, simStep>>
  BY DEF BeginTask, Goto, schedVars
<1>2. /\ e \in Entries /\ pc[0] \in CallerInStep /\ mTimeStepCount = simStep
      /\ endCounter[e] = simStep
  BY <1>1, ExecutingEntry
<1>3. e \notin Running \cup Done
  BY <1>1, <1>2, RunningEntry, SchedulerAssumption DEF Done, Ended, TypeOK
<1>4. req[e] \subseteq Done
  <2>1. \A r \in req[e] : Ended(r)
    BY <1>1 DEF IndInv, WaitInv
  <2> QED
    BY <1>2, <2>1 DEF Done, TypeOK
<1>5. Running' = Running \cup {e}
  BY <1>1 DEF Running, TypeOK
<1>6. Stepping /\ Stepping' = Stepping
  BY <1>1, <1>2 DEF Stepping, CallerInStep, TypeOK
<1>7. Done' = Done /\ Entries' = Entries
  BY <1>1 DEF Done, Ended, Entries
<1> HIDE DEF e
<1>8. Execution!BeginTask(e)
  BY <1>1, <1>3, <1>4, <1>5, <1>6, <1>7 DEF Execution!BeginTask
<1> QED
  BY <1>2, <1>8 DEF Execution!Next

\* The increment of the end counter is the end of the task.
LEMMA EndTaskImplements ==
  ASSUME TypeOK, TypeOK', IndInv, NEW t \in Threads, EndTask(t)
  PROVE  Execution!Next
<1> USE CallerOrHelper
<1> DEFINE e == <<t, pos[t]>>
<1>1. /\ pc[t] = "exec"
      /\ endCounter' = [endCounter EXCEPT ![e] = @ + 1]
      /\ pos' = [pos EXCEPT ![t] = pos[t] + 1]
      /\ UNCHANGED <<size, req, mTimeStepCount, simStep>>
      /\ \/ pc' = [pc EXCEPT ![t] = "wait"]
         \/ t = 0 /\ pc' = [pc EXCEPT ![t] = "finish"]
         \/ t # 0 /\ pc' = [pc EXCEPT ![t] = "arrive"]
  BY DEF EndTask, GotoEntry, Goto, schedVars
<1>2. /\ e \in Entries /\ pc[0] \in CallerInStep /\ mTimeStepCount = simStep
      /\ endCounter[e] = simStep
  BY <1>1, ExecutingEntry
<1>3. e \in Running
  BY <1>1, RunningEntry
<1>4. Running' = Running \ {e}
  <2>1. pc'[t] # "exec" /\ \A u \in Threads \ {t} : pc'[u] = pc[u] /\ pos'[u] = pos[u]
    BY <1>1 DEF TypeOK
  <2> QED
    BY <1>1, <2>1 DEF Running
<1>5. Done' = Done \cup {e}
  <2>1. Entries' = Entries
    BY <1>1 DEF Entries
  <2>2. \A r \in Entries : Ended(r)' <=> Ended(r) \/ r = e
    BY <1>1, <1>2, SchedulerAssumption DEF Ended, TypeOK
  <2> QED
    BY <1>2, <2>1, <2>2 DEF Done
<1>6. Stepping' = Stepping
  BY <1>1, <1>2 DEF Stepping, CallerInStep, TypeOK
<1>7. Entries' = Entries
  BY <1>1 DEF Entries
<1> HIDE DEF e
<1>8. Execution!EndTask(e)
  BY <1>1, <1>3, <1>4, <1>5, <1>6, <1>7 DEF Execution!EndTask
<1> QED
  BY <1>2, <1>8 DEF Execution!Next

\* Every step of the threads is a step of TaskExecution or is not seen.
LEMMA NextImplements ==
  ASSUME TypeOK, TypeOK', IndInv, [Next]_vars
  PROVE  [Execution!Next]_(Execution!execVars)
<1> USE CallerOrHelper
<1>1. CASE CreateSchedule \/ CallStep \/ ReturnStep
  BY <1>1, CreateScheduleImplements, CallStepImplements, ReturnStepImplements
     DEF Execution!Next
<1>2. CASE CallStop
  BY <1>2, Stutter DEF CallStop, schedVars, Goto, Stepping, CallerInStep, TypeOK
<1>3. CASE Join
  BY <1>3, Stutter DEF Join, schedVars, Goto, Stepping, CallerInStep, TypeOK
<1>4. CASE LeaveBarrierCaller
  <2>1. /\ UNCHANGED <<size, req, endCounter, mTimeStepCount, simStep>>
        /\ \/ pc[0] = "barrier" /\ GotoEntry(0, 1)
           \/ pc[0] = "stopBarrier" /\ Goto(0, "join") /\ UNCHANGED pos
    BY <1>4 DEF LeaveBarrierCaller, schedVars
  <2>2. CASE pc[0] = "barrier" /\ GotoEntry(0, 1)
    <3>1. /\ pos' = [pos EXCEPT ![0] = 1]
          /\ \/ pc' = [pc EXCEPT ![0] = "wait"]
             \/ pc' = [pc EXCEPT ![0] = "finish"]
      BY <2>2 DEF GotoEntry, Goto
    <3> QED
      BY <2>1, <2>2, <3>1, Stutter DEF Stepping, CallerInStep, TypeOK
  <2>3. CASE pc[0] = "stopBarrier" /\ Goto(0, "join") /\ UNCHANGED pos
    BY <2>1, <2>3, Stutter DEF Goto, Stepping, CallerInStep, TypeOK
  <2> QED
    BY <2>1, <2>2, <2>3
<1>5. ASSUME NEW t \in Threads, BeginTask(t) \/ EndTask(t)
      PROVE  Execution!Next
  BY <1>5, BeginTaskImplements, EndTaskImplements
<1>6. ASSUME NEW t \in Threads, ArriveAtBarrier(t)
      PROVE  UNCHANGED Execution!execVars
  <2>1. /\ UNCHANGED <<size, req, endCounter, pos, mTimeStepCount, simStep>>
        /\ \/ pc[t] = "arrive" /\ pc' = [pc EXCEPT ![t] = "barrier"]
           \/ pc[t] = "stopArrive" /\ pc' = [pc EXCEPT ![t] = "stopBarrier"]
    BY <1>6 DEF ArriveAtBarrier, schedVars, Goto
  <2> QED
    BY <2>1, Stutter DEF Stepping, CallerInStep, TypeOK
<1>7. ASSUME NEW t \in Threads, LeaveBarrierHelper(t)
      PROVE  UNCHANGED Execution!execVars
  BY <1>7, Stutter DEF LeaveBarrierHelper, schedVars, Goto, Stepping, TypeOK
<1>8. ASSUME NEW t \in Threads, CheckJoining(t)
      PROVE  UNCHANGED Execution!execVars
  <2>1. /\ UNCHANGED <<size, req, endCounter, mTimeStepCount, simStep>>
        /\ t # 0 /\ pc[t] = "check"
        /\ pos' = [pos EXCEPT ![t] = 1] \/ pos' = pos
        /\ \/ pc' = [pc EXCEPT ![t] = "exited"]
           \/ pc' = [pc EXCEPT ![t] = "wait"]
           \/ pc' = [pc EXCEPT ![t] = "arrive"]
    BY <1>8 DEF CheckJoining, GotoEntry, Goto, schedVars, IndInv, CallerInv,
                CallerInStep, CallerOutside
  <2> QED
    BY <2>1, Stutter DEF Stepping, TypeOK
<1>9. ASSUME NEW t \in Threads, WaitCounter(t)
      PROVE  UNCHANGED Execution!execVars
  BY <1>9, Stutter DEF WaitCounter, schedVars, Stepping
<1>10. CASE UNCHANGED vars
  BY <1>10, Stutter DEF vars, Stepping
<1> QED
  BY <1>1, <1>2, <1>3, <1>4, <1>5, <1>6, <1>7, <1>8, <1>9, <1>10
     DEF Next, CallerStep, ThreadStep, Stopped

\* The threads together execute every task exactly once per step, in the order
\* of the dependencies, and nothing between two steps.
THEOREM Refinement == Spec => ExecutionSpec
<1>1. Init => Execution!Init
  <2> SUFFICES ASSUME Init PROVE Execution!Init
    OBVIOUS
  <2>1. Entries = {} /\ Done = {} /\ Running = {} /\ ~Stepping
    BY CallerOrHelper
       DEF Init, Entries, EntriesOf, Done, Running, Stepping, CallerInStep
  <2> QED
    BY <2>1 DEF Init, Execution!Init
<1>2. Inv /\ Inv' /\ [Next]_vars => [Execution!Next]_(Execution!execVars)
  BY NextImplements DEF Inv
<1> QED
  BY <1>1, <1>2, Invariance, PTL DEF Spec, ExecutionSpec, Execution!Spec
=============================================================================
