-------------------------- MODULE ScheduleBuilder --------------------------
(***************************************************************************)
(* createSchedule() of ThreadLevelScheduler and ThreadListScheduler: after *)
(* TaskGraph has sorted the tasks, levelSchedule() splits them into levels *)
(* whose tasks are dealt to the threads, or a list heuristic deals them    *)
(* one by one; finishSchedule() turns edges into counters to wait for.     *)
(*                                                                         *)
(* Execution times and task types only decide which of several threads or  *)
(* tasks is taken and are left open; the even split is computed exactly.   *)
(***************************************************************************)
EXTENDS TaskGraph, Integers

CONSTANT NumThreads     \* mNumThreads

ASSUME BuilderAssumption == NumThreads \in Nat \ {0}

Threads == 0..(NumThreads - 1)

Kinds == {"even",       \* ThreadLevelScheduler without measurements
          "measured",   \* ThreadLevelScheduler with measurements
          "list"}       \* ThreadListScheduler

VARIABLES
  kind,         \* which createSchedule() runs
  stage,        \* "sort", "level", "fill", "deal", then "done", "failed" or
                \* "undefined"
  pos,          \* levelSchedule(): how many tasks a loop over them has done
  time,         \* levelSchedule(): the level of every task
  levels,       \* the levels not dealt yet, each a sequence of tasks
  ready,        \* the list scheduler's priority queue
  inLeft,       \* its copy of the incoming edges
  schedule,     \* mTempSchedules
  required      \* the entries whose counters each entry waits for

dealVars == <<kind, stage, pos, time, levels, ready, inLeft, schedule, required>>
vars == <<sortVars, dealVars>>

BuilderInit ==
  /\ Init
  /\ kind \in Kinds
  /\ stage = "sort"
  /\ pos = 0
  /\ time = [t \in Tasks |-> 0]
  /\ levels = <<>>
  /\ ready = {}
  /\ inLeft = [t \in Nodes |-> {}]
  /\ schedule = [th \in Threads |-> <<>>]
  /\ required = {}

SortTasks ==
  /\ stage = "sort"
  /\ SortStep
  /\ UNCHANGED dealVars

SortFailed ==
  /\ stage = "sort" /\ phase = "failed"
  /\ stage' = "failed"
  /\ UNCHANGED <<sortVars, kind, pos, time, levels, ready, inLeft, schedule, required>>

\* Without a needed task levelSchedule() reads tasks.back() of an empty list.
NothingToSchedule ==
  /\ stage = "sort" /\ phase = "sorted"
  /\ kind # "list" /\ sorted = <<>>
  /\ stage' = "undefined"
  /\ UNCHANGED <<sortVars, kind, pos, time, levels, ready, inLeft, schedule, required>>

-----------------------------------------------------------------------------
(* levelSchedule().                                                        *)

MaxOf(S) == CHOOSE x \in S : \A y \in S : y <= x

\* One level after the latest task it has an edge from.
LevelAfter(t) == IF inEdges[t] = {} THEN 0 ELSE MaxOf({time[u] : u \in inEdges[t]}) + 1

StartLevels ==
  /\ stage = "sort" /\ phase = "sorted"
  /\ kind # "list" /\ sorted # <<>>
  /\ stage' = "level"
  /\ UNCHANGED <<sortVars, kind, pos, time, levels, ready, inLeft, schedule, required>>

\* The first loop: the level of the next task of the schedule.
AssignLevel ==
  /\ stage = "level" /\ pos < Len(sorted)
  /\ time' = [time EXCEPT ![sorted[pos + 1]] = LevelAfter(sorted[pos + 1])]
  /\ pos' = pos + 1
  /\ UNCHANGED <<sortVars, kind, stage, levels, ready, inLeft, schedule, required>>

\* levels.resize(time[tasks.back()] + 1)
NumLevels == time[sorted[Len(sorted)]] + 1

ResizeLevels ==
  /\ stage = "level" /\ pos = Len(sorted)
  /\ levels' = [k \in 1..NumLevels |-> <<>>]
  /\ pos' = 0
  /\ stage' = "fill"
  /\ UNCHANGED <<sortVars, kind, time, ready, inLeft, schedule, required>>

\* The second loop: the next task is put behind the others of its level.
FillLevel ==
  /\ stage = "fill"
  /\ LET t == sorted[pos + 1]
     IN  levels' = [levels EXCEPT ![time[t] + 1] = Append(@, t)]
  /\ pos' = pos + 1
  /\ stage' = IF pos' = Len(sorted) THEN "deal" ELSE "fill"
  /\ UNCHANGED <<sortVars, kind, time, ready, inLeft, schedule, required>>

-----------------------------------------------------------------------------
(* Dealing the tasks to the threads.                                       *)

\* Fault: the end of a thread's share is not rounded like its start.
ShareRoundedUp(level, th) ==
  SubSeq(level, (Len(level) * th) \div NumThreads + 1,
                (Len(level) * (th + 1) + NumThreads - 1) \div NumThreads)

\* The positions start <= idx < end of a level that thread th is given.
Share(level, th) ==
  SubSeq(level, (Len(level) * th) \div NumThreads + 1,
                (Len(level) * (th + 1)) \div NumThreads)

Ordered(level) == {[i \in 1..Len(level) |-> level[p[i]]] : p \in Orderings(1..Len(level))}

\* A whole level, possibly sorted by task type, is split evenly.
DealLevelEvenly ==
  /\ stage = "deal" /\ kind = "even" /\ levels # <<>>
  /\ \E level \in Ordered(Head(levels)) :
       schedule' = [th \in Threads |-> schedule[th] \o Share(level, th)]
  /\ levels' = Tail(levels)
  /\ UNCHANGED <<sortVars, kind, stage, pos, time, ready, inLeft, required>>

\* scheduleLevel(): the tasks of a level one by one, to a thread that has the
\* least to do or, sorted by type, until it has its share.
DealTaskOfLevel ==
  /\ stage = "deal" /\ kind = "measured" /\ levels # <<>>
  /\ \/ /\ Head(levels) = <<>>
        /\ levels' = Tail(levels)
        /\ UNCHANGED schedule
     \/ \E i \in 1..Len(Head(levels)), th \in Threads :
          /\ schedule' = [schedule EXCEPT ![th] = Append(@, Head(levels)[i])]
          /\ levels' = [levels EXCEPT ![1] = SubSeq(@, 1, i - 1) \o SubSeq(@, i + 1, Len(@))]
  /\ UNCHANGED <<sortVars, kind, stage, pos, time, ready, inLeft, required>>

\* ThreadListScheduler: the tasks without incoming edges at the front of the
\* schedule are ready.
StartList ==
  /\ stage = "sort" /\ phase = "sorted" /\ kind = "list"
  /\ stage' = "deal"
  /\ inLeft' = inEdges
  /\ ready' = {sorted[i] : i \in {n \in 1..Len(sorted) :
                                    \A m \in 1..n : inEdges[sorted[m]] = {}}}
  /\ UNCHANGED <<sortVars, kind, pos, time, levels, schedule, required>>

\* Fault: a task is ready when the first task it depends on is dealt.
NowReadyEarly(t, ins) == {u \in RangeOf(sorted) : t \in inEdges[u]}

NowReady(t, ins) == {u \in RangeOf(sorted) : t \in inEdges[u] /\ ins[u] = {}}

DealReadyTask(t, th) ==
  /\ stage = "deal" /\ kind = "list"
  /\ t \in ready
  /\ schedule' = [schedule EXCEPT ![th] = Append(@, t)]
  /\ inLeft' = [u \in Nodes |-> inLeft[u] \ {t}]
  /\ ready' = (ready \ {t}) \cup NowReady(t, inLeft')
  /\ UNCHANGED <<sortVars, kind, stage, pos, time, levels, required>>

-----------------------------------------------------------------------------
(* finishSchedule().                                                       *)

Entries == UNION {{th} \X (1..Len(schedule[th])) : th \in Threads}
TaskOf(e) == schedule[e[1]][e[2]]

\* counters[t]: the last entry of task t, of the last thread that has one.
CounterOf(t) ==
  {e \in Entries :
    /\ TaskOf(e) = t
    /\ \A f \in Entries : TaskOf(f) = t => f[1] < e[1] \/ (f[1] = e[1] /\ f[2] <= e[2])}

\* The counters of the tasks that an entry's task has edges from.
RequiredBy(e) == UNION {CounterOf(t) : t \in inEdges[TaskOf(e)]}

FinishSchedule ==
  /\ stage = "deal"
  /\ IF kind = "list" THEN ready = {} ELSE levels = <<>>
  /\ stage' = "done"
  /\ required' = [e \in Entries |-> RequiredBy(e)]
  /\ UNCHANGED <<sortVars, kind, pos, time, levels, ready, inLeft, schedule>>

Created == stage \in {"done", "failed", "undefined"} /\ UNCHANGED vars

BuilderNext ==
  \/ SortTasks \/ SortFailed \/ NothingToSchedule
  \/ StartLevels \/ AssignLevel \/ ResizeLevels \/ FillLevel
  \/ DealLevelEvenly \/ DealTaskOfLevel
  \/ StartList \/ (\E t \in Tasks, th \in Threads : DealReadyTask(t, th))
  \/ FinishSchedule \/ Created

BuilderSpec == BuilderInit /\ [][BuilderNext]_vars

-----------------------------------------------------------------------------

\* levels[time[task]] is only within the vector if the last task has the
\* highest level: the order of the sort decides it.
LevelsFit == stage = "fill" => \A i \in 1..Len(sorted) : time[sorted[i]] + 1 \in 1..Len(levels)

\* Every task of the sorted schedule is dealt to one thread, once.
DealtOnce ==
  stage = "done" =>
    \A t \in Tasks :
      Cardinality({e \in Entries : TaskOf(e) = t})
        = IF t \in RangeOf(sorted) THEN 1 ELSE 0

\* Every incoming edge has found a counter to wait for, and the threads, each
\* in its own order, can get through the schedule without waiting for each
\* other: some order of all entries agrees with all threads and all edges.
Executable ==
  stage = "done" =>
    /\ \A e \in Entries : {TaskOf(r) : r \in required[e]} = inEdges[TaskOf(e)]
    /\ \E rank \in [Entries -> 1..Cardinality(Entries)] :
         \A e, f \in Entries :
           (e \in required[f] \/ (e[1] = f[1] /\ e[2] < f[2])) => rank[e] < rank[f]
=============================================================================
