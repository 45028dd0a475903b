--------------------------- MODULE TaskExecution ---------------------------
(***************************************************************************)
(* What Scheduler::step() promises to the simulation, whichever scheduler  *)
(* is used: one step executes every scheduled task exactly once, a task    *)
(* only after all tasks it depends on have been executed in this step, and *)
(* nothing runs between two steps.                                         *)
(***************************************************************************)
EXTENDS Naturals

CONSTANT Graphs       \* the task graphs createSchedule() may be given:
                      \* records [tasks |-> set, deps |-> task -> tasks]

VARIABLES
  tasks,              \* the scheduled tasks
  deps,               \* deps[e]: the tasks that task e depends on
  stepping,           \* step() has been called and has not returned
  running,            \* the tasks being executed
  done,               \* the tasks executed since the last call of step()
  steps               \* how many calls of step() have returned

execVars == <<tasks, deps, stepping, running, done, steps>>

Init ==
  /\ tasks = {}
  /\ deps = [e \in {} |-> {}]
  /\ stepping = FALSE
  /\ running = {}
  /\ done = {}
  /\ steps = 0

\* createSchedule(), once, before the first step.
Schedule ==
  /\ tasks = {} /\ ~stepping /\ steps = 0
  /\ \E g \in Graphs : tasks' = g.tasks /\ deps' = g.deps
  /\ UNCHANGED <<stepping, running, done, steps>>

BeginStep ==
  /\ ~stepping
  /\ stepping' = TRUE
  /\ done' = {}
  /\ UNCHANGED <<tasks, deps, running, steps>>

BeginTask(e) ==
  /\ stepping
  /\ e \notin running \cup done
  /\ deps[e] \subseteq done
  /\ running' = running \cup {e}
  /\ UNCHANGED <<tasks, deps, stepping, done, steps>>

EndTask(e) ==
  /\ e \in running
  /\ running' = running \ {e}
  /\ done' = done \cup {e}
  /\ UNCHANGED <<tasks, deps, stepping, steps>>

EndStep ==
  /\ stepping
  /\ running = {} /\ done = tasks
  /\ stepping' = FALSE
  /\ steps' = steps + 1
  /\ UNCHANGED <<tasks, deps, running, done>>

Next ==
  \/ Schedule \/ BeginStep \/ EndStep
  \/ \E e \in tasks : BeginTask(e) \/ EndTask(e)

Spec == Init /\ [][Next]_execVars
=============================================================================
