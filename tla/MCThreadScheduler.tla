------------------------- MODULE MCThreadScheduler -------------------------
(* Model-checking instances of ThreadScheduler.                            *)
EXTENDS ThreadScheduler

CONSTANT NumTasks   \* how many tasks are distributed to the threads

\* Every schedule of NumTasks tasks that a scheduler can produce: task k is
\* the k-th one in the order of scheduling, a topological order; at[k] is its
\* thread, and it may wait for any tasks scheduled before it.
Assignments == [1..NumTasks -> Threads]

Position(at, k) == Cardinality({j \in 1..k : at[j] = at[k]})

SizeOf(at) == [t \in Threads |-> Cardinality({k \in 1..NumTasks : at[k] = t})]

TaskAt(at, e) == CHOOSE k \in 1..NumTasks : at[k] = e[1] /\ Position(at, k) = e[2]

Before == {p \in (1..NumTasks) \X (1..NumTasks) : p[1] < p[2]}

MCSchedules ==
  {[size |-> SizeOf(at),
    req  |-> [e \in EntriesOf(SizeOf(at)) |->
                {<<at[j], Position(at, j)>> :
                   j \in {i \in 1..NumTasks : <<i, TaskAt(at, e)>> \in edges}}]] :
   at \in Assignments, edges \in SUBSET Before}
=============================================================================
