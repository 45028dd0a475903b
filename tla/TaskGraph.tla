----------------------------- MODULE TaskGraph -----------------------------
(***************************************************************************)
(* Scheduler::resolveDeps() and Scheduler::topologicalSort() of            *)
(* dpsim/src/Scheduler.cpp: from the attributes the tasks declare to the   *)
(* order in which the needed tasks are executed.                           *)
(*                                                                         *)
(* Edge lists are sets here: an edge listed k times among the outgoing     *)
(* edges is listed k times among the incoming ones and removed k times.    *)
(* The order in which tasks become ready when the last edge into them is   *)
(* removed follows hash-set and list orders and is left open.              *)
(***************************************************************************)
EXTENDS Naturals, Sequences, FiniteSets

CONSTANTS
  Tasks, Attributes,
  Root,           \* the root task appended by resolveDeps()
  External,       \* Scheduler::external, the null attribute
  Declarations    \* what prepSchedule() may hand over, records of
                  \*   list:   the tasks in order
                  \*   reads:  mAttributeDependencies of each task
                  \*   prev:   mPrevStepDependencies
                  \*   writes: mModifiedAttributes
                  \*   refs:   the attributes each dynamic attribute is
                  \*           computed from

Nodes == Tasks \cup {Root}

IsDeclaration(d) ==
  /\ d.list \in Seq(Tasks)
  /\ d.reads \in [Tasks -> SUBSET Attributes]
  /\ d.prev \in [Tasks -> SUBSET Attributes]
  /\ d.writes \in [Tasks -> SUBSET (Attributes \cup {External})]
  /\ d.refs \in [Attributes -> SUBSET Attributes]

ASSUME TaskGraphAssumption ==
  /\ Root \notin Tasks /\ IsFiniteSet(Tasks)
  /\ External \notin Attributes
  /\ \A d \in Declarations : IsDeclaration(d)

VARIABLES
  phase,          \* "collect", "search", "fill", "sort", then "sorted" or "failed"
  decl,           \* the declarations being scheduled
  inEdges,        \* the incoming edges of every task
  frontier,       \* the queue of the backward search
  visited,        \* the tasks it has found
  in, out,        \* inEdgesCpy and outEdgesCpy
  rest,           \* the tasks the loop that fills the queue has still to look at
  queue,          \* the queue of tasks without remaining incoming edges
  sorted          \* sortedTasks

sortVars == <<phase, decl, inEdges, frontier, visited, in, out, rest,
              queue, sorted>>

RangeOf(s) == {s[i] : i \in 1..Len(s)}

Listed(d) == RangeOf(d.list)

\* The smallest set that contains S and, with every x, all of Step(x).
Closure(U, S, Step(_)) ==
  {x \in U : \A C \in SUBSET U : S \subseteq C /\ (\A y \in C : Step(y) \subseteq C)
                                    => x \in C}

\* AttributeBase::getDependencies(): the attribute and all it refers to.
Dependencies(d, a) == Closure(Attributes, {a}, LAMBDA b : d.refs[b])

\* Fault: the references of dynamic attributes are not followed.
ReadByShallow(d, t) == d.reads[t]

\* The attributes whose writers task t has to come after.
ReadBy(d, t) == UNION {Dependencies(d, a) : a \in d.reads[t]}

PrevStepAttributes(d) == UNION {d.prev[t] : t \in Listed(d)}

\* Fault: writers of attributes for the next step get no edge to the root.
RootInEdgesExternal(d) == {t \in Listed(d) : External \in d.writes[t]}

\* The root depends on external effects and on what the next step reads.
RootInEdges(d) ==
  {t \in Listed(d) : d.writes[t] \cap ({External} \cup PrevStepAttributes(d)) # {}}

\* resolveDeps(): an edge from every writer of an attribute to its readers.
InEdges(d) ==
  [u \in Nodes |->
    IF u = Root THEN RootInEdges(d)
    ELSE IF u \in Listed(d)
         THEN {t \in Listed(d) : d.writes[t] \cap ReadBy(d, u) # {}}
         ELSE {}]

OutEdges(ins) == [t \in Nodes |-> {u \in Nodes : t \in ins[u]}]

Init ==
  /\ phase = "collect"
  /\ decl \in Declarations
  /\ inEdges = [t \in Nodes |-> {}]
  /\ frontier = {}
  /\ visited = {}
  /\ in = [t \in Nodes |-> {}]
  /\ out = [t \in Nodes |-> {}]
  /\ rest = <<>>
  /\ queue = <<>>
  /\ sorted = <<>>

Resolve ==
  /\ phase = "collect"
  /\ phase' = "search"
  /\ inEdges' = InEdges(decl)
  /\ frontier' = {Root}
  /\ UNCHANGED <<decl, visited, in, out, rest, queue, sorted>>

\* The breadth-first search backwards from the root; its order is immaterial.
Search(t) ==
  /\ phase = "search"
  /\ t \in frontier
  /\ visited' = visited \cup {t}
  /\ frontier' = (frontier \cup inEdges[t]) \ visited'
  /\ UNCHANGED <<phase, decl, inEdges, in, out, rest, queue, sorted>>

StartSort ==
  /\ phase = "search"
  /\ frontier = {}
  /\ phase' = "fill"
  /\ in' = inEdges
  /\ out' = OutEdges(inEdges)
  /\ rest' = Append(decl.list, Root)
  /\ UNCHANGED <<decl, inEdges, frontier, visited, queue, sorted>>

\* The tasks without incoming edges enter the queue in list order.
FillQueue ==
  /\ phase = "fill"
  /\ queue' = IF inEdges[Head(rest)] = {} THEN Append(queue, Head(rest)) ELSE queue
  /\ rest' = Tail(rest)
  /\ phase' = IF rest' = <<>> THEN "sort" ELSE "fill"
  /\ UNCHANGED <<decl, inEdges, frontier, visited, in, out, sorted>>

Orderings(S) == {p \in [1..Cardinality(S) -> S] : {p[i] : i \in DOMAIN p} = S}

\* Fault: tasks that become ready go to the front of the queue.
EnqueueFront(q, p) == p \o q

Enqueue(q, p) == q \o p

\* The tasks that have lost their last incoming edge.
Ready(t, ins) == {u \in out[t] : ins[u] = {}}

Kept(t) == t \in visited \ {Root}

\* The head of the queue is put into the schedule if it is needed, and its
\* outgoing edges are removed.
SortNext ==
  /\ phase = "sort"
  /\ queue # <<>>
  /\ LET t == Head(queue) IN
       /\ sorted' = IF Kept(t) THEN Append(sorted, t) ELSE sorted
       /\ in' = [u \in Nodes |-> IF u \in out[t] THEN in[u] \ {t} ELSE in[u]]
       /\ out' = [out EXCEPT ![t] = {}]
       /\ \E p \in Orderings(Ready(t, in')) : queue' = Enqueue(Tail(queue), p)
  /\ UNCHANGED <<phase, decl, inEdges, frontier, visited, rest>>

\* Fault: only the edges into the root are checked.
EdgesLeftAtRoot == in[Root] # {}

EdgesLeft == \E t \in Nodes : in[t] # {} \/ out[t] # {}

\* Edges that are left belong to a cycle: SchedulingException.
FinishSort ==
  /\ phase = "sort"
  /\ queue = <<>>
  /\ phase' = IF EdgesLeft THEN "failed" ELSE "sorted"
  /\ UNCHANGED <<decl, inEdges, frontier, visited, in, out, rest, queue, sorted>>

SortStep ==
  \/ Resolve \/ (\E t \in Nodes : Search(t))
  \/ StartSort \/ FillQueue \/ SortNext \/ FinishSort

\* createSchedule() goes on with the result, or the exception propagates.
Finished == phase \in {"sorted", "failed"} /\ UNCHANGED sortVars

Next == SortStep \/ Finished

Spec == Init /\ [][Next]_sortVars

-----------------------------------------------------------------------------

\* Said of the declarations: in the schedule, whoever writes an attribute
\* stands before whoever reads it, also through dynamic attributes.
WritersBeforeReaders ==
  phase = "sorted" =>
    \A i, j \in 1..Len(sorted) :
      (\E a \in decl.reads[sorted[j]] :
         decl.writes[sorted[i]] \cap Dependencies(decl, a) # {})
      => i < j

\* The tasks with an external effect, or that write what the next step reads,
\* and all tasks that contribute to one of these.
NeededTasks(d) ==
  Closure(Listed(d), RootInEdges(d),
          LAMBDA u : {t \in Listed(d) : \E a \in d.reads[u] :
                        d.writes[t] \cap Dependencies(d, a) # {}})

\* Nothing needed is dropped and nothing else is kept: what "the next step
\* reads" counts although no task of this step depends on it.
NeededTasksKept ==
  phase = "sorted" =>
    /\ RangeOf(sorted) = NeededTasks(decl)
    /\ \A t \in Listed(decl) :
         (External \in decl.writes[t]
            \/ \E u \in Listed(decl) : decl.writes[t] \cap decl.prev[u] # {})
         => t \in RangeOf(sorted)

\* A set of tasks each of which waits for another one of the set.
Cyclic == \E S \in SUBSET Tasks : S # {} /\ \A t \in S : inEdges[t] \cap S # {}

\* The exception is thrown for cycles, unneeded ones included, and only then.
FailsOnlyOnCycle ==
  /\ phase = "failed" => Cyclic
  /\ phase = "sorted" => ~Cyclic
=============================================================================
