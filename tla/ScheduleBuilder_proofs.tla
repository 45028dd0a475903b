----------------------- MODULE ScheduleBuilder_proofs -----------------------
(***************************************************************************)
(* topologicalSort() puts writers before readers, keeps exactly the needed *)
(* tasks and fails exactly on cycles, for any tasks, attributes and        *)
(* declarations, with any order in which tasks become ready.  With what    *)
(* it sorts, levelSchedule() stays within its vector, and every way to     *)
(* deal the tasks to any number of threads deals each of them once, so     *)
(* that the threads do not wait for each other.                            *)
(***************************************************************************)
EXTENDS ScheduleBuilder, FiniteSetTheorems, WellFoundedInduction, TLAPS

Typed ==
  /\ phase \in {"collect", "search", "fill", "sort", "sorted", "failed"}
  /\ decl \in Declarations
  /\ inEdges \in [Nodes -> SUBSET Nodes]
  /\ frontier \subseteq Nodes /\ visited \subseteq Nodes
  /\ in \in [Nodes -> SUBSET Nodes] /\ out \in [Nodes -> SUBSET Nodes]
  /\ rest \in Seq(Nodes) /\ queue \in Seq(Nodes) /\ sorted \in Seq(Nodes)

Scheduled == Listed(decl) \cup {Root}

\* Whoever writes what task u reads.
WritersFor(d, u) ==
  {t \in Listed(d) : \E a \in d.reads[u] : d.writes[t] \cap Dependencies(d, a) # {}}

\* The backward search finds needed tasks only, and all that a task it has
\* visited depends on.
SearchInv ==
  /\ phase = "collect" => frontier = {} /\ visited = {}
  /\ phase # "collect" =>
       /\ inEdges = InEdges(decl)
       /\ Root \in visited \cup frontier
       /\ \A t \in visited : inEdges[t] \subseteq visited \cup frontier
       /\ (visited \cup frontier) \ {Root} \subseteq NeededTasks(decl)
  /\ phase \in {"fill", "sort", "sorted", "failed"} => frontier = {}

\* Filling the queue, no edge has been removed.
FillInv ==
  /\ phase \in {"collect", "search"} => queue = <<>>
  /\ phase \in {"collect", "search", "fill"} => sorted = <<>>
  /\ phase = "fill" =>
       /\ rest # <<>>
       /\ in = inEdges /\ out = OutEdges(inEdges)
       /\ \A t \in Scheduled :
            t \in RangeOf(rest) \/ (inEdges[t] = {} => t \in RangeOf(queue))
       /\ RangeOf(rest) \subseteq Scheduled

\* An edge is removed at both ends, and only when the task it starts from has
\* no incoming edge left.
EdgeInv ==
  phase \in {"fill", "sort", "sorted", "failed"} =>
    /\ \A t, u \in Nodes : u \in out[t] <=> t \in in[u]
    /\ \A u \in Nodes : in[u] \subseteq inEdges[u]
    /\ \A t, u \in Nodes : t \in inEdges[u] /\ t \notin in[u] => in[t] = {}
    /\ \A i \in 1..Len(queue) : in[queue[i]] = {}
    /\ \A i \in 1..Len(sorted) : in[sorted[i]] = {}

\* The queue continues the schedule in the order of the edges.
OrderInv ==
  /\ \A i, j \in 1..Len(queue) : queue[i] \in inEdges[queue[j]] => i < j
  /\ \A i \in 1..Len(queue), j \in 1..Len(sorted) : queue[i] \notin inEdges[sorted[j]]
  /\ \A i, j \in 1..Len(sorted) : sorted[i] \in inEdges[sorted[j]] => i < j

\* Whoever has no incoming edge left is in the queue, or has been there.
ProgressInv ==
  /\ RangeOf(sorted) \subseteq visited \ {Root}
  /\ phase \in {"sort", "sorted", "failed"} =>
       \A t \in Scheduled : in[t] = {} =>
         \/ t \in RangeOf(queue)
         \/ out[t] = {} /\ (Kept(t) => t \in RangeOf(sorted))

WaitingSet(S, edges) == \A t \in S : edges[t] \cap S # {}

\* No edge of a cycle is ever removed.
CycleInv ==
  phase \in {"fill", "sort", "sorted", "failed"} =>
    \A S \in SUBSET Tasks : WaitingSet(S, inEdges) => WaitingSet(S, in)

OutcomeInv ==
  /\ phase \in {"sorted", "failed"} => queue = <<>>
  /\ phase = "sorted" => ~EdgesLeft
  /\ phase = "failed" => EdgesLeft

Inv == /\ Typed /\ SearchInv /\ FillInv /\ EdgeInv /\ OrderInv
       /\ ProgressInv /\ CycleInv /\ OutcomeInv

Injective(s) == \A i, j \in 1..Len(s) : s[i] = s[j] => i = j

-----------------------------------------------------------------------------
(* Sequences.                                                              *)

LEMMA EmptyRange == Len(<<>>) = 0 /\ RangeOf(<<>>) = {}
BY DEF RangeOf

LEMMA RangeOfAppend ==
  ASSUME NEW S, NEW s \in Seq(S), NEW x \in S
  PROVE  /\ Append(s, x) \in Seq(S) /\ Len(Append(s, x)) = Len(s) + 1
         /\ \A i \in 1..Len(s) : Append(s, x)[i] = s[i]
         /\ Append(s, x)[Len(s) + 1] = x
         /\ RangeOf(Append(s, x)) = RangeOf(s) \cup {x}
<1>1. /\ Append(s, x) \in Seq(S) /\ Len(Append(s, x)) = Len(s) + 1 /\ Len(s) \in Nat
      /\ \A i \in 1..Len(s) : Append(s, x)[i] = s[i]
      /\ Append(s, x)[Len(s) + 1] = x
  OBVIOUS
<1> DEFINE r == Append(s, x)
<1> HIDE DEF r
<1>2. \A i \in 1..Len(r) : i \in 1..Len(s) \/ i = Len(s) + 1
  BY <1>1 DEF r
<1>3. RangeOf(r) \subseteq RangeOf(s) \cup {x}
  BY <1>1, <1>2 DEF RangeOf, r
<1>4. RangeOf(s) \subseteq RangeOf(r) /\ x \in RangeOf(r)
  <2>1. \A i \in 1..Len(s) : i \in 1..Len(r)
    BY <1>1 DEF r
  <2>2. Len(s) + 1 \in 1..Len(r)
    BY <1>1 DEF r
  <2> QED BY <1>1, <2>1, <2>2 DEF RangeOf, r
<1> QED BY <1>1, <1>3, <1>4 DEF r

LEMMA RangeOfTail ==
  ASSUME NEW S, NEW s \in Seq(S), s # <<>>
  PROVE  /\ Tail(s) \in Seq(S) /\ Len(Tail(s)) = Len(s) - 1 /\ Len(s) >= 1
         /\ Head(s) = s[1] /\ s[1] \in S
         /\ \A i \in 1..Len(Tail(s)) : i + 1 \in 1..Len(s) /\ Tail(s)[i] = s[i + 1]
         /\ RangeOf(s) = {Head(s)} \cup RangeOf(Tail(s))
<1>1. /\ Tail(s) \in Seq(S) /\ Len(Tail(s)) = Len(s) - 1 /\ Len(s) \in Nat /\ Len(s) >= 1
      /\ Head(s) = s[1] /\ s[1] \in S
      /\ \A i \in 1..Len(Tail(s)) : i + 1 \in 1..Len(s) /\ Tail(s)[i] = s[i + 1]
  OBVIOUS
<1> DEFINE r == Tail(s)
<1> HIDE DEF r
<1>2. RangeOf(r) \subseteq RangeOf(s) /\ s[1] \in RangeOf(s)
  <2>1. 1 \in 1..Len(s)
    BY <1>1
  <2> QED BY <1>1, <2>1 DEF RangeOf, r
<1>3. ASSUME NEW i \in 1..Len(s) PROVE s[i] = s[1] \/ s[i] \in RangeOf(r)
  <2>1. CASE i = 1
    BY <2>1
  <2>2. CASE i # 1
    <3>1. i - 1 \in 1..Len(r) /\ (i - 1) + 1 = i
      BY <1>1, <2>2 DEF r
    <3>2. r[i - 1] = s[i]
      BY <1>1, <3>1 DEF r
    <3> QED BY <3>1, <3>2 DEF RangeOf
  <2> QED BY <2>1, <2>2
<1>4. RangeOf(s) \subseteq {s[1]} \cup RangeOf(r)
  BY <1>3 DEF RangeOf
<1> QED BY <1>1, <1>2, <1>4 DEF r

LEMMA RangeOfConcat ==
  ASSUME NEW S, NEW s \in Seq(S), NEW p \in Seq(S)
  PROVE  /\ s \o p \in Seq(S) /\ Len(s \o p) = Len(s) + Len(p)
         /\ \A i \in 1..Len(s) : i \in 1..Len(s \o p) /\ (s \o p)[i] = s[i]
         /\ \A i \in 1..Len(p) : i + Len(s) \in 1..Len(s \o p) /\ (s \o p)[i + Len(s)] = p[i]
         /\ \A i \in 1..Len(s \o p) : \/ i \in 1..Len(s)
                                      \/ i > Len(s) /\ i - Len(s) \in 1..Len(p)
         /\ RangeOf(s \o p) = RangeOf(s) \cup RangeOf(p)
<1>1. /\ s \o p \in Seq(S) /\ Len(s \o p) = Len(s) + Len(p)
      /\ Len(s) \in Nat /\ Len(p) \in Nat
      /\ \A i \in 1..Len(s) : i \in 1..Len(s \o p) /\ (s \o p)[i] = s[i]
  OBVIOUS
<1>2. \A i \in 1..Len(p) : i + Len(s) \in 1..Len(s \o p) /\ (s \o p)[i + Len(s)] = p[i]
  OBVIOUS
<1> DEFINE r == s \o p
<1> HIDE DEF r
<1>3. \A i \in 1..Len(r) : \/ i \in 1..Len(s)
                           \/ i > Len(s) /\ i - Len(s) \in 1..Len(p)
  BY <1>1 DEF r
<1>4. RangeOf(s) \subseteq RangeOf(r) /\ RangeOf(p) \subseteq RangeOf(r)
  BY <1>1, <1>2 DEF RangeOf, r
<1>5. ASSUME NEW i \in 1..Len(r) PROVE r[i] \in RangeOf(s) \cup RangeOf(p)
  <2>1. CASE i \in 1..Len(s)
    BY <1>1, <2>1 DEF RangeOf, r
  <2>2. CASE i > Len(s) /\ i - Len(s) \in 1..Len(p)
    <3>1. (i - Len(s)) + Len(s) = i
      BY <1>1, <2>2
    <3>2. r[i] = p[i - Len(s)]
      BY <1>2, <2>2, <3>1 DEF r
    <3> QED BY <2>2, <3>2 DEF RangeOf
  <2> QED BY <1>3, <2>1, <2>2
<1>6. RangeOf(r) \subseteq RangeOf(s) \cup RangeOf(p)
  BY <1>5 DEF RangeOf
<1> QED BY <1>1, <1>2, <1>3, <1>4, <1>6 DEF r

-----------------------------------------------------------------------------
(* The graph.                                                              *)

LEMMA GraphFacts ==
  ASSUME NEW d \in Declarations
  PROVE  /\ Listed(d) \subseteq Tasks /\ Root \notin Listed(d)
         /\ IsFiniteSet(Nodes) /\ Tasks \subseteq Nodes /\ Root \in Nodes
         /\ Append(d.list, Root) \in Seq(Nodes)
         /\ RangeOf(Append(d.list, Root)) = Listed(d) \cup {Root}
         /\ InEdges(d) \in [Nodes -> SUBSET Nodes]
         /\ \A u \in Nodes : InEdges(d)[u] \subseteq Listed(d)
         /\ InEdges(d)[Root] = RootInEdges(d)
         /\ \A u \in Listed(d) : InEdges(d)[u] = WritersFor(d, u)
<1>1. d.list \in Seq(Tasks) /\ Root \notin Tasks /\ IsFiniteSet(Tasks)
  BY TaskGraphAssumption DEF IsDeclaration
<1>2. Listed(d) \subseteq Tasks
  BY <1>1 DEF Listed, RangeOf
<1>3. IsFiniteSet(Nodes)
  BY <1>1, FS_AddElement DEF Nodes
<1>4. Tasks \subseteq Nodes /\ Root \in Nodes
  BY DEF Nodes
<1>5. d.list \in Seq(Nodes)
  BY <1>1, <1>4
<1>6. /\ Append(d.list, Root) \in Seq(Nodes)
      /\ RangeOf(Append(d.list, Root)) = Listed(d) \cup {Root}
  BY <1>4, <1>5, RangeOfAppend DEF Listed
<1>7. \A u \in Nodes : InEdges(d)[u] \subseteq Listed(d)
  BY DEF InEdges, RootInEdges
<1>8. InEdges(d)[Root] = RootInEdges(d)
  BY <1>4 DEF InEdges
<1>9. ASSUME NEW u \in Listed(d) PROVE InEdges(d)[u] = WritersFor(d, u)
  <2>1. u \in Nodes /\ u # Root
    BY <1>1, <1>2, <1>4
  <2>2. InEdges(d)[u] = {t \in Listed(d) : d.writes[t] \cap ReadBy(d, u) # {}}
    BY <2>1 DEF InEdges
  <2>3. \A t : d.writes[t] \cap ReadBy(d, u) # {} <=>
                 \E a \in d.reads[u] : d.writes[t] \cap Dependencies(d, a) # {}
    BY DEF ReadBy
  <2> QED BY <2>2, <2>3 DEF WritersFor
<1>10. InEdges(d) \in [Nodes -> SUBSET Nodes]
  <2>1. InEdges(d) = [u \in Nodes |-> InEdges(d)[u]]
    BY DEF InEdges
  <2>2. \A u \in Nodes : InEdges(d)[u] \in SUBSET Nodes
    BY <1>2, <1>4, <1>7
  <2> QED BY <2>1, <2>2
<1> QED BY <1>1, <1>2, <1>3, <1>4, <1>6, <1>7, <1>8, <1>9, <1>10

\* The needed tasks are the least set that is closed under dependencies.
LEMMA NeededFacts ==
  ASSUME NEW d \in Declarations
  PROVE  /\ NeededTasks(d) \subseteq Listed(d)
         /\ RootInEdges(d) \subseteq NeededTasks(d)
         /\ \A u \in NeededTasks(d) : WritersFor(d, u) \subseteq NeededTasks(d)
         /\ \A C \in SUBSET Listed(d) :
              RootInEdges(d) \subseteq C /\ (\A u \in C : WritersFor(d, u) \subseteq C)
                => NeededTasks(d) \subseteq C
<1> DEFINE closed(C) == /\ RootInEdges(d) \subseteq C
                        /\ \A u \in C : WritersFor(d, u) \subseteq C
<1>1. NeededTasks(d) = {x \in Listed(d) : \A C \in SUBSET Listed(d) : closed(C) => x \in C}
  BY DEF NeededTasks, Closure, WritersFor
<1>2. RootInEdges(d) \subseteq Listed(d) /\ \A u : WritersFor(d, u) \subseteq Listed(d)
  BY DEF RootInEdges, WritersFor
<1> QED BY <1>1, <1>2

LEMMA InitInv == Init => Inv
<1> SUFFICES ASSUME Init PROVE Inv
  OBVIOUS
<1>1. Typed
  BY DEF Init, Typed
<1>2. ProgressInv /\ OrderInv
  BY EmptyRange DEF Init, ProgressInv, OrderInv
<1> QED BY <1>1, <1>2 DEF Init, Inv, SearchInv, FillInv, EdgeInv, CycleInv, OutcomeInv

-----------------------------------------------------------------------------
(* Before the sort.                                                        *)

LEMMA ResolveInv ==
  ASSUME Inv, Resolve
  PROVE  Inv'
<1>1. /\ phase = "collect" /\ phase' = "search"
      /\ inEdges' = InEdges(decl) /\ frontier' = {Root}
      /\ UNCHANGED <<decl, visited, in, out, rest, queue, sorted>>
  BY DEF Resolve
<1>2. decl \in Declarations /\ visited = {} /\ queue = <<>> /\ sorted = <<>>
  BY <1>1 DEF Inv, Typed, SearchInv, FillInv
<1>3. Typed'
  BY <1>1, <1>2, GraphFacts DEF Inv, Typed
<1>4. SearchInv'
  BY <1>1, <1>2 DEF SearchInv
<1>5. OrderInv' /\ ProgressInv' /\ FillInv'
  BY <1>1, <1>2, EmptyRange DEF OrderInv, ProgressInv, FillInv
<1> QED BY <1>1, <1>3, <1>4, <1>5 DEF Inv, EdgeInv, CycleInv, OutcomeInv

LEMMA SearchStepInv ==
  ASSUME Inv, NEW t \in Nodes, Search(t)
  PROVE  Inv'
<1>1. /\ phase = "search" /\ t \in frontier
      /\ visited' = visited \cup {t}
      /\ frontier' = (frontier \cup inEdges[t]) \ visited'
      /\ UNCHANGED <<phase, decl, inEdges, in, out, rest, queue, sorted>>
  BY DEF Search
<1>2. decl \in Declarations /\ queue = <<>> /\ sorted = <<>> /\ inEdges = InEdges(decl)
  BY <1>1 DEF Inv, Typed, SearchInv, FillInv
<1>3. Typed'
  BY <1>1 DEF Inv, Typed
<1>4. inEdges[t] \subseteq NeededTasks(decl) /\ (t = Root \/ t \in NeededTasks(decl))
  <2>1. CASE t = Root
    BY <1>2, <2>1, GraphFacts, NeededFacts
  <2>2. CASE t # Root
    <3>1. t \in NeededTasks(decl)
      BY <1>1, <2>2 DEF Inv, SearchInv
    <3>2. inEdges[t] = WritersFor(decl, t)
      BY <1>2, <3>1, GraphFacts, NeededFacts
    <3> QED BY <1>2, <3>1, <3>2, NeededFacts
  <2> QED BY <2>1, <2>2
<1>5. SearchInv'
  BY <1>1, <1>2, <1>4 DEF Inv, SearchInv
<1>6. OrderInv' /\ ProgressInv' /\ FillInv'
  BY <1>1, <1>2, EmptyRange DEF OrderInv, ProgressInv, FillInv
<1> QED BY <1>1, <1>3, <1>5, <1>6 DEF Inv, EdgeInv, CycleInv, OutcomeInv

LEMMA StartSortInv ==
  ASSUME Inv, StartSort
  PROVE  Inv'
<1>1. /\ phase = "search" /\ frontier = {} /\ phase' = "fill"
      /\ in' = inEdges /\ out' = OutEdges(inEdges) /\ rest' = Append(decl.list, Root)
      /\ UNCHANGED <<decl, inEdges, frontier, visited, queue, sorted>>
  BY DEF StartSort
<1>2. decl \in Declarations /\ queue = <<>> /\ sorted = <<>> /\ inEdges \in [Nodes -> SUBSET Nodes]
  BY <1>1 DEF Inv, Typed, FillInv
<1>3. OutEdges(inEdges) \in [Nodes -> SUBSET Nodes]
  BY DEF OutEdges
<1>4. \A x, u \in Nodes : u \in OutEdges(inEdges)[x] <=> x \in inEdges[u]
  BY DEF OutEdges
<1>5. Typed'
  BY <1>1, <1>2, <1>3, GraphFacts DEF Inv, Typed
<1>6. SearchInv'
  BY <1>1 DEF Inv, SearchInv
<1>7. FillInv'
  <2>1. RangeOf(rest') = Listed(decl) \cup {Root}
    BY <1>1, <1>2, GraphFacts
  <2>2. rest' # <<>>
    BY <2>1, EmptyRange
  <2> QED BY <1>1, <1>2, <2>1, <2>2 DEF FillInv, Scheduled
<1>8. EdgeInv'
  BY <1>1, <1>2, <1>4 DEF EdgeInv
<1>9. OrderInv' /\ ProgressInv'
  BY <1>1, <1>2, EmptyRange DEF OrderInv, ProgressInv
<1> QED BY <1>1, <1>5, <1>6, <1>7, <1>8, <1>9 DEF Inv, CycleInv, OutcomeInv, WaitingSet

LEMMA FillQueueInv ==
  ASSUME Inv, FillQueue
  PROVE  Inv'
<1>1. /\ phase = "fill"
      /\ queue' = IF inEdges[Head(rest)] = {} THEN Append(queue, Head(rest)) ELSE queue
      /\ rest' = Tail(rest)
      /\ phase' = IF rest' = <<>> THEN "sort" ELSE "fill"
      /\ UNCHANGED <<decl, inEdges, frontier, visited, in, out, sorted>>
  BY DEF FillQueue
<1> DEFINE h == Head(rest)
<1>2. /\ rest \in Seq(Nodes) /\ rest # <<>> /\ queue \in Seq(Nodes) /\ sorted = <<>>
      /\ in = inEdges /\ out = OutEdges(inEdges)
  BY <1>1 DEF Inv, Typed, FillInv
<1>3. /\ rest' \in Seq(Nodes) /\ h \in Nodes
      /\ RangeOf(rest) = {h} \cup RangeOf(rest')
  BY <1>1, <1>2, RangeOfTail
<1> HIDE DEF h
<1>4. /\ queue' \in Seq(Nodes) /\ RangeOf(queue) \subseteq RangeOf(queue')
      /\ inEdges[h] = {} => h \in RangeOf(queue')
      /\ \A i \in 1..Len(queue') : inEdges[queue'[i]] = {}
  <2>1. \A i \in 1..Len(queue) : inEdges[queue[i]] = {}
    BY <1>1, <1>2 DEF Inv, EdgeInv
  <2>2. CASE inEdges[h] # {}
    BY <1>1, <1>2, <2>1, <2>2 DEF h
  <2>3. CASE inEdges[h] = {}
    <3>1. queue' = Append(queue, h)
      BY <1>1, <2>3 DEF h
    <3>2. /\ queue' \in Seq(Nodes) /\ Len(queue') = Len(queue) + 1
          /\ \A i \in 1..Len(queue) : queue'[i] = queue[i]
          /\ queue'[Len(queue) + 1] = h
          /\ RangeOf(queue') = RangeOf(queue) \cup {h}
      BY <1>2, <1>3, <3>1, RangeOfAppend
    <3>3. \A i \in 1..Len(queue') : i \in 1..Len(queue) \/ i = Len(queue) + 1
      BY <1>2, <3>2
    <3> QED BY <2>1, <2>3, <3>2, <3>3
  <2> QED BY <2>2, <2>3
<1>5. Typed'
  BY <1>1, <1>3, <1>4 DEF Inv, Typed
<1>6. SearchInv'
  BY <1>1 DEF Inv, SearchInv
<1>7. \A t \in Scheduled : t \in RangeOf(rest') \/ (inEdges[t] = {} => t \in RangeOf(queue'))
  BY <1>1, <1>3, <1>4 DEF Inv, FillInv
<1>8. RangeOf(rest') \subseteq Scheduled
  BY <1>1, <1>3 DEF Inv, FillInv
<1>9. FillInv'
  BY <1>1, <1>2, <1>7, <1>8 DEF FillInv, Scheduled
<1>10. EdgeInv'
  BY <1>1, <1>2, <1>4 DEF Inv, EdgeInv
<1>11. OrderInv'
  <2>1. inEdges' = inEdges /\ Len(sorted') = 0
    BY <1>1, <1>2, EmptyRange
  <2>2. \A i, j \in 1..Len(queue') : queue'[i] \notin inEdges'[queue'[j]]
    BY <1>4, <2>1
  <2>3. 1..Len(sorted') = {}
    BY <2>1
  <2> QED BY <2>2, <2>3 DEF OrderInv
<1>12. ProgressInv'
  <2>1. rest' = <<>> => \A t \in Scheduled : inEdges[t] = {} => t \in RangeOf(queue')
    BY <1>7, EmptyRange
  <2> QED BY <1>1, <1>2, <2>1 DEF Inv, ProgressInv, Scheduled
<1>13. CycleInv'
  BY <1>1, <1>2 DEF CycleInv, WaitingSet
<1> QED BY <1>1, <1>5, <1>6, <1>9, <1>10, <1>11, <1>12, <1>13 DEF Inv, OutcomeInv

-----------------------------------------------------------------------------
(* The sort.                                                               *)

\* The tasks that become ready, in some order.
LEMMA Orders ==
  ASSUME NEW S \in SUBSET Nodes, NEW p \in Orderings(S), IsFiniteSet(Nodes)
  PROVE  p \in Seq(Nodes) /\ RangeOf(p) = S /\ Injective(p)
<1>1. Cardinality(S) \in Nat /\ IsFiniteSet(S)
  BY FS_Subset, FS_CardinalityType
<1>2. p \in [1..Cardinality(S) -> S] /\ {p[i] : i \in DOMAIN p} = S
  BY DEF Orderings
<1>3. p \in Seq(S) /\ Len(p) = Cardinality(S)
  BY <1>1, <1>2
<1>4. p \in Seq(Nodes) /\ DOMAIN p = 1..Len(p)
  BY <1>2, <1>3
<1> DEFINE n == Cardinality(S)
<1>5. p \in Injection(1..n, S)
  <2>1. IsFiniteSet(1..n) /\ Cardinality(1..n) = n
    BY <1>1, FS_Interval
  <2>2. p \in Surjection(1..n, S)
    BY <1>2 DEF Surjection
  <2> QED BY <2>1, <2>2, FS_SurjSameCardinalityImpliesInj
<1>6. Injective(p)
  BY <1>3, <1>5 DEF Injection, IsInjective, Injective
<1> QED BY <1>2, <1>4, <1>6 DEF RangeOf

\* What a turn of the loop does, with p the tasks that become ready.
TurnOf(t, p) ==
  /\ phase = "sort" /\ queue # <<>> /\ t = Head(queue)
  /\ sorted' = IF Kept(t) THEN Append(sorted, t) ELSE sorted
  /\ in' = [u \in Nodes |-> IF u \in out[t] THEN in[u] \ {t} ELSE in[u]]
  /\ out' = [out EXCEPT ![t] = {}]
  /\ queue' = Tail(queue) \o p
  /\ RangeOf(p) = {u \in out[t] : in'[u] = {}} /\ Injective(p)
  /\ UNCHANGED <<phase, decl, inEdges, frontier, visited, rest>>

LEMMA SortNextTurn ==
  ASSUME Inv, SortNext
  PROVE  \E p \in Seq(Nodes) : TurnOf(Head(queue), p)
<1> DEFINE t == Head(queue)
<1>1. /\ phase = "sort" /\ queue # <<>>
      /\ sorted' = IF Kept(t) THEN Append(sorted, t) ELSE sorted
      /\ in' = [u \in Nodes |-> IF u \in out[t] THEN in[u] \ {t} ELSE in[u]]
      /\ out' = [out EXCEPT ![t] = {}]
      /\ \E p \in Orderings(Ready(t, in')) : queue' = Enqueue(Tail(queue), p)
      /\ UNCHANGED <<phase, decl, inEdges, frontier, visited, rest>>
  BY DEF SortNext
<1>2. t \in Nodes
  BY <1>1, RangeOfTail DEF Inv, Typed
<1> HIDE DEF t
<1>3. PICK p \in Orderings(Ready(t, in')) : queue' = Tail(queue) \o p
  BY <1>1 DEF Enqueue
<1>4. Ready(t, in') = {u \in out[t] : in'[u] = {}} /\ out[t] \subseteq Nodes
  BY <1>2 DEF Ready, Inv, Typed
<1>5. Ready(t, in') \in SUBSET Nodes
  BY <1>4
<1>6. IsFiniteSet(Nodes)
  BY GraphFacts DEF Inv, Typed
<1>7. p \in Seq(Nodes) /\ RangeOf(p) = Ready(t, in') /\ Injective(p)
  BY <1>5, <1>6, Orders
<1>8. TurnOf(t, p)
  BY <1>1, <1>3, <1>4, <1>7 DEF TurnOf, t
<1> QED BY <1>7, <1>8 DEF t

\* The queue behind the head, and the ready tasks behind it.
LEMMA TurnFacts ==
  ASSUME Inv, NEW t, NEW p \in Seq(Nodes), TurnOf(t, p)
  PROVE  /\ t \in Nodes /\ in[t] = {}
         /\ in' \in [Nodes -> SUBSET Nodes] /\ out' \in [Nodes -> SUBSET Nodes]
         /\ \A u \in Nodes : in'[u] = in[u] \ {t}
         /\ \A u \in RangeOf(p) : u \in Nodes /\ t \in in[u] /\ in'[u] = {}
         /\ queue' \in Seq(Nodes)
         /\ RangeOf(queue) = {t} \cup RangeOf(Tail(queue))
         /\ RangeOf(queue') = RangeOf(Tail(queue)) \cup RangeOf(p)
         /\ sorted' \in Seq(Nodes)
         /\ RangeOf(sorted') = IF Kept(t) THEN RangeOf(sorted) \cup {t} ELSE RangeOf(sorted)
<1>1. /\ Typed /\ queue # <<>> /\ t = Head(queue)
      /\ in' = [u \in Nodes |-> IF u \in out[t] THEN in[u] \ {t} ELSE in[u]]
      /\ out' = [out EXCEPT ![t] = {}]
      /\ queue' = Tail(queue) \o p
      /\ RangeOf(p) = {u \in out[t] : in'[u] = {}}
      /\ sorted' = IF Kept(t) THEN Append(sorted, t) ELSE sorted
      /\ phase = "sort"
  BY DEF Inv, TurnOf
<1>2. /\ t \in Nodes /\ t = queue[1] /\ Len(queue) >= 1 /\ Len(queue) \in Nat
      /\ Tail(queue) \in Seq(Nodes)
      /\ RangeOf(queue) = {t} \cup RangeOf(Tail(queue))
  BY <1>1, RangeOfTail DEF Typed
<1>3. in[t] = {}
  BY <1>1, <1>2 DEF Inv, EdgeInv
<1>4. \A u \in Nodes : u \in out[t] <=> t \in in[u]
  BY <1>1, <1>2 DEF Inv, EdgeInv
<1>5. in' \in [Nodes -> SUBSET Nodes] /\ out' \in [Nodes -> SUBSET Nodes]
  BY <1>1 DEF Typed
<1>6. \A u \in Nodes : in'[u] = in[u] \ {t}
  BY <1>1, <1>4
<1>7. \A u \in RangeOf(p) : u \in Nodes /\ t \in in[u] /\ in'[u] = {}
  <2>1. out[t] \subseteq Nodes
    BY <1>1, <1>2 DEF Typed
  <2> QED BY <1>1, <1>4, <2>1
<1>8. /\ queue' \in Seq(Nodes)
      /\ RangeOf(queue') = RangeOf(Tail(queue)) \cup RangeOf(p)
  <2>1. queue' = Tail(queue) \o p
    BY <1>1
  <2>2. Tail(queue) \in Seq(Nodes)
    BY <1>2
  <2> QED BY ONLY <2>1, <2>2, p \in Seq(Nodes), RangeOfConcat
<1>9. /\ sorted' \in Seq(Nodes)
      /\ RangeOf(sorted') = IF Kept(t) THEN RangeOf(sorted) \cup {t} ELSE RangeOf(sorted)
  <2>1. CASE Kept(t)
    BY <1>1, <1>2, <2>1, RangeOfAppend DEF Typed
  <2>2. CASE ~Kept(t)
    BY <1>1, <2>2 DEF Typed
  <2> QED BY <2>1, <2>2
<1> QED BY <1>2, <1>3, <1>5, <1>6, <1>7, <1>8, <1>9

\* Ready tasks come from no edge that starts at a task which was in the queue
\* before, and so they stand behind all others.
LEMMA TurnEdges ==
  ASSUME Inv, NEW t, NEW p \in Seq(Nodes), TurnOf(t, p)
  PROVE  EdgeInv'
<1>1. /\ phase = "sort" /\ phase' = "sort" /\ inEdges' = inEdges
      /\ out' = [out EXCEPT ![t] = {}] /\ Typed
  BY DEF TurnOf, Inv
<1>2. /\ t \in Nodes /\ in[t] = {}
      /\ \A u \in Nodes : in'[u] = in[u] \ {t}
      /\ \A u \in RangeOf(p) : u \in Nodes /\ t \in in[u] /\ in'[u] = {}
      /\ RangeOf(queue) = {t} \cup RangeOf(Tail(queue))
      /\ RangeOf(queue') = RangeOf(Tail(queue)) \cup RangeOf(p)
      /\ RangeOf(sorted') \subseteq RangeOf(sorted) \cup {t}
  BY TurnFacts
<1>3. /\ \A x, u \in Nodes : u \in out[x] <=> x \in in[u]
      /\ \A u \in Nodes : in[u] \subseteq inEdges[u]
      /\ \A x, u \in Nodes : x \in inEdges[u] /\ x \notin in[u] => in[x] = {}
      /\ \A x \in RangeOf(queue) \cup RangeOf(sorted) : in[x] = {}
  BY <1>1 DEF Inv, EdgeInv, RangeOf
<1>4. RangeOf(queue) \cup RangeOf(sorted) \subseteq Nodes
  BY <1>1 DEF Typed, RangeOf
<1>5. \A x, u \in Nodes : u \in out'[x] <=> x \in in'[u]
  BY <1>1, <1>2, <1>3 DEF Typed
<1>6. \A x, u \in Nodes : x \in inEdges[u] /\ x \notin in'[u] => in'[x] = {}
  BY <1>2, <1>3
<1>7. \A x \in RangeOf(queue') \cup RangeOf(sorted') : in'[x] = {}
  BY <1>2, <1>3, <1>4
<1>8. /\ \A i \in 1..Len(queue') : in'[queue'[i]] = {}
      /\ \A i \in 1..Len(sorted') : in'[sorted'[i]] = {}
  BY <1>7 DEF RangeOf
<1>9. \A u \in Nodes : in'[u] \subseteq inEdges[u]
  BY <1>2, <1>3
<1> QED BY <1>1, <1>5, <1>6, <1>8, <1>9 DEF EdgeInv

LEMMA TurnOrder ==
  ASSUME Inv, NEW t, NEW p \in Seq(Nodes), TurnOf(t, p)
  PROVE  OrderInv'
<1>1. /\ Typed /\ queue # <<>> /\ t = Head(queue) /\ inEdges' = inEdges /\ phase = "sort"
      /\ queue' = Tail(queue) \o p
      /\ sorted' = IF Kept(t) THEN Append(sorted, t) ELSE sorted
  BY DEF TurnOf, Inv
<1>2. /\ t \in Nodes /\ in[t] = {}
      /\ \A u \in RangeOf(p) : u \in Nodes /\ t \in in[u]
      /\ \A u \in RangeOf(p) : in'[u] = {}
      /\ \A u \in Nodes : in'[u] = in[u] \ {t}
  BY TurnFacts
<1>3. /\ \A x, u \in Nodes : x \in inEdges[u] /\ x \notin in[u] => in[x] = {}
      /\ \A i \in 1..Len(queue) : in[queue[i]] = {}
      /\ \A i \in 1..Len(sorted) : in[sorted[i]] = {}
  BY <1>1 DEF Inv, EdgeInv
\* A ready task has had an incoming edge until now, so that no edge from it has
\* been removed: all tasks without incoming edges do not depend on it.
<1>4. \A u \in RangeOf(p), x \in Nodes : in'[x] = {} => u \notin inEdges[x]
  BY <1>2, <1>3
<1>5. \A x \in Nodes : in[x] = {} => in'[x] = {}
  BY <1>2
<1> DEFINE rem == Tail(queue)
<1>6. /\ rem \in Seq(Nodes) /\ Len(queue) >= 1 /\ t = queue[1]
      /\ \A i \in 1..Len(rem) : i + 1 \in 1..Len(queue) /\ rem[i] = queue[i + 1]
      /\ Len(rem) \in Nat /\ Len(queue) \in Nat
  BY <1>1, RangeOfTail DEF Typed
<1>7. /\ \A i, j \in 1..Len(queue) : queue[i] \in inEdges[queue[j]] => i < j
      /\ \A i \in 1..Len(queue), j \in 1..Len(sorted) : queue[i] \notin inEdges[sorted[j]]
      /\ \A i, j \in 1..Len(sorted) : sorted[i] \in inEdges[sorted[j]] => i < j
  BY DEF Inv, OrderInv
<1> HIDE DEF rem
<1>8. /\ \A i \in 1..Len(rem) : queue'[i] = rem[i]
      /\ \A i \in 1..Len(p) : queue'[i + Len(rem)] = p[i]
      /\ \A i \in 1..Len(queue') : i \in 1..Len(rem) \/ (i > Len(rem) /\ i - Len(rem) \in 1..Len(p))
      /\ Len(queue') \in Nat
  BY <1>1, <1>6, RangeOfConcat DEF rem
<1>9. \A i \in 1..Len(queue') : i \in 1..Len(rem) \/ (i > Len(rem) /\ queue'[i] \in RangeOf(p))
  <2> SUFFICES ASSUME NEW i \in 1..Len(queue'), i > Len(rem), i - Len(rem) \in 1..Len(p)
               PROVE  queue'[i] \in RangeOf(p)
    BY <1>8
  <2>1. (i - Len(rem)) + Len(rem) = i
    BY <1>6, <1>8
  <2>2. queue'[i] = p[i - Len(rem)]
    BY <1>8, <2>1
  <2> QED BY <2>2 DEF RangeOf
<1>10. \A i \in 1..Len(queue') : queue'[i] \in Nodes /\ in'[queue'[i]] = {}
  <2> SUFFICES ASSUME NEW i \in 1..Len(queue')
               PROVE  queue'[i] \in Nodes /\ in'[queue'[i]] = {}
    OBVIOUS
  <2>1. CASE i \in 1..Len(rem)
    <3>1. queue'[i] = queue[i + 1] /\ i + 1 \in 1..Len(queue)
      BY <1>6, <1>8, <2>1
    <3>2. queue[i + 1] \in Nodes /\ in[queue[i + 1]] = {}
      BY <1>1, <1>3, <3>1 DEF Typed
    <3> QED BY <1>5, <3>1, <3>2
  <2>2. CASE queue'[i] \in RangeOf(p)
    BY <1>2, <2>2
  <2> QED BY <1>9, <2>1, <2>2
<1>11. ASSUME NEW i \in 1..Len(queue'), NEW j \in 1..Len(queue'),
              queue'[i] \in inEdges[queue'[j]]
       PROVE  i < j
  <2>1. i \in 1..Len(rem)
    BY <1>4, <1>9, <1>10, <1>11
  <2>2. CASE j \in 1..Len(rem)
    <3>1. i + 1 < j + 1
      BY <1>6, <1>7, <1>8, <1>11, <2>1, <2>2
    <3> QED BY <1>8, <3>1
  <2>3. CASE j > Len(rem)
    BY <1>6, <1>8, <2>1, <2>3
  <2> QED BY <1>9, <2>2, <2>3
<1>12. t \notin inEdges[t] /\ \A j \in 1..Len(sorted) : t \notin inEdges[sorted[j]]
  <2>1. 1 \in 1..Len(queue)
    BY <1>6
  <2> QED BY <1>6, <1>7, <2>1
<1>13. ASSUME NEW i \in 1..Len(queue'), NEW x \in Nodes, in[x] = {},
              x = t \/ \E j \in 1..Len(sorted) : x = sorted[j]
       PROVE  queue'[i] \notin inEdges[x]
  <2>1. CASE i \in 1..Len(rem)
    <3>1. queue'[i] = queue[i + 1] /\ i + 1 \in 1..Len(queue) /\ ~(i + 1 < 1) /\ 1 \in 1..Len(queue)
      BY <1>6, <1>8, <2>1
    <3> QED BY <1>6, <1>7, <1>13, <3>1
  <2>2. CASE queue'[i] \in RangeOf(p)
    BY <1>4, <1>5, <1>13, <2>2
  <2> QED BY <1>9, <2>1, <2>2
<1>14. CASE ~Kept(t)
  <2>1. sorted' = sorted /\ sorted \in Seq(Nodes)
    BY <1>1, <1>14 DEF Typed
  <2>2. \A i \in 1..Len(queue'), j \in 1..Len(sorted) : queue'[i] \notin inEdges[sorted[j]]
    <3> SUFFICES ASSUME NEW i \in 1..Len(queue'), NEW j \in 1..Len(sorted)
                 PROVE  queue'[i] \notin inEdges[sorted[j]]
      OBVIOUS
    <3>1. sorted[j] \in Nodes /\ in[sorted[j]] = {}
      BY <1>3, <2>1
    <3> QED BY <1>13, <3>1
  <2> QED BY <1>1, <1>7, <1>11, <2>1, <2>2 DEF OrderInv
<1>15. CASE Kept(t)
  <2>1. sorted' = Append(sorted, t)
    BY <1>1, <1>15
  <2>2. /\ sorted \in Seq(Nodes) /\ Len(sorted) \in Nat
        /\ Len(sorted') = Len(sorted) + 1 /\ sorted'[Len(sorted) + 1] = t
        /\ \A i \in 1..Len(sorted) : sorted'[i] = sorted[i]
    BY <1>1, <1>2, <2>1, RangeOfAppend DEF Typed
  <2>3. \A i \in 1..Len(sorted') : i \in 1..Len(sorted) \/ i = Len(sorted) + 1
    BY <2>2
  <2>4. ASSUME NEW i \in 1..Len(queue'), NEW j \in 1..Len(sorted')
        PROVE  queue'[i] \notin inEdges[sorted'[j]]
    <3>1. CASE j \in 1..Len(sorted)
      <4>1. sorted'[j] = sorted[j] /\ sorted[j] \in Nodes /\ in[sorted[j]] = {}
        <5>1. sorted'[j] = sorted[j]
          BY <2>2, <3>1
        <5>2. sorted[j] \in Nodes
          BY <2>2, <3>1
        <5>3. in[sorted[j]] = {}
          BY <1>3, <3>1
        <5> QED BY <5>1, <5>2, <5>3
      <4>2. queue'[i] \notin inEdges[sorted[j]]
        BY <1>13, <3>1, <4>1
      <4> QED BY <4>1, <4>2
    <3>2. CASE j = Len(sorted) + 1
      <4>1. sorted'[j] = t
        BY <2>2, <3>2
      <4> QED BY <1>2, <1>13, <4>1
    <3> QED BY <2>3, <3>1, <3>2
  <2>5. ASSUME NEW i \in 1..Len(sorted'), NEW j \in 1..Len(sorted'),
               sorted'[i] \in inEdges[sorted'[j]]
        PROVE  i < j
    <3>1. i \in 1..Len(sorted)
      BY <1>12, <2>2, <2>3, <2>5
    <3>2. CASE j \in 1..Len(sorted)
      BY <1>7, <2>2, <2>5, <3>1, <3>2
    <3>3. CASE j = Len(sorted) + 1
      BY <2>2, <3>1, <3>3
    <3> QED BY <2>3, <3>2, <3>3
  <2> QED BY <1>1, <1>11, <2>4, <2>5 DEF OrderInv
<1> QED BY <1>14, <1>15

LEMMA SortNextInv ==
  ASSUME Inv, SortNext
  PROVE  Inv'
<1>1. PICK p \in Seq(Nodes) : TurnOf(Head(queue), p)
  BY SortNextTurn
<1> DEFINE t == Head(queue)
<1>2. /\ phase = "sort" /\ UNCHANGED <<phase, decl, inEdges, frontier, visited, rest>>
      /\ RangeOf(p) = {u \in out[t] : in'[u] = {}}
      /\ out' = [out EXCEPT ![t] = {}]
  BY <1>1 DEF TurnOf
<1> HIDE DEF t
<1>3. /\ t \in Nodes /\ in[t] = {}
      /\ in' \in [Nodes -> SUBSET Nodes] /\ out' \in [Nodes -> SUBSET Nodes]
      /\ \A u \in Nodes : in'[u] = in[u] \ {t}
      /\ queue' \in Seq(Nodes)
      /\ RangeOf(queue) = {t} \cup RangeOf(Tail(queue))
      /\ RangeOf(queue') = RangeOf(Tail(queue)) \cup RangeOf(p)
      /\ sorted' \in Seq(Nodes)
      /\ RangeOf(sorted') = IF Kept(t) THEN RangeOf(sorted) \cup {t} ELSE RangeOf(sorted)
  BY <1>1, TurnFacts DEF t
<1>4. Typed'
  BY <1>2, <1>3 DEF Inv, Typed
<1>5. SearchInv'
  BY <1>2 DEF Inv, SearchInv
<1>6. FillInv'
  BY <1>2 DEF FillInv
<1>7. EdgeInv' /\ OrderInv'
  BY <1>1, TurnEdges, TurnOrder
<1>8. ProgressInv'
  <2>1. RangeOf(sorted') \subseteq visited \ {Root}
    BY <1>3 DEF Inv, ProgressInv, Kept
  <2>2. ASSUME NEW u \in Scheduled, in'[u] = {}
        PROVE  \/ u \in RangeOf(queue')
               \/ out'[u] = {} /\ (Kept(u) => u \in RangeOf(sorted'))
    <3>1. u \in Nodes
      BY GraphFacts DEF Inv, Typed, Scheduled
    <3>2. CASE u = t
      BY <1>2, <1>3, <3>2 DEF Inv, Typed
    <3>3. CASE u # t /\ in[u] = {}
      <4>1. \/ u \in RangeOf(queue)
            \/ out[u] = {} /\ (Kept(u) => u \in RangeOf(sorted))
        BY <1>2, <3>3 DEF Inv, ProgressInv
      <4> QED BY <1>2, <1>3, <3>1, <3>3, <4>1 DEF Inv, Typed
    <3>4. CASE in[u] # {}
      <4>1. t \in in[u]
        BY <1>3, <2>2, <3>1, <3>4
      <4>2. u \in out[t]
        BY <1>2, <1>3, <3>1, <4>1 DEF Inv, EdgeInv
      <4> QED BY <1>2, <1>3, <2>2, <4>2
    <3> QED BY <3>2, <3>3, <3>4
  <2> QED BY <1>2, <2>1, <2>2 DEF ProgressInv, Scheduled, Kept
<1>9. CycleInv'
  <2>1. ASSUME NEW S \in SUBSET Tasks, WaitingSet(S, inEdges)
        PROVE  WaitingSet(S, in')
    <3>1. WaitingSet(S, in) /\ S \subseteq Nodes
      BY <1>2, <2>1 DEF Inv, CycleInv, Nodes
    <3>2. t \notin S
      BY <1>3, <3>1 DEF WaitingSet
    <3> QED BY <1>3, <3>1, <3>2 DEF WaitingSet
  <2> QED BY <1>2, <2>1 DEF CycleInv
<1> QED BY <1>2, <1>4, <1>5, <1>6, <1>7, <1>8, <1>9 DEF Inv, OutcomeInv

LEMMA FinishSortInv ==
  ASSUME Inv, FinishSort
  PROVE  Inv'
<1>1. /\ phase = "sort" /\ queue = <<>>
      /\ phase' = IF EdgesLeft THEN "failed" ELSE "sorted"
      /\ UNCHANGED <<decl, inEdges, frontier, visited, in, out, rest, queue, sorted>>
  BY DEF FinishSort
<1>2. EdgesLeft' = EdgesLeft
  BY <1>1 DEF EdgesLeft
<1>3. Typed' /\ SearchInv' /\ FillInv'
  BY <1>1 DEF Inv, Typed, SearchInv, FillInv
<1>4. EdgeInv' /\ OrderInv' /\ CycleInv'
  BY <1>1 DEF Inv, EdgeInv, OrderInv, CycleInv
<1>5. ProgressInv'
  BY <1>1 DEF Inv, ProgressInv, Scheduled, Kept
<1> QED BY <1>1, <1>2, <1>3, <1>4, <1>5 DEF Inv, OutcomeInv

LEMMA NextInv == Inv /\ [Next]_sortVars => Inv'
<1> SUFFICES ASSUME Inv, [Next]_sortVars PROVE Inv'
  OBVIOUS
<1>1. CASE UNCHANGED sortVars
  <2>1. Typed' /\ SearchInv' /\ FillInv'
    BY <1>1 DEF sortVars, Inv, Typed, SearchInv, FillInv, Scheduled
  <2>2. EdgeInv' /\ OrderInv' /\ CycleInv'
    BY <1>1 DEF sortVars, Inv, EdgeInv, OrderInv, CycleInv
  <2>3. ProgressInv' /\ OutcomeInv'
    BY <1>1 DEF sortVars, Inv, ProgressInv, Scheduled, Kept, OutcomeInv, EdgesLeft
  <2> QED BY <2>1, <2>2, <2>3 DEF Inv
<1>2. CASE SortStep
  BY <1>2, ResolveInv, SearchStepInv, StartSortInv, FillQueueInv, SortNextInv,
     FinishSortInv DEF SortStep
<1> QED BY <1>1, <1>2 DEF Next, Finished

-----------------------------------------------------------------------------
(* In which order tasks enter the queue.                                   *)

\* R holds from every task to those behind it in the schedule and the queue.
Along(R) ==
  /\ \A i, j \in 1..Len(queue) : i < j => <<queue[i], queue[j]>> \in R
  /\ \A i \in 1..Len(sorted), j \in 1..Len(queue) : <<sorted[i], queue[j]>> \in R
  /\ \A i, j \in 1..Len(sorted) : i < j => <<sorted[i], sorted[j]>> \in R

Differ == {e \in Nodes \X Nodes : e[1] # e[2]}
SourceFirst == {e \in Nodes \X Nodes : inEdges[e[2]] = {} => inEdges[e[1]] = {}}
NotHigher(lv) == {e \in Nodes \X Nodes : Kept(e[1]) /\ Kept(e[2]) => lv[e[1]] <= lv[e[2]]}

\* Needed tasks whose edges have been removed have entered the schedule.
PastInv ==
  phase \in {"fill", "sort", "sorted", "failed"} =>
    \A u \in Nodes : \A t \in inEdges[u] \ in[u] : Kept(t) => t \in RangeOf(sorted)

\* Tasks without incoming edges come first.
FrontInv ==
  /\ phase = "fill" => \A i \in 1..Len(queue) : inEdges[queue[i]] = {}
  /\ Along(SourceFirst)

\* A task that is declared once is queued and scheduled once.
DistinctInv ==
  Injective(decl.list) =>
    /\ Along(Differ)
    /\ phase = "fill" => Injective(rest) /\ RangeOf(rest) \cap RangeOf(queue) = {}

\* lv gives task t the level after the highest one among its incoming edges.
LevelAt(lv, t) ==
  /\ inEdges[t] = {} => lv[t] = 0
  /\ \A u \in inEdges[t] : lv[u] < lv[t]
  /\ inEdges[t] # {} => \E u \in inEdges[t] : lv[t] = lv[u] + 1

QueuedKept == {t \in RangeOf(queue) : Kept(t)}

\* The sort is a breadth-first search: whichever levels fit the edges do not
\* decrease along the schedule and the queue, which holds two at most.
BreadthInv ==
  \A lv \in [Tasks -> Nat] :
    (\A t \in RangeOf(sorted) \cup QueuedKept : LevelAt(lv, t)) =>
      /\ Along(NotHigher(lv))
      /\ \A t, u \in QueuedKept : lv[u] <= lv[t] + 1

LineInv == PastInv /\ FrontInv /\ DistinctInv /\ BreadthInv

LEMMA NothingAlong == queue = <<>> /\ sorted = <<>> => \A R : Along(R)
BY EmptyRange DEF Along

LEMMA EmptyLine ==
  queue = <<>> /\ sorted = <<>> /\ phase \in {"collect", "search"} => LineInv
<1> SUFFICES ASSUME queue = <<>>, sorted = <<>>, phase \in {"collect", "search"}
             PROVE  LineInv
  OBVIOUS
<1>1. QueuedKept = {} /\ \A R : Along(R)
  BY EmptyRange, NothingAlong DEF QueuedKept
<1>2. \A i \in 1..Len(queue) : FALSE
  BY EmptyRange
<1> QED BY <1>1, <1>2 DEF LineInv, PastInv, FrontInv, DistinctInv, BreadthInv

\* Of a needed task, all incoming edges start at needed tasks.
LEMMA KeptEdges ==
  ASSUME Inv, phase \in {"fill", "sort", "sorted", "failed"}, NEW u, Kept(u)
  PROVE  u \in Tasks /\ inEdges[u] \subseteq Tasks /\ \A t \in inEdges[u] : Kept(t)
<1>1. /\ decl \in Declarations /\ inEdges = InEdges(decl) /\ frontier = {}
      /\ \A t \in visited : inEdges[t] \subseteq visited
      /\ visited \subseteq Nodes
  BY DEF Inv, Typed, SearchInv
<1>2. u \in visited /\ u \in Nodes /\ u # Root
  BY <1>1 DEF Kept
<1>3. inEdges[u] \subseteq visited /\ inEdges[u] \subseteq Tasks /\ Root \notin inEdges[u]
  BY <1>1, <1>2, GraphFacts
<1> QED BY <1>2, <1>3 DEF Kept, Nodes

\* The queue of a turn keeps its order.
LEMMA TurnAlong ==
  ASSUME Inv, NEW t, NEW p \in Seq(Nodes), TurnOf(t, p),
         NEW R, Along(R),
         \A u \in RangeOf(p), x \in RangeOf(sorted) \cup RangeOf(queue) : <<x, u>> \in R,
         \A i, j \in 1..Len(p) : i < j => <<p[i], p[j]>> \in R
  PROVE  Along(R)'
<1>1. /\ Typed /\ queue # <<>> /\ t = Head(queue)
      /\ queue' = Tail(queue) \o p
      /\ sorted' = IF Kept(t) THEN Append(sorted, t) ELSE sorted
  BY DEF TurnOf, Inv
<1> DEFINE rem == Tail(queue)
<1>2. /\ rem \in Seq(Nodes) /\ Len(queue) >= 1 /\ t = queue[1] /\ t \in Nodes
      /\ \A i \in 1..Len(rem) : i + 1 \in 1..Len(queue) /\ rem[i] = queue[i + 1]
      /\ Len(rem) \in Nat /\ Len(queue) \in Nat /\ 1 \in 1..Len(queue)
  BY <1>1, RangeOfTail DEF Typed
<1> HIDE DEF rem
<1>3. /\ \A i \in 1..Len(rem) : queue'[i] = rem[i]
      /\ \A i \in 1..Len(p) : queue'[i + Len(rem)] = p[i]
      /\ \A i \in 1..Len(queue') : i \in 1..Len(rem) \/ (i > Len(rem) /\ i - Len(rem) \in 1..Len(p))
      /\ Len(queue') \in Nat /\ Len(p) \in Nat
  BY <1>1, <1>2, RangeOfConcat DEF rem
<1>4. ASSUME NEW i \in 1..Len(queue')
      PROVE  \/ i \in 1..Len(rem) /\ i + 1 \in 1..Len(queue) /\ queue'[i] = queue[i + 1]
             \/ i > Len(rem) /\ i - Len(rem) \in 1..Len(p) /\ queue'[i] = p[i - Len(rem)]
  <2>1. CASE i \in 1..Len(rem)
    BY <1>2, <1>3, <2>1
  <2>2. CASE i > Len(rem) /\ i - Len(rem) \in 1..Len(p)
    <3>1. (i - Len(rem)) + Len(rem) = i
      BY <1>2, <1>3
    <3> QED BY <1>3, <2>2, <3>1
  <2> QED BY <1>3, <2>1, <2>2
<1>5. \A i \in 1..Len(p) : p[i] \in RangeOf(p)
  BY DEF RangeOf
<1>6. /\ \A i, j \in 1..Len(queue) : i < j => <<queue[i], queue[j]>> \in R
      /\ \A i \in 1..Len(sorted), j \in 1..Len(queue) : <<sorted[i], queue[j]>> \in R
      /\ \A i, j \in 1..Len(sorted) : i < j => <<sorted[i], sorted[j]>> \in R
  BY DEF Along
<1>7. \A i \in 1..Len(queue) : queue[i] \in RangeOf(queue)
  BY DEF RangeOf
<1>8. \A i \in 1..Len(sorted) : sorted[i] \in RangeOf(sorted)
  BY DEF RangeOf
<1>9. ASSUME NEW i \in 1..Len(queue'), NEW j \in 1..Len(queue'), i < j
      PROVE  <<queue'[i], queue'[j]>> \in R
  <2>1. CASE j \in 1..Len(rem) /\ j + 1 \in 1..Len(queue) /\ queue'[j] = queue[j + 1]
    <3>1. i + 1 \in 1..Len(queue) /\ queue'[i] = queue[i + 1] /\ i + 1 < j + 1
      BY <1>2, <1>3, <1>4, <1>9, <2>1
    <3> QED BY <1>6, <2>1, <3>1
  <2>2. CASE j > Len(rem) /\ j - Len(rem) \in 1..Len(p) /\ queue'[j] = p[j - Len(rem)]
    <3>1. CASE i + 1 \in 1..Len(queue) /\ queue'[i] = queue[i + 1]
      BY <1>5, <1>7, <2>2, <3>1
    <3>2. CASE i > Len(rem) /\ i - Len(rem) \in 1..Len(p) /\ queue'[i] = p[i - Len(rem)]
      <4>1. i - Len(rem) < j - Len(rem)
        BY <1>2, <1>3, <1>9
      <4> QED BY <2>2, <3>2, <4>1
    <3> QED BY <1>4, <3>1, <3>2
  <2> QED BY <1>4, <2>1, <2>2
<1>10. ASSUME NEW x, NEW j \in 1..Len(queue'),
              x = t \/ \E i \in 1..Len(sorted) : x = sorted[i]
       PROVE  <<x, queue'[j]>> \in R
  <2>1. CASE j \in 1..Len(rem) /\ j + 1 \in 1..Len(queue) /\ queue'[j] = queue[j + 1]
    <3>1. 1 < j + 1
      BY <1>2, <2>1
    <3> QED BY <1>2, <1>6, <1>10, <2>1, <3>1
  <2>2. CASE j - Len(rem) \in 1..Len(p) /\ queue'[j] = p[j - Len(rem)]
    <3>1. queue'[j] \in RangeOf(p)
      BY <1>5, <2>2
    <3>2. x \in RangeOf(sorted) \cup RangeOf(queue)
      BY <1>2, <1>7, <1>8, <1>10
    <3> QED BY <3>1, <3>2
  <2> QED BY <1>4, <2>1, <2>2
<1>11. CASE ~Kept(t)
  BY <1>1, <1>6, <1>9, <1>10, <1>11 DEF Along
<1>12. CASE Kept(t)
  <2>1. /\ sorted \in Seq(Nodes) /\ Len(sorted) \in Nat
        /\ Len(sorted') = Len(sorted) + 1 /\ sorted'[Len(sorted) + 1] = t
        /\ \A i \in 1..Len(sorted) : sorted'[i] = sorted[i]
    BY <1>1, <1>2, <1>12, RangeOfAppend DEF Typed
  <2>2. \A i \in 1..Len(sorted') : i \in 1..Len(sorted) \/ i = Len(sorted) + 1
    BY <2>1
  <2>3. ASSUME NEW i \in 1..Len(sorted'), NEW j \in 1..Len(queue')
        PROVE  <<sorted'[i], queue'[j]>> \in R
    <3>1. sorted'[i] = t \/ \E k \in 1..Len(sorted) : sorted'[i] = sorted[k]
      BY <2>1, <2>2
    <3> QED BY <1>10, <3>1
  <2>4. ASSUME NEW i \in 1..Len(sorted'), NEW j \in 1..Len(sorted'), i < j
        PROVE  <<sorted'[i], sorted'[j]>> \in R
    <3>1. i \in 1..Len(sorted) /\ sorted'[i] = sorted[i]
      BY <2>1, <2>2, <2>4
    <3>2. CASE j \in 1..Len(sorted)
      BY <1>6, <2>1, <2>4, <3>1, <3>2
    <3>3. CASE j = Len(sorted) + 1
      BY <1>2, <1>6, <2>1, <3>1, <3>3
    <3> QED BY <2>2, <3>2, <3>3
  <2> QED BY <1>9, <2>3, <2>4 DEF Along
<1> QED BY <1>11, <1>12

LEMMA StartSortLine ==
  ASSUME Inv, StartSort
  PROVE  LineInv'
<1>1. /\ phase = "search" /\ phase' = "fill" /\ in' = inEdges
      /\ rest' = Append(decl.list, Root)
      /\ UNCHANGED <<decl, inEdges, queue, sorted>>
  BY DEF StartSort
<1>2. decl \in Declarations /\ queue' = <<>> /\ sorted' = <<>>
  BY <1>1 DEF Inv, Typed, FillInv
<1>3. \A R : Along(R)'
  BY <1>2, EmptyRange DEF Along
<1>4. QueuedKept' = {} /\ RangeOf(queue') = {}
  BY <1>2, EmptyRange DEF QueuedKept
<1>5. Injective(decl.list) => Injective(rest')
  <2>1. /\ Len(rest') = Len(decl.list) + 1 /\ Len(decl.list) \in Nat
        /\ \A i \in 1..Len(decl.list) : rest'[i] = decl.list[i] /\ rest'[i] # Root
        /\ rest'[Len(decl.list) + 1] = Root
    <3>1. decl.list \in Seq(Tasks) /\ Root \notin Tasks
      BY <1>2, TaskGraphAssumption DEF IsDeclaration
    <3>2. decl.list \in Seq(Nodes) /\ Root \in Nodes
      BY <3>1 DEF Nodes
    <3>3. /\ Len(rest') = Len(decl.list) + 1 /\ Len(decl.list) \in Nat
          /\ \A i \in 1..Len(decl.list) : rest'[i] = decl.list[i]
          /\ rest'[Len(decl.list) + 1] = Root
      BY <1>1, <3>2, RangeOfAppend
    <3> QED BY <3>1, <3>3
  <2>2. \A i \in 1..Len(rest') : i \in 1..Len(decl.list) \/ i = Len(decl.list) + 1
    BY <2>1
  <2> QED BY <2>1, <2>2 DEF Injective
<1>6. PastInv'
  BY <1>1 DEF PastInv
<1>7. FrontInv' /\ DistinctInv'
  <2>1. \A i \in 1..Len(queue') : FALSE
    BY <1>2, EmptyRange
  <2> QED BY <1>1, <1>3, <1>4, <1>5, <2>1 DEF FrontInv, DistinctInv
<1>8. BreadthInv'
  BY <1>3, <1>4 DEF BreadthInv
<1> QED BY <1>6, <1>7, <1>8 DEF LineInv

LEMMA FillQueueLine ==
  ASSUME Inv, LineInv, FillQueue
  PROVE  LineInv'
<1>1. /\ phase = "fill" /\ phase' \in {"fill", "sort"}
      /\ queue' = IF inEdges[Head(rest)] = {} THEN Append(queue, Head(rest)) ELSE queue
      /\ rest' = Tail(rest)
      /\ UNCHANGED <<decl, inEdges, frontier, visited, in, out, sorted>>
  BY DEF FillQueue
<1> DEFINE h == Head(rest)
<1>2. /\ rest \in Seq(Nodes) /\ rest # <<>> /\ queue \in Seq(Nodes) /\ sorted = <<>>
      /\ in = inEdges /\ Len(queue) \in Nat
  BY <1>1 DEF Inv, Typed, FillInv
<1>3. /\ rest' \in Seq(Nodes) /\ h \in Nodes /\ Len(rest') = Len(rest) - 1
      /\ Len(rest) >= 1 /\ h = rest[1] /\ Len(rest) \in Nat
      /\ \A i \in 1..Len(rest') : i + 1 \in 1..Len(rest) /\ rest'[i] = rest[i + 1]
      /\ RangeOf(rest) = {h} \cup RangeOf(rest')
  BY <1>1, <1>2, RangeOfTail
<1> HIDE DEF h
<1>4. \A i \in 1..Len(queue) : queue[i] \in Nodes /\ inEdges[queue[i]] = {}
  <2>1. \A i \in 1..Len(queue) : inEdges[queue[i]] = {}
    BY <1>1 DEF LineInv, FrontInv
  <2> QED BY <1>2, <2>1
\* The queue only grows by the task at hand.
<1>5. \/ queue' = queue
      \/ /\ inEdges[h] = {} /\ Len(queue') = Len(queue) + 1
         /\ \A i \in 1..Len(queue) : queue'[i] = queue[i]
         /\ queue'[Len(queue) + 1] = h
         /\ RangeOf(queue') = RangeOf(queue) \cup {h}
  <2>1. queue' = queue \/ (inEdges[h] = {} /\ queue' = Append(queue, h))
    BY <1>1 DEF h
  <2>2. CASE inEdges[h] = {} /\ queue' = Append(queue, h)
    BY <1>2, <1>3, <2>2, RangeOfAppend
  <2> QED BY <2>1, <2>2
<1>6. \A i \in 1..Len(queue') :
        \/ i \in 1..Len(queue) /\ queue'[i] = queue[i]
        \/ i = Len(queue) + 1 /\ queue'[i] = h /\ inEdges[h] = {}
  BY <1>2, <1>5
<1>7. \A i \in 1..Len(queue') : queue'[i] \in Nodes /\ inEdges[queue'[i]] = {}
  BY <1>3, <1>4, <1>6
<1>8. Len(sorted') = 0
  BY <1>1, <1>2, EmptyRange
<1>9. PastInv'
  BY <1>1, <1>2 DEF PastInv
<1>10. FrontInv'
  <2>1. Along(SourceFirst)'
    <3>1. SourceFirst' = SourceFirst
      BY <1>1 DEF SourceFirst
    <3>2. \A i, j \in 1..Len(queue') : <<queue'[i], queue'[j]>> \in SourceFirst
      BY <1>7 DEF SourceFirst
    <3> QED BY <1>8, <3>1, <3>2 DEF Along
  <2> QED BY <1>1, <1>7, <2>1 DEF FrontInv
<1>11. DistinctInv'
  <2> SUFFICES ASSUME Injective(decl.list)
               PROVE  /\ Along(Differ)'
                      /\ Injective(rest') /\ RangeOf(rest') \cap RangeOf(queue') = {}
    BY <1>1 DEF DistinctInv
  <2>1. /\ \A i, j \in 1..Len(queue) : i < j => <<queue[i], queue[j]>> \in Differ
        /\ Injective(rest) /\ RangeOf(rest) \cap RangeOf(queue) = {}
    BY <1>1 DEF LineInv, DistinctInv, Along
  <2>2. Injective(rest')
    <3> SUFFICES ASSUME NEW i \in 1..Len(rest'), NEW j \in 1..Len(rest'), rest'[i] = rest'[j]
                 PROVE  i = j
      BY DEF Injective
    <3>1. i + 1 = j + 1
      BY <1>3, <2>1 DEF Injective
    <3> QED BY <1>3, <3>1
  <2>3. h \notin RangeOf(rest') /\ h \notin RangeOf(queue)
    <3>1. ASSUME NEW i \in 1..Len(rest') PROVE rest'[i] # h
      <4>1. 1 \in 1..Len(rest) /\ i + 1 # 1 /\ i + 1 \in 1..Len(rest)
        BY <1>3
      <4> QED BY <1>3, <2>1, <4>1 DEF Injective
    <3> QED BY <1>3, <2>1, <3>1 DEF RangeOf
  <2>4. RangeOf(rest') \cap RangeOf(queue') = {}
    BY <1>3, <1>5, <2>1, <2>3
  <2>5. \A i, j \in 1..Len(queue') : i < j => <<queue'[i], queue'[j]>> \in Differ
    <3> SUFFICES ASSUME NEW i \in 1..Len(queue'), NEW j \in 1..Len(queue'), i < j
                 PROVE  <<queue'[i], queue'[j]>> \in Differ
      OBVIOUS
    <3>1. i \in 1..Len(queue) /\ queue'[i] = queue[i]
      BY <1>2, <1>5, <1>6
    <3>2. queue[i] # h
      BY <2>3, <3>1 DEF RangeOf
    <3> QED BY <1>3, <1>4, <1>6, <2>1, <3>1, <3>2 DEF Differ
  <2> QED BY <1>8, <2>2, <2>4, <2>5 DEF Along, Differ
<1>12. BreadthInv'
  <2>. PICK Q : Q = QueuedKept'
    OBVIOUS
  <2> SUFFICES ASSUME NEW lv \in [Tasks -> Nat], \A t \in Q : LevelAt(lv, t)'
               PROVE  /\ Along(NotHigher(lv))'
                      /\ \A t, u \in Q : lv[u] <= lv[t] + 1
    BY DEF BreadthInv
  <2>1. \A t \in Q : lv[t] = 0
    <3>1. \A t \in Q : inEdges'[t] = {}
      BY <1>1, <1>7 DEF QueuedKept, RangeOf
    <3> QED BY <3>1 DEF LevelAt
  <2>2. \A i \in 1..Len(queue') : Kept(queue[i])' => queue'[i] \in Q
    BY DEF QueuedKept, RangeOf
  <2>3. \A i, j \in 1..Len(queue') : <<queue'[i], queue'[j]>> \in NotHigher(lv)'
    BY <1>7, <2>1, <2>2 DEF NotHigher
  <2> QED BY <1>8, <2>1, <2>3 DEF Along
<1> QED BY <1>9, <1>10, <1>11, <1>12 DEF LineInv

\* The levels of the tasks that become ready are one above the level of the
\* task at the head, which has the highest level of the schedule.
LEMMA ReadyLevel ==
  ASSUME Inv, LineInv, NEW t, NEW p \in Seq(Nodes), TurnOf(t, p),
         NEW lv \in [Tasks -> Nat],
         \A x \in RangeOf(sorted) \cup QueuedKept : LevelAt(lv, x),
         NEW u \in RangeOf(p), Kept(u), LevelAt(lv, u)
  PROVE  /\ Kept(t) /\ lv[u] = lv[t] + 1
         /\ \A x \in RangeOf(sorted) \cup QueuedKept : lv[x] <= lv[u]
<1>1. /\ Typed /\ queue # <<>> /\ t = Head(queue) /\ phase = "sort"
      /\ t \in Nodes /\ u \in Nodes /\ t \in in[u] /\ in[u] \subseteq {t}
      /\ RangeOf(sorted) \subseteq visited \ {Root}
      /\ in[u] \subseteq inEdges[u]
  <2>1. /\ u \in Nodes /\ t \in in[u] /\ in'[u] = {} /\ t \in Nodes
        /\ \A x \in Nodes : in'[x] = in[x] \ {t}
    BY TurnFacts
  <2> QED BY <2>1 DEF TurnOf, Inv, ProgressInv, EdgeInv
<1>2. t = queue[1] /\ 1 \in 1..Len(queue)
  <2>1. Len(queue) >= 1 /\ Len(queue) \in Nat /\ Head(queue) = queue[1]
    BY <1>1, RangeOfTail DEF Typed
  <2> QED BY <1>1, <2>1
<1>3. u \in Tasks /\ inEdges[u] \subseteq Tasks /\ \A x \in inEdges[u] : Kept(x)
  BY <1>1, KeptEdges
<1>4. Kept(t) /\ t \in QueuedKept /\ t \in Tasks
  BY <1>1, <1>2, <1>3 DEF QueuedKept, RangeOf
<1>5. /\ Along(NotHigher(lv))
      /\ \A x, y \in QueuedKept : lv[y] <= lv[x] + 1
  BY DEF LineInv, BreadthInv
<1>6. \A x \in RangeOf(sorted) : x \in Tasks /\ lv[x] <= lv[t]
  <2> SUFFICES ASSUME NEW i \in 1..Len(sorted)
               PROVE  sorted[i] \in Tasks /\ lv[sorted[i]] <= lv[t]
    BY DEF RangeOf
  <2>1. Kept(sorted[i]) /\ sorted[i] \in Tasks
    <3>1. sorted[i] \in visited \ {Root} /\ visited \subseteq Nodes
      BY <1>1 DEF RangeOf, Typed
    <3> QED BY <3>1 DEF Kept, Nodes
  <2>2. <<sorted[i], t>> \in NotHigher(lv)
    BY <1>2, <1>5 DEF Along
  <2> QED BY <1>4, <2>1, <2>2 DEF NotHigher
<1>7. lv[t] < lv[u] /\ \E x \in inEdges[u] : lv[u] = lv[x] + 1
  BY <1>1 DEF LevelAt
<1>8. PICK x \in inEdges[u] : lv[u] = lv[x] + 1
  BY <1>7
<1>9. x = t \/ x \in RangeOf(sorted)
  <2>1. x # t => x \in inEdges[u] \ in[u]
    BY <1>1
  <2> QED BY <1>1, <1>3, <2>1 DEF LineInv, PastInv
<1>10. lv[x] <= lv[t] /\ lv[x] \in Nat /\ lv[t] \in Nat /\ lv[u] \in Nat
  BY <1>3, <1>4, <1>6, <1>9
<1>11. lv[u] = lv[t] + 1
  BY <1>7, <1>8, <1>10
<1>12. \A y \in QueuedKept : y \in Tasks
  <2>1. visited \subseteq Nodes
    BY <1>1 DEF Typed
  <2> QED BY <2>1 DEF QueuedKept, Kept, Nodes
<1>13. \A y \in QueuedKept : lv[y] <= lv[u]
  BY <1>4, <1>5, <1>11
<1>14. \A y \in RangeOf(sorted) : lv[y] <= lv[u]
  <2> SUFFICES ASSUME NEW y \in RangeOf(sorted) PROVE lv[y] <= lv[u]
    OBVIOUS
  <2>1. lv[y] \in Nat /\ lv[y] <= lv[t]
    BY <1>6
  <2> QED BY <1>10, <1>11, <2>1
<1> QED BY <1>4, <1>11, <1>13, <1>14

LEMMA SortNextLine ==
  ASSUME Inv, LineInv, SortNext
  PROVE  LineInv'
<1>1. PICK p \in Seq(Nodes) : TurnOf(Head(queue), p)
  BY SortNextTurn
<1>. PICK t : t = Head(queue)
  OBVIOUS
<1>2. /\ Typed /\ phase = "sort" /\ TurnOf(t, p) /\ Injective(p)
      /\ UNCHANGED <<phase, decl, inEdges, frontier, visited, rest>>
  BY <1>1 DEF TurnOf, Inv
<1>3. /\ t \in Nodes /\ in[t] = {}
      /\ \A u \in Nodes : in'[u] = in[u] \ {t}
      /\ \A u \in RangeOf(p) : u \in Nodes /\ t \in in[u] /\ in'[u] = {}
      /\ RangeOf(queue) = {t} \cup RangeOf(Tail(queue))
      /\ RangeOf(queue') = RangeOf(Tail(queue)) \cup RangeOf(p)
      /\ RangeOf(sorted') = IF Kept(t) THEN RangeOf(sorted) \cup {t} ELSE RangeOf(sorted)
  BY <1>2, TurnFacts
<1>4. /\ \A x \in RangeOf(sorted) \cup RangeOf(queue) : x \in Nodes /\ in[x] = {}
      /\ \A u \in Nodes : in[u] \subseteq inEdges[u]
  BY <1>2 DEF Inv, EdgeInv, RangeOf, Typed
<1>5. \A i \in 1..Len(p) : p[i] \in RangeOf(p)
  BY DEF RangeOf
<1>6. PastInv'
  <2> SUFFICES ASSUME NEW u \in Nodes, NEW x \in inEdges[u] \ in'[u], Kept(x)
               PROVE  x \in RangeOf(sorted')
    BY <1>2 DEF PastInv, Kept
  <2>1. x = t \/ x \notin in[u]
    BY <1>3
  <2>2. x \notin in[u] => x \in RangeOf(sorted)
    BY <1>2 DEF LineInv, PastInv
  <2> QED BY <1>3, <2>1, <2>2
<1>7. FrontInv'
  <2>. PICK R : R = SourceFirst
    OBVIOUS
  <2>1. \A u \in RangeOf(p), x \in RangeOf(sorted) \cup RangeOf(queue) \cup RangeOf(p) :
          <<x, u>> \in R
    <3>1. \A u \in RangeOf(p) : u \in Nodes /\ inEdges[u] # {}
      BY <1>3, <1>4
    <3> QED BY <1>3, <1>4, <3>1 DEF SourceFirst
  <2>2. Along(R)
    BY DEF LineInv, FrontInv
  <2>3. Along(R)'
    BY <1>2, <1>5, <2>1, <2>2, TurnAlong
  <2>4. R = SourceFirst'
    BY <1>2 DEF SourceFirst
  <2> QED BY <1>2, <2>3, <2>4 DEF FrontInv, Along
<1>8. DistinctInv'
  <2> SUFFICES ASSUME Injective(decl.list) PROVE Along(Differ)'
    BY <1>2 DEF DistinctInv
  <2>1. \A u \in RangeOf(p), x \in RangeOf(sorted) \cup RangeOf(queue) : <<x, u>> \in Differ
    BY <1>3, <1>4 DEF Differ
  <2>2. \A i, j \in 1..Len(p) : i < j => <<p[i], p[j]>> \in Differ
    <3>1. \A i, j \in 1..Len(p) : i < j => p[i] # p[j]
      BY <1>2 DEF Injective
    <3> QED BY <1>3, <1>5, <3>1 DEF Differ
  <2>3. Along(Differ)
    BY DEF LineInv, DistinctInv
  <2>. PICK R : R = Differ
    OBVIOUS
  <2>4. Along(R)'
    BY <1>2, <2>1, <2>2, <2>3, TurnAlong
  <2> QED BY <2>4 DEF Along, Differ
<1>9. BreadthInv'
  <2>. PICK Q : Q = QueuedKept'
    OBVIOUS
  <2>. PICK S : S = RangeOf(sorted')
    OBVIOUS
  <2> SUFFICES ASSUME NEW lv \in [Tasks -> Nat],
                      \A x \in S \cup Q : LevelAt(lv, x)'
               PROVE  /\ Along(NotHigher(lv))'
                      /\ \A x, y \in Q : lv[y] <= lv[x] + 1
    BY DEF BreadthInv
  <2>1. \A x \in S \cup Q : LevelAt(lv, x)
    BY <1>2 DEF LevelAt
  <2>2. Q = {x \in RangeOf(Tail(queue)) \cup RangeOf(p) : Kept(x)}
    BY <1>2, <1>3 DEF QueuedKept, Kept
  <2>3. QueuedKept = {x \in {t} \cup RangeOf(Tail(queue)) : Kept(x)}
    BY <1>3 DEF QueuedKept
  <2>4. RangeOf(sorted) \cup QueuedKept \subseteq S \cup Q
    BY <1>3, <2>2, <2>3
  <2>5. \A x \in RangeOf(sorted) \cup QueuedKept : LevelAt(lv, x)
    BY <2>1, <2>4
  <2>6. /\ Along(NotHigher(lv))
        /\ \A x, y \in QueuedKept : lv[y] <= lv[x] + 1
    BY <2>5 DEF LineInv, BreadthInv
  <2>7. ASSUME NEW u \in RangeOf(p), Kept(u)
        PROVE  /\ Kept(t) /\ lv[u] = lv[t] + 1
               /\ \A x \in RangeOf(sorted) \cup QueuedKept : lv[x] <= lv[u]
    <3>1. LevelAt(lv, u)
      BY <2>1, <2>2, <2>7
    <3> QED BY <1>2, <2>5, <2>7, <3>1, ReadyLevel
  <2>8. \A x \in RangeOf(sorted) \cup RangeOf(queue) : Kept(x) =>
          x \in RangeOf(sorted) \cup QueuedKept
    BY DEF QueuedKept
  <2>. PICK R : R = NotHigher(lv)
    OBVIOUS
  <2>9. \A u \in RangeOf(p), x \in RangeOf(sorted) \cup RangeOf(queue) : <<x, u>> \in R
    BY <1>3, <1>4, <2>7, <2>8 DEF NotHigher
  <2>10. \A i, j \in 1..Len(p) : i < j => <<p[i], p[j]>> \in R
    <3> SUFFICES ASSUME NEW i \in 1..Len(p), NEW j \in 1..Len(p), Kept(p[i]), Kept(p[j])
                 PROVE  lv[p[i]] <= lv[p[j]]
      BY <1>3, <1>5 DEF NotHigher
    <3>1. lv[p[i]] = lv[t] + 1 /\ lv[p[j]] = lv[t] + 1
      BY <1>5, <2>7
    <3>2. lv[t] + 1 \in Int
      <4>1. t \in Tasks
        BY <1>5, <2>7, <1>2, <1>3 DEF Typed, Kept, Nodes
      <4> QED BY <4>1
    <3> QED BY <3>1, <3>2
  <2>11. Along(R)'
    BY <1>2, <2>6, <2>9, <2>10, TurnAlong
  <2>12. R = NotHigher(lv)'
    BY <1>2 DEF NotHigher, Kept
  <2>13. Along(NotHigher(lv))'
    BY <2>11, <2>12 DEF Along
  <2>14. ASSUME NEW x \in Q, NEW y \in Q
         PROVE  lv[y] <= lv[x] + 1
    <3>1. \A z \in Q \cup QueuedKept : z \in Tasks /\ lv[z] \in Nat
      BY <1>2, <2>2, <2>3 DEF Typed, Kept, Nodes
    <3>2. CASE x \in QueuedKept /\ y \in QueuedKept
      BY <2>6, <3>2
    <3>3. CASE x \in RangeOf(p) /\ y \in QueuedKept
      <4>1. lv[y] <= lv[x]
        BY <2>2, <2>7, <3>3
      <4> QED BY <3>1, <4>1
    <3>4. CASE x \in RangeOf(Tail(queue)) /\ y \in RangeOf(p)
      <4>1. Kept(t) /\ lv[y] = lv[t] + 1
        BY <2>2, <2>7, <3>4
      <4>2. lv[t] <= lv[x]
        <5>1. <<t, x>> \in NotHigher(lv)
          <6>1. /\ Len(queue) >= 1 /\ Head(queue) = queue[1] /\ Len(queue) \in Nat
                /\ \A i \in 1..Len(Tail(queue)) :
                     i + 1 \in 1..Len(queue) /\ Tail(queue)[i] = queue[i + 1]
            BY <1>2, RangeOfTail DEF TurnOf, Typed
          <6>2. PICK i \in 1..Len(Tail(queue)) : x = Tail(queue)[i]
            BY <3>4 DEF RangeOf
          <6>3. /\ 1 \in 1..Len(queue) /\ 1 < i + 1 /\ i + 1 \in 1..Len(queue)
                /\ x = queue[i + 1] /\ t = queue[1]
            BY <6>1, <6>2
          <6> QED BY <2>6, <6>3 DEF Along
        <5> QED BY <2>2, <4>1, <5>1 DEF NotHigher
      <4>3. t \in QueuedKept
        BY <2>3, <4>1
      <4> QED BY <3>1, <4>1, <4>2, <4>3
    <3>5. CASE x \in RangeOf(p) /\ y \in RangeOf(p)
      <4>1. Kept(t) /\ lv[y] = lv[t] + 1 /\ lv[x] = lv[t] + 1
        BY <2>2, <2>7, <3>5
      <4> QED BY <3>1, <4>1
    <3> QED BY <2>2, <2>3, <3>2, <3>3, <3>4, <3>5
  <2> QED BY <2>13, <2>14
<1> QED BY <1>6, <1>7, <1>8, <1>9 DEF LineInv

LEMMA LineNext ==
  ASSUME Inv, LineInv, [Next]_sortVars
  PROVE  LineInv'
<1>1. CASE Resolve \/ \E t \in Nodes : Search(t)
  <2>1. (queue = <<>> /\ sorted = <<>> /\ phase \in {"collect", "search"})'
    BY <1>1 DEF Resolve, Search, Inv, FillInv
  <2> QED BY <2>1, EmptyLine, PTL
<1>2. CASE StartSort
  BY <1>2, StartSortLine
<1>3. CASE FillQueue
  BY <1>3, FillQueueLine
<1>4. CASE SortNext
  BY <1>4, SortNextLine
<1>5. CASE FinishSort \/ UNCHANGED sortVars
  <2>1. /\ UNCHANGED <<decl, inEdges, visited, in, queue, sorted, rest>>
        /\ phase' = phase \/ (phase = "sort" /\ phase' \in {"sorted", "failed"})
    BY <1>5 DEF FinishSort, sortVars
  <2>2. \A R : Along(R)' <=> Along(R)
    BY <2>1 DEF Along
  <2>3. PastInv'
    BY <2>1 DEF LineInv, PastInv, Kept
  <2>4. FrontInv'
    <3>1. SourceFirst' = SourceFirst
      BY <2>1 DEF SourceFirst
    <3>2. Along(SourceFirst)'
      BY <2>1, <3>1 DEF LineInv, FrontInv, Along
    <3>3. phase' = "fill" => \A i \in 1..Len(queue') : inEdges'[queue'[i]] = {}
      BY <2>1 DEF LineInv, FrontInv
    <3> QED BY <3>2, <3>3 DEF FrontInv
  <2>5. DistinctInv'
    BY <2>1 DEF LineInv, DistinctInv, Along, Differ
  <2>6. BreadthInv'
    <3>1. QueuedKept' = QueuedKept /\ \A lv : NotHigher(lv)' = NotHigher(lv)
      BY <2>1 DEF QueuedKept, NotHigher, Kept
    <3>2. \A lv, t : LevelAt(lv, t)' <=> LevelAt(lv, t)
      BY <2>1 DEF LevelAt
    <3>3. \A lv : Along(NotHigher(lv))' <=> Along(NotHigher(lv))
      BY <2>1, <3>1 DEF Along
    <3>4. RangeOf(sorted') = RangeOf(sorted)
      BY <2>1
    <3> QED BY <3>1, <3>2, <3>3, <3>4 DEF LineInv, BreadthInv
  <2> QED BY <2>3, <2>4, <2>5, <2>6 DEF LineInv
<1> QED BY <1>1, <1>2, <1>3, <1>4, <1>5 DEF Next, SortStep, Finished

(***************************************************************************)
(* The search and the sort, with any order in which tasks become ready.    *)
(***************************************************************************)
THEOREM Invariance == Spec => []Inv
BY InitInv, NextInv, PTL DEF Spec

(***************************************************************************)
(* topologicalSort() puts whoever writes an attribute before whoever reads *)
(* it, whatever the tasks declare.                                         *)
(***************************************************************************)
THEOREM Sorting == Spec => []WritersBeforeReaders
<1>1. ASSUME Inv PROVE WritersBeforeReaders
  <2> SUFFICES ASSUME phase = "sorted",
                      NEW i \in 1..Len(sorted), NEW j \in 1..Len(sorted),
                      NEW a \in decl.reads[sorted[j]],
                      decl.writes[sorted[i]] \cap Dependencies(decl, a) # {}
               PROVE  i < j
    BY DEF WritersBeforeReaders
  <2>1. decl \in Declarations /\ inEdges = InEdges(decl) /\ frontier = {}
    BY <1>1 DEF Inv, Typed, SearchInv
  <2>2. sorted[i] \in Listed(decl) /\ sorted[j] \in Listed(decl)
    <3>1. RangeOf(sorted) \subseteq NeededTasks(decl)
      BY <1>1, <2>1 DEF Inv, SearchInv, ProgressInv
    <3> QED BY <2>1, <3>1, NeededFacts DEF RangeOf
  <2>3. sorted[i] \in inEdges[sorted[j]]
    BY <2>1, <2>2, GraphFacts DEF WritersFor
  <2> QED BY <1>1, <2>3 DEF Inv, OrderInv
<1> QED BY <1>1, Invariance, PTL

(***************************************************************************)
(* The backward search drops no task that is needed and keeps no other.    *)
(***************************************************************************)
THEOREM Selection == Spec => []NeededTasksKept
<1>1. ASSUME Inv PROVE NeededTasksKept
  <2> SUFFICES ASSUME phase = "sorted" PROVE NeededTasksKept
    BY DEF NeededTasksKept
  <2>1. decl \in Declarations /\ inEdges = InEdges(decl) /\ frontier = {} /\ queue = <<>>
    BY <1>1 DEF Inv, Typed, SearchInv, OutcomeInv
  <2> DEFINE found == visited \ {Root}
  <2>2. found \subseteq NeededTasks(decl) /\ Root \in visited
        /\ \A t \in visited : inEdges[t] \subseteq visited
    BY <1>1, <2>1 DEF Inv, SearchInv
  <2>3. NeededTasks(decl) \subseteq found
    <3>1. found \in SUBSET Listed(decl) /\ Root \notin Listed(decl)
      BY <2>1, <2>2, NeededFacts, GraphFacts
    <3>2. RootInEdges(decl) \subseteq found
      BY <2>1, <2>2, <3>1, GraphFacts
    <3>3. \A u \in found : WritersFor(decl, u) \subseteq found
      BY <2>1, <2>2, <3>1, GraphFacts
    <3> QED BY <2>1, <3>1, <3>2, <3>3, NeededFacts
  <2>4. found \subseteq RangeOf(sorted)
    <3>1. \A t \in found : t \in Scheduled /\ t \in Nodes /\ Kept(t)
      BY <2>1, <2>2, NeededFacts, GraphFacts DEF Scheduled, Kept
    <3>2. \A t \in Nodes : in[t] = {}
      BY <1>1 DEF Inv, OutcomeInv, EdgesLeft
    <3> QED BY <1>1, <2>1, <3>1, <3>2, EmptyRange DEF Inv, ProgressInv
  <2>5. RangeOf(sorted) = NeededTasks(decl)
    BY <1>1, <2>2, <2>3, <2>4 DEF Inv, ProgressInv
  <2>6. ASSUME NEW t \in Listed(decl),
               External \in decl.writes[t]
                 \/ \E u \in Listed(decl) : decl.writes[t] \cap decl.prev[u] # {}
        PROVE  t \in RangeOf(sorted)
    <3>1. t \in RootInEdges(decl)
      BY <2>6 DEF RootInEdges, PrevStepAttributes
    <3> QED BY <2>1, <2>5, <3>1, NeededFacts
  <2> QED BY <2>5, <2>6 DEF NeededTasksKept
<1> QED BY <1>1, Invariance, PTL

(***************************************************************************)
(* SchedulingException is thrown for cycles and for nothing else.          *)
(***************************************************************************)
THEOREM CycleCheck == Spec => []FailsOnlyOnCycle
<1>1. ASSUME Inv PROVE FailsOnlyOnCycle
  <2>1. ASSUME phase = "sorted" PROVE ~Cyclic
    <3>1. \A t \in Tasks : in[t] = {}
      BY <1>1, <2>1 DEF Inv, OutcomeInv, EdgesLeft, Nodes
    <3>2. ASSUME NEW S \in SUBSET Tasks, WaitingSet(S, inEdges), S # {} PROVE FALSE
      <4>1. WaitingSet(S, in)
        BY <1>1, <2>1, <3>2 DEF Inv, CycleInv
      <4> QED BY <3>1, <3>2, <4>1 DEF WaitingSet
    <3> QED BY <3>2 DEF Cyclic, WaitingSet
  <2>2. ASSUME phase = "failed" PROVE Cyclic
    <3> DEFINE S == {t \in Tasks : in[t] # {}}
    <3>1. decl \in Declarations /\ inEdges = InEdges(decl) /\ queue = <<>> /\ EdgesLeft
      BY <1>1, <2>2 DEF Inv, Typed, SearchInv, OutcomeInv
    <3>2. /\ \A t, u \in Nodes : u \in out[t] <=> t \in in[u]
          /\ \A u \in Nodes : in[u] \subseteq inEdges[u]
      BY <1>1, <2>2 DEF Inv, EdgeInv
    <3>3. \A u \in Nodes : in[u] \subseteq S
      <4> SUFFICES ASSUME NEW u \in Nodes, NEW t \in in[u] PROVE t \in S
        OBVIOUS
      <4>1. t \in Listed(decl) /\ t \in Tasks /\ t \in Nodes /\ t \in Scheduled
        BY <3>1, <3>2, GraphFacts DEF Scheduled
      <4>2. out[t] # {}
        BY <3>2, <4>1
      <4> QED BY <1>1, <2>2, <3>1, <4>1, <4>2, EmptyRange DEF Inv, ProgressInv
    <3>4. PICK t \in Nodes : in[t] # {}
      <4>1. PICK t \in Nodes : in[t] # {} \/ out[t] # {}
        BY <3>1 DEF EdgesLeft
      <4>2. out[t] \subseteq Nodes
        BY <1>1 DEF Inv, Typed
      <4> QED BY <3>2, <4>1, <4>2
    <3>5. S # {}
      BY <3>3, <3>4
    <3>6. \A u \in S : inEdges[u] \cap S # {}
      BY <3>2, <3>3 DEF Nodes
    <3> QED BY <3>5, <3>6 DEF Cyclic
  <2> QED BY <2>1, <2>2 DEF FailsOnlyOnCycle
<1> QED BY <1>1, Invariance, PTL
-----------------------------------------------------------------------------
(* The schedules of the threads: the invariants of ScheduleBuilder.        *)

\* The entries of the schedules s, and their tasks.
EntriesOf(s) == {e \in Threads \X Nat : e[2] \in 1..Len(s[e[1]])}
At(s, e) == s[e[1]][e[2]]
Earlier(e, f) == e[1] = f[1] /\ e[2] < f[2]
Dealt(s) == {At(s, e) : e \in EntriesOf(s)}
NoneTwice(s) == \A e, f \in EntriesOf(s) : At(s, e) = At(s, f) => e = f

BuilderTypes ==
  /\ kind \in Kinds
  /\ stage \in {"sort", "level", "fill", "deal", "done", "failed", "undefined"}
  /\ pos \in Nat /\ time \in [Tasks -> Nat]
  /\ levels \in Seq(Seq(Tasks)) /\ ready \subseteq Tasks
  /\ inLeft \in [Nodes -> SUBSET Nodes]
  /\ schedule \in [Threads -> Seq(Tasks)]

\* Which values hold at which stage.
StageInv ==
  /\ stage \in {"level", "fill", "deal", "done"} =>
       phase = "sorted" /\ (kind # "list" => sorted # <<>>)
  /\ stage \in {"level", "fill"} => kind # "list"
  /\ stage \in {"sort", "level", "fill"} => schedule = [th \in Threads |-> <<>>]
  /\ stage = "sort" => pos = 0 /\ time = [t \in Tasks |-> 0]
  /\ stage = "done" =>
       /\ IF kind = "list" THEN ready = {} ELSE levels = <<>>
       /\ required = [e \in Entries |-> RequiredBy(e)]

\* The first loop gives every task its level, and never one above its position.
LevelInv ==
  /\ stage = "level" =>
       /\ pos <= Len(sorted)
       /\ \A t \in Tasks : time[t] <= pos
       /\ \A i \in 1..pos : LevelAt(time, sorted[i])
  /\ stage \in {"fill", "deal", "done"} /\ kind # "list" =>
       \A i \in 1..Len(sorted) : LevelAt(time, sorted[i])

\* The second loop has put the first tasks into the vectors of their levels.
FilledInv ==
  stage = "fill" =>
    /\ pos < Len(sorted) /\ Len(levels) = NumLevels
    /\ \A k \in 1..Len(levels), t \in Tasks :
         t \in RangeOf(levels[k]) <=> time[t] = k - 1 /\ \E i \in 1..pos : t = sorted[i]
    /\ Injective(decl.list) => \A k \in 1..Len(levels) : Injective(levels[k])

\* The levels ls that are left follow on the ones dealt into s, in which no
\* thread goes back to a lower level.
LevelDeal(s, ls) ==
  /\ \A k \in 1..Len(ls) : \A t \in RangeOf(ls[k]) :
       t \in RangeOf(sorted) /\ time[t] + Len(ls) = NumLevels + k - 1
  /\ \A e \in EntriesOf(s) : At(s, e) \in RangeOf(sorted) /\ time[At(s, e)] + Len(ls) <= NumLevels
  /\ \A e, f \in EntriesOf(s) : Earlier(e, f) => time[At(s, e)] <= time[At(s, f)]
  /\ \A t \in RangeOf(sorted) : t \in Dealt(s) \/ \E k \in 1..Len(ls) : t \in RangeOf(ls[k])

\* If no task is declared twice, none is dealt twice.
LevelOnce(s, ls) ==
  /\ NoneTwice(s)
  /\ \A k \in 1..Len(ls) : Injective(ls[k]) /\ RangeOf(ls[k]) \cap Dealt(s) = {}

\* What waits for nothing but dealt tasks is ready in rd, or dealt, and some
\* order of the entries agrees with the edges and the threads.
ListDeal(s, rd) ==
  /\ rd \cup Dealt(s) \subseteq RangeOf(sorted) /\ rd \cap Dealt(s) = {}
  /\ \A u \in rd \cup Dealt(s) : inEdges[u] \subseteq Dealt(s)
  /\ \A u \in RangeOf(sorted) : inEdges[u] \subseteq Dealt(s) => u \in rd \cup Dealt(s)
  /\ NoneTwice(s)
  /\ \E n \in Nat : \E rank \in [EntriesOf(s) -> 0..n] :
       \A e, f \in EntriesOf(s) :
         At(s, e) \in inEdges[At(s, f)] \/ Earlier(e, f) => rank[e] < rank[f]

DealInv ==
  stage \in {"deal", "done"} =>
    IF kind = "list"
    THEN /\ ListDeal(schedule, ready)
         /\ inLeft = [u \in Nodes |-> inEdges[u] \ Dealt(schedule)]
    ELSE /\ LevelDeal(schedule, levels)
         /\ Injective(decl.list) => LevelOnce(schedule, levels)

BuilderInv == Inv /\ LineInv /\ BuilderTypes /\ StageInv /\ LevelInv /\ FilledInv /\ DealInv

-----------------------------------------------------------------------------
(* Numbers.                                                                *)

LEMMA SmallestOf ==
  ASSUME NEW S \in SUBSET Nat, S # {}
  PROVE  \E x \in S : \A y \in S : x <= y
<1> DEFINE R == {ss \in Nat \X Nat : ss[1] < ss[2]}
<1>1. IsWellFoundedOn(R, Nat)
  BY NatLessThanWellFounded, Zenon DEF OpToRel
<1> HIDE DEF R
<1>2. PICK x \in S : \A y \in S : ~(<<y, x>> \in R)
  BY <1>1, WFMin
<1>3. \A y \in S : <<y, x>> \in R <=> y < x
  BY DEF R
<1>4. \A y \in S : y \in Nat /\ x \in Nat
  OBVIOUS
<1>5. \A y \in S : ~(y < x)
  BY <1>2, <1>3
<1>6. \A y \in S : x <= y
  BY <1>4, <1>5
<1> QED BY <1>6

LEMMA LargestOf ==
  ASSUME NEW b \in Nat, NEW S \in SUBSET (0..b), S # {}
  PROVE  \E x \in S : \A y \in S : y <= x
<1> DEFINE T == {n \in Nat : \E x \in S : n = b - x}
<1>1. T \in SUBSET Nat /\ T # {}
  <2>1. PICK x \in S : TRUE
    OBVIOUS
  <2>2. b - x \in T
    BY <2>1
  <2> QED BY <2>2
<1> HIDE DEF T
<1>2. PICK n \in T : \A m \in T : n <= m
  BY <1>1, SmallestOf
<1>3. PICK x \in S : n = b - x
  BY DEF T
<1>4. \A y \in S : b - y \in T
  BY DEF T
<1>5. \A y \in S : b - x <= b - y /\ y \in Int /\ x \in Int
  BY <1>2, <1>3, <1>4
<1>6. \A y \in S : y <= x
  BY <1>5
<1> QED BY <1>6

LEMMA MaxOfFacts ==
  ASSUME NEW b \in Nat, NEW S \in SUBSET (0..b), S # {}
  PROVE  MaxOf(S) \in S /\ \A y \in S : y <= MaxOf(S)
BY LargestOf DEF MaxOf

LEMMA Division ==
  ASSUME NEW n \in Nat \ {0}, NEW x \in Nat
  PROVE  x \div n \in Nat /\ n * (x \div n) <= x /\ x < n * (x \div n) + n
OBVIOUS

LEMMA DivisionMonotone ==
  ASSUME NEW n \in Nat \ {0}, NEW x \in Nat, NEW y \in Nat, x <= y
  PROVE  x \div n <= y \div n
BY Division, SMT

\* Where the share of thread th starts in a level of n tasks.
Start(n, th) == (n * th) \div NumThreads

LEMMA Starts ==
  ASSUME NEW n \in Nat
  PROVE  /\ Start(n, 0) = 0 /\ Start(n, NumThreads) = n
         /\ \A a \in Nat : Start(n, a) \in Nat
         /\ \A a, b \in Nat : a <= b => Start(n, a) <= Start(n, b)
<1>1. NumThreads \in Nat \ {0}
  BY BuilderAssumption
<1>2. (n * NumThreads) \div NumThreads = n /\ (n * 0) \div NumThreads = 0
  BY <1>1
<1>3. \A a \in Nat : n * a \in Nat
  OBVIOUS
<1>4. \A a, b \in Nat : a <= b => n * a <= n * b
  OBVIOUS
<1>5. \A a \in Nat : Start(n, a) \in Nat
  BY <1>1, <1>3, Division DEF Start
<1>6. \A a, b \in Nat : a <= b => Start(n, a) <= Start(n, b)
  BY <1>1, <1>3, <1>4, DivisionMonotone DEF Start
<1> QED BY <1>2, <1>5, <1>6 DEF Start

\* Every position of a level is in the share of one thread.
LEMMA ShareOfPosition ==
  ASSUME NEW n \in Nat, NEW i \in 1..n
  PROVE  /\ \E th \in Threads : Start(n, th) < i /\ i <= Start(n, th + 1)
         /\ \A th, ch \in Threads :
              /\ Start(n, th) < i /\ i <= Start(n, th + 1)
              /\ Start(n, ch) < i /\ i <= Start(n, ch + 1)
              => th = ch
<1>1. NumThreads \in Nat \ {0} /\ \A th \in Threads : th \in Nat /\ th + 1 \in Nat
  BY BuilderAssumption DEF Threads
<1>2. \E th \in Threads : Start(n, th) < i /\ i <= Start(n, th + 1)
  <2> DEFINE S == {a \in Nat : i <= Start(n, a)}
  <2>1. NumThreads \in S
    BY <1>1, Starts
  <2>2. PICK a \in S : \A b \in S : a <= b
    <3>1. S \in SUBSET Nat /\ S # {}
      BY <2>1
    <3> HIDE DEF S
    <3> QED BY <3>1, SmallestOf
  <2>3. a \in Nat /\ a # 0 /\ a <= NumThreads
    BY <2>1, <2>2, Starts
  <2>4. a - 1 \in Nat /\ a - 1 \in Threads /\ (a - 1) + 1 = a /\ ~(a <= a - 1)
    BY <1>1, <2>3 DEF Threads
  <2>5. ~(i <= Start(n, a - 1))
    BY <2>2, <2>4
  <2>6. Start(n, a - 1) < i
    BY <2>4, <2>5, Starts
  <2>7. i <= Start(n, a)
    OBVIOUS
  <2> QED BY <2>4, <2>6, <2>7
<1>3. ASSUME NEW th \in Threads, NEW ch \in Threads,
             Start(n, th) < i, i <= Start(n, th + 1),
             Start(n, ch) < i, i <= Start(n, ch + 1)
      PROVE  ~(th < ch)
  <2> SUFFICES ASSUME th < ch PROVE FALSE
    OBVIOUS
  <2>1. th + 1 <= ch
    BY <1>1
  <2>2. /\ Start(n, th + 1) <= Start(n, ch)
        /\ Start(n, th + 1) \in Nat /\ Start(n, ch) \in Nat
    BY <1>1, <2>1, Starts
  <2> QED BY <1>3, <2>2
<1>4. ASSUME NEW th \in Threads, NEW ch \in Threads,
             Start(n, th) < i, i <= Start(n, th + 1),
             Start(n, ch) < i, i <= Start(n, ch + 1)
      PROVE  th = ch
  <2>1. ~(th < ch) /\ ~(ch < th)
    BY <1>3, <1>4
  <2> QED BY <1>1, <2>1
<1> QED BY <1>2, <1>4

\* A thread's share is the part of the level from its start to the next one.
LEMMA ShareFacts ==
  ASSUME NEW level \in Seq(Tasks), NEW th \in Threads
  PROVE  LET n == Len(level) share == Share(level, th) IN
         /\ share \in Seq(Tasks) /\ Len(share) = Start(n, th + 1) - Start(n, th)
         /\ \A j \in 1..Len(share) : /\ Start(n, th) + j \in 1..n
                                     /\ share[j] = level[Start(n, th) + j]
<1> DEFINE n == Len(level) a == Start(n, th) b == Start(n, th + 1)
<1>1. /\ n \in Nat /\ a \in Nat /\ b \in Nat /\ a <= b /\ b <= n
  <2>1. th \in Nat /\ th + 1 \in Nat /\ th <= th + 1 /\ th + 1 <= NumThreads /\ NumThreads \in Nat
    BY BuilderAssumption DEF Threads
  <2>2. n \in Nat
    OBVIOUS
  <2> HIDE DEF n
  <2>3. Start(n, th) \in Nat /\ Start(n, th + 1) \in Nat /\ Start(n, th) <= Start(n, th + 1)
    BY <2>1, <2>2, Starts
  <2>4. Start(n, th + 1) <= Start(n, NumThreads) /\ Start(n, NumThreads) = n
    BY <2>1, <2>2, Starts
  <2> QED BY <2>2, <2>3, <2>4
<1>2. Share(level, th) = SubSeq(level, a + 1, b)
  BY DEF Share, Start
<1> HIDE DEF a, b
<1>3. /\ SubSeq(level, a + 1, b) \in Seq(Tasks) /\ Len(SubSeq(level, a + 1, b)) = b - a
      /\ \A j \in 1..(b - a) : SubSeq(level, a + 1, b)[j] = level[a + j]
  <2>1. PICK c : c = SubSeq(level, a + 1, b)
    OBVIOUS
  <2>2. c = [j \in 1..(b - a) |-> level[a + j]]
    BY <1>1, <2>1
  <2>3. \A j \in 1..(b - a) : a + j \in 1..n
    BY <1>1
  <2>4. \A j \in 1..(b - a) : level[a + j] \in Tasks
    BY <2>3
  <2>5. b - a \in Nat
    BY <1>1
  <2>6. c \in [1..(b - a) -> Tasks]
    BY <2>2, <2>4
  <2>7. c \in Seq(Tasks) /\ Len(c) = b - a
    BY <2>5, <2>6
  <2> QED BY <2>1, <2>2, <2>7
<1>4. \A j \in 1..(b - a) : a + j \in 1..n
  BY <1>1
<1> QED BY <1>2, <1>3, <1>4 DEF a, b

\* Sorting a level by task type changes the order of its tasks only.
LEMMA OrderedFacts ==
  ASSUME NEW level \in Seq(Tasks), NEW c \in Ordered(level)
  PROVE  /\ c \in Seq(Tasks) /\ Len(c) = Len(level) /\ RangeOf(c) = RangeOf(level)
         /\ Injective(level) => Injective(c)
<1> DEFINE n == Len(level)
<1>1. n \in Nat /\ level \in [1..n -> Tasks]
  OBVIOUS
<1> HIDE DEF n
<1>2. IsFiniteSet(1..n) /\ Cardinality(1..n) = n
  BY <1>1, FS_Interval
<1>3. PICK p \in Orderings(1..n) : c = [i \in 1..n |-> level[p[i]]]
  BY DEF Ordered, n
<1>4. p \in [1..n -> 1..n] /\ {p[i] : i \in 1..n} = 1..n
  BY <1>2, <1>3 DEF Orderings
<1>5. p \in Surjection(1..n, 1..n)
  BY <1>4 DEF Surjection
<1>6. p \in Injection(1..n, 1..n)
  BY <1>2, <1>5, FS_SurjSameCardinalityImpliesInj
<1>7. \A i, j \in 1..n : p[i] = p[j] => i = j
  BY <1>6 DEF Injection, IsInjective
<1>8. c \in [1..n -> Tasks]
  BY <1>1, <1>3, <1>4
<1>9. c \in Seq(Tasks) /\ Len(c) = n
  BY <1>1, <1>8
<1>10. RangeOf(c) = RangeOf(level)
  <2>1. \A i \in 1..n : p[i] \in 1..n /\ c[i] = level[p[i]]
    BY <1>3, <1>4
  <2>2. \A k \in 1..n : \E i \in 1..n : p[i] = k
    BY <1>4
  <2>3. RangeOf(c) = {c[i] : i \in 1..n} /\ RangeOf(level) = {level[i] : i \in 1..n}
    BY <1>9 DEF RangeOf, n
  <2>4. \A i \in 1..n : c[i] \in {level[k] : k \in 1..n}
    BY <2>1
  <2>5. ASSUME NEW k \in 1..n PROVE level[k] \in {c[i] : i \in 1..n}
    <3>1. PICK i \in 1..n : p[i] = k
      BY <2>2
    <3>2. c[i] = level[k]
      BY <2>1, <3>1
    <3> QED BY <3>2
  <2> QED BY <2>3, <2>4, <2>5
<1>11. ASSUME Injective(level) PROVE Injective(c)
  <2>1. \A i, j \in 1..n : level[p[i]] = level[p[j]] => p[i] = p[j]
    BY <1>4, <1>11 DEF Injective, n
  <2>2. \A i \in 1..n : c[i] = level[p[i]]
    BY <1>3
  <2>3. \A i, j \in 1..n : c[i] = c[j] => i = j
    BY <1>7, <2>1, <2>2
  <2> QED BY <1>9, <2>3 DEF Injective
<1> QED BY <1>9, <1>10, <1>11 DEF n

-----------------------------------------------------------------------------
(* What dealing tasks does to the schedules.                               *)

\* Every thread is given some more tasks.
Plus(s, add) == [th \in Threads |-> s[th] \o add[th]]

LEMMA Given ==
  ASSUME NEW s \in [Threads -> Seq(Tasks)], NEW add \in [Threads -> Seq(Tasks)],
         NEW r, r = Plus(s, add)
  PROVE  /\ r \in [Threads -> Seq(Tasks)]
         /\ EntriesOf(s) \subseteq EntriesOf(r)
         /\ \A e \in EntriesOf(s) : At(r, e) = At(s, e)
         /\ \A e \in EntriesOf(r) \ EntriesOf(s) :
              /\ e[1] \in Threads /\ e[2] > Len(s[e[1]])
              /\ e[2] - Len(s[e[1]]) \in 1..Len(add[e[1]])
              /\ At(r, e) = add[e[1]][e[2] - Len(s[e[1]])]
         /\ \A th \in Threads : \A j \in 1..Len(add[th]) :
              /\ <<th, Len(s[th]) + j>> \in EntriesOf(r) \ EntriesOf(s)
              /\ At(r, <<th, Len(s[th]) + j>>) = add[th][j]
         /\ \A e \in EntriesOf(r), f \in EntriesOf(s) : Earlier(e, f) => e \in EntriesOf(s)
<1>1. \A th \in Threads :
        /\ s[th] \in Seq(Tasks) /\ add[th] \in Seq(Tasks)
        /\ r[th] \in Seq(Tasks) /\ Len(r[th]) = Len(s[th]) + Len(add[th])
        /\ Len(s[th]) \in Nat /\ Len(add[th]) \in Nat
        /\ \A i \in 1..Len(s[th]) : r[th][i] = s[th][i]
        /\ \A j \in 1..Len(add[th]) : r[th][Len(s[th]) + j] = add[th][j]
  <2> TAKE th \in Threads
  <2>1. r[th] = s[th] \o add[th] /\ s[th] \in Seq(Tasks) /\ add[th] \in Seq(Tasks)
    BY DEF Plus
  <2> QED BY <2>1, RangeOfConcat
<1>2. r \in [Threads -> Seq(Tasks)]
  BY <1>1 DEF Plus
<1>3. \A e \in EntriesOf(s) : e[1] \in Threads /\ e[2] \in 1..Len(s[e[1]]) /\ e \in Threads \X Nat
  BY DEF EntriesOf
<1>4. \A e \in EntriesOf(r) : e[1] \in Threads /\ e[2] \in 1..Len(r[e[1]]) /\ e \in Threads \X Nat
  BY DEF EntriesOf
<1>5. \A e \in Threads \X Nat : e[2] \in 1..Len(s[e[1]]) => e \in EntriesOf(s)
  BY DEF EntriesOf
<1>6. \A e \in Threads \X Nat : e[2] \in 1..Len(r[e[1]]) => e \in EntriesOf(r)
  BY DEF EntriesOf
<1>7. EntriesOf(s) \subseteq EntriesOf(r)
  <2>1. ASSUME NEW e \in EntriesOf(s) PROVE e \in EntriesOf(r)
    <3>1. e[1] \in Threads /\ e[2] \in 1..Len(s[e[1]]) /\ e \in Threads \X Nat
      BY <1>3
    <3>2. e[2] \in 1..Len(r[e[1]])
      BY <1>1, <3>1
    <3> QED BY <1>6, <3>1, <3>2
  <2> QED BY <2>1
<1>8. \A e \in EntriesOf(s) : At(r, e) = At(s, e)
  BY <1>1, <1>3 DEF At
<1>9. \A e \in EntriesOf(r) \ EntriesOf(s) :
        /\ e[1] \in Threads /\ e[2] > Len(s[e[1]])
        /\ e[2] - Len(s[e[1]]) \in 1..Len(add[e[1]])
        /\ At(r, e) = add[e[1]][e[2] - Len(s[e[1]])]
  <2> TAKE e \in EntriesOf(r) \ EntriesOf(s)
  <2>1. e[1] \in Threads /\ e[2] \in 1..Len(r[e[1]]) /\ ~(e[2] \in 1..Len(s[e[1]])) /\ e[2] \in Nat
    BY <1>4, <1>5
  <2>2. e[2] > Len(s[e[1]]) /\ e[2] - Len(s[e[1]]) \in 1..Len(add[e[1]])
    BY <1>1, <2>1
  <2>3. Len(s[e[1]]) + (e[2] - Len(s[e[1]])) = e[2]
    BY <1>1, <2>1
  <2> QED BY <1>1, <2>1, <2>2, <2>3 DEF At
<1>10. \A th \in Threads : \A j \in 1..Len(add[th]) :
         /\ <<th, Len(s[th]) + j>> \in EntriesOf(r) \ EntriesOf(s)
         /\ At(r, <<th, Len(s[th]) + j>>) = add[th][j]
  <2> TAKE th \in Threads
  <2> TAKE j \in 1..Len(add[th])
  <2>1. Len(s[th]) + j \in Nat /\ Len(s[th]) + j \in 1..Len(r[th]) /\ ~(Len(s[th]) + j \in 1..Len(s[th]))
    BY <1>1
  <2>2. PICK e : e = <<th, Len(s[th]) + j>>
    OBVIOUS
  <2>3. e \in Threads \X Nat /\ e[1] = th /\ e[2] = Len(s[th]) + j
    BY <2>1, <2>2
  <2>4. e \in EntriesOf(r) /\ ~(e \in EntriesOf(s))
    BY <1>3, <1>6, <2>1, <2>3
  <2>5. At(r, e) = add[th][j]
    BY <1>1, <2>3 DEF At
  <2> QED BY <2>2, <2>4, <2>5
<1>11. \A e \in EntriesOf(r), f \in EntriesOf(s) : Earlier(e, f) => e \in EntriesOf(s)
  <2> SUFFICES ASSUME NEW e \in EntriesOf(r), NEW f \in EntriesOf(s), Earlier(e, f)
               PROVE  e \in EntriesOf(s)
    OBVIOUS
  <2>1. e[1] = f[1] /\ e[2] < f[2] /\ f[2] \in 1..Len(s[f[1]]) /\ e[2] \in 1..Len(r[e[1]])
    BY <1>3, <1>4 DEF Earlier
  <2>2. e[2] \in 1..Len(s[e[1]])
    BY <1>1, <1>3, <2>1
  <2> QED BY <1>4, <1>5, <2>2
<1> QED BY <1>2, <1>7, <1>8, <1>9, <1>10, <1>11

\* The schedules r go on where the schedules s end.
Grown(s, r) ==
  /\ EntriesOf(s) \subseteq EntriesOf(r)
  /\ \A e \in EntriesOf(s) : At(r, e) = At(s, e)
  /\ \A e \in EntriesOf(r), f \in EntriesOf(s) : Earlier(e, f) => e \in EntriesOf(s)

NewIn(s, r) == EntriesOf(r) \ EntriesOf(s)
NewTasks(s, r) == {At(r, e) : e \in NewIn(s, r)}

LEMMA DealtGrows ==
  ASSUME NEW s, NEW r, Grown(s, r)
  PROVE  Dealt(r) = Dealt(s) \cup NewTasks(s, r)
<1>1. \A e \in EntriesOf(r) : e \in EntriesOf(s) \/ e \in NewIn(s, r)
  BY DEF NewIn
<1>2. \A e \in EntriesOf(s) : e \in EntriesOf(r) /\ At(r, e) = At(s, e)
  BY DEF Grown
<1>3. \A e \in NewIn(s, r) : e \in EntriesOf(r)
  BY DEF NewIn
<1>4. Dealt(r) \subseteq Dealt(s) \cup NewTasks(s, r)
  BY <1>1, <1>2 DEF Dealt, NewTasks
<1>5. Dealt(s) \subseteq Dealt(r) /\ NewTasks(s, r) \subseteq Dealt(r)
  BY <1>2, <1>3 DEF Dealt, NewTasks
<1> QED BY <1>4, <1>5

LEMMA NoneTwiceGrows ==
  ASSUME NEW s, NEW r, Grown(s, r), NoneTwice(s), NewTasks(s, r) \cap Dealt(s) = {},
         \A e, f \in NewIn(s, r) : At(r, e) = At(r, f) => e = f
  PROVE  NoneTwice(r)
<1>1. \A e \in EntriesOf(r) : e \in EntriesOf(s) \/ e \in NewIn(s, r)
  BY DEF NewIn
<1>2. \A e \in EntriesOf(s) : At(r, e) = At(s, e) /\ At(r, e) \in Dealt(s)
  BY DEF Grown, Dealt
<1>3. \A e \in NewIn(s, r) : At(r, e) \in NewTasks(s, r)
  BY DEF NewTasks
<1> SUFFICES ASSUME NEW e \in EntriesOf(r), NEW f \in EntriesOf(r), At(r, e) = At(r, f)
             PROVE  e = f
  BY DEF NoneTwice
<1>4. CASE e \in EntriesOf(s) /\ f \in EntriesOf(s)
  BY <1>2, <1>4 DEF NoneTwice
<1>5. CASE e \in NewIn(s, r) /\ f \in NewIn(s, r)
  BY <1>5
<1>6. CASE e \in EntriesOf(s) /\ f \in NewIn(s, r)
  BY <1>2, <1>3, <1>6
<1>7. CASE e \in NewIn(s, r) /\ f \in EntriesOf(s)
  BY <1>2, <1>3, <1>7
<1> QED BY <1>1, <1>4, <1>5, <1>6, <1>7

\* One thread is given one task.
GivenTo(s, th, t) == [s EXCEPT ![th] = Append(@, t)]

LEMMA OneGiven ==
  ASSUME NEW s \in [Threads -> Seq(Tasks)], NEW th \in Threads, NEW t \in Tasks,
         NEW r, r = GivenTo(s, th, t)
  PROVE  /\ r \in [Threads -> Seq(Tasks)] /\ Grown(s, r)
         /\ \E e : NewIn(s, r) = {e} /\ At(r, e) = t /\ \A f \in EntriesOf(r) : ~Earlier(e, f)
<1> DEFINE add == [h \in Threads |-> IF h = th THEN <<t>> ELSE <<>>]
           last == <<th, Len(s[th]) + 1>>
<1>1. add \in [Threads -> Seq(Tasks)]
  OBVIOUS
<1>2. add[th] = <<t>> /\ \A h \in Threads : h # th => add[h] = <<>>
  OBVIOUS
<1>3. \A h \in Threads : s[h] \in Seq(Tasks) /\ Len(s[h]) \in Nat
  OBVIOUS
<1>4. r = Plus(s, add)
  <2>1. s[th] \o <<t>> = Append(s[th], t) /\ \A h \in Threads : s[h] \o <<>> = s[h]
    BY <1>3
  <2> QED BY <1>2, <2>1 DEF Plus, GivenTo
<1> HIDE DEF add
<1>5. /\ r \in [Threads -> Seq(Tasks)] /\ EntriesOf(s) \subseteq EntriesOf(r)
      /\ \A e \in EntriesOf(s) : At(r, e) = At(s, e)
      /\ \A e \in EntriesOf(r), f \in EntriesOf(s) : Earlier(e, f) => e \in EntriesOf(s)
      /\ \A e \in EntriesOf(r) \ EntriesOf(s) :
              /\ e[1] \in Threads /\ e[2] > Len(s[e[1]])
              /\ e[2] - Len(s[e[1]]) \in 1..Len(add[e[1]])
              /\ At(r, e) = add[e[1]][e[2] - Len(s[e[1]])]
      /\ \A h \in Threads : \A j \in 1..Len(add[h]) :
              /\ <<h, Len(s[h]) + j>> \in EntriesOf(r) \ EntriesOf(s)
              /\ At(r, <<h, Len(s[h]) + j>>) = add[h][j]
  BY <1>1, <1>4, Given
<1>6. Grown(s, r)
  BY <1>5 DEF Grown
<1>7. \A e \in NewIn(s, r) : e = last
  <2> TAKE e \in NewIn(s, r)
  <2>1. e[1] \in Threads /\ e[2] - Len(s[e[1]]) \in 1..Len(add[e[1]]) /\ e \in Threads \X Nat
    BY <1>5 DEF NewIn, EntriesOf
  <2>2. e[1] = th
    BY <1>2, <2>1
  <2>3. e[2] - Len(s[th]) = 1 /\ e[2] \in Nat
    <3>1. Len(add[th]) = 1
      BY <1>2
    <3>2. e[2] \in Nat /\ e[2] - Len(s[th]) \in 1..1
      BY <2>1, <2>2, <3>1
    <3> QED BY <1>3, <3>2
  <2>4. e[2] = Len(s[th]) + 1
    BY <1>3, <2>3
  <2> QED BY <2>1, <2>2, <2>4
<1>8. last \in NewIn(s, r) /\ At(r, last) = t
  <2>1. 1 \in 1..Len(add[th]) /\ add[th][1] = t
    BY <1>2
  <2> QED BY <1>5, <2>1 DEF NewIn
<1>9. NewIn(s, r) = {last}
  BY <1>7, <1>8
<1>10. \A f \in EntriesOf(r) : ~Earlier(last, f)
  <2> SUFFICES ASSUME NEW f \in EntriesOf(r), Earlier(last, f) PROVE FALSE
    OBVIOUS
  <2>1. f \in EntriesOf(s) \/ f = last
    BY <1>7 DEF NewIn
  <2>2. ~(f = last)
    <3>1. last[2] = Len(s[th]) + 1 /\ Len(s[th]) \in Nat
      BY <1>3
    <3> QED BY <3>1 DEF Earlier
  <2>3. last \in EntriesOf(s)
    BY <1>5, <1>8, <2>1, <2>2 DEF NewIn
  <2> QED BY <1>8, <2>3 DEF NewIn
<1> QED BY <1>5, <1>6, <1>8, <1>9, <1>10

\* Of the first level that is left, some tasks are dealt and l remains.
FirstLeft(ls, l) == [ls EXCEPT ![1] = l]

LEMMA LevelGiven ==
  ASSUME time \in [Tasks -> Nat], NumLevels \in Nat,
         NEW s \in [Threads -> Seq(Tasks)], NEW r \in [Threads -> Seq(Tasks)], Grown(s, r),
         NEW ls \in Seq(Seq(Tasks)), ls # <<>>, NEW l \in Seq(Tasks),
         NEW ls2, ls2 = FirstLeft(ls, l), LevelDeal(s, ls),
         RangeOf(ls[1]) = NewTasks(s, r) \cup RangeOf(l)
  PROVE  /\ ls2 \in Seq(Seq(Tasks)) /\ ls2 # <<>> /\ Tail(ls2) = Tail(ls) /\ Head(ls2) = l
         /\ LevelDeal(r, ls2)
         /\ LevelOnce(s, ls) /\ Injective(l) /\ NewTasks(s, r) \cap RangeOf(l) = {}
              /\ (\A e, f \in NewIn(s, r) : At(r, e) = At(r, f) => e = f)
            => LevelOnce(r, ls2)
<1> DEFINE m == Len(ls)
<1>1. PICK q : q = ls2
  OBVIOUS
<1>2. /\ m \in Nat /\ m >= 1 /\ Len(q) = m /\ q \in Seq(Seq(Tasks)) /\ q # <<>>
      /\ q[1] = l /\ \A k \in 1..m : k # 1 => q[k] = ls[k]
      /\ Tail(q) = Tail(ls) /\ Head(q) = l
  BY <1>1 DEF FirstLeft
<1> HIDE DEF m
<1>3. /\ \A k \in 1..m : RangeOf(q[k]) \subseteq RangeOf(ls[k])
      /\ \A k \in 1..m : k # 1 => RangeOf(q[k]) = RangeOf(ls[k])
  <2> SUFFICES ASSUME NEW k \in 1..m
               PROVE  /\ RangeOf(q[k]) \subseteq RangeOf(ls[k])
                      /\ k # 1 => RangeOf(q[k]) = RangeOf(ls[k])
    OBVIOUS
  <2>1. CASE k = 1
    BY <1>2, <2>1
  <2>2. CASE k # 1
    BY <1>2, <2>2
  <2> QED BY <2>1, <2>2
<1>4. NewTasks(s, r) \subseteq RangeOf(ls[1]) /\ 1 \in 1..m
  BY <1>2
<1>5. /\ \A k \in 1..m : \A t \in RangeOf(ls[k]) :
           t \in RangeOf(sorted) /\ time[t] + m = NumLevels + k - 1
      /\ \A e \in EntriesOf(s) : At(s, e) \in RangeOf(sorted) /\ time[At(s, e)] + m <= NumLevels
      /\ \A e, f \in EntriesOf(s) : Earlier(e, f) => time[At(s, e)] <= time[At(s, f)]
      /\ \A t \in RangeOf(sorted) : t \in Dealt(s) \/ \E k \in 1..m : t \in RangeOf(ls[k])
  BY DEF LevelDeal, m
<1>6. \A t \in NewTasks(s, r) : t \in RangeOf(sorted) /\ time[t] + m = NumLevels + 1 - 1
  BY <1>4, <1>5
<1>7. \A e \in EntriesOf(r) :
        \/ e \in EntriesOf(s) /\ At(r, e) = At(s, e)
        \/ e \in NewIn(s, r) /\ At(r, e) \in NewTasks(s, r)
  BY DEF NewIn, NewTasks, Grown
<1>8. \A e \in EntriesOf(r) : At(r, e) \in Tasks
  BY DEF EntriesOf, At
<1>9. \A e \in EntriesOf(r) : time[At(r, e)] \in Nat
  BY <1>8
<1>10. \A e \in EntriesOf(r) : At(r, e) \in RangeOf(sorted) /\ time[At(r, e)] + m <= NumLevels
  <2> TAKE e \in EntriesOf(r)
  <2>1. CASE e \in EntriesOf(s) /\ At(r, e) = At(s, e)
    BY <1>5, <2>1
  <2>2. CASE e \in NewIn(s, r) /\ At(r, e) \in NewTasks(s, r)
    <3>1. At(r, e) \in RangeOf(sorted) /\ time[At(r, e)] + m = NumLevels + 1 - 1
      BY <1>6, <2>2
    <3> QED BY <1>2, <1>9, <3>1
  <2> QED BY <1>7, <2>1, <2>2
<1>11. \A e, f \in EntriesOf(r) : Earlier(e, f) => time[At(r, e)] <= time[At(r, f)]
  <2> SUFFICES ASSUME NEW e \in EntriesOf(r), NEW f \in EntriesOf(r), Earlier(e, f)
               PROVE  time[At(r, e)] <= time[At(r, f)]
    OBVIOUS
  <2>1. CASE f \in EntriesOf(s)
    <3>1. e \in EntriesOf(s)
      BY <2>1 DEF Grown
    <3>2. At(r, e) = At(s, e) /\ At(r, f) = At(s, f)
      BY <2>1, <3>1 DEF Grown
    <3> QED BY <1>5, <2>1, <3>1, <3>2
  <2>2. CASE f \in NewIn(s, r) /\ At(r, f) \in NewTasks(s, r)
    <3>1. time[At(r, f)] + m = NumLevels + 1 - 1
      BY <1>6, <2>2
    <3>2. time[At(r, e)] + m <= NumLevels
      BY <1>10
    <3>3. time[At(r, f)] \in Nat /\ time[At(r, e)] \in Nat
      BY <1>9
    <3> QED BY <1>2, <3>1, <3>2, <3>3
  <2> QED BY <1>7, <2>1, <2>2
<1>12. Dealt(r) = Dealt(s) \cup NewTasks(s, r)
  BY DealtGrows
<1>13. \A t \in RangeOf(sorted) : t \in Dealt(r) \/ \E k \in 1..m : t \in RangeOf(q[k])
  <2> SUFFICES ASSUME NEW t \in RangeOf(sorted), t \notin Dealt(r)
               PROVE  \E k \in 1..m : t \in RangeOf(q[k])
    OBVIOUS
  <2>1. PICK k \in 1..m : t \in RangeOf(ls[k])
    BY <1>5, <1>12
  <2>2. CASE k = 1
    BY <1>2, <1>4, <1>12, <2>1, <2>2
  <2>3. CASE k # 1
    BY <1>3, <2>1, <2>3
  <2> QED BY <2>2, <2>3
<1>14. LevelDeal(r, q)
  BY <1>2, <1>3, <1>5, <1>10, <1>11, <1>13 DEF LevelDeal
<1>15. ASSUME LevelOnce(s, ls), Injective(l), NewTasks(s, r) \cap RangeOf(l) = {},
              \A e, f \in NewIn(s, r) : At(r, e) = At(r, f) => e = f
       PROVE  LevelOnce(r, q)
  <2>1. /\ NoneTwice(s)
        /\ \A k \in 1..m : Injective(ls[k]) /\ RangeOf(ls[k]) \cap Dealt(s) = {}
    BY <1>15 DEF LevelOnce, m
  <2>2. NoneTwice(r)
    <3>1. NewTasks(s, r) \cap Dealt(s) = {}
      BY <1>4, <2>1
    <3> QED BY <1>15, <2>1, <3>1, NoneTwiceGrows
  <2>3. ASSUME NEW k \in 1..m PROVE Injective(q[k]) /\ RangeOf(q[k]) \cap Dealt(r) = {}
    <3>1. CASE k = 1
      BY <1>2, <1>3, <1>12, <1>15, <2>1, <3>1
    <3>2. CASE k # 1
      <4>1. q[k] = ls[k]
        BY <1>2, <3>2
      <4>2. ASSUME NEW t \in RangeOf(ls[k]), t \in NewTasks(s, r) PROVE FALSE
        <5>1. time[t] + m = NumLevels + k - 1 /\ time[t] + m = NumLevels + 1 - 1
          BY <1>5, <1>6, <4>2
        <5> QED BY <1>2, <3>2, <5>1
      <4> QED BY <1>12, <2>1, <4>1, <4>2
    <3> QED BY <3>1, <3>2
  <2> QED BY <1>2, <2>2, <2>3 DEF LevelOnce
<1> QED BY <1>1, <1>2, <1>14, <1>15

\* Nothing is left of the first level.
LEMMA LevelDropped ==
  ASSUME time \in [Tasks -> Nat], NumLevels \in Nat,
         NEW s \in [Threads -> Seq(Tasks)], NEW ls \in Seq(Seq(Tasks)), ls # <<>>, Head(ls) = <<>>,
         LevelDeal(s, ls)
  PROVE  /\ Tail(ls) \in Seq(Seq(Tasks)) /\ LevelDeal(s, Tail(ls))
         /\ LevelOnce(s, ls) => LevelOnce(s, Tail(ls))
<1>1. PICK q : q = Tail(ls)
  OBVIOUS
<1>2. PICK m \in Nat : m = Len(ls)
  OBVIOUS
<1>3. /\ m >= 1 /\ q \in Seq(Seq(Tasks)) /\ Len(q) = m - 1 /\ ls[1] = <<>>
      /\ \A k \in 1..Len(q) : k + 1 \in 1..m /\ q[k] = ls[k + 1]
  BY <1>1, <1>2
<1>4. /\ \A k \in 1..m : \A t \in RangeOf(ls[k]) :
           t \in RangeOf(sorted) /\ time[t] + m = NumLevels + k - 1
      /\ \A e \in EntriesOf(s) : At(s, e) \in RangeOf(sorted) /\ time[At(s, e)] + m <= NumLevels
      /\ \A e, f \in EntriesOf(s) : Earlier(e, f) => time[At(s, e)] <= time[At(s, f)]
      /\ \A t \in RangeOf(sorted) : t \in Dealt(s) \/ \E k \in 1..m : t \in RangeOf(ls[k])
  BY <1>2 DEF LevelDeal
<1>5. ASSUME NEW k \in 1..Len(q), NEW t \in RangeOf(q[k])
      PROVE  t \in RangeOf(sorted) /\ time[t] + Len(q) = NumLevels + k - 1
  <2>1. t \in RangeOf(ls[k + 1]) /\ k + 1 \in 1..m
    BY <1>3
  <2>2. q[k] \in Seq(Tasks)
    BY <1>3
  <2>3. t \in Tasks
    BY <2>2 DEF RangeOf
  <2>4. t \in RangeOf(sorted) /\ time[t] + m = NumLevels + (k + 1) - 1 /\ time[t] \in Nat
    BY <1>4, <2>1, <2>3
  <2>5. k \in Nat /\ Len(q) = m - 1
    BY <1>3
  <2>6. time[t] + Len(q) = NumLevels + k - 1
    <3>1. PICK x \in Nat, y \in Nat : x = time[t] /\ y = NumLevels
      BY <2>4
    <3>2. x + m = y + (k + 1) - 1
      BY <2>4, <3>1
    <3>3. x + (m - 1) = y + k - 1
      BY <2>5, <3>2
    <3> QED BY <2>5, <3>1, <3>3
  <2> QED BY <2>4, <2>6
<1>6. \A e \in EntriesOf(s) : time[At(s, e)] + Len(q) <= NumLevels
  <2> TAKE e \in EntriesOf(s)
  <2>1. At(s, e) \in Tasks
    BY DEF EntriesOf, At
  <2>2. time[At(s, e)] \in Nat /\ time[At(s, e)] + m <= NumLevels
    BY <1>4, <2>1
  <2> QED BY <1>3, <2>2
<1>7. ASSUME NEW k \in 1..m, NEW t \in RangeOf(ls[k])
      PROVE  \E j \in 1..Len(q) : t \in RangeOf(q[j])
  <2>1. k # 1
    BY <1>3, <1>7, EmptyRange
  <2>2. k - 1 \in 1..Len(q) /\ (k - 1) + 1 = k
    BY <1>3, <2>1
  <2>3. q[k - 1] = ls[k]
    BY <1>3, <2>2
  <2> QED BY <1>7, <2>2, <2>3
<1>8. LevelDeal(s, q)
  BY <1>4, <1>5, <1>6, <1>7 DEF LevelDeal
<1>9. LevelOnce(s, ls) => LevelOnce(s, q)
  BY <1>2, <1>3 DEF LevelOnce
<1> QED BY <1>1, <1>3, <1>8, <1>9

\* A ready task is dealt, and what waited for it last becomes ready.
ReadyAfter(t, rd, dealt) ==
  (rd \ {t}) \cup {u \in RangeOf(sorted) : t \in inEdges[u] /\ inEdges[u] \subseteq dealt}

LEMMA ListGiven ==
  ASSUME NEW s \in [Threads -> Seq(Tasks)], NEW rd, NEW t \in rd, NEW th \in Threads,
         NEW r, r = GivenTo(s, th, t),
         t \in Tasks, t \notin inEdges[t], ListDeal(s, rd),
         NEW rd2, rd2 = ReadyAfter(t, rd, Dealt(r))
  PROVE  /\ r \in [Threads -> Seq(Tasks)] /\ ListDeal(r, rd2)
         /\ Dealt(r) = Dealt(s) \cup {t}
<1>1. /\ r \in [Threads -> Seq(Tasks)] /\ Grown(s, r)
      /\ \E e : NewIn(s, r) = {e} /\ At(r, e) = t /\ \A f \in EntriesOf(r) : ~Earlier(e, f)
  BY OneGiven
<1>2. PICK x : NewIn(s, r) = {x} /\ At(r, x) = t /\ \A f \in EntriesOf(r) : ~Earlier(x, f)
  BY <1>1
<1>3. NewTasks(s, r) = {t}
  BY <1>2 DEF NewTasks
<1>4. Dealt(r) = Dealt(s) \cup {t}
  BY <1>1, <1>3, DealtGrows
<1>5. /\ rd \cup Dealt(s) \subseteq RangeOf(sorted) /\ rd \cap Dealt(s) = {}
      /\ \A u \in rd \cup Dealt(s) : inEdges[u] \subseteq Dealt(s)
      /\ \A u \in RangeOf(sorted) : inEdges[u] \subseteq Dealt(s) => u \in rd \cup Dealt(s)
      /\ NoneTwice(s)
  BY DEF ListDeal
<1>6. /\ t \notin Dealt(s)
      /\ rd2 = (rd \ {t}) \cup {u \in RangeOf(sorted) : t \in inEdges[u] /\ inEdges[u] \subseteq Dealt(r)}
  BY <1>5 DEF ReadyAfter
<1>7. rd2 \cup Dealt(r) \subseteq RangeOf(sorted) /\ rd2 \cap Dealt(r) = {}
  <2>1. ASSUME NEW u \in rd2 PROVE u \notin Dealt(r)
    <3>1. CASE u \in rd \ {t}
      BY <1>4, <1>5, <1>6, <3>1
    <3>2. CASE t \in inEdges[u]
      BY <1>4, <1>5, <1>6, <3>2
    <3> QED BY <1>6, <2>1, <3>1, <3>2
  <2>2. rd2 \subseteq RangeOf(sorted)
    BY <1>5, <1>6
  <2>3. Dealt(r) \subseteq RangeOf(sorted)
    BY <1>4, <1>5
  <2> QED BY <2>1, <2>2, <2>3
<1>8. \A u \in rd2 \cup Dealt(r) : inEdges[u] \subseteq Dealt(r)
  BY <1>4, <1>5, <1>6
<1>9. ASSUME NEW u \in RangeOf(sorted), inEdges[u] \subseteq Dealt(r)
      PROVE  u \in rd2 \cup Dealt(r)
  <2>1. CASE t \in inEdges[u]
    BY <1>6, <1>9, <2>1
  <2>2. CASE t \notin inEdges[u]
    <3>1. u \in rd \cup Dealt(s)
      BY <1>4, <1>5, <1>9, <2>2
    <3> QED BY <1>4, <1>6, <3>1
  <2> QED BY <2>1, <2>2
<1>10. NoneTwice(r)
  <2>1. \A e, f \in NewIn(s, r) : At(r, e) = At(r, f) => e = f
    BY <1>2
  <2>2. NewTasks(s, r) \cap Dealt(s) = {}
    BY <1>3, <1>6
  <2>3. Grown(s, r) /\ NoneTwice(s)
    BY <1>1, <1>5
  <2> QED BY <2>1, <2>2, <2>3, NoneTwiceGrows
<1>11. \E n \in Nat : \E rank \in [EntriesOf(r) -> 0..n] :
         \A e, f \in EntriesOf(r) :
           At(r, e) \in inEdges[At(r, f)] \/ Earlier(e, f) => rank[e] < rank[f]
  <2>1. PICK n \in Nat : \E rank \in [EntriesOf(s) -> 0..n] :
          \A e, f \in EntriesOf(s) :
            At(s, e) \in inEdges[At(s, f)] \/ Earlier(e, f) => rank[e] < rank[f]
    BY DEF ListDeal
  <2>2. PICK rank \in [EntriesOf(s) -> 0..n] :
          \A e, f \in EntriesOf(s) :
            At(s, e) \in inEdges[At(s, f)] \/ Earlier(e, f) => rank[e] < rank[f]
    BY <2>1
  <2>3. PICK R : R = [e \in EntriesOf(r) |-> IF e \in EntriesOf(s) THEN rank[e] ELSE n + 1]
    OBVIOUS
  <2>4. /\ EntriesOf(r) = EntriesOf(s) \cup {x} /\ x \notin EntriesOf(s)
        /\ \A e \in EntriesOf(s) : At(r, e) = At(s, e)
    BY <1>1, <1>2 DEF Grown, NewIn
  <2>5. \A e \in EntriesOf(s) : R[e] = rank[e] /\ rank[e] \in 0..n
    BY <2>3, <2>4
  <2>6. R[x] = n + 1
    BY <2>3, <2>4
  <2>7. R \in [EntriesOf(r) -> 0..(n + 1)]
    <3>1. \A k \in 0..n : k \in 0..(n + 1)
      OBVIOUS
    <3>2. n + 1 \in 0..(n + 1)
      OBVIOUS
    <3>3. \A e \in EntriesOf(r) : R[e] \in 0..(n + 1)
      BY <2>4, <2>5, <2>6, <3>1, <3>2
    <3> QED BY <2>3, <3>3
  <2>8. ASSUME NEW e \in EntriesOf(r), NEW f \in EntriesOf(r),
               At(r, e) \in inEdges[At(r, f)] \/ Earlier(e, f)
        PROVE  R[e] < R[f]
    <3>1. CASE e \in EntriesOf(s) /\ f \in EntriesOf(s)
      <4>1. At(s, e) \in inEdges[At(s, f)] \/ Earlier(e, f)
        BY <2>4, <2>8, <3>1
      <4> QED BY <2>2, <2>5, <3>1, <4>1
    <3>2. CASE e \in EntriesOf(s) /\ f = x
      BY <2>5, <2>6, <3>2
    <3>3. CASE e = x
      <4>1. ~Earlier(x, f)
        BY <1>2
      <4>2. t \in inEdges[At(r, f)]
        BY <1>2, <2>8, <3>3, <4>1
      <4>3. CASE f = x
        BY <1>2, <4>2, <4>3
      <4>4. CASE f \in EntriesOf(s)
        <5>1. At(r, f) \in Dealt(s)
          BY <2>4, <4>4 DEF Dealt
        <5> QED BY <1>5, <1>6, <4>2, <5>1
      <4> QED BY <2>4, <4>3, <4>4
    <3> QED BY <2>4, <3>1, <3>2, <3>3
  <2> QED
    <3>1. n + 1 \in Nat
      BY <2>1
    <3> QED BY <2>7, <2>8, <3>1
<1> QED BY <1>1, <1>4, <1>7, <1>8, <1>9, <1>10, <1>11 DEF ListDeal

-----------------------------------------------------------------------------
(* What the sort hands over.                                               *)

LEMMA SortedFacts ==
  ASSUME Inv, LineInv, phase = "sorted"
  PROVE  /\ sorted \in Seq(Tasks) /\ inEdges \in [Nodes -> SUBSET Nodes]
         /\ \A t \in RangeOf(sorted) : inEdges[t] \subseteq RangeOf(sorted) /\ t \notin inEdges[t]
         /\ \A i, j \in 1..Len(sorted) : sorted[i] \in inEdges[sorted[j]] => i < j
         /\ \A i, j \in 1..Len(sorted) : i < j /\ inEdges[sorted[j]] = {} => inEdges[sorted[i]] = {}
         /\ Injective(decl.list) => Injective(sorted)
         /\ \A lv \in [Tasks -> Nat] : (\A i \in 1..Len(sorted) : LevelAt(lv, sorted[i])) =>
              \A i, j \in 1..Len(sorted) : i <= j => lv[sorted[i]] <= lv[sorted[j]]
<1>1. /\ sorted \in Seq(Nodes) /\ inEdges \in [Nodes -> SUBSET Nodes] /\ queue = <<>>
      /\ \A t \in Nodes : in[t] = {}
      /\ RangeOf(sorted) \subseteq visited \ {Root} /\ visited \subseteq Nodes
  BY DEF Inv, Typed, OutcomeInv, EdgesLeft, ProgressInv
<1>2. \A i \in 1..Len(sorted) : sorted[i] \in RangeOf(sorted) /\ sorted[i] \in Tasks /\ Kept(sorted[i])
  <2> TAKE i \in 1..Len(sorted)
  <2>1. sorted[i] \in RangeOf(sorted)
    BY DEF RangeOf
  <2> QED BY <1>1, <2>1 DEF Kept, Nodes
<1>3. sorted \in Seq(Tasks)
  <2>1. sorted \in [1..Len(sorted) -> Nodes] /\ Len(sorted) \in Nat
    BY <1>1
  <2>2. sorted \in [1..Len(sorted) -> Tasks]
    BY <1>2, <2>1
  <2> QED BY <2>1, <2>2
<1>4. \A t \in RangeOf(sorted) : t \in Tasks /\ Kept(t) /\ t \in Nodes
  BY <1>2 DEF RangeOf, Nodes
<1>5. \A i, j \in 1..Len(sorted) : sorted[i] \in inEdges[sorted[j]] => i < j
  BY DEF Inv, OrderInv
<1>6. ASSUME NEW t \in RangeOf(sorted)
      PROVE  inEdges[t] \subseteq RangeOf(sorted) /\ t \notin inEdges[t]
  <2>1. \A u \in inEdges[t] : Kept(u)
    BY <1>4, KeptEdges
  <2>2. \A u \in inEdges[t] \ in[t] : Kept(u) => u \in RangeOf(sorted)
    BY <1>4 DEF LineInv, PastInv
  <2>3. in[t] = {}
    BY <1>1, <1>4
  <2>4. PICK i \in 1..Len(sorted) : sorted[i] = t
    BY DEF RangeOf
  <2>5. ~(i < i)
    BY <1>3
  <2> QED BY <1>5, <2>1, <2>2, <2>3, <2>4, <2>5
<1>7. \A i, j \in 1..Len(sorted) : i < j /\ inEdges[sorted[j]] = {} => inEdges[sorted[i]] = {}
  <2>1. \A i, j \in 1..Len(sorted) : i < j => <<sorted[i], sorted[j]>> \in SourceFirst
    BY DEF LineInv, FrontInv, Along
  <2> QED BY <2>1 DEF SourceFirst
<1>8. ASSUME Injective(decl.list) PROVE Injective(sorted)
  <2>1. \A i, j \in 1..Len(sorted) : i < j => <<sorted[i], sorted[j]>> \in Differ
    BY <1>8 DEF LineInv, DistinctInv, Along
  <2>2. \A i, j \in 1..Len(sorted) : i < j => sorted[i] # sorted[j]
    BY <2>1 DEF Differ
  <2>3. \A i, j \in 1..Len(sorted) : i < j \/ j < i \/ i = j
    BY <1>3
  <2> QED BY <2>2, <2>3 DEF Injective
<1>9. ASSUME NEW lv \in [Tasks -> Nat], \A i \in 1..Len(sorted) : LevelAt(lv, sorted[i]),
             NEW i \in 1..Len(sorted), NEW j \in 1..Len(sorted), i <= j
      PROVE  lv[sorted[i]] <= lv[sorted[j]]
  <2>1. QueuedKept = {}
    BY <1>1, EmptyRange DEF QueuedKept
  <2>2. \A t \in RangeOf(sorted) \cup QueuedKept : LevelAt(lv, t)
    BY <1>9, <2>1 DEF RangeOf
  <2>3. Along(NotHigher(lv))
    BY <2>2 DEF LineInv, BreadthInv
  <2>4. CASE i < j
    <3>1. <<sorted[i], sorted[j]>> \in NotHigher(lv)
      BY <2>3, <2>4 DEF Along
    <3> QED BY <1>2, <3>1 DEF NotHigher
  <2>5. CASE i = j
    <3>1. lv[sorted[i]] \in Nat
      BY <1>2
    <3> QED BY <2>5, <3>1
  <2> QED BY <1>9, <2>4, <2>5
<1> QED BY <1>1, <1>3, <1>5, <1>6, <1>7, <1>8, <1>9

\* Every task that a task of the schedule has an edge from stands before it.
LEMMA Before ==
  ASSUME Inv, LineInv, phase = "sorted", NEW i \in 1..Len(sorted), NEW u \in inEdges[sorted[i]]
  PROVE  \E j \in 1..Len(sorted) : sorted[j] = u /\ j < i
<1>1. sorted[i] \in RangeOf(sorted)
  BY DEF RangeOf
<1>2. u \in RangeOf(sorted)
  BY <1>1, SortedFacts
<1>3. PICK j \in 1..Len(sorted) : sorted[j] = u
  BY <1>2 DEF RangeOf
<1>4. j < i
  BY <1>3, SortedFacts
<1> QED BY <1>3, <1>4

-----------------------------------------------------------------------------
(* The steps of createSchedule().                                          *)

LEMMA SortKept ==
  ASSUME BuilderInv, [Next]_sortVars
  PROVE  Inv' /\ LineInv'
<1>1. Inv /\ LineInv
  BY DEF BuilderInv
<1> QED BY <1>1, NextInv, LineNext

LEMMA BuilderInitInv == BuilderInit => BuilderInv
<1> SUFFICES ASSUME BuilderInit PROVE BuilderInv
  OBVIOUS
<1>1. Inv
  BY InitInv DEF BuilderInit
<1>2. LineInv
  BY EmptyLine DEF BuilderInit, Init
<1>3. BuilderTypes
  BY DEF BuilderInit, BuilderTypes
<1>4. StageInv /\ LevelInv /\ FilledInv /\ DealInv
  BY DEF BuilderInit, StageInv, LevelInv, FilledInv, DealInv
<1> QED BY <1>1, <1>2, <1>3, <1>4 DEF BuilderInv

LEMMA SortTasksInv == ASSUME BuilderInv, SortTasks PROVE BuilderInv'
<1>1. Inv' /\ LineInv'
  BY SortKept DEF SortTasks, Next
<1>2. stage = "sort" /\ UNCHANGED dealVars
  BY DEF SortTasks
<1>3. BuilderTypes'
  BY <1>2 DEF dealVars, BuilderInv, BuilderTypes
<1>4. StageInv' /\ LevelInv' /\ FilledInv' /\ DealInv'
  BY <1>2 DEF dealVars, BuilderInv, StageInv, LevelInv, FilledInv, DealInv
<1> QED BY <1>1, <1>3, <1>4 DEF BuilderInv

LEMMA NoScheduleInv ==
  ASSUME BuilderInv, SortFailed \/ NothingToSchedule
  PROVE  BuilderInv'
<1>1. /\ stage' \in {"failed", "undefined"}
      /\ UNCHANGED <<sortVars, kind, pos, time, levels, ready, inLeft, schedule, required>>
  BY DEF SortFailed, NothingToSchedule
<1>2. Inv' /\ LineInv'
  BY <1>1, SortKept
<1>3. BuilderTypes'
  BY <1>1 DEF BuilderInv, BuilderTypes
<1>4. StageInv' /\ LevelInv' /\ FilledInv' /\ DealInv'
  BY <1>1 DEF StageInv, LevelInv, FilledInv, DealInv
<1> QED BY <1>2, <1>3, <1>4 DEF BuilderInv

LEMMA StartLevelsInv == ASSUME BuilderInv, StartLevels PROVE BuilderInv'
<1>1. /\ stage = "sort" /\ phase = "sorted" /\ kind # "list" /\ sorted # <<>> /\ stage' = "level"
      /\ UNCHANGED <<sortVars, kind, pos, time, levels, ready, inLeft, schedule, required>>
  BY DEF StartLevels
<1>2. Inv' /\ LineInv'
  BY <1>1, SortKept
<1>3. BuilderTypes'
  BY <1>1 DEF BuilderInv, BuilderTypes
<1>4. pos = 0 /\ time = [t \in Tasks |-> 0] /\ schedule = [th \in Threads |-> <<>>]
  BY <1>1 DEF BuilderInv, StageInv
<1>5. StageInv' /\ FilledInv' /\ DealInv'
  BY <1>1, <1>4 DEF sortVars, StageInv, FilledInv, DealInv
<1>6. LevelInv'
  <2>1. Len(sorted) \in Nat
    BY <1>1, SortedFacts DEF BuilderInv
  <2>2. pos <= Len(sorted) /\ (\A t \in Tasks : time[t] <= pos) /\ \A i \in 1..pos : FALSE
    BY <1>4, <2>1
  <2> QED BY <1>1, <2>2 DEF LevelInv, sortVars
<1> QED BY <1>2, <1>3, <1>5, <1>6 DEF BuilderInv

\* The level of the next task fits its edges, and those before keep theirs.
LEMMA AssignLevelInv == ASSUME BuilderInv, AssignLevel PROVE BuilderInv'
<1>1. /\ stage = "level" /\ pos < Len(sorted) /\ stage' = stage /\ pos' = pos + 1
      /\ time' = [time EXCEPT ![sorted[pos + 1]] = LevelAfter(sorted[pos + 1])]
      /\ UNCHANGED <<sortVars, kind, levels, ready, inLeft, schedule, required>>
  BY DEF AssignLevel
<1>2. Inv' /\ LineInv'
  BY <1>1, SortKept
<1>3. Inv /\ LineInv /\ phase = "sorted" /\ pos \in Nat /\ time \in [Tasks -> Nat]
  BY <1>1 DEF BuilderInv, StageInv, BuilderTypes
<1>4. sorted \in Seq(Tasks) /\ Len(sorted) \in Nat /\ pos + 1 \in 1..Len(sorted)
  BY <1>1, <1>3, SortedFacts
<1> DEFINE t == sorted[pos + 1]
<1>5. t \in Tasks /\ t \in RangeOf(sorted)
  BY <1>4 DEF RangeOf
<1>6. \A u \in Tasks : time[u] <= pos /\ time[u] \in Nat
  BY <1>1, <1>3 DEF BuilderInv, LevelInv
<1>7. \A i \in 1..pos : LevelAt(time, sorted[i])
  BY <1>1 DEF BuilderInv, LevelInv
<1>8. inEdges[t] \subseteq Tasks /\ t \notin inEdges[t]
  <2>1. inEdges[t] \subseteq RangeOf(sorted) /\ t \notin inEdges[t]
    BY <1>3, <1>5, SortedFacts
  <2> QED BY <1>4, <2>1 DEF RangeOf
<1> DEFINE a == LevelAfter(t)
<1>9. /\ a \in Nat /\ a <= pos + 1 /\ (inEdges[t] = {} => a = 0)
      /\ \A u \in inEdges[t] : time[u] < a
      /\ inEdges[t] # {} => \E u \in inEdges[t] : a = time[u] + 1
  <2>1. CASE inEdges[t] = {}
    BY <1>3, <2>1 DEF LevelAfter
  <2>2. CASE inEdges[t] # {}
    <3> DEFINE S == {time[u] : u \in inEdges[t]}
    <3>1. S \in SUBSET (0..pos) /\ S # {}
      BY <1>3, <1>6, <1>8, <2>2
    <3>2. a = MaxOf(S) + 1
      BY <2>2 DEF LevelAfter
    <3>3. \A u \in inEdges[t] : time[u] \in S
      OBVIOUS
    <3>4. \A x \in S : \E u \in inEdges[t] : x = time[u]
      OBVIOUS
    <3> HIDE DEF S, a
    <3>5. MaxOf(S) \in S /\ \A y \in S : y <= MaxOf(S)
      BY <1>3, <3>1, MaxOfFacts
    <3>6. MaxOf(S) \in 0..pos
      BY <3>1, <3>5
    <3>7. \A u \in inEdges[t] : time[u] <= MaxOf(S) /\ time[u] \in Nat
      BY <1>6, <1>8, <3>3, <3>5
    <3> QED BY <1>3, <2>2, <3>2, <3>4, <3>5, <3>6, <3>7
  <2> QED BY <2>1, <2>2
<1> HIDE DEF a
<1>10. /\ time'[t] = a /\ time' \in [Tasks -> Nat]
       /\ \A u \in Tasks : u # t => time'[u] = time[u]
  BY <1>1, <1>3, <1>5, <1>9 DEF a
<1>11. \A u \in Tasks : time'[u] <= pos + 1
  <2> TAKE u \in Tasks
  <2>1. time[u] <= pos + 1
    BY <1>3, <1>6
  <2> QED BY <1>9, <1>10, <2>1
<1>12. LevelAt(time', t)
  <2>1. \A u \in inEdges[t] : time'[u] = time[u]
    BY <1>8, <1>10
  <2> QED BY <1>9, <1>10, <2>1 DEF LevelAt
<1>13. ASSUME NEW i \in 1..(pos + 1) PROVE LevelAt(time', sorted[i])
  <2>1. CASE sorted[i] = t
    BY <1>12, <2>1
  <2>2. CASE sorted[i] # t
    <3>1. i \in 1..pos /\ i \in 1..Len(sorted)
      BY <1>3, <1>4, <2>2
    <3>2. sorted[i] \in Tasks /\ sorted[i] \in RangeOf(sorted)
      BY <1>4, <3>1 DEF RangeOf
    <3>3. t \notin inEdges[sorted[i]]
      <4>1. ~(pos + 1 < i)
        BY <1>3, <3>1
      <4> QED BY <1>3, <1>4, <3>1, <4>1, SortedFacts
    <3>4. inEdges[sorted[i]] \subseteq Tasks
      <4>1. inEdges[sorted[i]] \subseteq RangeOf(sorted)
        BY <1>3, <3>2, SortedFacts
      <4> QED BY <1>4, <4>1 DEF RangeOf
    <3>5. /\ time'[sorted[i]] = time[sorted[i]]
          /\ \A u \in inEdges[sorted[i]] : time'[u] = time[u]
      BY <1>10, <2>2, <3>2, <3>3, <3>4
    <3>6. LevelAt(time, sorted[i])
      BY <1>7, <3>1
    <3> QED BY <3>5, <3>6 DEF LevelAt
  <2> QED BY <2>1, <2>2
<1>14. LevelInv'
  <2>1. sorted' = sorted
    BY <1>1 DEF sortVars
  <2>2. \A i \in 1..(pos + 1) : LevelAt(time, sorted[i])'
    BY <1>1, <1>13, <2>1 DEF LevelAt, sortVars
  <2>3. pos + 1 <= Len(sorted)
    BY <1>4
  <2> QED BY <1>1, <1>11, <2>1, <2>2, <2>3 DEF LevelInv
<1>15. BuilderTypes'
  BY <1>1, <1>3, <1>10 DEF BuilderInv, BuilderTypes
<1>16. StageInv' /\ FilledInv' /\ DealInv'
  BY <1>1 DEF sortVars, BuilderInv, StageInv, FilledInv, DealInv
<1> QED BY <1>2, <1>14, <1>15, <1>16 DEF BuilderInv

\* What the levels of the sorted tasks say about the vector of levels.
LEMMA LevelsOfSorted ==
  ASSUME BuilderInv, stage \in {"level", "fill", "deal", "done"}, kind # "list",
         stage = "level" => pos = Len(sorted)
  PROVE  /\ sorted \in Seq(Tasks) /\ Len(sorted) \in Nat /\ Len(sorted) >= 1
         /\ time \in [Tasks -> Nat] /\ NumLevels \in Nat \ {0}
         /\ \A i \in 1..Len(sorted) : LevelAt(time, sorted[i])
         /\ \A i \in 1..Len(sorted) : time[sorted[i]] + 1 \in 1..NumLevels
<1>1. /\ Inv /\ LineInv /\ phase = "sorted" /\ sorted # <<>>
      /\ time \in [Tasks -> Nat]
  BY DEF BuilderInv, StageInv, BuilderTypes
<1>2. \A i \in 1..Len(sorted) : LevelAt(time, sorted[i])
  BY DEF BuilderInv, LevelInv
<1>3. sorted \in Seq(Tasks)
  BY <1>1, SortedFacts
<1>4. Len(sorted) \in Nat /\ Len(sorted) >= 1 /\ Len(sorted) \in 1..Len(sorted)
  BY <1>1, <1>3
<1>5. \A i \in 1..Len(sorted) : sorted[i] \in Tasks
  BY <1>3
<1>6. \A i \in 1..Len(sorted) : time[sorted[i]] \in Nat
  BY <1>1, <1>5
<1>7. \A i \in 1..Len(sorted) : time[sorted[i]] <= time[sorted[Len(sorted)]]
  <2>1. \A i, j \in 1..Len(sorted) : i <= j => time[sorted[i]] <= time[sorted[j]]
    BY <1>1, <1>2, SortedFacts
  <2> QED BY <1>4, <2>1
<1>8. NumLevels \in Nat \ {0} /\ time[sorted[Len(sorted)]] + 1 = NumLevels
  BY <1>4, <1>6 DEF NumLevels
<1>9. \A i \in 1..Len(sorted) : time[sorted[i]] + 1 \in 1..NumLevels
  BY <1>4, <1>6, <1>7, <1>8
<1> QED BY <1>1, <1>2, <1>3, <1>4, <1>8, <1>9

LEMMA ResizeLevelsInv == ASSUME BuilderInv, ResizeLevels PROVE BuilderInv'
<1>1. /\ stage = "level" /\ pos = Len(sorted) /\ stage' = "fill" /\ pos' = 0
      /\ levels' = [k \in 1..NumLevels |-> <<>>]
      /\ UNCHANGED <<sortVars, kind, time, ready, inLeft, schedule, required>>
  BY DEF ResizeLevels
<1>2. Inv' /\ LineInv'
  BY <1>1, SortKept
<1>3. kind # "list"
  BY <1>1 DEF BuilderInv, StageInv
<1>4. /\ Len(sorted) \in Nat /\ Len(sorted) >= 1 /\ NumLevels \in Nat
      /\ \A i \in 1..Len(sorted) : LevelAt(time, sorted[i])
  BY <1>1, <1>3, LevelsOfSorted
<1>5. /\ levels' \in Seq(Seq(Tasks)) /\ Len(levels') = NumLevels
      /\ \A k \in 1..NumLevels : levels'[k] = <<>>
  <2>1. levels' \in [1..NumLevels -> Seq(Tasks)]
    BY <1>1
  <2> QED BY <1>1, <1>4, <2>1
<1>6. BuilderTypes'
  BY <1>1, <1>5 DEF BuilderInv, BuilderTypes
<1>7. StageInv' /\ DealInv'
  BY <1>1, <1>3 DEF sortVars, BuilderInv, StageInv, DealInv
<1>8. LevelInv'
  BY <1>1, <1>4 DEF sortVars, LevelInv, LevelAt
<1>9. FilledInv'
  <2>1. NumLevels' = NumLevels /\ sorted' = sorted /\ decl' = decl
    BY <1>1 DEF sortVars, NumLevels
  <2>2. pos' < Len(sorted') /\ \A i \in 1..pos' : FALSE
    BY <1>1, <1>4, <2>1
  <2>3. \A k \in 1..Len(levels') : RangeOf(levels'[k]) = {} /\ Injective(levels'[k])
    BY <1>5, EmptyRange DEF Injective
  <2> QED BY <1>5, <2>1, <2>2, <2>3 DEF FilledInv
<1> QED BY <1>2, <1>6, <1>7, <1>8, <1>9 DEF BuilderInv

LEMMA NoEntries ==
  ASSUME NEW s, s = [th \in Threads |-> <<>>]
  PROVE  EntriesOf(s) = {} /\ Dealt(s) = {} /\ NoneTwice(s)
<1>1. ASSUME NEW e \in EntriesOf(s) PROVE FALSE
  <2>1. e[1] \in Threads /\ e[2] \in 1..Len(s[e[1]])
    BY DEF EntriesOf
  <2>2. e[2] \in 1..0
    BY <2>1, EmptyRange
  <2> QED BY <2>2
<1>2. EntriesOf(s) = {}
  BY <1>1
<1> QED BY <1>2 DEF Dealt, NoneTwice

\* The next task is put into the vector of its level.
LEMMA FillLevelInv == ASSUME BuilderInv, FillLevel PROVE BuilderInv'
<1> DEFINE t == sorted[pos + 1]
<1>1. /\ stage = "fill" /\ pos' = pos + 1
      /\ levels' = [levels EXCEPT ![time[t] + 1] = Append(@, t)]
      /\ stage' = IF pos + 1 = Len(sorted) THEN "deal" ELSE "fill"
      /\ UNCHANGED <<sortVars, kind, time, ready, inLeft, schedule, required>>
  BY DEF FillLevel
<1>2. Inv' /\ LineInv'
  BY <1>1, SortKept
<1>3. /\ kind # "list" /\ Inv /\ LineInv /\ phase = "sorted" /\ pos \in Nat
      /\ schedule = [th \in Threads |-> <<>>] /\ levels \in Seq(Seq(Tasks))
  BY <1>1 DEF BuilderInv, StageInv, BuilderTypes
<1>4. /\ sorted \in Seq(Tasks) /\ Len(sorted) \in Nat /\ time \in [Tasks -> Nat]
      /\ NumLevels \in Nat \ {0}
      /\ \A i \in 1..Len(sorted) : LevelAt(time, sorted[i])
      /\ \A i \in 1..Len(sorted) : time[sorted[i]] + 1 \in 1..NumLevels
  BY <1>1, <1>3, LevelsOfSorted
<1>5. /\ pos < Len(sorted) /\ Len(levels) = NumLevels
      /\ \A k \in 1..NumLevels, u \in Tasks :
           u \in RangeOf(levels[k]) <=> time[u] = k - 1 /\ \E i \in 1..pos : u = sorted[i]
      /\ Injective(decl.list) => \A k \in 1..NumLevels : Injective(levels[k])
  BY <1>1 DEF BuilderInv, FilledInv
<1>6. pos + 1 \in 1..Len(sorted) /\ t \in Tasks /\ time[t] + 1 \in 1..NumLevels
  BY <1>3, <1>4, <1>5
<1> HIDE DEF t
<1>7. PICK l : l = time[t] + 1
  OBVIOUS
<1>8. PICK q : q = levels'
  OBVIOUS
<1>9. \A k \in 1..NumLevels : levels[k] \in Seq(Tasks)
  BY <1>3, <1>5
<1>10. /\ Append(levels[l], t) \in Seq(Tasks)
       /\ RangeOf(Append(levels[l], t)) = RangeOf(levels[l]) \cup {t}
       /\ Len(Append(levels[l], t)) = Len(levels[l]) + 1
       /\ \A i \in 1..Len(levels[l]) : Append(levels[l], t)[i] = levels[l][i]
       /\ Append(levels[l], t)[Len(levels[l]) + 1] = t
  BY <1>6, <1>7, <1>9, RangeOfAppend
<1>11. /\ Len(q) = NumLevels /\ q[l] = Append(levels[l], t)
       /\ \A k \in 1..NumLevels : k # l => q[k] = levels[k]
       /\ q \in Seq(Seq(Tasks))
  <2>1. q = [levels EXCEPT ![l] = Append(levels[l], t)]
    BY <1>1, <1>7, <1>8
  <2>2. levels \in [1..NumLevels -> Seq(Tasks)]
    BY <1>3, <1>5
  <2>3. q \in [1..NumLevels -> Seq(Tasks)]
    BY <1>10, <2>1, <2>2
  <2>4. q \in Seq(Seq(Tasks)) /\ Len(q) = NumLevels
    BY <1>4, <2>3
  <2> QED BY <1>6, <1>7, <2>1, <2>2, <2>4
<1>12. \A u : (\E i \in 1..(pos + 1) : u = sorted[i]) <=> u = t \/ \E i \in 1..pos : u = sorted[i]
  <2>1. \A i \in 1..(pos + 1) : i \in 1..pos \/ i = pos + 1
    BY <1>3
  <2>2. pos + 1 \in 1..(pos + 1) /\ \A i \in 1..pos : i \in 1..(pos + 1)
    BY <1>3
  <2> QED BY <2>1, <2>2 DEF t
<1>13. \A k \in 1..NumLevels, u \in Tasks :
         u \in RangeOf(q[k]) <=> time[u] = k - 1 /\ \E i \in 1..(pos + 1) : u = sorted[i]
  <2> TAKE k \in 1..NumLevels, u \in Tasks
  <2>1. time[t] \in Nat /\ time[u] \in Nat /\ k \in Nat
    BY <1>4, <1>6
  <2>2. CASE k = l
    <3>1. RangeOf(q[k]) = RangeOf(levels[k]) \cup {t}
      BY <1>10, <1>11, <2>2
    <3>2. time[t] = k - 1
      BY <1>7, <2>1, <2>2
    <3> QED BY <1>5, <1>12, <3>1, <3>2
  <2>3. CASE k # l
    <3>1. q[k] = levels[k]
      BY <1>11, <2>3
    <3>2. time[t] # k - 1
      BY <1>7, <2>1, <2>3
    <3> QED BY <1>5, <1>12, <3>1, <3>2
  <2> QED BY <2>2, <2>3
<1>14. ASSUME Injective(decl.list), NEW k \in 1..NumLevels PROVE Injective(q[k])
  <2>1. CASE k = l
    <3>1. t \notin RangeOf(levels[l])
      <4> SUFFICES ASSUME t \in RangeOf(levels[l]) PROVE FALSE
        OBVIOUS
      <4>1. PICK i \in 1..pos : t = sorted[i]
        BY <1>5, <1>6, <1>7
      <4>2. i \in 1..Len(sorted) /\ i # pos + 1
        BY <1>3, <1>4, <1>5
      <4>3. Injective(sorted)
        BY <1>3, <1>14, SortedFacts
      <4> QED BY <1>6, <4>1, <4>2, <4>3 DEF Injective, t
    <3>2. \A i \in 1..Len(levels[l]) : levels[l][i] # t
      BY <3>1 DEF RangeOf
    <3>3. Injective(levels[l])
      BY <1>5, <1>6, <1>7, <1>14
    <3>4. Len(levels[l]) \in Nat
      BY <1>6, <1>7, <1>9
    <3>5. \A i \in 1..Len(q[l]) : i \in 1..Len(levels[l]) \/ i = Len(levels[l]) + 1
      BY <1>10, <1>11, <3>4
    <3>6. \A i \in 1..Len(levels[l]) : q[l][i] = levels[l][i]
      BY <1>10, <1>11
    <3>7. q[l][Len(levels[l]) + 1] = t
      BY <1>10, <1>11
    <3>8. \A i, j \in 1..Len(levels[l]) : levels[l][i] = levels[l][j] => i = j
      BY <3>3 DEF Injective
    <3>9. \A i, j \in 1..Len(q[l]) : q[l][i] = q[l][j] => i = j
      BY <3>2, <3>5, <3>6, <3>7, <3>8
    <3> QED BY <2>1, <3>9 DEF Injective
  <2>2. CASE k # l
    BY <1>5, <1>11, <1>14, <2>2
  <2> QED BY <2>1, <2>2
<1>15. /\ NumLevels' = NumLevels /\ sorted' = sorted /\ decl' = decl /\ time' = time
       /\ schedule' = schedule
  BY <1>1 DEF sortVars, NumLevels
<1>16. BuilderTypes'
  BY <1>1, <1>3, <1>8, <1>11 DEF BuilderInv, BuilderTypes
<1>17. StageInv'
  BY <1>1, <1>3 DEF sortVars, BuilderInv, StageInv
<1>18. LevelInv'
  BY <1>1, <1>4 DEF sortVars, LevelInv, LevelAt
<1>19. FilledInv'
  <2>1. stage' = "fill" => pos + 1 < Len(sorted)
    BY <1>1, <1>3, <1>4, <1>5
  <2> QED BY <1>1, <1>8, <1>11, <1>13, <1>14, <1>15, <2>1 DEF FilledInv
<1>20. ASSUME pos + 1 = Len(sorted)
       PROVE  /\ LevelDeal(schedule, q)
              /\ Injective(decl.list) => LevelOnce(schedule, q)
  <2>1. EntriesOf(schedule) = {} /\ Dealt(schedule) = {} /\ NoneTwice(schedule)
    BY <1>3, NoEntries
  <2>2. ASSUME NEW k \in 1..Len(q), NEW u \in RangeOf(q[k])
        PROVE  u \in RangeOf(sorted) /\ time[u] + Len(q) = NumLevels + k - 1
    <3>1. u \in Tasks
      BY <1>11 DEF RangeOf
    <3>2. time[u] = k - 1 /\ \E i \in 1..Len(sorted) : u = sorted[i]
      BY <1>11, <1>13, <1>20, <3>1
    <3>3. time[u] + NumLevels = NumLevels + k - 1
      BY <1>4, <3>2
    <3> QED BY <1>11, <3>2, <3>3 DEF RangeOf
  <2>3. ASSUME NEW u \in RangeOf(sorted) PROVE \E k \in 1..Len(q) : u \in RangeOf(q[k])
    <3>1. PICK i \in 1..Len(sorted) : u = sorted[i]
      BY DEF RangeOf
    <3>2. PICK k : k = time[u] + 1
      OBVIOUS
    <3>3. u \in Tasks /\ k \in 1..NumLevels /\ time[u] = k - 1
      BY <1>4, <3>1, <3>2
    <3> QED BY <1>11, <1>13, <1>20, <3>1, <3>3
  <2>4. LevelDeal(schedule, q)
    BY <2>1, <2>2, <2>3 DEF LevelDeal
  <2>5. Injective(decl.list) => LevelOnce(schedule, q)
    BY <1>11, <1>14, <2>1 DEF LevelOnce
  <2> QED BY <2>4, <2>5
<1>21. DealInv'
  BY <1>1, <1>3, <1>8, <1>15, <1>20 DEF DealInv, LevelDeal
<1> QED BY <1>2, <1>16, <1>17, <1>18, <1>19, <1>21 DEF BuilderInv

\* The schedules of the threads grow by a part of the first level.
LEMMA DealtInv ==
  ASSUME BuilderInv, stage = "deal", kind # "list", NEW r, NEW ls,
         r \in [Threads -> Seq(Tasks)], ls \in Seq(Seq(Tasks)), LevelDeal(r, ls),
         Injective(decl.list) => LevelOnce(r, ls),
         schedule' = r, levels' = ls,
         UNCHANGED <<sortVars, kind, stage, pos, time, ready, inLeft, required>>
  PROVE  BuilderInv'
<1>1. Inv' /\ LineInv'
  BY SortKept
<1>2. BuilderTypes'
  BY DEF BuilderInv, BuilderTypes
<1>3. StageInv' /\ FilledInv'
  BY DEF sortVars, BuilderInv, StageInv, FilledInv
<1>4. LevelInv'
  BY DEF sortVars, BuilderInv, LevelInv, LevelAt
<1>5. /\ NumLevels' = NumLevels /\ sorted' = sorted /\ decl' = decl /\ time' = time
  BY DEF sortVars, NumLevels
<1>6. DealInv'
  BY <1>5 DEF DealInv, LevelDeal
<1> QED BY <1>1, <1>2, <1>3, <1>4, <1>6 DEF BuilderInv

\* The shares of the threads make up the level, and none is in two of them.
LEMMA EvenShares ==
  ASSUME NEW s \in [Threads -> Seq(Tasks)], NEW level \in Seq(Tasks),
         NEW r, r = [th \in Threads |-> s[th] \o Share(level, th)]
  PROVE  /\ r \in [Threads -> Seq(Tasks)] /\ Grown(s, r)
         /\ NewTasks(s, r) = RangeOf(level)
         /\ Injective(level) => \A e, f \in NewIn(s, r) : At(r, e) = At(r, f) => e = f
<1> DEFINE add == [th \in Threads |-> Share(level, th)]
<1>1. PICK n \in Nat : n = Len(level)
  OBVIOUS
<1>2. \A th \in Threads :
        /\ add[th] \in Seq(Tasks) /\ Len(add[th]) = Start(n, th + 1) - Start(n, th)
        /\ Start(n, th) \in Nat /\ Start(n, th + 1) \in Nat
        /\ \A j \in 1..Len(add[th]) : /\ Start(n, th) + j \in 1..n
                                      /\ add[th][j] = level[Start(n, th) + j]
  <2> TAKE th \in Threads
  <2>1. add[th] = Share(level, th)
    OBVIOUS
  <2>2. th \in Nat /\ th + 1 \in Nat
    BY BuilderAssumption DEF Threads
  <2>3. Start(n, th) \in Nat /\ Start(n, th + 1) \in Nat
    BY <2>2, Starts
  <2> QED BY <1>1, <2>1, <2>3, ShareFacts
<1>3. add \in [Threads -> Seq(Tasks)]
  BY <1>2
<1>4. r = Plus(s, add)
  BY DEF Plus
<1> HIDE DEF add
<1>5. /\ r \in [Threads -> Seq(Tasks)] /\ EntriesOf(s) \subseteq EntriesOf(r)
      /\ \A e \in EntriesOf(s) : At(r, e) = At(s, e)
      /\ \A e \in EntriesOf(r) \ EntriesOf(s) :
              /\ e[1] \in Threads /\ e[2] > Len(s[e[1]])
              /\ e[2] - Len(s[e[1]]) \in 1..Len(add[e[1]])
              /\ At(r, e) = add[e[1]][e[2] - Len(s[e[1]])]
      /\ \A th \in Threads : \A j \in 1..Len(add[th]) :
              /\ <<th, Len(s[th]) + j>> \in EntriesOf(r) \ EntriesOf(s)
              /\ At(r, <<th, Len(s[th]) + j>>) = add[th][j]
      /\ \A e \in EntriesOf(r), f \in EntriesOf(s) : Earlier(e, f) => e \in EntriesOf(s)
  BY <1>3, <1>4, Given
<1>6. Grown(s, r)
  BY <1>5 DEF Grown
<1> DEFINE Place(e) == Start(n, e[1]) + (e[2] - Len(s[e[1]]))
<1>7. ASSUME NEW e \in NewIn(s, r)
      PROVE  /\ e[1] \in Threads /\ e[2] \in Nat /\ e \in Threads \X Nat
             /\ Place(e) \in 1..n /\ At(r, e) = level[Place(e)]
             /\ Start(n, e[1]) < Place(e) /\ Place(e) <= Start(n, e[1] + 1)
  <2>1. /\ e[1] \in Threads /\ e[2] - Len(s[e[1]]) \in 1..Len(add[e[1]])
        /\ At(r, e) = add[e[1]][e[2] - Len(s[e[1]])]
    BY <1>5 DEF NewIn
  <2>2. e \in Threads \X Nat /\ e[2] \in Nat
    BY DEF NewIn, EntriesOf
  <2>3. PICK j : j = e[2] - Len(s[e[1]])
    OBVIOUS
  <2>4. PICK th : th = e[1]
    OBVIOUS
  <2>5. th \in Threads /\ j \in 1..Len(add[th]) /\ At(r, e) = add[th][j] /\ Place(e) = Start(n, th) + j
    BY <2>1, <2>3, <2>4
  <2>6. Start(n, th) + j \in 1..n /\ add[th][j] = level[Start(n, th) + j]
    BY <1>2, <2>5
  <2>7. Start(n, th) < Start(n, th) + j /\ Start(n, th) + j <= Start(n, th + 1)
    BY <1>2, <2>5
  <2> QED BY <2>2, <2>4, <2>5, <2>6, <2>7
<1>8. NewTasks(s, r) \subseteq RangeOf(level)
  <2>1. \A e \in NewIn(s, r) : At(r, e) \in RangeOf(level)
    BY <1>1, <1>7 DEF RangeOf
  <2> QED BY <2>1 DEF NewTasks
<1>9. RangeOf(level) \subseteq NewTasks(s, r)
  <2> SUFFICES ASSUME NEW i \in 1..n PROVE level[i] \in NewTasks(s, r)
    BY <1>1 DEF RangeOf
  <2>1. PICK th \in Threads : Start(n, th) < i /\ i <= Start(n, th + 1)
    BY ShareOfPosition
  <2>2. PICK j : j = i - Start(n, th)
    OBVIOUS
  <2>3. j \in 1..Len(add[th]) /\ Start(n, th) + j = i
    BY <1>2, <2>1, <2>2
  <2>4. add[th][j] = level[i]
    BY <1>2, <2>3
  <2>5. /\ <<th, Len(s[th]) + j>> \in NewIn(s, r)
        /\ At(r, <<th, Len(s[th]) + j>>) = level[i]
    BY <1>5, <2>3, <2>4 DEF NewIn
  <2> QED BY <2>5 DEF NewTasks
<1>10. ASSUME Injective(level), NEW e \in NewIn(s, r), NEW f \in NewIn(s, r), At(r, e) = At(r, f)
       PROVE  e = f
  <2>1. PICK i : i = Place(e)
    OBVIOUS
  <2>2. i \in 1..n /\ Place(f) = i
    <3>1. Place(e) \in 1..n /\ Place(f) \in 1..n /\ level[Place(e)] = level[Place(f)]
      BY <1>7, <1>10
    <3> HIDE DEF Place
    <3> QED BY <1>1, <1>10, <2>1, <3>1 DEF Injective
  <2>3. e[1] = f[1]
    <3>1. Start(n, e[1]) < i /\ i <= Start(n, e[1] + 1) /\ e[1] \in Threads
      BY <1>7, <2>1
    <3>2. Start(n, f[1]) < i /\ i <= Start(n, f[1] + 1) /\ f[1] \in Threads
      BY <1>7, <2>2
    <3> QED BY <2>2, <3>1, <3>2, ShareOfPosition
  <2>4. e[2] \in Nat /\ f[2] \in Nat /\ e[1] \in Threads
    BY <1>7
  <2>5. Len(s[e[1]]) \in Nat /\ Start(n, e[1]) \in Nat
    BY <1>2, <2>4
  <2>6. Start(n, e[1]) + (e[2] - Len(s[e[1]])) = Start(n, e[1]) + (f[2] - Len(s[e[1]]))
    BY <2>1, <2>2, <2>3
  <2>7. e[2] = f[2]
    BY <2>4, <2>5, <2>6
  <2>8. e \in Threads \X Nat /\ f \in Threads \X Nat
    BY <1>7
  <2> QED BY <2>3, <2>7, <2>8
<1> QED BY <1>5, <1>6, <1>8, <1>9, <1>10

LEMMA DealLevelEvenlyInv == ASSUME BuilderInv, DealLevelEvenly PROVE BuilderInv'
<1>1. /\ stage = "deal" /\ kind = "even" /\ levels # <<>> /\ levels' = Tail(levels)
      /\ UNCHANGED <<sortVars, kind, stage, pos, time, ready, inLeft, required>>
  BY DEF DealLevelEvenly
<1>2. PICK level \in Ordered(Head(levels)) :
        schedule' = [th \in Threads |-> schedule[th] \o Share(level, th)]
  BY DEF DealLevelEvenly
<1>3. PICK s : s = schedule
  OBVIOUS
<1>4. PICK ls : ls = levels
  OBVIOUS
<1>5. PICK r : r = schedule'
  OBVIOUS
<1>6. /\ s \in [Threads -> Seq(Tasks)] /\ ls \in Seq(Seq(Tasks)) /\ ls # <<>> /\ LevelDeal(s, ls)
      /\ Injective(decl.list) => LevelOnce(s, ls)
  BY <1>1, <1>3, <1>4 DEF BuilderInv, BuilderTypes, DealInv
<1>7. time \in [Tasks -> Nat] /\ NumLevels \in Nat
  BY <1>1, LevelsOfSorted
<1>8. Head(ls) \in Seq(Tasks) /\ Head(ls) = ls[1] /\ 1 \in 1..Len(ls)
  BY <1>6
<1>9. /\ level \in Seq(Tasks) /\ RangeOf(level) = RangeOf(ls[1])
      /\ Injective(ls[1]) => Injective(level)
  BY <1>2, <1>4, <1>8, OrderedFacts
<1>10. /\ r \in [Threads -> Seq(Tasks)] /\ Grown(s, r)
       /\ NewTasks(s, r) = RangeOf(level)
       /\ Injective(level) => \A e, f \in NewIn(s, r) : At(r, e) = At(r, f) => e = f
  <2>1. r = [th \in Threads |-> s[th] \o Share(level, th)]
    BY <1>2, <1>3, <1>5
  <2> QED BY <1>6, <1>9, <2>1, EvenShares
<1>11. PICK l : l = <<>>
  OBVIOUS
<1>12. /\ l \in Seq(Tasks) /\ RangeOf(l) = {} /\ Injective(l)
  BY <1>11, EmptyRange DEF Injective
<1>13. RangeOf(ls[1]) = NewTasks(s, r) \cup RangeOf(l)
  BY <1>9, <1>10, <1>12
<1> DEFINE ls2 == FirstLeft(ls, l)
<1> HIDE DEF ls2
<1>14. /\ ls2 \in Seq(Seq(Tasks)) /\ ls2 # <<>> /\ Tail(ls2) = Tail(ls) /\ Head(ls2) = l
       /\ LevelDeal(r, ls2)
       /\ LevelOnce(s, ls) /\ Injective(l) /\ NewTasks(s, r) \cap RangeOf(l) = {}
            /\ (\A e, f \in NewIn(s, r) : At(r, e) = At(r, f) => e = f)
          => LevelOnce(r, ls2)
  <2>1. ls2 = FirstLeft(ls, l)
    BY DEF ls2
  <2> QED BY <1>6, <1>7, <1>10, <1>12, <1>13, <2>1, LevelGiven
<1>15. /\ Tail(ls2) \in Seq(Seq(Tasks)) /\ LevelDeal(r, Tail(ls2))
       /\ LevelOnce(r, ls2) => LevelOnce(r, Tail(ls2))
  BY <1>7, <1>10, <1>11, <1>14, LevelDropped
<1>16. ASSUME Injective(decl.list) PROVE LevelOnce(r, Tail(ls2))
  <2>1. LevelOnce(s, ls)
    BY <1>6, <1>16
  <2>2. Injective(level)
    BY <1>8, <1>9, <2>1 DEF LevelOnce
  <2> QED BY <1>10, <1>12, <1>14, <1>15, <2>1, <2>2
<1>17. levels' = Tail(ls2)
  BY <1>1, <1>4, <1>14
<1> QED BY <1>1, <1>5, <1>10, <1>15, <1>16, <1>17, DealtInv

\* One task is taken out of a level.
Without(level, i) == SubSeq(level, 1, i - 1) \o SubSeq(level, i + 1, Len(level))

LEMMA WithoutOne ==
  ASSUME NEW level \in Seq(Tasks), NEW i \in 1..Len(level), NEW l, l = Without(level, i)
  PROVE  /\ l \in Seq(Tasks) /\ RangeOf(level) = {level[i]} \cup RangeOf(l)
         /\ Injective(level) => Injective(l) /\ level[i] \notin RangeOf(l)
<1>1. PICK n \in Nat : n = Len(level)
  OBVIOUS
<1>2. PICK a : a = SubSeq(level, 1, i - 1)
  OBVIOUS
<1>3. PICK b : b = SubSeq(level, i + 1, n)
  OBVIOUS
<1>4. i \in 1..n /\ i - 1 \in Nat /\ n - i \in Nat /\ \A j \in 1..n : level[j] \in Tasks
  BY <1>1
<1>5. /\ a \in Seq(Tasks) /\ Len(a) = i - 1 /\ \A j \in 1..(i - 1) : a[j] = level[j]
  <2>1. a = [j \in 1..(i - 1) |-> level[j]]
    BY <1>2, <1>4
  <2>2. \A j \in 1..(i - 1) : level[j] \in Tasks
    BY <1>4
  <2>3. a \in [1..(i - 1) -> Tasks]
    BY <2>1, <2>2
  <2> QED BY <1>4, <2>1, <2>3
<1>6. /\ b \in Seq(Tasks) /\ Len(b) = n - i /\ \A j \in 1..(n - i) : b[j] = level[i + j]
  <2>1. b = [j \in 1..(n - i) |-> level[i + j]]
    BY <1>1, <1>3, <1>4
  <2>2. \A j \in 1..(n - i) : level[i + j] \in Tasks
    BY <1>4
  <2>3. b \in [1..(n - i) -> Tasks]
    BY <2>1, <2>2
  <2> QED BY <1>4, <2>1, <2>3
<1>7. l = a \o b
  BY <1>1, <1>2, <1>3 DEF Without
<1>8. /\ l \in Seq(Tasks) /\ Len(l) = Len(a) + Len(b)
      /\ \A j \in 1..Len(a) : j \in 1..Len(l) /\ l[j] = a[j]
      /\ \A j \in 1..Len(b) : j + Len(a) \in 1..Len(l) /\ l[j + Len(a)] = b[j]
      /\ \A j \in 1..Len(l) : \/ j \in 1..Len(a)
                              \/ j > Len(a) /\ j - Len(a) \in 1..Len(b)
      /\ RangeOf(l) = RangeOf(a) \cup RangeOf(b)
  <2>1. a \in Seq(Tasks) /\ b \in Seq(Tasks)
    BY <1>5, <1>6
  <2> QED BY <1>7, <2>1, RangeOfConcat
\* Where the task at position j of l stood in the level.
<1> DEFINE Was(j) == IF j <= i - 1 THEN j ELSE j + 1
<1>9. ASSUME NEW j \in 1..Len(l) PROVE Was(j) \in 1..n /\ Was(j) # i /\ l[j] = level[Was(j)]
  <2>1. CASE j \in 1..Len(a)
    <3>1. j \in 1..(i - 1) /\ l[j] = level[j]
      BY <1>5, <1>8, <2>1
    <3>2. Was(j) = j /\ j \in 1..n /\ j # i
      BY <1>4, <3>1
    <3> QED BY <3>1, <3>2
  <2>2. CASE j > Len(a) /\ j - Len(a) \in 1..Len(b)
    <3>1. PICK k : k = j - (i - 1)
      OBVIOUS
    <3>2. j \in Nat /\ j > i - 1 /\ k \in 1..(n - i)
      BY <1>5, <1>6, <1>8, <2>2, <3>1
    <3>3. k + (i - 1) = j /\ i + k = j + 1
      BY <1>4, <3>1, <3>2
    <3>4. l[j] = b[k] /\ b[k] = level[i + k]
      BY <1>5, <1>6, <1>8, <3>2, <3>3
    <3>5. Was(j) = j + 1 /\ j + 1 \in 1..n /\ j + 1 # i
      BY <1>4, <3>2, <3>3
    <3> QED BY <3>3, <3>4, <3>5
  <2> QED BY <1>8, <2>1, <2>2
<1>10. RangeOf(level) \subseteq {level[i]} \cup RangeOf(l)
  <2> SUFFICES ASSUME NEW j \in 1..n, j # i PROVE level[j] \in RangeOf(l)
    BY <1>1 DEF RangeOf
  <2>1. CASE j <= i - 1
    <3>1. j \in 1..Len(a) /\ a[j] = level[j]
      BY <1>4, <1>5, <2>1
    <3> QED BY <1>8, <3>1 DEF RangeOf
  <2>2. CASE ~(j <= i - 1)
    <3>1. PICK k : k = j - i
      OBVIOUS
    <3>2. k \in 1..Len(b) /\ i + k = j /\ k \in 1..(n - i)
      BY <1>4, <1>6, <2>2, <3>1
    <3>3. b[k] = level[j]
      BY <1>6, <3>2
    <3> QED BY <1>8, <3>2, <3>3 DEF RangeOf
  <2> QED BY <2>1, <2>2
<1>11. RangeOf(l) \subseteq RangeOf(level) /\ level[i] \in RangeOf(level)
  <2>1. \A j \in 1..Len(l) : l[j] \in RangeOf(level)
    <3> TAKE j \in 1..Len(l)
    <3>1. Was(j) \in 1..n /\ l[j] = level[Was(j)]
      BY <1>9
    <3> HIDE DEF Was
    <3> QED BY <1>1, <3>1 DEF RangeOf
  <2>2. level[i] \in RangeOf(level)
    BY <1>1, <1>4 DEF RangeOf
  <2> QED BY <2>1, <2>2 DEF RangeOf
<1>12. ASSUME Injective(level) PROVE Injective(l) /\ level[i] \notin RangeOf(l)
  <2>1. \A j, k \in 1..n : level[j] = level[k] => j = k
    BY <1>1, <1>12 DEF Injective
  <2>2. ASSUME NEW j \in 1..Len(l), NEW k \in 1..Len(l), l[j] = l[k] PROVE j = k
    <3>1. /\ Was(j) \in 1..n /\ l[j] = level[Was(j)]
          /\ Was(k) \in 1..n /\ l[k] = level[Was(k)]
      BY <1>9
    <3>2. Was(j) = Was(k)
      <4> HIDE DEF Was
      <4> QED BY <2>1, <2>2, <3>1
    <3>3. j \in Nat /\ k \in Nat
      BY <1>8
    <3> QED BY <1>4, <3>2, <3>3
  <2>3. ASSUME NEW j \in 1..Len(l) PROVE l[j] # level[i]
    <3>1. Was(j) \in 1..n /\ Was(j) # i /\ l[j] = level[Was(j)]
      BY <1>9
    <3> HIDE DEF Was
    <3> QED BY <1>4, <2>1, <3>1
  <2> QED BY <2>2, <2>3 DEF Injective, RangeOf
<1> QED BY <1>8, <1>10, <1>11, <1>12

LEMMA DealTaskOfLevelInv == ASSUME BuilderInv, DealTaskOfLevel PROVE BuilderInv'
<1>1. /\ stage = "deal" /\ kind = "measured" /\ levels # <<>>
      /\ UNCHANGED <<sortVars, kind, stage, pos, time, ready, inLeft, required>>
  BY DEF DealTaskOfLevel
<1>2. PICK s : s = schedule
  OBVIOUS
<1>3. PICK ls : ls = levels
  OBVIOUS
<1>4. PICK r : r = schedule'
  OBVIOUS
<1>5. /\ s \in [Threads -> Seq(Tasks)] /\ ls \in Seq(Seq(Tasks)) /\ ls # <<>> /\ LevelDeal(s, ls)
      /\ Injective(decl.list) => LevelOnce(s, ls)
  BY <1>1, <1>2, <1>3 DEF BuilderInv, BuilderTypes, DealInv
<1>6. time \in [Tasks -> Nat] /\ NumLevels \in Nat
  BY <1>1, LevelsOfSorted
<1>7. Head(ls) \in Seq(Tasks) /\ Head(ls) = ls[1] /\ 1 \in 1..Len(ls)
  BY <1>5
<1>8. CASE Head(levels) = <<>> /\ levels' = Tail(levels) /\ UNCHANGED schedule
  <2>1. /\ Tail(ls) \in Seq(Seq(Tasks)) /\ LevelDeal(s, Tail(ls))
        /\ LevelOnce(s, ls) => LevelOnce(s, Tail(ls))
    BY <1>3, <1>5, <1>6, <1>8, LevelDropped
  <2>2. schedule' = s /\ levels' = Tail(ls)
    BY <1>2, <1>3, <1>8
  <2> QED BY <1>1, <1>5, <2>1, <2>2, DealtInv
<1>9. ASSUME NEW i \in 1..Len(Head(ls)), NEW th \in Threads,
             schedule' = [schedule EXCEPT ![th] = Append(@, Head(levels)[i])],
             levels' = [levels EXCEPT ![1] = SubSeq(@, 1, i - 1) \o SubSeq(@, i + 1, Len(@))]
      PROVE  BuilderInv'
  <2>1. PICK level : level = ls[1]
    OBVIOUS
  <2>2. PICK l : l = Without(level, i)
    OBVIOUS
  <2>3. PICK t : t = level[i]
    OBVIOUS
  <2>4. level \in Seq(Tasks) /\ i \in 1..Len(level) /\ t \in Tasks
    BY <1>7, <2>1, <2>3
  <2>5. /\ l \in Seq(Tasks) /\ RangeOf(level) = {t} \cup RangeOf(l)
        /\ Injective(level) => Injective(l) /\ t \notin RangeOf(l)
    BY <2>2, <2>3, <2>4, WithoutOne
  <2>6. r = GivenTo(s, th, t)
    BY <1>2, <1>3, <1>4, <1>7, <1>9, <2>1, <2>3 DEF GivenTo
  <2>7. /\ r \in [Threads -> Seq(Tasks)] /\ Grown(s, r)
        /\ \E e : NewIn(s, r) = {e} /\ At(r, e) = t /\ \A f \in EntriesOf(r) : ~Earlier(e, f)
    BY <1>5, <2>4, <2>6, OneGiven
  <2>8. NewTasks(s, r) = {t} /\ \A e, f \in NewIn(s, r) : At(r, e) = At(r, f) => e = f
    BY <2>7 DEF NewTasks
  <2> DEFINE ls2 == FirstLeft(ls, l)
  <2> HIDE DEF ls2
  <2>9. levels' = ls2
    BY <1>3, <1>5, <1>9, <2>1, <2>2 DEF ls2, FirstLeft, Without
  <2>10. RangeOf(ls[1]) = NewTasks(s, r) \cup RangeOf(l)
    BY <2>1, <2>5, <2>8
  <2>11. /\ ls2 \in Seq(Seq(Tasks)) /\ LevelDeal(r, ls2)
         /\ LevelOnce(s, ls) /\ Injective(l) /\ NewTasks(s, r) \cap RangeOf(l) = {}
              /\ (\A e, f \in NewIn(s, r) : At(r, e) = At(r, f) => e = f)
            => LevelOnce(r, ls2)
    <3>1. ls2 = FirstLeft(ls, l)
      BY DEF ls2
    <3> QED BY <1>5, <1>6, <2>5, <2>7, <2>10, <3>1, LevelGiven
  <2>12. ASSUME Injective(decl.list) PROVE LevelOnce(r, ls2)
    <3>1. LevelOnce(s, ls)
      BY <1>5, <2>12
    <3>2. Injective(level)
      BY <1>7, <2>1, <3>1 DEF LevelOnce
    <3> QED BY <2>5, <2>8, <2>11, <3>1, <3>2
  <2> QED BY <1>1, <1>4, <2>7, <2>9, <2>11, <2>12, DealtInv
<1> QED BY <1>3, <1>8, <1>9 DEF DealTaskOfLevel

\* What has no edge to it is in front of the schedule.
LEMMA StartListInv == ASSUME BuilderInv, StartList PROVE BuilderInv'
<1>1. /\ stage = "sort" /\ phase = "sorted" /\ kind = "list" /\ stage' = "deal"
      /\ inLeft' = inEdges
      /\ ready' = {sorted[i] : i \in {n \in 1..Len(sorted) :
                                        \A m \in 1..n : inEdges[sorted[m]] = {}}}
      /\ UNCHANGED <<sortVars, kind, pos, time, levels, schedule, required>>
  BY DEF StartList
<1>2. Inv' /\ LineInv'
  BY <1>1, SortKept
<1>3. Inv /\ LineInv /\ schedule = [th \in Threads |-> <<>>]
  BY <1>1 DEF BuilderInv, StageInv
<1>4. sorted \in Seq(Tasks) /\ Len(sorted) \in Nat /\ inEdges \in [Nodes -> SUBSET Nodes]
  BY <1>1, <1>3, SortedFacts
<1>5. EntriesOf(schedule) = {} /\ Dealt(schedule) = {} /\ NoneTwice(schedule)
  BY <1>3, NoEntries
<1>6. PICK rd : rd = ready'
  OBVIOUS
<1>7. \A u : u \in rd <=> \E i \in 1..Len(sorted) : u = sorted[i] /\ \A m \in 1..i : inEdges[sorted[m]] = {}
  BY <1>1, <1>6
<1>8. \A u \in rd : u \in RangeOf(sorted) /\ inEdges[u] = {}
  <2> TAKE u \in rd
  <2>1. PICK i \in 1..Len(sorted) : u = sorted[i] /\ \A m \in 1..i : inEdges[sorted[m]] = {}
    BY <1>7
  <2>2. i \in 1..i
    BY <1>4
  <2> QED BY <2>1, <2>2 DEF RangeOf
<1>9. ASSUME NEW u \in RangeOf(sorted), inEdges[u] = {} PROVE u \in rd
  <2>1. PICK i \in 1..Len(sorted) : u = sorted[i]
    BY DEF RangeOf
  <2>2. ASSUME NEW m \in 1..i PROVE inEdges[sorted[m]] = {}
    <3>1. m \in 1..Len(sorted) /\ (m < i \/ m = i)
      BY <1>4
    <3> QED BY <1>1, <1>3, <1>9, <2>1, <3>1, SortedFacts
  <2> QED BY <1>7, <2>1, <2>2
<1>10. ListDeal(schedule, rd)
  <2>1. [e \in EntriesOf(schedule) |-> 0] \in [EntriesOf(schedule) -> 0..0]
    OBVIOUS
  <2>2. \E n \in Nat : \E rank \in [EntriesOf(schedule) -> 0..n] :
          \A e, f \in EntriesOf(schedule) :
            At(schedule, e) \in inEdges[At(schedule, f)] \/ Earlier(e, f) => rank[e] < rank[f]
    BY <1>5, <2>1
  <2>3. \A u \in RangeOf(sorted) : inEdges[u] \subseteq {} => u \in rd
    BY <1>9
  <2> QED BY <1>5, <1>8, <2>2, <2>3 DEF ListDeal
<1>11. BuilderTypes'
  <2>1. ready' \subseteq Tasks
    BY <1>4, <1>6, <1>8 DEF RangeOf
  <2> QED BY <1>1, <1>4, <2>1 DEF BuilderInv, BuilderTypes
<1>12. StageInv' /\ LevelInv' /\ FilledInv'
  BY <1>1 DEF sortVars, BuilderInv, StageInv, LevelInv, FilledInv
<1>13. DealInv'
  <2>1. inEdges' = inEdges /\ sorted' = sorted /\ schedule' = schedule
    BY <1>1 DEF sortVars
  <2>2. inLeft' = [u \in Nodes |-> inEdges[u] \ Dealt(schedule)]
    BY <1>1, <1>4, <1>5
  <2>3. ListDeal(schedule, ready)'
    BY <1>6, <1>10, <2>1 DEF ListDeal
  <2> QED BY <1>1, <2>1, <2>2, <2>3 DEF DealInv
<1> QED BY <1>2, <1>11, <1>12, <1>13 DEF BuilderInv

LEMMA DealReadyTaskInv ==
  ASSUME BuilderInv, NEW t \in Tasks, NEW th \in Threads, DealReadyTask(t, th)
  PROVE  BuilderInv'
<1>1. /\ stage = "deal" /\ kind = "list" /\ t \in ready
      /\ schedule' = [schedule EXCEPT ![th] = Append(@, t)]
      /\ inLeft' = [u \in Nodes |-> inLeft[u] \ {t}]
      /\ ready' = (ready \ {t}) \cup {u \in RangeOf(sorted) : t \in inEdges[u] /\ inLeft'[u] = {}}
      /\ UNCHANGED <<sortVars, kind, stage, pos, time, levels, required>>
  BY DEF DealReadyTask, NowReady
<1>2. Inv' /\ LineInv'
  BY <1>1, SortKept
<1>3. /\ Inv /\ LineInv /\ phase = "sorted" /\ schedule \in [Threads -> Seq(Tasks)]
      /\ ready \subseteq Tasks /\ ListDeal(schedule, ready)
      /\ inLeft = [u \in Nodes |-> inEdges[u] \ Dealt(schedule)]
  BY <1>1 DEF BuilderInv, StageInv, BuilderTypes, DealInv
<1>4. sorted \in Seq(Tasks) /\ inEdges \in [Nodes -> SUBSET Nodes]
  BY <1>3, SortedFacts
<1>5. t \notin inEdges[t]
  <2>1. t \in RangeOf(sorted)
    BY <1>1, <1>3 DEF ListDeal
  <2> QED BY <1>3, <2>1, SortedFacts
<1>6. PICK s : s = schedule
  OBVIOUS
<1>7. PICK r : r = schedule'
  OBVIOUS
<1>8. PICK rd : rd = ready
  OBVIOUS
<1> DEFINE rd2 == ReadyAfter(t, rd, Dealt(r))
<1> HIDE DEF rd2
<1>9. r = GivenTo(s, th, t)
  BY <1>1, <1>6, <1>7 DEF GivenTo
<1>10. /\ r \in [Threads -> Seq(Tasks)] /\ ListDeal(r, rd2)
       /\ Dealt(r) = Dealt(s) \cup {t}
  <2>1. s \in [Threads -> Seq(Tasks)] /\ ListDeal(s, rd) /\ t \in rd
    BY <1>1, <1>3, <1>6, <1>8
  <2>2. rd2 = ReadyAfter(t, rd, Dealt(r))
    BY DEF rd2
  <2> QED BY <1>5, <1>9, <2>1, <2>2, ListGiven
<1>11. inLeft' = [u \in Nodes |-> inEdges[u] \ Dealt(r)]
  BY <1>1, <1>3, <1>6, <1>10
<1>12. ready' = rd2
  <2>1. \A u \in RangeOf(sorted) : u \in Nodes
    BY <1>4 DEF RangeOf, Nodes
  <2>2. \A u \in RangeOf(sorted) : inLeft'[u] = {} <=> inEdges[u] \subseteq Dealt(r)
    BY <1>11, <2>1
  <2> QED BY <1>1, <1>8, <2>2 DEF rd2, ReadyAfter
<1>13. BuilderTypes'
  <2>1. ready' \subseteq Tasks
    BY <1>1, <1>3, <1>4 DEF RangeOf
  <2>2. inLeft' \in [Nodes -> SUBSET Nodes]
    BY <1>4, <1>11
  <2> QED BY <1>1, <1>7, <1>10, <2>1, <2>2 DEF BuilderInv, BuilderTypes
<1>14. StageInv' /\ LevelInv' /\ FilledInv'
  BY <1>1 DEF sortVars, BuilderInv, StageInv, LevelInv, FilledInv
<1>15. DealInv'
  <2>1. inEdges' = inEdges /\ sorted' = sorted /\ schedule' = r
    BY <1>1, <1>7 DEF sortVars
  <2>2. ListDeal(schedule, ready)'
    BY <1>10, <1>12, <2>1 DEF ListDeal
  <2>3. (inLeft = [u \in Nodes |-> inEdges[u] \ Dealt(schedule)])'
    BY <1>11, <2>1
  <2> QED BY <1>1, <2>2, <2>3 DEF DealInv
<1> QED BY <1>2, <1>13, <1>14, <1>15 DEF BuilderInv

LEMMA FinishScheduleInv == ASSUME BuilderInv, FinishSchedule PROVE BuilderInv'
<1>1. /\ stage = "deal" /\ stage' = "done"
      /\ IF kind = "list" THEN ready = {} ELSE levels = <<>>
      /\ required' = [e \in Entries |-> RequiredBy(e)]
      /\ UNCHANGED <<sortVars, kind, pos, time, levels, ready, inLeft, schedule>>
  BY DEF FinishSchedule
<1>2. Inv' /\ LineInv'
  BY <1>1, SortKept
<1>3. BuilderTypes'
  BY <1>1 DEF BuilderInv, BuilderTypes
<1>4. (required = [e \in Entries |-> RequiredBy(e)])'
  BY <1>1 DEF sortVars, Entries, RequiredBy, CounterOf, TaskOf
<1>5. StageInv'
  BY <1>1, <1>4 DEF sortVars, BuilderInv, StageInv
<1>6. FilledInv'
  BY <1>1 DEF FilledInv
<1>7. LevelInv'
  BY <1>1 DEF sortVars, BuilderInv, LevelInv, LevelAt
<1>8. DealInv'
  BY <1>1 DEF sortVars, BuilderInv, DealInv, ListDeal, LevelDeal, NumLevels
<1> QED BY <1>2, <1>3, <1>5, <1>6, <1>7, <1>8 DEF BuilderInv

LEMMA BuilderNextInv == ASSUME BuilderInv, [BuilderNext]_vars PROVE BuilderInv'
<1>1. ASSUME UNCHANGED vars PROVE BuilderInv'
  <2>1. Inv' /\ LineInv'
    BY <1>1, SortKept DEF vars
  <2>2. BuilderTypes' /\ FilledInv'
    BY <1>1 DEF vars, sortVars, dealVars, BuilderInv, BuilderTypes, FilledInv, NumLevels
  <2>3. StageInv'
    BY <1>1 DEF vars, sortVars, dealVars, BuilderInv, StageInv, Entries, RequiredBy, CounterOf, TaskOf
  <2>4. LevelInv'
    BY <1>1 DEF vars, sortVars, dealVars, BuilderInv, LevelInv, LevelAt
  <2>5. DealInv'
    BY <1>1 DEF vars, sortVars, dealVars, BuilderInv, DealInv, ListDeal, LevelDeal, NumLevels
  <2> QED BY <2>1, <2>2, <2>3, <2>4, <2>5 DEF BuilderInv
<1> QED
  BY <1>1, SortTasksInv, NoScheduleInv, StartLevelsInv, AssignLevelInv, ResizeLevelsInv,
     FillLevelInv, DealLevelEvenlyInv, DealTaskOfLevelInv, StartListInv, DealReadyTaskInv,
     FinishScheduleInv
  DEF BuilderNext, Created

(***************************************************************************)
(* The schedule builder, with any number of threads.                       *)
(***************************************************************************)
THEOREM BuilderInvariance == BuilderSpec => []BuilderInv
BY BuilderInitInv, BuilderNextInv, PTL DEF BuilderSpec

-----------------------------------------------------------------------------
(* The finished schedule.                                                  *)

LEMMA EntriesFinite ==
  ASSUME schedule \in [Threads -> Seq(Tasks)]
  PROVE  /\ Entries = EntriesOf(schedule) /\ IsFiniteSet(Entries)
         /\ \A e \in Entries : e[1] \in Threads /\ e[2] \in 1..Len(schedule[e[1]])
         /\ \A e \in Entries : TaskOf(e) = At(schedule, e) /\ TaskOf(e) \in Tasks
<1> DEFINE F == [th \in Threads |-> {th} \X (1..Len(schedule[th]))]
           Parts == {F[th] : th \in Threads}
<1>1. \A th \in Threads : Len(schedule[th]) \in Nat
  OBVIOUS
<1>2. Entries = UNION Parts
  BY DEF Entries
<1>3. ASSUME NEW e \in Entries PROVE e \in EntriesOf(schedule)
  <2>1. PICK th \in Threads : e \in {th} \X (1..Len(schedule[th]))
    BY DEF Entries
  <2>2. e[1] = th /\ e[2] \in 1..Len(schedule[th]) /\ e = <<e[1], e[2]>>
    BY <2>1
  <2>3. e \in Threads \X Nat
    BY <1>1, <2>2
  <2> QED BY <2>2, <2>3 DEF EntriesOf
<1>4. ASSUME NEW e \in EntriesOf(schedule) PROVE e \in Entries
  <2>1. e \in Threads \X Nat /\ e[2] \in 1..Len(schedule[e[1]])
    BY DEF EntriesOf
  <2>2. e[1] \in Threads /\ e \in {e[1]} \X (1..Len(schedule[e[1]]))
    BY <2>1
  <2> QED BY <2>2 DEF Entries
<1>5. IsFiniteSet(Threads)
  BY BuilderAssumption, FS_Interval DEF Threads
<1>6. ASSUME NEW th \in Threads PROVE IsFiniteSet(F[th])
  <2>1. IsFiniteSet({th}) /\ IsFiniteSet(1..Len(schedule[th]))
    <3>1. 1 \in Int /\ Len(schedule[th]) \in Int
      BY <1>1
    <3> QED BY <3>1, FS_Singleton, FS_Interval
  <2> QED BY <2>1, FS_Product
<1>7. F \in Surjection(Threads, Parts)
  BY DEF Surjection
<1>8. IsFiniteSet(Parts)
  BY <1>5, <1>7, FS_Surjection
<1>9. \A T \in Parts : IsFiniteSet(T)
  BY <1>6
<1> HIDE DEF F, Parts
<1>10. IsFiniteSet(Entries)
  BY <1>2, <1>8, <1>9, FS_UNION
<1>11. \A e \in Entries : e[1] \in Threads /\ e[2] \in 1..Len(schedule[e[1]])
  BY <1>3 DEF EntriesOf
<1>12. \A e \in Entries : TaskOf(e) = At(schedule, e) /\ TaskOf(e) \in Tasks
  BY <1>11 DEF TaskOf, At
<1> QED BY <1>3, <1>4, <1>10, <1>11, <1>12

\* Every task of the sorted schedule is dealt, and no other one.
LEMMA AllDealt ==
  ASSUME BuilderInv, stage = "done"
  PROVE  Dealt(schedule) = RangeOf(sorted)
<1>1. Inv /\ LineInv /\ phase = "sorted"
  BY DEF BuilderInv, StageInv
<1>2. sorted \in Seq(Tasks) /\ Len(sorted) \in Nat
  BY <1>1, SortedFacts
<1>3. CASE kind # "list"
  <2>1. LevelDeal(schedule, levels) /\ levels = <<>>
    BY <1>3 DEF BuilderInv, StageInv, DealInv
  <2>2. \A k \in 1..Len(levels) : FALSE
    BY <2>1, EmptyRange
  <2>3. \A e \in EntriesOf(schedule) : At(schedule, e) \in RangeOf(sorted)
    BY <2>1 DEF LevelDeal
  <2>4. \A t \in RangeOf(sorted) : t \in Dealt(schedule)
    BY <2>1, <2>2 DEF LevelDeal
  <2>5. Dealt(schedule) \subseteq RangeOf(sorted)
    BY <2>3 DEF Dealt
  <2> QED BY <2>4, <2>5
<1>4. CASE kind = "list"
  <2>1. ListDeal(schedule, ready) /\ ready = {}
    BY <1>4 DEF BuilderInv, StageInv, DealInv
  <2>2. /\ Dealt(schedule) \subseteq RangeOf(sorted)
        /\ \A u \in RangeOf(sorted) : inEdges[u] \subseteq Dealt(schedule) => u \in Dealt(schedule)
    BY <2>1 DEF ListDeal
  <2> DEFINE Missing == {i \in 1..Len(sorted) : sorted[i] \notin Dealt(schedule)}
  <2>3. Missing = {}
    <3> SUFFICES ASSUME Missing # {} PROVE FALSE
      OBVIOUS
    <3>1. Missing \in SUBSET Nat
      BY <1>2
    <3>2. PICK i \in Missing : \A j \in Missing : i <= j
      <4> HIDE DEF Missing
      <4> QED BY <3>1, SmallestOf
    <3>3. i \in 1..Len(sorted) /\ sorted[i] \notin Dealt(schedule) /\ sorted[i] \in RangeOf(sorted)
      BY DEF RangeOf
    <3>4. \A u \in inEdges[sorted[i]] : u \in Dealt(schedule)
      <4> TAKE u \in inEdges[sorted[i]]
      <4>1. PICK j \in 1..Len(sorted) : sorted[j] = u /\ j < i
        BY <1>1, <3>3, Before
      <4>2. ~(i <= j)
        BY <1>2, <3>3, <4>1
      <4> QED BY <3>2, <4>1, <4>2
    <3> QED BY <2>2, <3>3, <3>4
  <2>4. \A i \in 1..Len(sorted) : sorted[i] \in Dealt(schedule)
    BY <2>3
  <2>5. RangeOf(sorted) \subseteq Dealt(schedule)
    BY <2>4 DEF RangeOf
  <2> QED BY <2>2, <2>5
<1> QED BY <1>3, <1>4

(***************************************************************************)
(* levelSchedule() indexes no level beyond the vector it has resized for   *)
(* the level of the last task: the sort is breadth-first.                  *)
(***************************************************************************)
THEOREM LevelsInVector == BuilderSpec => []LevelsFit
<1>1. BuilderInv => LevelsFit
  <2> SUFFICES ASSUME BuilderInv, stage = "fill"
               PROVE  \A i \in 1..Len(sorted) : time[sorted[i]] + 1 \in 1..Len(levels)
    BY DEF LevelsFit
  <2>1. kind # "list" /\ Len(levels) = NumLevels
    BY DEF BuilderInv, StageInv, FilledInv
  <2> QED BY <2>1, LevelsOfSorted
<1> QED BY <1>1, BuilderInvariance, PTL

(***************************************************************************)
(* Every task of the sorted schedule is dealt to one thread, once, by each *)
(* kind of scheduler, if it was declared once; the list scheduler needs    *)
(* not even that.                                                          *)
(***************************************************************************)
THEOREM Dealing ==
  BuilderSpec => [](kind = "list" \/ Injective(decl.list) => DealtOnce)
<1>1. BuilderInv => (kind = "list" \/ Injective(decl.list) => DealtOnce)
  <2> SUFFICES ASSUME BuilderInv, stage = "done", kind = "list" \/ Injective(decl.list),
                      NEW t \in Tasks
               PROVE  Cardinality({e \in Entries : TaskOf(e) = t})
                        = IF t \in RangeOf(sorted) THEN 1 ELSE 0
    BY DEF DealtOnce
  <2>1. schedule \in [Threads -> Seq(Tasks)]
    BY DEF BuilderInv, BuilderTypes
  <2>2. /\ Entries = EntriesOf(schedule)
        /\ \A e \in Entries : TaskOf(e) = At(schedule, e)
    BY <2>1, EntriesFinite
  <2>3. NoneTwice(schedule)
    <3>1. CASE kind = "list"
      BY <3>1 DEF BuilderInv, DealInv, ListDeal
    <3>2. CASE kind # "list"
      BY <3>2 DEF BuilderInv, DealInv, LevelOnce
    <3> QED BY <3>1, <3>2
  <2>4. Dealt(schedule) = RangeOf(sorted)
    BY AllDealt
  <2> DEFINE S == {e \in Entries : TaskOf(e) = t}
  <2>5. CASE t \in RangeOf(sorted)
    <3>1. PICK e \in Entries : TaskOf(e) = t
      BY <2>2, <2>4, <2>5 DEF Dealt
    <3>2. \A f \in Entries : TaskOf(f) = t => f = e
      BY <2>2, <2>3, <3>1 DEF NoneTwice
    <3>3. S = {e}
      BY <3>1, <3>2
    <3> QED BY <2>5, <3>3, FS_Singleton
  <2>6. CASE t \notin RangeOf(sorted)
    <3>1. S = {}
      BY <2>2, <2>4, <2>6 DEF Dealt
    <3> QED BY <2>6, <3>1, FS_EmptySet
  <2> QED BY <2>5, <2>6
<1> QED BY <1>1, BuilderInvariance, PTL

StrictOrder(P, E) ==
  /\ P \subseteq E \X E
  /\ \A e \in E : <<e, e>> \notin P
  /\ \A e, f, g \in E : <<e, f>> \in P /\ <<f, g>> \in P => <<e, g>> \in P

\* A finite set can be ranked along any strict order on it.
LEMMA Ranking ==
  ASSUME NEW E, IsFiniteSet(E), NEW P, StrictOrder(P, E)
  PROVE  \E rank \in [E -> 1..Cardinality(E)] :
           \A e, f \in E : <<e, f>> \in P => rank[e] < rank[f]
<1> DEFINE Upto(e) == {f \in E : f = e \/ <<f, e>> \in P}
           rank == [e \in E |-> Cardinality(Upto(e))]
<1> USE DEF StrictOrder
<1>1. ASSUME NEW e \in E
      PROVE  /\ IsFiniteSet(Upto(e)) /\ Cardinality(Upto(e)) \in 1..Cardinality(E)
             /\ rank[e] = Cardinality(Upto(e))
  <2>1. Upto(e) \in SUBSET E /\ Upto(e) # {}
    OBVIOUS
  <2> DEFINE U == Upto(e)
  <2>2. rank[e] = Cardinality(U)
    OBVIOUS
  <2> HIDE DEF U, Upto
  <2>3. IsFiniteSet(U) /\ Cardinality(U) <= Cardinality(E)
    BY <2>1, FS_Subset DEF U
  <2>4. Cardinality(U) \in Nat /\ Cardinality(U) # 0 /\ Cardinality(E) \in Nat
    BY <2>1, <2>3, FS_EmptySet, FS_CardinalityType DEF U
  <2>5. Cardinality(U) \in 1..Cardinality(E)
    BY <2>3, <2>4
  <2> QED BY <2>2, <2>3, <2>5 DEF U
<1>2. ASSUME NEW e \in E, NEW f \in E, <<e, f>> \in P
      PROVE  rank[e] < rank[f]
  <2>1. Upto(e) \in SUBSET Upto(f) /\ f \in Upto(f)
    BY <1>2
  <2>2. f \notin Upto(e)
    <3>1. f # e
      BY <1>2
    <3>2. <<f, e>> \notin P
      BY <1>2
    <3> QED BY <3>1, <3>2
  <2> DEFINE A == Upto(e) B == Upto(f)
  <2>3. A \in SUBSET B /\ A # B
    BY <2>1, <2>2
  <2>4. /\ IsFiniteSet(A) /\ IsFiniteSet(B) /\ rank[e] = Cardinality(A) /\ rank[f] = Cardinality(B)
    BY <1>1
  <2> HIDE DEF A, B, rank
  <2>5. Cardinality(A) \in Nat /\ Cardinality(B) \in Nat
    BY <2>4, FS_CardinalityType
  <2>6. Cardinality(A) <= Cardinality(B) /\ Cardinality(A) # Cardinality(B)
    BY <2>3, <2>4, FS_Subset
  <2> QED BY <2>4, <2>5, <2>6
<1>3. rank \in [E -> 1..Cardinality(E)]
  BY <1>1
<1> QED BY <1>2, <1>3

\* Every dealt task has a counter to wait for.
LEMMA CounterFound ==
  ASSUME schedule \in [Threads -> Seq(Tasks)], NEW t \in Dealt(schedule)
  PROVE  CounterOf(t) # {} /\ \A e \in CounterOf(t) : e \in Entries /\ TaskOf(e) = t
<1>1. /\ Entries = EntriesOf(schedule)
      /\ \A e \in Entries : e[1] \in Threads /\ e[2] \in 1..Len(schedule[e[1]])
      /\ \A e \in Entries : TaskOf(e) = At(schedule, e)
  BY EntriesFinite
<1> DEFINE Holding == {th \in Threads : \E i \in 1..Len(schedule[th]) : schedule[th][i] = t}
<1>2. Holding \in SUBSET (0..NumThreads) /\ Holding # {} /\ NumThreads \in Nat
  <2>1. PICK e \in Entries : TaskOf(e) = t
    BY <1>1 DEF Dealt
  <2>2. e[1] \in Holding
    BY <1>1, <2>1 DEF TaskOf
  <2> QED BY <2>2, BuilderAssumption DEF Threads
<1>3. PICK th \in Holding : \A h \in Holding : h <= th
  <2> HIDE DEF Holding
  <2> QED BY <1>2, LargestOf
<1>4. th \in Threads /\ Len(schedule[th]) \in Nat
  OBVIOUS
<1> DEFINE Places == {i \in 1..Len(schedule[th]) : schedule[th][i] = t}
<1>5. Places \in SUBSET (0..Len(schedule[th])) /\ Places # {}
  BY <1>4
<1>6. PICK i \in Places : \A j \in Places : j <= i
  <2> HIDE DEF Places
  <2> QED BY <1>4, <1>5, LargestOf
<1>7. i \in 1..Len(schedule[th]) /\ schedule[th][i] = t /\ i \in Nat
  BY <1>4
<1>8. PICK e : e = <<th, i>>
  OBVIOUS
<1>9. e \in Entries /\ e[1] = th /\ e[2] = i /\ TaskOf(e) = t
  BY <1>1, <1>4, <1>7, <1>8 DEF EntriesOf, TaskOf
<1>10. ASSUME NEW f \in Entries, TaskOf(f) = t
       PROVE  f[1] < e[1] \/ (f[1] = e[1] /\ f[2] <= e[2])
  <2>1. f[1] \in Threads /\ f[2] \in 1..Len(schedule[f[1]]) /\ schedule[f[1]][f[2]] = t
    BY <1>1, <1>10 DEF TaskOf
  <2>2. f[1] \in Holding
    BY <2>1
  <2>3. f[1] <= th /\ f[1] \in Int /\ th \in Int
    BY <1>3, <1>4, <2>1, <2>2, BuilderAssumption DEF Threads
  <2>4. f[1] = th => f[2] \in Places
    BY <2>1
  <2>5. f[1] = th => f[2] <= i
    BY <1>6, <2>4
  <2> QED BY <1>9, <2>3, <2>5
<1>11. e \in CounterOf(t)
  BY <1>9, <1>10 DEF CounterOf
<1> QED BY <1>11 DEF CounterOf

LEMMA DoneExecutable ==
  ASSUME BuilderInv, stage = "done"
  PROVE  /\ \A e \in Entries : {TaskOf(r) : r \in required[e]} = inEdges[TaskOf(e)]
         /\ \E rank \in [Entries -> 1..Cardinality(Entries)] :
              \A e, f \in Entries :
                (e \in required[f] \/ (e[1] = f[1] /\ e[2] < f[2])) => rank[e] < rank[f]
<1>1. schedule \in [Threads -> Seq(Tasks)] /\ Inv /\ LineInv /\ phase = "sorted"
  BY DEF BuilderInv, BuilderTypes, StageInv
<1>2. /\ Entries = EntriesOf(schedule) /\ IsFiniteSet(Entries)
      /\ \A e \in Entries : TaskOf(e) = At(schedule, e) /\ TaskOf(e) \in Tasks
      /\ \A e \in Entries : e[1] \in Threads /\ e[2] \in 1..Len(schedule[e[1]])
  BY <1>1, EntriesFinite
<1>3. \A e \in Entries : required[e] = UNION {CounterOf(t) : t \in inEdges[TaskOf(e)]}
  BY DEF BuilderInv, StageInv, RequiredBy
<1>4. Dealt(schedule) = RangeOf(sorted)
  BY AllDealt
<1>5. \A e \in Entries : TaskOf(e) \in RangeOf(sorted)
  BY <1>2, <1>4 DEF Dealt
<1>6. ASSUME NEW e \in Entries, NEW t \in inEdges[TaskOf(e)]
      PROVE  CounterOf(t) # {} /\ \A r \in CounterOf(t) : TaskOf(r) = t
  <2>1. t \in RangeOf(sorted)
    BY <1>1, <1>5, SortedFacts
  <2> QED BY <1>1, <1>4, <2>1, CounterFound
<1>7. \A e \in Entries : {TaskOf(r) : r \in required[e]} = inEdges[TaskOf(e)]
  <2> TAKE e \in Entries
  <2>1. \A r \in required[e] : TaskOf(r) \in inEdges[TaskOf(e)]
    BY <1>3, <1>6
  <2>2. ASSUME NEW t \in inEdges[TaskOf(e)] PROVE \E r \in required[e] : TaskOf(r) = t
    <3>1. PICK r \in CounterOf(t) : TaskOf(r) = t
      BY <1>6
    <3> QED BY <1>3, <3>1
  <2> QED BY <2>1, <2>2
<1>8. \A e, f \in Entries : e \in required[f] => TaskOf(e) \in inEdges[TaskOf(f)]
  BY <1>7
<1> SUFFICES \E P :
               /\ StrictOrder(P, Entries)
               /\ \A e, f \in Entries : TaskOf(e) \in inEdges[TaskOf(f)] \/ Earlier(e, f) => <<e, f>> \in P
  <2>1. PICK P :
               /\ StrictOrder(P, Entries)
               /\ \A e, f \in Entries : TaskOf(e) \in inEdges[TaskOf(f)] \/ Earlier(e, f) => <<e, f>> \in P
    OBVIOUS
  <2>2. PICK rank \in [Entries -> 1..Cardinality(Entries)] :
          \A e, f \in Entries : <<e, f>> \in P => rank[e] < rank[f]
    BY <1>2, <2>1, Ranking
  <2>3. \A e, f \in Entries :
          e \in required[f] \/ (e[1] = f[1] /\ e[2] < f[2]) => rank[e] < rank[f]
    BY <1>8, <2>1, <2>2 DEF Earlier
  <2> QED BY <1>7, <2>3
<1>9. CASE kind = "list"
  <2>1. ListDeal(schedule, ready)
    BY <1>9 DEF BuilderInv, DealInv
  <2>2. PICK n \in Nat : \E rank \in [Entries -> 0..n] :
          \A e, f \in Entries :
            At(schedule, e) \in inEdges[At(schedule, f)] \/ Earlier(e, f) => rank[e] < rank[f]
    BY <1>2, <2>1 DEF ListDeal
  <2>3. PICK rank \in [Entries -> 0..n] :
          \A e, f \in Entries :
            At(schedule, e) \in inEdges[At(schedule, f)] \/ Earlier(e, f) => rank[e] < rank[f]
    BY <2>2
  <2> DEFINE P == {p \in Entries \X Entries : rank[p[1]] < rank[p[2]]}
  <2>4. P \in SUBSET (Entries \X Entries)
    OBVIOUS
  <2>5. \A e, f \in Entries : <<e, f>> \in P <=> rank[e] < rank[f]
    OBVIOUS
  <2>6. \A e \in Entries : rank[e] \in Nat
    BY <2>3
  <2> HIDE DEF P
  <2>7. /\ \A e \in Entries : <<e, e>> \notin P
        /\ \A e, f, g \in Entries : <<e, f>> \in P /\ <<f, g>> \in P => <<e, g>> \in P
    BY <2>5, <2>6
  <2>8. \A e, f \in Entries : TaskOf(e) \in inEdges[TaskOf(f)] \/ Earlier(e, f) => <<e, f>> \in P
    BY <1>2, <2>3, <2>5
  <2> QED BY <2>4, <2>7, <2>8 DEF StrictOrder
<1>10. CASE kind # "list"
  <2>1. LevelDeal(schedule, levels)
    BY <1>10 DEF BuilderInv, DealInv
  <2>2. \A e, f \in Entries : Earlier(e, f) => time[TaskOf(e)] <= time[TaskOf(f)]
    BY <1>2, <2>1 DEF LevelDeal
  <2>3. /\ time \in [Tasks -> Nat]
        /\ \A i \in 1..Len(sorted) : LevelAt(time, sorted[i])
    BY <1>10, LevelsOfSorted
  <2>4. \A e \in Entries : time[TaskOf(e)] \in Nat /\ e[2] \in Nat
    BY <1>1, <1>2, <2>3
  <2>5. \A e, f \in Entries : TaskOf(e) \in inEdges[TaskOf(f)] => time[TaskOf(e)] < time[TaskOf(f)]
    <3> SUFFICES ASSUME NEW e \in Entries, NEW f \in Entries, TaskOf(e) \in inEdges[TaskOf(f)]
                 PROVE  time[TaskOf(e)] < time[TaskOf(f)]
      OBVIOUS
    <3>1. PICK i \in 1..Len(sorted) : TaskOf(f) = sorted[i]
      BY <1>5 DEF RangeOf
    <3> QED BY <2>3, <3>1 DEF LevelAt
  <2> DEFINE Lower(e, f) == time[TaskOf(e)] < time[TaskOf(f)]
             P == {p \in Entries \X Entries : Lower(p[1], p[2]) \/ Earlier(p[1], p[2])}
  <2>6. P \in SUBSET (Entries \X Entries)
    OBVIOUS
  <2>7. \A e, f \in Entries : <<e, f>> \in P <=> Lower(e, f) \/ Earlier(e, f)
    <3> HIDE DEF Lower
    <3> QED OBVIOUS
  <2> HIDE DEF P
  <2>8. \A e \in Entries : <<e, e>> \notin P
    BY <2>4, <2>7 DEF Earlier
  <2>9. ASSUME NEW e \in Entries, NEW f \in Entries, NEW g \in Entries,
               <<e, f>> \in P, <<f, g>> \in P
        PROVE  <<e, g>> \in P
    <3>1. /\ time[TaskOf(e)] \in Nat /\ time[TaskOf(f)] \in Nat /\ time[TaskOf(g)] \in Nat
          /\ e[2] \in Nat /\ f[2] \in Nat /\ g[2] \in Nat
      BY <2>4
    <3>2. CASE Lower(e, f) \/ Lower(f, g)
      <4>1. time[TaskOf(e)] <= time[TaskOf(f)] /\ time[TaskOf(f)] <= time[TaskOf(g)]
        BY <2>2, <2>7, <2>9, <3>1
      <4>2. Lower(e, g)
        BY <3>1, <3>2, <4>1
      <4> QED BY <2>7, <4>2
    <3>3. CASE Earlier(e, f) /\ Earlier(f, g)
      <4>1. Earlier(e, g)
        BY <3>1, <3>3 DEF Earlier
      <4> QED BY <2>7, <4>1
    <3> QED BY <2>7, <2>9, <3>2, <3>3
  <2>10. \A e, f \in Entries : TaskOf(e) \in inEdges[TaskOf(f)] \/ Earlier(e, f) => <<e, f>> \in P
    BY <2>5, <2>7
  <2> QED BY <2>6, <2>8, <2>9, <2>10 DEF StrictOrder
<1> QED BY <1>9, <1>10

(***************************************************************************)
(* The threads get through every schedule: each incoming edge has found a  *)
(* counter, and some order of all entries agrees with all threads and all  *)
(* counters, also when a task was declared twice.                          *)
(***************************************************************************)
THEOREM Execution == BuilderSpec => []Executable
<1>1. BuilderInv => Executable
  BY DoneExecutable DEF Executable
<1> QED BY <1>1, BuilderInvariance, PTL

=============================================================================
