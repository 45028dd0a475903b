------------------------- MODULE MCScheduleBuilder -------------------------
(* Model-checking instance of ScheduleBuilder.                             *)
EXTENDS ScheduleBuilder

\* Every graph of tasks 1..4 without cycles and two lists of them: task k
\* writes attribute k, and reads some attributes of tasks with lower numbers.
\* The tasks with effects are the last one or all; attributes are numbers.
Lower == {p \in Tasks \X Tasks : p[1] < p[2]}

AcyclicDeclarations ==
  {[list |-> l,
    reads |-> [t \in Tasks |-> {u \in Tasks : <<u, t>> \in E}],
    writes |-> [t \in Tasks |-> IF t \in X THEN {t, External} ELSE {t}],
    prev |-> [t \in Tasks |-> {}],
    refs |-> [x \in Attributes |-> {}]] :
     l \in {<<1, 2, 3, 4>>, <<4, 2, 3, 1>>}, E \in SUBSET Lower,
     X \in {{}, {4}, {3, 4}, Tasks}}

\* Two tasks that depend on each other.
CyclicDeclaration ==
  [list |-> <<1, 2>>,
   reads |-> [t \in Tasks |-> IF t = 1 THEN {2} ELSE IF t = 2 THEN {1} ELSE {}],
   writes |-> [t \in Tasks |-> {t, External}],
   prev |-> [t \in Tasks |-> {}],
   refs |-> [x \in Attributes |-> {}]]

\* All that three tasks may declare over attribute 1 and an attribute 2 that is
\* static or refers to 1.  A task writes at most one attribute or has an
\* external effect; task 2 may need the previous value of 1.
OnlyFirst(P) == [t \in Tasks |-> IF t \in {1, 2, 3} THEN P[t] ELSE {}]

SmallDeclarations ==
  {[list |-> <<1, 2, 3>>, reads |-> OnlyFirst(r), writes |-> OnlyFirst(w),
    prev |-> [t \in Tasks |-> IF t = 2 THEN p ELSE {}],
    refs |-> [x \in Attributes |-> IF x = 2 THEN f ELSE {}]] :
     r \in [1..3 -> SUBSET {1, 2}],
     w \in [1..3 -> {{}, {1}, {2}, {External}, {1, External}}],
     p \in {{}, {1}}, f \in {{}, {1}}}

MCDeclarations ==
  AcyclicDeclarations \cup {CyclicDeclaration} \cup SmallDeclarations

\* What three tasks declare is dealt by the list scheduler only: the sort does
\* not depend on who deals.
MCInit == BuilderInit /\ (decl.list = <<1, 2, 3>> => kind = "list")

MCSpec == MCInit /\ [][BuilderNext]_vars
=============================================================================
