---------------------------- MODULE BarrierSpec ----------------------------
(***************************************************************************)
(* What Barrier::wait() of dpsim/include/dpsim/Scheduler.h promises: "Blocks *)
(* until |limit| calls have been made, at which point all threads return." *)
(* The barrier is reusable, so the promise is per generation: the k-th call *)
(* of a thread returns only after every thread has made its k-th call.     *)
(* arrived[t] counts the calls thread t has made, departed[t] the calls    *)
(* that have returned.  The limit is the number of threads.                *)
(***************************************************************************)
EXTENDS Naturals

CONSTANT Threads      \* the threads that share the barrier

VARIABLES arrived, departed

barrierVars == <<arrived, departed>>

Init ==
  /\ arrived  = [t \in Threads |-> 0]
  /\ departed = [t \in Threads |-> 0]

\* A thread that is not inside wait() calls it.
Arrive(t) ==
  /\ arrived[t] = departed[t]
  /\ arrived' = [arrived EXCEPT ![t] = @ + 1]
  /\ UNCHANGED departed

\* The call returns once every thread has made its call of this generation.
Depart(t) ==
  /\ arrived[t] = departed[t] + 1
  /\ \A u \in Threads : arrived[u] >= arrived[t]
  /\ departed' = [departed EXCEPT ![t] = @ + 1]
  /\ UNCHANGED arrived

Next == \E t \in Threads : Arrive(t) \/ Depart(t)

Spec == Init /\ [][Next]_barrierVars
=============================================================================
