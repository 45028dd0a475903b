------------------------------ MODULE Barrier ------------------------------
(***************************************************************************)
(* class Barrier of dpsim/include/dpsim/Scheduler.h at the grain of its    *)
(* atomic operations.  Without mUseCondition every load, fetch_add and     *)
(* store of wait() is a step of its own and waiting is spinning on         *)
(* mGeneration.  With mUseCondition the section under mMutex is one step,  *)
(* notify_all() comes after the unlock, and a thread blocked in            *)
(* mCondition.wait() may wake up spuriously.                               *)
(***************************************************************************)
EXTENDS Integers, FiniteSets

CONSTANTS
  Threads,        \* the threads that share the barrier; mLimit of them
  MaxRounds       \* bound: how often each thread calls wait()

ASSUME BarrierAssumption ==
  /\ IsFiniteSet(Threads) /\ Threads # {}
  /\ MaxRounds \in Nat

VARIABLES
  mUseCondition,  \* wait with the condition variable or spin; never changes
  mCount,         \* calls counted in the current generation
  mGeneration,    \* generation number, changed to release the waiters
  pc,             \* where in wait() each thread is; "out" when outside
  gen,            \* the local variable gen of each thread's wait()
  rounds          \* history: how many calls of each thread have returned

vars == <<mUseCondition, mCount, mGeneration, pc, gen, rounds>>

mLimit == Cardinality(Threads)

Locations == {"out", "fetch", "reset", "release", "spin",
              "notify", "blocked", "woken"}

\* Where the call of a thread has already been counted.
Counted == {"reset", "release", "spin", "notify", "blocked", "woken"}

Init ==
  /\ mUseCondition \in BOOLEAN
  /\ mCount = 0
  /\ mGeneration = 0
  /\ pc     = [t \in Threads |-> "out"]
  /\ gen    = [t \in Threads |-> 0]
  /\ rounds = [t \in Threads |-> 0]

Goto(t, to) == pc' = [pc EXCEPT ![t] = to]

Return(t) ==
  /\ Goto(t, "out")
  /\ rounds' = [rounds EXCEPT ![t] = @ + 1]

-----------------------------------------------------------------------------
(* Spinning: mUseCondition is false.                                       *)

LoadGeneration(t) ==
  /\ ~mUseCondition
  /\ pc[t] = "out"
  /\ rounds[t] < MaxRounds
  /\ gen' = [gen EXCEPT ![t] = mGeneration]
  /\ Goto(t, "fetch")
  /\ UNCHANGED <<mCount, mGeneration, rounds>>

FetchAdd(t) ==
  /\ pc[t] = "fetch"
  /\ mCount' = mCount + 1
  /\ Goto(t, IF mCount = mLimit - 1 THEN "reset" ELSE "spin")
  /\ UNCHANGED <<mGeneration, gen, rounds>>

ResetCount(t) ==
  /\ pc[t] = "reset"
  /\ mCount' = 0
  /\ Goto(t, "release")
  /\ UNCHANGED <<mGeneration, gen, rounds>>

Release(t) ==
  /\ pc[t] = "release"
  /\ mGeneration' = mGeneration + 1
  /\ Return(t)
  /\ UNCHANGED <<mCount, gen>>

Spin(t) ==
  /\ pc[t] = "spin"
  /\ mGeneration # gen[t]
  /\ Return(t)
  /\ UNCHANGED <<mCount, mGeneration, gen>>

-----------------------------------------------------------------------------
(* Condition variable: mUseCondition is true.                              *)

\* The last caller opens the next generation and leaves the locked section.
LastCaller(t) ==
  /\ mCount + 1 = mLimit
  /\ mCount' = 0
  /\ mGeneration' = mGeneration + 1
  /\ Goto(t, "notify")

\* Every other caller blocks in mCondition.wait(), which releases mMutex.
EarlierCaller(t) ==
  /\ mCount + 1 # mLimit
  /\ mCount' = mCount + 1
  /\ UNCHANGED mGeneration
  /\ Goto(t, "blocked")

\* The section under mMutex.
WaitLocked(t) ==
  /\ mUseCondition
  /\ pc[t] = "out"
  /\ rounds[t] < MaxRounds
  /\ gen' = [gen EXCEPT ![t] = mGeneration]
  /\ LastCaller(t) \/ EarlierCaller(t)
  /\ UNCHANGED rounds

\* Fault: notify_one() where all waiters have to be woken.
NotifyOne(t) ==
  /\ pc[t] = "notify"
  /\ \E w \in Threads \ {t} :
       /\ pc[w] = "blocked" \/ \A u \in Threads : pc[u] # "blocked"
       /\ pc' = [pc EXCEPT ![t] = "out", ![w] = IF @ = "blocked" THEN "woken" ELSE @]
  /\ rounds' = [rounds EXCEPT ![t] = @ + 1]
  /\ UNCHANGED <<mCount, mGeneration, gen>>

NotifyAll(t) ==
  /\ pc[t] = "notify"
  /\ pc' = [u \in Threads |-> IF u = t THEN "out"
                              ELSE IF pc[u] = "blocked" THEN "woken"
                              ELSE pc[u]]
  /\ rounds' = [rounds EXCEPT ![t] = @ + 1]
  /\ UNCHANGED <<mCount, mGeneration, gen>>

SpuriousWakeup(t) ==
  /\ pc[t] = "blocked"
  /\ Goto(t, "woken")
  /\ UNCHANGED <<mCount, mGeneration, gen, rounds>>

\* Fault: a wakeup is taken for the release without testing the generation.
NoRecheck(t) ==
  /\ pc[t] = "woken"
  /\ Return(t)
  /\ UNCHANGED <<mCount, mGeneration, gen>>

\* The woken thread holds mMutex again and evaluates the loop condition.
Recheck(t) ==
  /\ pc[t] = "woken"
  /\ \/ /\ gen[t] = mGeneration
        /\ Goto(t, "blocked")
        /\ UNCHANGED rounds
     \/ /\ gen[t] # mGeneration
        /\ Return(t)
  /\ UNCHANGED <<mCount, mGeneration, gen>>

-----------------------------------------------------------------------------

SpinStep(t) ==
  LoadGeneration(t) \/ FetchAdd(t) \/ ResetCount(t) \/ Release(t) \/ Spin(t)

ConditionStep(t) == WaitLocked(t) \/ NotifyAll(t) \/ Recheck(t)

Step(t) == (SpinStep(t) \/ ConditionStep(t)) /\ UNCHANGED mUseCondition

\* Every thread has made all the calls of this instance.
Done ==
  /\ \A t \in Threads : pc[t] = "out" /\ rounds[t] = MaxRounds
  /\ UNCHANGED vars

Next ==
  \/ \E t \in Threads : Step(t) \/ (SpuriousWakeup(t) /\ UNCHANGED mUseCondition)
  \/ Done

\* A running thread keeps running; nobody promises a spurious wakeup.
Fairness == \A t \in Threads : WF_vars(Step(t))

Spec == Init /\ [][Next]_vars /\ Fairness

-----------------------------------------------------------------------------

\* When all threads keep calling wait(), every call returns: no wakeup is
\* lost between the unlock and notify_all(), or between counting and spinning.
EveryCallReturns == <>(\A t \in Threads : rounds[t] = MaxRounds)

\* wait() keeps the promise of its comment: no call returns before every
\* thread has made its call of the same generation.
Contract == INSTANCE BarrierSpec WITH
  arrived  <- [t \in Threads |-> rounds[t] + (IF pc[t] \in Counted THEN 1 ELSE 0)],
  departed <- rounds

ContractSpec == Contract!Spec
=============================================================================
