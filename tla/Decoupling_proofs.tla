-------------------------- MODULE Decoupling_proofs --------------------------
(***************************************************************************)
(* Proofs about module Decoupling: for every delay, every length of the    *)
(* ring buffer and every number of steps, what one end sees of the other   *)
(* is exactly one delay old, and the extrapolation leads to the present.   *)
(***************************************************************************)
EXTENDS Decoupling, TLAPS

Indexed ==
  /\ timeStepCount \in Nat
  /\ mDelay \in Nat
  /\ mBufSize \in Nat \ {0}
  /\ mBufIdx \in RingIndices
  /\ mMacroBufIdx \in MacroIndices
  /\ ring \in [Ends -> [RingIndices -> Int]]
  /\ extrap \in [Ends -> [MacroIndices -> Int]]
  /\ rightVector \in [Ends -> Int]
  /\ leftVector \in [Ends -> Int]
  /\ intf \in [Ends -> Int]

\* mBufSize is the delay in time steps, rounded up.
BufSizeFits ==
  IF mDelay = 0 THEN mBufSize = 1
  ELSE (mBufSize - 1) * PerStep < mDelay /\ mDelay <= mBufSize * PerStep

\* The tasks of a step run in the order of their attributes,
TasksOrdered ==
  /\ PostStepTask \in done => \A e \in Ends : <<"MnaPostStep", e>> \in done
  /\ \A e \in Ends :
       /\ <<"MnaPostStep", e>> \in done => <<"Solve", e>> \in done
       /\ <<"Solve", e>> \in done => <<"SourcePreStep", e>> \in done
       /\ <<"SourcePreStep", e>> \in done => PreStepTask \in done

\* so what they hand on belongs to this step.
NetworkOfThisStep ==
  \A e \in Ends :
    /\ <<"SourcePreStep", e>> \in done => rightVector[e] = timeStepCount
    /\ <<"Solve", e>> \in done => leftVector[e] = timeStepCount
    /\ <<"MnaPostStep", e>> \in done => intf[e] = timeStepCount

\* The steps that the ring buffer has taken in.
Written == IF PostStepTask \in done THEN timeStepCount + 1 ELSE timeStepCount

\* The entries before the index are of this round, the others of the last.
RingHoldsLastSteps ==
  \A e \in Ends : \A j \in RingIndices :
    ring[e][j] = Past(IF j < mBufIdx THEN Written - mBufIdx + j
                      ELSE Written - mBufIdx - mBufSize + j)

\* The last step of the last complete period.
PeriodEnd == Written - 1 - mBufIdx

ExtrapHoldsLastPeriods ==
  /\ PeriodEnd = -1 \/ PeriodEnd >= mBufSize - 1
  /\ mCouplingMethod = "EXTRAPOLATION_LINEAR" =>
       \A e \in Ends :
         /\ extrap[e][mMacroBufIdx] = Recorded(e, PeriodEnd - mBufSize)
         /\ extrap[e][1 - mMacroBufIdx] = Past(PeriodEnd)
  /\ mCouplingMethod # "EXTRAPOLATION_LINEAR" /\ PeriodEnd # -1 =>
       \A e \in Ends : extrap[e][0] = PeriodEnd

Inv ==
  /\ Indexed /\ BufSizeFits
  /\ TasksOrdered /\ NetworkOfThisStep
  /\ RingHoldsLastSteps /\ ExtrapHoldsLastPeriods
  /\ DelayedExactly /\ ExtrapolatedToPresent

-----------------------------------------------------------------------------

\* The tasks of a step are different ones.
LEMMA TasksDiffer ==
  /\ PreStepTask # PostStepTask
  /\ \A e \in Ends :
       /\ <<"SourcePreStep", e>> \notin {PreStepTask, PostStepTask}
       /\ <<"Solve", e>> \notin {PreStepTask, PostStepTask}
       /\ <<"MnaPostStep", e>> \notin {PreStepTask, PostStepTask}
       /\ \A f \in Ends : /\ <<"SourcePreStep", e>> # <<"Solve", f>>
                          /\ <<"SourcePreStep", e>> # <<"MnaPostStep", f>>
                          /\ <<"Solve", e>> # <<"MnaPostStep", f>>
                          /\ e # f => /\ <<"SourcePreStep", e>> # <<"SourcePreStep", f>>
                                      /\ <<"Solve", e>> # <<"Solve", f>>
                                      /\ <<"MnaPostStep", e>> # <<"MnaPostStep", f>>
  BY DEF PreStepTask, PostStepTask, Ends

\* ceil(): the length of the ring buffer covers the delay.
LEMMA BufSizeIsCeiling ==
  ASSUME NEW delay \in Delays, NEW n \in BufSizes(delay)
  PROVE  /\ delay \in Nat
         /\ n \in Nat \ {0}
         /\ IF delay = 0 THEN n = 1
            ELSE (n - 1) * PerStep < delay /\ delay <= n * PerStep
  BY DecouplingAssumption DEF BufSizes

\* initialize() fills the buffers with what was known before step 0.
LEMMA InitEstablishesInv == Init => Inv
<1> SUFFICES ASSUME Init PROVE Inv
  OBVIOUS
<1> USE DEF Init
<1>1. /\ mDelay \in Nat /\ mBufSize \in Nat \ {0}
      /\ BufSizeFits
  BY BufSizeIsCeiling DEF BufSizeFits
<1>2. /\ 0 \in RingIndices
      /\ 0 \in MacroIndices
  BY <1>1 DEF RingIndices, MacroIndices, mExtrapolationDegree
<1>3. Indexed
  BY <1>1, <1>2 DEF Indexed, Initial, Earlier
<1>4. TasksOrdered /\ NetworkOfThisStep
  BY DEF TasksOrdered, NetworkOfThisStep
<1>5. Written = 0
  BY DEF Written
<1>6. RingHoldsLastSteps
  <2> SUFFICES ASSUME NEW e \in Ends, NEW j \in RingIndices
               PROVE  ring[e][j] = Past(0 - 0 - mBufSize + j)
    BY <1>5, <1>1 DEF RingHoldsLastSteps, RingIndices
  <2> QED BY <1>1 DEF Past, RingIndices
<1>7. ExtrapHoldsLastPeriods
  <2>1. PeriodEnd = -1
    BY <1>5 DEF PeriodEnd
  <2>2. ASSUME mCouplingMethod = "EXTRAPOLATION_LINEAR", NEW e \in Ends
        PROVE  /\ extrap[e][0] = Recorded(e, -1 - mBufSize)
               /\ extrap[e][1] = Past(-1)
    <3>1. MacroIndices = {0, 1}
      BY <2>2 DEF MacroIndices, mExtrapolationDegree
    <3>2. /\ extrap[e][0] = IF e = 1 THEN Earlier ELSE Initial
          /\ extrap[e][1] = Initial
      BY <3>1
    <3> QED BY <3>2, <1>1 DEF Recorded, Past
  <2> QED BY <2>1, <2>2, <1>1 DEF ExtrapHoldsLastPeriods
<1>8. DelayedExactly /\ ExtrapolatedToPresent
  BY DEF DelayedExactly, ExtrapolatedToPresent, RefsOfThisStep
<1> QED BY <1>1, <1>3, <1>4, <1>6, <1>7, <1>8 DEF Inv

\* Before PostStep the oldest entry of the ring buffer is at its index.
LEMMA EntriesAtIndex ==
  ASSUME Inv, PostStepTask \notin done, NEW e \in Ends
  PROVE  /\ ring[e][mBufIdx] = Past(timeStepCount - mBufSize)
         /\ ring[e][IF mBufIdx = mBufSize - 1 THEN 0 ELSE mBufIdx + 1]
              = Past(timeStepCount - mBufSize + (IF mBufSize = 1 THEN 0 ELSE 1))
<1> USE DEF Inv
<1>1. /\ timeStepCount \in Nat /\ mBufSize \in Nat \ {0}
      /\ mBufIdx \in RingIndices
  BY DEF Indexed
<1>2. \A j \in RingIndices :
        ring[e][j] = Past(IF j < mBufIdx THEN timeStepCount - mBufIdx + j
                          ELSE timeStepCount - mBufIdx - mBufSize + j)
  BY DEF RingHoldsLastSteps, Written
<1>3. ring[e][mBufIdx] = Past(timeStepCount - mBufSize)
  <2>1. timeStepCount - mBufIdx - mBufSize + mBufIdx = timeStepCount - mBufSize
    BY <1>1 DEF RingIndices
  <2>2. ~(mBufIdx < mBufIdx)
    BY <1>1 DEF RingIndices
  <2> QED BY <1>1, <1>2, <2>1, <2>2
<1>4. CASE mBufIdx = mBufSize - 1
  <2>1. 0 \in RingIndices
    BY <1>1 DEF RingIndices
  <2>2. CASE mBufSize = 1
    <3>1. ring[e][0] = Past(timeStepCount - 1)
      BY <1>3, <1>4, <2>2, <1>1
    <3> QED BY <1>3, <1>4, <3>1, <2>2, <1>1
  <2>3. CASE mBufSize # 1
    <3>1. ring[e][0] = Past(timeStepCount - mBufIdx + 0)
      BY <1>1, <1>2, <1>4, <2>1, <2>3
    <3>2. timeStepCount - mBufIdx + 0 = timeStepCount - mBufSize + 1
      BY <1>1, <1>4
    <3> QED BY <1>3, <1>4, <3>1, <3>2, <2>3
  <2> QED BY <2>2, <2>3
<1>5. CASE mBufIdx # mBufSize - 1
  <2>1. /\ mBufIdx + 1 \in RingIndices
        /\ ~(mBufIdx + 1 < mBufIdx)
        /\ timeStepCount - mBufIdx - mBufSize + (mBufIdx + 1)
              = timeStepCount - mBufSize + 1
        /\ mBufSize # 1
    BY <1>1, <1>5 DEF RingIndices
  <2> QED BY <1>2, <1>3, <1>5, <2>1
<1> QED BY <1>4, <1>5

\* Before PostStep the extrapolation has the ends of the last two periods.
LEMMA ValuesAtMacroIndex ==
  ASSUME Inv, PostStepTask \notin done, NEW e \in Ends,
         mCouplingMethod = "EXTRAPOLATION_LINEAR"
  PROVE  /\ extrap[e][mMacroBufIdx]
              = Recorded(e, timeStepCount - 1 - mBufIdx - mBufSize)
         /\ extrap[e][IF mMacroBufIdx = mExtrapolationDegree
                      THEN 0 ELSE mMacroBufIdx + 1]
              = Past(timeStepCount - 1 - mBufIdx)
<1>1. PeriodEnd = timeStepCount - 1 - mBufIdx
  BY DEF PeriodEnd, Written
<1>2. /\ mExtrapolationDegree = 1
      /\ mMacroBufIdx \in {0, 1}
  BY DEF Inv, Indexed, MacroIndices, mExtrapolationDegree
<1>3. (IF mMacroBufIdx = mExtrapolationDegree THEN 0 ELSE mMacroBufIdx + 1)
        = 1 - mMacroBufIdx
  BY <1>2
<1> QED BY <1>1, <1>3 DEF Inv, ExtrapHoldsLastPeriods

\* step() with an interpolated delay: the weights place the value between
\* the solutions of two steps, exactly mDelay ago.
LEMMA PreStepDelays ==
  ASSUME Inv, PreStep, mCouplingMethod = "DELAY"
  PROVE  DelayedExactly'
<1> USE DEF Inv
<1>1. /\ timeStepCount \in Nat /\ mBufSize \in Nat \ {0} /\ mDelay \in Nat
      /\ PerStep \in Nat \ {0}
  BY DecouplingAssumption DEF Indexed
<1>2. PostStepTask \notin done
  BY DEF PreStep, Execute, TasksOrdered, Ends
<1>3. /\ UNCHANGED <<mDelay, mCouplingMethod, mBufSize, timeStepCount>>
      /\ ref' = [e \in Ends |-> [h \in SeenFrom(e, timeStepCount) |-> SampleOf(h)]]
  BY DEF PreStep, parameters
<1> SUFFICES ASSUME NEW e \in Ends, NEW h \in SeenFrom(e, timeStepCount)
             PROVE
               LET s == SampleOf(h) IN
               IF mDelay < PerStep
               THEN /\ s.early = Past(timeStepCount - 1)
                    /\ s.late = Past(timeStepCount - 1)
               ELSE \E k \in timeStepCount - mBufSize .. timeStepCount - 1 :
                      /\ s.early = Past(k)
                      /\ s.lead # 0 => s.late = Past(k + 1)
                      /\ s.lead \in 0 .. PerStep - 1
                      /\ k * PerStep + s.lead = timeStepCount * PerStep - mDelay
  BY <1>3 DEF DelayedExactly
<1>4. h \in Ends
  BY DEF SeenFrom
<1> DEFINE s == SampleOf(h)
           k == timeStepCount - mBufSize
<1>5. /\ s.early = Past(k)
      /\ s.late = Past(k + (IF mBufSize = 1 THEN 0 ELSE 1))
      /\ s.lead = LateWeight
  BY <1>2, <1>4, EntriesAtIndex DEF SampleOf, Interpolate, Sample
<1>6. CASE mDelay < PerStep
  <2>1. mBufSize = 1
    <3>1. CASE mDelay = 0
      BY <3>1 DEF BufSizeFits
    <3>2. CASE mDelay # 0
      <4>1. (mBufSize - 1) * PerStep < PerStep
        BY <1>1, <1>6, <3>2 DEF BufSizeFits
      <4>2. ASSUME mBufSize >= 2 PROVE FALSE
        <5>1. (mBufSize - 1) * PerStep >= 1 * PerStep
          BY <1>1, <4>2
        <5> QED BY <1>1, <4>1, <5>1
      <4> QED BY <1>1, <4>2
    <3> QED BY <3>1, <3>2
  <2>2. k = timeStepCount - 1 /\ k + 0 = timeStepCount - 1
    BY <1>1, <2>1
  <2>3. s.early = Past(timeStepCount - 1) /\ s.late = Past(timeStepCount - 1)
    BY <1>5, <2>1, <2>2
  <2> QED BY <1>6, <2>3
<1>7. CASE ~(mDelay < PerStep)
  <2>1. mDelay # 0
    BY <1>1, <1>7
  <2>2. /\ (mBufSize - 1) * PerStep < mDelay
        /\ mDelay <= mBufSize * PerStep
        /\ s.lead = mBufSize * PerStep - mDelay
    BY <1>5, <2>1 DEF BufSizeFits, LateWeight
  <2>3. s.lead \in 0 .. PerStep - 1
    <3>1. (mBufSize - 1) * PerStep = mBufSize * PerStep - PerStep
      BY <1>1
    <3>2. mBufSize * PerStep \in Int
      BY <1>1
    <3> QED BY <1>1, <2>2, <3>1, <3>2
  <2>4. k * PerStep + s.lead = timeStepCount * PerStep - mDelay
    <3>1. k * PerStep = timeStepCount * PerStep - mBufSize * PerStep
      BY <1>1
    <3>2. /\ mBufSize * PerStep \in Int
          /\ timeStepCount * PerStep \in Int
      BY <1>1
    <3> QED BY <1>1, <2>2, <3>1, <3>2
  <2>5. s.lead # 0 => s.late = Past(k + 1)
    <3>1. ASSUME mBufSize = 1 PROVE s.lead = 0
      BY <1>1, <1>7, <2>2, <3>1
    <3> QED BY <1>5, <3>1
  <2>6. k \in timeStepCount - mBufSize .. timeStepCount - 1
    BY <1>1
  <2> QED BY <1>5, <1>7, <2>3, <2>4, <2>5, <2>6
<1> QED BY <1>6, <1>7

\* step() with an extrapolation: the last period ended at PeriodEnd.
LEMMA PreStepExtrapolates ==
  ASSUME Inv, PreStep
  PROVE  ExtrapolatedToPresent'
<1> USE DEF Inv
<1>1. /\ timeStepCount \in Nat /\ mBufSize \in Nat \ {0}
      /\ mBufIdx \in RingIndices
  BY DEF Indexed
<1>2. PostStepTask \notin done
  BY DEF PreStep, Execute, TasksOrdered, Ends
<1>3. /\ UNCHANGED <<mCouplingMethod, mBufSize, timeStepCount>>
      /\ ref' = [e \in Ends |-> [h \in SeenFrom(e, timeStepCount) |-> SampleOf(h)]]
  BY DEF PreStep, parameters
<1> DEFINE m == timeStepCount - 1 - mBufIdx
<1>4. /\ m \in timeStepCount - mBufSize .. timeStepCount - 1
      /\ mBufSize + mBufIdx + 1 = mBufSize + (timeStepCount - m)
      /\ PeriodEnd = m
  BY <1>1, <1>2 DEF RingIndices, PeriodEnd, Written
<1> SUFFICES ASSUME NEW e \in Ends, NEW h \in SeenFrom(e, timeStepCount)
             PROVE
               LET s == SampleOf(h) IN
               /\ mCouplingMethod = "EXTRAPOLATION_LINEAR" =>
                    \E i \in timeStepCount - mBufSize .. timeStepCount - 1 :
                      /\ s.late = Past(i)
                      /\ s.early = Recorded(h, i - mBufSize)
                      /\ s.lead = mBufSize + (timeStepCount - i)
               /\ mCouplingMethod = "EXTRAPOLATION_ZOH" /\ timeStepCount >= mBufSize =>
                    /\ s.early \in timeStepCount - mBufSize .. timeStepCount - 1
                    /\ s.late = s.early
  BY <1>3 DEF ExtrapolatedToPresent
<1>5. h \in Ends
  BY DEF SeenFrom
<1>6. ASSUME mCouplingMethod = "EXTRAPOLATION_LINEAR"
      PROVE  /\ SampleOf(h).late = Past(m)
             /\ SampleOf(h).early = Recorded(h, m - mBufSize)
             /\ SampleOf(h).lead = mBufSize + (timeStepCount - m)
  BY <1>2, <1>4, <1>5, <1>6, ValuesAtMacroIndex DEF SampleOf, Extrapolate, Sample
<1>7. ASSUME mCouplingMethod = "EXTRAPOLATION_ZOH", timeStepCount >= mBufSize
      PROVE  SampleOf(h).early = m /\ SampleOf(h).late = m
  <2>1. mMacroBufIdx = 0
    BY <1>7 DEF Indexed, MacroIndices, mExtrapolationDegree
  <2>2. PeriodEnd # -1
    BY <1>1, <1>4, <1>7 DEF RingIndices
  <2>3. extrap[h][0] = m
    BY <1>4, <1>5, <1>7, <2>2 DEF ExtrapHoldsLastPeriods
  <2> QED BY <1>7, <2>1, <2>3 DEF SampleOf, Extrapolate, Held, Sample
<1> QED BY <1>4, <1>6, <1>7

LEMMA PreStepPreservesInv ==
  ASSUME Inv, PreStep
  PROVE  Inv'
<1> USE DEF Inv
<1>1. PostStepTask \notin done
  BY DEF PreStep, Execute, TasksOrdered, Ends
<1>2. /\ UNCHANGED <<parameters, buffers, network, timeStepCount>>
      /\ done' = done \cup {PreStepTask}
      /\ mCouplingMethod' = mCouplingMethod
  BY DEF PreStep, Execute, parameters
<1>3. /\ PostStepTask \notin done' /\ PreStepTask \in done'
      /\ \A t : t # PreStepTask => (t \in done' <=> t \in done)
  BY <1>1, <1>2, TasksDiffer
<1>4. Indexed' /\ BufSizeFits'
  BY <1>2 DEF Indexed, BufSizeFits, parameters, buffers, network, RingIndices,
     MacroIndices, mExtrapolationDegree
<1>5. TasksOrdered'
  BY <1>3, TasksDiffer DEF TasksOrdered
<1>6. NetworkOfThisStep'
  BY <1>2, <1>3, TasksDiffer DEF NetworkOfThisStep, network
<1>7. RingHoldsLastSteps' /\ ExtrapHoldsLastPeriods'
  BY <1>1, <1>2, <1>3 DEF RingHoldsLastSteps, ExtrapHoldsLastPeriods, Written,
     PeriodEnd, parameters, buffers, RingIndices
<1>8. CASE mCouplingMethod = "DELAY"
  BY <1>4, <1>5, <1>6, <1>7, <1>8, PreStepDelays, PreStepExtrapolates
<1>9. CASE mCouplingMethod # "DELAY"
  BY <1>2, <1>4, <1>5, <1>6, <1>7, <1>9, PreStepExtrapolates DEF DelayedExactly
<1> QED BY <1>8, <1>9

\* The source values stay as they are until the next step.
LEMMA RefsUnchanged ==
  ASSUME Inv, UNCHANGED <<parameters, timeStepCount, ref>>,
         PreStepTask \in done' => PreStepTask \in done
  PROVE  (DelayedExactly /\ ExtrapolatedToPresent)'
  BY DEF Inv, DelayedExactly, ExtrapolatedToPresent, RefsOfThisStep, parameters

\* The buffers only change in PostStep.
LEMMA BuffersUnchanged ==
  ASSUME Inv, UNCHANGED <<parameters, buffers>>, Written' = Written
  PROVE  (RingHoldsLastSteps /\ ExtrapHoldsLastPeriods)'
  BY DEF Inv, RingHoldsLastSteps, ExtrapHoldsLastPeriods, PeriodEnd, parameters,
     buffers, RingIndices

LEMMA NetworkPreservesInv ==
  ASSUME Inv, NEW e \in Ends, SourcePreStep(e) \/ Solve(e) \/ MnaPostStep(e)
  PROVE  Inv'
<1> USE DEF Inv
<1>1. /\ UNCHANGED <<parameters, buffers, timeStepCount, ref>>
      /\ \/ done' = done \cup {<<"SourcePreStep", e>>}
         \/ done' = done \cup {<<"Solve", e>>}
         \/ done' = done \cup {<<"MnaPostStep", e>>}
  BY DEF SourcePreStep, Solve, MnaPostStep, Execute
<1>2. /\ PostStepTask \in done' <=> PostStepTask \in done
      /\ PreStepTask \in done' <=> PreStepTask \in done
  BY <1>1, TasksDiffer
<1>3. (Indexed /\ BufSizeFits)'
  <2>1. (BufSizeFits /\ timeStepCount \in Nat /\ mDelay \in Nat
         /\ mBufSize \in Nat \ {0} /\ mBufIdx \in RingIndices
         /\ mMacroBufIdx \in MacroIndices
         /\ ring \in [Ends -> [RingIndices -> Int]]
         /\ extrap \in [Ends -> [MacroIndices -> Int]])'
    BY <1>1 DEF Indexed, BufSizeFits, parameters, buffers, RingIndices,
       MacroIndices, mExtrapolationDegree
  <2>2. (rightVector \in [Ends -> Int] /\ leftVector \in [Ends -> Int]
         /\ intf \in [Ends -> Int])'
    BY DEF Indexed, SourcePreStep, Solve, MnaPostStep
  <2> QED BY <2>1, <2>2 DEF Indexed
<1>4. TasksOrdered'
  <2>1. CASE SourcePreStep(e)
    BY <2>1, TasksDiffer DEF SourcePreStep, Execute, TasksOrdered
  <2>2. CASE Solve(e)
    BY <2>2, TasksDiffer DEF Solve, Execute, TasksOrdered
  <2>3. CASE MnaPostStep(e)
    BY <2>3, TasksDiffer DEF MnaPostStep, Execute, TasksOrdered
  <2> QED BY <2>1, <2>2, <2>3
<1>5. NetworkOfThisStep'
  <2>1. CASE SourcePreStep(e)
    BY <2>1, TasksDiffer DEF SourcePreStep, Execute, NetworkOfThisStep, Indexed
  <2>2. CASE Solve(e)
    BY <2>2, TasksDiffer DEF Solve, Execute, NetworkOfThisStep, Indexed
  <2>3. CASE MnaPostStep(e)
    BY <2>3, TasksDiffer DEF MnaPostStep, Execute, NetworkOfThisStep, Indexed
  <2> QED BY <2>1, <2>2, <2>3
<1>6. Written' = Written
  BY <1>1, <1>2 DEF Written
<1> QED BY <1>1, <1>2, <1>3, <1>4, <1>5, <1>6, RefsUnchanged, BuffersUnchanged

\* postStep(): the entry of this step replaces the oldest one; at the end of a
\* period its value also replaces the older of the two for the extrapolation.
LEMMA PostStepFillsRing ==
  ASSUME Inv, PostStep
  PROVE  RingHoldsLastSteps'
<1> USE DEF Inv
<1>1. /\ timeStepCount \in Nat /\ mBufSize \in Nat \ {0}
      /\ mBufIdx \in RingIndices
      /\ ring \in [Ends -> [RingIndices -> Int]]
  BY DEF Indexed
<1>2. /\ Written = timeStepCount /\ Written' = timeStepCount + 1
      /\ UNCHANGED <<mBufSize, timeStepCount>>
  BY DEF PostStep, Execute, Written, parameters
<1>3. \A e \in Ends : intf[e] = timeStepCount
  BY DEF PostStep, Execute, PostStepDependencies, NetworkOfThisStep
<1> SUFFICES ASSUME NEW e \in Ends, NEW j \in RingIndices'
             PROVE  ring'[e][j] = Past(IF j < mBufIdx' THEN Written' - mBufIdx' + j
                                       ELSE Written' - mBufIdx' - mBufSize' + j)
  BY DEF RingHoldsLastSteps
<1>4. j \in RingIndices
  BY <1>2 DEF RingIndices
<1> DEFINE last == IF j <= mBufIdx THEN timeStepCount - mBufIdx + j
                   ELSE timeStepCount - mBufIdx - mBufSize + j
<1>5. ring'[e][j] = Past(last)
  <2>1. ring'[e][j] = IF j = mBufIdx THEN timeStepCount ELSE ring[e][j]
    BY <1>1, <1>3, <1>4 DEF PostStep
  <2>2. ring[e][j] = Past(IF j < mBufIdx THEN timeStepCount - mBufIdx + j
                          ELSE timeStepCount - mBufIdx - mBufSize + j)
    BY <1>2, <1>4 DEF RingHoldsLastSteps
  <2>3. CASE j = mBufIdx
    <3>1. timeStepCount = last /\ timeStepCount = Past(timeStepCount)
      BY <1>1, <2>3 DEF Past, RingIndices
    <3> QED BY <2>1, <2>3, <3>1
  <2>4. CASE j # mBufIdx
    <3>1. j <= mBufIdx <=> j < mBufIdx
      BY <1>1, <1>4, <2>4 DEF RingIndices
    <3> QED BY <2>1, <2>2, <2>4, <3>1
  <2> QED BY <2>3, <2>4
<1>6. (IF j < mBufIdx' THEN Written' - mBufIdx' + j
       ELSE Written' - mBufIdx' - mBufSize' + j) = last
  <2>1. /\ mBufIdx' = IF mBufIdx + 1 = mBufSize THEN 0 ELSE mBufIdx + 1
        /\ Written' = timeStepCount + 1 /\ mBufSize' = mBufSize
    BY <1>2 DEF PostStep, Wrapped
  <2> QED BY <1>1, <1>4, <2>1 DEF RingIndices
<1> QED BY <1>5, <1>6

LEMMA PostStepFillsExtrap ==
  ASSUME Inv, PostStep
  PROVE  ExtrapHoldsLastPeriods'
<1> USE DEF Inv
<1>1. /\ timeStepCount \in Nat /\ mBufSize \in Nat \ {0}
      /\ mBufIdx \in RingIndices /\ mMacroBufIdx \in MacroIndices
      /\ extrap \in [Ends -> [MacroIndices -> Int]]
  BY DEF Indexed
<1>2. /\ Written = timeStepCount /\ Written' = timeStepCount + 1
      /\ UNCHANGED <<mBufSize, timeStepCount, mCouplingMethod>>
  BY DEF PostStep, Execute, Written, parameters
<1>3. \A e \in Ends : intf[e] = timeStepCount
  BY DEF PostStep, Execute, PostStepDependencies, NetworkOfThisStep
<1>4. /\ PeriodEnd = timeStepCount - 1 - mBufIdx
      /\ PeriodEnd = -1 \/ PeriodEnd >= mBufSize - 1
      /\ PeriodEnd' = timeStepCount - mBufIdx'
  BY <1>1, <1>2 DEF PeriodEnd, ExtrapHoldsLastPeriods, PostStep
<1>5. CASE ~Wrapped
  <2>1. /\ UNCHANGED <<extrap, mMacroBufIdx>>
        /\ PeriodEnd' = PeriodEnd
    BY <1>1, <1>4, <1>5 DEF PostStep, RingIndices
  <2> QED BY <1>2, <2>1 DEF ExtrapHoldsLastPeriods
<1>6. CASE Wrapped
  <2>1. mBufIdx' = 0
    BY <1>6 DEF PostStep
  <2>2. /\ PeriodEnd' = timeStepCount
        /\ timeStepCount - mBufSize = PeriodEnd
        /\ timeStepCount >= mBufSize - 1
        /\ timeStepCount = Past(timeStepCount)
    BY <1>1, <1>4, <1>6, <2>1 DEF Wrapped, RingIndices, Past
  <2>3. \A e \in Ends : extrap'[e] = [extrap[e] EXCEPT ![mMacroBufIdx] = timeStepCount]
    BY <1>3, <1>6 DEF PostStep
  <2>4. ASSUME mCouplingMethod = "EXTRAPOLATION_LINEAR", NEW e \in Ends
        PROVE  /\ extrap'[e][mMacroBufIdx'] = Recorded(e, timeStepCount - mBufSize)
               /\ extrap'[e][1 - mMacroBufIdx'] = Past(timeStepCount)
    <3>1. /\ mMacroBufIdx \in {0, 1}
          /\ MacroIndices = {0, 1}
          /\ mMacroBufIdx' = 1 - mMacroBufIdx
          /\ 1 - mMacroBufIdx' = mMacroBufIdx
      BY <1>1, <1>6, <2>4 DEF PostStep, MacroIndices, mExtrapolationDegree
    <3>2. extrap[e] \in [{0, 1} -> Int]
      BY <1>1, <3>1
    <3>3. extrap[e][1 - mMacroBufIdx] = Past(PeriodEnd)
      BY <2>4 DEF ExtrapHoldsLastPeriods
    <3>4. /\ 1 - mMacroBufIdx \in {0, 1} /\ 1 - mMacroBufIdx # mMacroBufIdx
          /\ extrap'[e] = [extrap[e] EXCEPT ![mMacroBufIdx] = timeStepCount]
      BY <2>3, <3>1
    <3>5. /\ extrap'[e][mMacroBufIdx] = timeStepCount
          /\ extrap'[e][1 - mMacroBufIdx] = Past(PeriodEnd)
      BY <3>1, <3>2, <3>3, <3>4
    <3>6. Recorded(e, PeriodEnd) = Past(PeriodEnd)
      BY <1>1, <1>4 DEF Recorded
    <3> QED BY <2>2, <3>1, <3>5, <3>6
  <2>5. ASSUME mCouplingMethod # "EXTRAPOLATION_LINEAR", NEW e \in Ends
        PROVE  extrap'[e][0] = timeStepCount
    <3>1. /\ mMacroBufIdx = 0 /\ 0 \in MacroIndices
          /\ extrap[e] \in [MacroIndices -> Int]
      BY <1>1, <2>5 DEF MacroIndices, mExtrapolationDegree
    <3>2. extrap'[e] = [extrap[e] EXCEPT ![0] = timeStepCount]
      BY <2>3, <3>1
    <3> QED BY <3>1, <3>2
  <2> QED BY <1>2, <2>2, <2>4, <2>5 DEF ExtrapHoldsLastPeriods
<1> QED BY <1>5, <1>6

LEMMA PostStepPreservesInv ==
  ASSUME Inv, PostStep
  PROVE  Inv'
<1> USE DEF Inv
<1>1. /\ UNCHANGED <<parameters, network, timeStepCount, ref>>
      /\ done' = done \cup {PostStepTask}
      /\ \A e \in Ends : <<"MnaPostStep", e>> \in done
  BY DEF PostStep, Execute, PostStepDependencies
<1>2. \A t : t # PostStepTask => (t \in done' <=> t \in done)
  BY <1>1
<1>3. (BufSizeFits /\ timeStepCount \in Nat /\ mDelay \in Nat
       /\ mBufSize \in Nat \ {0} /\ rightVector \in [Ends -> Int]
       /\ leftVector \in [Ends -> Int] /\ intf \in [Ends -> Int])'
  BY <1>1 DEF Indexed, BufSizeFits, parameters, network
<1>4. (mBufIdx \in RingIndices /\ mMacroBufIdx \in MacroIndices)'
  BY <1>1 DEF Indexed, PostStep, Wrapped, parameters, RingIndices, MacroIndices,
     mExtrapolationDegree
<1>5. (ring \in [Ends -> [RingIndices -> Int]]
       /\ extrap \in [Ends -> [MacroIndices -> Int]])'
  <2>1. RingIndices' = RingIndices /\ MacroIndices' = MacroIndices
    BY <1>1 DEF parameters, RingIndices, MacroIndices, mExtrapolationDegree
  <2>2. /\ ring' = [e \in Ends |-> [ring[e] EXCEPT ![mBufIdx] = intf[e]]]
        /\ \/ extrap' = extrap
           \/ extrap' = [e \in Ends |-> [extrap[e] EXCEPT ![mMacroBufIdx] = intf[e]]]
    BY DEF PostStep
  <2> QED BY <2>1, <2>2 DEF Indexed
<1>6. Indexed' /\ BufSizeFits'
  BY <1>3, <1>4, <1>5 DEF Indexed
<1>7. TasksOrdered' /\ NetworkOfThisStep'
  BY <1>1, <1>2, TasksDiffer DEF TasksOrdered, NetworkOfThisStep, network
<1>8. (DelayedExactly /\ ExtrapolatedToPresent)'
  BY <1>1, <1>2, TasksDiffer, RefsUnchanged
<1> QED BY <1>6, <1>7, <1>8, PostStepFillsRing, PostStepFillsExtrap

LEMMA NextStepPreservesInv ==
  ASSUME Inv, NextStep
  PROVE  Inv'
<1> USE DEF Inv
<1>1. /\ UNCHANGED <<parameters, buffers, network, ref>>
      /\ timeStepCount' = timeStepCount + 1
      /\ done' = {} /\ PostStepTask \in done
  BY DEF NextStep, Tasks
<1>2. Indexed' /\ BufSizeFits'
  BY <1>1 DEF Indexed, BufSizeFits, parameters, buffers, network, RingIndices,
     MacroIndices, mExtrapolationDegree
<1>3. TasksOrdered' /\ NetworkOfThisStep'
  BY <1>1 DEF TasksOrdered, NetworkOfThisStep
<1>4. Written' = Written
  BY <1>1 DEF Written
<1>5. DelayedExactly' /\ ExtrapolatedToPresent'
  BY <1>1 DEF DelayedExactly, ExtrapolatedToPresent, RefsOfThisStep
<1> QED BY <1>1, <1>2, <1>3, <1>4, <1>5, BuffersUnchanged

-----------------------------------------------------------------------------

(***************************************************************************)
(* The buffers always hold the solutions of the last steps in the order    *)
(* that the indices say, whatever the delay and the method.                *)
(***************************************************************************)
THEOREM Invariance == Spec => []Inv
<1>1. ASSUME Inv, [Next]_vars PROVE Inv'
  <2>1. CASE PreStep
    BY <1>1, <2>1, PreStepPreservesInv
  <2>2. CASE \E e \in Ends : SourcePreStep(e) \/ Solve(e) \/ MnaPostStep(e)
    BY <1>1, <2>2, NetworkPreservesInv
  <2>3. CASE PostStep
    BY <1>1, <2>3, PostStepPreservesInv
  <2>4. CASE NextStep
    BY <1>1, <2>4, NextStepPreservesInv
  <2>5. CASE UNCHANGED vars
    <3>1. /\ UNCHANGED <<parameters, buffers, network, timeStepCount, ref>>
          /\ done' = done
      BY <2>5 DEF vars
    <3>2. (Indexed /\ BufSizeFits /\ TasksOrdered /\ NetworkOfThisStep)'
      BY <1>1, <3>1 DEF Inv, Indexed, BufSizeFits, TasksOrdered, NetworkOfThisStep,
         parameters, buffers, network, RingIndices, MacroIndices, mExtrapolationDegree
    <3>3. Written' = Written
      BY <3>1 DEF Written
    <3> QED BY <1>1, <3>1, <3>2, <3>3, RefsUnchanged, BuffersUnchanged DEF Inv
  <2> QED BY <1>1, <2>1, <2>2, <2>3, <2>4, <2>5 DEF Next
<1> QED BY <1>1, InitEstablishesInv, PTL DEF Spec

\* What an end sees of the other is exactly one delay old (interpolate()).
THEOREM DelayIsExact == Spec => []DelayedExactly
<1>1. Inv => DelayedExactly
  BY DEF Inv
<1> QED BY <1>1, Invariance, PTL

\* The extrapolation is evaluated at the present step (extrapolate()).
THEOREM ExtrapolationIsPresent == Spec => []ExtrapolatedToPresent
<1>1. Inv => ExtrapolatedToPresent
  BY DEF Inv
<1> QED BY <1>1, Invariance, PTL
=============================================================================
