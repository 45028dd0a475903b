--------------------------- MODULE MnaSolver_proofs ---------------------------
(***************************************************************************)
(* Proofs about MnaSolver for every number of breakers and poles, every    *)
(* switching time, every set of systems and every number of commands.      *)
(***************************************************************************)
EXTENDS MnaSolver, TLAPS

-----------------------------------------------------------------------------
(* Breakers: the operators of module Breaker keep the record well-formed   *)
(* and the poles in line with the commands.                                *)

\* Follows, strengthened by where the poles are during a transition and by the
\* modes in which an opening can be requested.
Consistent(b) ==
  /\ Follows(b)
  /\ b.active => b.poles = AllPoles(~b.closing)
  /\ b.requested => b.mode # "Ideal"
  /\ b.mode = "ExponentialZCSEmulation" /\ b.requested => b.active

LEMMA PathIsInterval == 0 \in 0 .. SwitchingSteps /\ SwitchingSteps \in 0 .. SwitchingSteps
  BY BreakerAssumption, SMT

\* A breaker record is typed as soon as its members are.
LEMMA InitialBreakerTyped ==
  ASSUME NEW mode \in SwitchingModes, NEW closed \in BOOLEAN,
         NEW synchronized \in BOOLEAN
  PROVE  /\ InitialBreaker(mode, closed, synchronized) \in Breakers
         /\ Consistent(InitialBreaker(mode, closed, synchronized))
         /\ InitialBreaker(mode, closed, synchronized).mode = mode
  BY PathIsInterval DEF InitialBreaker, Breakers, Consistent, Follows, Reported,
     Watched, AllPoles, Resistance, Stamp, SwitchStamp, SwitchingModes, Signs

\* The members of a breaker at rest.
LEMMA SettledMembers ==
  ASSUME NEW b \in Breakers, NEW closed \in BOOLEAN
  PROVE  LET c == Settled(b, closed) IN
         /\ c \in Breakers
         /\ ~c.active /\ ~c.closing /\ c.elapsed = 0
         /\ c.poles = AllPoles(closed) /\ c.alpha = Resistance(closed)
         /\ c.mode = b.mode /\ c.isClosed = b.isClosed
         /\ c.requested = b.requested /\ c.reported = b.reported
<1>1. Resistance(closed) \in 0 .. SwitchingSteps
  BY PathIsInterval DEF Resistance
<1>2. AllPoles(closed) \in [Phases -> BOOLEAN]
  BY DEF AllPoles
<1> QED BY <1>1, <1>2, PathIsInterval DEF Settled, Breakers

\* A breaker at rest is stamped like a switch in its commanded state.
LEMMA RestIsConsistent ==
  ASSUME NEW b \in Breakers, ~b.active, ~b.requested,
         b.poles = AllPoles(b.isClosed), b.alpha = Resistance(b.isClosed)
  PROVE  Consistent(b)
<1>1. Stamp(b) = SwitchStamp(b.isClosed)
  BY DEF Stamp, SwitchStamp, AllPoles
<1> QED BY <1>1 DEF Consistent, Follows

\* The members of a breaker at the beginning of a transition.
LEMMA RampingMembers ==
  ASSUME NEW b \in Breakers, NEW closing \in BOOLEAN
  PROVE  LET c == Ramping(b, closing) IN
         /\ c \in Breakers
         /\ c.active /\ c.closing = closing
         /\ c.poles = AllPoles(~closing)
         /\ c.mode = b.mode /\ c.isClosed = b.isClosed
         /\ c.requested = b.requested /\ c.reported = b.reported
<1> DEFINE r == Settled(b, ~closing)
<1>1. /\ r \in Breakers
      /\ r.poles = AllPoles(~closing)
      /\ r.mode = b.mode /\ r.isClosed = b.isClosed
      /\ r.requested = b.requested /\ r.reported = b.reported
  BY SettledMembers
<1>2. Ramping(b, closing) = [r EXCEPT !.active = TRUE, !.closing = closing]
  BY DEF Ramping
<1> HIDE DEF r
<1> QED BY <1>1, <1>2 DEF Breakers

\* Commands and requests leave the other members alone.
LEMMA CommandMembers ==
  ASSUME NEW b \in Breakers, NEW closed \in BOOLEAN, NEW request \in BOOLEAN
  PROVE  /\ LET c == [b EXCEPT !.isClosed = closed] IN
            /\ c \in Breakers /\ c.isClosed = closed
            /\ c.active = b.active /\ c.closing = b.closing /\ c.poles = b.poles
            /\ c.mode = b.mode /\ c.requested = b.requested
            /\ c.reported = b.reported /\ c.alpha = b.alpha
         /\ LET c == [b EXCEPT !.requested = request] IN
            /\ c \in Breakers /\ c.requested = request
            /\ c.active = b.active /\ c.closing = b.closing /\ c.poles = b.poles
            /\ c.mode = b.mode /\ c.isClosed = b.isClosed
            /\ c.reported = b.reported /\ c.alpha = b.alpha
  BY DEF Breakers

\* openSwitch() keeps the record typed and consistent.
LEMMA OpenSwitchConsistent ==
  ASSUME NEW b \in Breakers, Consistent(b)
  PROVE  /\ OpenSwitch(b) \in Breakers
         /\ Consistent(OpenSwitch(b))
         /\ OpenSwitch(b).mode = b.mode
         /\ OpenSwitch(b).reported = b.reported
<1> DEFINE c == [b EXCEPT !.isClosed = FALSE]
<1>0. /\ c \in Breakers /\ c.isClosed = FALSE
      /\ c.active = b.active /\ c.closing = b.closing /\ c.poles = b.poles
      /\ c.mode = b.mode /\ c.requested = b.requested
      /\ c.reported = b.reported /\ c.alpha = b.alpha
  BY CommandMembers
<1>1. CASE (b.active /\ b.closing) \/ b.mode = "Ideal"
  <2> DEFINE d == Settled(c, FALSE)
  <2>1. OpenSwitch(b) = [d EXCEPT !.requested = FALSE]
    BY <1>1 DEF OpenSwitch
  <2>2. /\ d \in Breakers /\ ~d.active /\ d.poles = AllPoles(FALSE)
        /\ d.alpha = Resistance(FALSE) /\ d.isClosed = FALSE
        /\ d.mode = b.mode /\ d.reported = b.reported
    <3> HIDE DEF c
    <3> QED BY <1>0, SettledMembers
  <2> HIDE DEF c, d
  <2>3. LET f == [d EXCEPT !.requested = FALSE] IN
        /\ f \in Breakers /\ f.requested = FALSE /\ ~f.active
        /\ f.poles = AllPoles(FALSE) /\ f.alpha = Resistance(FALSE)
        /\ f.isClosed = FALSE /\ f.mode = b.mode /\ f.reported = b.reported
    BY <2>2, CommandMembers
  <2> QED BY <2>1, <2>3, RestIsConsistent
<1>2. CASE ~((b.active /\ b.closing) \/ b.mode = "Ideal") /\ AllPolesOpen(b)
  <2>1. OpenSwitch(b) = [c EXCEPT !.requested = FALSE]
    BY <1>2 DEF OpenSwitch
  <2>2. ~b.requested
    BY <1>2 DEF Consistent, Follows, AllPolesOpen
  <2>3. b.mode = "ExponentialZCSEmulation" /\ b.active => Phases = {}
    BY <1>2 DEF Consistent, Follows, AllPolesOpen, AllPoles, Breakers
  <2> DEFINE f == [c EXCEPT !.requested = FALSE]
  <2>4. /\ f \in Breakers /\ f.requested = FALSE /\ f.isClosed = FALSE
        /\ f.active = b.active /\ f.closing = b.closing /\ f.poles = b.poles
        /\ f.mode = b.mode /\ f.reported = b.reported /\ f.alpha = b.alpha
    <3> HIDE DEF c
    <3> QED BY <1>0, CommandMembers
  <2> HIDE DEF c, f
  <2>5. b.active => f.closing = f.isClosed
    BY <1>2, <2>4 DEF Breakers
  <2>6. b.poles = AllPoles(FALSE)
    BY <1>2 DEF AllPolesOpen, AllPoles, Breakers
  <2>7. ~b.active => Stamp(f) = SwitchStamp(FALSE)
    <3> SUFFICES ASSUME ~b.active PROVE Stamp(f) = SwitchStamp(FALSE)
      OBVIOUS
    <3>1. Stamp(b) = SwitchStamp(b.isClosed) /\ b.poles = AllPoles(b.isClosed)
      BY <2>2 DEF Consistent, Follows
    <3>2. CASE b.mode = "CurrentZero"
      BY <2>4, <2>6, <3>2 DEF Stamp, SwitchStamp, AllPoles
    <3>3. CASE b.mode = "ExponentialZCSEmulation"
      <4>1. Stamp(f) = Stamp(b)
        BY <2>4, <3>3 DEF Stamp
      <4>2. SwitchStamp(b.isClosed) = SwitchStamp(FALSE)
        <5>1. \A p \in Phases : b.isClosed = FALSE
          BY <2>6, <3>1 DEF AllPoles, Breakers
        <5> QED BY <5>1 DEF SwitchStamp
      <4> QED BY <3>1, <4>1, <4>2
    <3> QED BY <1>2, <3>2, <3>3 DEF Breakers, SwitchingModes
  <2>8. b.active => f.mode = "ExponentialZCSEmulation" /\ f.poles = AllPoles(~f.closing)
    BY <2>4 DEF Consistent, Follows
  <2>9. Consistent(f)
    BY <2>4, <2>5, <2>6, <2>7, <2>8 DEF Consistent, Follows
  <2>10. OpenSwitch(b) = f
    BY <2>1 DEF f
  <2> QED BY <2>4, <2>9, <2>10
<1>3. CASE ~((b.active /\ b.closing) \/ b.mode = "Ideal") /\ ~AllPolesOpen(b)
           /\ b.mode = "CurrentZero"
  <2>1. OpenSwitch(b) = [c EXCEPT !.requested = TRUE, !.resetHistory = TRUE,
                                  !.active = FALSE, !.closing = FALSE,
                                  !.elapsed = 0]
    BY <1>3 DEF OpenSwitch
  <2> HIDE DEF c
  <2>2. \E p \in Phases : b.poles[p]
    BY <1>3 DEF AllPolesOpen
  <2> DEFINE f == OpenSwitch(b)
  <2>3. /\ f \in Breakers /\ f.requested = TRUE /\ f.isClosed = FALSE
        /\ f.active = FALSE /\ f.poles = b.poles
        /\ f.mode = b.mode /\ f.reported = b.reported
    BY <1>0, <2>1, PathIsInterval DEF Breakers
  <2> HIDE DEF f
  <2>4. Consistent(f)
    BY <1>3, <2>2, <2>3 DEF Consistent, Follows
  <2> QED BY <2>3, <2>4 DEF f
<1>4. CASE ~((b.active /\ b.closing) \/ b.mode = "Ideal") /\ ~AllPolesOpen(b)
           /\ b.mode # "CurrentZero"
  <2> DEFINE d == Ramping(c, FALSE)
  <2>1. OpenSwitch(b) = [d EXCEPT !.requested = TRUE]
    BY <1>4 DEF OpenSwitch
  <2>2. b.mode = "ExponentialZCSEmulation"
    BY <1>4 DEF Breakers, SwitchingModes
  <2>3. \E p \in Phases : TRUE
    BY <1>4 DEF AllPolesOpen
  <2>4. /\ d \in Breakers /\ d.active /\ d.closing = FALSE
        /\ d.poles = AllPoles(TRUE) /\ d.isClosed = FALSE
        /\ d.mode = b.mode /\ d.reported = b.reported
    <3> HIDE DEF c
    <3> QED BY <1>0, RampingMembers
  <2> HIDE DEF c, d
  <2> DEFINE f == [d EXCEPT !.requested = TRUE]
  <2>5. /\ f \in Breakers /\ f.requested = TRUE /\ f.active /\ f.closing = FALSE
        /\ f.poles = AllPoles(TRUE) /\ f.isClosed = FALSE
        /\ f.mode = b.mode /\ f.reported = b.reported
    BY <2>4 DEF Breakers
  <2> HIDE DEF f
  <2>6. \E p \in Phases : f.poles[p]
    BY <2>3, <2>5 DEF AllPoles
  <2>7. Consistent(f)
    BY <2>2, <2>5, <2>6 DEF Consistent, Follows
  <2> QED BY <2>1, <2>5, <2>7 DEF f
<1> QED BY <1>1, <1>2, <1>3, <1>4

\* closeSwitch() keeps the record typed and consistent.
LEMMA CloseSwitchConsistent ==
  ASSUME NEW b \in Breakers, Consistent(b)
  PROVE  /\ CloseSwitch(b) \in Breakers
         /\ Consistent(CloseSwitch(b))
         /\ CloseSwitch(b).mode = b.mode
         /\ CloseSwitch(b).reported = b.reported
         /\ ~CloseSwitch(b).requested
<1> DEFINE c == [b EXCEPT !.isClosed = TRUE, !.requested = FALSE,
                          !.resetHistory = FALSE]
<1>0. /\ c \in Breakers /\ c.isClosed = TRUE /\ c.requested = FALSE
      /\ c.mode = b.mode /\ c.reported = b.reported
  BY DEF Breakers
<1>1. CASE b.mode # "ExponentialZCSEmulation" \/ (AllPolesClosed(b) /\ ~b.active)
  <2>1. CloseSwitch(b) = Settled(c, TRUE)
    BY <1>1 DEF CloseSwitch
  <2> DEFINE f == Settled(c, TRUE)
  <2>2. /\ f \in Breakers /\ ~f.active /\ f.poles = AllPoles(TRUE)
        /\ f.alpha = Resistance(TRUE) /\ f.isClosed = TRUE /\ f.requested = FALSE
        /\ f.mode = b.mode /\ f.reported = b.reported
    <3> HIDE DEF c
    <3> QED BY <1>0, SettledMembers
  <2> HIDE DEF f, c
  <2> QED BY <2>1, <2>2, RestIsConsistent DEF f
<1>2. CASE ~(b.mode # "ExponentialZCSEmulation" \/ (AllPolesClosed(b) /\ ~b.active))
  <2>1. CloseSwitch(b) = Ramping(c, TRUE)
    BY <1>2 DEF CloseSwitch
  <2> DEFINE f == Ramping(c, TRUE)
  <2>2. /\ f \in Breakers /\ f.active /\ f.closing = TRUE
        /\ f.poles = AllPoles(FALSE) /\ f.isClosed = TRUE /\ f.requested = FALSE
        /\ f.mode = b.mode /\ f.reported = b.reported
    <3> HIDE DEF c
    <3> QED BY <1>0, RampingMembers
  <2> HIDE DEF f, c
  <2>3. Consistent(f)
    BY <1>2, <2>2 DEF Consistent, Follows
  <2> QED BY <2>1, <2>2, <2>3 DEF f
<1> QED BY <1>1, <1>2

\* mnaCompPostStep() keeps the record typed and consistent.
LEMMA PostStepConsistent ==
  ASSUME NEW b \in Breakers, Consistent(b), NEW sample \in [Phases -> Signs]
  PROVE  /\ PostStepped(b, sample) \in Breakers
         /\ Consistent(PostStepped(b, sample))
         /\ PostStepped(b, sample).mode = b.mode
         /\ PostStepped(b, sample).reported = b.reported
<1> USE PathIsInterval
<1>1. CASE b.mode = "CurrentZero"
  <2> DEFINE zero(p) == IF b.resetHistory
                          THEN sample[p] = 0
                          ELSE CrossedZero(b.previous[p], sample[p])
             poles == [p \in Phases |-> b.poles[p] /\ ~(b.requested /\ zero(p))]
             c == [b EXCEPT !.previous = sample,
                            !.resetHistory = @ /\ ~b.requested,
                            !.poles = poles,
                            !.requested = @ /\ \E p \in Phases : poles[p]]
  <2>1. PostStepped(b, sample) = c
    BY <1>1 DEF PostStepped, UpdateZeroCrossingState
  <2>2. poles \in [Phases -> BOOLEAN]
    BY DEF Breakers
  <2>3. (b.requested /\ \E p \in Phases : poles[p]) \in BOOLEAN
    OBVIOUS
  <2>4. (b.resetHistory /\ ~b.requested) \in BOOLEAN
    OBVIOUS
  <2>5. ~b.active /\ (b.requested => ~b.isClosed)
    BY <1>1 DEF Consistent, Follows, SwitchingModes
  <2>6. /\ c.mode = b.mode /\ c.isClosed = b.isClosed /\ c.active = b.active
        /\ c.closing = b.closing /\ c.elapsed = b.elapsed /\ c.alpha = b.alpha
        /\ c.reported = b.reported /\ c.poles = poles /\ c.previous = sample
        /\ c.requested = (b.requested /\ \E p \in Phases : poles[p])
        /\ c.resetHistory = (b.resetHistory /\ ~b.requested)
    BY DEF Breakers
  <2>7. c \in Breakers
    <3> HIDE DEF poles
    <3> QED BY <2>2, <2>3, <2>4 DEF Breakers
  <2>8. ~c.requested => poles = AllPoles(b.isClosed)
    <3>1. CASE b.requested
      <4> SUFFICES ASSUME ~c.requested PROVE poles = AllPoles(b.isClosed)
        OBVIOUS
      <4>1. \A p \in Phases : ~poles[p]
        BY <2>6, <3>1
      <4>2. \A p \in Phases : poles[p] = FALSE
        BY <4>1, <2>2
      <4>3. b.isClosed = FALSE
        BY <2>5, <3>1 DEF Breakers
      <4> HIDE DEF poles
      <4> QED BY <2>2, <4>2, <4>3 DEF AllPoles
    <3>2. CASE ~b.requested
      <4>1. b.poles = AllPoles(b.isClosed)
        BY <3>2, <2>5 DEF Consistent, Follows
      <4>2. poles = b.poles
        BY <3>2 DEF Breakers
      <4> QED BY <4>1, <4>2
    <3> QED BY <3>1, <3>2
  <2>9. Stamp(c) = [p \in Phases |-> Resistance(poles[p])]
    BY <1>1, <2>6 DEF Stamp
  <2>10. ~c.requested => Stamp(c) = SwitchStamp(c.isClosed)
    <3> HIDE DEF poles, c
    <3> QED BY <2>6, <2>8, <2>9 DEF SwitchStamp, AllPoles
  <2>11. Consistent(c)
    <3> HIDE DEF poles, c
    <3> QED BY <1>1, <2>5, <2>6, <2>8, <2>10 DEF Consistent, Follows
  <2> HIDE DEF c, poles
  <2> QED BY <2>1, <2>6, <2>7, <2>11
<1>2. CASE b.mode = "ExponentialZCSEmulation" /\ b.active
  <2>1. CASE b.elapsed + 1 < SwitchingSteps
    <3>1. PostStepped(b, sample) =
            [b EXCEPT !.elapsed = b.elapsed + 1,
                      !.alpha = IF b.closing THEN SwitchingSteps - (b.elapsed + 1)
                                             ELSE b.elapsed + 1]
      BY <1>2, <2>1 DEF PostStepped, UpdateExponentialTransition
    <3>2. /\ b.elapsed + 1 \in 0 .. SwitchingSteps
          /\ SwitchingSteps - (b.elapsed + 1) \in 0 .. SwitchingSteps
      BY <2>1, BreakerAssumption, SMT DEF Breakers
    <3> QED
      BY <1>2, <3>1, <3>2 DEF Breakers, Consistent, Follows
  <2>2. CASE ~(b.elapsed + 1 < SwitchingSteps)
    <3>1. PostStepped(b, sample) = [Settled(b, b.closing) EXCEPT !.requested = FALSE]
      BY <1>2, <2>2 DEF PostStepped, UpdateExponentialTransition
    <3>2. b.closing = b.isClosed
      BY <1>2 DEF Consistent, Follows
    <3> DEFINE d == Settled(b, b.closing)
               f == [d EXCEPT !.requested = FALSE]
    <3>3. /\ d \in Breakers /\ ~d.active /\ d.poles = AllPoles(b.isClosed)
          /\ d.alpha = Resistance(b.isClosed) /\ d.isClosed = b.isClosed
          /\ d.mode = b.mode /\ d.reported = b.reported
      <4>1. b.closing \in BOOLEAN
        BY DEF Breakers
      <4> QED BY <3>2, <4>1, SettledMembers
    <3>4. /\ f \in Breakers /\ f.requested = FALSE /\ ~f.active
          /\ f.poles = AllPoles(f.isClosed) /\ f.alpha = Resistance(f.isClosed)
          /\ f.mode = b.mode /\ f.reported = b.reported
      <4> HIDE DEF d
      <4> QED BY <3>3 DEF Breakers
    <3> HIDE DEF d, f
    <3>5. PostStepped(b, sample) = f
      BY <3>1 DEF d, f
    <3> QED BY <3>4, <3>5, RestIsConsistent
  <2> QED BY <2>1, <2>2
<1>3. CASE b.mode = "Ideal" \/ (b.mode = "ExponentialZCSEmulation" /\ ~b.active)
  BY <1>3 DEF PostStepped, UpdateExponentialTransition
<1> QED BY <1>1, <1>2, <1>3 DEF Breakers, SwitchingModes

-----------------------------------------------------------------------------
(* The state of the solver. *)

Typed ==
  /\ setup \in Setups
  /\ breakers \in [Switches -> Breakers]
  /\ current \in [Switches -> [Phases -> Signs]]
  /\ sampled \in [Switches -> [Phases -> SUBSET Signs]]
  /\ pending \subseteq Tasks
  /\ separate \in BOOLEAN

AllConsistent ==
  \A s \in Switches : Consistent(breakers[s]) /\ breakers[s].mode = setup.mode[s]

BreakerInv == Typed /\ AllConsistent

\* A breaker that was not asked keeps its record; the others only report.
LEMMA PolledKeeps ==
  ASSUME BreakerInv, NEW s \in Switches
  PROVE  LET c == PolledBreakers[s] IN
         /\ c \in Breakers
         /\ Consistent(c)
         /\ c.mode = breakers[s].mode
         /\ c = breakers[s] \/ c = Reported(breakers[s])
<1> DEFINE b == breakers[s]
<1>1. b \in Breakers /\ Consistent(b)
  BY DEF BreakerInv, Typed, AllConsistent
<1>2. PolledBreakers[s] = b \/ PolledBreakers[s] = Reported(b)
  BY DEF PolledBreakers
<1>3. Watched(b) \in BOOLEAN \cup [Phases -> BOOLEAN] \cup 0 .. SwitchingSteps
  BY <1>1 DEF Watched, Breakers
<1>4. Reported(b) \in Breakers
  BY <1>1, <1>3 DEF Reported, Breakers
<1>5. Reported(b).mode = b.mode /\ Consistent(Reported(b))
  BY <1>1 DEF Reported, Breakers, Consistent, Follows, Stamp
<1> HIDE DEF b
<1> QED BY <1>1, <1>2, <1>4, <1>5 DEF b

LEMMA BreakerInvInit == Init => BreakerInv
<1> SUFFICES ASSUME Init PROVE BreakerInv
  OBVIOUS
<1>1. setup \in SetupRecords
  BY MnaAssumption DEF Init
<1>2. \A s \in Switches : /\ setup.mode[s] \in SwitchingModes
                          /\ setup.closed[s] \in BOOLEAN
                          /\ setup.synchronized[s] \in BOOLEAN
  BY <1>1 DEF SetupRecords
<1>3. \A s \in Switches :
        breakers[s] = InitialBreaker(setup.mode[s], setup.closed[s],
                                     setup.synchronized[s])
  BY DEF Init
<1>4. \A s \in Switches : /\ breakers[s] \in Breakers
                          /\ Consistent(breakers[s])
                          /\ breakers[s].mode = setup.mode[s]
  BY <1>2, <1>3, InitialBreakerTyped
<1>5. breakers \in [Switches -> Breakers]
  <2>1. breakers = [s \in Switches |-> breakers[s]]
    BY DEF Init
  <2> QED BY <1>4, <2>1
<1> QED BY <1>4, <1>5 DEF Init, BreakerInv, Typed, AllConsistent, NoSamples, Signs

LEMMA BreakerInvStep == BreakerInv /\ [Next]_vars => BreakerInv'
<1> SUFFICES ASSUME BreakerInv, [Next]_vars PROVE BreakerInv'
  OBVIOUS
<1>0. \A s \in Switches : /\ breakers[s] \in Breakers
                          /\ Consistent(breakers[s])
                          /\ breakers[s].mode = setup.mode[s]
                          /\ current[s] \in [Phases -> Signs]
  BY DEF BreakerInv, Typed, AllConsistent
<1>1. ASSUME NEW s \in Switches, Open(s) PROVE BreakerInv'
  <2>1. /\ OpenSwitch(breakers[s]) \in Breakers
        /\ Consistent(OpenSwitch(breakers[s]))
        /\ OpenSwitch(breakers[s]).mode = breakers[s].mode
    BY <1>0, OpenSwitchConsistent
  <2> QED
    BY <1>0, <1>1, <2>1 DEF Open, BreakerInv, Typed, AllConsistent, NoSamples
<1>2. ASSUME NEW s \in Switches, Close(s) PROVE BreakerInv'
  <2>1. /\ CloseSwitch(breakers[s]) \in Breakers
        /\ Consistent(CloseSwitch(breakers[s]))
        /\ CloseSwitch(breakers[s]).mode = breakers[s].mode
    BY <1>0, CloseSwitchConsistent
  <2> QED
    BY <1>0, <1>2, <2>1 DEF Close, BreakerInv, Typed, AllConsistent, NoSamples
<1>3. ASSUME NEW s \in Switches, PostStep(s) PROVE BreakerInv'
  <2>1. /\ PostStepped(breakers[s], current[s]) \in Breakers
        /\ Consistent(PostStepped(breakers[s], current[s]))
        /\ PostStepped(breakers[s], current[s]).mode = breakers[s].mode
    BY <1>0, PostStepConsistent
  <2>2. sampled' \in [Switches -> [Phases -> SUBSET Signs]]
    BY <1>0, <1>3 DEF PostStep, BreakerInv, Typed
  <2> QED
    BY <1>0, <1>3, <2>1, <2>2 DEF PostStep, BreakerInv, Typed, AllConsistent
<1>4. CASE Solve
  BY <1>4 DEF Solve, Solved, Currents, BreakerInv, Typed, AllConsistent, Tasks
<1>5. CASE SolveRecomp
  <2>1. breakers' = PolledBreakers /\ setup' = setup
    BY <1>5 DEF SolveRecomp, Solved
  <2>2. \A s \in Switches : /\ breakers'[s] \in Breakers
                            /\ Consistent(breakers'[s])
                            /\ breakers'[s].mode = setup'.mode[s]
    BY <1>0, <2>1, PolledKeeps
  <2>3. breakers' \in [Switches -> Breakers]
    <3>1. breakers' = [s \in Switches |-> breakers'[s]]
      BY <2>1 DEF PolledBreakers
    <3> QED BY <2>2, <3>1
  <2> QED
    BY <1>5, <2>2, <2>3 DEF SolveRecomp, Solved, Currents, BreakerInv, Typed,
       AllConsistent, Tasks
<1>6. CASE Extract
  BY <1>6 DEF Extract, BreakerInv, Typed, AllConsistent
<1>7. CASE UNCHANGED vars
  BY <1>7 DEF vars, BreakerInv, Typed, AllConsistent
<1> QED BY <1>1, <1>2, <1>3, <1>4, <1>5, <1>6, <1>7 DEF Next

LEMMA BreakerInvariance == Spec => []BreakerInv
  BY BreakerInvInit, BreakerInvStep, PTL DEF Spec

(***************************************************************************)
(* The poles follow openSwitch() and closeSwitch() once the request and    *)
(* the transition are over, in all three modes.                            *)
(***************************************************************************)
THEOREM Following == Spec => []CommandsFollowed
<1>1. BreakerInv => CommandsFollowed
  BY DEF BreakerInv, AllConsistent, Consistent, CommandsFollowed
<1> QED BY <1>1, BreakerInvariance, PTL

-----------------------------------------------------------------------------
(* The state-space extraction. *)

\* With recomputation the last solve used the factorized matrix, otherwise
\* the one of the switch status; the notification says whether it is new.
ExtractionInv ==
  /\ Extraction \notin pending => extracted = used
  /\ Extraction \in pending /\ valid /\ ~changed => extracted = used
  /\ Recomputing => used = matrix
  /\ ~Recomputing /\ (valid \/ Extraction \in pending) => used = SwitchedMatrix(status)

(***************************************************************************)
(* The state matrix fits the system matrix of the solve: the notification  *)
(* reaches extract() for every change of the matrix, in both ways to       *)
(* solve.                                                                  *)
(***************************************************************************)
THEOREM ExtractionFits == Spec => []ExtractedFromSolvedMatrix
<1>1. Init => ExtractionInv
  BY DEF Init, ExtractionInv
<1>2. ExtractionInv /\ [Next]_vars => ExtractionInv'
  <2> SUFFICES ASSUME ExtractionInv, [Next]_vars PROVE ExtractionInv'
    OBVIOUS
  <2>1. setup' = setup
    BY DEF Next, Open, Close, Solve, SolveRecomp, Solved, PostStep, Extract, vars
  <2>2. Recomputing' <=> Recomputing
    BY <2>1 DEF Recomputing
  <2>3. ASSUME NEW s \in Switches, Open(s) \/ Close(s) PROVE ExtractionInv'
    BY <2>2, <2>3 DEF Open, Close, ExtractionInv, SwitchedMatrix
  <2>4. ASSUME NEW s \in Switches, PostStep(s) PROVE ExtractionInv'
    <3>1. s # Extraction
      BY DEF Switches, Extraction
    <3>2. Extraction \in pending' <=> Extraction \in pending
      BY <2>4, <3>1 DEF PostStep
    <3> QED BY <2>2, <2>4, <3>2 DEF PostStep, ExtractionInv, SwitchedMatrix
  <2>5. CASE Solve
    <3>1. Extraction \notin pending /\ Extraction \in pending'
      BY <2>5 DEF Solve, Solved, Tasks
    <3>2. extracted = used /\ ~Recomputing
      BY <2>5, <3>1 DEF Solve, ExtractionInv
    <3>3. valid' = valid /\ extracted' = extracted /\ used' = SwitchedMatrix(status')
      BY <2>5 DEF Solve, Solved
    <3>4. valid /\ ~changed' => used' = used
      BY <2>5, <3>2, <3>3 DEF Solve, ExtractionInv
    <3>5. used' = SwitchedMatrix(status)'
      BY <3>3 DEF SwitchedMatrix
    <3> QED BY <2>2, <3>1, <3>2, <3>3, <3>4, <3>5 DEF ExtractionInv
  <2>6. CASE SolveRecomp
    BY <2>2, <2>6 DEF SolveRecomp, Solved, Tasks, ExtractionInv
  <2>7. CASE Extract
    BY <2>2, <2>7 DEF Extract, ExtractionInv, SwitchedMatrix
  <2>8. CASE UNCHANGED vars
    BY <2>2, <2>8 DEF vars, ExtractionInv, SwitchedMatrix
  <2> QED BY <2>3, <2>4, <2>5, <2>6, <2>7, <2>8 DEF Next
<1>3. ExtractionInv => ExtractedFromSolvedMatrix
  BY DEF ExtractionInv, ExtractedFromSolvedMatrix
<1> QED BY <1>1, <1>2, <1>3, PTL DEF Spec

-----------------------------------------------------------------------------
(* Opening at a zero of the current. *)

\* The sample a pole is compared with was taken after the opening command.
HistoryAt(s, p) ==
  breakers[s].mode = "CurrentZero" /\ breakers[s].requested
    /\ ~breakers[s].resetHistory
    => breakers[s].previous[p] \in sampled[s][p]

OpensAtZero(s, p) ==
  breakers[s].mode = "CurrentZero" /\ breakers[s].poles[p] /\ ~breakers'[s].poles[p]
    => 0 \in sampled'[s][p] \/ {-1, 1} \subseteq sampled'[s][p]

HistoryInv == \A s \in Switches, p \in Phases : HistoryAt(s, p)

\* A command leaves no history to compare with, and opens no pole.
LEMMA CommandsResetHistory ==
  ASSUME NEW b \in Breakers, Consistent(b), b.mode = "CurrentZero"
  PROVE  /\ OpenSwitch(b).requested => OpenSwitch(b).resetHistory
         /\ OpenSwitch(b).poles = b.poles
         /\ ~CloseSwitch(b).requested
         /\ CloseSwitch(b).poles = AllPoles(TRUE)
<1>1. ~b.active
  BY DEF Consistent, Follows
<1>2. /\ OpenSwitch(b).requested => OpenSwitch(b).resetHistory
      /\ OpenSwitch(b).poles = b.poles
  BY <1>1 DEF OpenSwitch, Breakers
<1>3. CloseSwitch(b) = Settled([b EXCEPT !.isClosed = TRUE, !.requested = FALSE,
                                         !.resetHistory = FALSE], TRUE)
  BY DEF CloseSwitch
<1>4. CloseSwitch(b).poles = AllPoles(TRUE)
  BY <1>3 DEF Settled, Breakers
<1> QED BY <1>2, <1>4, CloseSwitchConsistent

\* updateZeroCrossingState() member by member.
LEMMA ZeroCrossingMembers ==
  ASSUME NEW b \in Breakers, b.mode = "CurrentZero", NEW sample \in [Phases -> Signs]
  PROVE  LET c == PostStepped(b, sample) IN
         /\ c.previous = sample
         /\ c.requested => b.requested
         /\ \A p \in Phases :
              b.poles[p] /\ ~c.poles[p] =>
                /\ b.requested
                /\ \/ sample[p] = 0
                   \/ ~b.resetHistory /\ b.previous[p] * sample[p] < 0
  BY DEF PostStepped, UpdateZeroCrossingState, CrossedZero, Breakers

\* Two signs whose product is negative are the two that are not zero.
LEMMA OppositeSigns ==
  ASSUME NEW x \in Signs, NEW y \in Signs, x * y < 0
  PROVE  (x = 1 /\ y = -1) \/ (x = -1 /\ y = 1)
<1>1. (x = -1 \/ x = 0 \/ x = 1) /\ (y = -1 \/ y = 0 \/ y = 1)
  BY DEF Signs
<1> QED BY <1>1, SMT

\* The post-step of a breaker records the sample it compares.
LEMMA PostStepHistory ==
  ASSUME BreakerInv, NEW s \in Switches, NEW p \in Phases,
         HistoryAt(s, p), PostStep(s)
  PROVE  HistoryAt(s, p)' /\ OpensAtZero(s, p)
<1> DEFINE b == breakers[s]
           c == PostStepped(b, current[s])
<1>1. /\ b \in Breakers /\ Consistent(b) /\ current[s] \in [Phases -> Signs]
      /\ breakers'[s] = c
      /\ sampled[s] \in [Phases -> SUBSET Signs]
  BY DEF BreakerInv, Typed, AllConsistent, PostStep
<1>2. b.requested => sampled'[s][p] = sampled[s][p] \cup {current[s][p]}
  BY <1>1 DEF PostStep, BreakerInv, Typed
<1>3. c.mode = b.mode
  BY <1>1, PostStepConsistent
<1>4. b.requested /\ ~b.resetHistory /\ b.mode = "CurrentZero"
        => b.previous[p] \in sampled[s][p]
  BY DEF HistoryAt
<1>5. b.previous[p] \in Signs /\ current[s][p] \in Signs
  BY <1>1 DEF Breakers
<1> HIDE DEF b, c
<1>6. CASE b.mode = "CurrentZero"
  <2>1. /\ c.previous = current[s]
        /\ c.requested => b.requested
        /\ b.poles[p] /\ ~c.poles[p] =>
             /\ b.requested
             /\ \/ current[s][p] = 0
                \/ ~b.resetHistory /\ b.previous[p] * current[s][p] < 0
    BY <1>1, <1>6, ZeroCrossingMembers DEF c
  <2>2. HistoryAt(s, p)'
    BY <1>1, <1>2, <2>1 DEF HistoryAt
  <2>3. OpensAtZero(s, p)
    <3> SUFFICES ASSUME b.poles[p], ~c.poles[p]
                 PROVE  0 \in sampled'[s][p] \/ {-1, 1} \subseteq sampled'[s][p]
      BY <1>1 DEF OpensAtZero, b
    <3>1. CASE current[s][p] = 0
      BY <1>2, <2>1, <3>1
    <3>2. CASE ~b.resetHistory /\ b.previous[p] * current[s][p] < 0
      <4>1. {b.previous[p], current[s][p]} \subseteq sampled'[s][p]
        BY <1>2, <1>4, <1>6, <2>1, <3>2
      <4>2. \/ b.previous[p] = 1 /\ current[s][p] = -1
            \/ b.previous[p] = -1 /\ current[s][p] = 1
        BY <1>5, <3>2, OppositeSigns
      <4> QED BY <4>1, <4>2
    <3> QED BY <2>1, <3>1, <3>2
  <2> QED BY <2>2, <2>3
<1>7. CASE b.mode # "CurrentZero"
  BY <1>1, <1>3, <1>7 DEF HistoryAt, OpensAtZero, b
<1> QED BY <1>6, <1>7

\* Commands, solves and the steps of other breakers keep the history.
LEMMA HistoryStep ==
  BreakerInv /\ HistoryInv /\ [Next]_vars =>
    HistoryInv' /\ \A s \in Switches, p \in Phases : OpensAtZero(s, p)
<1> SUFFICES ASSUME BreakerInv, HistoryInv, [Next]_vars,
                    NEW s \in Switches, NEW p \in Phases
             PROVE  HistoryAt(s, p)' /\ OpensAtZero(s, p)
  BY DEF HistoryInv
<1>1. /\ breakers[s] \in Breakers /\ Consistent(breakers[s]) /\ HistoryAt(s, p)
      /\ breakers \in [Switches -> Breakers]
      /\ sampled \in [Switches -> [Phases -> SUBSET Signs]]
  BY DEF BreakerInv, Typed, AllConsistent, HistoryInv
<1>2. ASSUME breakers'[s] = breakers[s], sampled'[s] = sampled[s]
      PROVE  HistoryAt(s, p)' /\ OpensAtZero(s, p)
  BY <1>1, <1>2 DEF HistoryAt, OpensAtZero
<1>3. ASSUME NEW t \in Switches, Open(t) PROVE HistoryAt(s, p)' /\ OpensAtZero(s, p)
  <2>1. CASE t = s
    <3>1. breakers'[s] = OpenSwitch(breakers[s])
      BY <1>1, <1>3, <2>1 DEF Open
    <3>2. breakers'[s].mode = breakers[s].mode
      BY <1>1, <3>1, OpenSwitchConsistent
    <3> QED BY <1>1, <3>1, <3>2, CommandsResetHistory DEF HistoryAt, OpensAtZero
  <2>2. CASE t # s
    BY <1>1, <1>2, <1>3, <2>2 DEF Open
  <2> QED BY <2>1, <2>2
<1>4. ASSUME NEW t \in Switches, Close(t) PROVE HistoryAt(s, p)' /\ OpensAtZero(s, p)
  <2>1. CASE t = s
    <3>1. breakers'[s] = CloseSwitch(breakers[s])
      BY <1>1, <1>4, <2>1 DEF Close
    <3>2. breakers'[s].mode = breakers[s].mode
      BY <1>1, <3>1, CloseSwitchConsistent
    <3> QED BY <1>1, <3>1, <3>2, CommandsResetHistory DEF HistoryAt, OpensAtZero, AllPoles
  <2>2. CASE t # s
    BY <1>1, <1>2, <1>4, <2>2 DEF Close
  <2> QED BY <2>1, <2>2
<1>5. ASSUME NEW t \in Switches, PostStep(t) PROVE HistoryAt(s, p)' /\ OpensAtZero(s, p)
  <2>1. CASE t = s
    BY <1>1, <1>5, <2>1, PostStepHistory
  <2>2. CASE t # s
    BY <1>1, <1>2, <1>5, <2>2 DEF PostStep
  <2> QED BY <2>1, <2>2
<1>6. CASE SolveRecomp
  <2>1. breakers'[s] = PolledBreakers[s] /\ sampled' = sampled
    BY <1>6 DEF SolveRecomp, Solved
  <2>2. breakers'[s] = breakers[s] \/ breakers'[s] = Reported(breakers[s])
    BY <2>1, PolledKeeps
  <2>3. ASSUME breakers'[s] = Reported(breakers[s])
        PROVE  HistoryAt(s, p)' /\ OpensAtZero(s, p)
    <3>1. /\ breakers'[s].mode = breakers[s].mode
          /\ breakers'[s].requested = breakers[s].requested
          /\ breakers'[s].resetHistory = breakers[s].resetHistory
          /\ breakers'[s].previous = breakers[s].previous
          /\ breakers'[s].poles = breakers[s].poles
      BY <1>1, <2>3 DEF Reported, Breakers
    <3> QED BY <1>1, <2>1, <3>1 DEF HistoryAt, OpensAtZero
  <2> QED BY <1>2, <2>1, <2>2, <2>3
<1>7. CASE Solve \/ Extract \/ UNCHANGED vars
  <2>1. breakers' = breakers /\ sampled' = sampled
    BY <1>7 DEF Solve, Solved, Extract, vars
  <2> QED BY <1>2, <2>1
<1> QED BY <1>3, <1>4, <1>5, <1>6, <1>7 DEF Next

(***************************************************************************)
(* updateZeroCrossingState() opens a pole only at a zero of its current    *)
(* that was sampled after the command.                                     *)
(***************************************************************************)
THEOREM OpeningAtZero == Spec => PolesOpenAtCurrentZero
<1>1. Init => HistoryInv
  <2> SUFFICES ASSUME Init, NEW s \in Switches, NEW p \in Phases
               PROVE  HistoryAt(s, p)
    BY DEF HistoryInv
  <2>1. breakers[s] = InitialBreaker(setup.mode[s], setup.closed[s],
                                     setup.synchronized[s])
    BY DEF Init
  <2>2. ~breakers[s].requested
    BY <2>1 DEF InitialBreaker, Reported
  <2> QED BY <2>2 DEF HistoryAt
<1>2. BreakerInv /\ HistoryInv /\ [Next]_vars
        => [\A s \in Switches, p \in Phases : OpensAtZero(s, p)]_vars
  BY HistoryStep
<1>3. [\A s \in Switches, p \in Phases : OpensAtZero(s, p)]_vars <=>
      [\A s \in Switches, p \in Phases :
         breakers[s].mode = "CurrentZero" /\ breakers[s].poles[p]
           /\ ~breakers'[s].poles[p]
           => 0 \in sampled'[s][p] \/ {-1, 1} \subseteq sampled'[s][p]]_vars
  BY DEF OpensAtZero
<1> QED BY <1>1, <1>2, <1>3, HistoryStep, BreakerInvariance, PTL
        DEF Spec, PolesOpenAtCurrentZero

-----------------------------------------------------------------------------
(* The stamps in the matrix of a solve. *)

\* The stamp of the state that was last reported to the solver.
ReportedStamp(b) ==
  [p \in Phases |->
     IF b.mode = "Ideal" THEN Resistance(b.reported)
     ELSE IF b.mode = "CurrentZero" THEN Resistance(b.reported[p])
     ELSE b.reported]

\* With recomputation the factorized matrix holds what was last reported, as
\* long as no two components have changed in the same step.
MatrixAt(s) ==
  Recomputing /\ separate /\ setup.synchronized[s]
    => matrix[s] = ReportedStamp(breakers[s])

StampsInv == \A s \in Switches : MatrixAt(s)

StampedAt(s) ==
  \/ used'[s] = Stamp(breakers[s])
  \/ ~Recomputing /\ setup.mode[s] # "Ideal"
  \/ Recomputing /\ ~(separate' /\ setup.synchronized[s])

LEMMA ReportedIsStamped ==
  ASSUME NEW b \in Breakers
  PROVE  /\ ~HasParameterChanged(b) => ReportedStamp(b) = Stamp(b)
         /\ ReportedStamp(Reported(b)) = Stamp(b)
<1>1. ASSUME ~HasParameterChanged(b) PROVE ReportedStamp(b) = Stamp(b)
  BY <1>1 DEF HasParameterChanged, Watched, ReportedStamp, Stamp, Breakers, SwitchingModes
<1>2. Reported(b).mode = b.mode /\ Reported(b).reported = Watched(b)
  BY DEF Reported, Breakers
<1>3. ReportedStamp(Reported(b)) = Stamp(b)
  BY <1>2 DEF ReportedStamp, Watched, Stamp, Breakers, SwitchingModes
<1> QED BY <1>1, <1>3

LEMMA StampsInit == Init => StampsInv
<1> SUFFICES ASSUME Init, NEW s \in Switches, setup.synchronized[s]
             PROVE  matrix[s] = ReportedStamp(breakers[s])
  BY DEF StampsInv, MatrixAt
<1>1. breakers[s] \in Breakers
  BY BreakerInvInit DEF BreakerInv, Typed
<1>2. matrix[s] = Stamp(breakers[s])
  BY DEF Init, StampedMatrix
<1>3. breakers[s] = InitialBreaker(setup.mode[s], setup.closed[s], setup.synchronized[s])
  BY DEF Init
<1>4. ~HasParameterChanged(breakers[s])
  BY <1>3 DEF InitialBreaker, Reported, HasParameterChanged, Watched
<1> QED BY <1>1, <1>2, <1>4, ReportedIsStamped

\* Commands and post-steps report nothing.
LEMMA MatrixKept ==
  ASSUME BreakerInv, NEW s \in Switches, MatrixAt(s),
         breakers'[s].mode = breakers[s].mode,
         breakers'[s].reported = breakers[s].reported,
         UNCHANGED <<setup, matrix, separate>>
  PROVE  MatrixAt(s)'
BY DEF MatrixAt, Recomputing, ReportedStamp

\* A recomputing solve: after the first report all breakers are stamped; when
\* it was the only change, all that the others reported is still true.
LEMMA RecompStamps ==
  ASSUME BreakerInv, NEW s \in Switches, MatrixAt(s), SolveRecomp
  PROVE  MatrixAt(s)' /\ StampedAt(s)
<1> DEFINE b == breakers[s]
<1>1. b \in Breakers
  BY DEF BreakerInv, Typed
<1>2. /\ breakers'[s] = PolledBreakers[s]
      /\ setup' = setup /\ used' = matrix'
      /\ changed' = (ChangedSwitches # {})
      /\ matrix' = IF changed' THEN StampedMatrix ELSE matrix
      /\ separate' = (separate /\ \A t, u \in ChangedSwitches : t = u)
      /\ Recomputing
  BY DEF SolveRecomp, Solved
<1>3. s \in ChangedSwitches <=> HasParameterChanged(b)
  BY DEF ChangedSwitches
<1>4. s \notin ChangedSwitches => breakers'[s] = b
  BY <1>2 DEF PolledBreakers
<1> SUFFICES ASSUME separate', setup.synchronized[s]
             PROVE  /\ matrix'[s] = ReportedStamp(breakers'[s])
                    /\ matrix'[s] = Stamp(b)
  BY <1>2 DEF MatrixAt, StampedAt, Recomputing, ReportedStamp
<1>5. CASE ChangedSwitches = {}
  <2>1. matrix'[s] = ReportedStamp(b)
    BY <1>2, <1>5 DEF MatrixAt
  <2>2. ReportedStamp(b) = Stamp(b)
    BY <1>1, <1>3, <1>5, ReportedIsStamped
  <2> QED BY <1>4, <1>5, <2>1, <2>2
<1>6. CASE ChangedSwitches # {}
  <2>1. matrix'[s] = Stamp(b)
    BY <1>2, <1>6 DEF StampedMatrix
  <2>2. CASE s \in ChangedSwitches
    <3>1. \A t \in ChangedSwitches : s <= t
      <4> SUFFICES ASSUME NEW t \in ChangedSwitches PROVE s <= t
        OBVIOUS
      <4>1. t = s
        BY <1>2, <2>2
      <4>2. s \in Int
        BY DEF Switches
      <4> QED BY <4>1, <4>2
    <3>2. breakers'[s] = Reported(b)
      BY <1>2, <2>2, <3>1 DEF PolledBreakers
    <3> QED BY <1>1, <2>1, <3>2, ReportedIsStamped
  <2>3. CASE s \notin ChangedSwitches
    BY <1>1, <1>3, <1>4, <2>1, <2>3, ReportedIsStamped
  <2> QED BY <2>1, <2>2, <2>3
<1> QED BY <1>5, <1>6

\* Every step keeps the reported stamps, and a solve uses the present ones.
LEMMA StampsStep ==
  BreakerInv /\ StampsInv /\ [Next]_vars =>
    /\ StampsInv'
    /\ pending = {} /\ pending' # {} => \A s \in Switches : StampedAt(s)
<1> SUFFICES ASSUME BreakerInv, StampsInv, [Next]_vars, NEW s \in Switches
             PROVE  MatrixAt(s)' /\ (pending = {} /\ pending' # {} => StampedAt(s))
  BY DEF StampsInv
<1>1. /\ breakers[s] \in Breakers /\ Consistent(breakers[s]) /\ MatrixAt(s)
      /\ breakers \in [Switches -> Breakers] /\ pending \subseteq Tasks
      /\ current[s] \in [Phases -> Signs] /\ breakers[s].mode = setup.mode[s]
  BY DEF BreakerInv, Typed, AllConsistent, StampsInv
<1>2. ASSUME breakers'[s].mode = breakers[s].mode,
             breakers'[s].reported = breakers[s].reported,
             UNCHANGED <<setup, matrix, separate>>, pending' \subseteq pending
      PROVE  MatrixAt(s)' /\ (pending = {} /\ pending' # {} => StampedAt(s))
  BY <1>1, <1>2, MatrixKept
<1>3. ASSUME NEW t \in Switches, Open(t)
      PROVE  MatrixAt(s)' /\ (pending = {} /\ pending' # {} => StampedAt(s))
  <2>1. breakers'[s] = breakers[s] \/ breakers'[s] = OpenSwitch(breakers[s])
    BY <1>1, <1>3 DEF Open
  <2>2. breakers'[s].mode = breakers[s].mode /\ breakers'[s].reported = breakers[s].reported
    BY <1>1, <2>1, OpenSwitchConsistent
  <2> QED BY <1>2, <1>3, <2>2 DEF Open
<1>4. ASSUME NEW t \in Switches, Close(t)
      PROVE  MatrixAt(s)' /\ (pending = {} /\ pending' # {} => StampedAt(s))
  <2>1. breakers'[s] = breakers[s] \/ breakers'[s] = CloseSwitch(breakers[s])
    BY <1>1, <1>4 DEF Close
  <2>2. breakers'[s].mode = breakers[s].mode /\ breakers'[s].reported = breakers[s].reported
    BY <1>1, <2>1, CloseSwitchConsistent
  <2> QED BY <1>2, <1>4, <2>2 DEF Close
<1>5. ASSUME NEW t \in Switches, PostStep(t)
      PROVE  MatrixAt(s)' /\ (pending = {} /\ pending' # {} => StampedAt(s))
  <2>1. breakers'[s] = breakers[s] \/ breakers'[s] = PostStepped(breakers[s], current[s])
    BY <1>1, <1>5 DEF PostStep
  <2>2. breakers'[s].mode = breakers[s].mode /\ breakers'[s].reported = breakers[s].reported
    BY <1>1, <2>1, PostStepConsistent
  <2>3. UNCHANGED <<setup, matrix, separate>> /\ pending' \subseteq pending
    BY <1>5 DEF PostStep
  <2> QED BY <1>2, <2>2, <2>3
<1>6. CASE Solve
  <2>1. MatrixAt(s)'
    BY <1>6 DEF Solve, Solved, MatrixAt, Recomputing
  <2>2. used'[s] = SwitchStamp(IsClosed(breakers[s]))
    BY <1>6 DEF Solve, SwitchedMatrix, SwitchStatus
  <2>3. setup.mode[s] = "Ideal" => used'[s] = Stamp(breakers[s])
    BY <1>1, <2>2 DEF SwitchStamp, IsClosed, Stamp
  <2> QED BY <1>6, <2>1, <2>3 DEF Solve, StampedAt
<1>7. CASE SolveRecomp
  BY <1>1, <1>7, RecompStamps
<1>8. CASE Extract \/ UNCHANGED vars
  BY <1>2, <1>8 DEF Extract, vars
<1> QED BY <1>3, <1>4, <1>5, <1>6, <1>7, <1>8 DEF Next

(***************************************************************************)
(* solve() and solveWithSystemMatrixRecomputation() use the present stamp  *)
(* of a breaker: with precomputed matrices if it is ideal, with            *)
(* recomputation if it recorded its state at initialization and no two     *)
(* components have changed in one step.                                    *)
(***************************************************************************)
THEOREM PresentStamps == Spec => SolvedWithPresentStamps
<1>1. BreakerInv /\ StampsInv /\ [Next]_vars
        => [pending = {} /\ pending' # {} =>
              \A s \in Switches :
                \/ used'[s] = Stamp(breakers[s])
                \/ ~Recomputing /\ setup.mode[s] # "Ideal"
                \/ Recomputing /\ ~(separate' /\ setup.synchronized[s])]_vars
  BY StampsStep DEF StampedAt
<1> QED BY <1>1, StampsInit, StampsStep, BreakerInvariance, PTL
        DEF Spec, SolvedWithPresentStamps

-----------------------------------------------------------------------------
(* Types. *)

\* What every solve and every breaker stamps is a matrix.
LEMMA StampsTyped ==
  ASSUME BreakerInv
  PROVE  /\ StampedMatrix \in Matrices
         /\ SwitchStatus \in [Switches -> BOOLEAN]
         /\ \A st \in [Switches -> BOOLEAN] : SwitchedMatrix(st) \in Matrices
<1>1. \A s \in Switches : Stamp(breakers[s]) \in [Phases -> 0 .. SwitchingSteps]
  BY PathIsInterval DEF BreakerInv, Typed, Stamp, Resistance, Breakers
<1>2. \A closed \in BOOLEAN : SwitchStamp(closed) \in [Phases -> 0 .. SwitchingSteps]
  BY PathIsInterval DEF SwitchStamp, Resistance
<1>3. SwitchStatus \in [Switches -> BOOLEAN]
  BY DEF SwitchStatus, IsClosed, AllPolesClosed, BreakerInv, Typed, Breakers
<1> QED BY <1>1, <1>2, <1>3 DEF StampedMatrix, SwitchedMatrix, Matrices

(***************************************************************************)
(* The members of the solver, the breakers and the extractor keep their    *)
(* types through every command, solve and post-step.                       *)
(***************************************************************************)
THEOREM TypeCorrectness == Spec => []TypeOK
<1>1. BreakerInv /\ Init => TypeOK
  <2> SUFFICES ASSUME BreakerInv, Init PROVE TypeOK
    OBVIOUS
  <2>1. status \in [Switches -> BOOLEAN]
    BY StampsTyped DEF Init
  <2>2. commands \in 0 .. MaxCommands
    BY MnaAssumption DEF Init
  <2> QED BY <2>1, <2>2, StampsTyped DEF Init, BreakerInv, Typed, TypeOK
<1>2. BreakerInv /\ BreakerInv' /\ TypeOK /\ [Next]_vars => TypeOK'
  <2> SUFFICES ASSUME BreakerInv, BreakerInv', TypeOK, [Next]_vars PROVE TypeOK'
    OBVIOUS
  <2>1. CASE \E s \in Switches : Open(s) \/ Close(s)
    <3>1. commands' \in 0 .. MaxCommands
      BY <2>1, MnaAssumption DEF Open, Close, TypeOK
    <3> QED BY <2>1, <3>1 DEF Open, Close, BreakerInv, Typed, TypeOK
  <2>2. CASE \E s \in Switches : PostStep(s)
    BY <2>2 DEF PostStep, BreakerInv, Typed, TypeOK
  <2>3. CASE Solve
    <3>1. status' \in [Switches -> BOOLEAN] /\ used' \in Matrices /\ changed' \in BOOLEAN
      BY <2>3, StampsTyped DEF Solve
    <3> QED BY <2>3, <3>1 DEF Solve, Solved, BreakerInv, Typed, TypeOK, Matrices
  <2>4. CASE SolveRecomp
    <3>1. matrix' \in Matrices /\ used' \in Matrices /\ changed' \in BOOLEAN
      BY <2>4, StampsTyped DEF SolveRecomp, TypeOK
    <3> QED BY <2>4, <3>1 DEF SolveRecomp, Solved, BreakerInv, Typed, TypeOK, Matrices
  <2>5. CASE Extract
    BY <2>5 DEF Extract, BreakerInv, Typed, TypeOK, Matrices
  <2>6. CASE UNCHANGED vars
    BY <2>6 DEF vars, TypeOK, Matrices
  <2> QED BY <2>1, <2>2, <2>3, <2>4, <2>5, <2>6 DEF Next
<1> QED BY <1>1, <1>2, BreakerInvInit, BreakerInvariance, PTL DEF Spec
=============================================================================
