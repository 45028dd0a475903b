------------------------------- MODULE Breaker -------------------------------
(***************************************************************************)
(* The circuit breakers with three switching modes: DP::Ph1::Switch,       *)
(* DP::Ph3::Switch and EMT::Ph3::Switch                                    *)
(* (dpsim-models/src/DP/DP_Ph1_Switch.cpp, DP/DP_Ph3_Switch.cpp,           *)
(* EMT/EMT_Ph3_Switch.cpp).  The three classes run one machine; they       *)
(* differ in the number of poles and in whether initialization records     *)
(* the state last reported to the solver.  The operators below take the    *)
(* record of one breaker to its next one; module MnaSolver calls them.     *)
(*                                                                         *)
(* A resistance is its position on the path from R_closed (0) to R_open    *)
(* (SwitchingSteps), a current is its sign, 0 within the tolerance.        *)
(***************************************************************************)
EXTENDS Integers

CONSTANTS
  Phases,          \* the poles: one in DP::Ph1, three in the Ph3 classes
  SwitchingSteps   \* mExponentialSwitchingTime in time steps, rounded up

ASSUME BreakerAssumption == SwitchingSteps \in Nat \ {0}

SwitchingModes == {"Ideal", "CurrentZero", "ExponentialZCSEmulation"}

Signs == {-1, 0, 1}

AllPoles(closed) == [p \in Phases |-> closed]

\* Where R_closed and R_open are on the resistance path.
Resistance(closed) == IF closed THEN 0 ELSE SwitchingSteps

(***************************************************************************)
(* The members of a breaker: mIsClosed, mPoleClosedA..C,                   *)
(* mOpeningRequested, mResetZeroCrossingHistory, mPreviousCurrent,         *)
(* mExponentialTransitionActive and ..Closing, the post-steps since the    *)
(* transition started, the effective resistance, and the state             *)
(* hasParameterChanged() compares with.                                    *)
(***************************************************************************)
Breakers ==
  [mode : SwitchingModes, isClosed : BOOLEAN, poles : [Phases -> BOOLEAN],
   requested : BOOLEAN, resetHistory : BOOLEAN, previous : [Phases -> Signs],
   active : BOOLEAN, closing : BOOLEAN, elapsed : 0 .. SwitchingSteps,
   alpha : 0 .. SwitchingSteps,
   reported : BOOLEAN \cup [Phases -> BOOLEAN] \cup 0 .. SwitchingSteps]

AllPolesOpen(b) == \A p \in Phases : ~b.poles[p]
AllPolesClosed(b) == \A p \in Phases : b.poles[p]

\* mnaIsClosed()
IsClosed(b) == IF b.mode = "Ideal" THEN b.isClosed ELSE AllPolesClosed(b)

\* currentConductance(): the resistance each pole is stamped with.
Stamp(b) ==
  [p \in Phases |->
     IF b.mode = "Ideal" THEN Resistance(b.isClosed)
     ELSE IF b.mode = "CurrentZero" THEN Resistance(b.poles[p])
     ELSE b.alpha]

\* mnaCompApplySwitchSystemMatrixStamp(): the precomputed two-state stamp.
SwitchStamp(closed) == [p \in Phases |-> Resistance(closed)]

\* The member hasParameterChanged() watches in each mode.
Watched(b) ==
  IF b.mode = "Ideal" THEN b.isClosed
  ELSE IF b.mode = "CurrentZero" THEN b.poles
  ELSE b.alpha

HasParameterChanged(b) == Watched(b) # b.reported
Reported(b) == [b EXCEPT !.reported = Watched(b)]

(***************************************************************************)
(* setSwitchingMode(), initializeFromNodesAndTerminals() and               *)
(* mnaCompInitialize(): the power flow fixes the state; EMT::Ph3 leaves    *)
(* mIsClosedPrev at false, which the Ideal mode compares with.             *)
(***************************************************************************)
InitialBreaker(mode, closed, synchronized) ==
  LET b == [mode |-> mode, isClosed |-> closed, poles |-> AllPoles(closed),
            requested |-> FALSE, resetHistory |-> FALSE,
            previous |-> [p \in Phases |-> 0],
            active |-> FALSE, closing |-> FALSE, elapsed |-> 0,
            alpha |-> Resistance(closed), reported |-> FALSE]
  IN IF mode = "Ideal" /\ ~synchronized THEN b ELSE Reported(b)

\* resetExponentialTransition() and synchronizeEffectiveResistance(closed)
\* around setAllPoles(closed): no transition, and the state of the poles.
Settled(b, closed) ==
  [b EXCEPT !.active = FALSE, !.closing = FALSE, !.elapsed = 0,
            !.poles = AllPoles(closed), !.alpha = Resistance(closed)]

\* A transition from now on: the poles and the resistance are at its start.
Ramping(b, closing) ==
  [Settled(b, ~closing) EXCEPT !.active = TRUE, !.closing = closing]

-----------------------------------------------------------------------------
(***************************************************************************)
(* openSwitch(): the command is recorded, the poles follow at once         *)
(* (Ideal), at their current zeros (CurrentZero) or after the ramp.        *)
(***************************************************************************)
OpenSwitch(b) ==
  LET c == [b EXCEPT !.isClosed = FALSE] IN
  IF (b.active /\ b.closing) \/ b.mode = "Ideal"
    THEN [Settled(c, FALSE) EXCEPT !.requested = FALSE]
  ELSE IF AllPolesOpen(b) THEN [c EXCEPT !.requested = FALSE]
  ELSE IF b.mode = "CurrentZero"
    THEN [c EXCEPT !.requested = TRUE, !.resetHistory = TRUE,
                   !.active = FALSE, !.closing = FALSE, !.elapsed = 0]
  ELSE [Ramping(c, FALSE) EXCEPT !.requested = TRUE]

\* Fault: the opening request outlives the closing command.
CloseSwitchKeepingRequest(b) ==
  LET c == [b EXCEPT !.isClosed = TRUE, !.resetHistory = FALSE] IN
  IF b.mode # "ExponentialZCSEmulation" \/ (AllPolesClosed(b) /\ ~b.active)
    THEN Settled(c, TRUE)
    ELSE Ramping(c, TRUE)

(***************************************************************************)
(* closeSwitch(): the request is withdrawn; the poles close at once, or    *)
(* after a ramp, which also replaces an opening ramp under way.            *)
(***************************************************************************)
CloseSwitch(b) ==
  LET c == [b EXCEPT !.isClosed = TRUE, !.requested = FALSE,
                     !.resetHistory = FALSE] IN
  IF b.mode # "ExponentialZCSEmulation" \/ (AllPolesClosed(b) /\ ~b.active)
    THEN Settled(c, TRUE)
    ELSE Ramping(c, TRUE)

-----------------------------------------------------------------------------
\* currentCrossedZero() of two samples.
CrossedZero(previous, current) == current = 0 \/ previous * current < 0

\* Fault: the sample before the command counts for the sign test.
UpdateWithOldSample(b, current) ==
  LET zero(p) == CrossedZero(b.previous[p], current[p])
      poles == [p \in Phases |-> b.poles[p] /\ ~(b.requested /\ zero(p))]
  IN [b EXCEPT !.previous = current,
               !.resetHistory = @ /\ ~b.requested,
               !.poles = poles,
               !.requested = @ /\ \E p \in Phases : poles[p]]

\* Fault: every sample is treated as the first one after the command.
UpdateAlwaysReset(b, current) ==
  LET poles == [p \in Phases |-> b.poles[p] /\ ~(b.requested /\ current[p] = 0)]
  IN [b EXCEPT !.previous = current,
               !.poles = poles,
               !.requested = @ /\ \E p \in Phases : poles[p]]

(***************************************************************************)
(* updateZeroCrossingState(): while an opening is requested, each closed   *)
(* pole opens at its own current zero.  The first sample after the command *)
(* is compared with nothing.                                               *)
(***************************************************************************)
UpdateZeroCrossingState(b, current) ==
  LET zero(p) == IF b.resetHistory
                   THEN current[p] = 0
                   ELSE CrossedZero(b.previous[p], current[p])
      poles == [p \in Phases |-> b.poles[p] /\ ~(b.requested /\ zero(p))]
  IN [b EXCEPT !.previous = current,
               !.resetHistory = @ /\ ~b.requested,
               !.poles = poles,
               !.requested = @ /\ \E p \in Phases : poles[p]]

(***************************************************************************)
(* updateExponentialTransition(): the resistance of the next step, and at  *)
(* the end of the path the poles.                                          *)
(***************************************************************************)
UpdateExponentialTransition(b) ==
  LET elapsed == b.elapsed + 1 IN
  IF ~b.active THEN b
  ELSE IF elapsed < SwitchingSteps
    THEN [b EXCEPT !.elapsed = elapsed,
                   !.alpha = IF b.closing THEN SwitchingSteps - elapsed
                                          ELSE elapsed]
  ELSE [Settled(b, b.closing) EXCEPT !.requested = FALSE]

\* mnaCompPostStep() after the interface current was updated.
PostStepped(b, current) ==
  IF b.mode = "CurrentZero" THEN UpdateZeroCrossingState(b, current)
  ELSE IF b.mode = "ExponentialZCSEmulation" THEN UpdateExponentialTransition(b)
  ELSE b
=============================================================================
