CONSTANTS
  PerStep = 3
  MaxSteps = 10
  Delays <- MCDelays
SPECIFICATION Spec
INVARIANTS DelayedExactly ExtrapolatedToPresent
CHECK_DEADLOCK FALSE
