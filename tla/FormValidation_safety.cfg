SPECIFICATION Spec
CONSTANTS
  NaN = NaN
  TextsOf <- MCTextsOf
  MaxOpen = 2
INVARIANTS
  MessagesFollowText
  BoundsAreKept
CHECK_DEADLOCK FALSE
