SPECIFICATION Spec
CONSTANTS
  Request = {r1, r2}
  Subscriber = {s1}
  Call = {c1}
  None = None
INVARIANT ChallengeMeetsItsKeys
CHECK_DEADLOCK FALSE
