SPECIFICATION SellerSpec
CONSTANTS
  Request = {r1, r2}
  Subscriber = {s1}
  Call = {c1}
  SellerCall = {k1}
  None = None
CHECK_DEADLOCK FALSE
INVARIANT SignaturesVerify
