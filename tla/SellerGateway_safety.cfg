SPECIFICATION SellerSpec
CONSTANTS
  Request = {r1, r2}
  Subscriber = {s1, s2}
  Call = {c1}
  SellerCall = {k1}
  None = None
INVARIANTS
  SellerTypeOK
  SignedWithVerifiedKeys
PROPERTY ImplementsIdentity
SYMMETRY Symmetry
CHECK_DEADLOCK FALSE
