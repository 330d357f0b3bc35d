SPECIFICATION Spec
CONSTANTS
  Request = {r1, r2, r3}
  Subscriber = {s1, s2}
  Call = {c1, c2}
  None = None
SYMMETRY Symmetry
INVARIANTS
  TypeOK
  RegistryKeysAreKept
  VerifiedKeysAreUsed
  VerificationOnRecord
  RecordsOwned
  CodeIsCleared
  Consistent
PROPERTIES
  OrphansLockOut
  KeysNeverRotate
CHECK_DEADLOCK FALSE
