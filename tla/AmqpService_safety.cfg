SPECIFICATION FairSpec
CONSTANTS
  Message = {m1, m2, m3}
  Declare = Declare
INVARIANTS
  TypeOK
  SingleDriver
  SomebodyDrives
  NothingStranded
  Ledger
  Phases
PROPERTIES
  LossIsFinal
  LossesExplained
  OvertakenOnlyInSetup
  ImplementsOutbox
  Boots
  PendingLeaves
