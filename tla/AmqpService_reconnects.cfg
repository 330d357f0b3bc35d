SPECIFICATION FairSpec
CONSTANTS
  Message = {m1}
  Declare = Declare
PROPERTY Reconnects
