SPECIFICATION Spec
CONSTANTS
  Message = {m1}
  Declare = Declare
INVARIANT RouterHoldsInstances
