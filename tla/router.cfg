SPECIFICATION Spec
CONSTANTS
  None = None
  Keys = {}
  Refusals = {}
  Components <- MCComponents
  Calls = {k1, k2}
  MaxRegistered = 2
INVARIANT
  OnlyTheOneIsAsked
PROPERTY
  NoCallHoldsUpAnother
