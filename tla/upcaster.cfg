SPECIFICATION Spec
CONSTANTS
  None = None
  Keys = {"BAD"}
  Refusals = {}
  Types = {"v1", "v2", "v3"}
  Rules = {"v1", "v2"}
  Failures <- MCFailures
  NoSequence = NoSequence
  Requests <- MCRequests
INVARIANTS
  UpcastToTheEnd
  EveryEntryIsAnswered
PROPERTY
  EveryUpcastEnds
