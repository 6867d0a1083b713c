SPECIFICATION Spec
CONSTANTS
  None = None
  Keys = {"BAD"}
  Refusals = {}
  Fresh <- MCFresh
  Apply <- MCApply
  Rejects <- MCRejects
  Applied <- MCApplied
  Batched = TRUE
  HasCodec = FALSE
  Dispatches = {d1}
  Domains = None
  Finishes = FALSE
  Failures <- MCFailures
  Runs <- MCRuns
PROPERTY
  FoldPanicIsAnswered
