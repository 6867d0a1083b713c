SPECIFICATION Spec
CONSTANTS
  None = None
  Keys = {"BAD"}
  Refusals = {}
  Fresh <- MCFresh
  Apply <- MCApply
  Rejects <- MCRejects
  Applied <- MCApplied
  Batched = FALSE
  HasCodec = FALSE
  Dispatches = {d1, d2}
  Domains = {"orders"}
  Finishes = TRUE
  Failures <- MCFailures
  Runs <- MCRuns
INVARIANT
  AnswersTheWholeRun
PROPERTY
  EveryRunEnds
