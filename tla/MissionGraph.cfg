SPECIFICATION Spec
CONSTANTS
  Actors = {o, w}
  Owner = o
  Keys <- MCKeys
  Criteria = {k1}
  c1 = c1
  c2 = c2
  Candidates = {c1, c2}
  Failures = {f1}
  Advances <- MCAdvances
  Samples <- MCSamples
  Dims = {tokens}
  Budget <- MCBudget
  MaxIterations = 2
  MaxEvents = 8
  MaxRefresh = 1
  NoActor = NoActor
  NoCriterion = NoCriterion
  Plain = Plain
  UsageWeight = 3
CONSTRAINT ChainBound
INVARIANTS TypeOK AttemptsMatchHistory VerdictsAreIndependent RetriesAnswerTheLatestFailure BudgetFence UsageIsChargedOncePerKey CommittedThreadReopens
PROPERTIES JournalSpec
