SPECIFICATION ClientsSpec
CONSTANTS
  Actors = {o, w}
  Owner = o
  Keys = {k1, k2, k3}
  Callers = {p1, p2, p3}
  w = w
  c1 = c1
  Criteria = {m1}
  Candidates = {c1}
  Failures = {}
  Advances <- MCAdvances
  Samples <- MCSamples
  Intents <- MCIntents
  Dims = {tokens}
  Budget <- MCBudget
  MaxIterations = 1
  NoActor = NoActor
  NoCriterion = NoCriterion
  Plain = Plain
SYMMETRY KeySymmetry
INVARIANTS AnswersAreTrue
PROPERTIES StatusIsAccurate
