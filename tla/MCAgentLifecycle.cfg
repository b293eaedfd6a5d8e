SPECIFICATION Spec
CONSTANTS
  r1 = r1
  r2 = r2
  r3 = r3
  Request = {r1, r2, r3}
  Config <- MCConfig
  Template <- MCTemplate
  Missing = Missing
  DefaultInstructions = "helpful"
  Tool = {tool}
  KnowledgeBase = {base}
  MaxDbErrors = 1
SYMMETRY SymmetricRequests
INVARIANTS
  AgentsInv
  CommittedKept
PROPERTY RollbackRestores
\* Requests end.
CHECK_DEADLOCK FALSE
