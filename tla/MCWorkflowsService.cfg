SPECIFICATION Spec
CONSTANTS
  w1 = w1
  w2 = w2
  r1 = r1
  r2 = r2
  Workflow = {w1, w2}
  Request = {r1, r2}
  Definition <- MCDefinition
  Valid <- MCValid
  NodesOf <- MCNodesOf
  EdgesOf <- MCEdgesOf
  MaxDbErrors = 1
SYMMETRY SymmetricRequests
INVARIANTS
  OneGraphPerVersion
  RunsWereActive
  RunsAreValid
  TablesMirror
\* Requests end.
CHECK_DEADLOCK FALSE
