SPECIFICATION Spec
CONSTANTS
  c1 = c1
  c2 = c2
  r1 = r1
  r2 = r2
  l1 = l1
  l2 = l2
  Call = {c1, c2}
  Request = {r1, r2}
  Link = {l1, l2}
  Purpose <- MCPurpose
  Casts <- MCCasts
  MaxTokens = 5
  MaxFaults = 1
INVARIANTS
  SessionsInv
  RotationIsSingle
  ResetEndsSessions
  StoredTokenIsUnspent
PROPERTY
  ForgetsOnlyDeadSessions
\* Calls and requests end.
CHECK_DEADLOCK FALSE
