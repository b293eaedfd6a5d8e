SPECIFICATION Spec
CONSTANTS
  r1 = r1
  r2 = r2
  r3 = r3
  u1 = u1
  u2 = u2
  u3 = u3
  User = {u1, u2, u3}
  Known = {u1, u2}
  Role = {"OWNER", "ADMIN", "OPERATOR"}
  Slugs = 3
  Request = {r1, r2, r3}
  MaxFaults = 1
SYMMETRY Symmetry
INVARIANTS
  MembershipInv
  AccountsHaveOrganization
\* Requests end.
CHECK_DEADLOCK FALSE
