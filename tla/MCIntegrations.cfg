SPECIFICATION Spec
CONSTANTS
  r1 = r1
  r2 = r2
  r3 = r3
  r0 = r0
  Provider = {"email", "google_calendar"}
  Request = {r1, r2, r3}
  Earlier = r0
  MaxFaults = 1
SYMMETRY Symmetry
INVARIANTS
  IntegrationsInv
  ShopIsOneShop
  ReplacedSecretsAreGone
\* Requests end.
CHECK_DEADLOCK FALSE
