SPECIFICATION Spec
CONSTANTS
  Rows = {r1, r2}
  Logins = {Admin, l2}
  AdminLogin = Admin
  Tabs = {t1, t2}
  Browsers = {b1, b2}
  Sessions = {s1, s2}
  Secrets = {1, 2, 3, 4, 5}
  None = None
  MaxRequests = 3
SYMMETRY Symmetry
INVARIANTS CookieInStep SerialKeepsAdmin
PROPERTIES RestartRestores
CHECK_DEADLOCK FALSE
