SPECIFICATION FairSpec
CONSTANTS
  Users = {u1}
  Tokens = {p1, p2, p3}
  Calls = {1, 2}
  NoToken = NoToken
  MaxDeaths = 1
INVARIANTS PairedTokens ForksOverlap PasswordChangeHolds
PROPERTIES EveryCallEnds
CHECK_DEADLOCK FALSE
