CONSTANTS
  None = None
  u1 = u1
  u2 = u2
  r1 = r1
  r2 = r2
  Users <- MCUsers
  Requests <- MCRequests
  UserOf <- MCUserOf
  Rank <- MCRank
  Cases <- MCCases
  Reports <- MCReports
  LastDay = 2
  MaxDisabled = 1
SPECIFICATION HistorySpec
INVARIANTS HistoryMatchesAnswer ReportsAgree
CHECK_DEADLOCK FALSE
