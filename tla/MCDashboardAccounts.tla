-------------------------- MODULE MCDashboardAccounts --------------------------
(* DashboardAccounts for TLC.  Rows, tabs and browsers are interchangeable *)
(* (no liveness is checked); the last bounds the requests of all tabs.     *)
EXTENDS DashboardAccounts, TLC
Symmetry == Permutations(Rows) \cup Permutations(Tabs) \cup Permutations(Browsers)
================================================================================
