--------------------------- MODULE MCAccountSessions ---------------------------
(* AccountSessions for TLC. *)
EXTENDS AccountSessions
================================================================================
