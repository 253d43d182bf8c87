--------------------------- MODULE MCResidentWorker ---------------------------
(* ResidentWorker for TLC. *)
EXTENDS ResidentWorker
===============================================================================
