--------------------------- MODULE MCPromptPreflight ---------------------------
(* PromptPreflight for TLC. *)
EXTENDS PromptPreflight
===============================================================================
