-------------------------- MODULE MCMlInferenceQueue --------------------------
(* MlInferenceQueue for TLC. *)
EXTENDS MlInferenceQueue
===============================================================================
