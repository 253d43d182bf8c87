-------------------------- MODULE MCTorchWorkerClient --------------------------
(* TorchWorkerClient for TLC. *)
EXTENDS TorchWorkerClient
===============================================================================
