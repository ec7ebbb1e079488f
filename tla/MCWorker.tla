------------------------------ MODULE MCWorker ------------------------------
(* Instances of WorkerProcess for TLC.                                      *)
EXTENDS WorkerProcess

CONSTANTS import, lab1
=============================================================================
