---------------------------- MODULE MCWorkerProcess ----------------------------
(* Instances of WorkerProcess for TLC. *)
EXTENDS WorkerProcess

CONSTANTS h1, h2
===============================================================================
