------------------------------ MODULE MCWslWorker ------------------------------
(* Instances of WslWorker for TLC. *)
EXTENDS WslWorker

CONSTANTS h1, h2
===============================================================================
