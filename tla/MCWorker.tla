------------------------------ MODULE MCWorker -------------------------------
(* Instances of WorkerProcess: a worker and the script that generates       *)
(* files, both processes of one application.                                *)
EXTENDS WorkerProcess

CONSTANTS w1, s1
=============================================================================
