-------------------------- MODULE MCWorkerFirewall --------------------------
(* Instances of WorkerFirewall for TLC.                                     *)
EXTENDS WorkerFirewall, TLC

\* Nothing tells the clients apart, nor the workers.
Alike == Permutations(Clients) \cup Permutations(Workers)
=============================================================================
