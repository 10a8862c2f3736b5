-------------------------- MODULE MCWorkerReleases --------------------------
(* Instances of WorkerReleases for TLC.                                     *)
EXTENDS WorkerReleases, TLC

CONSTANT key

\* The first release needs nothing, the others the key.
KeySince2 == [r \in Releases |-> IF r = 1 THEN {} ELSE {key}]
\* The first release needs the key, which was taken out of the others.
KeyUntil1 == [r \in Releases |-> IF r = 1 THEN {key} ELSE {}]

\* Nothing tells the clients apart.
Alike == Permutations(Clients)
=============================================================================
