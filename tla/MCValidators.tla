---------------------------- MODULE MCValidators ----------------------------
(* Instances of Validators for TLC.                                         *)
EXTENDS Validators, FiniteSetsExt, TLC

S(ops, M, A, after, n) ==
  [ops |-> ops, machines |-> M, servers |-> A, after |-> after, late |-> n]

(* Two servers from one machine, and what follows them; one server from two  *)
(* machines; the validator's keys from two machines; and one machine and one   *)
(* server where a write outlives its erpc.                                  *)
Networks ==
  {S({"init"}, M, Addresses, "nothing", 0) : M \in kSubset(1, Machines)}
  \cup {S({"init", "deploy"}, M, Addresses, "init", 0) : M \in kSubset(1, Machines)}
  \cup {S({"init"}, Machines, A, "keys", 0) : A \in kSubset(1, Addresses)}
  \cup {S({"deploy", "keys", "vote"}, Machines, A, "init", 0) : A \in kSubset(1, Addresses)}
  \cup {S({"init"}, M, A, "nothing", 1) : M \in kSubset(1, Machines), A \in kSubset(1, Addresses)}
  \cup {S({"deploy", "keys", "vote"}, M, A, "init", 1) :
          M \in kSubset(1, Machines), A \in kSubset(1, Addresses)}

\* Nothing tells the commands, the machines or the servers apart.
Alike == Permutations(Cmds) \cup Permutations(Machines) \cup Permutations(Addresses)
=============================================================================
