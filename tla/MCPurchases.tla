---------------------------- MODULE MCPurchases ----------------------------
(* Instances of Purchases for TLC. *)
EXTENDS Purchases, TLC

S(cs, ks, verbs, faults) == [clients |-> cs, lines |-> ks, verbs |-> verbs, faults |-> faults]

(* One client with both kinds of line and failing calls, and with one kind  *)
(* and every fault; two clients that deploy and delete, two that run.       *)
Everything ==
  UNION {{S({c}, Lines, {"deploy", "delete"}, {"api", "half", "end", "endLost", "elsewhere"}),
          S({c}, {"grpc"}, {"deploy", "delete"}, FaultNames)} : c \in Clients} \cup
  {S(Clients, {"grpc"}, {"deploy", "delete"}, {"half"}),
   S(Clients, {"grpc"}, {"run"}, {"half", "api", "end", "endLost", "elsewhere"})}

Alike == Permutations(Clients)

(* What of a state any later step or property depends on. *)
Matters ==
  <<account, scene, record, {c \in stale : pc[c] # "idle"}, clients, told \cap charged>>
=============================================================================
