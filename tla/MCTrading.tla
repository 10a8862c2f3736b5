------------------------------ MODULE MCTrading ------------------------------
(* Instances of Trading for TLC. *)
EXTENDS Trading

CONSTANTS p1, p2, A, B

One == [p \in Pools |-> A]
Two == [p \in Pools |-> IF p = p1 THEN A ELSE B]
S(F, token, loop) == [faults |-> F, token |-> token, autoLoop |-> loop]

(* Faults of sending; a slow RPC; two tokens and one slot; the operator; a  *)
(* restart.                                                                 *)
Trades ==
  {S({"rpc", "send", "refuse", "slip"}, One, FALSE), S({"lag"}, One, FALSE), S({}, Two, FALSE),
   S({"manual"}, One, FALSE), S({"restart", "rpc"}, One, TRUE)}
=============================================================================
