----------------------------- MODULE MCSession -----------------------------
(* Instances of Session for TLC.                                            *)
EXTENDS Session, TLC

CONSTANTS p1, p2, c1, c2

\* Two commands, each in a process of its own, and the console: one process
\* with two.
TwoProcs == (c1 :> p1) @@ (c2 :> p2)
OneProc  == (c1 :> p1) @@ (c2 :> p1)

\* Nothing tells the two commands apart.
Swap == {(c1 :> c2) @@ (c2 :> c1) @@ (p1 :> p2) @@ (p2 :> p1)}
=============================================================================
