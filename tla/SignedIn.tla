----------------------------- MODULE SignedIn -----------------------------
(***************************************************************************)
(* What the session code promises of the machine's credential stores, and  *)
(* nothing of how: which sign-in (family of tokens) each store holds.      *)
(* A sign-in is approved once, may be stored once, in one store, and a     *)
(* store is emptied only while a sign-out somebody asked for is under way   *)
(* for it.  Rotating a session, parking it, filing it away, failing or     *)
(* crashing changes nothing of this.                                       *)
(***************************************************************************)
EXTENDS Naturals

CONSTANTS Stores, MaxGrant

VARIABLES grants,    \* sign-ins the operator has approved so far: 1..grants
          pending,   \* those approved and not stored yet
          session,   \* the sign-in each store holds, 0 for none
          signOuts   \* the stores that sign-outs under way are for

vars == <<grants, pending, session, signOuts>>

(* An approved session is pending until it is stored, unless the machine      *)
(* starts out with one.                                                     *)
Init ==
  /\ grants \in 0..1 /\ grants <= MaxGrant
  /\ pending = {}
  /\ session \in [Stores -> {0, grants}]
  /\ signOuts = {}

Approve ==
  /\ grants < MaxGrant
  /\ grants' = grants + 1
  /\ pending' = pending \cup {grants + 1}
  /\ UNCHANGED <<session, signOuts>>

SignIn(s) ==
  \E f \in pending :
    /\ session' = [session EXCEPT ![s] = f]
    /\ pending' = pending \ {f}
    /\ UNCHANGED <<grants, signOuts>>

(* Somebody asks to be signed out of s, or moves to another store.          *)
AskOut(s) ==
  /\ signOuts' = signOuts \cup {s}
  /\ UNCHANGED <<grants, pending, session>>

(* It empties the store and, unless another one is under way for it, ends.  *)
SignOut(s) ==
  /\ s \in signOuts
  /\ session' = [session EXCEPT ![s] = 0]
  /\ signOuts' \in {signOuts, signOuts \ {s}}
  /\ UNCHANGED <<grants, pending>>

(* Sign-ins and sign-outs that came to nothing: refused, or cut off with    *)
(* their process.                                                           *)
Abandon ==
  /\ pending' \subseteq pending
  /\ signOuts' \subseteq signOuts
  /\ UNCHANGED <<grants, session>>

Next ==
  \/ Approve \/ Abandon
  \/ \E s \in Stores : SignIn(s) \/ AskOut(s) \/ SignOut(s)

Spec == Init /\ [][Next]_vars
=============================================================================
