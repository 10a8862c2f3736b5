--------------------------- MODULE RotationProofs --------------------------
(***************************************************************************)
(* No call presents a spent refresh token while its successor is still on   *)
(* the machine, whatever fails, ends or panics, for every number of         *)
(* processes, calls, stores, sign-ins and rotations: the argument is about  *)
(* where the newest token of a family can be while a store holds a spent    *)
(* one.                                                                     *)
(***************************************************************************)
EXTENDS SessionProofs

-----------------------------------------------------------------------------
(* The parts of the invariant.                                              *)

(* No token is of a family or a generation the issuer has not handed out.   *)
Known(t) == t \in Token => t.fam <= grants /\ t.gen <= newest[t.fam]
TokensKnown ==
  /\ \A s \in Stores : Known(store[s])
  /\ \A c \in Calls : Known(held[c]) /\ Known(fresh[c])
  /\ parked \in Record => Known(parked.cred) /\ Known(parked.replaces)
  /\ \A p \in Procs : \A r \in toPark[p] : Known(r.cred) /\ Known(r.replaces)
  /\ \A f \in Grant : f > grants => newest[f] = 0

(* A parked session is the one handed out for the session it replaces.      *)
Successor(new, old) ==
  new \in Token /\ old \in Token /\ new.fam = old.fam /\ new.gen = old.gen + 1
RecordsSucceed ==
  /\ parked \in Record => Successor(parked.cred, parked.replaces)
  /\ \A p \in Procs : \A r \in toPark[p] : Successor(r.cred, r.replaces)

(* What a call carries: the newest token of its family, if the issuer has    *)
(* answered it; one never rotated, if it signs in; otherwise nothing.       *)
CarriesNewest ==
  \A c \in Calls :
    /\ pc[c] \in HasAnswer => /\ Successor(fresh[c], held[c])
                              /\ fresh[c] = Newest(fresh[c].fam)
    /\ pc[c] \in {"park", "filed"} => store[st[c]] \in {held[c], fresh[c]}
    /\ pc[c] \in NewSession => fresh[c].gen = 0
    /\ pc[c] \in Unstored => newest[fresh[c].fam] = 0
    /\ fresh[c] # None => pc[c] \in HasAnswer \cup NewSession \cup {"file", "clear"}

(* Nobody else has what a call has been answered, but for what its own       *)
(* process has collected; before the call has heard it, nobody at all.      *)
InHand == {"reply", "save", "park", "drop"}
OnlyHere ==
  \A c \in Calls : pc[c] \in InHand =>
    /\ \A q \in Procs \ {ProcOf[c]} : \A r \in toPark[q] : r.cred # fresh[c]
    /\ pc[c] = "reply" =>
         /\ \A r \in toPark[ProcOf[c]] : r.cred # fresh[c]
         /\ parked \in Record => parked.cred # fresh[c]

(* A store left with a spent token of a live family whose successor is not   *)
(* given up.                                                                *)
Behindhand(s) ==
  /\ store[s] \in Token /\ Spent(store[s])
  /\ store[s].fam \notin revoked \cup forfeit
Superseded(s) ==
  /\ parked \in Record
  /\ parked.replaces = store[s] /\ parked.cred = Newest(store[s].fam)
BeingFiled(s) == \E c \in Calls : pc[c] \in InHand /\ st[c] = s

(* The successor of a spent token in a store is on its way to that store, or *)
(* parked to supersede exactly what that store holds.                       *)
SuccessorFiled ==
  \A s \in Stores : Behindhand(s) /\ HasCopy(store[s].fam) => BeingFiled(s) \/ Superseded(s)

(* A call that has dealt with the parked file goes on without one that       *)
(* would have superseded its session.                                       *)
Dealt(c) ==
  /\ pc[c] \in {"load", "ask"} => ~(Behindhand(st[c]) /\ Superseded(st[c]))
  /\ pc[c] = "clear" => \A s \in Stores : ~(Behindhand(s) /\ Superseded(s))
  /\ pc[c] = "file" =>
       /\ \A s \in Stores \ {st[c]} : ~(Behindhand(s) /\ Superseded(s))
       /\ \/ fresh[c].fam \in revoked \cup forfeit
          \/ ~HasCopy(fresh[c].fam)
          \/ fresh[c] = Newest(fresh[c].fam)
ParkedDealtWith == \A c \in Calls : Dealt(c)

Facts == TokensKnown /\ RecordsSucceed /\ CarriesNewest /\ OnlyHere
Filing == SuccessorFiled /\ ParkedDealtWith

-----------------------------------------------------------------------------
(* Facts: what is known, carried and collected.                             *)

(* A revocation changes neither the sign-ins nor their newest tokens.       *)
LEMMA RevokeKeeps ==
  ASSUME NEW t, NEW ok, Revoke(t, ok)
  PROVE  revoked \subseteq revoked' /\ UNCHANGED <<grants, newest>>
BY DEF Revoke

(* current_session and its rotation keep the facts about tokens.            *)
LEMMA SessionStepFacts ==
  ASSUME Base, Kept, Facts, NEW c \in Calls, SessionStep(c) \/ Unwind(c)
  PROVE  Facts'
<1> USE SessionAssumption
    DEF Base, OneAtATime, Typed, TypeOK, Carries, SameFamily, HasAnswer, NewSession,
        Kept, NoOrphans, StoreAsRead, SignInsApart, StoresApart, Unstored,
        issuer, machine, process, Goto, Release, Finish, Locked, Reading, Unanswered,
        Answered, Rotations, SigningOut, SigningIn, Waiting, Token, Record,
        Facts, TokensKnown, Known, RecordsSucceed, Successor, CarriesNewest, Newest, OnlyHere,
        InHand, Begin
<1>1. ASSUME Recover(c) PROVE Facts'
  <2>1. TokensKnown'
    BY <1>1 DEF Recover, Supersedes
  <2>2. RecordsSucceed'
    BY <1>1 DEF Recover, Supersedes
  <2>3. CarriesNewest'
    BY <1>1 DEF Recover, Supersedes
  <2>4. OnlyHere'
    BY <1>1 DEF Recover, Supersedes
  <2> QED BY <2>1, <2>2, <2>3, <2>4
<1>2. ASSUME FileParked(c) PROVE Facts'
  <2>1. TokensKnown'
    <3>1. store' = store \/ store' = [store EXCEPT ![st[c]] = fresh[c]]
      BY <1>2, SaveWrites DEF FileParked
    <3>2. /\ UNCHANGED <<issuer, parked, toPark>>
          /\ held' = held \/ held' = [held EXCEPT ![c] = None]
          /\ fresh' = fresh \/ fresh' = [fresh EXCEPT ![c] = None]
      BY <1>2 DEF FileParked
    <3>3. \A t : Known(t) => Known(t)'
      BY <3>2
    <3>4. ASSUME NEW s \in Stores PROVE Known(store[s])'
      <4>1. store'[s] = store[s] \/ store'[s] = fresh[c]
        BY <3>1
      <4>2. Known(store[s]) /\ Known(fresh[c])
        OBVIOUS
      <4> QED BY <3>3, <4>1, <4>2
    <3>5. \A d \in Calls : Known(held[d])' /\ Known(fresh[d])'
      BY <3>2, <3>3
    <3> QED BY <3>2, <3>3, <3>4, <3>5
  <2>2. RecordsSucceed'
    BY <1>2 DEF FileParked, Saved, SaveFails, Refused, ToldFailed
  <2>3. CarriesNewest'
    BY <1>2 DEF FileParked, Saved, SaveFails, Refused, ToldFailed
  <2>4. OnlyHere'
    BY <1>2 DEF FileParked, Saved, SaveFails, Refused, ToldFailed
  <2> QED BY <2>1, <2>2, <2>3, <2>4
<1>3. ASSUME ClearParked(c) PROVE Facts'
  <2>1. TokensKnown'
    BY <1>3 DEF ClearParked, ParkedCleared, ParkedStays
  <2>2. RecordsSucceed'
    BY <1>3 DEF ClearParked, ParkedCleared, ParkedStays
  <2>3. CarriesNewest'
    BY <1>3 DEF ClearParked, ParkedCleared, ParkedStays
  <2>4. OnlyHere'
    BY <1>3 DEF ClearParked, ParkedCleared, ParkedStays
  <2> QED BY <2>1, <2>2, <2>3, <2>4
<1>4. ASSUME Load(c) PROVE Facts'
  <2>1. TokensKnown'
    <3>1. /\ UNCHANGED <<issuer, store, parked, toPark>>
          /\ held' = [held EXCEPT ![c] = store[st[c]]] \/ held' = [held EXCEPT ![c] = None]
          /\ fresh' = fresh \/ fresh' = [fresh EXCEPT ![c] = None]
      BY <1>4 DEF Load
    <3> QED BY <3>1, SMTT(30)
  <2>2. RecordsSucceed'
    BY <1>4 DEF Load
  <2>3. CarriesNewest'
    BY <1>4 DEF Load
  <2>4. OnlyHere'
    BY <1>4 DEF Load
  <2> QED BY <2>1, <2>2, <2>3, <2>4
<1>5. ASSUME IssuerAnswers(c) PROVE Facts'
  <2>1. TokensKnown'
    <3>1. /\ UNCHANGED <<grants, store, parked, toPark>>
          /\ held' = held \/ held' = [held EXCEPT ![c] = None]
      BY <1>5 DEF IssuerAnswers
    <3>2. CASE UNCHANGED newest /\ fresh' = [fresh EXCEPT ![c] = None]
      BY <3>1, <3>2
    <3>3. CASE /\ newest' = [newest EXCEPT ![held[c].fam] = @ + 1]
               /\ fresh' = [fresh EXCEPT ![c] =
                              [fam |-> held[c].fam, gen |-> newest[held[c].fam] + 1]]
      <4>1. held[c].fam \in Grant /\ held[c].fam <= grants /\ grants \in Nat
        BY <1>5 DEF IssuerAnswers
      <4>2. \A t : Known(t) => Known(t)'
        BY <3>1, <3>3, <4>1
      <4>3. Known(fresh[c])'
        BY <3>1, <3>3, <4>1
      <4>4. ASSUME NEW f \in Grant, f > grants PROVE newest'[f] = 0
        <5>1. f # held[c].fam /\ newest[f] = 0
          BY <4>1, <4>4 DEF Grant
        <5> QED BY <3>3, <5>1
      <4>5. \A d \in Calls : Known(held[d])' /\ Known(fresh[d])'
        BY <3>1, <3>3, <4>2, <4>3
      <4> QED BY <3>1, <4>2, <4>4, <4>5
    <3> QED BY <1>5, <3>2, <3>3 DEF IssuerAnswers
  <2>2. RecordsSucceed'
    BY <1>5 DEF IssuerAnswers, Spent
  <2>3. CarriesNewest'
    BY <1>5 DEF IssuerAnswers, Spent
  <2>4. OnlyHere'
    BY <1>5 DEF IssuerAnswers, Spent
  <2> QED BY <2>1, <2>2, <2>3, <2>4
<1>6. ASSUME RequestFails(c) PROVE Facts'
  <2>1. TokensKnown'
    BY <1>6 DEF RequestFails
  <2>2. RecordsSucceed'
    BY <1>6 DEF RequestFails
  <2>3. CarriesNewest'
    BY <1>6 DEF RequestFails
  <2>4. OnlyHere'
    BY <1>6 DEF RequestFails
  <2> QED BY <2>1, <2>2, <2>3, <2>4
<1>7. ASSUME ReplyArrives(c) PROVE Facts'
  <2>1. TokensKnown'
    BY <1>7 DEF ReplyArrives
  <2>2. RecordsSucceed'
    BY <1>7 DEF ReplyArrives
  <2>3. CarriesNewest'
    BY <1>7 DEF ReplyArrives
  <2>4. OnlyHere'
    BY <1>7 DEF ReplyArrives
  <2> QED BY <2>1, <2>2, <2>3, <2>4
<1>8. ASSUME SaveRotated(c) PROVE Facts'
  <2>1. /\ pc[c] = "save" /\ pc'[c] \in {"filed", "park"}
        /\ \A d \in Calls \ {c} : pc'[d] = pc[d]
        /\ UNCHANGED <<issuer, st, held, fresh, parked, toPark>>
    BY <1>8 DEF SaveRotated
  <2>2. store' = store \/ store' = [store EXCEPT ![st[c]] = fresh[c]]
    BY <1>8, SaveWrites DEF SaveRotated
  <2>3. TokensKnown'
    BY <2>1, <2>2
  <2>4. RecordsSucceed' /\ CarriesNewest' /\ OnlyHere'
    BY <2>1, <2>2
  <2> QED BY <2>3, <2>4
<1>9. ASSUME ParkRotated(c) PROVE Facts'
  <2>1. TokensKnown'
    BY <1>9 DEF ParkRotated, Park
  <2>2. RecordsSucceed'
    BY <1>9 DEF ParkRotated, Park
  <2>3. CarriesNewest'
    BY <1>9 DEF ParkRotated, Park
  <2>4. OnlyHere'
    BY <1>9 DEF ParkRotated, Park
  <2> QED BY <2>1, <2>2, <2>3, <2>4
<1>10. ASSUME Filed(c) PROVE Facts'
  <2>1. TokensKnown'
    BY <1>10 DEF Filed
  <2>2. RecordsSucceed'
    BY <1>10 DEF Filed
  <2>3. CarriesNewest'
    BY <1>10 DEF Filed
  <2>4. OnlyHere'
    BY <1>10 DEF Filed
  <2> QED BY <2>1, <2>2, <2>3, <2>4
<1>11. ASSUME DropParks(c) PROVE Facts'
  <2>1. TokensKnown'
    BY <1>11 DEF DropParks, Park
  <2>2. RecordsSucceed'
    BY <1>11 DEF DropParks, Park
  <2>3. CarriesNewest'
    BY <1>11 DEF DropParks, Park
  <2>4. OnlyHere'
    BY <1>11 DEF DropParks, Park
  <2> QED BY <2>1, <2>2, <2>3, <2>4
<1>12. ASSUME Unwind(c) PROVE Facts'
  <2>1. TokensKnown'
    BY <1>12 DEF Unwind
  <2>2. RecordsSucceed'
    BY <1>12 DEF Unwind
  <2>3. CarriesNewest'
    BY <1>12 DEF Unwind
  <2>4. OnlyHere'
    BY <1>12 DEF Unwind
  <2> QED BY <2>1, <2>2, <2>3, <2>4
<1> QED
  BY <1>1, <1>2, <1>3, <1>4, <1>5, <1>6, <1>7, <1>8, <1>9, <1>10, <1>11, <1>12
     DEF SessionStep

(* A sign-in that is approved is of the next family, no token of which has   *)
(* been rotated yet.                                                        *)
LEMMA ApproveTokens ==
  ASSUME SessionAssumption, TypeOK, TokensKnown,
         NEW c \in Calls, NEW s \in Stores, Approve(c, s)
  PROVE  TokensKnown'
<1>1. /\ grants \in Nat /\ grants' = grants + 1 /\ grants' \in Grant
      /\ UNCHANGED <<newest, store, parked, held, toPark>>
      /\ fresh' = [fresh EXCEPT ![c] = [fam |-> grants', gen |-> 0]]
  BY DEF SessionAssumption, TypeOK, Approve, Grant, machine, process
<1>2. ASSUME NEW t, Known(t) PROVE Known(t)'
  <2>1. CASE t \in Token
    <3>1. t.fam \in Nat /\ t.fam <= grants /\ t.gen <= newest[t.fam]
      BY <1>2, <2>1 DEF Known, Token, Grant
    <3> QED BY <1>1, <3>1 DEF Known
  <2>2. CASE t \notin Token
    BY <2>2 DEF Known
  <2> QED BY <2>1, <2>2
<1>3. grants' > grants /\ newest'[grants'] = 0
  BY <1>1 DEF TokensKnown
<1>4. ASSUME NEW d \in Calls PROVE Known(held[d])' /\ Known(fresh[d])'
  <2>1. Known(held[d])'
    BY <1>1, <1>2 DEF TokensKnown
  <2>2. CASE d = c
    <3>1. fresh'[d] = [fam |-> grants', gen |-> 0]
      BY <1>1, <2>2 DEF TypeOK
    <3> QED BY <1>1, <1>3, <2>1, <3>1 DEF Known
  <2>3. CASE d # c
    <3>1. fresh'[d] = fresh[d] /\ Known(fresh[d])
      BY <1>1, <2>3 DEF TypeOK, TokensKnown
    <3> QED BY <1>2, <2>1, <3>1
  <2> QED BY <2>2, <2>3
<1>5. \A r \in Stores : Known(store[r])'
  BY <1>1, <1>2 DEF TokensKnown
<1>6. (parked \in Record => Known(parked.cred) /\ Known(parked.replaces))'
  BY <1>1, <1>2 DEF TokensKnown
<1>7. (\A p \in Procs : \A r \in toPark[p] : Known(r.cred) /\ Known(r.replaces))'
  BY <1>1, <1>2 DEF TokensKnown
<1>8. (\A f \in Grant : f > grants => newest[f] = 0)'
  <2>1. ASSUME NEW f \in Grant, f > grants' PROVE newest'[f] = 0
    <3>1. f > grants
      BY <1>1, <2>1 DEF Grant
    <3> QED BY <1>1, <3>1 DEF TokensKnown
  <2> QED BY <2>1
<1> QED BY <1>4, <1>5, <1>6, <1>7, <1>8 DEF TokensKnown

(* So do starting a command, sign_out and store_new_session.                *)
LEMMA SignStepFacts ==
  ASSUME Base, Kept, Facts, NEW c \in Calls,
         \/ Start(c) \/ TakeLock(c) \/ GiveUpWaiting(c)
         \/ SignOutStep(c) \/ SignInStep(c)
  PROVE  Facts'
<1> USE SessionAssumption
    DEF Base, OneAtATime, Typed, TypeOK, Carries, SameFamily, HasAnswer, NewSession,
        Kept, NoOrphans, StoreAsRead, SignInsApart, StoresApart, Unstored,
        issuer, machine, process, Goto, Release, Finish, Locked, Reading, Unanswered,
        Answered, Rotations, SigningOut, SigningIn, Waiting, Token, Record,
        Facts, TokensKnown, Known, RecordsSucceed, Successor, CarriesNewest, Newest, OnlyHere,
        InHand, Begin
<1>1. ASSUME NEW s \in Stores, BeginSession(c, s) \/ BeginSignOut(c, s) PROVE Facts'
  <2>1. TokensKnown'
    BY <1>1 DEF BeginSession, BeginSignOut
  <2>2. RecordsSucceed'
    BY <1>1 DEF BeginSession, BeginSignOut
  <2>3. CarriesNewest'
    BY <1>1 DEF BeginSession, BeginSignOut
  <2>4. OnlyHere'
    BY <1>1 DEF BeginSession, BeginSignOut
  <2> QED BY <2>1, <2>2, <2>3, <2>4
<1>2. ASSUME NEW s \in Stores, Approve(c, s) PROVE Facts'
  <2>1. TokensKnown'
    BY <1>2, ApproveTokens
  <2>2. RecordsSucceed'
    BY <1>2 DEF Approve, Grant
  <2>3. CarriesNewest'
    BY <1>2 DEF Approve, Grant
  <2>4. OnlyHere'
    BY <1>2 DEF Approve, Grant
  <2> QED BY <2>1, <2>2, <2>3, <2>4
<1>3. ASSUME TakeLock(c) PROVE Facts'
  <2>1. TokensKnown'
    BY <1>3 DEF TakeLock, Behind
  <2>2. RecordsSucceed'
    BY <1>3 DEF TakeLock, Behind
  <2>3. CarriesNewest'
    BY <1>3 DEF TakeLock, Behind
  <2>4. OnlyHere'
    BY <1>3 DEF TakeLock, Behind
  <2> QED BY <2>1, <2>2, <2>3, <2>4
<1>4. ASSUME GiveUpWaiting(c) PROVE Facts'
  <2>1. TokensKnown'
    BY <1>4 DEF GiveUpWaiting
  <2>2. RecordsSucceed'
    BY <1>4 DEF GiveUpWaiting
  <2>3. CarriesNewest'
    BY <1>4 DEF GiveUpWaiting
  <2>4. OnlyHere'
    BY <1>4 DEF GiveUpWaiting
  <2> QED BY <2>1, <2>2, <2>3, <2>4
<1>5. ASSUME SignOutLoad(c) PROVE Facts'
  <2>1. UNCHANGED <<grants, newest>>
    BY <1>5, RevokeKeeps DEF SignOutLoad
  <2>2. UNCHANGED <<store, parked, toPark, st>> /\ pc[c] = "outLoad"
    BY <1>5 DEF SignOutLoad
  <2>3. /\ pc' = [pc EXCEPT ![c] = "outParked"] \/ pc' = [pc EXCEPT ![c] = "idle"]
        /\ fresh' = fresh \/ fresh' = [fresh EXCEPT ![c] = None]
        /\ \/ held' = held \/ held' = [held EXCEPT ![c] = None]
           \/ held' = [held EXCEPT ![c] = store[st[c]]]
    BY <1>5 DEF SignOutLoad
  <2>4. TokensKnown'
    <3>1. \A t : Known(t) => Known(t)'
      BY <2>1
    <3>2. ASSUME NEW d \in Calls PROVE Known(held[d])' /\ Known(fresh[d])'
      <4>1. /\ held'[d] \in {held[d], None, store[st[c]]}
            /\ fresh'[d] \in {fresh[d], None}
        BY <2>3
      <4>2. Known(held[d]) /\ Known(fresh[d]) /\ Known(None) /\ Known(store[st[c]])
        OBVIOUS
      <4> QED BY <3>1, <4>1, <4>2
    <3> QED BY <2>1, <2>2, <3>1, <3>2
  <2>5. RecordsSucceed'
    BY <2>1, <2>2, <2>3
  <2>6. CarriesNewest'
    BY <2>1, <2>2, <2>3
  <2>7. OnlyHere'
    BY <2>1, <2>2, <2>3
  <2> QED BY <2>4, <2>5, <2>6, <2>7
<1>6. ASSUME SignOutParked(c) PROVE Facts'
  <2>1. UNCHANGED <<grants, newest>>
    BY <1>6, RevokeKeeps DEF SignOutParked
  <2>2. /\ UNCHANGED <<store, parked, toPark, st, held, fresh>> /\ pc[c] = "outParked"
        /\ pc' = [pc EXCEPT ![c] = "outClear"]
    BY <1>6 DEF SignOutParked
  <2>3. TokensKnown'
    BY <2>1, <2>2
  <2>4. RecordsSucceed'
    BY <2>1, <2>2
  <2>5. CarriesNewest'
    BY <2>1, <2>2
  <2>6. OnlyHere'
    BY <2>1, <2>2
  <2> QED BY <2>3, <2>4, <2>5, <2>6
<1>7. ASSUME SignOutClear(c) PROVE Facts'
  <2>1. TokensKnown'
    BY <1>7 DEF SignOutClear, ParkedStays, ParkedRemoved, ParkedCleared
  <2>2. RecordsSucceed'
    BY <1>7 DEF SignOutClear, ParkedStays, ParkedRemoved, ParkedCleared
  <2>3. CarriesNewest'
    BY <1>7 DEF SignOutClear, ParkedStays, ParkedRemoved, ParkedCleared
  <2>4. OnlyHere'
    BY <1>7 DEF SignOutClear, ParkedStays, ParkedRemoved, ParkedCleared
  <2> QED BY <2>1, <2>2, <2>3, <2>4
<1>8. ASSUME SignOutDelete(c) PROVE Facts'
  <2>1. TokensKnown'
    <3>1. /\ UNCHANGED <<grants, newest, parked, toPark>>
          /\ store' = store \/ store' = [store EXCEPT ![st[c]] = None]
          /\ held' = [held EXCEPT ![c] = None] /\ fresh' = [fresh EXCEPT ![c] = None]
      BY <1>8 DEF SignOutDelete
    <3>2. \A t : Known(t) => Known(t)'
      BY <3>1
    <3>3. ASSUME NEW s \in Stores PROVE Known(store[s])'
      <4>1. store'[s] \in {store[s], None} /\ Known(store[s]) /\ Known(None)
        BY <3>1
      <4> QED BY <3>2, <4>1
    <3>4. ASSUME NEW d \in Calls PROVE Known(held[d])' /\ Known(fresh[d])'
      <4>1. held'[d] \in {held[d], None} /\ fresh'[d] \in {fresh[d], None}
        BY <3>1
      <4>2. Known(held[d]) /\ Known(fresh[d]) /\ Known(None)
        OBVIOUS
      <4> QED BY <3>2, <4>1, <4>2
    <3> QED BY <3>1, <3>2, <3>3, <3>4
  <2>2. RecordsSucceed'
    BY <1>8 DEF SignOutDelete
  <2>3. CarriesNewest'
    BY <1>8 DEF SignOutDelete
  <2>4. OnlyHere'
    BY <1>8 DEF SignOutDelete
  <2> QED BY <2>1, <2>2, <2>3, <2>4
<1>9. ASSUME SignInLoad(c) PROVE Facts'
  <2>1. TokensKnown'
    BY <1>9 DEF SignInLoad
  <2>2. RecordsSucceed'
    BY <1>9 DEF SignInLoad
  <2>3. CarriesNewest'
    BY <1>9 DEF SignInLoad
  <2>4. OnlyHere'
    BY <1>9 DEF SignInLoad
  <2> QED BY <2>1, <2>2, <2>3, <2>4
<1>10. ASSUME SignInSave(c) PROVE Facts'
  <2>1. TokensKnown'
    <3>1. store' = store \/ store' = [store EXCEPT ![st[c]] = fresh[c]]
      BY <1>10, SaveWrites DEF SignInSave
    <3>2. UNCHANGED <<issuer, parked, toPark, held, fresh>>
      BY <1>10 DEF SignInSave
    <3> QED BY <3>1, <3>2
  <2>2. RecordsSucceed'
    BY <1>10 DEF SignInSave, Saved, SaveFails, Refused, ToldFailed
  <2>3. CarriesNewest'
    BY <1>10 DEF SignInSave, Saved, SaveFails, Refused, ToldFailed
  <2>4. OnlyHere'
    BY <1>10 DEF SignInSave, Saved, SaveFails, Refused, ToldFailed
  <2> QED BY <2>1, <2>2, <2>3, <2>4
<1>11. ASSUME SignInParked(c) PROVE Facts'
  <2>1. TokensKnown'
    BY <1>11 DEF SignInParked, Revoke
  <2>2. RecordsSucceed'
    BY <1>11 DEF SignInParked, Revoke
  <2>3. CarriesNewest'
    BY <1>11 DEF SignInParked, Revoke
  <2>4. OnlyHere'
    BY <1>11 DEF SignInParked, Revoke
  <2> QED BY <2>1, <2>2, <2>3, <2>4
<1>12. ASSUME SignInClear(c) PROVE Facts'
  <2>1. TokensKnown'
    BY <1>12 DEF SignInClear, ParkedStays, ParkedRemoved, ParkedCleared
  <2>2. RecordsSucceed'
    BY <1>12 DEF SignInClear, ParkedStays, ParkedRemoved, ParkedCleared
  <2>3. CarriesNewest'
    BY <1>12 DEF SignInClear, ParkedStays, ParkedRemoved, ParkedCleared
  <2>4. OnlyHere'
    BY <1>12 DEF SignInClear, ParkedStays, ParkedRemoved, ParkedCleared
  <2> QED BY <2>1, <2>2, <2>3, <2>4
<1>13. ASSUME SignInRevoke(c) PROVE Facts'
  <2>1. TokensKnown'
    BY <1>13 DEF SignInRevoke, Revoke
  <2>2. RecordsSucceed'
    BY <1>13 DEF SignInRevoke, Revoke
  <2>3. CarriesNewest'
    BY <1>13 DEF SignInRevoke, Revoke
  <2>4. OnlyHere'
    BY <1>13 DEF SignInRevoke, Revoke
  <2> QED BY <2>1, <2>2, <2>3, <2>4
<1>14. ASSUME SignInUndo(c) PROVE Facts'
  <2>1. TokensKnown'
    BY <1>14 DEF SignInUndo, Revoke
  <2>2. RecordsSucceed'
    BY <1>14 DEF SignInUndo, Revoke
  <2>3. CarriesNewest'
    BY <1>14 DEF SignInUndo, Revoke
  <2>4. OnlyHere'
    BY <1>14 DEF SignInUndo, Revoke
  <2> QED BY <2>1, <2>2, <2>3, <2>4
<1> QED
  BY <1>1, <1>2, <1>3, <1>4, <1>5, <1>6, <1>7, <1>8, <1>9, <1>10, <1>11, <1>12, <1>13, <1>14
     DEF Start, SignOutStep, SignInStep

(* So does every step.                                                      *)
LEMMA StepFacts ==
  ASSUME Base, Kept, Facts, [Next]_vars
  PROVE  Facts'
<1> USE SessionAssumption
    DEF Base, OneAtATime, Typed, TypeOK, Carries, SameFamily, HasAnswer, NewSession,
        Kept, NoOrphans, StoreAsRead, SignInsApart, StoresApart, Unstored,
        issuer, machine, process, Goto, Release, Finish, Locked, Reading, Unanswered,
        Answered, Rotations, SigningOut, SigningIn, Waiting, Token, Record,
        Facts, TokensKnown, Known, RecordsSucceed, Successor, CarriesNewest, Newest, OnlyHere,
        InHand, Begin
<1>1. ASSUME NEW c \in Calls, CallStep(c) PROVE Facts'
  BY <1>1, SessionStepFacts, SignStepFacts DEF CallStep
<1>2. ASSUME NEW p \in Procs, Done(p) \/ Leave(p) \/ Collect(p) \/ Panic(p) PROVE Facts'
  <2>1. TokensKnown'
    BY <1>2 DEF Done, Leave, Collect, Panic, Collected, CallsOf
  <2>2. RecordsSucceed'
    BY <1>2 DEF Done, Leave, Collect, Panic, Collected, CallsOf
  <2>3. CarriesNewest'
    BY <1>2 DEF Done, Leave, Collect, Panic, Collected, CallsOf
  <2>4. OnlyHere'
    BY <1>2 DEF Done, Leave, Collect, Panic, Collected, CallsOf
  <2> QED BY <2>1, <2>2, <2>3, <2>4
<1>3. ASSUME NEW p \in Procs, ParkCollected(p) PROVE Facts'
  <2>1. TokensKnown'
    BY <1>3 DEF ParkCollected, Park
  <2>2. RecordsSucceed'
    BY <1>3 DEF ParkCollected, Park
  <2>3. CarriesNewest'
    BY <1>3 DEF ParkCollected, Park
  <2>4. OnlyHere'
    BY <1>3 DEF ParkCollected, Park
  <2> QED BY <2>1, <2>2, <2>3, <2>4
<1>4. ASSUME NEW p \in Procs, Ends(p) PROVE Facts'
  <2>1. TokensKnown'
    BY <1>4 DEF Ends, CallsOf
  <2>2. RecordsSucceed'
    BY <1>4 DEF Ends, CallsOf
  <2>3. CarriesNewest'
    BY <1>4 DEF Ends, CallsOf
  <2>4. OnlyHere'
    BY <1>4 DEF Ends, CallsOf
  <2> QED BY <2>1, <2>2, <2>3, <2>4
<1>5. ASSUME ParkedSpoils \/ UNCHANGED vars PROVE Facts'
  <2>1. TokensKnown'
    BY <1>5 DEF ParkedSpoils, vars
  <2>2. RecordsSucceed'
    BY <1>5 DEF ParkedSpoils, vars
  <2>3. CarriesNewest'
    BY <1>5 DEF ParkedSpoils, vars
  <2>4. OnlyHere'
    BY <1>5 DEF ParkedSpoils, vars
  <2> QED BY <2>1, <2>2, <2>3, <2>4
<1>6. ~OrphanLands
  BY DEF OrphanLands
<1> QED
  BY <1>1, <1>2, <1>3, <1>4, <1>5, <1>6
     DEF Next, ProcStep, EndSettled, EndParked, Kill

(* The facts hold to begin with.                                            *)
LEMMA InitFacts == Init => Facts
<1> SUFFICES ASSUME Init PROVE Facts
  OBVIOUS
<1>1. TokensKnown
  <2>1. \A t \in Token : t.gen = 0 /\ t.fam <= grants => Known(t)
    BY SessionAssumption DEF Init, Known, Token, Grant
  <2>2. \A s \in Stores : Known(store[s])
    <3>1. CASE store \in [Stores -> {None, Unreadable}]
      BY <3>1, SessionAssumption DEF Known
    <3>2. CASE /\ grants = 1
               /\ \E s \in Stores :
                    store = [x \in Stores |-> IF x = s THEN [fam |-> 1, gen |-> 0] ELSE None]
      BY <2>1, <3>2, SessionAssumption DEF Known
    <3> QED BY <3>1, <3>2 DEF Init
  <2>3. Known(None)
    BY SessionAssumption DEF Known
  <2> QED BY <2>2, <2>3, SessionAssumption DEF Init, TokensKnown
<1>2. RecordsSucceed /\ OnlyHere
  BY SessionAssumption DEF Init, RecordsSucceed, OnlyHere, InHand
<1>3. CarriesNewest
  BY DEF Init, CarriesNewest, HasAnswer, NewSession, SigningIn, Answered, Unstored
<1> QED BY <1>1, <1>2, <1>3 DEF Facts

-----------------------------------------------------------------------------
(* Steps that leave the filing as it is.                                    *)

(* The issuer hands out nothing, no token appears that was not on the        *)
(* machine, and what is given up stays given up.                            *)
NoNewToken ==
  /\ newest' = newest
  /\ revoked \subseteq revoked' /\ forfeit \subseteq forfeit'
  /\ \A t \in Copies' : t \in Token => t \in Copies

(* What is not copied anywhere has no copy afterwards.                      *)
LEMMA CopiesOnlyGo ==
  ASSUME TypeOK, NoNewToken, NEW f \in Grant
  PROVE  HasCopy(f)' => HasCopy(f)
BY DEF TypeOK, NoNewToken, HasCopy, Newest, Token

(* While a call is at work under the lock, no other has anything in hand.   *)
LEMMA OneInHand ==
  ASSUME OneAtATime, NEW c \in Calls, pc[c] \in Locked \ InHand, NEW s \in Stores
  PROVE  ~BeingFiled(s)
BY DEF OneAtATime, BeingFiled, InHand, Locked, Rotations, Unanswered, Answered

(* A step that loses no copy keeps the successor of what a store holds in reach.*)
LEMMA SuccessorKept ==
  ASSUME TypeOK, SuccessorFiled, NoNewToken,
         \A s \in Stores : Behindhand(s)' => store'[s] = store[s],
         \A s \in Stores : Behindhand(s)' /\ HasCopy(store[s].fam) /\ Superseded(s)
                             => Superseded(s)',
         \A s \in Stores : Behindhand(s)' /\ HasCopy(store[s].fam)' /\ BeingFiled(s)
                             => BeingFiled(s)' \/ Superseded(s)'
  PROVE  SuccessorFiled'
<1> SUFFICES ASSUME NEW s \in Stores, Behindhand(s)', HasCopy(store[s].fam)'
             PROVE  BeingFiled(s)' \/ Superseded(s)'
  BY DEF SuccessorFiled
<1>1. store'[s] = store[s] /\ store[s] \in Token /\ store[s].fam \in Grant
  BY DEF Behindhand, Token
<1>2. Behindhand(s)
  BY <1>1 DEF Behindhand, NoNewToken, Spent
<1>3. HasCopy(store[s].fam)
  BY <1>1, CopiesOnlyGo DEF HasCopy, Newest
<1> QED BY <1>2, <1>3 DEF SuccessorFiled

(* A call that stays where it is, moves on, or is not past the parked file. *)
StaysDealt(d) ==
  \/ pc'[d] \notin {"load", "ask", "clear", "file"}
  \/ /\ pc[d] \in {"load", "ask", "clear"} /\ pc'[d] \in {"load", "ask"}
     /\ st'[d] = st[d]
  \/ /\ pc[d] = pc'[d]
     /\ st'[d] = st[d] /\ fresh'[d] = fresh[d]

(* A parked record stays dealt with while file, store and readers are left alone.*)
LEMMA DealtKept ==
  ASSUME Base, ParkedDealtWith, NoNewToken,
         \A s \in Stores : Behindhand(s)' => store'[s] = store[s],
         \A s \in Stores : Behindhand(s)' /\ Superseded(s)' => Superseded(s) \/ BeingFiled(s),
         NEW d \in Calls, StaysDealt(d)
  PROVE  Dealt(d)'
<1> USE DEF Base, Typed
<1>1. \A s \in Stores : Behindhand(s)' => Behindhand(s)
  BY DEF Behindhand, NoNewToken, Spent
<1>2. CASE pc'[d] \in {"load", "ask", "clear"}
  <2>1. pc[d] \in {"load", "ask", "clear"} /\ st'[d] = st[d] /\ st[d] \in Stores
    BY <1>2 DEF StaysDealt, TypeOK
  <2>2. \A s \in Stores : ~BeingFiled(s)
    BY <2>1, OneInHand DEF InHand, Locked, Reading, Rotations, Unanswered
  <2>3. pc[d] = "clear" \/ pc'[d] # "clear"
    BY <1>2 DEF StaysDealt
  <2>4. Dealt(d)
    BY DEF ParkedDealtWith
  <2> QED BY <1>1, <1>2, <2>1, <2>2, <2>3, <2>4 DEF Dealt
<1>3. CASE pc'[d] = "file"
  <2>1. pc[d] = "file" /\ st'[d] = st[d] /\ fresh'[d] = fresh[d]
    BY <1>3 DEF StaysDealt
  <2>2. \A s \in Stores : ~BeingFiled(s)
    BY <2>1, OneInHand DEF InHand, Locked, Reading
  <2>3. fresh[d] \in Token /\ fresh[d].fam \in Grant
    BY <2>1 DEF Carries, Token
  <2>4. HasCopy(fresh[d].fam)' => HasCopy(fresh[d].fam)
    BY <2>1, <2>3, CopiesOnlyGo DEF HasCopy, Newest
  <2>5. Dealt(d)
    BY DEF ParkedDealtWith
  <2> QED BY <1>1, <1>3, <2>1, <2>2, <2>4, <2>5 DEF Dealt, NoNewToken, Newest
<1> QED BY <1>2, <1>3 DEF Dealt, StaysDealt

(* A step that writes neither a store nor the parked file and takes nothing  *)
(* out of a call's hand.                                                    *)
LEMMA FilingLeftAlone ==
  ASSUME Base, Filing, NoNewToken, store' = store, parked' = parked,
         \A d \in Calls : pc[d] \in InHand => pc'[d] \in InHand /\ st'[d] = st[d],
         \A d \in Calls : StaysDealt(d)
  PROVE  Filing'
<1>1. \A s \in Stores : BeingFiled(s) => BeingFiled(s)'
  BY DEF BeingFiled
<1>2. \A s \in Stores : Superseded(s)' <=> Superseded(s)
  BY DEF Superseded, NoNewToken, Newest
<1>3. SuccessorFiled'
  BY <1>1, <1>2, SuccessorKept DEF Filing, Base, Typed
<1>4. ParkedDealtWith'
  BY <1>2, DealtKept DEF Filing, ParkedDealtWith
<1> QED BY <1>3, <1>4 DEF Filing

(* A token is its family and its generation.                                *)
LEMMA SameToken ==
  ASSUME NEW a \in Token, NEW b \in Token, a.fam = b.fam, a.gen = b.gen
  PROVE  a = b
BY DEF Token

(* Parking a record that was on the machine: what superseded the session of  *)
(* a store still does or is given up, and what does now did before or is     *)
(* being filed.                                                             *)
LEMMA ParkKeeps ==
  ASSUME Base, Facts, Filing, NEW r \in Record, Park(r),
         Successor(r.cred, r.replaces), Known(r.cred), r.cred \in Copies,
         UNCHANGED <<issuer, store>>
  PROVE  /\ forfeit \subseteq forfeit'
         /\ \A s \in Stores : Behindhand(s)' => store'[s] = store[s]
         /\ \A s \in Stores : Behindhand(s)' /\ Superseded(s) => Superseded(s)'
         /\ \A s \in Stores : Behindhand(s)' /\ Superseded(s)' => Superseded(s) \/ BeingFiled(s)
<1> USE DEF Base, Typed, issuer
<1>1. forfeit \subseteq forfeit'
  BY DEF Park
<1>2. ASSUME NEW s \in Stores, Behindhand(s)', Superseded(s) PROVE Superseded(s)'
  <2>1. parked \in Record /\ parked.replaces = store[s] /\ parked.cred = Newest(store[s].fam)
    BY <1>2 DEF Superseded
  <2>2. CASE parked' = parked
    BY <2>1, <2>2 DEF Superseded, Newest
  <2>3. CASE parked' = r
    <3>1. parked.cred.fam = store[s].fam
      BY <2>1 DEF Newest
    <3>2. parked.cred.fam \notin forfeit'
      BY <1>2, <3>1 DEF Behindhand
    <3>3. r.cred.fam = parked.cred.fam /\ r.cred.gen >= parked.cred.gen
      <4>1. CASE Succeeds(r, parked)
        BY <4>1 DEF Succeeds
      <4>2. CASE ~Succeeds(r, parked)
        BY <2>1, <2>3, <3>2, <4>2 DEF Park
      <4> QED BY <4>1, <4>2
    <3>4. r.cred.gen <= newest[r.cred.fam] /\ parked.cred.gen = newest[parked.cred.fam]
      BY <2>1, <3>1 DEF Known, Successor, Newest
    <3>5. Successor(parked.cred, parked.replaces)
      BY <2>1 DEF Facts, RecordsSucceed
    <3>6. /\ r.cred \in Token /\ r.replaces \in Token
          /\ parked.cred \in Token /\ parked.replaces \in Token
      BY <3>5 DEF Successor
    <3>7. r.cred.gen = parked.cred.gen
      <4>1. r.cred.gen \in Nat /\ parked.cred.gen \in Nat
        BY <3>6 DEF Token
      <4> QED BY <3>3, <3>4, <4>1
    <3>8. r.replaces.fam = parked.replaces.fam /\ r.replaces.gen = parked.replaces.gen
      <4>1. r.replaces.gen \in Nat /\ parked.replaces.gen \in Nat
        BY <3>6 DEF Token
      <4> QED BY <3>3, <3>5, <3>7, <4>1 DEF Successor
    <3>9. r.cred = parked.cred /\ r.replaces = parked.replaces
      BY <3>3, <3>6, <3>7, <3>8, SameToken
    <3> QED BY <2>1, <2>3, <3>9 DEF Superseded, Newest
  <2> QED BY <2>2, <2>3 DEF Park
<1>3. ASSUME NEW s \in Stores, Behindhand(s)', Superseded(s)'
      PROVE  Superseded(s) \/ BeingFiled(s)
  <2>1. Behindhand(s)
    BY <1>1, <1>3 DEF Behindhand, Spent
  <2>2. CASE parked' = parked
    BY <1>3, <2>2 DEF Superseded, Newest
  <2>3. CASE parked' = r
    <3>1. Newest(store[s].fam) \in Copies
      BY <1>3, <2>3 DEF Superseded, Newest
    <3>2. HasCopy(store[s].fam)
      BY <3>1 DEF HasCopy
    <3> QED BY <2>1, <3>2 DEF Filing, SuccessorFiled
  <2> QED BY <2>2, <2>3 DEF Park
<1> QED BY <1>1, <1>2, <1>3

-----------------------------------------------------------------------------
(* Every step keeps the filing.                                             *)

(* Starting a command and waiting for the lock keep the successor in reach. *)
LEMMA StartFiling ==
  ASSUME Base, Kept, Facts, Filing, NEW c \in Calls,
         Start(c) \/ TakeLock(c) \/ GiveUpWaiting(c)
  PROVE  Filing'
<1> USE SessionAssumption
    DEF Base, Typed, TypeOK, issuer, machine, process, Goto, Finish, Begin, InHand, StaysDealt
<1>1. ASSUME NEW s \in Stores, BeginSession(c, s) \/ BeginSignOut(c, s) PROVE Filing'
  BY <1>1, FilingLeftAlone DEF BeginSession, BeginSignOut, NoNewToken, Copies
<1>2. ASSUME TakeLock(c) \/ GiveUpWaiting(c) PROVE Filing'
  <2>1. NoNewToken
    BY <1>2 DEF TakeLock, GiveUpWaiting, NoNewToken, Copies
  <2>2. /\ \A d \in Calls : pc[d] \in InHand => pc'[d] \in InHand /\ st'[d] = st[d]
        /\ \A d \in Calls : StaysDealt(d)
        /\ store' = store /\ parked' = parked
    BY <1>2 DEF TakeLock, GiveUpWaiting, Waiting, Behind
  <2> QED BY <2>1, <2>2, FilingLeftAlone
<1>3. ASSUME NEW s \in Stores, Approve(c, s) PROVE Filing'
  <2> DEFINE t == [fam |-> grants + 1, gen |-> 0]
  <2>1. /\ UNCHANGED <<newest, revoked, forfeit, store, parked, toPark>>
        /\ fresh' = [fresh EXCEPT ![c] = t] /\ pc' = [pc EXCEPT ![c] = "inWait"]
        /\ pc[c] = "idle" /\ \A d \in Calls \ {c} : st'[d] = st[d]
    BY <1>3 DEF Approve
  <2>2. ASSUME NEW f \in Grant, f <= grants, HasCopy(f)' PROVE HasCopy(f)
    <3>1. t # Newest(f)
      BY <2>2 DEF Newest
    <3> QED BY <2>1, <2>2, <3>1 DEF HasCopy, Newest, Copies
  <2>3. \A s2 \in Stores : store[s2] \in Token => store[s2].fam \in Grant /\ store[s2].fam <= grants
    BY DEF Facts, TokensKnown, Known, Token
  <2>4. \A s2 \in Stores : /\ Behindhand(s2)' <=> Behindhand(s2)
                           /\ Superseded(s2)' <=> Superseded(s2)
                           /\ BeingFiled(s2) => BeingFiled(s2)'
    BY <2>1 DEF Behindhand, Superseded, BeingFiled, Newest, Spent
  <2>5. SuccessorFiled'
    <3> SUFFICES ASSUME NEW s2 \in Stores, Behindhand(s2)', HasCopy(store[s2].fam)'
                 PROVE  BeingFiled(s2)' \/ Superseded(s2)'
      BY DEF SuccessorFiled
    <3>1. HasCopy(store[s2].fam)
      BY <2>1, <2>2, <2>3, <2>4 DEF Behindhand, HasCopy, Newest
    <3> QED BY <2>4, <3>1 DEF Filing, SuccessorFiled
  <2>6. ParkedDealtWith'
    <3> SUFFICES ASSUME NEW d \in Calls, pc'[d] \in {"load", "ask", "clear", "file"}
                 PROVE  Dealt(d)'
      BY DEF ParkedDealtWith, Dealt
    <3>1. d # c /\ pc'[d] = pc[d] /\ st'[d] = st[d] /\ fresh'[d] = fresh[d]
      BY <2>1
    <3>2. Dealt(d) /\ st[d] \in Stores
      BY DEF Filing, ParkedDealtWith
    <3>3. pc[d] = "file" => fresh[d].fam \in Grant /\ fresh[d].fam <= grants
      BY DEF Carries, Facts, TokensKnown, Known, Token
    <3>4. pc[d] = "file" /\ HasCopy(fresh[d].fam)' => HasCopy(fresh[d].fam)
      BY <2>1, <2>2, <3>1, <3>3 DEF HasCopy, Newest
    <3> QED BY <2>1, <2>4, <3>1, <3>2, <3>4 DEF Dealt, Newest
  <2> QED BY <2>5, <2>6 DEF Filing
<1> QED BY <1>1, <1>2, <1>3 DEF Start

(* So does read_locked: it files, clears or leaves the parked session.      *)
LEMMA ReadingFiling ==
  ASSUME Base, Kept, Facts, Filing, NEW c \in Calls,
         Recover(c) \/ FileParked(c) \/ ClearParked(c) \/ Load(c)
  PROVE  Filing'
<1> USE SessionAssumption
    DEF Base, Typed, TypeOK, issuer, machine, process, Goto, Finish
<1>1. ASSUME Recover(c) PROVE Filing'
  <2>1. NoNewToken /\ UNCHANGED <<store, parked, revoked, forfeit, newest, st>>
    BY <1>1 DEF Recover, NoNewToken, Copies
  <2>2. pc[c] = "recover" /\ \A d \in Calls \ {c} : pc'[d] = pc[d] /\ fresh'[d] = fresh[d]
    BY <1>1 DEF Recover
  <2>3. \A s \in Stores : /\ Behindhand(s)' <=> Behindhand(s)
                          /\ Superseded(s)' <=> Superseded(s)
    BY <2>1 DEF Behindhand, Superseded, Spent, Newest
  <2>4. SuccessorFiled'
    BY <2>1, <2>2, <2>3, SuccessorKept DEF Filing, BeingFiled, InHand
  <2>5. \A d \in Calls \ {c} : Dealt(d)'
    BY <2>1, <2>2, <2>3, DealtKept DEF Filing, StaysDealt
  <2>6. CASE pc'[c] \in {"idle", "load"}
    <3>1. pc'[c] = "load" => ~Superseded(st[c])
      BY <1>1, <2>6 DEF Recover, Supersedes, Superseded, Record
    <3> QED BY <2>1, <2>3, <2>5, <2>4, <2>6, <3>1 DEF Filing, ParkedDealtWith, Dealt
  <2>7. CASE pc'[c] = "clear"
    <3>1. parked \in Record /\ store[st[c]] = parked.cred /\ store[st[c]] \in Token
      BY <1>1, <2>7 DEF Recover, IsHeldIn
    <3>2. ASSUME NEW s \in Stores, Behindhand(s), Superseded(s) PROVE FALSE
      <4>1. store[st[c]] = Newest(store[s].fam) /\ store[st[c]].fam = store[s].fam
        BY <3>1, <3>2 DEF Superseded, Newest
      <4>2. s = st[c]
        BY <3>1, <3>2, <4>1 DEF Behindhand, Kept, StoresApart
      <4> QED BY <3>2, <4>1, <4>2 DEF Behindhand, Spent, Newest, Token
    <3> QED BY <2>3, <2>4, <2>5, <2>7, <3>2 DEF Filing, ParkedDealtWith, Dealt
  <2>8. CASE pc'[c] = "file"
    <3>1. /\ parked \in Record /\ store[st[c]] = parked.replaces /\ fresh'[c] = parked.cred
          /\ st[c] \in Stores
      BY <1>1, <2>8 DEF Recover, Supersedes
    <3>2. Successor(parked.cred, parked.replaces) /\ Known(parked.cred)
      BY <3>1 DEF Facts, RecordsSucceed, TokensKnown
    <3>3. \A s \in Stores \ {st[c]} : ~(Behindhand(s) /\ Superseded(s))
      BY <3>1, <3>2 DEF Behindhand, Superseded, Successor, Kept, StoresApart
    <3>4. ASSUME parked.cred.fam \notin revoked \cup forfeit, HasCopy(parked.cred.fam)
          PROVE  parked.cred = Newest(parked.cred.fam)
      <4>1. store[st[c]].fam = parked.cred.fam
        BY <3>1, <3>2 DEF Successor
      <4>2. Behindhand(st[c])
        BY <3>1, <3>2, <3>4, <4>1 DEF Behindhand, Spent, Successor, Known, Token
      <4>3. ~BeingFiled(st[c])
        BY <2>2, <3>1, OneInHand DEF InHand, Locked, Reading
      <4> QED BY <3>4, <4>1, <4>2, <4>3, <3>1 DEF Filing, SuccessorFiled, Superseded
    <3>5. HasCopy(parked.cred.fam)' => HasCopy(parked.cred.fam)
      BY <2>1, <3>1, <3>2, CopiesOnlyGo DEF HasCopy, Newest, Successor, Token
    <3> QED BY <2>1, <2>3, <2>4, <2>5, <2>8, <3>1, <3>3, <3>4, <3>5
            DEF Filing, ParkedDealtWith, Dealt, Newest
  <2> QED BY <1>1, <2>6, <2>7, <2>8 DEF Recover
<1>2. ASSUME Load(c) PROVE Filing'
  <2>1. NoNewToken /\ store' = store /\ parked' = parked
    BY <1>2 DEF Load, NoNewToken, Copies
  <2>2. \A d \in Calls : pc[d] \in InHand => pc'[d] \in InHand /\ st'[d] = st[d]
    BY <1>2 DEF Load, InHand
  <2>3. \A d \in Calls : StaysDealt(d)
    BY <1>2 DEF Load, StaysDealt
  <2> QED BY <2>1, <2>2, <2>3, FilingLeftAlone
<1>3. ASSUME ClearParked(c) PROVE Filing'
  <2>1. NoNewToken /\ store' = store /\ parked' \in {None, parked}
    BY <1>3 DEF ClearParked, NoNewToken, Copies, ParkedCleared, ParkedStays
  <2>2. /\ pc[c] = "clear" /\ \A d \in Calls : StaysDealt(d)
        /\ \A d \in Calls : pc[d] \in InHand => pc'[d] \in InHand /\ st'[d] = st[d]
    BY <1>3 DEF ClearParked, StaysDealt, InHand
  <2>3. \A s \in Stores : ~(Behindhand(s) /\ Superseded(s))
    BY <2>2 DEF Filing, ParkedDealtWith, Dealt
  <2>4. \A s \in Stores : Behindhand(s)' => Behindhand(s)
    BY <2>1 DEF Behindhand, NoNewToken, Spent
  <2>5. \A s \in Stores : Superseded(s)' => Superseded(s)
    BY <2>1 DEF Superseded, NoNewToken, Newest
  <2>6. SuccessorFiled'
    BY <2>1, <2>2, <2>3, <2>4, SuccessorKept DEF Filing, BeingFiled
  <2> QED BY <2>1, <2>2, <2>5, <2>6, DealtKept DEF Filing, ParkedDealtWith
<1>4. ASSUME FileParked(c) PROVE Filing'
  <2> DEFINE s0 == st[c]
  <2>1. /\ UNCHANGED <<issuer, parked, forfeit, st, toPark>> /\ pc[c] = "file"
        /\ \A d \in Calls \ {c} : pc'[d] = pc[d] /\ fresh'[d] = fresh[d]
        /\ fresh'[c] \in {fresh[c], None} /\ pc'[c] \in {"clear", "idle"}
        /\ pc'[c] = "clear" => store' = [store EXCEPT ![s0] = fresh[c]]
    BY <1>4 DEF FileParked, Saved
  <2>2. store' = store \/ store' = [store EXCEPT ![s0] = fresh[c]]
    BY <1>4, SaveWrites DEF FileParked
  <2>3. NoNewToken
    BY <2>1, <2>2 DEF NoNewToken, Copies, Token
  <2>4. /\ fresh[c] \in Token /\ store[s0] \in Token /\ store[s0].fam = fresh[c].fam
        /\ s0 \in Stores /\ fresh[c].fam \in Grant
    BY <2>1 DEF Kept, StoreAsRead, SameFamily, Token
  <2>5. Dealt(c)
    BY DEF Filing, ParkedDealtWith
  <2>6. \A s \in Stores \ {s0} : ~(Behindhand(s) /\ Superseded(s))
    BY <2>1, <2>5 DEF Dealt
  <2> PICK f \in Grant : f = fresh[c].fam
    BY <2>4
  <2>7. f \in revoked \cup forfeit \/ ~HasCopy(f) \/ fresh[c] = Newest(f)
    BY <2>1, <2>5 DEF Dealt
  <2>8. \A s \in Stores \ {s0} : /\ Behindhand(s)' <=> Behindhand(s)
                                 /\ Superseded(s)' <=> Superseded(s)
    BY <2>1, <2>2 DEF Behindhand, Superseded, Spent, Newest
  <2>9. CASE pc'[c] = "idle" /\ store' = store
    BY <2>1, <2>3, <2>9, FilingLeftAlone DEF InHand, StaysDealt
  <2>10. CASE store' = [store EXCEPT ![s0] = fresh[c]]
    <3>1. store'[s0] = fresh[c]
      BY <2>4, <2>10
    <3>2. Behindhand(s0)' => ~HasCopy(f)'
      <4> SUFFICES ASSUME Behindhand(s0)' PROVE ~HasCopy(f)'
        OBVIOUS
      <4>1. fresh[c] # Newest(f) /\ f \notin revoked \cup forfeit
        BY <2>1, <2>4, <3>1 DEF Behindhand, Spent, Newest, Token
      <4> QED BY <2>3, <2>7, <4>1, CopiesOnlyGo
    <3>3. Superseded(s0)' => HasCopy(f)'
      <4> SUFFICES ASSUME Superseded(s0)' PROVE HasCopy(f)'
        OBVIOUS
      <4>1. parked' \in Record /\ parked'.cred = Newest(f)'
        BY <2>1, <2>4, <3>1 DEF Superseded, Newest
      <4> QED BY <4>1 DEF HasCopy, Copies
    <3>4. SuccessorFiled'
      <4> SUFFICES ASSUME NEW s \in Stores, Behindhand(s)', HasCopy(store[s].fam)'
                   PROVE  BeingFiled(s)' \/ Superseded(s)'
        BY DEF SuccessorFiled
      <4>1. s # s0
        BY <2>1, <2>4, <3>1, <3>2 DEF HasCopy, Newest
      <4>2. store'[s] = store[s] /\ store[s] \in Token /\ store[s].fam \in Grant
        BY <2>2, <4>1 DEF Behindhand, Token
      <4>3. HasCopy(store[s].fam)
        BY <2>3, <4>2, CopiesOnlyGo DEF HasCopy, Newest
      <4>4. ~BeingFiled(s)
        BY <2>1, OneInHand DEF InHand, Locked, Reading
      <4> QED BY <2>8, <4>1, <4>3, <4>4 DEF Filing, SuccessorFiled
    <3>5. \A d \in Calls \ {c} : pc'[d] \notin {"load", "ask", "clear", "file"}
      BY <2>1 DEF OneAtATime, Locked, Reading, Rotations, Unanswered
    <3>6. Dealt(c)'
      BY <2>1, <2>6, <2>8, <3>2, <3>3 DEF Dealt
    <3> QED BY <3>4, <3>5, <3>6 DEF Filing, ParkedDealtWith, Dealt
  <2> QED BY <2>1, <2>2, <2>9, <2>10
<1> QED BY <1>1, <1>2, <1>3, <1>4

(* A step that changes the parked file or a store under no reader's eyes:   *)
(* what is required of it is what SuccessorKept and DealtKept require.      *)
LEMMA FilingKept ==
  ASSUME Base, Filing, NoNewToken,
         \A s \in Stores : Behindhand(s)' => store'[s] = store[s],
         \A s \in Stores : Behindhand(s)' /\ Superseded(s) => Superseded(s)',
         \A s \in Stores : Behindhand(s)' /\ Superseded(s)' => Superseded(s) \/ BeingFiled(s),
         \A s \in Stores : Behindhand(s)' /\ HasCopy(store[s].fam)' /\ BeingFiled(s)
                             => BeingFiled(s)' \/ Superseded(s)',
         \A d \in Calls : StaysDealt(d)
  PROVE  Filing'
<1>1. SuccessorFiled'
  BY SuccessorKept DEF Filing, Base, Typed
<1>2. ParkedDealtWith'
  BY DealtKept DEF Filing, ParkedDealtWith
<1> QED BY <1>1, <1>2 DEF Filing

(* So does the rotation, from the request to the save or the park.          *)
LEMMA RotationFiling ==
  ASSUME Base, Kept, Facts, Filing, NEW c \in Calls,
         \/ IssuerAnswers(c) \/ RequestFails(c) \/ ReplyArrives(c) \/ SaveRotated(c)
         \/ ParkRotated(c) \/ Filed(c) \/ DropParks(c) \/ Unwind(c)
  PROVE  Filing'
<1> USE SessionAssumption
    DEF Base, Typed, TypeOK, issuer, machine, process, Goto, Finish, InHand
<1>1. ASSUME ReplyArrives(c) \/ Unwind(c) \/ Filed(c) PROVE Filing'
  <2>1. NoNewToken /\ store' = store /\ parked' = parked
    BY <1>1 DEF ReplyArrives, Unwind, Filed, NoNewToken, Copies
  <2>2. \A d \in Calls : pc[d] \in InHand => pc'[d] \in InHand /\ st'[d] = st[d]
    BY <1>1 DEF ReplyArrives, Unwind, Filed
  <2>3. \A d \in Calls : StaysDealt(d)
    BY <1>1 DEF ReplyArrives, Unwind, Filed, StaysDealt
  <2> QED BY <2>1, <2>2, <2>3, FilingLeftAlone
<1>2. ASSUME RequestFails(c) PROVE Filing'
  <2>1. NoNewToken /\ UNCHANGED <<newest, store, parked, st, toPark>>
    BY <1>2 DEF RequestFails, NoNewToken, Copies
  <2>2. pc[c] \in {"ask", "reply"} /\ \A d \in Calls : StaysDealt(d)
    BY <1>2 DEF RequestFails, Unanswered, StaysDealt
  <2>3. \A s \in Stores : Superseded(s)' <=> Superseded(s)
    BY <2>1 DEF Superseded, Newest
  <2>4. ASSUME NEW s \in Stores, Behindhand(s)', HasCopy(store[s].fam)', BeingFiled(s)
        PROVE  BeingFiled(s)'
    <3> SUFFICES ASSUME ~BeingFiled(s)' PROVE FALSE
      OBVIOUS
    <3>1. pc[c] = "reply" /\ st[c] = s
      BY <1>2, <2>1, <2>2, <2>4 DEF BeingFiled, RequestFails, OneAtATime, Locked, Rotations, Unanswered,
         Answered
    <3>2. /\ Successor(fresh[c], held[c]) /\ fresh[c] = Newest(fresh[c].fam)
          /\ store[s] = held[c]
      BY <3>1 DEF Facts, CarriesNewest, HasAnswer, Kept, StoreAsRead
    <3>3. fresh[c] \in Copies'
      BY <2>1, <2>4, <3>2 DEF HasCopy, Successor, Newest
    <3>4. \A d \in Calls : fresh'[d] # fresh[c]
      <4>1. ASSUME NEW d \in Calls \ {c}, fresh[d] = fresh[c] PROVE FALSE
        <5>1. pc[d] \notin Locked
          BY <3>1, <4>1 DEF OneAtATime, Locked, Rotations, Unanswered
        <5>2. fresh[d] # None /\ fresh[d].gen # 0
          BY <3>2, <4>1 DEF Successor, Token
        <5> QED BY <5>1, <5>2 DEF Facts, CarriesNewest, HasAnswer, NewSession, Locked, Reading,
                Rotations, Unanswered, Answered
      <4> QED BY <1>2, <3>2, <4>1 DEF RequestFails, Successor
    <3>5. \A x \in Stores : store'[x] # fresh[c]
      <4>1. store[s] # fresh[c] /\ store[s] \in Token /\ store[s].fam = fresh[c].fam
        BY <3>2 DEF Successor, Token
      <4>2. ASSUME NEW x \in Stores, store[x] = fresh[c] PROVE FALSE
        <5>1. store[x] \in Token /\ store[x].fam = store[s].fam
          BY <3>2, <4>1, <4>2 DEF Successor
        <5> QED BY <4>1, <4>2, <5>1 DEF Kept, StoresApart
      <4> QED BY <2>1, <4>2
    <3>6. parked \in Record => parked.cred # fresh[c]
      BY <3>1 DEF Facts, OnlyHere
    <3>7. \A q \in Procs : \A r \in toPark[q] : r.cred # fresh[c]
      BY <3>1 DEF Facts, OnlyHere
    <3> QED BY <2>1, <3>3, <3>4, <3>5, <3>6, <3>7 DEF Copies
  <2> QED BY <2>1, <2>2, <2>3, <2>4, FilingKept
<1>3. ASSUME SaveRotated(c) PROVE Filing'
  <2>1. /\ pc[c] = "save" /\ pc' \in {[pc EXCEPT ![c] = "filed"], [pc EXCEPT ![c] = "park"]}
        /\ UNCHANGED <<issuer, parked, forfeit, fresh, st, toPark>>
        /\ pc'[c] = "filed" => store' = [store EXCEPT ![st[c]] = fresh[c]]
    BY <1>3 DEF SaveRotated, Saved
  <2>2. store' = store \/ store' = [store EXCEPT ![st[c]] = fresh[c]]
    BY <1>3, SaveWrites DEF SaveRotated
  <2>3. NoNewToken
    BY <2>1, <2>2 DEF NoNewToken, Copies
  <2>4. fresh[c] \in Token /\ fresh[c] = Newest(fresh[c].fam)
    BY <2>1 DEF Facts, CarriesNewest, HasAnswer, Answered, Successor
  <2>5. \A s \in Stores : Behindhand(s)' => store'[s] = store[s] /\ (s = st[c] => pc'[c] = "park")
    <3> SUFFICES ASSUME NEW s \in Stores, Behindhand(s)'
                 PROVE  store'[s] = store[s] /\ (s = st[c] => pc'[c] = "park")
      OBVIOUS
    <3>1. store'[s] # fresh[c]
      BY <2>1, <2>4 DEF Behindhand, Spent, Newest, Token
    <3>2. s = st[c] => store' # [store EXCEPT ![st[c]] = fresh[c]]
      BY <3>1
    <3> QED BY <2>1, <2>2, <3>2
  <2>6. \A s \in Stores : Behindhand(s)' => (Superseded(s)' <=> Superseded(s))
    BY <2>1, <2>5 DEF Superseded, Newest
  <2>7. \A s \in Stores : Behindhand(s)' /\ BeingFiled(s) => BeingFiled(s)'
    BY <2>1, <2>5 DEF BeingFiled
  <2>8. \A d \in Calls : StaysDealt(d)
    BY <2>1 DEF StaysDealt
  <2> QED BY <2>3, <2>5, <2>6, <2>7, <2>8, FilingKept
<1>4. ASSUME ParkRotated(c) \/ DropParks(c) PROVE Filing'
  <2> DEFINE r == [cred |-> fresh[c], replaces |-> held[c]]
  <2>1. /\ Park(r) /\ pc[c] \in {"park", "drop"} /\ UNCHANGED <<issuer, store, st, toPark>>
        /\ pc' \in {[pc EXCEPT ![c] = "filed"], [pc EXCEPT ![c] = "idle"]}
        /\ fresh' = fresh \/ fresh' = [fresh EXCEPT ![c] = None]
    BY <1>4 DEF ParkRotated, DropParks
  <2>2. /\ Successor(r.cred, r.replaces) /\ r \in Record /\ Known(r.cred) /\ r.cred \in Copies
        /\ fresh[c] = Newest(fresh[c].fam)
    BY <2>1 DEF Facts, CarriesNewest, HasAnswer, Answered, Successor, TokensKnown, Record, Copies
  <2>3. /\ forfeit \subseteq forfeit'
        /\ \A s \in Stores : Behindhand(s)' => store'[s] = store[s]
        /\ \A s \in Stores : Behindhand(s)' /\ Superseded(s) => Superseded(s)'
        /\ \A s \in Stores : Behindhand(s)' /\ Superseded(s)' => Superseded(s) \/ BeingFiled(s)
    BY <2>1, <2>2, ParkKeeps
  <2>4. NoNewToken
    BY <2>1, <2>2, <2>3 DEF NoNewToken, Copies, Park
  <2>5. ASSUME NEW s \in Stores, Behindhand(s)', BeingFiled(s)
        PROVE  BeingFiled(s)' \/ Superseded(s)'
    <3>1. CASE st[c] # s
      BY <2>1, <2>5, <3>1 DEF BeingFiled
    <3>2. CASE st[c] = s
      <4>1. store[s] = held[c] \/ store[s] = fresh[c]
        BY <2>1, <3>2 DEF Kept, StoreAsRead, Facts, CarriesNewest
      <4>2. store[s] # fresh[c]
        BY <2>1, <2>2, <2>5 DEF Behindhand, Spent, Newest, Successor, Token
      <4>3. parked' = r
        <5>1. store[s].fam = fresh[c].fam /\ store[s].fam \notin forfeit'
          BY <2>1, <2>2, <2>5, <4>1, <4>2 DEF Behindhand, Successor
        <5> QED BY <2>1, <5>1 DEF Park
      <4> QED BY <2>1, <2>2, <4>1, <4>2, <4>3 DEF Superseded, Newest, Successor
    <3> QED BY <3>1, <3>2
  <2>6. \A d \in Calls : StaysDealt(d)
    BY <2>1 DEF StaysDealt
  <2> QED BY <2>3, <2>4, <2>5, <2>6, FilingKept
<1>5. ASSUME IssuerAnswers(c) PROVE Filing'
  <2>1. /\ pc[c] = "ask" /\ held[c] \in Token /\ held[c].fam \in Grant /\ st[c] \in Stores
        /\ UNCHANGED <<store, parked, forfeit, st, toPark>>
    BY <1>5 DEF IssuerAnswers, Carries, Token
  <2>2. CASE revoked' = revoked \cup {held[c].fam} /\ Finish(c) /\ UNCHANGED newest
    <3>1. NoNewToken
      BY <2>1, <2>2 DEF NoNewToken, Copies
    <3>2. \A d \in Calls : pc[d] \in InHand => pc'[d] \in InHand /\ st'[d] = st[d]
      BY <2>1, <2>2
    <3>3. \A d \in Calls : StaysDealt(d)
      BY <2>1, <2>2 DEF StaysDealt
    <3> QED BY <2>1, <3>1, <3>2, <3>3, FilingLeftAlone
  <2>3. CASE /\ newest' = [newest EXCEPT ![held[c].fam] = @ + 1]
             /\ fresh' = [fresh EXCEPT ![c] =
                            [fam |-> held[c].fam, gen |-> newest[held[c].fam] + 1]]
             /\ Goto(c, "reply") /\ UNCHANGED revoked
    <3> DEFINE f == held[c].fam
    <3>1. store[st[c]] = held[c]
      BY <2>1 DEF Kept, StoreAsRead
    <3>2. BeingFiled(st[c])'
      BY <2>1, <2>3 DEF BeingFiled
    <3>3. \A d \in Calls \ {c} : pc'[d] \notin {"load", "ask", "clear", "file"}
      BY <2>1, <2>3 DEF OneAtATime, Locked, Reading, Rotations, Unanswered
    <3>4. ParkedDealtWith'
      BY <2>3, <3>3 DEF ParkedDealtWith, Dealt
    <3>5. SuccessorFiled'
      <4> SUFFICES ASSUME NEW s \in Stores, s # st[c], Behindhand(s)', HasCopy(store[s].fam)'
                   PROVE  BeingFiled(s)' \/ Superseded(s)'
        BY <2>1, <3>2 DEF SuccessorFiled
      <4>1. store[s] \in Token /\ store[s].fam # f /\ store[s].fam \in Grant
        BY <2>1, <3>1 DEF Behindhand, Kept, StoresApart, Token
      <4>2. newest'[store[s].fam] = newest[store[s].fam]
        BY <2>3, <4>1
      <4>3. Behindhand(s)
        BY <2>1, <2>3, <4>1, <4>2 DEF Behindhand, Spent
      <4>4. HasCopy(store[s].fam)
        BY <2>1, <2>3, <4>1, <4>2 DEF HasCopy, Newest, Copies
      <4>5. ~BeingFiled(s)
        BY <2>1, OneInHand DEF Locked, Rotations, Unanswered
      <4>6. Superseded(s)
        BY <4>3, <4>4, <4>5 DEF Filing, SuccessorFiled
      <4> QED BY <2>1, <4>2, <4>6 DEF Superseded, Newest
    <3> QED BY <3>4, <3>5 DEF Filing
  <2> QED BY <1>5, <2>2, <2>3 DEF IssuerAnswers
<1> QED BY <1>1, <1>2, <1>3, <1>4, <1>5

(* Removing the parked file gives up the family it was of; it may stay.     *)
LEMMA ParkedClearedFiling ==
  ASSUME Base, Filing, NEW c \in Calls, pc[c] \in SigningOut \cup SigningIn,
         ParkedRemoved \/ (ParkedStays /\ UNCHANGED forfeit),
         UNCHANGED <<issuer, store, st, fresh, toPark>>,
         pc' \in {[pc EXCEPT ![c] = "outDelete"], [pc EXCEPT ![c] = "inRevoke"]}
  PROVE  Filing'
<1> USE DEF Base, Typed, TypeOK, issuer
<1>1. NoNewToken /\ parked' \in {parked, None}
  <2>1. parked' \in {parked, None} /\ forfeit \subseteq forfeit'
    BY DEF ParkedRemoved, ParkedCleared, ParkedStays
  <2> QED BY <2>1, SessionAssumption DEF NoNewToken, Copies
<1>2. \A s \in Stores : Behindhand(s)' /\ Superseded(s) => Superseded(s)'
  BY DEF Behindhand, Superseded, Newest, ParkedRemoved, ParkedStays
<1>3. \A s \in Stores : Superseded(s)' => Superseded(s)
  BY <1>1, SessionAssumption DEF Superseded, Newest
<1>4. \A s \in Stores : BeingFiled(s) => BeingFiled(s)'
  BY DEF BeingFiled, InHand, SigningOut, SigningIn
<1>5. \A d \in Calls : StaysDealt(d)
  BY DEF StaysDealt
<1> QED BY <1>1, <1>2, <1>3, <1>4, <1>5, FilingKept

(* A store that is emptied, or signed in to with a token never rotated, is   *)
(* not left behind.                                                         *)
LEMMA StoreReplacedFiling ==
  ASSUME Base, Filing, NEW c \in Calls, pc[c] \in {"outDelete", "inSave"}, NEW t,
         store' = store \/ store' = [store EXCEPT ![st[c]] = t],
         t = None \/ (pc[c] = "inSave" /\ t = fresh[c] /\ t.gen = newest[t.fam]),
         UNCHANGED <<issuer, parked, forfeit, st, toPark>>,
         pc' \in {[pc EXCEPT ![c] = "idle"], [pc EXCEPT ![c] = "inParked"],
                  [pc EXCEPT ![c] = "inUndo"]},
         fresh' \in {fresh, [fresh EXCEPT ![c] = None]}
  PROVE  Filing'
<1> USE SessionAssumption DEF Base, Typed, TypeOK, issuer
<1>1. NoNewToken
  BY DEF NoNewToken, Copies
<1>2. \A s \in Stores : Behindhand(s)' => store'[s] = store[s]
  <2> SUFFICES ASSUME NEW s \in Stores, Behindhand(s)', store'[s] # store[s] PROVE FALSE
    OBVIOUS
  <2>1. s = st[c] /\ store'[s] = t
    OBVIOUS
  <2>2. t \in Token /\ t.gen < newest[t.fam]
    BY <2>1 DEF Behindhand, Spent
  <2> QED BY <2>2 DEF Token
<1>3. \A s \in Stores : Behindhand(s)' => (Superseded(s)' <=> Superseded(s))
  BY <1>2 DEF Superseded, Newest
<1>4. \A s \in Stores : BeingFiled(s) => BeingFiled(s)'
  BY DEF BeingFiled, InHand
<1>5. \A d \in Calls : StaysDealt(d)
  BY DEF StaysDealt
<1> QED BY <1>1, <1>2, <1>3, <1>4, <1>5, FilingKept

(* So does sign_out, which forfeits what it removes.                        *)
LEMMA SignOutFiling ==
  ASSUME Base, Filing, NEW c \in Calls, SignOutStep(c)
  PROVE  Filing'
<1> USE DEF Base, Typed, TypeOK, issuer, machine, process, Goto, Finish
<1>1. ASSUME SignOutLoad(c) PROVE Filing'
  <2>1. UNCHANGED <<newest, store, parked, forfeit, st, toPark>> /\ revoked \subseteq revoked'
    BY <1>1, RevokeKeeps DEF SignOutLoad
  <2>2. /\ pc[c] = "outLoad"
        /\ pc' = [pc EXCEPT ![c] = "outParked"] \/ pc' = [pc EXCEPT ![c] = "idle"]
        /\ fresh' = fresh \/ fresh' = [fresh EXCEPT ![c] = None]
    BY <1>1 DEF SignOutLoad
  <2>3. NoNewToken
    BY <2>1, <2>2, SessionAssumption DEF NoNewToken, Copies
  <2> QED BY <2>1, <2>2, <2>3, FilingLeftAlone DEF InHand, StaysDealt
<1>2. ASSUME SignOutParked(c) PROVE Filing'
  <2>1. UNCHANGED <<newest, store, parked, forfeit, st, fresh, toPark>> /\ revoked \subseteq revoked'
    BY <1>2, RevokeKeeps DEF SignOutParked
  <2>2. pc[c] = "outParked" /\ pc' = [pc EXCEPT ![c] = "outClear"]
    BY <1>2 DEF SignOutParked
  <2>3. NoNewToken
    BY <2>1 DEF NoNewToken, Copies
  <2> QED BY <2>1, <2>2, <2>3, FilingLeftAlone DEF InHand, StaysDealt
<1>3. ASSUME SignOutClear(c) PROVE Filing'
  BY <1>3, ParkedClearedFiling DEF SignOutClear, SigningOut
<1>4. ASSUME SignOutDelete(c) PROVE Filing'
  BY <1>4, StoreReplacedFiling DEF SignOutDelete
<1> QED BY <1>1, <1>2, <1>3, <1>4 DEF SignOutStep

(* So does store_new_session, which forfeits the parked session it removes. *)
LEMMA SignInFiling ==
  ASSUME Base, Facts, Filing, NEW c \in Calls, SignInStep(c)
  PROVE  Filing'
<1> USE DEF Base, Typed, TypeOK, issuer, machine, process, Goto, Finish
<1>1. ASSUME SignInLoad(c) \/ SignInParked(c) \/ SignInRevoke(c) \/ SignInUndo(c) PROVE Filing'
  <2>1. /\ UNCHANGED <<newest, store, parked, forfeit, toPark>>
        /\ revoked \subseteq revoked'
    BY <1>1, RevokeKeeps DEF SignInLoad, SignInParked, SignInRevoke, SignInUndo
  <2>2. /\ pc[c] \notin InHand
        /\ pc'[c] \notin {"load", "ask", "clear", "file"}
        /\ \A d \in Calls \ {c} : pc'[d] = pc[d] /\ fresh'[d] = fresh[d] /\ st'[d] = st[d]
        /\ fresh' = fresh \/ fresh' = [fresh EXCEPT ![c] = None]
    BY <1>1 DEF SignInLoad, SignInParked, SignInRevoke, SignInUndo, InHand
  <2>3. NoNewToken
    BY <2>1, <2>2, SessionAssumption DEF NoNewToken, Copies
  <2> QED BY <2>1, <2>2, <2>3, FilingLeftAlone DEF StaysDealt
<1>2. ASSUME SignInSave(c) PROVE Filing'
  <2>1. /\ pc[c] = "inSave" /\ UNCHANGED <<issuer, parked, forfeit, st, fresh, toPark>>
        /\ pc' \in {[pc EXCEPT ![c] = "inParked"], [pc EXCEPT ![c] = "inUndo"]}
    BY <1>2 DEF SignInSave
  <2>2. fresh[c].gen = newest[fresh[c].fam]
    BY <2>1 DEF Facts, CarriesNewest, NewSession, SigningIn, Unstored
  <2>3. store' = store \/ store' = [store EXCEPT ![st[c]] = fresh[c]]
    BY <1>2, SaveWrites DEF SignInSave
  <2> QED BY <2>1, <2>2, <2>3, StoreReplacedFiling
<1>3. ASSUME SignInClear(c) PROVE Filing'
  BY <1>3, ParkedClearedFiling DEF SignInClear, SigningIn
<1> QED BY <1>1, <1>2, <1>3 DEF SignInStep

(* So does a process that leaves, parks or ends.                            *)
LEMMA ProcFiling ==
  ASSUME Base, Kept, Facts, Filing, "orphan" \notin Faults, NEW p \in Procs, ProcStep(p)
  PROVE  Filing'
<1> USE SessionAssumption DEF Base, Typed, TypeOK, issuer, machine, process
<1>1. ASSUME Done(p) \/ Leave(p) \/ Collect(p) \/ Panic(p) PROVE Filing'
  <2>1. /\ UNCHANGED <<newest, revoked, store, parked, forfeit, st, fresh, pc>>
        /\ toPark' = toPark \/ toPark' = [toPark EXCEPT ![p] = Collected(p)]
    BY <1>1 DEF Done, Leave, Collect, Panic
  <2>2. NoNewToken
    BY <2>1 DEF NoNewToken, Copies, Collected
  <2> QED BY <2>1, <2>2, FilingLeftAlone DEF StaysDealt
<1>2. ASSUME ParkCollected(p) PROVE Filing'
  <2> PICK r \in toPark[p] : Park(r) /\ toPark' = [toPark EXCEPT ![p] = @ \ {r}]
    BY <1>2 DEF ParkCollected
  <2>1. UNCHANGED <<issuer, store, pc, st, fresh>>
    BY <1>2 DEF ParkCollected
  <2>2. r \in Record /\ Successor(r.cred, r.replaces) /\ Known(r.cred) /\ r.cred \in Copies
    BY DEF Facts, RecordsSucceed, TokensKnown, Copies
  <2>3. /\ forfeit \subseteq forfeit'
        /\ \A s \in Stores : Behindhand(s)' => store'[s] = store[s]
        /\ \A s \in Stores : Behindhand(s)' /\ Superseded(s) => Superseded(s)'
        /\ \A s \in Stores : Behindhand(s)' /\ Superseded(s)' => Superseded(s) \/ BeingFiled(s)
    BY <2>1, <2>2, ParkKeeps
  <2>4. NoNewToken
    BY <2>1, <2>2, <2>3 DEF NoNewToken, Copies, Park
  <2> QED BY <2>1, <2>3, <2>4, FilingKept DEF BeingFiled, StaysDealt
<1>3. ASSUME Ends(p) PROVE Filing'
  <2>1. /\ UNCHANGED <<issuer, store, parked, forfeit, st>>
        /\ \A d \in Calls : IF ProcOf[d] = p THEN pc'[d] = "idle" /\ fresh'[d] = None
                                             ELSE pc'[d] = pc[d] /\ fresh'[d] = fresh[d]
        /\ toPark' = [toPark EXCEPT ![p] = {}]
    BY <1>3 DEF Ends
  <2>2. NoNewToken
    BY <2>1 DEF NoNewToken, Copies
  <2>3. \A s \in Stores : Superseded(s)' <=> Superseded(s)
    BY <2>1 DEF Superseded, Newest
  <2>4. \A d \in Calls : StaysDealt(d)
    BY <2>1 DEF StaysDealt
  <2>5. ASSUME NEW s \in Stores, Behindhand(s)', HasCopy(store[s].fam)', BeingFiled(s)
        PROVE  BeingFiled(s)' \/ Superseded(s)'
    <3> SUFFICES ASSUME ~BeingFiled(s)', ~Superseded(s) PROVE FALSE
      BY <2>3
    <3> PICK c \in Calls : pc[c] \in InHand /\ st[c] = s
      BY <2>5 DEF BeingFiled
    <3>1. ProcOf[c] = p
      BY <2>1 DEF BeingFiled
    <3>2. /\ Successor(fresh[c], held[c]) /\ fresh[c] = Newest(fresh[c].fam)
          /\ store[s] \in {held[c], fresh[c]}
      BY DEF Facts, CarriesNewest, HasAnswer, Answered, InHand, Kept, StoreAsRead
    <3>3. store[s] # fresh[c]
      BY <2>1, <2>5, <3>2 DEF Behindhand, Spent, Newest, Successor, Token
    <3>4. fresh[c] \in Copies'
      BY <2>1, <2>5, <3>2, <3>3 DEF HasCopy, Successor, Newest
    <3>5. \A d \in Calls : fresh'[d] # fresh[c]
      <4>1. ASSUME NEW d \in Calls \ {c}, fresh[d] = fresh[c] PROVE FALSE
        <5>1. pc[d] \notin Locked
          BY <4>1 DEF OneAtATime, InHand, Locked, Rotations, Unanswered, Answered
        <5>2. fresh[d] # None /\ fresh[d].gen # 0
          BY <3>2, <4>1 DEF Successor, Token
        <5> QED BY <5>1, <5>2 DEF Facts, CarriesNewest, HasAnswer, NewSession, Locked, Reading,
                Rotations, Unanswered, Answered
      <4> QED BY <2>1, <3>1, <3>2, <4>1 DEF Successor
    <3>6. \A x \in Stores : store[x] # fresh[c]
      <4>1. ASSUME NEW x \in Stores, store[x] = fresh[c] PROVE FALSE
        <5>1. store[x] \in Token /\ store[s] \in Token /\ store[x].fam = store[s].fam
          BY <3>2, <3>3, <4>1 DEF Successor
        <5> QED BY <3>3, <4>1, <5>1 DEF Kept, StoresApart
      <4> QED BY <4>1
    <3>7. parked \in Record => parked.cred # fresh[c]
      <4> SUFFICES ASSUME parked \in Record, parked.cred = fresh[c] PROVE FALSE
        OBVIOUS
      <4>1. Successor(parked.cred, parked.replaces)
        BY DEF Facts, RecordsSucceed
      <4>2. parked.replaces.gen = held[c].gen /\ parked.replaces.fam = held[c].fam
        <5>1. parked.replaces.gen \in Nat /\ held[c].gen \in Nat
          BY <3>2, <4>1 DEF Successor, Token
        <5> QED BY <3>2, <4>1, <5>1 DEF Successor
      <4>3. parked.replaces = held[c]
        BY <3>2, <4>1, <4>2, SameToken DEF Successor
      <4> QED BY <3>2, <3>3, <4>3 DEF Superseded, Newest, Successor
    <3>8. \A q \in Procs : \A r \in toPark'[q] : r.cred # fresh[c]
      BY <2>1, <3>1 DEF Facts, OnlyHere
    <3> QED BY <2>1, <3>4, <3>5, <3>6, <3>7, <3>8 DEF Copies
  <2> QED BY <2>1, <2>2, <2>3, <2>4, <2>5, FilingKept
<1> QED BY <1>1, <1>2, <1>3 DEF ProcStep, EndSettled, EndParked, Kill

(* So does every step.                                                      *)
LEMMA StepFiling ==
  ASSUME Base, Kept, Facts, Filing, "orphan" \notin Faults, [Next]_vars
  PROVE  Filing'
<1>1. ASSUME NEW c \in Calls, CallStep(c) PROVE Filing'
  BY <1>1, StartFiling, ReadingFiling, RotationFiling, SignOutFiling, SignInFiling
     DEF CallStep, SessionStep
<1>2. ASSUME NEW p \in Procs, ProcStep(p) PROVE Filing'
  BY <1>2, ProcFiling
<1>3. ASSUME ParkedSpoils PROVE Filing'
  <2>1. /\ UNCHANGED <<issuer, store, pc, st, fresh, toPark>>
        /\ parked \in Record /\ parked' = Unreadable
        /\ forfeit' = forfeit \cup {parked.cred.fam}
    BY <1>3 DEF ParkedSpoils, process
  <2>2. NoNewToken
    BY <2>1, SessionAssumption DEF NoNewToken, Copies, issuer
  <2>3. \A s \in Stores : Behindhand(s)' => ~Superseded(s)
    BY <2>1 DEF Behindhand, Superseded, Newest
  <2>4. \A s \in Stores : ~Superseded(s)'
    BY <2>1, SessionAssumption DEF Superseded
  <2> QED BY <2>1, <2>2, <2>3, <2>4, FilingKept DEF BeingFiled, StaysDealt
<1>4. ASSUME UNCHANGED vars PROVE Filing'
  BY <1>4, FilingLeftAlone DEF vars, NoNewToken, Copies, StaysDealt
<1>5. ~OrphanLands
  BY DEF OrphanLands, Kept, NoOrphans
<1> QED BY <1>1, <1>2, <1>3, <1>4, <1>5 DEF Next

(* Nothing has been rotated to begin with.                                  *)
LEMMA InitFiling == Init => Filing
<1> SUFFICES ASSUME Init PROVE Filing
  OBVIOUS
<1>1. \A s \in Stores : store[s] \in Token => ~Spent(store[s])
  BY SessionAssumption DEF Init, Spent, Token, Grant
<1>2. ParkedDealtWith
  BY DEF Init, ParkedDealtWith, Dealt
<1> QED BY <1>1, <1>2 DEF Filing, SuccessorFiled, Behindhand

-----------------------------------------------------------------------------
(* current_session presents the issuer with a spent token only when the       *)
(* newer one is gone from the machine (its process was killed, the answer     *)
(* was lost), when the family is revoked anyway, or when the parked copy was   *)
(* not written, became unreadable or was given up: "rotating a second time    *)
(* would present the issuer with a token it has already seen, which revokes    *)
(* the family".  No interleaving of refreshes, sign-ins, sign-outs, parking    *)
(* and process ends leads to it otherwise.                                  *)
THEOREM NoNeedlessRevocation ==
  ASSUME "orphan" \notin Faults
  PROVE  Spec => []SpentOnlyIfLost
<1> DEFINE Inv == Base /\ Kept /\ Facts /\ Filing
<1>1. Init => Inv
  BY InitKept, InitFacts, InitFiling
<1>2. Inv /\ [Next]_vars => Inv'
  BY StepBase, StepKept, StepFacts, StepFiling
<1>3. Inv => SpentOnlyIfLost
  <2> SUFFICES ASSUME Inv, NEW c \in Calls, pc[c] = "ask", Spent(held[c]),
                      held[c].fam \notin revoked \cup forfeit, HasCopy(held[c].fam)
               PROVE  FALSE
    BY DEF SpentOnlyIfLost
  <2>1. store[st[c]] = held[c] /\ held[c] \in Token /\ st[c] \in Stores
    BY DEF Base, Typed, TypeOK, Carries, Kept, StoreAsRead
  <2>2. Behindhand(st[c])
    BY <2>1 DEF Behindhand
  <2>3. ~BeingFiled(st[c])
    BY <2>1, OneInHand DEF Base, InHand, Locked, Rotations, Unanswered
  <2>4. Superseded(st[c])
    BY <2>1, <2>2, <2>3 DEF Filing, SuccessorFiled
  <2> QED BY <2>2, <2>4 DEF Filing, ParkedDealtWith, Dealt
<1> QED BY <1>1, <1>2, <1>3, PTL DEF Spec
=============================================================================
