--------------------------- MODULE LeftoverProofs --------------------------
(***************************************************************************)
(* What a sign-out, an undone sign-in and a rotation leave on the machine   *)
(* and at the issuer, for every number of processes, calls, stores,         *)
(* sign-ins and rotations.  Each theorem says which faults it needs away.   *)
(***************************************************************************)
EXTENDS RotationProofs

-----------------------------------------------------------------------------
(* What a call has said.                                                    *)

Signing == Waiting \cup SigningOut \cup SigningIn

(* A call at work on a sign-out or a sign-in has said nothing yet, or that   *)
(* something failed.                                                        *)
SaidLittle == \A c \in Calls : pc[c] \in Signing => said[c] \in {"none", "failed"}

(* What a step of one call says is its own.                                 *)
LEMMA SaysItsOwn ==
  ASSUME TypeOK, NEW c \in Calls, CallStep(c)
  PROVE  \A d \in Calls \ {c} : said'[d] = said[d] /\ pc'[d] = pc[d] /\ st'[d] = st[d]
<1> USE DEF TypeOK, Goto, Finish
<1>1. CASE Start(c) \/ TakeLock(c) \/ GiveUpWaiting(c) \/ Unwind(c)
  BY <1>1 DEF Start, BeginSession, BeginSignOut, Approve, Begin, TakeLock, GiveUpWaiting, Unwind
<1>2. CASE Recover(c) \/ FileParked(c) \/ ClearParked(c) \/ Load(c)
  BY <1>2 DEF Recover, FileParked, ClearParked, Load
<1>3. CASE IssuerAnswers(c) \/ RequestFails(c) \/ ReplyArrives(c)
  BY <1>3 DEF IssuerAnswers, RequestFails, ReplyArrives
<1>4. CASE SaveRotated(c) \/ ParkRotated(c) \/ Filed(c) \/ DropParks(c)
  BY <1>4 DEF SaveRotated, ParkRotated, Filed, DropParks
<1>5. CASE SignOutStep(c)
  BY <1>5 DEF SignOutStep, SignOutLoad, SignOutParked, SignOutClear, SignOutDelete
<1>6. CASE SignInStep(c)
  BY <1>6 DEF SignInStep, SignInLoad, SignInSave, SignInParked, SignInClear, SignInRevoke,
              SignInUndo
<1> QED BY <1>1, <1>2, <1>3, <1>4, <1>5, <1>6 DEF CallStep, SessionStep

(* A step on the way of a sign-out or a sign-in says nothing but a failure.  *)
LEMMA SaysLittle ==
  ASSUME TypeOK, SaidLittle, [Next]_vars
  PROVE  SaidLittle'
<1> USE DEF TypeOK, SaidLittle, Signing, Waiting, SigningOut, SigningIn
<1>1. ASSUME NEW c \in Calls, CallStep(c) PROVE SaidLittle'
  <2> SUFFICES ASSUME pc'[c] \in Signing PROVE said'[c] \in {"none", "failed"}
    BY <1>1, SaysItsOwn
  <2> USE DEF Goto, Finish, Release
  <2>1. CASE Start(c)
    BY <2>1 DEF Start, BeginSession, BeginSignOut, Approve, Begin
  <2>2. CASE TakeLock(c) \/ GiveUpWaiting(c)
    BY <2>2 DEF TakeLock, GiveUpWaiting
  <2>3. CASE SessionStep(c) \/ Unwind(c)
    <3>1. pc'[c] \notin Signing
      BY <2>3 DEF SessionStep, Unwind, Recover, FileParked, ClearParked, Load, IssuerAnswers,
         RequestFails, ReplyArrives, SaveRotated, ParkRotated, Filed, DropParks
    <3> QED BY <3>1
  <2>4. CASE SignOutStep(c)
    BY <2>4 DEF SignOutStep, SignOutLoad, SignOutParked, SignOutClear, SignOutDelete
  <2>5. CASE SignInStep(c)
    BY <2>5 DEF SignInStep, SignInLoad, SignInSave, SignInParked, SignInClear, SignInRevoke,
                SignInUndo
  <2> QED BY <1>1, <2>1, <2>2, <2>3, <2>4, <2>5 DEF CallStep
<1>2. ASSUME NEW p \in Procs, ProcStep(p) PROVE SaidLittle'
  BY <1>2 DEF ProcStep, Done, Leave, Collect, Panic, ParkCollected, EndSettled, EndParked,
              Kill, Ends
<1>3. ASSUME ParkedSpoils \/ OrphanLands \/ UNCHANGED vars PROVE SaidLittle'
  BY <1>3 DEF ParkedSpoils, OrphanLands, vars
<1> QED BY <1>1, <1>2, <1>3 DEF Next

-----------------------------------------------------------------------------
(* A sign-out that succeeds leaves nothing.                                 *)

NothingCollected == \A p \in Procs : toPark[p] = {}

(* A sign-out that has not failed has removed the parked file.              *)
RemovedOrFailed ==
  \A c \in Calls : pc[c] = "outDelete" => said[c] = "failed" \/ parked = None

ClearedOut == Base /\ SaidLittle /\ NothingCollected /\ RemovedOrFailed

(* Without a panic or an impatient way out there is nothing to park for a    *)
(* process on its way out.                                                  *)
LEMMA CollectsNothing ==
  ASSUME "panic" \notin Faults, "impatient" \notin Faults, TypeOK, NothingCollected, [Next]_vars
  PROVE  NothingCollected'
<1> USE DEF TypeOK, NothingCollected
<1>1. ASSUME NEW c \in Calls, CallStep(c) PROVE toPark' = toPark
  <2> USE DEF process
  <2>1. CASE Start(c) \/ TakeLock(c) \/ GiveUpWaiting(c) \/ Unwind(c)
    BY <2>1 DEF Start, BeginSession, BeginSignOut, Approve, TakeLock, GiveUpWaiting, Unwind
  <2>2. CASE SessionStep(c)
    BY <2>2 DEF SessionStep, Recover, FileParked, ClearParked, Load, IssuerAnswers,
       RequestFails, ReplyArrives, SaveRotated, ParkRotated, Filed, DropParks
  <2>3. CASE SignOutStep(c)
    BY <2>3 DEF SignOutStep, SignOutLoad, SignOutParked, SignOutClear, SignOutDelete
  <2>4. CASE SignInStep(c)
    BY <2>4 DEF SignInStep, SignInLoad, SignInSave, SignInParked, SignInClear, SignInRevoke,
                SignInUndo
  <2> QED BY <1>1, <2>1, <2>2, <2>3, <2>4 DEF CallStep
<1>2. ASSUME NEW p \in Procs, ProcStep(p) PROVE NothingCollected'
  BY <1>2 DEF ProcStep, Done, Leave, Collect, Panic, ParkCollected, EndSettled, EndParked,
              Kill, Ends
<1>3. ASSUME ParkedSpoils \/ OrphanLands \/ UNCHANGED vars PROVE toPark' = toPark
  BY <1>3 DEF ParkedSpoils, OrphanLands, vars, process
<1> QED BY <1>1, <1>2, <1>3 DEF Next

(* Nobody parks a session while a sign-out is about to remove the store's.   *)
LEMMA StaysRemoved ==
  ASSUME Base, SaidLittle, NothingCollected, RemovedOrFailed, [Next]_vars
  PROVE  RemovedOrFailed'
<1> USE DEF Base, Typed, TypeOK, RemovedOrFailed
<1>1. ASSUME NEW c \in Calls, CallStep(c) PROVE RemovedOrFailed'
  <2> USE DEF Goto, Finish, Release, machine, process
  <2>1. ASSUME NEW d \in Calls \ {c}, pc'[d] = "outDelete"
        PROVE  said'[d] = "failed" \/ parked' = None
    <3>1. pc[d] = "outDelete" /\ said'[d] = said[d]
      BY <1>1, <2>1, SaysItsOwn
    <3>2. pc[c] \notin Locked
      BY <2>1, <3>1 DEF OneAtATime, Locked, SigningOut
    <3>3. parked' = parked
      <4>1. CASE Start(c) \/ TakeLock(c) \/ GiveUpWaiting(c) \/ SignInUndo(c)
        BY <4>1 DEF Start, BeginSession, BeginSignOut, Approve, TakeLock, GiveUpWaiting, SignInUndo
      <4>2. CASE SessionStep(c) \/ Unwind(c)
        BY <3>2, <4>2 DEF SessionStep, Unwind, Recover, FileParked, ClearParked, Load,
           IssuerAnswers, RequestFails, ReplyArrives, SaveRotated, ParkRotated, Filed, DropParks,
           Locked, Reading, Rotations, Unanswered, Answered
      <4>3. CASE SignOutStep(c) \/ (SignInStep(c) /\ ~SignInUndo(c))
        BY <3>2, <4>3 DEF SignOutStep, SignOutLoad, SignOutParked, SignOutClear, SignOutDelete,
           SignInStep, SignInLoad, SignInSave, SignInParked, SignInClear, SignInRevoke,
           Locked, SigningOut, SigningIn
      <4> QED BY <1>1, <4>1, <4>2, <4>3 DEF CallStep
    <3> QED BY <3>1, <3>3
  <2>2. ASSUME pc'[c] = "outDelete" PROVE said'[c] = "failed" \/ parked' = None
    <3>1. SignOutClear(c)
      <4>1. CASE Start(c) \/ TakeLock(c) \/ GiveUpWaiting(c)
        BY <2>2, <4>1 DEF Start, BeginSession, BeginSignOut, Approve, Begin, TakeLock, Behind,
           Waiting, GiveUpWaiting
      <4>2. CASE SessionStep(c) \/ Unwind(c)
        BY <2>2, <4>2 DEF SessionStep, Unwind, Recover, FileParked, ClearParked, Load,
           IssuerAnswers, RequestFails, ReplyArrives, SaveRotated, ParkRotated, Filed, DropParks
      <4>3. CASE SignOutStep(c) \/ SignInStep(c)
        BY <2>2, <4>3 DEF SignOutStep, SignOutLoad, SignOutParked, SignOutDelete,
           SignInStep, SignInLoad, SignInSave, SignInParked, SignInClear, SignInRevoke, SignInUndo
      <4> QED BY <1>1, <4>1, <4>2, <4>3 DEF CallStep
    <3> QED BY <3>1 DEF SignOutClear, ParkedRemoved, ParkedCleared
  <2> QED BY <2>1, <2>2
<1>2. ASSUME NEW p \in Procs, ProcStep(p) PROVE RemovedOrFailed'
  <2>1. /\ UNCHANGED <<parked, said>>
        /\ \A c \in Calls : pc'[c] \in {pc[c], "idle"}
    BY <1>2 DEF ProcStep, Done, Leave, Collect, Panic, ParkCollected, EndSettled, EndParked,
                Kill, Ends, NothingCollected, machine
  <2> QED BY <2>1
<1>3. ASSUME ParkedSpoils PROVE RemovedOrFailed'
  BY <1>3, SessionAssumption DEF ParkedSpoils
<1>4. ASSUME OrphanLands \/ UNCHANGED vars PROVE RemovedOrFailed'
  BY <1>4 DEF OrphanLands, vars
<1> QED BY <1>1, <1>2, <1>3, <1>4 DEF Next

(* A sign-out that reports success -- revoked, not confirmed, or nothing to   *)
(* sign out of -- has left no session in the store it was asked about and no  *)
(* parked file, whatever other commands of whatever processes were doing,     *)
(* as long as no process parks on its way out, which it does under no lock.  *)
THEOREM SignOutsLeaveNothing ==
  ASSUME "panic" \notin Faults, "impatient" \notin Faults
  PROVE  Spec => SignedOutLeavesNothing
<1>1. Init => ClearedOut
  BY InitKept DEF Init, ClearedOut, SaidLittle, Signing, Waiting, SigningOut, SigningIn,
     NothingCollected, RemovedOrFailed
<1>2. ClearedOut /\ [Next]_vars => ClearedOut'
  BY StepBase, SaysLittle, CollectsNothing, StaysRemoved DEF ClearedOut, Base, Typed
<1>3. ASSUME ClearedOut, [Next]_vars, NEW c \in Calls, pc[c] = "outDelete",
             said'[c] \in {"confirmed", "notConfirmed", "nothing"}
      PROVE  store'[st[c]] = None /\ parked' = None
  <2> USE <1>3 DEF ClearedOut, Base, Typed, TypeOK
  <2>1. said[c] \in {"none", "failed"} /\ (said[c] # "failed" => parked = None)
    BY DEF SaidLittle, Signing, SigningOut, RemovedOrFailed
  <2>2. said'[c] # said[c]
    BY <2>1
  <2>3. CASE SignOutDelete(c)
    BY <2>1, <2>3 DEF SignOutDelete, Outcome
  <2>4. ASSUME NEW d \in Calls, CallStep(d) PROVE d = c /\ SignOutDelete(c)
    <3>1. d = c
      BY <2>2, <2>4, SaysItsOwn
    <3>2. ~(Start(c) \/ TakeLock(c) \/ GiveUpWaiting(c) \/ SignInStep(c))
      BY DEF Start, BeginSession, BeginSignOut, Approve, Begin, TakeLock, GiveUpWaiting, Waiting,
         SignInStep, SignInLoad, SignInSave, SignInParked, SignInClear, SignInRevoke, SignInUndo
    <3>3. ~(SessionStep(c) \/ Unwind(c))
      BY DEF SessionStep, Unwind, Recover, FileParked, ClearParked, Load, IssuerAnswers,
         RequestFails, Unanswered, ReplyArrives, SaveRotated, ParkRotated, Filed, DropParks
    <3>4. ~(SignOutLoad(c) \/ SignOutParked(c) \/ SignOutClear(c))
      BY DEF SignOutLoad, SignOutParked, SignOutClear
    <3> QED BY <2>4, <3>1, <3>2, <3>3, <3>4 DEF CallStep, SignOutStep
  <2>5. ASSUME NEW p \in Procs, ProcStep(p) PROVE said' = said
    BY <2>5 DEF ProcStep, Done, Leave, Collect, Panic, ParkCollected, EndSettled, EndParked,
                Kill, Ends
  <2>6. ASSUME ParkedSpoils \/ OrphanLands \/ UNCHANGED vars PROVE said' = said
    BY <2>6 DEF ParkedSpoils, OrphanLands, vars
  <2> QED BY <2>2, <2>3, <2>4, <2>5, <2>6 DEF Next
<1>4. ClearedOut /\ [Next]_vars =>
        [\A c \in Calls :
           pc[c] = "outDelete" /\ said'[c] \in {"confirmed", "notConfirmed", "nothing"} =>
             store'[st[c]] = None /\ parked' = None]_vars
  BY <1>3
<1> QED BY <1>1, <1>2, <1>4, PTL DEF Spec, SignedOutLeavesNothing

-----------------------------------------------------------------------------
(* A sign-in that is undone.                                                *)

(* A token of family f.                                                     *)
Of(x, f) == x \in Token /\ x.fam = f

(* Family f is in a store, parked, about to be parked or written, or read.  *)
OnMachine(f) ==
  \/ \E s \in Stores : Of(store[s], f)
  \/ parked \in Record /\ parked.cred.fam = f
  \/ \E p \in Procs : \E r \in toPark[p] : r.cred.fam = f
  \/ \E o \in orphans : o.cred.fam = f
  \/ \E d \in Calls : Of(held[d], f)

(* The sign-in of a call that has not stored it, or undoes it, is nowhere but *)
(* in that call's hand.                                                     *)
NotStored == Unstored \cup {"inUndo"}
Alone ==
  \A c \in Calls : pc[c] \in NotStored =>
    /\ ~OnMachine(fresh[c].fam)
    /\ \A d \in Calls \ {c} : ~Of(fresh[d], fresh[c].fam)

(* Nothing is of a family that was not granted.                             *)
OnlyGranted ==
  \A f \in Grant : f > grants => ~OnMachine(f) /\ \A d \in Calls : ~Of(fresh[d], f)

(* A step that approves nothing: a family comes to the machine only from a    *)
(* call that is done signing in to it, into a call's hand only from the       *)
(* machine, and nobody comes to have one unstored.                          *)
NoneNew ==
  /\ grants' = grants
  /\ \A f \in Grant :
       /\ OnMachine(f)' => \/ OnMachine(f)
                           \/ \E d \in Calls : pc'[d] \notin NotStored /\ Of(fresh[d], f)
       /\ \A d \in Calls : Of(fresh[d], f)' => Of(fresh[d], f) \/ OnMachine(f)
  /\ \A c \in Calls : pc'[c] \in NotStored => pc[c] \in NotStored /\ fresh'[c] = fresh[c]

(* Such a step keeps what is alone.                                         *)
LEMMA StaysAlone ==
  ASSUME Typed, Alone, OnlyGranted, NoneNew
  PROVE  Alone' /\ OnlyGranted'
<1>1. ASSUME NEW c \in Calls, pc'[c] \in NotStored
      PROVE  ~OnMachine(fresh[c].fam)' /\ \A d \in Calls \ {c} : ~Of(fresh[d], fresh[c].fam)'
  <2>1. pc[c] \in NotStored /\ fresh'[c] = fresh[c]
    BY <1>1 DEF NoneNew
  <2> PICK f \in Grant : f = fresh[c].fam
    BY <2>1 DEF Typed, Carries, NotStored, Unstored, NewSession, SigningIn, Token
  <2>2. ~OnMachine(f) /\ \A d \in Calls \ {c} : ~Of(fresh[d], f)
    BY <2>1 DEF Alone
  <2>3. ~OnMachine(f)'
    BY <1>1, <2>2 DEF NoneNew
  <2>4. \A d \in Calls \ {c} : ~Of(fresh[d], f)'
    BY <2>2 DEF NoneNew
  <2> QED BY <2>1, <2>3, <2>4 DEF OnMachine, Of
<1>2. OnlyGranted'
  BY DEF OnlyGranted, NoneNew
<1> QED BY <1>1, <1>2 DEF Alone

(* current_session spreads only what it has in hand or reads.               *)
LEMMA SessionStepAlone ==
  ASSUME Typed, NEW c \in Calls, SessionStep(c) \/ Unwind(c)
  PROVE  NoneNew
<1> USE SessionAssumption
    DEF Typed, TypeOK, Goto, Finish, issuer, machine, process, Token, Record
<1>1. /\ grants' = grants /\ UNCHANGED <<toPark, orphans>>
      /\ pc'[c] \notin NotStored
      /\ \A d \in Calls \ {c} : pc'[d] = pc[d] /\ held'[d] = held[d] /\ fresh'[d] = fresh[d]
  <2> USE DEF NotStored, Unstored
  <2>1. CASE Recover(c) \/ FileParked(c) \/ ClearParked(c) \/ Load(c)
    BY <2>1 DEF Recover, FileParked, ClearParked, Load
  <2>2. CASE IssuerAnswers(c) \/ RequestFails(c) \/ ReplyArrives(c) \/ SaveRotated(c)
    BY <2>2 DEF IssuerAnswers, RequestFails, ReplyArrives, SaveRotated
  <2>3. CASE ParkRotated(c) \/ Filed(c) \/ DropParks(c) \/ Unwind(c)
    BY <2>3 DEF ParkRotated, Filed, DropParks, Unwind
  <2> QED BY <2>1, <2>2, <2>3 DEF SessionStep
<1>2. store' = store \/ store' = [store EXCEPT ![st[c]] = fresh[c]]
  BY SaveWrites DEF SessionStep, Unwind, Recover, FileParked, ClearParked, Load, IssuerAnswers,
     RequestFails, ReplyArrives, SaveRotated, ParkRotated, Filed, DropParks
<1>3. parked' \in {parked, None} \/ parked'.cred = fresh[c]
  BY DEF SessionStep, Unwind, Recover, FileParked, ClearParked, ParkedCleared, ParkedStays, Load,
     IssuerAnswers, RequestFails, ReplyArrives, SaveRotated, ParkRotated, Filed, DropParks, Park
<1>4. held'[c] \in {held[c], None, store[st[c]]}
  BY DEF SessionStep, Unwind, Recover, FileParked, ClearParked, Load, IssuerAnswers,
     RequestFails, ReplyArrives, SaveRotated, ParkRotated, Filed, DropParks
<1>5. \/ fresh'[c] \in {fresh[c], None}
      \/ parked \in Record /\ fresh'[c] = parked.cred
      \/ held[c] \in Token /\ fresh'[c].fam = held[c].fam
  <2>1. CASE Recover(c)
    BY <2>1 DEF Recover
  <2>2. CASE IssuerAnswers(c)
    BY <2>2 DEF IssuerAnswers, Carries
  <2>3. CASE ~Recover(c) /\ ~IssuerAnswers(c)
    BY <2>3 DEF SessionStep, Unwind, FileParked, ClearParked, Load,
       RequestFails, ReplyArrives, SaveRotated, ParkRotated, Filed, DropParks
  <2> QED BY <2>1, <2>2, <2>3
<1>6. ASSUME NEW f \in Grant, OnMachine(f)' PROVE OnMachine(f) \/ Of(fresh[c], f)
  <2>1. CASE \E s \in Stores : Of(store'[s], f)
    BY <1>2, <2>1 DEF OnMachine, Of
  <2>2. CASE parked' \in Record /\ parked'.cred.fam = f
    BY <1>3, <2>2 DEF OnMachine, Of
  <2>3. CASE \E d \in Calls : Of(held'[d], f)
    BY <1>1, <1>4, <2>3 DEF OnMachine, Of
  <2> QED BY <1>1, <1>6, <2>1, <2>2, <2>3 DEF OnMachine, Of
<1>7. ASSUME NEW f \in Grant, Of(fresh'[c], f) PROVE Of(fresh[c], f) \/ OnMachine(f)
  BY <1>5, <1>7 DEF OnMachine, Of
<1> QED BY <1>1, <1>6, <1>7 DEF NoneNew, Of

(* So do sign_out and store_new_session, which stores its sign-in, or says it *)
(* could not.                                                               *)
LEMMA SignStepAlone ==
  ASSUME Typed, "savedTold" \notin Faults, NEW c \in Calls, SignOutStep(c) \/ SignInStep(c)
  PROVE  NoneNew
<1> USE SessionAssumption
    DEF Typed, TypeOK, Goto, Finish, issuer, machine, process, Token, Record
<1>1. /\ grants' = grants /\ UNCHANGED <<toPark, orphans>>
      /\ \A d \in Calls \ {c} : pc'[d] = pc[d] /\ held'[d] = held[d] /\ fresh'[d] = fresh[d]
      /\ held'[c] \in {held[c], None, store[st[c]]} /\ fresh'[c] \in {fresh[c], None}
  <2>1. grants' = grants
    BY RevokeKeeps DEF SignOutStep, SignOutLoad, SignOutParked, SignOutClear, SignOutDelete,
       SignInStep, SignInLoad, SignInSave, SignInParked, SignInClear, SignInRevoke, SignInUndo
  <2>2. UNCHANGED <<toPark, orphans>>
    BY DEF SignOutStep, SignOutLoad, SignOutParked, SignOutClear, SignOutDelete,
       SignInStep, SignInLoad, SignInSave, SignInParked, SignInClear, SignInRevoke, SignInUndo
  <2>3. /\ \E x : pc' = [pc EXCEPT ![c] = x]
        /\ \E x \in {held[c], None, store[st[c]]} : held' = [held EXCEPT ![c] = x]
        /\ \E x \in {fresh[c], None} : fresh' = [fresh EXCEPT ![c] = x]
    <3>1. held = [held EXCEPT ![c] = held[c]] /\ fresh = [fresh EXCEPT ![c] = fresh[c]]
      OBVIOUS
    <3>2. CASE SignOutLoad(c)
      <4>1. \/ held' = held \/ held' = [held EXCEPT ![c] = None]
            \/ held' = [held EXCEPT ![c] = store[st[c]]]
        BY <3>2 DEF SignOutLoad
      <4>2. /\ pc' = [pc EXCEPT ![c] = "outParked"] \/ pc' = [pc EXCEPT ![c] = "idle"]
            /\ fresh' = fresh \/ fresh' = [fresh EXCEPT ![c] = None]
        BY <3>2 DEF SignOutLoad
      <4> QED BY <3>1, <4>1, <4>2
    <3>3. CASE SignOutParked(c) \/ SignOutClear(c)
      <4>1. /\ held' = held /\ fresh' = fresh
            /\ pc' = [pc EXCEPT ![c] = "outClear"] \/ pc' = [pc EXCEPT ![c] = "outDelete"]
        BY <3>3 DEF SignOutParked, SignOutClear
      <4> QED BY <3>1, <4>1
    <3>4. CASE SignOutDelete(c)
      BY <3>4 DEF SignOutDelete
    <3>5. CASE SignInLoad(c) \/ SignInSave(c) \/ SignInParked(c) \/ SignInClear(c)
      BY <3>1, <3>5 DEF SignInLoad, SignInSave, SignInParked, SignInClear
    <3>6. CASE SignInRevoke(c) \/ SignInUndo(c)
      BY <3>6 DEF SignInRevoke, SignInUndo
    <3> QED BY <3>2, <3>3, <3>4, <3>5, <3>6 DEF SignOutStep, SignInStep
  <2> QED BY <2>1, <2>2, <2>3
<1>2. parked' \in {parked, None}
  BY DEF SignOutStep, SignOutLoad, SignOutParked, SignOutClear, SignOutDelete, ParkedRemoved,
     ParkedCleared, ParkedStays, SignInStep, SignInLoad, SignInSave, SignInParked, SignInClear,
     SignInRevoke, SignInUndo
<1>3. \/ store' = store \/ store' = [store EXCEPT ![st[c]] = None]
      \/ store' = [store EXCEPT ![st[c]] = fresh[c]] /\ pc'[c] \notin NotStored
  <2>1. CASE SignInSave(c)
    BY <2>1 DEF SignInSave, Saved, SaveFails, Refused, ToldFailed, NotStored, Unstored
  <2>2. CASE ~SignInSave(c)
    BY <2>2 DEF SignOutStep, SignOutLoad, SignOutParked, SignOutClear, SignOutDelete,
       SignInStep, SignInLoad, SignInParked, SignInClear, SignInRevoke, SignInUndo
  <2> QED BY <2>1, <2>2
<1>4. pc'[c] \in NotStored => pc[c] \in NotStored /\ fresh'[c] = fresh[c]
  <2> USE DEF NotStored, Unstored
  <2>1. CASE SignOutStep(c)
    <3>1. CASE SignOutLoad(c)
      <4>1. pc' = [pc EXCEPT ![c] = "outParked"] \/ pc' = [pc EXCEPT ![c] = "idle"]
        BY <3>1 DEF SignOutLoad
      <4> QED BY <4>1
    <3>2. CASE SignOutParked(c)
      BY <3>2 DEF SignOutParked
    <3>3. CASE SignOutClear(c)
      BY <3>3 DEF SignOutClear
    <3>4. CASE SignOutDelete(c)
      BY <3>4 DEF SignOutDelete
    <3> QED BY <2>1, <3>1, <3>2, <3>3, <3>4 DEF SignOutStep
  <2>2. CASE SignInStep(c)
    BY <2>2 DEF SignInStep, SignInLoad, SignInSave, SignInParked, SignInClear, SignInRevoke,
                SignInUndo
  <2> QED BY <2>1, <2>2
<1>5. ASSUME NEW f \in Grant, OnMachine(f)'
      PROVE  OnMachine(f) \/ (pc'[c] \notin NotStored /\ Of(fresh[c], f))
  <2>1. CASE \E s \in Stores : Of(store'[s], f)
    BY <1>3, <2>1 DEF OnMachine, Of
  <2>2. CASE \E d \in Calls : Of(held'[d], f)
    BY <1>1, <2>2 DEF OnMachine, Of
  <2> QED BY <1>1, <1>2, <1>5, <2>1, <2>2 DEF OnMachine, Of
<1> QED BY <1>1, <1>4, <1>5 DEF NoneNew, Of

(* So does a process that leaves, parks or ends.                            *)
LEMMA ProcStepAlone ==
  ASSUME Typed, NEW p \in Procs, ProcStep(p)
  PROVE  NoneNew
<1> USE SessionAssumption DEF Typed, TypeOK, issuer, machine, process
<1>1. CASE Done(p) \/ Leave(p)
  BY <1>1 DEF Done, Leave, NoneNew, OnMachine, Of
<1>2. CASE Collect(p) \/ Panic(p)
  <2>1. /\ UNCHANGED <<grants, store, parked, orphans, pc, held, fresh>>
        /\ toPark' = [toPark EXCEPT ![p] = Collected(p)]
    BY <1>2 DEF Collect, Panic
  <2>2. \A r \in Collected(p) :
          \E d \in Calls : pc[d] \notin NotStored /\ r.cred = fresh[d] /\ fresh[d] \in Token
    BY DEF Collected, Carries, Answered, NotStored, Unstored, SameFamily, HasAnswer
  <2> QED BY <2>1, <2>2 DEF NoneNew, OnMachine, Of
<1>3. CASE ParkCollected(p)
  <2> PICK r \in toPark[p] : Park(r) /\ toPark' = [toPark EXCEPT ![p] = @ \ {r}]
    BY <1>3 DEF ParkCollected
  <2>1. UNCHANGED <<grants, store, orphans, pc, held, fresh>> /\ parked' \in {parked, r}
    BY <1>3 DEF ParkCollected, Park
  <2> QED BY <2>1 DEF NoneNew, OnMachine, Of
<1>4. CASE Ends(p)
  <2>1. /\ UNCHANGED <<grants, store, parked>>
        /\ toPark' = [toPark EXCEPT ![p] = {}]
        /\ \A d \in Calls : IF ProcOf[d] = p
                              THEN pc'[d] = "idle" /\ fresh'[d] = None /\ held'[d] = None
                              ELSE pc'[d] = pc[d] /\ fresh'[d] = fresh[d] /\ held'[d] = held[d]
    BY <1>4 DEF Ends
  <2>2. \A o \in orphans' :
          o \in orphans \/ \E d \in Calls : ProcOf[d] = p /\ o.cred = fresh[d] /\ o.cred \in Token
    <3>1. \A d \in Calls : pc[d] \in {"save", "file", "inSave"} => fresh[d] \in Token
      BY DEF Carries, HasAnswer, Answered, SameFamily, NewSession, SigningIn
    <3> QED BY <1>4, <3>1 DEF Ends, CallsOf
  <2>3. \A d \in Calls : ProcOf[d] = p => pc'[d] \notin NotStored
    BY <2>1 DEF NotStored, Unstored
  <2> QED BY <2>1, <2>2, <2>3 DEF NoneNew, OnMachine, Of
<1> QED BY <1>1, <1>2, <1>3, <1>4 DEF ProcStep, EndSettled, EndParked, Kill

(* An approved sign-in is alone from the start.                             *)
LEMMA ApprovedAlone ==
  ASSUME Typed, Alone, OnlyGranted, NEW c \in Calls, NEW s \in Stores, Approve(c, s)
  PROVE  Alone' /\ OnlyGranted'
<1> USE SessionAssumption DEF Typed, TypeOK, machine, process, Begin, Goto
<1>1. /\ UNCHANGED <<store, parked, toPark, orphans, held>>
      /\ pc' = [pc EXCEPT ![c] = "inWait"] /\ grants' = grants + 1
      /\ fresh' = [fresh EXCEPT ![c] = [fam |-> grants + 1, gen |-> 0]]
      /\ grants + 1 \in Grant /\ grants \in Nat
  BY DEF Approve, Grant
<1>2. \A f \in Grant : OnMachine(f)' <=> OnMachine(f)
  BY <1>1 DEF OnMachine, Of
<1>3. \A d \in Calls : pc[d] \in NotStored => fresh[d].fam \in Grant
  BY DEF Carries, NotStored, Unstored, NewSession, SigningIn, Token
<1>4. Of(fresh'[c], grants + 1) /\ \A f \in Grant : Of(fresh'[c], f) => f = grants + 1
  BY <1>1 DEF Of, Token
<1>5. ~OnMachine(grants + 1) /\ \A d \in Calls : ~Of(fresh[d], grants + 1)
  BY <1>1 DEF OnlyGranted
<1>6. OnlyGranted'
  <2> SUFFICES ASSUME NEW f \in Grant, f > grants + 1
               PROVE  ~OnMachine(f)' /\ \A d \in Calls : ~Of(fresh'[d], f)
    BY <1>1 DEF OnlyGranted, Of
  <2>1. f > grants /\ f # grants + 1
    BY <1>1 DEF Grant
  <2>2. ~OnMachine(f)' /\ \A d \in Calls : ~Of(fresh[d], f)
    BY <1>2, <2>1 DEF OnlyGranted
  <2> QED BY <1>1, <1>4, <2>1, <2>2
<1>7. ASSUME NEW d \in Calls, pc'[d] \in NotStored
      PROVE  ~OnMachine(fresh[d].fam)' /\ \A e \in Calls \ {d} : ~Of(fresh[e], fresh[d].fam)'
  <2>1. CASE d = c
    <3> PICK f \in Grant : f = grants + 1
      BY <1>1
    <3>1. fresh'[d].fam = f
      BY <1>1, <2>1
    <3>2. ~OnMachine(f)'
      BY <1>2, <1>5
    <3>3. \A e \in Calls \ {d} : ~Of(fresh'[e], f)
      BY <1>1, <1>5, <2>1
    <3> QED BY <3>1, <3>2, <3>3 DEF OnMachine, Of
  <2>2. CASE d # c
    <3>1. pc[d] \in NotStored /\ fresh'[d] = fresh[d] /\ fresh[d] \in Token
      BY <1>1, <1>7, <2>2 DEF Carries, NotStored, Unstored, NewSession, SigningIn
    <3> PICK f \in Grant : f = fresh[d].fam
      BY <1>3, <3>1
    <3>2. f # grants + 1
      BY <1>5, <3>1 DEF Of
    <3>3. ~OnMachine(f)' /\ \A e \in Calls \ {d} : ~Of(fresh'[e], f)
      BY <1>1, <1>2, <1>4, <3>1, <3>2 DEF Alone
    <3> QED BY <3>1, <3>3 DEF OnMachine, Of
  <2> QED BY <2>1, <2>2
<1> QED BY <1>6, <1>7 DEF Alone

(* Every step keeps it.                                                     *)
LEMMA StepAlone ==
  ASSUME Typed, Alone, OnlyGranted, "savedTold" \notin Faults, [Next]_vars
  PROVE  Alone' /\ OnlyGranted'
<1>1. ASSUME NEW c \in Calls, SessionStep(c) \/ Unwind(c) \/ SignOutStep(c) \/ SignInStep(c)
      PROVE  NoneNew
  BY <1>1, SessionStepAlone, SignStepAlone
<1>2. ASSUME NEW c \in Calls,
             \/ \E s \in Stores : BeginSession(c, s) \/ BeginSignOut(c, s)
             \/ TakeLock(c) \/ GiveUpWaiting(c)
      PROVE  NoneNew
  <2> USE DEF Typed, TypeOK, Goto, Finish, Begin, issuer, machine, process
  <2>1. /\ UNCHANGED <<grants, store, parked, toPark, orphans>>
        /\ \A d \in Calls : held'[d] \in {held[d], None} /\ fresh'[d] \in {fresh[d], None}
    BY <1>2 DEF BeginSession, BeginSignOut, TakeLock, GiveUpWaiting
  <2>2. \A d \in Calls : pc'[d] \in NotStored => pc[d] \in NotStored /\ fresh'[d] = fresh[d]
    BY <1>2 DEF BeginSession, BeginSignOut, TakeLock, Behind, Waiting, GiveUpWaiting, NotStored,
                Unstored
  <2>3. \A f : Of(None, f) => FALSE
    BY SessionAssumption DEF Of
  <2> QED BY <2>1, <2>2, <2>3 DEF NoneNew, OnMachine, Of
<1>3. ASSUME NEW p \in Procs, ProcStep(p) PROVE NoneNew
  BY <1>3, ProcStepAlone
<1>4. ASSUME ParkedSpoils PROVE NoneNew
  BY <1>4, SessionAssumption DEF ParkedSpoils, issuer, process, NoneNew, OnMachine, Of
<1>5. ASSUME OrphanLands PROVE NoneNew
  BY <1>5 DEF OrphanLands, Saved, Typed, TypeOK, issuer, NoneNew, OnMachine, Of
<1>6. ASSUME UNCHANGED vars PROVE NoneNew
  BY <1>6 DEF vars, NoneNew, OnMachine, Of
<1> QED BY <1>1, <1>2, <1>3, <1>4, <1>5, <1>6, StaysAlone, ApprovedAlone
        DEF Next, CallStep, Start

(* A sign-in that is undone revokes a session no store was left with, whoever *)
(* else is at work and whatever store write is still on its way, as long as  *)
(* no save is reported as failed that was applied.                          *)
THEOREM UndoneIsNobodys ==
  ASSUME "savedTold" \notin Faults
  PROVE  Spec => []UndoneIsNotStored
<1>1. Init => Alone /\ OnlyGranted
  <2> SUFFICES ASSUME Init PROVE Alone /\ OnlyGranted
    OBVIOUS
  <2>1. Alone
    BY DEF Init, Alone, NotStored, Unstored
  <2>2. \A s \in Stores : store[s] \in Token => store[s].fam = 1 /\ grants = 1
    BY SessionAssumption DEF Init
  <2>3. OnlyGranted
    BY <2>2, SessionAssumption DEF Init, OnlyGranted, OnMachine, Of, Grant
  <2> QED BY <2>1, <2>3
<1>2. Typed /\ Alone /\ OnlyGranted /\ [Next]_vars => (Alone /\ OnlyGranted)'
  BY StepAlone
<1>3. Typed /\ Alone => UndoneIsNotStored
  BY DEF Typed, Carries, NewSession, Alone, NotStored, OnMachine, Of, UndoneIsNotStored
<1> QED BY AlwaysTyped, <1>1, <1>2, <1>3, PTL DEF Spec

-----------------------------------------------------------------------------
(* While a call has the lock.                                               *)

(* Without store writes that outlive their process, all that RotationProofs  *)
(* shows is kept throughout.                                                *)
LEMMA AlwaysFiled ==
  ASSUME "orphan" \notin Faults
  PROVE  Spec => [](Base /\ Kept /\ Facts /\ Filing)
<1> DEFINE Inv == Base /\ Kept /\ Facts /\ Filing
<1>1. Init => Inv
  BY InitKept, InitFacts, InitFiling
<1>2. Inv /\ [Next]_vars => Inv'
  BY StepBase, StepKept, StepFacts, StepFiling
<1> QED BY <1>1, <1>2, PTL DEF Spec

(* Another call can then only start, give up waiting, or undo its sign-in.  *)
LEMMA OthersWait ==
  ASSUME Base, NEW c \in Calls, pc[c] \in Locked, NEW d \in Calls \ {c}, CallStep(d)
  PROVE  Start(d) \/ GiveUpWaiting(d) \/ SignInUndo(d)
<1>1. lock = c /\ pc[d] \notin Locked
  BY DEF Base, OneAtATime
<1> USE <1>1 DEF Locked, Reading, Rotations, Unanswered, Answered, SigningOut, SigningIn
<1>2. ~(TakeLock(d) \/ Unwind(d))
  BY SessionAssumption DEF TakeLock, Unwind
<1>3. ~SessionStep(d)
  BY DEF SessionStep, Recover, FileParked, ClearParked, Load, IssuerAnswers,
     RequestFails, ReplyArrives, SaveRotated, ParkRotated, Filed, DropParks
<1>4. ~SignOutStep(d)
  BY DEF SignOutStep, SignOutLoad, SignOutParked, SignOutClear, SignOutDelete
<1>5. SignInStep(d) => SignInUndo(d)
  BY DEF SignInStep, SignInLoad, SignInSave, SignInParked, SignInClear, SignInRevoke
<1> QED BY <1>2, <1>3, <1>4, <1>5 DEF CallStep

(* What others do to the session of the store of a call that has the lock:   *)
(* they write no store, the issuer hands out nothing, what is revoked or      *)
(* given up stays so, and no token granted before is copied again.          *)
Undisturbed ==
  /\ store' = store /\ newest' = newest
  /\ revoked \subseteq revoked' /\ forfeit \subseteq forfeit'
  /\ \A f \in Grant : f <= grants /\ HasCopy(f)' => HasCopy(f)

(* A call that starts or gives up, or undoes its sign-in, disturbs nothing.  *)
LEMMA StartsUndisturbed ==
  ASSUME Base, NEW d \in Calls, Start(d) \/ GiveUpWaiting(d) \/ SignInUndo(d)
  PROVE  Undisturbed
<1> USE DEF Base, Typed, TypeOK, Begin, Goto, Finish, issuer, machine, process
<1>1. ASSUME NEW s \in Stores, Approve(d, s) PROVE Undisturbed
  <2>1. /\ UNCHANGED <<newest, revoked, forfeit, store, parked, toPark>>
        /\ fresh' = [fresh EXCEPT ![d] = [fam |-> grants + 1, gen |-> 0]]
    BY <1>1 DEF Approve
  <2>2. ASSUME NEW f \in Grant, f <= grants, HasCopy(f)' PROVE HasCopy(f)
    <3>1. [fam |-> grants + 1, gen |-> 0] # Newest(f)
      BY <2>2 DEF Newest, Grant
    <3> QED BY <2>1, <2>2, <3>1 DEF HasCopy, Newest, Copies
  <2> QED BY <2>1, <2>2 DEF Undisturbed
<1>2. ASSUME NEW s \in Stores, BeginSession(d, s) \/ BeginSignOut(d, s) PROVE Undisturbed
  BY <1>2 DEF BeginSession, BeginSignOut, Undisturbed, HasCopy, Newest, Copies
<1>3. ASSUME GiveUpWaiting(d) \/ SignInUndo(d) PROVE Undisturbed
  <2>1. UNCHANGED <<store, parked, forfeit, toPark>>
    BY <1>3 DEF GiveUpWaiting, SignInUndo
  <2>2. newest' = newest /\ revoked \subseteq revoked'
    BY <1>3, RevokeKeeps DEF GiveUpWaiting, SignInUndo
  <2>3. fresh' = fresh \/ fresh' = [fresh EXCEPT ![d] = None]
    BY <1>3 DEF GiveUpWaiting, SignInUndo
  <2>4. ASSUME NEW f \in Grant, HasCopy(f)' PROVE HasCopy(f)
    <3>1. Newest(f) # None
      BY SessionAssumption DEF Newest, Token
    <3> QED BY <2>1, <2>2, <2>3, <2>4, <3>1 DEF HasCopy, Newest, Copies
  <2> QED BY <2>1, <2>2, <2>4 DEF Undisturbed
<1> QED BY <1>1, <1>2, <1>3 DEF Start

(* Nor does a process that leaves, parks or ends.                           *)
LEMMA ProcUndisturbed ==
  ASSUME Base, NEW p \in Procs, ProcStep(p)
  PROVE  Undisturbed
<1> USE DEF Base, Typed, TypeOK, issuer, machine, process
<1>1. UNCHANGED <<store, newest, revoked>> /\ forfeit \subseteq forfeit'
  BY DEF ProcStep, Done, Leave, Collect, Panic, ParkCollected, Park, EndSettled, EndParked,
         Kill, Ends
<1>2. ASSUME NEW f \in Grant, HasCopy(f)' PROVE HasCopy(f)
  <2>1. Newest(f) # None /\ Newest(f)' = Newest(f)
    BY <1>1, SessionAssumption DEF Newest, Token
  <2>2. CASE Done(p) \/ Leave(p)
    BY <1>1, <1>2, <2>1, <2>2 DEF Done, Leave, HasCopy, Copies
  <2>3. CASE Collect(p) \/ Panic(p)
    <3>1. /\ fresh' = fresh /\ parked' = parked
          /\ toPark' = [toPark EXCEPT ![p] = Collected(p)]
      BY <2>3 DEF Collect, Panic
    <3>2. \A r \in Collected(p) : \E d \in Calls : r.cred = fresh[d]
      BY DEF Collected
    <3> QED BY <1>1, <1>2, <2>1, <3>1, <3>2 DEF HasCopy, Copies
  <2>4. CASE ParkCollected(p)
    <3> PICK r \in toPark[p] : Park(r) /\ toPark' = [toPark EXCEPT ![p] = @ \ {r}]
      BY <2>4 DEF ParkCollected
    <3>1. fresh' = fresh /\ parked' \in {parked, r}
      BY <2>4 DEF ParkCollected, Park
    <3> QED BY <1>1, <1>2, <2>1, <3>1 DEF HasCopy, Copies
  <2>5. CASE Ends(p)
    BY <1>1, <1>2, <2>1, <2>5 DEF Ends, HasCopy, Copies
  <2> QED BY <2>2, <2>3, <2>4, <2>5 DEF ProcStep, EndSettled, EndParked, Kill
<1> QED BY <1>1, <1>2 DEF Undisturbed

-----------------------------------------------------------------------------
(* Signed out, and confirmed.                                               *)

(* What a sign-out holds is what the store does; before that, nothing.      *)
HoldsStored ==
  \A c \in Calls :
    /\ pc[c] \in {"idle", "inWait", "inLoad", "outWait", "outLoad"} => held[c] = None
    /\ pc[c] \in {"outParked", "outClear", "outDelete"} /\ held[c] # None =>
         held[c] \in Token /\ held[c] = store[st[c]]

(* A sign-out every revocation of which was confirmed so far.               *)
AllConfirmed(c) == held[c] # None /\ FALSE \notin tried[c]

(* A session is dead, or what revived it is out of reach.                   *)
Dead(t) ==
  \/ t.fam \in revoked
  \/ Spent(t) /\ (t.fam \in forfeit \/ ~HasCopy(t.fam))

(* A confirmed revocation of the stored token kills its family unless the     *)
(* token was spent; then its successor is dealt with together with the        *)
(* parked file.                                                             *)
ConfirmedSoFar ==
  \A c \in Calls : AllConfirmed(c) =>
    /\ pc[c] = "outParked" => held[c].fam \in revoked \/ Spent(held[c])
    /\ pc[c] \in {"outClear", "outDelete"} => Dead(held[c])

Confirming == HoldsStored /\ ConfirmedSoFar

(* What others do keeps it.                                                 *)
LEMMA UndisturbedConfirming ==
  ASSUME Base, Facts, Confirming, Undisturbed, NEW c \in Calls,
         held'[c] = held[c], tried'[c] = tried[c], st'[c] = st[c], pc'[c] = pc[c]
  PROVE  /\ pc'[c] \in {"outParked", "outClear", "outDelete"} /\ held'[c] # None =>
              held'[c] \in Token /\ held'[c] = store'[st'[c]]
         /\ AllConfirmed(c)' =>
              /\ pc'[c] = "outParked" => held'[c].fam \in revoked' \/ Spent(held[c])'
              /\ pc'[c] \in {"outClear", "outDelete"} => Dead(held[c])'
<1> USE DEF Base, Typed, TypeOK, Confirming, HoldsStored, Undisturbed
<1>1. /\ pc'[c] \in {"outParked", "outClear", "outDelete"} /\ held'[c] # None =>
           held'[c] \in Token /\ held'[c] = store'[st'[c]]
  OBVIOUS
<1>2. ASSUME AllConfirmed(c)', pc'[c] \in {"outParked", "outClear", "outDelete"}
      PROVE  /\ AllConfirmed(c)
             /\ held[c] \in Token /\ held[c].fam \in Grant /\ held[c].fam <= grants
  BY <1>2 DEF AllConfirmed, Facts, TokensKnown, Known, Token
<1>3. ASSUME AllConfirmed(c)', pc'[c] = "outParked"
      PROVE  held'[c].fam \in revoked' \/ Spent(held[c])'
  BY <1>2, <1>3 DEF ConfirmedSoFar, Spent
<1>4. ASSUME AllConfirmed(c)', pc'[c] \in {"outClear", "outDelete"} PROVE Dead(held[c])'
  <2>1. Dead(held[c]) /\ Spent(held[c])' = Spent(held[c])
    BY <1>2, <1>4 DEF ConfirmedSoFar, Spent
  <2> PICK f \in Grant : f = held[c].fam /\ f <= grants
    BY <1>2, <1>4
  <2>2. held'[c].fam = f /\ (HasCopy(f)' => HasCopy(f))
    OBVIOUS
  <2> QED BY <1>4, <2>1, <2>2 DEF Dead, HasCopy, Newest
<1> QED BY <1>1, <1>3, <1>4

(* A call's own steps outside sign_out begin nothing of this.               *)
LEMMA OtherwiseHeld ==
  ASSUME Base, HoldsStored, NEW c \in Calls, CallStep(c), ~SignOutStep(c)
  PROVE  /\ pc'[c] \notin {"outParked", "outClear", "outDelete"}
         /\ pc'[c] \in {"idle", "inWait", "inLoad", "outWait", "outLoad"} => held'[c] = None
<1> USE DEF Base, Typed, TypeOK, HoldsStored, Goto, Finish, Begin
<1>1. CASE Start(c) \/ TakeLock(c) \/ GiveUpWaiting(c) \/ Unwind(c)
  BY <1>1 DEF Start, BeginSession, BeginSignOut, Approve, TakeLock, Behind, Waiting,
     GiveUpWaiting, Unwind
<1>2. CASE SessionStep(c)
  <2>1. CASE Recover(c) \/ FileParked(c) \/ ClearParked(c) \/ Load(c)
    BY <2>1 DEF Recover, FileParked, ClearParked, Load
  <2>2. CASE IssuerAnswers(c) \/ RequestFails(c) \/ ReplyArrives(c) \/ SaveRotated(c)
    BY <2>2 DEF IssuerAnswers, RequestFails, ReplyArrives, SaveRotated
  <2>3. CASE ParkRotated(c) \/ Filed(c) \/ DropParks(c)
    BY <2>3 DEF ParkRotated, Filed, DropParks
  <2> QED BY <1>2, <2>1, <2>2, <2>3 DEF SessionStep
<1>3. CASE SignInStep(c)
  BY <1>3 DEF SignInStep, SignInLoad, SignInSave, SignInParked, SignInClear, SignInRevoke,
              SignInUndo
<1> QED BY <1>1, <1>2, <1>3 DEF CallStep

(* Nor does another call touch what it holds and has heard.                 *)
LEMMA OthersHold ==
  ASSUME Base, NEW d \in Calls, CallStep(d), NEW c \in Calls \ {d}
  PROVE  held'[c] = held[c] /\ tried'[c] = tried[c]
<1> USE DEF Base, Typed, TypeOK, Goto, Finish, Begin
<1>1. CASE Start(d) \/ TakeLock(d) \/ GiveUpWaiting(d) \/ Unwind(d)
  BY <1>1 DEF Start, BeginSession, BeginSignOut, Approve, TakeLock, GiveUpWaiting, Unwind
<1>2. CASE SessionStep(d)
  <2>1. CASE Recover(d) \/ FileParked(d) \/ ClearParked(d) \/ Load(d)
    BY <2>1 DEF Recover, FileParked, ClearParked, Load
  <2>2. CASE IssuerAnswers(d) \/ RequestFails(d) \/ ReplyArrives(d) \/ SaveRotated(d)
    BY <2>2 DEF IssuerAnswers, RequestFails, ReplyArrives, SaveRotated
  <2>3. CASE ParkRotated(d) \/ Filed(d) \/ DropParks(d)
    BY <2>3 DEF ParkRotated, Filed, DropParks
  <2> QED BY <1>2, <2>1, <2>2, <2>3 DEF SessionStep
<1>3. CASE SignOutLoad(d)
  <2>1. /\ held' = held \/ (\E x : held' = [held EXCEPT ![d] = x])
        /\ tried' = tried \/ (\E x : tried' = [tried EXCEPT ![d] = x])
    <3>1. held' = held \/ held' = [held EXCEPT ![d] = None]
            \/ held' = [held EXCEPT ![d] = store[st[d]]]
      BY <1>3 DEF SignOutLoad
    <3>2. tried' = tried \/ tried' = [tried EXCEPT ![d] = {FALSE}]
            \/ \E ok \in BOOLEAN : tried' = [tried EXCEPT ![d] = {ok}]
      BY <1>3 DEF SignOutLoad
    <3> QED BY <3>1, <3>2
  <2> QED BY <2>1
<1>4. CASE SignOutParked(d)
  <2>1. /\ held' = held
        /\ tried' = tried \/ \E ok \in BOOLEAN : tried' = [tried EXCEPT ![d] = @ \cup {ok}]
    BY <1>4 DEF SignOutParked
  <2> QED BY <2>1
<1>5. CASE SignOutClear(d) \/ SignOutDelete(d)
  BY <1>5 DEF SignOutClear, SignOutDelete
<1>6. CASE SignInStep(d)
  BY <1>6 DEF SignInStep, SignInLoad, SignInSave, SignInParked, SignInClear, SignInRevoke,
              SignInUndo
<1> QED BY <1>1, <1>2, <1>3, <1>4, <1>5, <1>6 DEF CallStep, SignOutStep

(* The stored session is revoked, or it was spent before.                   *)
LEMMA LoadConfirming ==
  ASSUME Base, Confirming, NEW c \in Calls, SignOutLoad(c)
  PROVE  /\ pc'[c] \in {"idle", "outParked"} /\ (pc'[c] = "idle" => held'[c] = None)
         /\ held'[c] # None => held'[c] \in Token /\ held'[c] = store'[st'[c]]
         /\ AllConfirmed(c)' => held'[c].fam \in revoked' \/ Spent(held[c])'
<1> USE DEF Base, Typed, TypeOK, Goto, Finish, machine, issuer
<1>1. pc[c] = "outLoad" /\ held[c] = None /\ store' = store /\ st' = st
  BY DEF SignOutLoad, Confirming, HoldsStored
<1>2. CASE held' = held \/ held' = [held EXCEPT ![c] = None]
  <2>1. held'[c] = None
    BY <1>1, <1>2
  <2>2. pc'[c] \in {"idle", "outParked"}
    BY DEF SignOutLoad
  <2> QED BY <2>1, <2>2 DEF AllConfirmed
<1>3. CASE /\ store[st[c]] \in Token
           /\ \E ok \in BOOLEAN :
                /\ Revoke(store[st[c]], ok)
                /\ tried' = [tried EXCEPT ![c] = {ok}]
           /\ held' = [held EXCEPT ![c] = store[st[c]]]
           /\ Goto(c, "outParked")
  <2> PICK ok \in BOOLEAN : Revoke(store[st[c]], ok) /\ tried' = [tried EXCEPT ![c] = {ok}]
    BY <1>3
  <2>1. held'[c] = store[st[c]] /\ tried'[c] = {ok} /\ pc'[c] = "outParked"
    BY <1>3
  <2>2. ASSUME AllConfirmed(c)' PROVE held'[c].fam \in revoked' \/ Spent(held[c])'
    <3>1. ok
      BY <2>1, <2>2 DEF AllConfirmed
    <3> QED BY <2>1, <3>1 DEF Revoke, Spent
  <2> QED BY <1>1, <1>3, <2>1, <2>2
<1> QED BY <1>2, <1>3 DEF SignOutLoad

(* So is the parked one, which is the live one if the stored one was spent   *)
(* and its successor is still there.                                        *)
LEMMA ParkedConfirming ==
  ASSUME Base, Facts, Filing, Confirming, NEW c \in Calls, SignOutParked(c)
  PROVE  /\ pc'[c] = "outClear" /\ held'[c] = held[c] /\ st' = st /\ store' = store
         /\ AllConfirmed(c)' => Dead(held[c])'
<1> USE DEF Base, Typed, TypeOK
<1>1. /\ pc[c] = "outParked" /\ pc'[c] = "outClear"
      /\ UNCHANGED <<store, parked, forfeit, st, held, fresh, toPark>>
  BY DEF SignOutParked, Goto, machine, process
<1>2. newest' = newest /\ revoked \subseteq revoked'
  BY RevokeKeeps DEF SignOutParked, issuer
<1> SUFFICES ASSUME AllConfirmed(c)', held[c].fam \notin revoked' PROVE Dead(held[c])'
  BY <1>1 DEF Dead
<1>3. AllConfirmed(c) /\ \A ok \in BOOLEAN : tried' = [tried EXCEPT ![c] = @ \cup {ok}] => ok
  <2>1. held[c] # None /\ FALSE \notin tried'[c]
    BY <1>1 DEF AllConfirmed
  <2>2. tried' = tried \/ \E ok \in BOOLEAN : tried' = [tried EXCEPT ![c] = @ \cup {ok}]
    BY DEF SignOutParked
  <2>3. tried[c] \subseteq tried'[c]
    BY <2>2
  <2> QED BY <2>1, <2>3 DEF AllConfirmed
<1>4. held[c] \in Token /\ held[c] = store[st[c]] /\ held[c].fam \in Grant
  BY <1>1, <1>3 DEF AllConfirmed, Confirming, HoldsStored, Token
<1>5. Spent(held[c])
  BY <1>1, <1>2, <1>3 DEF Confirming, ConfirmedSoFar
<1> PICK f \in Grant : f = held[c].fam
  BY <1>4
<1>6. ASSUME f \notin forfeit, HasCopy(f) PROVE FALSE
  <2>1. Behindhand(st[c])
    BY <1>2, <1>4, <1>5, <1>6 DEF Behindhand
  <2>2. ~BeingFiled(st[c])
    BY <1>1, OneInHand DEF InHand, Locked, SigningOut
  <2>3. parked \in Record /\ parked.cred = Newest(f)
    BY <1>4, <1>6, <2>1, <2>2 DEF Filing, SuccessorFiled, Superseded
  <2> PICK ok \in BOOLEAN : /\ Revoke(parked.cred, ok)
                            /\ tried' = [tried EXCEPT ![c] = @ \cup {ok}]
    BY <2>3, SessionAssumption DEF SignOutParked
  <2>4. ok
    BY <1>3
  <2>5. ~Spent(parked.cred) /\ parked.cred.fam = f
    BY <2>3 DEF Spent, Newest
  <2>6. f \in revoked'
    BY <2>4, <2>5 DEF Revoke
  <2> QED BY <1>1, <2>6
<1>7. HasCopy(f)' => HasCopy(f)
  BY <1>1, <1>2 DEF HasCopy, Newest, Copies
<1>8. Spent(held[c])'
  BY <1>1, <1>2, <1>5 DEF Spent
<1> QED BY <1>1, <1>6, <1>7, <1>8 DEF Dead, HasCopy, Newest

(* Removing the parked file gives up what it held.                          *)
LEMMA ClearConfirming ==
  ASSUME Base, Facts, Confirming, NEW c \in Calls, SignOutClear(c)
  PROVE  Undisturbed /\ pc[c] = "outClear" /\ pc'[c] = "outDelete"
         /\ UNCHANGED <<held, tried, st>>
<1> USE DEF Base, Typed, TypeOK, Goto, issuer, process
<1>1. /\ pc[c] = "outClear" /\ pc'[c] = "outDelete"
      /\ UNCHANGED <<issuer, store, held, tried, st, fresh, toPark>>
  BY DEF SignOutClear
<1>2. parked' \in {parked, None} /\ forfeit \subseteq forfeit'
  BY DEF SignOutClear, ParkedRemoved, ParkedCleared, ParkedStays
<1>3. \A f \in Grant : HasCopy(f)' => HasCopy(f)
  BY <1>1, <1>2, SessionAssumption DEF HasCopy, Newest, Copies
<1> QED BY <1>1, <1>2, <1>3 DEF Undisturbed

(* Every step keeps it.                                                     *)
LEMMA StepConfirming ==
  ASSUME Base, Kept, Facts, Filing, Confirming, [Next]_vars
  PROVE  Confirming'
<1> USE DEF Base, Typed, TypeOK
<1>1. ASSUME Undisturbed,
             \A c \in Calls : \/ pc'[c] = "idle" /\ held'[c] = None
                              \/ /\ pc'[c] = pc[c] /\ st'[c] = st[c]
                                 /\ held'[c] = held[c] /\ tried'[c] = tried[c]
      PROVE  Confirming'
  <2>1. ASSUME NEW c \in Calls, pc'[c] = "idle", held'[c] = None
        PROVE  AllConfirmed(c)' => FALSE
    BY <2>1 DEF AllConfirmed
  <2>2. HoldsStored'
    BY <1>1, UndisturbedConfirming DEF HoldsStored, Confirming
  <2>3. ConfirmedSoFar'
    BY <1>1, <2>1, UndisturbedConfirming DEF ConfirmedSoFar
  <2> QED BY <2>2, <2>3 DEF Confirming
<1>2. ASSUME NEW d \in Calls, CallStep(d) PROVE Confirming'
  <2>1. ASSUME NEW c \in Calls \ {d}
        PROVE  /\ pc'[c] = pc[c] /\ st'[c] = st[c]
               /\ held'[c] = held[c] /\ tried'[c] = tried[c]
    BY <1>2, SaysItsOwn, OthersHold
  <2>2. ASSUME NEW c \in Calls \ {d}, pc'[c] \in {"outParked", "outClear", "outDelete"}
        PROVE  Undisturbed
    <3>1. pc[c] \in Locked
      BY <2>1, <2>2 DEF Locked, SigningOut
    <3> QED BY <1>2, <3>1, OthersWait, StartsUndisturbed
  <2>3. ASSUME NEW c \in Calls \ {d}
        PROVE  /\ pc'[c] \in {"idle", "inWait", "inLoad", "outWait", "outLoad"} => held'[c] = None
               /\ pc'[c] \in {"outParked", "outClear", "outDelete"} /\ held'[c] # None =>
                    held'[c] \in Token /\ held'[c] = store'[st'[c]]
               /\ AllConfirmed(c)' =>
                    /\ pc'[c] = "outParked" => held'[c].fam \in revoked' \/ Spent(held[c])'
                    /\ pc'[c] \in {"outClear", "outDelete"} => Dead(held[c])'
    <3>1. pc'[c] \in {"idle", "inWait", "inLoad", "outWait", "outLoad"} => held'[c] = None
      BY <2>1 DEF Confirming, HoldsStored
    <3>2. CASE pc'[c] \in {"outParked", "outClear", "outDelete"}
      BY <2>1, <2>2, <3>1, <3>2, UndisturbedConfirming
    <3> QED BY <3>1, <3>2
  <2>4. /\ pc'[d] \in {"idle", "inWait", "inLoad", "outWait", "outLoad"} => held'[d] = None
        /\ pc'[d] \in {"outParked", "outClear", "outDelete"} /\ held'[d] # None =>
             held'[d] \in Token /\ held'[d] = store'[st'[d]]
        /\ AllConfirmed(d)' =>
             /\ pc'[d] = "outParked" => held'[d].fam \in revoked' \/ Spent(held[d])'
             /\ pc'[d] \in {"outClear", "outDelete"} => Dead(held[d])'
    <3>1. CASE ~SignOutStep(d)
      BY <1>2, <3>1, OtherwiseHeld DEF Confirming
    <3>2. CASE SignOutLoad(d)
      BY <3>2, LoadConfirming
    <3>3. CASE SignOutParked(d)
      <4>1. pc[d] = "outParked"
        BY <3>3 DEF SignOutParked
      <4> QED BY <3>3, <4>1, ParkedConfirming DEF Confirming, HoldsStored
    <3>4. CASE SignOutClear(d)
      <4>1. /\ Undisturbed /\ pc[d] = "outClear" /\ pc'[d] = "outDelete"
            /\ UNCHANGED <<held, tried, st>>
        BY <3>4, ClearConfirming
      <4>2. held'[d] # None => held'[d] \in Token /\ held'[d] = store'[st'[d]]
        BY <4>1 DEF Confirming, HoldsStored, Undisturbed
      <4>3. ASSUME AllConfirmed(d)' PROVE Dead(held[d])'
        <5>1. AllConfirmed(d) /\ Dead(held[d])
          BY <4>1, <4>3 DEF AllConfirmed, Confirming, ConfirmedSoFar
        <5>2. held[d] \in Token /\ held[d].fam \in Grant /\ held[d].fam <= grants
          BY <4>1, <5>1 DEF AllConfirmed, Confirming, HoldsStored, Facts, TokensKnown, Known, Token
        <5> PICK f \in Grant : f = held[d].fam /\ f <= grants
          BY <5>2
        <5>3. held'[d].fam = f /\ (HasCopy(f)' => HasCopy(f))
          BY <4>1 DEF Undisturbed
        <5>4. Spent(held[d]) => Spent(held[d])'
          BY <4>1 DEF Undisturbed, Spent
        <5> QED BY <4>1, <5>1, <5>3, <5>4 DEF Dead, HasCopy, Newest, Undisturbed
      <4> QED BY <4>1, <4>2, <4>3
    <3>5. CASE SignOutDelete(d)
      BY <3>5 DEF SignOutDelete, Finish, Goto, AllConfirmed
    <3> QED BY <3>1, <3>2, <3>3, <3>4, <3>5 DEF SignOutStep
  <2>5. HoldsStored'
    BY <2>3, <2>4 DEF HoldsStored
  <2>6. ConfirmedSoFar'
    BY <2>3, <2>4 DEF ConfirmedSoFar
  <2> QED BY <2>5, <2>6 DEF Confirming
<1>3. ASSUME NEW p \in Procs, ProcStep(p) PROVE Confirming'
  <2>1. \A c \in Calls : \/ pc'[c] = "idle" /\ held'[c] = None
                         \/ /\ pc'[c] = pc[c] /\ st'[c] = st[c]
                            /\ held'[c] = held[c] /\ tried'[c] = tried[c]
    BY <1>3 DEF ProcStep, Done, Leave, Collect, Panic, ParkCollected, EndSettled, EndParked,
                Kill, Ends
  <2> QED BY <1>1, <1>3, <2>1, ProcUndisturbed
<1>4. ASSUME ParkedSpoils \/ UNCHANGED vars PROVE Confirming'
  <2>1. /\ UNCHANGED <<store, newest, revoked, fresh, toPark, pc, st, held, tried>>
        /\ forfeit \subseteq forfeit' /\ parked' \in {parked, Unreadable}
    BY <1>4 DEF ParkedSpoils, vars, issuer, process
  <2>2. \A f \in Grant : HasCopy(f)' => HasCopy(f)
    BY <2>1, SessionAssumption DEF HasCopy, Newest, Copies
  <2> QED BY <1>1, <2>1, <2>2 DEF Undisturbed
<1>5. ~OrphanLands
  BY DEF OrphanLands, Kept, NoOrphans
<1> QED BY <1>2, <1>3, <1>4, <1>5 DEF Next

(* When a sign-out says that the revocation was confirmed, the session its    *)
(* store held is dead at the issuer; if it was spent before, because a newer   *)
(* one had been handed out for it, that one was parked and is dead too, or     *)
(* was lost or given up before.  No other command, process end or panic in     *)
(* between makes it say so of a session that lives on.                      *)
THEOREM ConfirmedMeansRevoked ==
  ASSUME "orphan" \notin Faults
  PROVE  Spec => ConfirmedIsRevoked
<1> DEFINE Inv == Base /\ Kept /\ Facts /\ Filing
<1>1. Spec => []Inv
  BY AlwaysFiled
<1>2. Init => Confirming
  <2>1. Init => HoldsStored
    BY DEF Init, HoldsStored
  <2>2. Init => ConfirmedSoFar
    BY DEF Init, ConfirmedSoFar
  <2> QED BY <2>1, <2>2 DEF Confirming
<1>3. Inv /\ Confirming /\ [Next]_vars => Confirming'
  BY StepConfirming
<1>4. ASSUME Inv, Confirming, [Next]_vars, NEW c \in Calls,
             said[c] # "confirmed", said'[c] = "confirmed", held[c] # None
      PROVE  Dead(held[c])
  <2> USE <1>4 DEF Base, Typed, TypeOK
  <2>1. ASSUME NEW d \in Calls, CallStep(d) PROVE SignOutDelete(c)
    <3>1. d = c
      BY <2>1, SaysItsOwn
    <3>2. ~(Start(c) \/ TakeLock(c) \/ GiveUpWaiting(c) \/ SignInStep(c))
      BY DEF Start, BeginSession, BeginSignOut, Approve, Begin, TakeLock, GiveUpWaiting,
         SignInStep, SignInLoad, SignInSave, SignInParked, SignInClear, SignInRevoke, SignInUndo
    <3>3. ~(SessionStep(c) \/ Unwind(c))
      BY DEF SessionStep, Unwind, Recover, FileParked, ClearParked, Load, IssuerAnswers,
         RequestFails, ReplyArrives, SaveRotated, ParkRotated, Filed, DropParks
    <3>4. ~(SignOutLoad(c) \/ SignOutParked(c) \/ SignOutClear(c))
      BY DEF SignOutLoad, SignOutParked, SignOutClear
    <3> QED BY <2>1, <3>1, <3>2, <3>3, <3>4 DEF CallStep, SignOutStep
  <2>2. ASSUME NEW p \in Procs, ProcStep(p) PROVE FALSE
    BY <2>2 DEF ProcStep, Done, Leave, Collect, Panic, ParkCollected, EndSettled, EndParked,
                Kill, Ends
  <2>3. ~(ParkedSpoils \/ OrphanLands \/ UNCHANGED vars)
    BY DEF ParkedSpoils, OrphanLands, vars
  <2>4. SignOutDelete(c)
    BY <2>1, <2>2, <2>3 DEF Next
  <2>5. pc[c] = "outDelete" /\ FALSE \notin tried[c]
    BY <2>4 DEF SignOutDelete, Outcome
  <2> QED BY <2>5 DEF Confirming, ConfirmedSoFar, AllConfirmed
<1>5. Inv /\ Confirming /\ [Next]_vars =>
        [\A c \in Calls :
           said[c] # "confirmed" /\ said'[c] = "confirmed" /\ held[c] # None =>
             \/ held[c].fam \in revoked
             \/ /\ Spent(held[c])
                /\ held[c].fam \in forfeit \/ ~HasCopy(held[c].fam)]_vars
  BY <1>4 DEF Dead
<1> QED BY <1>1, <1>2, <1>3, <1>5, PTL DEF Spec, ConfirmedIsRevoked

-----------------------------------------------------------------------------
(* Never neither.                                                           *)

(* What can go wrong with a store, its lock and the parked file's removal.  *)
StoreFaults == {"load", "save", "savedTold", "delete", "clear", "lock"}

(* A store left with a spent token of a live family.                        *)
Left(s) == store[s] \in Token /\ Spent(store[s]) /\ store[s].fam \notin revoked

(* The successor is on its way to that store, or parked to supersede exactly *)
(* what it holds.                                                           *)
AllFiled == \A s \in Stores : Left(s) => BeingFiled(s) \/ Superseded(s)

(* A call that files or clears the parked session has what is parked; one    *)
(* that removes the file leaves no store in need of it; none unwinds.       *)
PastParked == {"outClear", "outDelete", "inParked", "inClear", "inRevoke"}
Steady ==
  \A c \in Calls :
    /\ pc[c] = "file" =>
         parked \in Record /\ parked.cred = fresh[c] /\ parked.replaces = store[st[c]]
    /\ pc[c] = "clear" => parked \in Record /\ parked.cred = store[st[c]]
    /\ pc[c] \in PastParked => ~Left(st[c])
    /\ pc[c] # "drop"

Settled == NothingCollected /\ \A p \in Procs : phase[p] # "parking"

InPlace == AllFiled /\ Steady

(* No process parks on its way out.                                         *)
LEMMA StepSettled ==
  ASSUME Faults \subseteq StoreFaults, TypeOK, Settled, [Next]_vars
  PROVE  Settled'
<1> USE DEF StoreFaults
<1>1. "panic" \notin Faults /\ "impatient" \notin Faults
  OBVIOUS
<1>2. NothingCollected'
  BY <1>1, CollectsNothing DEF Settled
<1>3. \A p \in Procs : phase'[p] # "parking"
  <2> USE DEF TypeOK, Settled
  <2>1. ASSUME NEW c \in Calls, CallStep(c) PROVE phase' = phase
    <3> USE DEF process
    <3>1. CASE Start(c) \/ TakeLock(c) \/ GiveUpWaiting(c) \/ Unwind(c)
      BY <3>1 DEF Start, BeginSession, BeginSignOut, Approve, TakeLock, GiveUpWaiting, Unwind
    <3>2. CASE SessionStep(c)
      BY <3>2 DEF SessionStep, Recover, FileParked, ClearParked, Load, IssuerAnswers,
         RequestFails, ReplyArrives, SaveRotated, ParkRotated, Filed, DropParks
    <3>3. CASE SignOutStep(c)
      BY <3>3 DEF SignOutStep, SignOutLoad, SignOutParked, SignOutClear, SignOutDelete
    <3>4. CASE SignInStep(c)
      BY <3>4 DEF SignInStep, SignInLoad, SignInSave, SignInParked, SignInClear, SignInRevoke,
                  SignInUndo
    <3> QED BY <2>1, <3>1, <3>2, <3>3, <3>4 DEF CallStep
  <2>2. ASSUME NEW p \in Procs, ProcStep(p) PROVE \A q \in Procs : phase'[q] # "parking"
    BY <1>1, <2>2 DEF ProcStep, Done, Leave, Collect, Panic, ParkCollected, EndSettled,
                      EndParked, Kill, Ends
  <2>3. ASSUME ParkedSpoils \/ OrphanLands \/ UNCHANGED vars PROVE phase' = phase
    BY <2>3 DEF ParkedSpoils, OrphanLands, vars, process
  <2> QED BY <2>1, <2>2, <2>3 DEF Next
<1> QED BY <1>2, <1>3 DEF Settled

(* A call that does not come to a place Steady speaks of, or stays at one.  *)
StaysSteady(d) ==
  \/ pc'[d] \notin {"file", "clear", "drop"} \cup PastParked
  \/ pc'[d] = pc[d] /\ st'[d] = st[d] /\ fresh'[d] = fresh[d]
  \/ pc[d] \in PastParked /\ pc'[d] \in PastParked /\ st'[d] = st[d]

(* A step that writes neither a store nor the parked file, by which the       *)
(* issuer hands out nothing and nothing leaves a call's hand.               *)
LEMMA InPlaceLeftAlone ==
  ASSUME TypeOK, InPlace, UNCHANGED <<store, parked, newest>>, revoked \subseteq revoked',
         \A d \in Calls : pc[d] \in InHand => pc'[d] \in InHand /\ st'[d] = st[d],
         \A d \in Calls : StaysSteady(d)
  PROVE  InPlace'
<1>1. \A s \in Stores : Left(s)' => Left(s)
  BY DEF Left, Spent
<1>2. \A s \in Stores : BeingFiled(s) => BeingFiled(s)'
  BY DEF BeingFiled
<1>3. \A s \in Stores : Superseded(s) => Superseded(s)'
  BY DEF Superseded, Newest
<1>4. AllFiled'
  BY <1>1, <1>2, <1>3 DEF InPlace, AllFiled
<1>5. Steady'
  BY <1>1 DEF InPlace, Steady, StaysSteady, PastParked, TypeOK, Left
<1> QED BY <1>4, <1>5 DEF InPlace

(* A step that leaves no store with a spent token of a live family.         *)
LEMMA NoneLeft ==
  ASSUME TypeOK, \A s \in Stores : ~Left(s)', st' \in [Calls -> Stores],
         \A d \in Calls :
           \/ pc'[d] \notin {"file", "clear", "drop"}
           \/ pc'[d] = "clear" /\ parked' \in Record /\ parked'.cred = store'[st'[d]]
  PROVE  InPlace'
<1>1. AllFiled'
  BY DEF AllFiled
<1>2. Steady'
  BY DEF Steady, PastParked, Left
<1> QED BY <1>1, <1>2 DEF InPlace

(* There is one credential store.                                           *)
OneStore == \A r, s \in Stores : r = s

(* While a call that has nothing in hand has the lock, a store that is left  *)
(* behind is superseded by what is parked.                                  *)
LEMMA LeftIsSuperseded ==
  ASSUME Base, InPlace, NEW c \in Calls, pc[c] \in Locked \ InHand, NEW s \in Stores, Left(s)
  PROVE  Superseded(s)
BY OneInHand DEF Base, InPlace, AllFiled

(* The token a store is left with once its successor is written there is the *)
(* newest of its family.                                                    *)
LEMMA NewestNotLeft ==
  ASSUME TypeOK, NEW t, t \in Token, t.gen = newest[t.fam], OneStore, NEW r \in Stores,
         store' = [store EXCEPT ![r] = t], newest' = newest
  PROVE  \A s \in Stores : ~Left(s)'
<1> SUFFICES ASSUME NEW s \in Stores, Left(s)' PROVE FALSE
  OBVIOUS
<1>1. store'[s] = t
  BY DEF OneStore, TypeOK
<1> QED BY <1>1 DEF Left, Spent, Token

(* Reading: what is parked is filed or cleared, and then nothing is left.   *)
LEMMA ReadingInPlace ==
  ASSUME Base, Kept, Facts, InPlace, OneStore, NEW c \in Calls,
         Recover(c) \/ FileParked(c) \/ ClearParked(c) \/ Load(c)
  PROVE  InPlace'
<1> USE DEF Base, Typed, TypeOK, issuer, machine, process, Goto, Finish
<1>1. CASE Load(c)
  <2>1. UNCHANGED <<store, parked, newest, revoked>>
    BY <1>1 DEF Load
  <2>2. /\ \A d \in Calls : pc[d] \in InHand => pc'[d] \in InHand /\ st'[d] = st[d]
        /\ \A d \in Calls : StaysSteady(d)
    BY <1>1 DEF Load, InHand, StaysSteady, PastParked
  <2> QED BY <2>1, <2>2, InPlaceLeftAlone
<1>2. CASE Recover(c)
  <2>1. UNCHANGED <<store, parked, newest, revoked, st>> /\ pc[c] = "recover"
    BY <1>2 DEF Recover
  <2>2. \A d \in Calls \ {c} : pc'[d] = pc[d] /\ fresh'[d] = fresh[d]
    BY <1>2 DEF Recover
  <2>3. \A s \in Stores : /\ Left(s)' => Left(s)
                          /\ BeingFiled(s) => BeingFiled(s)'
                          /\ Superseded(s) => Superseded(s)'
    BY <2>1, <2>2 DEF Left, Spent, BeingFiled, InHand, Superseded, Newest
  <2>4. AllFiled'
    BY <2>3 DEF InPlace, AllFiled
  <2>5. /\ pc'[c] \in {"idle", "load", "file", "clear"}
        /\ pc'[c] = "file" =>
             parked \in Record /\ parked.cred = fresh'[c] /\ parked.replaces = store[st[c]]
        /\ pc'[c] = "clear" => parked \in Record /\ parked.cred = store[st[c]]
    BY <1>2 DEF Recover, Supersedes, IsHeldIn
  <2>6. Steady'
    BY <2>1, <2>2, <2>3, <2>5 DEF InPlace, Steady, PastParked, Left
  <2> QED BY <2>4, <2>6 DEF InPlace
<1>3. CASE FileParked(c)
  <2>1. /\ UNCHANGED <<newest, revoked, parked, st>> /\ pc[c] = "file"
        /\ \A d \in Calls \ {c} : pc'[d] = pc[d] /\ fresh'[d] = fresh[d]
        /\ \/ pc'[c] = "idle"
           \/ pc'[c] = "clear" /\ store' = [store EXCEPT ![st[c]] = fresh[c]]
    BY <1>3 DEF FileParked, Saved
  <2>2. store' = store \/ store' = [store EXCEPT ![st[c]] = fresh[c]]
    BY <1>3, SaveWrites DEF FileParked
  <2>3. /\ parked \in Record /\ parked.cred = fresh[c] /\ parked.replaces = store[st[c]]
        /\ fresh[c] \in Token /\ store[st[c]] \in Token
        /\ Successor(fresh[c], store[st[c]]) /\ Known(fresh[c])
    BY <2>1 DEF InPlace, Steady, Facts, RecordsSucceed, TokensKnown, Successor
  <2>4. \A d \in Calls \ {c} : pc[d] \notin Locked
    BY <2>1 DEF OneAtATime, Locked, Reading
  <2>5. CASE pc'[c] = "idle" /\ store' = store
    BY <2>1, <2>5, InPlaceLeftAlone DEF InHand, StaysSteady, PastParked
  <2>6. CASE store' = [store EXCEPT ![st[c]] = fresh[c]]
    <3>1. CASE Left(st[c])
      <4>1. Superseded(st[c])
        BY <2>1, <3>1, LeftIsSuperseded DEF InHand, Locked, Reading
      <4>2. fresh[c].gen = newest[fresh[c].fam]
        BY <2>3, <4>1 DEF Superseded, Newest
      <4>3. \A s \in Stores : ~Left(s)'
        BY <2>1, <2>3, <2>6, <4>2, NewestNotLeft
      <4> QED BY <2>1, <2>3, <2>4, <2>6, <4>3, NoneLeft DEF Locked, Reading
    <3>2. CASE ~Left(st[c])
      <4>1. Spent(store[st[c]])
        <5>1. fresh[c].gen \in Nat /\ store[st[c]].gen \in Nat /\ newest[fresh[c].fam] \in Nat
          BY <2>3 DEF Token
        <5> QED BY <2>3, <5>1 DEF Successor, Known, Spent
      <4>2. fresh[c].fam \in revoked
        BY <2>3, <3>2, <4>1 DEF Left, Successor
      <4>3. \A s \in Stores : ~Left(s)'
        <5> SUFFICES ASSUME NEW s \in Stores, Left(s)' PROVE FALSE
          OBVIOUS
        <5>1. store'[s] = fresh[c]
          BY <2>6 DEF OneStore
        <5> QED BY <2>1, <4>2, <5>1 DEF Left
      <4> QED BY <2>1, <2>3, <2>4, <2>6, <4>3, NoneLeft DEF Locked, Reading
    <3> QED BY <3>1, <3>2
  <2> QED BY <2>1, <2>2, <2>5, <2>6
<1>4. CASE ClearParked(c)
  <2>1. /\ UNCHANGED <<newest, revoked, store, st>> /\ pc[c] = "clear"
        /\ pc' = [pc EXCEPT ![c] = "load"]
    BY <1>4 DEF ClearParked
  <2>2. parked \in Record /\ parked.cred = store[st[c]]
    BY <2>1 DEF InPlace, Steady
  <2>3. \A s \in Stores : ~Left(s)
    <3> SUFFICES ASSUME NEW s \in Stores, Left(s) PROVE FALSE
      OBVIOUS
    <3>1. Superseded(s)
      BY <2>1, LeftIsSuperseded DEF InHand, Locked, Reading
    <3>2. parked.replaces = parked.cred
      BY <2>2, <3>1 DEF Superseded, OneStore
    <3>3. Successor(parked.cred, parked.replaces)
      BY <2>2 DEF Facts, RecordsSucceed
    <3> QED BY <3>2, <3>3 DEF Successor, Token
  <2>4. \A d \in Calls \ {c} : pc[d] \notin Locked
    BY <2>1 DEF OneAtATime, Locked, Reading
  <2>5. \A d \in Calls : pc'[d] \notin {"file", "clear", "drop"}
    BY <2>1, <2>4 DEF Locked, Reading
  <2>6. \A s \in Stores : ~Left(s)'
    BY <2>1, <2>3 DEF Left, Spent
  <2> QED BY <2>1, <2>5, <2>6, NoneLeft
<1> QED BY <1>1, <1>2, <1>3, <1>4

(* Rotating: the new session is in hand, saved or parked.                   *)
LEMMA RotationInPlace ==
  ASSUME Base, Kept, Facts, InPlace, OneStore, Faults \subseteq StoreFaults, NEW c \in Calls,
         \/ IssuerAnswers(c) \/ RequestFails(c) \/ ReplyArrives(c) \/ SaveRotated(c)
         \/ ParkRotated(c) \/ Filed(c) \/ DropParks(c) \/ Unwind(c)
  PROVE  InPlace'
<1> USE DEF Base, Typed, TypeOK, issuer, machine, process, Goto, Finish
<1>1. ~RequestFails(c) /\ ~Unwind(c) /\ ~DropParks(c)
  BY DEF RequestFails, Unwind, DropParks, StoreFaults, InPlace, Steady
<1>2. CASE ReplyArrives(c) \/ Filed(c)
  <2>1. UNCHANGED <<store, parked, newest, revoked>>
    BY <1>2 DEF ReplyArrives, Filed
  <2>2. /\ \A d \in Calls : pc[d] \in InHand => pc'[d] \in InHand /\ st'[d] = st[d]
        /\ \A d \in Calls : StaysSteady(d)
    BY <1>2 DEF ReplyArrives, Filed, InHand, StaysSteady, PastParked
  <2> QED BY <2>1, <2>2, InPlaceLeftAlone
<1>3. CASE IssuerAnswers(c)
  <2>1. /\ pc[c] = "ask" /\ UNCHANGED <<store, parked, st>>
        /\ \A d \in Calls \ {c} : pc'[d] = pc[d]
    BY <1>3 DEF IssuerAnswers
  <2>2. \A d \in Calls \ {c} : pc[d] \notin Locked
    BY <2>1 DEF OneAtATime, Locked, Rotations, Unanswered
  <2>3. CASE pc'[c] = "reply"
    <3>1. \A s \in Stores : BeingFiled(s)'
      BY <2>1, <2>3 DEF BeingFiled, InHand, OneStore
    <3>2. \A d \in Calls : pc'[d] \notin {"file", "clear", "drop"} \cup PastParked
      BY <2>1, <2>2, <2>3 DEF Locked, Reading, SigningOut, SigningIn, PastParked
    <3> QED BY <3>1, <3>2 DEF InPlace, AllFiled, Steady
  <2>4. CASE pc'[c] # "reply"
    <3>1. revoked \subseteq revoked' /\ newest' = newest /\ pc' = [pc EXCEPT ![c] = "idle"]
      BY <1>3, <2>4 DEF IssuerAnswers
    <3>2. \A d \in Calls : StaysSteady(d)
      BY <2>1, <3>1, <1>3, <2>2 DEF StaysSteady, PastParked, Locked, Reading, SigningOut, SigningIn
    <3> QED BY <2>1, <3>1, <3>2, InPlaceLeftAlone DEF InHand
  <2> QED BY <2>3, <2>4
<1>4. CASE SaveRotated(c)
  <2>1. /\ pc[c] = "save" /\ UNCHANGED <<newest, revoked, parked, st, fresh>>
        /\ \A d \in Calls \ {c} : pc'[d] = pc[d]
        /\ \/ pc'[c] = "park"
           \/ pc'[c] = "filed" /\ store' = [store EXCEPT ![st[c]] = fresh[c]]
    BY <1>4 DEF SaveRotated, Saved
  <2>2. store' = store \/ store' = [store EXCEPT ![st[c]] = fresh[c]]
    BY <1>4, SaveWrites DEF SaveRotated
  <2>3. \A d \in Calls : StaysSteady(d)
    BY <2>1 DEF StaysSteady, PastParked
  <2>4. CASE store' = store /\ pc'[c] = "park"
    BY <2>1, <2>3, <2>4, InPlaceLeftAlone DEF InHand
  <2>5. CASE store' = [store EXCEPT ![st[c]] = fresh[c]]
    <3>1. fresh[c] \in Token /\ fresh[c].gen = newest[fresh[c].fam]
      BY <2>1 DEF Facts, CarriesNewest, HasAnswer, Answered, Successor, Newest
    <3>2. \A s \in Stores : ~Left(s)'
      BY <2>1, <2>5, <3>1, NewestNotLeft
    <3>3. \A d \in Calls : pc'[d] \notin {"file", "clear", "drop"}
      BY <2>1 DEF OneAtATime, Locked, Reading, Rotations, Answered
    <3> QED BY <2>1, <3>2, <3>3, NoneLeft
  <2> QED BY <2>1, <2>2, <2>4, <2>5
<1>5. CASE ParkRotated(c)
  <2> DEFINE r == [cred |-> fresh[c], replaces |-> held[c]]
  <2>1. /\ pc[c] = "park" /\ parked' = r /\ UNCHANGED <<newest, revoked, store, st>>
        /\ pc' = [pc EXCEPT ![c] = "filed"]
    BY <1>5 DEF ParkRotated, Park, StoreFaults
  <2>2. /\ Successor(fresh[c], held[c]) /\ fresh[c] = Newest(fresh[c].fam)
        /\ store[st[c]] \in {held[c], fresh[c]} /\ r \in Record
    BY <2>1 DEF Facts, CarriesNewest, HasAnswer, Answered, Successor, Record
  <2>3. ASSUME NEW s \in Stores, Left(s)' PROVE Superseded(s)'
    <3>1. s = st[c] /\ Spent(store[s]) /\ store[s] \in Token
      BY <2>1, <2>3 DEF OneStore, Left, Spent
    <3>2. store[s] # fresh[c]
      BY <2>2, <3>1 DEF Spent, Newest, Token
    <3>3. store[s] = held[c]
      BY <2>2, <3>1, <3>2
    <3> QED BY <2>1, <2>2, <3>3 DEF Superseded, Newest, Successor
  <2>4. \A d \in Calls : pc'[d] \notin {"file", "clear", "drop"} \cup PastParked
    <3>1. \A d \in Calls \ {c} : pc[d] \notin Locked
      BY <2>1 DEF OneAtATime, Locked, Rotations, Answered
    <3> QED BY <2>1, <3>1 DEF Locked, Reading, SigningOut, SigningIn, PastParked
  <2> QED BY <2>3, <2>4 DEF InPlace, AllFiled, Steady
<1> QED BY <1>1, <1>2, <1>3, <1>4, <1>5

(* A call that removes the parked file leaves no store behind.              *)
LEMMA RemovedInPlace ==
  ASSUME Base, InPlace, OneStore, NEW c \in Calls, pc[c] \in PastParked,
         UNCHANGED <<store, newest, revoked, st>>,
         pc' \in {[pc EXCEPT ![c] = "outDelete"], [pc EXCEPT ![c] = "inRevoke"]}
  PROVE  InPlace'
<1> USE DEF Base, Typed, TypeOK
<1>1. \A s \in Stores : ~Left(s)'
  BY DEF InPlace, Steady, OneStore, Left, Spent
<1>2. \A d \in Calls \ {c} : pc[d] \notin Locked
  BY DEF OneAtATime, Locked, PastParked, SigningOut, SigningIn
<1>3. \A d \in Calls : pc'[d] \notin {"file", "clear", "drop"}
  BY <1>2 DEF Locked, Reading
<1> QED BY <1>1, <1>3, NoneLeft

(* Signing out: the parked session goes once it is revoked, or superseded    *)
(* nothing that lives.                                                      *)
LEMMA SignOutInPlace ==
  ASSUME Base, InPlace, OneStore, Faults \subseteq StoreFaults, NEW c \in Calls, SignOutStep(c)
  PROVE  InPlace'
<1> USE DEF Base, Typed, TypeOK, issuer, machine, process, Goto, Finish
<1>1. CASE SignOutLoad(c)
  <2>1. UNCHANGED <<newest, store, parked, st>> /\ revoked \subseteq revoked'
    BY <1>1, RevokeKeeps DEF SignOutLoad
  <2>2. /\ pc[c] = "outLoad"
        /\ pc' = [pc EXCEPT ![c] = "outParked"] \/ pc' = [pc EXCEPT ![c] = "idle"]
        /\ fresh' = fresh \/ fresh' = [fresh EXCEPT ![c] = None]
    BY <1>1 DEF SignOutLoad
  <2> QED BY <2>1, <2>2, InPlaceLeftAlone DEF InHand, StaysSteady, PastParked
<1>2. CASE SignOutParked(c)
  <2>1. UNCHANGED <<newest, store, parked, st, fresh>> /\ revoked \subseteq revoked'
    BY <1>2, RevokeKeeps DEF SignOutParked
  <2>2. pc[c] = "outParked" /\ pc' = [pc EXCEPT ![c] = "outClear"]
    BY <1>2 DEF SignOutParked
  <2>3. ASSUME NEW s \in Stores, Left(s)' PROVE FALSE
    <3>1. Left(s)
      BY <2>1, <2>3 DEF Left, Spent
    <3>2. Superseded(s)
      BY <2>2, <3>1, LeftIsSuperseded DEF InHand, Locked, SigningOut
    <3>3. parked \in Record /\ parked.cred = Newest(store[s].fam) /\ store'[s] = store[s]
      BY <2>1, <3>2 DEF Superseded
    <3> PICK ok \in BOOLEAN : Revoke(parked.cred, ok)
      BY <1>2, <3>3, SessionAssumption DEF SignOutParked
    <3>4. ok
      BY DEF Revoke, StoreFaults
    <3>5. ~Spent(parked.cred) /\ parked.cred.fam = store[s].fam
      <4>1. newest[store[s].fam] \in Nat
        BY <3>1 DEF Left, Token
      <4> QED BY <3>3, <4>1 DEF Spent, Newest
    <3>6. store[s].fam \in revoked'
      BY <3>4, <3>5 DEF Revoke
    <3> QED BY <2>3, <3>3, <3>6 DEF Left
  <2>4. \A d \in Calls : pc'[d] \notin {"file", "clear", "drop"}
    BY <2>2 DEF OneAtATime, Locked, Reading, SigningOut
  <2> QED BY <2>1, <2>3, <2>4, NoneLeft
<1>3. CASE SignOutClear(c)
  <2>1. /\ UNCHANGED <<newest, revoked, store, st>> /\ pc[c] = "outClear"
        /\ pc' = [pc EXCEPT ![c] = "outDelete"]
    BY <1>3 DEF SignOutClear
  <2> QED BY <2>1, RemovedInPlace DEF PastParked
<1>4. CASE SignOutDelete(c)
  <2>1. /\ UNCHANGED <<newest, revoked, st>> /\ pc[c] = "outDelete"
        /\ pc' = [pc EXCEPT ![c] = "idle"]
        /\ store' = store \/ store' = [store EXCEPT ![st[c]] = None]
    BY <1>4 DEF SignOutDelete
  <2>2. \A s \in Stores : ~Left(s)
    BY <2>1 DEF InPlace, Steady, PastParked, OneStore
  <2>3. \A s \in Stores : ~Left(s)'
    BY <2>1, <2>2, SessionAssumption DEF Left, Spent
  <2>4. \A d \in Calls : pc'[d] \notin {"file", "clear", "drop"}
    BY <2>1 DEF OneAtATime, Locked, Reading, SigningOut
  <2> QED BY <2>1, <2>3, <2>4, NoneLeft
<1> QED BY <1>1, <1>2, <1>3, <1>4 DEF SignOutStep

(* Signing in: the parked session goes once the store has the new one.      *)
LEMMA SignInInPlace ==
  ASSUME Base, Facts, InPlace, OneStore, NEW c \in Calls, SignInStep(c)
  PROVE  InPlace'
<1> USE DEF Base, Typed, TypeOK, issuer, machine, process, Goto, Finish
<1>1. CASE SignInLoad(c) \/ SignInParked(c) \/ SignInRevoke(c) \/ SignInUndo(c)
  <2>1. UNCHANGED <<newest, store, parked>> /\ revoked \subseteq revoked'
    BY <1>1, RevokeKeeps DEF SignInLoad, SignInParked, SignInRevoke, SignInUndo
  <2>2. /\ pc[c] \notin InHand
        /\ \/ pc'[c] \notin {"file", "clear", "drop"} \cup PastParked
           \/ pc[c] \in PastParked /\ pc'[c] \in PastParked /\ st' = st
        /\ \A d \in Calls \ {c} : pc'[d] = pc[d] /\ fresh'[d] = fresh[d] /\ st'[d] = st[d]
    BY <1>1 DEF SignInLoad, SignInParked, SignInRevoke, SignInUndo, InHand, PastParked
  <2>3. \A d \in Calls : StaysSteady(d)
    BY <2>2 DEF StaysSteady
  <2> QED BY <2>1, <2>2, <2>3, InPlaceLeftAlone
<1>2. CASE SignInSave(c)
  <2>1. /\ pc[c] = "inSave" /\ UNCHANGED <<newest, revoked, parked, st, fresh>>
        /\ \/ pc' = [pc EXCEPT ![c] = "inUndo"]
           \/ /\ pc' = [pc EXCEPT ![c] = "inParked"]
              /\ store' = [store EXCEPT ![st[c]] = fresh[c]]
    BY <1>2 DEF SignInSave, Saved
  <2>2. store' = store \/ store' = [store EXCEPT ![st[c]] = fresh[c]]
    BY <1>2, SaveWrites DEF SignInSave
  <2>3. CASE store' = store /\ pc' = [pc EXCEPT ![c] = "inUndo"]
    BY <2>1, <2>3, InPlaceLeftAlone DEF InHand, StaysSteady, PastParked
  <2>4. CASE store' = [store EXCEPT ![st[c]] = fresh[c]]
    <3>1. fresh[c] \in Token /\ fresh[c].gen = newest[fresh[c].fam]
      BY <2>1 DEF Carries, Facts, CarriesNewest, NewSession, SigningIn, Unstored
    <3>2. \A s \in Stores : ~Left(s)'
      BY <2>1, <2>4, <3>1, NewestNotLeft
    <3>3. \A d \in Calls : pc'[d] \notin {"file", "clear", "drop"}
      BY <2>1 DEF OneAtATime, Locked, Reading, SigningIn
    <3> QED BY <2>1, <3>2, <3>3, NoneLeft
  <2> QED BY <2>1, <2>2, <2>3, <2>4
<1>3. CASE SignInClear(c)
  <2>1. /\ UNCHANGED <<newest, revoked, store, st>> /\ pc[c] = "inClear"
        /\ pc' = [pc EXCEPT ![c] = "inRevoke"]
    BY <1>3 DEF SignInClear
  <2> QED BY <2>1, RemovedInPlace DEF PastParked
<1> QED BY <1>1, <1>2, <1>3 DEF SignInStep

(* Starting, waiting, and a process on its way out.                         *)
LEMMA OtherInPlace ==
  ASSUME Base, Settled, InPlace, Faults \subseteq StoreFaults,
         \/ \E c \in Calls : Start(c) \/ TakeLock(c) \/ GiveUpWaiting(c)
         \/ \E p \in Procs : ProcStep(p)
  PROVE  InPlace'
<1> USE DEF Base, Typed, TypeOK, issuer, machine, process, Goto, Finish
<1>1. ASSUME NEW c \in Calls, Start(c) \/ TakeLock(c) \/ GiveUpWaiting(c) PROVE InPlace'
  <2>1. UNCHANGED <<newest, revoked, store, parked>>
    BY <1>1 DEF Start, BeginSession, BeginSignOut, Approve, TakeLock, GiveUpWaiting
  <2>2. /\ pc[c] \notin InHand
        /\ pc'[c] \notin {"file", "clear", "drop"} \cup PastParked
        /\ \A d \in Calls \ {c} : pc'[d] = pc[d] /\ fresh'[d] = fresh[d] /\ st'[d] = st[d]
    BY <1>1 DEF Start, BeginSession, BeginSignOut, Approve, Begin, TakeLock, Behind, Waiting,
                GiveUpWaiting, InHand, PastParked
  <2>3. \A d \in Calls : StaysSteady(d)
    BY <2>2 DEF StaysSteady
  <2> QED BY <2>1, <2>2, <2>3, InPlaceLeftAlone
<1>2. ASSUME NEW p \in Procs, ProcStep(p) PROVE InPlace'
  <2>1. Done(p) \/ Leave(p) \/ (~Rotating(p) /\ Ends(p))
    BY <1>2 DEF ProcStep, Collect, Panic, ParkCollected, EndSettled, EndParked, Kill, Settled,
                NothingCollected, StoreFaults
  <2>2. UNCHANGED <<newest, revoked, store, parked, st>>
    BY <2>1 DEF Done, Leave, Ends
  <2>3. \A d \in Calls : \/ pc'[d] = pc[d] /\ fresh'[d] = fresh[d]
                         \/ pc'[d] = "idle" /\ pc[d] \notin Rotations
    BY <2>1 DEF Done, Leave, Ends, Rotating, CallsOf
  <2>4. \A d \in Calls : pc[d] # "drop"
    BY DEF InPlace, Steady
  <2>5. /\ \A d \in Calls : pc[d] \in InHand => pc'[d] \in InHand /\ st'[d] = st[d]
        /\ \A d \in Calls : StaysSteady(d)
    BY <2>2, <2>3, <2>4 DEF InHand, Rotations, Unanswered, Answered, StaysSteady, PastParked
  <2> QED BY <2>2, <2>5, InPlaceLeftAlone
<1> QED BY <1>1, <1>2

(* Every step keeps it.                                                     *)
LEMMA StepInPlace ==
  ASSUME Base, Kept, Facts, Settled, InPlace, OneStore, Faults \subseteq StoreFaults, [Next]_vars
  PROVE  InPlace'
<1>1. ASSUME NEW c \in Calls, CallStep(c) PROVE InPlace'
  BY <1>1, OtherInPlace, ReadingInPlace, RotationInPlace, SignOutInPlace, SignInInPlace
     DEF CallStep, SessionStep
<1>2. ASSUME NEW p \in Procs, ProcStep(p) PROVE InPlace'
  BY <1>2, OtherInPlace
<1>3. ASSUME UNCHANGED vars PROVE InPlace'
  BY <1>3, InPlaceLeftAlone DEF vars, StaysSteady, Base, Typed
<1>4. ~ParkedSpoils /\ ~OrphanLands
  BY DEF ParkedSpoils, StoreFaults, OrphanLands, Kept, NoOrphans
<1> QED BY <1>1, <1>2, <1>3, <1>4 DEF Next

(* "A failure leaves either the old session or the new one, never neither",   *)
(* for one credential store: whatever of its reads, writes and removals        *)
(* fails, whether that is told or not, whatever the lock and the removal of    *)
(* the parked file do, and however processes are asked to leave, a store left   *)
(* with a spent token of a live family has its successor on the machine.  It    *)
(* asks for the rest to work: the answer arrives and is parked and read back,   *)
(* and no process is cut short while a rotation is under way.               *)
THEOREM NeverWithoutEither ==
  ASSUME Faults \subseteq {"load", "save", "savedTold", "delete", "clear", "lock"},
         \A r, s \in Stores : r = s
  PROVE  Spec => []NeverNeither
<1> DEFINE Inv == Base /\ Kept /\ Facts /\ Filing
<1>1. Faults \subseteq StoreFaults /\ OneStore /\ "orphan" \notin Faults
  BY DEF StoreFaults, OneStore
<1>2. Spec => []Inv
  BY <1>1, AlwaysFiled
<1>3. Init => Settled /\ InPlace
  <2> SUFFICES ASSUME Init PROVE Settled /\ InPlace
    OBVIOUS
  <2>1. \A s \in Stores : ~Left(s)
    BY SessionAssumption DEF Init, Left, Spent, Token, Grant
  <2> QED BY <2>1 DEF Init, Settled, NothingCollected, InPlace, AllFiled, Steady, PastParked
<1>4. Inv /\ Settled /\ InPlace /\ [Next]_vars => (Settled /\ InPlace)'
  BY <1>1, StepSettled, StepInPlace DEF Base, Typed
<1>5. Inv /\ InPlace => NeverNeither
  <2> SUFFICES ASSUME Inv, InPlace, NEW s \in Stores, Left(s) PROVE HasCopy(store[s].fam)
    BY DEF NeverNeither, Left
  <2>1. CASE Superseded(s)
    BY <2>1 DEF Superseded, HasCopy, Copies
  <2>2. CASE BeingFiled(s)
    <3> PICK c \in Calls : pc[c] \in InHand /\ st[c] = s
      BY <2>2 DEF BeingFiled
    <3>1. /\ Successor(fresh[c], held[c]) /\ fresh[c] = Newest(fresh[c].fam)
          /\ store[s] \in {held[c], fresh[c]}
      BY DEF Facts, CarriesNewest, HasAnswer, Answered, InHand, Kept, StoreAsRead
    <3>2. store[s].fam = fresh[c].fam
      BY <3>1 DEF Successor
    <3> QED BY <3>1, <3>2 DEF HasCopy, Copies
  <2> QED BY <2>1, <2>2 DEF InPlace, AllFiled
<1> QED BY <1>2, <1>3, <1>4, <1>5, PTL DEF Spec
=============================================================================
