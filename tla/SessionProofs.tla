--------------------------- MODULE SessionProofs ---------------------------
(***************************************************************************)
(* What holds of module Session for every number of processes, calls,      *)
(* stores, sign-ins and rotations.                                         *)
(***************************************************************************)
EXTENDS Session, TLAPS

-----------------------------------------------------------------------------
(* The parts of the inductive invariant.                                    *)

SameFamily(a, b) == a \in Token /\ b \in Token /\ a.fam = b.fam

(* A record that is parked, or about to be, keeps a session's family.       *)
RecordsKeepFamily ==
  /\ parked \in Record => parked.cred.fam = parked.replaces.fam
  /\ \A p \in Procs : \A r \in toPark[p] : r.cred.fam = r.replaces.fam

(* What a call carries at each of its places.                               *)
HasAnswer == {"reply"} \cup Answered \cup {"drop"}
NewSession == {"inWait", "inUndo"} \cup SigningIn
Carries ==
  \A c \in Calls :
    /\ pc[c] = "ask" => held[c] \in Token /\ held[c].gen < MaxGen
    /\ pc[c] \in HasAnswer => SameFamily(fresh[c], held[c])
    /\ pc[c] \in NewSession \cup {"file"} => fresh[c] \in Token
    /\ c \in unsaved => pc[c] \in Answered

Typed == TypeOK /\ RecordsKeepFamily /\ Carries

-----------------------------------------------------------------------------
(* The helpers of the actions.                                              *)

(* Whatever Revoke does, it revokes a family or nothing.                    *)
LEMMA RevokeType ==
  ASSUME TypeOK, NEW t \in Token, NEW ok \in BOOLEAN, Revoke(t, ok)
  PROVE  /\ revoked' \subseteq Grant
         /\ UNCHANGED <<grants, newest>>
BY DEF TypeOK, Revoke, Token

(* Parking writes the record or leaves the file as it was.                  *)
LEMMA ParkType ==
  ASSUME TypeOK, NEW r \in Record, Park(r)
  PROVE  /\ parked' \in {parked, r}
         /\ forfeit' \subseteq Grant
BY DEF TypeOK, Park, Record, Token

(* A store write, whether it is told of or not.                             *)
LEMMA SaveType ==
  ASSUME TypeOK, NEW s \in Stores, NEW t \in Token,
         Saved(s, t) \/ SaveFails(s, t)
  PROVE  store' \in [Stores -> Token \cup {None, Unreadable}]
BY DEF TypeOK, Saved, SaveFails, Refused, ToldFailed

(* Removing the parked file.                                                *)
LEMMA ParkedRemovedType ==
  ASSUME TypeOK, ParkedRemoved
  PROVE  parked' = None /\ forfeit' \subseteq Grant
BY DEF TypeOK, ParkedRemoved, ParkedCleared, Record, Token

(* A machine before its first sign-in, or just signed in, has the right shape.*)
LEMMA InitTyped == Init => Typed
<1> SUFFICES ASSUME Init PROVE Typed
  OBVIOUS
<1>1. TypeOK
  <2>1. store \in [Stores -> Token \cup {None, Unreadable}]
    <3>1. CASE grants = 0 /\ store \in [Stores -> {None, Unreadable}]
      BY <3>1
    <3>2. CASE /\ grants = 1 /\ MaxGrant >= 1
               /\ \E s \in Stores :
                    store = [x \in Stores |-> IF x = s THEN [fam |-> 1, gen |-> 0] ELSE None]
      <4>1. [fam |-> 1, gen |-> 0] \in Token
        BY <3>2, SessionAssumption DEF Token, Grant
      <4> QED BY <3>2, <4>1
    <3> QED BY <3>1, <3>2 DEF Init
  <2>2. grants \in 0..MaxGrant
    BY SessionAssumption DEF Init
  <2>3. newest \in [Grant -> 0..MaxGen]
    BY SessionAssumption DEF Init
  <2> QED BY <2>1, <2>2, <2>3 DEF Init, TypeOK, Place, Answer
<1>2. RecordsKeepFamily
  BY SessionAssumption DEF Init, RecordsKeepFamily
<1>3. Carries
  BY DEF Init, Carries, HasAnswer, Answered, NewSession, SigningIn
<1> QED BY <1>1, <1>2, <1>3 DEF Typed
-----------------------------------------------------------------------------
(* Every step keeps the types: one lemma per group of actions.              *)

(* Starting a command, and waiting for the lock, keep it.                   *)
LEMMA StartTyped ==
  ASSUME Typed, NEW c \in Calls, Start(c) \/ TakeLock(c) \/ GiveUpWaiting(c)
  PROVE  Typed'
<1> USE SessionAssumption
    DEF Typed, TypeOK, RecordsKeepFamily, Carries, SameFamily, HasAnswer, NewSession,
        issuer, machine, process, Goto, Release, Finish, Place, Waiting, Locked, Reading,
        Unanswered, Answered, Rotations, SigningOut, SigningIn, Answer, Begin
<1>1. ASSUME NEW s \in Stores, BeginSession(c, s) PROVE Typed'
  BY <1>1 DEF BeginSession
<1>2. ASSUME NEW s \in Stores, BeginSignOut(c, s) PROVE Typed'
  BY <1>2 DEF BeginSignOut
<1>3. ASSUME NEW s \in Stores, Approve(c, s) PROVE Typed'
  <2>1. grants' \in 0..MaxGrant
    BY <1>3 DEF Approve
  <2>2. [fam |-> grants + 1, gen |-> 0] \in Token
    BY <1>3 DEF Approve, Token, Grant
  <2>3. fresh' \in [Calls -> Token \cup {None}] /\ fresh'[c] \in Token
    BY <1>3, <2>2 DEF Approve
  <2> QED BY <1>3, <2>1, <2>3 DEF Approve
<1>4. ASSUME TakeLock(c) PROVE Typed'
  BY <1>4 DEF TakeLock, Behind
<1>5. ASSUME GiveUpWaiting(c) PROVE Typed'
  BY <1>5, SMTT(30) DEF GiveUpWaiting
<1> QED BY <1>1, <1>2, <1>3, <1>4, <1>5 DEF Start

(* So do the steps of current_session and of its rotation.                  *)
LEMMA SessionStepTyped ==
  ASSUME Typed, NEW c \in Calls, SessionStep(c) \/ Unwind(c)
  PROVE  Typed'
<1> USE SessionAssumption
    DEF Typed, TypeOK, RecordsKeepFamily, Carries, SameFamily, HasAnswer, NewSession,
        issuer, machine, process, Goto, Release, Finish, Place, Waiting, Locked, Reading,
        Unanswered, Answered, Rotations, SigningOut, SigningIn, Answer
<1>1. ASSUME Recover(c) PROVE Typed'
  <2>1. UNCHANGED <<issuer, machine, st, tried, said, unsaved, process>>
    BY <1>1 DEF Recover
  <2>2. /\ pc' \in [Calls -> Place] /\ pc'[c] \in {"load", "idle", "file", "clear"}
        /\ \A d \in Calls \ {c} : pc'[d] = pc[d] /\ held'[d] = held[d] /\ fresh'[d] = fresh[d]
        /\ lock' \in Calls \cup {None} /\ held' \in [Calls -> Token \cup {None}]
    BY <1>1 DEF Recover
  <2>3. fresh' \in [Calls -> Token \cup {None}]
    BY <1>1 DEF Recover, Record
  <2>4. pc'[c] = "file" => fresh'[c] \in Token
    BY <1>1 DEF Recover, Record
  <2>5. pc[c] = "recover"
    BY <1>1 DEF Recover
  <2> QED BY <2>1, <2>2, <2>3, <2>4, <2>5
<1>2. ASSUME FileParked(c) PROVE Typed'
  BY <1>2, SaveType, SMTT(30) DEF FileParked
<1>3. ASSUME ClearParked(c) PROVE Typed'
  BY <1>3 DEF ClearParked, ParkedCleared, ParkedStays
<1>4. ASSUME Load(c) PROVE Typed'
  BY <1>4 DEF Load
<1>5. ASSUME IssuerAnswers(c) PROVE Typed'
  <2> DEFINE f == held[c].fam
  <2>1. pc[c] = "ask" /\ held[c] \in Token /\ f \in Grant /\ held[c].gen < MaxGen
    BY <1>5 DEF IssuerAnswers, Token
  <2>2. CASE f \notin revoked /\ ~Spent(held[c])
    <3>1. newest[f] + 1 \in 0..MaxGen
      BY <2>1, <2>2 DEF Spent, Token
    <3>2. [fam |-> f, gen |-> newest[f] + 1] \in Token
      BY <2>1, <3>1 DEF Token
    <3>3. /\ newest' = [newest EXCEPT ![f] = newest[f] + 1]
          /\ fresh' = [fresh EXCEPT ![c] = [fam |-> f, gen |-> newest[f] + 1]]
          /\ Goto(c, "reply")
          /\ UNCHANGED <<grants, revoked, lock, held, machine, st, tried, said, unsaved, process>>
      BY <1>5, <2>2 DEF IssuerAnswers
    <3>4. SameFamily(fresh'[c], held'[c])
      BY <2>1, <3>2, <3>3
    <3> QED BY <2>1, <3>1, <3>2, <3>3, <3>4
  <2>3. CASE f \in revoked \/ Spent(held[c])
    BY <1>5, <2>1, <2>3 DEF IssuerAnswers
  <2> QED BY <2>2, <2>3
<1>6. ASSUME RequestFails(c) PROVE Typed'
  BY <1>6 DEF RequestFails
<1>7. ASSUME ReplyArrives(c) PROVE Typed'
  BY <1>7 DEF ReplyArrives
<1>8. ASSUME SaveRotated(c) PROVE Typed'
  BY <1>8, SaveType DEF SaveRotated
<1>9. ASSUME ParkRotated(c) PROVE Typed'
  BY <1>9, ParkType DEF ParkRotated, Record
<1>10. ASSUME Filed(c) PROVE Typed'
  BY <1>10 DEF Filed
<1>11. ASSUME DropParks(c) PROVE Typed'
  BY <1>11, ParkType DEF DropParks, Record
<1>12. ASSUME Unwind(c) PROVE Typed'
  BY <1>12 DEF Unwind
<1> QED
  BY <1>1, <1>2, <1>3, <1>4, <1>5, <1>6, <1>7, <1>8, <1>9, <1>10, <1>11, <1>12
     DEF SessionStep

(* So do the steps of sign_out.                                             *)
LEMMA SignOutStepTyped ==
  ASSUME Typed, NEW c \in Calls, SignOutStep(c)
  PROVE  Typed'
<1> USE SessionAssumption
    DEF Typed, TypeOK, RecordsKeepFamily, Carries, SameFamily, HasAnswer, NewSession,
        issuer, machine, process, Goto, Release, Finish, Place, Waiting, Locked, Reading,
        Unanswered, Answered, Rotations, SigningOut, SigningIn, Answer
<1>1. ASSUME SignOutLoad(c) PROVE Typed'
  <2>1. revoked' \subseteq Grant /\ UNCHANGED <<grants, newest>>
    <3>1. \/ UNCHANGED issuer
          \/ store[st[c]] \in Token /\ \E ok \in BOOLEAN : Revoke(store[st[c]], ok)
      BY <1>1 DEF SignOutLoad
    <3> QED BY <3>1, RevokeType
  <2>2. tried' \in [Calls -> SUBSET BOOLEAN]
    <3>1. \/ tried' = tried
          \/ \E ok \in BOOLEAN : tried' = [tried EXCEPT ![c] = {ok}]
      BY <1>1 DEF SignOutLoad
    <3> QED BY <3>1
  <2>3. /\ pc[c] = "outLoad"
        /\ pc' = [pc EXCEPT ![c] = "outParked"] \/ pc' = [pc EXCEPT ![c] = "idle"]
        /\ fresh' = fresh \/ fresh' = [fresh EXCEPT ![c] = None]
        /\ \/ held' = held \/ held' = [held EXCEPT ![c] = None]
           \/ store[st[c]] \in Token /\ held' = [held EXCEPT ![c] = store[st[c]]]
    BY <1>1 DEF SignOutLoad
  <2>4. lock' \in Calls \cup {None} /\ said' \in [Calls -> Answer]
    BY <1>1 DEF SignOutLoad
  <2>5. UNCHANGED <<machine, st, unsaved, process>>
    BY <1>1 DEF SignOutLoad
  <2> QED BY <2>1, <2>2, <2>3, <2>4, <2>5
<1>2. ASSUME SignOutParked(c) PROVE Typed'
  <2>1. revoked' \subseteq Grant /\ UNCHANGED <<grants, newest>>
    <3>1. CASE parked \notin Record
      BY <1>2, <3>1 DEF SignOutParked
    <3>2. CASE parked \in Record
      <4>1. parked.cred \in Token
        BY <3>2 DEF Record
      <4>2. \E ok \in BOOLEAN : Revoke(parked.cred, ok)
        BY <1>2, <3>2 DEF SignOutParked
      <4> QED BY <4>1, <4>2, RevokeType
    <3> QED BY <3>1, <3>2
  <2>2. tried' \in [Calls -> SUBSET BOOLEAN]
    <3>1. \/ tried' = tried
          \/ \E ok \in BOOLEAN : tried' = [tried EXCEPT ![c] = @ \cup {ok}]
      BY <1>2 DEF SignOutParked
    <3> QED BY <3>1
  <2>3. /\ pc[c] = "outParked" /\ pc' = [pc EXCEPT ![c] = "outClear"]
        /\ UNCHANGED <<machine, lock, st, held, fresh, said, unsaved, process>>
    BY <1>2 DEF SignOutParked
  <2> QED BY <2>1, <2>2, <2>3
<1>3. ASSUME SignOutClear(c) PROVE Typed'
  BY <1>3, ParkedRemovedType DEF SignOutClear, ParkedStays
<1>4. ASSUME SignOutDelete(c) PROVE Typed'
  BY <1>4, ZenonT(30) DEF SignOutDelete, Outcome
<1> QED BY <1>1, <1>2, <1>3, <1>4 DEF SignOutStep

(* So do the steps of store_new_session and of login around it.             *)
LEMMA SignInStepTyped ==
  ASSUME Typed, NEW c \in Calls, SignInStep(c)
  PROVE  Typed'
<1> USE SessionAssumption
    DEF Typed, TypeOK, RecordsKeepFamily, Carries, SameFamily, HasAnswer, NewSession,
        issuer, machine, process, Goto, Release, Finish, Place, Waiting, Locked, Reading,
        Unanswered, Answered, Rotations, SigningOut, SigningIn, Answer
<1>1. ASSUME SignInLoad(c) PROVE Typed'
  BY <1>1 DEF SignInLoad
<1>2. ASSUME SignInSave(c) PROVE Typed'
  BY <1>2, SaveType DEF SignInSave
<1>3. ASSUME SignInParked(c) PROVE Typed'
  <2>1. revoked' \subseteq Grant /\ UNCHANGED <<grants, newest>>
    BY <1>3, RevokeType DEF SignInParked, Record
  <2> QED BY <1>3, <2>1 DEF SignInParked
<1>4. ASSUME SignInClear(c) PROVE Typed'
  BY <1>4, ParkedRemovedType DEF SignInClear, ParkedStays
<1>5. ASSUME SignInRevoke(c) PROVE Typed'
  <2>1. revoked' \subseteq Grant /\ UNCHANGED <<grants, newest>>
    BY <1>5, RevokeType DEF SignInRevoke
  <2> QED BY <1>5, <2>1 DEF SignInRevoke
<1>6. ASSUME SignInUndo(c) PROVE Typed'
  <2>1. revoked' \subseteq Grant /\ UNCHANGED <<grants, newest>>
    BY <1>6, RevokeType DEF SignInUndo
  <2> QED BY <1>6, <2>1 DEF SignInUndo
<1> QED BY <1>1, <1>2, <1>3, <1>4, <1>5, <1>6 DEF SignInStep

(* So does a process that leaves, parks or ends.                            *)
LEMMA ProcStepTyped ==
  ASSUME Typed, NEW p \in Procs, ProcStep(p)
  PROVE  Typed'
<1> USE SessionAssumption
    DEF Typed, TypeOK, RecordsKeepFamily, Carries, SameFamily, HasAnswer, NewSession,
        issuer, machine, process, Place, Waiting, Locked, Reading,
        Unanswered, Answered, Rotations, SigningOut, SigningIn, Answer, CallsOf
<1>1. ASSUME Done(p) \/ Leave(p) PROVE Typed'
  BY <1>1 DEF Done, Leave
<1>2. ASSUME Collect(p) \/ Panic(p) PROVE Typed'
  <2>1. \A r \in Collected(p) : r \in Record /\ r.cred.fam = r.replaces.fam
    BY DEF Collected, Record
  <2> QED BY <1>2, <2>1 DEF Collect, Panic
<1>3. ASSUME ParkCollected(p) PROVE Typed'
  BY <1>3, ParkType DEF ParkCollected
<1>4. ASSUME Ends(p) PROVE Typed'
  BY <1>4 DEF Ends
<1> QED BY <1>1, <1>2, <1>3, <1>4 DEF ProcStep, EndSettled, EndParked, Kill

(* So does every step.                                                      *)
LEMMA StepTyped ==
  ASSUME Typed, [Next]_vars
  PROVE  Typed'
<1>1. ASSUME NEW c \in Calls, CallStep(c) PROVE Typed'
  BY <1>1, StartTyped, SessionStepTyped, SignOutStepTyped, SignInStepTyped DEF CallStep
<1>2. ASSUME NEW p \in Procs, ProcStep(p) PROVE Typed'
  BY <1>2, ProcStepTyped
<1>3. ASSUME ParkedSpoils PROVE Typed'
  BY <1>3, SessionAssumption
     DEF ParkedSpoils, Typed, TypeOK, RecordsKeepFamily, Carries, issuer, process, Record, Token
<1>4. ASSUME OrphanLands PROVE Typed'
  BY <1>4 DEF OrphanLands, Saved, Typed, TypeOK, RecordsKeepFamily, Carries, issuer
<1>5. ASSUME UNCHANGED vars PROVE Typed'
  BY <1>5 DEF vars, Typed, TypeOK, RecordsKeepFamily, Carries
<1> QED BY <1>1, <1>2, <1>3, <1>4, <1>5 DEF Next

(* Every variable keeps its type, whatever goes wrong: in particular a call *)
(* that presents, revokes, saves or parks a session has one in its hands.   *)
THEOREM TypeCorrect == Spec => []TypeOK
<1>1. Init => Typed
  BY InitTyped
<1>2. Typed /\ [Next]_vars => Typed'
  BY StepTyped
<1>3. Typed => TypeOK
  BY DEF Typed
<1> QED BY <1>1, <1>2, <1>3, PTL DEF Spec

(* The shape is kept throughout.                                            *)
LEMMA AlwaysTyped == Spec => []Typed
<1>1. Typed /\ [Next]_vars => Typed'
  BY StepTyped
<1> QED BY InitTyped, <1>1, PTL DEF Spec
-----------------------------------------------------------------------------
(* The lock.                                                                *)

(* What a step of one call does with the lock: nothing, unless it gets there *)
(* with the lock free or leaves the places that need it.                    *)
LEMMA LockMoves ==
  ASSUME TypeOK, NEW c \in Calls, CallStep(c)
  PROVE  /\ \A d \in Calls \ {c} : pc'[d] = pc[d]
         /\ \/ lock' = lock /\ (pc'[c] \in Locked => pc[c] \in Locked)
            \/ lock = None /\ lock' = c
            \/ lock' = (IF lock = c THEN None ELSE lock) /\ pc'[c] \notin Locked
<1> USE DEF TypeOK, Goto, Release, Finish, Place, Waiting, Locked, Reading, Unanswered,
            Answered, Rotations, SigningOut, SigningIn
<1>1. CASE Start(c)
  BY <1>1 DEF Start, BeginSession, BeginSignOut, Approve, Begin
<1>2. CASE TakeLock(c) \/ GiveUpWaiting(c) \/ Unwind(c)
  BY <1>2 DEF TakeLock, GiveUpWaiting, Unwind
<1>3. CASE Recover(c) \/ FileParked(c) \/ ClearParked(c) \/ Load(c)
  BY <1>3 DEF Recover, FileParked, ClearParked, Load
<1>4. CASE IssuerAnswers(c) \/ RequestFails(c) \/ ReplyArrives(c)
  BY <1>4 DEF IssuerAnswers, RequestFails, ReplyArrives
<1>5. CASE SaveRotated(c) \/ ParkRotated(c) \/ Filed(c) \/ DropParks(c)
  BY <1>5 DEF SaveRotated, ParkRotated, Filed, DropParks
<1>6. CASE SignOutStep(c)
  BY <1>6 DEF SignOutStep, SignOutLoad, SignOutParked, SignOutClear, SignOutDelete
<1>7. CASE SignInStep(c)
  BY <1>7 DEF SignInStep, SignInLoad, SignInSave, SignInParked, SignInClear, SignInRevoke,
              SignInUndo
<1> QED BY <1>1, <1>2, <1>3, <1>4, <1>5, <1>6, <1>7 DEF CallStep, SessionStep

(* No step lets a second call in between the lock and its last write.       *)
LEMMA StepOneAtATime ==
  ASSUME Typed, OneAtATime, [Next]_vars
  PROVE  OneAtATime'
<1>1. ASSUME NEW c \in Calls, CallStep(c) PROVE OneAtATime'
  <2>1. /\ \A d \in Calls \ {c} : pc'[d] = pc[d]
        /\ \/ lock' = lock /\ (pc'[c] \in Locked => pc[c] \in Locked)
           \/ lock = None /\ lock' = c
           \/ lock' = (IF lock = c THEN None ELSE lock) /\ pc'[c] \notin Locked
    BY <1>1, LockMoves DEF Typed
  <2> QED BY <2>1, SessionAssumption DEF OneAtATime
<1>2. ASSUME NEW p \in Procs, ProcStep(p) PROVE OneAtATime'
  <2>1. CASE UNCHANGED <<pc, lock>>
    BY <2>1 DEF OneAtATime
  <2>2. CASE Ends(p)
    BY <2>2 DEF OneAtATime, Ends, CallsOf, Locked, Reading, Rotations, Unanswered, Answered,
                SigningOut, SigningIn
  <2> QED
    BY <1>2, <2>1, <2>2
       DEF ProcStep, Done, Leave, Collect, Panic, ParkCollected, EndSettled, EndParked, Kill
<1>3. ASSUME ParkedSpoils \/ OrphanLands \/ UNCHANGED vars PROVE OneAtATime'
  BY <1>3 DEF ParkedSpoils, OrphanLands, vars, OneAtATime
<1> QED BY <1>1, <1>2, <1>3 DEF Next

(* The shape and the lock's exclusion are kept throughout.                  *)
LEMMA AlwaysOneAtATime == Spec => [](Typed /\ OneAtATime)
<1>1. Init => Typed /\ OneAtATime
  BY InitTyped DEF Init, OneAtATime, Locked, Reading, Rotations, Unanswered, Answered,
                   SigningOut, SigningIn
<1>2. Typed /\ OneAtATime /\ [Next]_vars => (Typed /\ OneAtATime)'
  BY StepTyped, StepOneAtATime
<1> QED BY <1>1, <1>2, PTL DEF Spec

(* Readers and writers of one audience's session are one at a time: no call  *)
(* is between taking the refresh lock and its last write without being the   *)
(* one that has it, however processes end and calls panic.                  *)
THEOREM MutualExclusion == Spec => []OneAtATime
BY AlwaysOneAtATime, PTL
-----------------------------------------------------------------------------
(* What the store holds while a call is at work on it, as long as no store  *)
(* write outlives its process.                                              *)

NoOrphans == orphans = {}

(* From the read under the lock to the write, the store is as it was read.  *)
StoreAsRead ==
  \A c \in Calls :
    /\ pc[c] \in {"ask", "reply", "save", "drop"} => store[st[c]] = held[c]
    /\ pc[c] = "file" => SameFamily(store[st[c]], fresh[c])

Unstored == {"inWait", "inLoad", "inSave"}

(* A sign-in is of a family granted to it alone, and not stored yet.        *)
SignInsApart ==
  \A c \in Calls : pc[c] \in Unstored =>
    /\ fresh[c].fam <= grants
    /\ \A d \in Calls : d # c /\ pc[d] \in Unstored => fresh[d].fam # fresh[c].fam
    /\ \A s \in Stores : store[s] \in Token => store[s].fam # fresh[c].fam

(* A family is in one store.                                                *)
StoresApart ==
  \A s \in Stores : store[s] \in Token =>
    /\ store[s].fam <= grants
    /\ \A r \in Stores : r # s /\ store[r] \in Token => store[r].fam # store[s].fam

Kept == NoOrphans /\ StoreAsRead /\ SignInsApart /\ StoresApart

Base == Typed /\ OneAtATime
(* A store write puts what the call carries in its store, or nothing.       *)
LEMMA SaveWrites ==
  ASSUME NEW s \in Stores, NEW t, Saved(s, t) \/ SaveFails(s, t)
  PROVE  store' = store \/ store' = [store EXCEPT ![s] = t]
BY DEF Saved, SaveFails, Refused, ToldFailed

(* current_session leaves what other calls have read, and other sign-ins, alone.*)
LEMMA SessionStepKept ==
  ASSUME Base, Kept, NEW c \in Calls, SessionStep(c) \/ Unwind(c)
  PROVE  Kept'
<1> USE SessionAssumption
    DEF Base, OneAtATime, Typed, TypeOK, Carries, SameFamily, HasAnswer, NewSession,
        Kept, NoOrphans, StoreAsRead, SignInsApart, StoresApart, Unstored,
        issuer, machine, process, Goto, Release, Finish, Locked, Reading, Unanswered,
        Answered, Rotations, SigningOut, SigningIn, Waiting
<1>1. ASSUME Recover(c) PROVE Kept'
  BY <1>1 DEF Recover, Supersedes, RecordsKeepFamily, Record
<1>2. ASSUME FileParked(c) PROVE Kept'
  BY <1>2, SMTT(30) DEF FileParked, Saved, SaveFails, Refused, ToldFailed
<1>3. ASSUME ClearParked(c) PROVE Kept'
  BY <1>3 DEF ClearParked
<1>4. ASSUME Load(c) PROVE Kept'
  BY <1>4 DEF Load
<1>5. ASSUME IssuerAnswers(c) PROVE Kept'
  <2>1. /\ pc[c] = "ask" /\ grants' = grants
        /\ UNCHANGED <<store, st, orphans>>
        /\ \A d \in Calls \ {c} : pc'[d] = pc[d] /\ held'[d] = held[d] /\ fresh'[d] = fresh[d]
        /\ \/ pc'[c] = "reply" /\ held'[c] = held[c]
           \/ pc'[c] = "idle"
    BY <1>5 DEF IssuerAnswers
  <2> QED BY <2>1
<1>6. ASSUME RequestFails(c) PROVE Kept'
  BY <1>6 DEF RequestFails
<1>7. ASSUME ReplyArrives(c) PROVE Kept'
  BY <1>7 DEF ReplyArrives
<1>8. ASSUME SaveRotated(c) PROVE Kept'
  <2>1. /\ pc[c] = "save" /\ pc'[c] \in {"filed", "park"}
        /\ \A d \in Calls \ {c} : pc'[d] = pc[d]
        /\ UNCHANGED <<grants, st, held, fresh, orphans>>
    BY <1>8 DEF SaveRotated
  <2>2. store' = store \/ store' = [store EXCEPT ![st[c]] = fresh[c]]
    BY <1>8, SaveWrites DEF SaveRotated
  <2>3. SameFamily(fresh[c], store[st[c]])
    BY <2>1
  <2> QED BY <2>1, <2>2, <2>3, SMTT(30)
<1>9. ASSUME ParkRotated(c) PROVE Kept'
  BY <1>9 DEF ParkRotated
<1>10. ASSUME Filed(c) PROVE Kept'
  BY <1>10 DEF Filed
<1>11. ASSUME DropParks(c) PROVE Kept'
  BY <1>11 DEF DropParks
<1>12. ASSUME Unwind(c) PROVE Kept'
  BY <1>12 DEF Unwind
<1> QED
  BY <1>1, <1>2, <1>3, <1>4, <1>5, <1>6, <1>7, <1>8, <1>9, <1>10, <1>11, <1>12
     DEF SessionStep

(* So do starting a command, sign_out and store_new_session.                *)
LEMMA SignStepKept ==
  ASSUME Base, Kept, NEW c \in Calls,
         \/ Start(c) \/ TakeLock(c) \/ GiveUpWaiting(c)
         \/ SignOutStep(c) \/ SignInStep(c)
  PROVE  Kept'
<1> USE SessionAssumption
    DEF Base, OneAtATime, Typed, TypeOK, Carries, SameFamily, HasAnswer, NewSession,
        Kept, NoOrphans, StoreAsRead, SignInsApart, StoresApart, Unstored,
        issuer, machine, process, Goto, Release, Finish, Locked, Reading, Unanswered,
        Answered, Rotations, SigningOut, SigningIn, Waiting
<1>1. ASSUME NEW s \in Stores, BeginSession(c, s) \/ BeginSignOut(c, s) PROVE Kept'
  BY <1>1 DEF BeginSession, BeginSignOut, Begin
<1>2. ASSUME NEW s \in Stores, Approve(c, s) PROVE Kept'
  BY <1>2 DEF Approve, Begin, Token, Grant
<1>3. ASSUME TakeLock(c) PROVE Kept'
  BY <1>3 DEF TakeLock, Behind
<1>4. ASSUME GiveUpWaiting(c) PROVE Kept'
  BY <1>4 DEF GiveUpWaiting
<1>5. ASSUME SignOutStep(c) PROVE Kept'
  <2>1. /\ UNCHANGED <<grants, st, orphans>>
        /\ \A d \in Calls \ {c} : pc'[d] = pc[d] /\ held'[d] = held[d] /\ fresh'[d] = fresh[d]
        /\ pc[c] \in SigningOut /\ pc'[c] \in SigningOut \cup {"idle"}
    <3>1. CASE SignOutLoad(c)
      <4>1. grants' = grants
        BY <3>1 DEF SignOutLoad, Revoke
      <4>2. UNCHANGED <<st, orphans>> /\ pc[c] = "outLoad"
        BY <3>1 DEF SignOutLoad
      <4>3. /\ pc' = [pc EXCEPT ![c] = "outParked"] \/ pc' = [pc EXCEPT ![c] = "idle"]
            /\ fresh' = fresh \/ fresh' = [fresh EXCEPT ![c] = None]
            /\ \/ held' = held \/ held' = [held EXCEPT ![c] = None]
               \/ held' = [held EXCEPT ![c] = store[st[c]]]
        BY <3>1 DEF SignOutLoad
      <4> QED BY <4>1, <4>2, <4>3
    <3>2. CASE SignOutParked(c)
      <4>1. grants' = grants
        BY <3>2 DEF SignOutParked, Revoke
      <4> QED BY <3>2, <4>1 DEF SignOutParked
    <3>3. CASE SignOutClear(c) \/ SignOutDelete(c)
      BY <3>3 DEF SignOutClear, SignOutDelete
    <3> QED BY <1>5, <3>1, <3>2, <3>3 DEF SignOutStep
  <2>2. store' = store \/ store' = [store EXCEPT ![st[c]] = None]
    BY <1>5 DEF SignOutStep, SignOutLoad, SignOutParked, SignOutClear, SignOutDelete
  <2> QED BY <2>1, <2>2
<1>6. ASSUME SignInSave(c) PROVE Kept'
  <2>1. /\ pc[c] = "inSave" /\ pc'[c] \in {"inParked", "inUndo"}
        /\ \A d \in Calls \ {c} : pc'[d] = pc[d]
        /\ UNCHANGED <<grants, st, held, fresh, orphans>>
    BY <1>6 DEF SignInSave
  <2>2. store' = store \/ store' = [store EXCEPT ![st[c]] = fresh[c]]
    BY <1>6, SaveWrites DEF SignInSave
  <2>3. fresh[c] \in Token
    BY <2>1
  <2> QED BY <2>1, <2>2, <2>3
<1>7. ASSUME SignInLoad(c) \/ SignInParked(c) \/ SignInClear(c) \/ SignInRevoke(c) \/ SignInUndo(c)
      PROVE  Kept'
  <2>1. /\ UNCHANGED <<grants, store, orphans>>
        /\ \A d \in Calls \ {c} : /\ pc'[d] = pc[d] /\ held'[d] = held[d]
                                  /\ fresh'[d] = fresh[d] /\ st'[d] = st[d]
        /\ \/ pc'[c] \notin Unstored \cup {"ask", "reply", "save", "drop", "file"}
           \/ pc[c] = "inLoad" /\ pc'[c] = "inSave" /\ fresh' = fresh
    BY <1>7 DEF SignInLoad, SignInParked, SignInClear, SignInRevoke, SignInUndo, Revoke
  <2> QED BY <2>1
<1> QED BY <1>1, <1>2, <1>3, <1>4, <1>5, <1>6, <1>7 DEF Start, SignInStep

(* So does a process that leaves, parks or ends, if its writes end with it. *)
LEMMA ProcStepKept ==
  ASSUME Base, Kept, "orphan" \notin Faults, NEW p \in Procs, ProcStep(p)
  PROVE  Kept'
<1> USE SessionAssumption
    DEF Base, OneAtATime, Typed, TypeOK, Carries, SameFamily, HasAnswer, NewSession,
        Kept, NoOrphans, StoreAsRead, SignInsApart, StoresApart, Unstored,
        issuer, machine, process, Goto, Release, Finish, Locked, Reading, Unanswered,
        Answered, Rotations, SigningOut, SigningIn, Waiting
<1>1. CASE Done(p) \/ Leave(p) \/ Collect(p) \/ Panic(p) \/ ParkCollected(p)
  BY <1>1 DEF Done, Leave, Collect, Panic, ParkCollected
<1>2. CASE Ends(p)
  BY <1>2 DEF Ends
<1> QED BY <1>1, <1>2 DEF ProcStep, EndSettled, EndParked, Kill

(* So does every step, if no store write outlives its process.              *)
LEMMA StepKept ==
  ASSUME Base, Kept, "orphan" \notin Faults, [Next]_vars
  PROVE  Kept'
<1>1. ASSUME NEW c \in Calls, CallStep(c) PROVE Kept'
  BY <1>1, SessionStepKept, SignStepKept DEF CallStep
<1>2. ASSUME NEW p \in Procs, ProcStep(p) PROVE Kept'
  BY <1>2, ProcStepKept
<1>3. ASSUME ParkedSpoils \/ UNCHANGED vars PROVE Kept'
  BY <1>3 DEF ParkedSpoils, vars, Kept, NoOrphans, StoreAsRead, SignInsApart, StoresApart,
              issuer, process
<1>4. ASSUME OrphanLands PROVE Kept'
  BY <1>4 DEF OrphanLands, Kept, NoOrphans
<1> QED BY <1>1, <1>2, <1>3, <1>4 DEF Next

(* What is kept holds to begin with.                                        *)
LEMMA InitKept == Init => Base /\ Kept
<1> SUFFICES ASSUME Init PROVE Base /\ Kept
  OBVIOUS
<1>1. Base
  BY InitTyped DEF Base, Init, OneAtATime, Locked, Reading, Rotations, Unanswered, Answered,
                   SigningOut, SigningIn
<1>2. NoOrphans /\ StoreAsRead /\ SignInsApart
  BY DEF Init, NoOrphans, StoreAsRead, SignInsApart, Unstored
<1>3. StoresApart
  BY SessionAssumption DEF Init, StoresApart
<1> QED BY <1>1, <1>2, <1>3 DEF Kept

(* The shape and the exclusion, as one step.                                *)
LEMMA StepBase ==
  ASSUME Base, [Next]_vars
  PROVE  Base'
BY StepTyped, StepOneAtATime DEF Base

(* Without writes that outlive their process, all of it is kept throughout. *)
LEMMA AlwaysKept == ASSUME "orphan" \notin Faults PROVE Spec => [](Base /\ Kept)
<1>1. Base /\ Kept /\ [Next]_vars => (Base /\ Kept)'
  BY StepBase, StepKept
<1> QED BY InitKept, <1>1, PTL DEF Spec
-----------------------------------------------------------------------------
(* The machine keeps the promise of module SignedIn.                        *)

(* A step in which no call becomes one with an unstored sign-in, and nothing *)
(* changes the family of a store, abandons sign-ins or is nothing at all.   *)
NoNewSignIn ==
  \A c \in Calls : pc'[c] \in Unstored => pc[c] \in Unstored /\ fresh'[c] = fresh[c]
SameFamilies ==
  \A s \in Stores : FamilyIn(s)' = FamilyIn(s)

(* The calls that sign out, and a step in which no call becomes one.        *)
Outgoing == {"outWait"} \cup SigningOut
NoNewSignOut ==
  \A c \in Calls : pc'[c] \in Outgoing => pc[c] \in Outgoing /\ st'[c] = st[c]

(* No sign-out is begun, so the stores they are for are at most as many.    *)
LEMMA FewerSignOuts == ASSUME NoNewSignOut PROVE LeftStores' \subseteq LeftStores
BY DEF NoNewSignOut, LeftStores, Outgoing, SigningOut

(* A step that leaves the stores alone and begins nothing only drops sign-ins *)
(* and sign-outs.                                                             *)
LEMMA Abandons ==
  ASSUME NoNewSignIn, NoNewSignOut, SameFamilies, grants' = grants
  PROVE  Promise!Abandon
<1>1. Pending' \subseteq Pending
  BY DEF NoNewSignIn, Pending, Unstored
<1>2. [s \in Stores |-> FamilyIn(s)]' = [s \in Stores |-> FamilyIn(s)]
  BY DEF SameFamilies
<1> QED BY <1>1, <1>2, FewerSignOuts DEF Promise!Abandon

(* Calls that are not at work on a sign-in, and processes, only abandon.    *)
LEMMA SessionStepPromise ==
  ASSUME Base, Kept, NEW c \in Calls, SessionStep(c) \/ Unwind(c)
  PROVE  Promise!Abandon
<1> USE DEF Base, Typed, TypeOK, Kept, StoreAsRead, SameFamily, Carries, HasAnswer, Answered,
            Unstored, Goto, Finish, machine, issuer
<1>1. grants' = grants
  BY DEF SessionStep, Unwind, Recover, FileParked, ClearParked, Load, IssuerAnswers, RequestFails,
         ReplyArrives, SaveRotated, ParkRotated, Filed, DropParks
<1>2. NoNewSignIn
  <2>1. CASE Recover(c) \/ FileParked(c) \/ ClearParked(c) \/ Load(c)
    BY <2>1 DEF NoNewSignIn, Recover, FileParked, ClearParked, Load
  <2>2. CASE IssuerAnswers(c) \/ RequestFails(c) \/ ReplyArrives(c) \/ SaveRotated(c)
    BY <2>2 DEF NoNewSignIn, IssuerAnswers, RequestFails, ReplyArrives, SaveRotated
  <2>3. CASE ParkRotated(c) \/ Filed(c) \/ DropParks(c) \/ Unwind(c)
    BY <2>3 DEF NoNewSignIn, ParkRotated, Filed, DropParks, Unwind
  <2> QED BY <2>1, <2>2, <2>3 DEF SessionStep
<1>3. SameFamilies
  <2>1. CASE FileParked(c) \/ SaveRotated(c)
    <3>1. store' = store \/ store' = [store EXCEPT ![st[c]] = fresh[c]]
      BY <2>1, SaveWrites DEF FileParked, SaveRotated
    <3>2. SameFamily(store[st[c]], fresh[c])
      BY <2>1 DEF FileParked, SaveRotated
    <3> QED BY <3>1, <3>2 DEF SameFamilies, FamilyIn
  <2>2. CASE store' = store
    BY <2>2 DEF SameFamilies, FamilyIn
  <2> QED
    BY <2>1, <2>2 DEF SessionStep, Unwind, Recover, ClearParked, Load, IssuerAnswers,
       RequestFails, ReplyArrives, ParkRotated, Filed, DropParks
<1>4. NoNewSignOut
  <2>1. \A d \in Calls : pc'[d] \in Outgoing => pc'[d] = pc[d]
    <3>1. CASE Recover(c) \/ FileParked(c) \/ ClearParked(c) \/ Load(c)
      BY <3>1 DEF Outgoing, SigningOut, Recover, FileParked, ClearParked, Load
    <3>2. CASE IssuerAnswers(c) \/ RequestFails(c) \/ ReplyArrives(c) \/ SaveRotated(c)
      BY <3>2 DEF Outgoing, SigningOut, IssuerAnswers, RequestFails, ReplyArrives, SaveRotated
    <3>3. CASE ParkRotated(c) \/ Filed(c) \/ DropParks(c) \/ Unwind(c)
      BY <3>3 DEF Outgoing, SigningOut, ParkRotated, Filed, DropParks, Unwind
    <3> QED BY <3>1, <3>2, <3>3 DEF SessionStep
  <2>2. st' = st
    BY DEF SessionStep, Unwind, Recover, FileParked, ClearParked, Load, IssuerAnswers,
           RequestFails, ReplyArrives, SaveRotated, ParkRotated, Filed, DropParks
  <2> QED BY <2>1, <2>2 DEF NoNewSignOut
<1> QED BY <1>1, <1>2, <1>3, <1>4, Abandons

(* A set that loses nothing but one element is itself or the rest.          *)
LEMMA LosesAtMostOne ==
  ASSUME NEW A, NEW B, NEW a, B \subseteq A, A \ {a} \subseteq B
  PROVE  B \in {A, A \ {a}}
OBVIOUS

(* A step of sign_out empties its store, or changes none.                   *)
LEMMA SignOutStepPromise ==
  ASSUME Base, NEW c \in Calls, SignOutStep(c)
  PROVE  Promise!Next
<1> USE DEF Base, Typed, TypeOK, Unstored, Goto, Finish, machine, issuer
<1>1. CASE SignOutLoad(c) \/ SignOutParked(c) \/ SignOutClear(c)
  <2>1. grants' = grants
    BY <1>1 DEF SignOutLoad, SignOutParked, SignOutClear, Revoke
  <2>2. NoNewSignIn
    <3>1. /\ pc' = [pc EXCEPT ![c] = "outParked"] \/ pc' = [pc EXCEPT ![c] = "idle"]
             \/ pc' = [pc EXCEPT ![c] = "outClear"] \/ pc' = [pc EXCEPT ![c] = "outDelete"]
          /\ fresh' = fresh \/ fresh' = [fresh EXCEPT ![c] = None]
      BY <1>1 DEF SignOutLoad, SignOutParked, SignOutClear
    <3> QED BY <3>1 DEF NoNewSignIn
  <2>3. SameFamilies
    BY <1>1 DEF SameFamilies, FamilyIn, SignOutLoad, SignOutParked, SignOutClear
  <2>4. NoNewSignOut
    BY <1>1 DEF NoNewSignOut, Outgoing, SigningOut, SignOutLoad, SignOutParked, SignOutClear
  <2> QED BY <2>1, <2>2, <2>3, <2>4, Abandons DEF Promise!Next
<1>2. CASE SignOutDelete(c)
  <2>1. NoNewSignIn /\ grants' = grants
    BY <1>2 DEF SignOutDelete, NoNewSignIn
  <2>4. st' = st /\ pc[c] = "outDelete" /\ pc' = [pc EXCEPT ![c] = "idle"]
    BY <1>2 DEF SignOutDelete
  <2>5. NoNewSignOut
    BY <2>4 DEF NoNewSignOut, Outgoing, SigningOut
  <2>2. CASE store' = store
    BY <2>1, <2>2, <2>5, Abandons DEF SameFamilies, FamilyIn, Promise!Next
  <2>3. CASE store' = [store EXCEPT ![st[c]] = None]
    <3>1. [s \in Stores |-> FamilyIn(s)]' = [[s \in Stores |-> FamilyIn(s)] EXCEPT ![st[c]] = 0]
      BY <2>3, SessionAssumption DEF FamilyIn
    <3>2. Pending' = Pending
      BY <1>2 DEF SignOutDelete, Pending
    <3>3. st[c] \in LeftStores
      BY <2>4 DEF LeftStores, SigningOut
    <3>4. LeftStores \ {st[c]} \subseteq LeftStores'
      BY <2>4 DEF LeftStores, SigningOut
    <3>5. LeftStores' \subseteq LeftStores
      BY <2>5, FewerSignOuts
    <3>6. LeftStores' \in {LeftStores, LeftStores \ {st[c]}}
      BY <3>4, <3>5, LosesAtMostOne
    <3> QED BY <2>1, <3>1, <3>2, <3>3, <3>6 DEF Promise!SignOut, Promise!Next
  <2> QED BY <1>2, <2>2, <2>3 DEF SignOutDelete
<1> QED BY <1>1, <1>2 DEF SignOutStep

(* A step of store_new_session stores the sign-in it has pending, or changes none.*)
LEMMA SignInStepPromise ==
  ASSUME Base, Kept, NEW c \in Calls, SignInStep(c)
  PROVE  Promise!Next
<1> USE DEF Base, Typed, TypeOK, Unstored, Goto, Finish, machine, issuer
<1>1. CASE SignInSave(c)
  <2>1. /\ pc[c] = "inSave" /\ pc' \in {[pc EXCEPT ![c] = "inParked"], [pc EXCEPT ![c] = "inUndo"]}
        /\ fresh' = fresh /\ grants' = grants /\ st' = st
    BY <1>1 DEF SignInSave
  <2>4. NoNewSignOut /\ LeftStores' = LeftStores
    BY <2>1 DEF NoNewSignOut, LeftStores, Outgoing, SigningOut
  <2>2. CASE store' = store
    BY <2>1, <2>2, <2>4, Abandons DEF NoNewSignIn, SameFamilies, FamilyIn, Promise!Next
  <2>3. CASE store' = [store EXCEPT ![st[c]] = fresh[c]]
    <3>1. fresh[c] \in Token
      BY <2>1 DEF Carries, NewSession, SigningIn
    <3>2. fresh[c].fam \in Pending
      BY <2>1 DEF Pending
    <3>3. Pending' = Pending \ {fresh[c].fam}
      BY <2>1 DEF Pending, Kept, SignInsApart
    <3>4. [s \in Stores |-> FamilyIn(s)]'
            = [[s \in Stores |-> FamilyIn(s)] EXCEPT ![st[c]] = fresh[c].fam]
      BY <2>3, <3>1 DEF FamilyIn
    <3> QED BY <2>1, <2>4, <3>2, <3>3, <3>4 DEF Promise!SignIn, Promise!Next
  <2> QED BY <1>1, <2>2, <2>3, SaveWrites DEF SignInSave
<1>2. CASE ~SignInSave(c)
  <2>1. grants' = grants
    BY <1>2 DEF SignInStep, SignInLoad, SignInParked, SignInClear, SignInRevoke, SignInUndo, Revoke
  <2>2. NoNewSignIn
    <3>1. /\ \A d \in Calls \ {c} : pc'[d] = pc[d] /\ fresh'[d] = fresh[d]
          /\ \/ pc'[c] \notin Unstored
             \/ pc[c] = "inLoad" /\ fresh' = fresh
      BY <1>2 DEF SignInStep, SignInLoad, SignInParked, SignInClear, SignInRevoke, SignInUndo
    <3> QED BY <3>1 DEF NoNewSignIn
  <2>3. SameFamilies
    BY <1>2 DEF SameFamilies, FamilyIn, SignInStep, SignInLoad, SignInParked, SignInClear,
                SignInRevoke, SignInUndo
  <2>4. CASE pc'[c] \notin Outgoing
    <3>1. /\ \A d \in Calls \ {c} : pc'[d] = pc[d] /\ st'[d] = st[d]
      BY <1>2 DEF SignInStep, SignInLoad, SignInParked, SignInClear, SignInRevoke, SignInUndo
    <3>2. NoNewSignOut
      BY <2>4, <3>1 DEF NoNewSignOut
    <3> QED BY <2>1, <2>2, <2>3, <3>2, Abandons DEF Promise!Next
  <2>5. CASE pc'[c] \in Outgoing
    <3>1. PICK s \in Stores :
            /\ pc[c] = "inRevoke"
            /\ pc' = [pc EXCEPT ![c] = "outWait"] /\ st' = [st EXCEPT ![c] = s]
            /\ fresh' = [fresh EXCEPT ![c] = None]
      BY <1>2, <2>5 DEF Outgoing, SigningOut, SignInStep, SignInLoad, SignInParked,
                        SignInClear, SignInRevoke, SignInUndo
    <3>2. LeftStores' = LeftStores \cup {s}
      BY <3>1 DEF LeftStores, SigningOut
    <3>3. Pending' = Pending
      BY <3>1 DEF Pending
    <3>4. [x \in Stores |-> FamilyIn(x)]' = [x \in Stores |-> FamilyIn(x)]
      BY <2>3 DEF SameFamilies
    <3> QED BY <2>1, <3>2, <3>3, <3>4 DEF Promise!AskOut, Promise!Next
  <2> QED BY <2>4, <2>5
<1> QED BY <1>1, <1>2

(* An approval makes one sign-in pending and a sign-out is asked for; the    *)
(* other starts change nothing.                                             *)
LEMMA StartPromise ==
  ASSUME Base, NEW c \in Calls, Start(c) \/ TakeLock(c) \/ GiveUpWaiting(c)
  PROVE  Promise!Next
<1> USE DEF Base, Typed, TypeOK, Unstored, Goto, Finish, machine, issuer, Begin
<1>1. ASSUME NEW s \in Stores, Approve(c, s) PROVE Promise!Next
  <2>1. Pending' = Pending \cup {grants + 1}
    BY <1>1 DEF Approve, Pending
  <2>2. [x \in Stores |-> FamilyIn(x)]' = [x \in Stores |-> FamilyIn(x)]
    BY <1>1 DEF Approve, FamilyIn
  <2>3. LeftStores' = LeftStores
    BY <1>1 DEF Approve, LeftStores, SigningOut
  <2> QED BY <1>1, <2>1, <2>2, <2>3 DEF Approve, Promise!Approve, Promise!Next
<1>3. ASSUME NEW s \in Stores, BeginSignOut(c, s) PROVE Promise!Next
  <2>1. LeftStores' = LeftStores \cup {s}
    BY <1>3 DEF BeginSignOut, LeftStores, SigningOut
  <2>2. Pending' = Pending
    BY <1>3 DEF BeginSignOut, Pending
  <2>3. [x \in Stores |-> FamilyIn(x)]' = [x \in Stores |-> FamilyIn(x)]
    BY <1>3 DEF BeginSignOut, FamilyIn
  <2> QED BY <1>3, <2>1, <2>2, <2>3 DEF BeginSignOut, Promise!AskOut, Promise!Next
<1>2. ASSUME \/ \E s \in Stores : BeginSession(c, s)
             \/ TakeLock(c) \/ GiveUpWaiting(c)
      PROVE  Promise!Next
  <2>1. grants' = grants /\ SameFamilies
    BY <1>2 DEF BeginSession, TakeLock, GiveUpWaiting, SameFamilies, FamilyIn
  <2>2. NoNewSignIn
    BY <1>2 DEF BeginSession, TakeLock, GiveUpWaiting, NoNewSignIn, Behind, Waiting
  <2>3. NoNewSignOut
    BY <1>2 DEF BeginSession, TakeLock, GiveUpWaiting, NoNewSignOut, Behind, Waiting,
                Outgoing, SigningOut
  <2> QED BY <2>1, <2>2, <2>3, Abandons DEF Promise!Next
<1> QED BY <1>1, <1>2, <1>3 DEF Start

(* A process that leaves, parks or ends only drops sign-ins and sign-outs.   *)
LEMMA ProcStepPromise ==
  ASSUME Base, NEW p \in Procs, ProcStep(p)
  PROVE  Promise!Abandon
<1> USE DEF Base, Typed, TypeOK, Unstored, machine, issuer
<1>1. grants' = grants /\ SameFamilies
  BY DEF ProcStep, Done, Leave, Collect, Panic, ParkCollected, EndSettled, EndParked, Kill, Ends,
         SameFamilies, FamilyIn
<1>2. NoNewSignIn
  BY DEF ProcStep, Done, Leave, Collect, Panic, ParkCollected, EndSettled, EndParked, Kill, Ends,
         NoNewSignIn
<1>3. NoNewSignOut
  BY DEF ProcStep, Done, Leave, Collect, Panic, ParkCollected, EndSettled, EndParked, Kill, Ends,
         NoNewSignOut, Outgoing, SigningOut
<1> QED BY <1>1, <1>2, <1>3, Abandons

(* Every step is a step of SignedIn or changes nothing there.               *)
LEMMA StepPromise ==
  ASSUME Base, Kept, [Next]_vars
  PROVE  [Promise!Next]_Promise!vars
<1>1. ASSUME NEW c \in Calls, CallStep(c) PROVE Promise!Next
  BY <1>1, SessionStepPromise, SignOutStepPromise, SignInStepPromise, StartPromise
     DEF CallStep, Promise!Next
<1>2. ASSUME NEW p \in Procs, ProcStep(p) PROVE Promise!Next
  BY <1>2, ProcStepPromise DEF Promise!Next
<1>3. ASSUME ParkedSpoils \/ UNCHANGED vars PROVE Promise!Next
  <2>1. NoNewSignIn /\ NoNewSignOut /\ SameFamilies /\ grants' = grants
    BY <1>3 DEF ParkedSpoils, vars, issuer, NoNewSignIn, NoNewSignOut, SameFamilies, FamilyIn
  <2> QED BY <2>1, Abandons DEF Promise!Next
<1>4. ~OrphanLands
  BY DEF OrphanLands, Kept, NoOrphans
<1> QED BY <1>1, <1>2, <1>3, <1>4 DEF Next

(* The machine starts as SignedIn does.                                     *)
LEMMA InitPromise == Init => Promise!Init
<1> SUFFICES ASSUME Init PROVE Promise!Init
  OBVIOUS
<1>1. Pending = {} /\ LeftStores = {}
  BY DEF Init, Pending, LeftStores, SigningOut
<1>2. grants \in 0..1 /\ grants <= MaxGrant
  BY SessionAssumption DEF Init
<1>3. [s \in Stores |-> FamilyIn(s)] \in [Stores -> {0, grants}]
  BY SessionAssumption DEF Init, FamilyIn
<1> QED BY <1>1, <1>2, <1>3 DEF Promise!Init

(* Refreshing, parking and filing a session away, and every failure, signal, *)
(* panic and crash on the way, change nothing of who is signed in where: a    *)
(* store comes to another sign-in only by one that was approved and not       *)
(* stored before, and to none only while a sign-out that was asked for is     *)
(* under way for it.  Excepted is a store write that outlives its process.    *)
THEOREM PromiseKept ==
  ASSUME "orphan" \notin Faults
  PROVE  Spec => KeepsPromise
<1>1. Base /\ Kept /\ [Next]_vars => [Promise!Next]_Promise!vars
  BY StepPromise
<1> QED BY AlwaysKept, InitPromise, <1>1, PTL DEF Spec, KeepsPromise, Promise!Spec
=============================================================================
