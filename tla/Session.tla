------------------------------ MODULE Session ------------------------------
(***************************************************************************)
(* Signing in, keeping a session current and signing out, for one audience *)
(* on one machine (crates/erpc-auth/src/session.rs and lock.rs, with the   *)
(* process side of it in crates/erpc/src/interrupt.rs and main.rs).        *)
(*                                                                         *)
(* A refresh token belongs to a family (one sign-in) and has a generation  *)
(* in it: the issuer hands out generation n+1 for generation n, which is   *)
(* spent by that.  An issuer that sees a spent token revokes the family.   *)
(*                                                                         *)
(* A Call is one running command's use of the session, a Proc the erpc     *)
(* process it runs in: one process may run several calls (the console), and *)
(* the signal thread of a process acts next to its calls.  A process that  *)
(* ends takes its calls with it; the same name then stands for the next    *)
(* process started.  The lock is flock(2) on a file that stays, so it goes *)
(* with the call that has it or with its process.                          *)
(*                                                                         *)
(* Faults names what may go wrong in an instance; see the Fault* names.    *)
(***************************************************************************)
EXTENDS Naturals, FiniteSets

CONSTANTS Procs,        \* erpc processes
          Calls,        \* uses of the session
          ProcOf,       \* the process of a call
          Stores,       \* the credential stores a command may name (--store)
          MaxGrant,     \* bound: sign-ins the operator approves
          MaxGen,       \* bound: rotations of one family
          Faults,       \* which faults this instance has
          None,         \* no credential, no parked file, nobody
          Unreadable    \* a record this build cannot read

FaultNames == {"load", "save", "savedTold", "delete", "clear", "park", "reply",
               "revoke", "lock", "kill", "panic", "unwind", "impatient",
               "unreadable", "orphan"}

Grant == 1..MaxGrant
Token == [fam : Grant, gen : 0..MaxGen]
Record == [cred : Token, replaces : Token]

ASSUME SessionAssumption ==
  /\ ProcOf \in [Calls -> Procs]
  /\ MaxGrant \in Nat /\ MaxGen \in Nat
  /\ Faults \subseteq FaultNames
  /\ None \notin Token \cup Record \cup Calls \cup {Unreadable}
  /\ Unreadable \notin Token \cup Record

VARIABLES
  grants,   \* the issuer: families granted so far are 1..grants
  newest,   \* the issuer: the generation last handed out in each family
  revoked,  \* the issuer: families that are no longer live
  store,    \* what each credential store holds
  parked,   \* pending-credentials.<audience>
  lock,     \* the call that has locks/<audience>.lock
  pc,       \* where each call is
  st,       \* the store each call uses
  held,     \* the stored credential each call has read
  fresh,    \* the newer credential each call carries
  tried,    \* a sign-out's revocation attempts: which answers it got
  said,     \* what a call last told the operator
  unsaved,  \* IN_FLIGHT.unsaved: calls whose rotated session is unfiled
  phase,    \* of each process: "up", "done" with its work, "leaving" because
            \* asked to, or "parking" what it leaves with
  toPark,   \* what a leaving process has collected and not yet parked
  forfeit,  \* history: families a parked copy of which was not written, can no
            \* longer be read, was removed by a sign-in or a sign-out, or was
            \* replaced by a record that does not succeed it
  orphans   \* store writes that outlived the process that began them

vars == <<grants, newest, revoked, store, parked, lock, pc, st, held, fresh,
          tried, said, unsaved, phase, toPark, forfeit, orphans>>

issuer  == <<grants, newest, revoked>>
machine == <<store, parked, forfeit>>
process == <<phase, toPark, orphans>>

(* The places of a call, by operation.                                      *)
Reading   == {"recover", "file", "clear", "load"}
Unanswered == {"ask", "reply"}
Answered  == {"save", "park", "filed"}
Rotations == Unanswered \cup Answered
SigningOut == {"outLoad", "outParked", "outClear", "outDelete"}
SigningIn  == {"inLoad", "inSave", "inParked", "inClear", "inRevoke"}
Waiting    == {"wait", "outWait", "inWait"}
Locked     == Reading \cup Rotations \cup {"drop"} \cup SigningOut \cup SigningIn
Place      == {"idle", "inUndo"} \cup Waiting \cup Locked

Answer == {"none", "confirmed", "notConfirmed", "nothing", "failed"}

TypeOK ==
  /\ grants \in 0..MaxGrant
  /\ newest \in [Grant -> 0..MaxGen]
  /\ revoked \subseteq Grant
  /\ store \in [Stores -> Token \cup {None, Unreadable}]
  /\ parked \in Record \cup {None, Unreadable}
  /\ lock \in Calls \cup {None}
  /\ pc \in [Calls -> Place]
  /\ st \in [Calls -> Stores]
  /\ held \in [Calls -> Token \cup {None}]
  /\ fresh \in [Calls -> Token \cup {None}]
  /\ tried \in [Calls -> SUBSET BOOLEAN]
  /\ said \in [Calls -> Answer]
  /\ unsaved \subseteq Calls
  /\ phase \in [Procs -> {"up", "done", "leaving", "parking"}]
  /\ toPark \in [Procs -> SUBSET Record]
  /\ forfeit \subseteq Grant
  /\ orphans \subseteq [st : Stores, cred : Token]

(* A machine before its first sign-in, or one signed in with a session      *)
(* just granted; another build may have left what this one cannot read.     *)
Init ==
  /\ \/ /\ grants = 0
        /\ store \in [Stores -> {None, Unreadable}]
     \/ /\ grants = 1 /\ MaxGrant >= 1
        /\ \E s \in Stores :
             store = [x \in Stores |-> IF x = s THEN [fam |-> 1, gen |-> 0] ELSE None]
  /\ newest = [f \in Grant |-> 0]
  /\ revoked = {}
  /\ parked \in {None, Unreadable}
  /\ lock = None
  /\ pc = [c \in Calls |-> "idle"]
  /\ st \in [Calls -> Stores]
  /\ held = [c \in Calls |-> None]
  /\ fresh = [c \in Calls |-> None]
  /\ tried = [c \in Calls |-> {}]
  /\ said = [c \in Calls |-> "none"]
  /\ unsaved = {}
  /\ phase = [p \in Procs |-> "up"]
  /\ toPark = [p \in Procs |-> {}]
  /\ forfeit = {}
  /\ orphans = {}

-----------------------------------------------------------------------------
(* The issuer: newest and spent tokens, and a request to revoke one.        *)

Newest(f) == [fam |-> f, gen |-> newest[f]]
Spent(t)  == t.gen < newest[t.fam]

(* POST /revoke with t, and whether the issuer was heard to agree.  The     *)
(* newest token takes its family with it; what a spent one does is not      *)
(* known, and a request whose answer is lost may have arrived.              *)
Revoke(t, ok) ==
  \E hit \in BOOLEAN :
    /\ ok \/ "revoke" \in Faults
    /\ (ok /\ ~Spent(t)) => hit
    /\ revoked' = IF hit THEN revoked \cup {t.fam} ELSE revoked
    /\ UNCHANGED <<grants, newest>>

-----------------------------------------------------------------------------
(* One store write: done, refused with nothing written, or reported as a    *)
(* failure although it was applied (lock.rs, is_held_in).                   *)

Saved(s, t)   == store' = [store EXCEPT ![s] = t]
Refused       == "save" \in Faults /\ UNCHANGED store
ToldFailed(s, t) == "savedTold" \in Faults /\ Saved(s, t)
SaveFails(s, t)  == Refused \/ ToldFailed(s, t)

Goto(c, place) == pc' = [pc EXCEPT ![c] = place]
Release(c) == lock' = IF lock = c THEN None ELSE lock

(* The call returns: whatever it carried goes, and the lock if it had it.   *)
Finish(c) ==
  /\ Goto(c, "idle")
  /\ Release(c)
  /\ held' = [held EXCEPT ![c] = None]
  /\ fresh' = [fresh EXCEPT ![c] = None]

(* clear_parked, whose failure the caller may ignore.                       *)
ParkedCleared   == parked' = None
ParkedRemoved   == /\ ParkedCleared
                   /\ forfeit' = IF parked \in Record
                                 THEN forfeit \cup {parked.cred.fam} ELSE forfeit
ParkedStays     == parked # None /\ "clear" \in Faults /\ UNCHANGED parked

(* park_credential: the record in place of whatever was there, or a failure. *)
Succeeds(r, old) == r.cred.fam = old.cred.fam /\ r.cred.gen >= old.cred.gen
Park(r) ==
  \/ /\ parked' = r
     /\ forfeit' = IF parked \in Record /\ ~Succeeds(r, parked)
                   THEN forfeit \cup {parked.cred.fam} ELSE forfeit
  \/ /\ "park" \in Faults
     /\ forfeit' = forfeit \cup {r.cred.fam}
     /\ UNCHANGED parked

\* Mutant: a parked file is unconditional authority.
SupersedesAnything(r, t) == t \in Token
Supersedes(r, t) == t \in Token /\ t = r.replaces
IsHeldIn(r, t)   == t \in Token /\ t = r.cred

-----------------------------------------------------------------------------
(* Any operation: it begins, and takes the lock.                            *)

Begin(c, s, place) ==
  /\ pc[c] = "idle"
  /\ Goto(c, place)
  /\ st' = [st EXCEPT ![c] = s]
  /\ said' = [said EXCEPT ![c] = "none"]
  /\ tried' = [tried EXCEPT ![c] = {}]

BeginSession(c, s) ==
  /\ Begin(c, s, "wait")
  /\ UNCHANGED <<issuer, machine, lock, held, fresh, unsaved, process>>

BeginSignOut(c, s) ==
  /\ Begin(c, s, "outWait")
  /\ UNCHANGED <<issuer, machine, lock, held, fresh, unsaved, process>>

(* `login`: the device grant is approved before anything is locked.         *)
Approve(c, s) ==
  /\ grants < MaxGrant
  /\ grants' = grants + 1
  /\ Begin(c, s, "inWait")
  /\ fresh' = [fresh EXCEPT ![c] = [fam |-> grants + 1, gen |-> 0]]
  /\ UNCHANGED <<newest, revoked, machine, lock, held, unsaved, process>>

Behind(place) == CASE place = "wait"    -> "recover"
                   [] place = "outWait" -> "outLoad"
                   [] place = "inWait"  -> "inLoad"

\* Mutant: a lock that excludes nobody.
TakeLockHeld(c) ==
  /\ pc[c] \in Waiting
  /\ lock' = c
  /\ Goto(c, Behind(pc[c]))
  /\ UNCHANGED <<issuer, machine, st, held, fresh, tried, said, unsaved, process>>

TakeLock(c) ==
  /\ pc[c] \in Waiting
  /\ lock = None
  /\ lock' = c
  /\ Goto(c, Behind(pc[c]))
  /\ UNCHANGED <<issuer, machine, st, held, fresh, tried, said, unsaved, process>>

(* The lock file cannot be opened or locked; for a sign-in also the account *)
(* that does not exist (get_user), after which the new session is revoked.  *)
GiveUpWaiting(c) ==
  /\ "lock" \in Faults
  /\ pc[c] \in Waiting
  /\ \/ /\ pc[c] = "inWait"
        /\ Goto(c, "inUndo")
        /\ UNCHANGED <<lock, held, fresh>>
     \/ /\ pc[c] # "inWait"
        /\ Finish(c)
  /\ UNCHANGED <<issuer, machine, st, tried, said, unsaved, process>>

-----------------------------------------------------------------------------
(* current_session, first half: read_locked.                                *)

LoadFails(c) == store[st[c]] = Unreadable \/ "load" \in Faults

\* Mutant: only a parked file of a session the store has is acted on.
RecoverNothing(c) ==
  /\ pc[c] = "recover"
  /\ Goto(c, IF parked \in Record /\ IsHeldIn(parked, store[st[c]]) THEN "clear" ELSE "load")
  /\ UNCHANGED <<issuer, machine, lock, st, held, fresh, tried, said, unsaved, process>>

(* A parked session is filed over exactly the session it replaced, cleared  *)
(* if the store has it already, and otherwise left alone; one this build    *)
(* cannot read is skipped.                                                  *)
Recover(c) ==
  /\ pc[c] = "recover"
  /\ \/ /\ parked \notin Record
        /\ Goto(c, "load")
        /\ UNCHANGED <<lock, held, fresh>>
     \/ /\ parked \in Record /\ LoadFails(c)
        /\ Finish(c)
     \/ /\ parked \in Record /\ store[st[c]] # Unreadable
        /\ LET now == store[st[c]] IN
           \/ /\ Supersedes(parked, now)
              /\ Goto(c, "file")
              /\ fresh' = [fresh EXCEPT ![c] = parked.cred]
           \/ /\ ~Supersedes(parked, now)
              /\ Goto(c, IF IsHeldIn(parked, now) THEN "clear" ELSE "load")
              /\ UNCHANGED fresh
        /\ UNCHANGED <<lock, held>>
  /\ UNCHANGED <<issuer, machine, st, tried, said, unsaved, process>>

\* Mutant: clear, then save.
ClearThenFile(c) ==
  /\ pc[c] = "file"
  /\ parked' = None
  /\ \/ /\ Saved(st[c], fresh[c])
        /\ Goto(c, "clear")
        /\ UNCHANGED <<lock, held, fresh>>
     \/ /\ SaveFails(st[c], fresh[c])
        /\ Finish(c)
  /\ UNCHANGED <<issuer, forfeit, st, tried, said, unsaved, process>>

(* Save, then clear, in that order.                                         *)
FileParked(c) ==
  /\ pc[c] = "file"
  /\ \/ /\ Saved(st[c], fresh[c])
        /\ Goto(c, "clear")
        /\ UNCHANGED <<lock, held, fresh>>
     \/ /\ SaveFails(st[c], fresh[c])
        /\ Finish(c)
  /\ UNCHANGED <<issuer, parked, forfeit, st, tried, said, unsaved, process>>

ClearParked(c) ==
  /\ pc[c] = "clear"
  /\ ParkedCleared \/ ParkedStays
  /\ Goto(c, "load")
  /\ fresh' = [fresh EXCEPT ![c] = None]
  /\ UNCHANGED <<issuer, store, forfeit, lock, st, held, tried, said, unsaved, process>>

(* The read inside the lock, and what current_session makes of it: nothing  *)
(* stored, usable as it is, or a rotation -- which a process that has begun  *)
(* to leave does not start (Rotating::begin).  Whether a session needs       *)
(* refreshing is the clock's choice; MaxGen bounds it.                      *)
Load(c) ==
  /\ pc[c] = "load"
  /\ \/ Finish(c)   \* no session, a read that failed, usable, or leaving
     \/ /\ store[st[c]] \in Token
        /\ store[st[c]].gen < MaxGen
        /\ phase[ProcOf[c]] = "up"
        /\ Goto(c, "ask")
        /\ held' = [held EXCEPT ![c] = store[st[c]]]
        /\ UNCHANGED <<lock, fresh>>
  /\ UNCHANGED <<issuer, machine, st, tried, said, unsaved, process>>

-----------------------------------------------------------------------------
(* current_session, second half: the rotation, a task of its own.           *)

(* The issuer sees the token: it rotates the newest one of a live family,    *)
(* refuses one of a family that is gone, and revokes the family of a spent   *)
(* one.  A refusal ends the call (SessionError::Expired).                   *)
IssuerAnswers(c) ==
  /\ pc[c] = "ask"
  /\ LET f == held[c].fam IN
     \/ /\ f \notin revoked /\ ~Spent(held[c])
        /\ newest' = [newest EXCEPT ![f] = @ + 1]
        /\ fresh' = [fresh EXCEPT ![c] = [fam |-> f, gen |-> newest[f] + 1]]
        /\ Goto(c, "reply")
        /\ UNCHANGED <<revoked, lock, held>>
     \/ /\ f \in revoked \/ Spent(held[c])
        /\ revoked' = revoked \cup {f}
        /\ Finish(c)
        /\ UNCHANGED newest
  /\ UNCHANGED <<grants, machine, st, tried, said, unsaved, process>>

(* The request fails on its way there, or the answer on its way back or in   *)
(* its parsing: the caller gets the error, and what came back is gone.       *)
RequestFails(c) ==
  /\ "reply" \in Faults
  /\ pc[c] \in Unanswered
  /\ Finish(c)
  /\ UNCHANGED <<issuer, machine, st, tried, said, unsaved, process>>

\* Mutant: the lock is let go once the issuer has answered.
ReplyReleases(c) ==
  /\ pc[c] = "reply"
  /\ Goto(c, "save")
  /\ unsaved' = unsaved \cup {c}
  /\ lock' = None
  /\ UNCHANGED <<issuer, machine, st, held, fresh, tried, said, process>>

(* Rotating::answered: from here a process that ends can park it.           *)
ReplyArrives(c) ==
  /\ pc[c] = "reply"
  /\ Goto(c, "save")
  /\ unsaved' = unsaved \cup {c}
  /\ UNCHANGED <<issuer, machine, lock, st, held, fresh, tried, said, process>>

(* file_rotation.                                                           *)
SaveRotated(c) ==
  /\ pc[c] = "save"
  /\ \/ Saved(st[c], fresh[c]) /\ Goto(c, "filed")
     \/ SaveFails(st[c], fresh[c]) /\ Goto(c, "park")
  /\ UNCHANGED <<issuer, parked, forfeit, lock, st, held, fresh, tried, said, unsaved, process>>

ParkRotated(c) ==
  /\ pc[c] = "park"
  /\ Park([cred |-> fresh[c], replaces |-> held[c]])
  /\ Goto(c, "filed")
  /\ UNCHANGED <<issuer, store, lock, st, held, fresh, tried, said, unsaved, process>>

(* Rotating::filed, then its drop: no longer unsaved, no longer counted, and *)
(* the lock goes.                                                           *)
Filed(c) ==
  /\ pc[c] = "filed"
  /\ unsaved' = unsaved \ {c}
  /\ Finish(c)
  /\ UNCHANGED <<issuer, machine, st, tried, said, process>>

(* Rotating's drop in a build that unwinds: the rotation panics in the store *)
(* call.  It is first taken off the counts, then parked, then the lock goes. *)
Unwind(c) ==
  /\ "unwind" \in Faults
  /\ pc[c] = "save"
  /\ unsaved' = unsaved \ {c}
  /\ Goto(c, "drop")
  /\ UNCHANGED <<issuer, machine, lock, st, held, fresh, tried, said, process>>

DropParks(c) ==
  /\ pc[c] = "drop"
  /\ Park([cred |-> fresh[c], replaces |-> held[c]])
  /\ Finish(c)
  /\ UNCHANGED <<issuer, store, st, tried, said, unsaved, process>>

-----------------------------------------------------------------------------
(* sign_out: revoke what the store holds and what is parked, then remove     *)
(* both, whatever either revocation or the other removal did.               *)

SignOutLoad(c) ==
  /\ pc[c] = "outLoad"
  /\ \/ /\ store[st[c]] = None
        /\ Goto(c, "outParked")
        /\ UNCHANGED <<issuer, lock, held, fresh, tried, said>>
     \/ /\ store[st[c]] = Unreadable
        /\ Goto(c, "outParked")
        /\ tried' = [tried EXCEPT ![c] = {FALSE}]
        /\ UNCHANGED <<issuer, lock, held, fresh, said>>
     \/ /\ store[st[c]] \in Token
        /\ \E ok \in BOOLEAN :
             /\ Revoke(store[st[c]], ok)
             /\ tried' = [tried EXCEPT ![c] = {ok}]
        /\ held' = [held EXCEPT ![c] = store[st[c]]]
        /\ Goto(c, "outParked")
        /\ UNCHANGED <<lock, fresh, said>>
     \/ /\ "load" \in Faults
        /\ Finish(c)
        /\ said' = [said EXCEPT ![c] = "failed"]
        /\ UNCHANGED <<issuer, tried>>
  /\ UNCHANGED <<machine, st, unsaved, process>>

SignOutParked(c) ==
  /\ pc[c] = "outParked"
  /\ \/ parked = None /\ UNCHANGED <<issuer, tried>>
     \/ /\ parked = Unreadable
        /\ tried' = [tried EXCEPT ![c] = @ \cup {FALSE}]
        /\ UNCHANGED issuer
     \/ /\ parked \in Record
        /\ \E ok \in BOOLEAN :
             /\ Revoke(parked.cred, ok)
             /\ tried' = [tried EXCEPT ![c] = @ \cup {ok}]
  /\ Goto(c, "outClear")
  /\ UNCHANGED <<machine, lock, st, held, fresh, said, unsaved, process>>

\* Mutant: a parked file that stays is passed over.
SignOutClearQuietly(c) ==
  /\ pc[c] = "outClear"
  /\ ParkedRemoved \/ (ParkedStays /\ UNCHANGED forfeit)
  /\ Goto(c, "outDelete")
  /\ UNCHANGED <<issuer, store, lock, st, held, fresh, tried, said, unsaved, process>>

SignOutClear(c) ==
  /\ pc[c] = "outClear"
  /\ \/ ParkedRemoved /\ UNCHANGED said
     \/ ParkedStays /\ UNCHANGED forfeit /\ said' = [said EXCEPT ![c] = "failed"]
  /\ Goto(c, "outDelete")
  /\ UNCHANGED <<issuer, store, lock, st, held, fresh, tried, unsaved, process>>

\* Mutant: one revocation that went through is enough.
OutcomeOfAny(c) == CASE said[c] = "failed" -> "failed"
                     [] said[c] # "failed" /\ tried[c] = {} -> "nothing"
                     [] said[c] # "failed" /\ TRUE \in tried[c] -> "confirmed"
                     [] OTHER -> "notConfirmed"

Outcome(c) == CASE said[c] = "failed" -> "failed"
                [] said[c] # "failed" /\ tried[c] = {} -> "nothing"
                [] said[c] # "failed" /\ FALSE \in tried[c] -> "notConfirmed"
                [] OTHER -> "confirmed"

SignOutDelete(c) ==
  /\ pc[c] = "outDelete"
  /\ \/ /\ store' = [store EXCEPT ![st[c]] = None]
        /\ said' = [said EXCEPT ![c] = Outcome(c)]
     \/ /\ "delete" \in Faults
        /\ said' = [said EXCEPT ![c] = "failed"]
        /\ UNCHANGED store
  /\ Finish(c)
  /\ UNCHANGED <<issuer, parked, forfeit, st, tried, unsaved, process>>

-----------------------------------------------------------------------------
(* store_new_session, and what `login` does around it.                      *)

\* Mutant: the stored record is taken as it is.
SignInLoadAny(c) ==
  /\ pc[c] = "inLoad"
  /\ Goto(c, "inSave")
  /\ held' = [held EXCEPT ![c] = store[st[c]]]
  /\ UNCHANGED <<issuer, machine, lock, st, fresh, tried, said, unsaved, process>>

SignInLoad(c) ==
  /\ pc[c] = "inLoad"
  /\ \/ /\ Goto(c, "inSave")
        /\ held' = [held EXCEPT ![c] = IF store[st[c]] \in Token
                                       THEN store[st[c]] ELSE None]
        /\ UNCHANGED lock
     \/ /\ "load" \in Faults
        /\ Goto(c, "inUndo")
        /\ Release(c)
        /\ UNCHANGED held
  /\ UNCHANGED <<issuer, machine, st, fresh, tried, said, unsaved, process>>

SignInSave(c) ==
  /\ pc[c] = "inSave"
  /\ \/ /\ Saved(st[c], fresh[c])
        /\ Goto(c, "inParked")
        /\ UNCHANGED lock
     \/ /\ SaveFails(st[c], fresh[c])
        /\ Goto(c, "inUndo")
        /\ Release(c)
  /\ UNCHANGED <<issuer, parked, forfeit, st, held, fresh, tried, said, unsaved, process>>

SignInParked(c) ==
  /\ pc[c] = "inParked"
  /\ \/ parked \notin Record /\ UNCHANGED issuer
     \/ /\ parked \in Record
        /\ \E ok \in BOOLEAN : Revoke(parked.cred, ok)
  /\ Goto(c, "inClear")
  /\ UNCHANGED <<machine, lock, st, held, fresh, tried, said, unsaved, process>>

\* Mutant: a parked file that cannot be removed fails the sign-in.
SignInClearOrFail(c) ==
  /\ pc[c] = "inClear"
  /\ \/ ParkedRemoved /\ Goto(c, "inRevoke") /\ UNCHANGED lock
     \/ ParkedStays /\ UNCHANGED forfeit /\ Goto(c, "inUndo") /\ Release(c)
  /\ UNCHANGED <<issuer, store, st, held, fresh, tried, said, unsaved, process>>

SignInClear(c) ==
  /\ pc[c] = "inClear"
  /\ ParkedRemoved \/ (ParkedStays /\ UNCHANGED forfeit)
  /\ Goto(c, "inRevoke")
  /\ UNCHANGED <<issuer, store, lock, st, held, fresh, tried, said, unsaved, process>>

(* The previous session goes last.  A sign-in that moved to another store    *)
(* then signs out of the one it left (record_choice).                       *)
SignInRevoke(c) ==
  /\ pc[c] = "inRevoke"
  /\ \/ held[c] = None /\ UNCHANGED issuer
     \/ /\ held[c] # None
        /\ \E ok \in BOOLEAN : Revoke(held[c], ok)
  /\ Release(c)
  /\ held' = [held EXCEPT ![c] = None]
  /\ fresh' = [fresh EXCEPT ![c] = None]
  /\ \/ Goto(c, "idle") /\ UNCHANGED st
     \/ \E s \in Stores \ {st[c]} :
          /\ Goto(c, "outWait")
          /\ st' = [st EXCEPT ![c] = s]
  /\ UNCHANGED <<machine, tried, said, unsaved, process>>

(* A sign-in that failed revokes the session nobody is going to hold.       *)
SignInUndo(c) ==
  /\ pc[c] = "inUndo"
  /\ \E ok \in BOOLEAN : Revoke(fresh[c], ok)
  /\ Finish(c)
  /\ said' = [said EXCEPT ![c] = "failed"]
  /\ UNCHANGED <<machine, st, tried, unsaved, process>>

-----------------------------------------------------------------------------
(* The process on its way out.                                              *)

CallsOf(p) == {c \in Calls : ProcOf[c] = p}
Rotating(p) == \E c \in CallsOf(p) : pc[c] \in Rotations
Collected(p) == {[cred |-> fresh[c], replaces |-> held[c]] : c \in CallsOf(p) \cap unsaved}

(* main's run_to_end: the command has returned, and the process waits for a  *)
(* rotation under way, however long that takes.                             *)
Done(p) ==
  /\ phase[p] = "up"
  /\ phase' = [phase EXCEPT ![p] = "done"]
  /\ UNCHANGED <<issuer, machine, lock, pc, st, held, fresh, tried, said, unsaved, toPark, orphans>>

(* A signal, answered by the signal thread (leave).                         *)
Leave(p) ==
  /\ phase[p] \in {"up", "done"}
  /\ phase' = [phase EXCEPT ![p] = "leaving"]
  /\ UNCHANGED <<issuer, machine, lock, pc, st, held, fresh, tried, said, unsaved, toPark, orphans>>

\* Mutant: the way out waits for the store however long it takes.
CollectSettled(p) ==
  /\ phase[p] = "leaving"
  /\ ~Rotating(p)
  /\ phase' = [phase EXCEPT ![p] = "parking"]
  /\ toPark' = [toPark EXCEPT ![p] = {}]
  /\ UNCHANGED <<issuer, machine, lock, pc, st, held, fresh, tried, said, unsaved, orphans>>

(* The grace is over or a second signal came: once no rotation waits for the *)
(* issuer, park() collects what is unsaved (answered(), then park()).       *)
Collect(p) ==
  /\ "impatient" \in Faults
  /\ phase[p] = "leaving"
  /\ \A c \in CallsOf(p) : pc[c] \notin Unanswered
  /\ phase' = [phase EXCEPT ![p] = "parking"]
  /\ toPark' = [toPark EXCEPT ![p] = Collected(p)]
  /\ UNCHANGED <<issuer, machine, lock, pc, st, held, fresh, tried, said, unsaved, orphans>>

(* The hook of a panic that ends the process parks what there is, at once.  *)
Panic(p) ==
  /\ "panic" \in Faults
  /\ phase[p] # "parking"
  /\ phase' = [phase EXCEPT ![p] = "parking"]
  /\ toPark' = [toPark EXCEPT ![p] = Collected(p)]
  /\ UNCHANGED <<issuer, machine, lock, pc, st, held, fresh, tried, said, unsaved, orphans>>

(* Written one by one, and under no lock of this thread's.                  *)
ParkCollected(p) ==
  /\ phase[p] = "parking"
  /\ \E r \in toPark[p] :
       /\ Park(r)
       /\ toPark' = [toPark EXCEPT ![p] = @ \ {r}]
  /\ UNCHANGED <<issuer, store, lock, pc, st, held, fresh, tried, said, unsaved, phase, orphans>>

(* The end of the process: its calls stop where they are, its locks go, and  *)
(* a store write that is a child process of it may still be running.        *)
Ends(p) ==
  /\ pc' = [c \in Calls |-> IF ProcOf[c] = p THEN "idle" ELSE pc[c]]
  /\ held' = [c \in Calls |-> IF ProcOf[c] = p THEN None ELSE held[c]]
  /\ fresh' = [c \in Calls |-> IF ProcOf[c] = p THEN None ELSE fresh[c]]
  /\ lock' = IF lock \in CallsOf(p) THEN None ELSE lock
  /\ unsaved' = unsaved \ CallsOf(p)
  /\ phase' = [phase EXCEPT ![p] = "up"]
  /\ toPark' = [toPark EXCEPT ![p] = {}]
  /\ orphans' = IF "orphan" \in Faults
                THEN orphans \cup
                     {[st |-> st[c], cred |-> fresh[c]] :
                       c \in {d \in CallsOf(p) : pc[d] \in {"save", "file", "inSave"}}}
                ELSE orphans
  /\ UNCHANGED <<issuer, machine, st, tried, said>>

EndSettled(p) == phase[p] \in {"done", "leaving"} /\ ~Rotating(p) /\ Ends(p)
EndParked(p)  == phase[p] = "parking" /\ toPark[p] = {} /\ Ends(p)
Kill(p)       == "kill" \in Faults /\ Ends(p)

-----------------------------------------------------------------------------
(* What happens around erpc.                                                *)

(* A parked file another build wrote over, or that can no longer be opened. *)
ParkedSpoils ==
  /\ "unreadable" \in Faults
  /\ parked \in Record
  /\ parked' = Unreadable
  /\ forfeit' = forfeit \cup {parked.cred.fam}
  /\ UNCHANGED <<issuer, store, lock, pc, st, held, fresh, tried, said, unsaved, process>>

(* A store write that outlived its process lands.                           *)
OrphanLands ==
  /\ \E o \in orphans :
       /\ Saved(o.st, o.cred)
       /\ orphans' = orphans \ {o}
  /\ UNCHANGED <<issuer, parked, forfeit, lock, pc, st, held, fresh, tried, said, unsaved, phase, toPark>>

SessionStep(c) ==
  \/ Recover(c) \/ FileParked(c) \/ ClearParked(c) \/ Load(c)
  \/ IssuerAnswers(c) \/ RequestFails(c) \/ ReplyArrives(c)
  \/ SaveRotated(c) \/ ParkRotated(c) \/ Filed(c) \/ DropParks(c)

SignOutStep(c) ==
  SignOutLoad(c) \/ SignOutParked(c) \/ SignOutClear(c) \/ SignOutDelete(c)

SignInStep(c) ==
  \/ SignInLoad(c) \/ SignInSave(c) \/ SignInParked(c) \/ SignInClear(c)
  \/ SignInRevoke(c) \/ SignInUndo(c)

Start(c) == \E s \in Stores : BeginSession(c, s) \/ BeginSignOut(c, s) \/ Approve(c, s)

CallStep(c) ==
  \/ Start(c) \/ TakeLock(c) \/ GiveUpWaiting(c) \/ Unwind(c)
  \/ SessionStep(c) \/ SignOutStep(c) \/ SignInStep(c)

ProcStep(p) ==
  \/ Done(p) \/ Leave(p) \/ Collect(p) \/ Panic(p) \/ ParkCollected(p)
  \/ EndSettled(p) \/ EndParked(p) \/ Kill(p)

Next ==
  \/ \E c \in Calls : CallStep(c)
  \/ \E p \in Procs : ProcStep(p)
  \/ ParkedSpoils
  \/ OrphanLands

Spec == Init /\ [][Next]_vars

-----------------------------------------------------------------------------
(* Properties.                                                              *)

(* The tokens there are on the machine, and whether the newest one of family *)
(* f is among them.                                                         *)
Copies == {store[s] : s \in Stores} \cup {fresh[c] : c \in Calls}
            \cup {r.cred : r \in ({parked} \cap Record) \cup UNION {toPark[p] : p \in Procs}}
HasCopy(f) == Newest(f) \in Copies

(* current_session reads the store again under the lock and files away what  *)
(* is parked "or the older copy would be refreshed with a spent token and    *)
(* the issuer would revoke the family".  So a spent token of a live family   *)
(* is presented only when its successor is gone from the machine, or when    *)
(* the parked copy of it could not be written or read.                       *)
SpentOnlyIfLost ==
  \A c \in Calls : pc[c] = "ask" /\ Spent(held[c]) =>
    \/ held[c].fam \in revoked \cup forfeit
    \/ ~HasCopy(held[c].fam)

(* "A failure leaves either the old session or the new one, never neither": *)
(* when a store is left with a spent token of a live family, its successor   *)
(* is still on the machine.                                                  *)
NeverNeither ==
  \A s \in Stores : store[s] \in Token /\ Spent(store[s]) =>
    store[s].fam \in revoked \/ HasCopy(store[s].fam)

(* A sign-in that is undone revokes a session nobody holds: not one that a   *)
(* store was left with ("the operator told the sign-in failed, a revoked     *)
(* token in the store, and the previous session alive").                     *)
UndoneIsNotStored ==
  \A c \in Calls : pc[c] = "inUndo" => \A s \in Stores : store[s] # fresh[c]

(* "Signed out" with the revocation confirmed: the session the store held    *)
(* is dead at the issuer, unless it was spent before and its successor, the   *)
(* token that is live, was lost.                                            *)
ConfirmedIsRevoked ==
  [][\A c \in Calls :
       said[c] # "confirmed" /\ said'[c] = "confirmed" /\ held[c] # None =>
         \/ held[c].fam \in revoked
         \/ /\ Spent(held[c])
            /\ held[c].fam \in forfeit \/ ~HasCopy(held[c].fam)]_vars

(* A sign-out that reports success leaves no session on this machine: neither *)
(* in the store it was asked about nor in a parked file.                     *)
SignedOutLeavesNothing ==
  [][\A c \in Calls :
       pc[c] = "outDelete" /\ said'[c] \in {"confirmed", "notConfirmed", "nothing"} =>
         store'[st[c]] = None /\ parked' = None]_vars

(* "A save that lands after all leaves a parked copy of what the store holds": *)
(* a store write that outlived its process never takes a later session back.  *)
LateSaveTakesNothingBack ==
  \A o \in orphans : store[o.st] \in Token =>
    \/ store[o.st].fam \in revoked
    \/ Spent(store[o.st])
    \/ store[o.st] = o.cred

(* The writers of one key are serialised: whoever is between taking the lock *)
(* and its last write is the call that has the lock.                         *)
OneAtATime == \A c \in Calls : pc[c] \in Locked => lock = c

-----------------------------------------------------------------------------
(* What the machine promises, store by store: module SignedIn.              *)

Pending == {fresh[c].fam : c \in {d \in Calls : pc[d] \in {"inWait", "inLoad", "inSave"}}}
FamilyIn(s) == IF store[s] \in Token THEN store[s].fam ELSE 0
LeftStores == {st[c] : c \in {d \in Calls : pc[d] \in {"outWait"} \cup SigningOut}}

Promise == INSTANCE SignedIn WITH pending <- Pending,
                                  session <- [s \in Stores |-> FamilyIn(s)],
                                  signOuts <- LeftStores

(* A store is signed in to another family only by a sign-in that was approved *)
(* and not yet stored, and is emptied only while a sign-out that was asked    *)
(* for is under way for that store; no refresh, parked file, refusal, failure *)
(* or crash brings an older sign-in back or takes one away.                   *)
KeepsPromise == Promise!Spec

-----------------------------------------------------------------------------
(* Fairness.                                                                *)

(* What bounds the way out whatever the store does: the request's timeout,   *)
(* the grace, and the signal thread's own steps.                            *)
TimersRun ==
  /\ \A c \in Calls : WF_vars(IssuerAnswers(c)) /\ WF_vars(ReplyArrives(c) \/ RequestFails(c))
  /\ \A p \in Procs : /\ WF_vars(Collect(p))
                       /\ WF_vars(ParkCollected(p))
                       /\ WF_vars(EndSettled(p) \/ EndParked(p))

(* The operator runs a command again and again; its steps are taken, and a    *)
(* lock that keeps being released is had in the end.                        *)
CommandsRun ==
  \A c \in Calls : /\ \A s \in Stores : WF_vars(BeginSession(c, s))
                   /\ SF_vars(TakeLock(c))
                   /\ WF_vars(SessionStep(c))
                   /\ WF_vars(SignOutStep(c))
                   /\ WF_vars(SignInStep(c))

LeavingSpec == Spec /\ TimersRun
WorkingSpec == Spec /\ TimersRun /\ CommandsRun

(* A process asked to stop stops, though the store never answers: it waits    *)
(* for the issuer and for the grace, not for the store.  (One that is done    *)
(* and is not asked waits for the store.)                                   *)
LeavingEnds == \A p \in Procs : phase[p] \in {"leaving", "parking"} ~> phase[p] = "up"

(* "The next command files them away and deletes that file, as long as        *)
(* nothing else has written the store first" -- once the commands that are run *)
(* are left to finish, and reads, writes and locks no longer fail.            *)
Awaited == parked \in Record /\ \E s \in Stores : Supersedes(parked, store[s])
LeftToFinish == \A p \in Procs : phase[p] = "up"
Works ==
  \A c \in Calls : /\ pc[c] \in Waiting \cup {"recover", "file"} => pc'[c] # "idle"
                   /\ said'[c] = "failed" => said[c] = "failed"
ParkedIsFiled ==
  <>[]LeftToFinish /\ <>[][Works]_vars => (Awaited ~> ~Awaited)
=============================================================================
