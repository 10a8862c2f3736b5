-------------------------- MODULE PurchasesProofs --------------------------
(***************************************************************************)
(* What holds of module Purchases for any number of clients, kinds of      *)
(* lines and purchases, and every fault.                                   *)
(***************************************************************************)
EXTENDS Purchases, FiniteSetTheorems, TLAPS

-----------------------------------------------------------------------------
(* Shapes.                                                                  *)

(* Ids are given in order, what is charged or listed was bought, and what   *)
(* is active is both.                                                       *)
AccountInv ==
  /\ \E n \in 0..MaxBought : Bought = 1..n
  /\ charged \subseteq Bought /\ listed \subseteq Bought
  /\ ready \subseteq charged \cap listed

(* A record names products of the kinds it names them as, and a line it has *)
(* seen with its endpoint is in the status list as long as it is charged.   *)
Good(e) ==
  /\ e.vps # 0 => kind[e.vps] = "vps"
  /\ \A k \in Lines :
       e.lines[k].id # 0 =>
         /\ kind[e.lines[k].id] = k
         /\ e.lines[k].seen /\ e.lines[k].id \in charged => e.lines[k].id \in listed

DeployPlaces == {"server", "start", "started", "build", "forget", "lines", "list", "charges",
                 "sight", "wait", "undo"}
DeletePlaces == {"remove", "ends", "endLines"}
RunPlaces == {"find", "buy", "bought", "await", "runs", "letgo"}

(* A command is where its verb takes it, and only a run holds lines.        *)
VerbFits(p, j) ==
  /\ p = "idle" => j = NoJob
  /\ p \in DeployPlaces => j.verb = "deploy"
  /\ p \in DeletePlaces => j.verb = "delete"
  /\ p \in RunPlaces => j.verb = "run"
  /\ p = "finish" => j.verb \in {"deploy", "delete"}
  /\ p \notin RunPlaces => j.held = NoJob.held

Empty(e, k) == IF k = "vps" THEN e.vps = 0 ELSE e.lines[k].id = 0

(* A deploy buys for a place with nothing in it, and looks at the line its  *)
(* copy has; a line it saw and does not find listed is not charged.         *)
DeployFits(p, j, e) ==
  /\ p = "server" => j.kind = "vps"
  /\ p \in {"start", "started"} => Empty(e, j.kind)
  /\ p = "started" => j.id \in Ids /\ kind[j.id] = j.kind
  /\ p \in {"list", "charges", "sight", "wait", "undo"} =>
       j.kind \in Lines /\ j.id = e.lines[j.kind].id /\ j.id # 0
  /\ p = "charges" /\ ~j.listed /\ e.lines[j.kind].seen => j.id \notin charged
  /\ p = "forget" => j.forget # 0

(* A release has ended every line that is neither left nor failed, and the  *)
(* server unless that failed; a delete that keeps what is bought has no     *)
(* failure.                                                                 *)
DeleteFits(p, j, e) ==
  /\ p = "remove" => j.failed = {} /\ j.removal = "none" /\ ~j.ended
  /\ p \in {"ends", "endLines"} => j.release /\ ~j.ended
  /\ p = "ends" => j.failed = {}
  /\ p = "endLines" => "vps" \notin j.failed
  /\ p = "endLines" \/ (p = "finish" /\ j.verb = "delete" /\ j.release) =>
       \A k \in Lines \ (j.left \cup j.failed) : e.lines[k].id \notin charged
  /\ p = "finish" /\ j.verb = "delete" =>
       IF j.release
       THEN j.left = {} /\ (j.ended \/ "vps" \notin j.failed => e.vps \notin charged)
       ELSE j.failed = {} /\ j.removal # "failed"

(* A run holds nothing of a kind it still looks for.                        *)
RunFits(p, j) ==
  /\ p = "find" => \A k \in j.asked : j.held[k].id = 0
  /\ p \in {"buy", "bought"} => j.kind \in Lines /\ j.held[j.kind].id = 0
  /\ p \in {"buy", "bought", "await"} => \A k \in j.asked \ {j.kind} : j.held[k].id = 0
  /\ p = "bought" => j.id # 0

Fits(p, j, e) == VerbFits(p, j) /\ DeployFits(p, j, e) /\ DeleteFits(p, j, e) /\ RunFits(p, j)

Shape ==
  /\ TypeOK /\ AccountInv /\ Good(record)
  /\ \A c \in Clients : Good(env[c]) /\ Fits(pc[c], job[c], env[c])

-----------------------------------------------------------------------------
(* Types.                                                                   *)

(* What is written over a copy of the record is one.                        *)
LEMMA EnvOps ==
  ASSUME NEW e \in Env, NEW k \in Kinds, NEW i \in Maybe, NEW seen \in BOOLEAN
  PROVE  /\ Without(e, i) \in Env /\ With(e, k, i, seen) \in Env
         /\ [e EXCEPT !.there = TRUE] \in Env
         /\ LineIds(e) \subseteq Ids /\ IdsOf(e) \subseteq Ids
<1> USE DEF Env, OnLine, NoLine, Maybe
<1>1. Without(e, i) \in Env
  BY DEF Without
<1>2. With(e, k, i, seen) \in Env
  BY DEF With
<1>3. LineIds(e) \subseteq Ids /\ IdsOf(e) \subseteq Ids
  BY DEF LineIds, IdsOf
<1> QED BY <1>1, <1>2, <1>3

(* Nothing on record, and nothing to do, are of their kinds.                *)
LEMMA Nothing == NoEnv \in Env /\ NoJob \in Job
<1>1. NoEnv \in Env
  BY DEF NoEnv, Env, OnLine, NoLine, Maybe
<1>2. NoJob \in Job
  BY DEF NoJob, Job, Held, NotHeld, Maybe, Kinds, Verbs, Removals
<1> QED BY <1>1, <1>2

(* A write of the record leaves a record.                                   *)
LEMMA WritesTyped ==
  ASSUME TypeOK, NEW c \in Clients, NEW e \in Env,
         Saves(c, e) \/ SaveFails(c, e) \/ KeepsRecord
  PROVE  record' \in Env /\ stale' \subseteq Clients
<1>1. [e EXCEPT !.there = TRUE] \in Env
  BY DEF Env
<1> QED BY <1>1 DEF TypeOK, Saves, SaveFails, KeepsRecord

(* What a step may do to the account.                                       *)
AccountActs ==
  \/ UNCHANGED account
  \/ \E i \in Ids, k \in Kinds, where \in Places : Starts(i, k, where)
  \/ \E i \in Ids : Ends(i)
  \/ ListCatchesUp \/ SnapshotCatchesUp \/ GetsReady \/ EndedElsewhere

(* The account's kinds are kept.                                            *)
LEMMA AccountTypes == AccountTyped /\ AccountActs => AccountTyped'
<1> SUFFICES ASSUME AccountTyped, AccountActs PROVE AccountTyped'
  OBVIOUS
<1> USE DEF AccountTyped
<1>1. CASE UNCHANGED account
  BY <1>1 DEF account
<1>2. ASSUME NEW i \in Ids, NEW k \in Kinds, NEW where \in Places, Starts(i, k, where)
      PROVE AccountTyped'
  BY <1>2 DEF Starts
<1>3. ASSUME NEW i \in Ids, Ends(i) PROVE AccountTyped'
  BY <1>3 DEF Ends
<1>4. CASE ListCatchesUp
  BY <1>4 DEF ListCatchesUp, CatchesUp
<1>5. CASE SnapshotCatchesUp
  BY <1>5 DEF SnapshotCatchesUp, CatchesUp
<1>6. CASE GetsReady
  BY <1>6 DEF GetsReady, views
<1>7. CASE EndedElsewhere
  BY <1>7 DEF EndedElsewhere, views
<1> QED BY <1>1, <1>2, <1>3, <1>4, <1>5, <1>6, <1>7 DEF AccountActs

(* What a step of a client c leaves typed.                                  *)
Acts(c) ==
  /\ AccountActs
  /\ record' \in Env /\ stale' \subseteq Clients
  /\ pc' \in [Clients -> Steps] /\ job' \in [Clients -> Job] /\ env' \in [Clients -> Env]
  /\ \A d \in Clients \ {c} : pc'[d] = pc[d] /\ job'[d] = job[d] /\ env'[d] = env[d]
  /\ told' \subseteq Ids

(* A command that goes on, or ends.                                         *)
LEMMA GoesTyped ==
  ASSUME TypeOK, NEW c \in Clients
  PROVE  /\ \A p \in Steps : Goto(c, p) => pc' \in [Clients -> Steps] /\ pc'[c] = p
                 /\ \A d \in Clients \ {c} : pc'[d] = pc[d]
         /\ \A j \in Job : Does(c, j) => job' \in [Clients -> Job] /\ job'[c] = j
                 /\ \A d \in Clients \ {c} : job'[d] = job[d]
         /\ \A e \in Env : Has(c, e) => env' \in [Clients -> Env] /\ env'[c] = e
                 /\ \A d \in Clients \ {c} : env'[d] = env[d]
         /\ Answers(c) =>
              /\ pc' \in [Clients -> Steps] /\ job' \in [Clients -> Job] /\ env' \in [Clients -> Env]
              /\ pc'[c] = "idle" /\ job'[c] = NoJob /\ env'[c] = NoEnv
              /\ \A d \in Clients \ {c} : pc'[d] = pc[d] /\ job'[d] = job[d] /\ env'[d] = env[d]
<1>1. \A p \in Steps : Goto(c, p) => pc' \in [Clients -> Steps] /\ pc'[c] = p
                 /\ \A d \in Clients \ {c} : pc'[d] = pc[d]
  BY DEF TypeOK, Goto
<1>2. \A j \in Job : Does(c, j) => job' \in [Clients -> Job] /\ job'[c] = j
                 /\ \A d \in Clients \ {c} : job'[d] = job[d]
  BY DEF TypeOK, Does
<1>3. \A e \in Env : Has(c, e) => env' \in [Clients -> Env] /\ env'[c] = e
                 /\ \A d \in Clients \ {c} : env'[d] = env[d]
  BY DEF TypeOK, Has
<1>4. "idle" \in Steps
  BY DEF Steps
<1> QED BY <1>1, <1>2, <1>3, <1>4, Nothing DEF Answers, GoesOn

(* An error changes nothing but the client.                                 *)
LEMMA FailsTyped ==
  ASSUME TypeOK, NEW c \in Clients, Fails(c) PROVE Acts(c)
BY GoesTyped DEF TypeOK, Fails, Acts, AccountActs, KeepsRecord

(* Each step of a client does what any client's step may do.                *)
LEMMA ActsDeploy ==
  ASSUME Shape, NEW c \in Clients, Deploy(c) PROVE Acts(c)
<1>1. TypeOK /\ record \in Env
  BY DEF Shape, TypeOK
<1>2. PICK asked \in SUBSET scene.lines, forget \in LineIds(record) \cup {0} :
        GoesOn(c, "server", [NoJob EXCEPT !.asked = asked, !.forget = forget])
  BY DEF Deploy
<1>3. asked \subseteq Lines /\ forget \in Maybe
  <2>1. scene \in Scene
    BY <1>1, PurchasesAssumption DEF TypeOK
  <2>2. asked \subseteq Lines
    BY <2>1 DEF Scene
  <2> QED BY <1>1, <2>2 DEF LineIds, Env, OnLine, Maybe
<1>4. [NoJob EXCEPT !.asked = asked, !.forget = forget] \in Job
  BY <1>3, Nothing DEF Job
<1> QED
  BY <1>1, <1>2, <1>4, GoesTyped
     DEF TypeOK, Deploy, Acts, AccountActs, GoesOn, Steps

LEMMA ActsServer ==
  ASSUME Shape, NEW c \in Clients, Server(c) PROVE Acts(c)
BY GoesTyped DEF Shape, TypeOK, Server, Acts, AccountActs, Steps

LEMMA ActsStart ==
  ASSUME Shape, NEW c \in Clients, Start(c) PROVE Acts(c)
<1>1. TypeOK /\ job[c] \in Job
  BY DEF Shape, TypeOK
<1>2. CASE Fails(c)
  BY <1>1, <1>2, FailsTyped
<1>3. ASSUME NEW i \in Ids, NEW started \in BOOLEAN, Starts(i, job[c].kind, "server"),
             GoesOn(c, "started", [job[c] EXCEPT !.id = i, !.new = TRUE, !.started = started]),
             KeepsRecord, UNCHANGED <<env, told>>
      PROVE  Acts(c)
  <2>1. [job[c] EXCEPT !.id = i, !.new = TRUE, !.started = started] \in Job /\ job[c].kind \in Kinds
    BY <1>1 DEF Job, Maybe
  <2>2. AccountActs
    BY <1>3, <2>1 DEF AccountActs, Places
  <2> QED BY <1>1, <1>3, <2>1, <2>2, GoesTyped DEF TypeOK, Acts, GoesOn, KeepsRecord, Steps
<1>4. CASE StartsUnnamed(c, "server") /\ Answers(c) /\ KeepsRecord /\ UNCHANGED told
  <2>1. AccountActs
    BY <1>1, <1>4 DEF StartsUnnamed, AccountActs, Places, Job
  <2> QED BY <1>1, <1>4, <2>1, GoesTyped DEF TypeOK, Acts, KeepsRecord
<1> QED BY <1>2, <1>3, <1>4 DEF Start

LEMMA ActsPutOnRecord ==
  ASSUME Shape, NEW c \in Clients, PutOnRecord(c) PROVE Acts(c)
<1> DEFINE e == With(env[c], job[c].kind, job[c].id, FALSE)
<1>1. TypeOK /\ job[c] \in Job /\ env[c] \in Env /\ job[c].id \in Ids
  BY DEF Shape, TypeOK, Fits, DeployFits, PutOnRecord, At
<1>2. e \in Env
  BY <1>1, EnvOps DEF Job
<1>3. Between(c) \in Job
  BY <1>1 DEF Between, Job, Kinds, Maybe
<1>4. record' \in Env /\ stale' \subseteq Clients
  BY <1>1, <1>2, WritesTyped DEF PutOnRecord
<1>5. told' \subseteq Ids
  BY <1>1 DEF PutOnRecord, Tells, TypeOK
<1>6. UNCHANGED account
  BY DEF PutOnRecord
<1>7. CASE Answers(c)
  BY <1>1, <1>4, <1>5, <1>6, <1>7, GoesTyped DEF Acts, AccountActs
<1>8. CASE Has(c, e) /\ GoesOn(c, "build", Between(c))
  BY <1>1, <1>2, <1>3, <1>4, <1>5, <1>6, <1>8, GoesTyped DEF Acts, AccountActs, GoesOn, Steps
<1>9. CASE Has(c, e) /\ Goto(c, "sight") /\ UNCHANGED job
  BY <1>1, <1>2, <1>4, <1>5, <1>6, <1>9, GoesTyped DEF TypeOK, Acts, AccountActs, Steps
<1> QED BY <1>7, <1>8, <1>9 DEF PutOnRecord

LEMMA ActsSetUp ==
  ASSUME Shape, NEW c \in Clients, SetUp(c) PROVE Acts(c)
<1> DEFINE e == [env[c] EXCEPT !.there = TRUE, !.host = TRUE]
<1>1. TypeOK /\ job[c] \in Job /\ env[c] \in Env
  BY DEF Shape, TypeOK
<1>2. e \in Env /\ [job[c] EXCEPT !.saved = FALSE] \in Job
  BY <1>1 DEF Env, Job
<1>3. CASE Fails(c)
  BY <1>1, <1>3, FailsTyped
<1>4. CASE ~Fails(c)
  <2>1. /\ Has(c, e) /\ UNCHANGED <<account, told>>
        /\ \/ Saves(c, e) /\ UNCHANGED job
           \/ SaveFails(c, e) /\ Does(c, [job[c] EXCEPT !.saved = FALSE])
        /\ Goto(c, IF job[c].forget = 0 THEN "lines" ELSE "forget")
    BY <1>4 DEF SetUp
  <2>2. record' \in Env /\ stale' \subseteq Clients
    BY <1>1, <1>2, <2>1, WritesTyped
  <2> QED BY <1>1, <1>2, <2>1, <2>2, GoesTyped DEF TypeOK, Acts, AccountActs, Steps
<1> QED BY <1>3, <1>4

LEMMA ActsForgetLine ==
  ASSUME Shape, NEW c \in Clients, ForgetLine(c) PROVE Acts(c)
<1> DEFINE e == Without(env[c], job[c].forget)
<1>1. TypeOK /\ env[c] \in Env /\ job[c].forget \in Ids
  BY DEF Shape, TypeOK, Fits, DeployFits, ForgetLine, At, Job, Maybe
<1>2. e \in Env
  BY <1>1, EnvOps DEF Maybe, Kinds
<1>3. record' \in Env /\ stale' \subseteq Clients
  BY <1>1, <1>2, WritesTyped DEF ForgetLine
<1> QED
  BY <1>1, <1>2, <1>3, GoesTyped
     DEF ForgetLine, TypeOK, Tells, Acts, AccountActs, GoesOn, Steps

LEMMA ActsNextLine ==
  ASSUME Shape, NEW c \in Clients, NextLine(c) PROVE Acts(c)
<1>1. TypeOK /\ job[c] \in Job /\ env[c] \in Env
  BY DEF Shape, TypeOK
<1>2. ASSUME NEW k \in job[c].asked
      PROVE  [job[c] EXCEPT !.kind = k, !.id = env[c].lines[k].id, !.new = FALSE] \in Job
  BY <1>1 DEF Job, Env, OnLine, Kinds
<1> QED
  BY <1>1, <1>2, GoesTyped
     DEF NextLine, TypeOK, Acts, AccountActs, KeepsRecord, GoesOn, Steps

LEMMA ActsReadList ==
  ASSUME Shape, NEW c \in Clients, ReadList(c) PROVE Acts(c)
<1>1. TypeOK /\ job[c] \in Job
  BY DEF Shape, TypeOK
<1>2. [job[c] EXCEPT !.listed = @ \/ job[c].id \in listed] \in Job
  BY <1>1 DEF Job
<1> QED
  BY <1>1, <1>2, GoesTyped, FailsTyped
     DEF ReadList, TypeOK, Acts, AccountActs, KeepsRecord, GoesOn, Steps

LEMMA ActsReadCharges ==
  ASSUME Shape, NEW c \in Clients, ReadCharges(c) PROVE Acts(c)
<1> DEFINE e == Without(env[c], job[c].id)
<1>1. TypeOK /\ job[c] \in Job /\ env[c] \in Env
  BY DEF Shape, TypeOK
<1>2. e \in Env /\ [job[c] EXCEPT !.listed = FALSE] \in Job
  BY <1>1, EnvOps DEF Job, Kinds
<1>3. CASE Fails(c)
  BY <1>1, <1>3, FailsTyped
<1>4. CASE ~Fails(c)
  <2>1. record' \in Env /\ stale' \subseteq Clients
    BY <1>1, <1>2, <1>4, WritesTyped DEF ReadCharges
  <2> QED
    BY <1>1, <1>2, <1>4, <2>1, GoesTyped
       DEF ReadCharges, TypeOK, Acts, AccountActs, GoesOn, Steps
<1> QED BY <1>3, <1>4

LEMMA ActsSees ==
  ASSUME Shape, NEW c \in Clients, NEW j \in Job, NEW next \in Steps,
         job[c].id \in Ids, Sees(c, j, next), UNCHANGED account
  PROVE  Acts(c)
<1> DEFINE e == With(env[c], job[c].kind, job[c].id, TRUE)
<1>1. TypeOK /\ job[c] \in Job /\ env[c] \in Env
  BY DEF Shape, TypeOK
<1>2. e \in Env
  BY <1>1, EnvOps DEF Job
<1>3. record' \in Env /\ stale' \subseteq Clients
  BY <1>1, <1>2, WritesTyped DEF Sees
<1> QED
  BY <1>1, <1>2, <1>3, GoesTyped DEF Sees, Tells, TypeOK, Acts, AccountActs, GoesOn

LEMMA ActsFirstSight ==
  ASSUME Shape, NEW c \in Clients, FirstSight(c) PROVE Acts(c)
<1>1. TypeOK /\ job[c] \in Job /\ job[c].id \in Ids
  BY DEF Shape, TypeOK, Fits, DeployFits, FirstSight, At, Job, Maybe
<1> QED BY <1>1, FailsTyped, ActsSees DEF FirstSight, Steps

LEMMA ActsWaitLine ==
  ASSUME Shape, NEW c \in Clients, WaitLine(c) PROVE Acts(c)
<1>1. TypeOK /\ job[c] \in Job /\ job[c].id \in Ids
  BY DEF Shape, TypeOK, Fits, DeployFits, WaitLine, At, Job, Maybe
<1>2. [Between(c) EXCEPT !.asked = @ \ {job[c].kind}] \in Job
  BY <1>1 DEF Between, Job, Kinds, Maybe
<1>3. CASE Sees(c, [Between(c) EXCEPT !.asked = @ \ {job[c].kind}], "lines") /\ UNCHANGED account
  BY <1>1, <1>2, <1>3, ActsSees DEF Steps
<1>4. CASE Fails(c)
  BY <1>1, <1>4, FailsTyped
<1>5. CASE Goto(c, "undo") /\ KeepsRecord /\ UNCHANGED <<account, job, env, told>>
  BY <1>1, <1>5, GoesTyped DEF TypeOK, Acts, AccountActs, KeepsRecord, Steps
<1> QED BY <1>3, <1>4, <1>5 DEF WaitLine

LEMMA ActsUndoLine ==
  ASSUME Shape, NEW c \in Clients, UndoLine(c) PROVE Acts(c)
<1> DEFINE e == Without(env[c], job[c].id)
<1>1. TypeOK /\ env[c] \in Env /\ job[c].id \in Ids
  BY DEF Shape, TypeOK, Fits, DeployFits, UndoLine, At, Job, Maybe
<1>2. e \in Env
  BY <1>1, EnvOps DEF Maybe, Kinds
<1>3. record' \in Env /\ stale' \subseteq Clients
  BY <1>1, <1>2, WritesTyped DEF UndoLine
<1> QED
  BY <1>1, <1>2, <1>3, GoesTyped DEF UndoLine, TypeOK, Acts, AccountActs

LEMMA ActsDeployed ==
  ASSUME Shape, NEW c \in Clients, Deployed(c) PROVE Acts(c)
<1>1. TypeOK /\ env[c] \in Env
  BY DEF Shape, TypeOK
<1>2. record' \in Env /\ stale' \subseteq Clients
  BY <1>1, WritesTyped DEF Deployed
<1> QED BY <1>1, <1>2, GoesTyped DEF Deployed, TypeOK, Acts, AccountActs

LEMMA ActsDelete ==
  ASSUME Shape, NEW c \in Clients, Delete(c) PROVE Acts(c)
<1>1. TypeOK /\ record \in Env
  BY DEF Shape, TypeOK
<1>2. PICK release \in BOOLEAN, reach \in BOOLEAN, forget \in LineIds(record) \cup {0} :
        /\ GoesOn(c, "remove", [NoJob EXCEPT !.verb = "delete", !.release = release,
                                             !.reach = reach, !.forget = forget])
        /\ Has(c, Without(record, forget))
  BY DEF Delete
<1>3. forget \in Maybe
  BY <1>1 DEF LineIds, Env, OnLine, Maybe
<1>4. [NoJob EXCEPT !.verb = "delete", !.release = release, !.reach = reach,
                    !.forget = forget] \in Job
  BY <1>3, Nothing DEF Job, Verbs
<1>5. Without(record, forget) \in Env
  BY <1>1, <1>3, EnvOps DEF Kinds
<1> QED
  BY <1>1, <1>2, <1>4, <1>5, GoesTyped
     DEF TypeOK, Delete, Acts, AccountActs, GoesOn, Steps

LEMMA ActsRemove ==
  ASSUME Shape, NEW c \in Clients, Remove(c) PROVE Acts(c)
<1>1. TypeOK /\ job[c] \in Job
  BY DEF Shape, TypeOK
<1>2. \A r \in Removals : [job[c] EXCEPT !.removal = r] \in Job
  BY <1>1 DEF Job
<1>3. PICK r \in Removals :
        \/ Fails(c)
        \/ /\ GoesOn(c, IF job[c].release THEN "ends" ELSE "finish",
                        [job[c] EXCEPT !.removal = r])
           /\ KeepsRecord /\ UNCHANGED <<account, env, told>>
  BY DEF Remove, Removals
<1> QED
  BY <1>1, <1>2, <1>3, GoesTyped, FailsTyped
     DEF TypeOK, Acts, AccountActs, KeepsRecord, GoesOn, Steps

LEMMA ActsReadWhatIsCharged ==
  ASSUME Shape, NEW c \in Clients, ReadWhatIsCharged(c) PROVE Acts(c)
<1> DEFINE j(known) == [job[c] EXCEPT !.known = known, !.snapshot = IF known THEN shown ELSE {},
                                      !.left = {k \in Lines : env[c].lines[k].id # 0}]
<1>1. TypeOK /\ job[c] \in Job
  BY DEF Shape, TypeOK
<1>2. \A known \in BOOLEAN : j(known) \in Job
  BY <1>1 DEF Job, TypeOK, AccountTyped
<1>3. PICK known \in BOOLEAN : GoesOn(c, "endLines", j(known))
  BY DEF ReadWhatIsCharged
<1> QED
  BY <1>1, <1>2, <1>3, GoesTyped
     DEF ReadWhatIsCharged, TypeOK, Acts, AccountActs, KeepsRecord, GoesOn, Steps

LEMMA ActsEndLine ==
  ASSUME Shape, NEW c \in Clients, NEW k \in Lines, EndLine(c, k) PROVE Acts(c)
<1> DEFINE i == env[c].lines[k].id
           done == [job[c] EXCEPT !.left = @ \ {k}]
           failed == [done EXCEPT !.failed = @ \cup {k}]
<1>1. TypeOK /\ job[c] \in Job /\ i \in Maybe
  BY DEF Shape, TypeOK, Env, OnLine
<1>2. done \in Job /\ failed \in Job
  BY <1>1 DEF Job, Kinds
<1>3. AccountActs
  BY <1>1 DEF EndLine, AccountActs, Ends, CanEnd, TypeOK, AccountTyped
<1>4. Does(c, done) \/ Does(c, failed)
  BY DEF EndLine
<1> QED
  BY <1>1, <1>2, <1>3, <1>4, GoesTyped DEF EndLine, TypeOK, Acts, KeepsRecord

LEMMA ActsEndServer ==
  ASSUME Shape, NEW c \in Clients, EndServer(c) PROVE Acts(c)
<1> DEFINE i == env[c].vps
           failed == [job[c] EXCEPT !.failed = @ \cup {"vps"}]
           ended == [job[c] EXCEPT !.ended = TRUE]
<1>1. TypeOK /\ job[c] \in Job /\ i \in Maybe
  BY DEF Shape, TypeOK, Env
<1>2. ended \in Job /\ failed \in Job
  BY <1>1 DEF Job, Kinds
<1>3. AccountActs
  BY <1>1 DEF EndServer, AccountActs, Ends, CanEnd, TypeOK, AccountTyped
<1>4. UNCHANGED job \/ Does(c, ended) \/ Does(c, failed)
  BY DEF EndServer
<1> QED
  BY <1>1, <1>2, <1>3, <1>4, GoesTyped DEF EndServer, TypeOK, Acts, KeepsRecord, Steps

LEMMA ActsDeleted ==
  ASSUME Shape, NEW c \in Clients, Deleted(c) PROVE Acts(c)
<1>1. TypeOK /\ env[c] \in Env /\ job[c] \in Job
  BY DEF Shape, TypeOK
<1>2. LeftOver(c) \in Env
  BY <1>1 DEF LeftOver, Env, OnLine, NoLine, Maybe
<1>3. record' \in Env /\ stale' \subseteq Clients
  BY <1>1, <1>2, WritesTyped, Nothing DEF Deleted, TypeOK
<1>4. told' \subseteq Ids
  <2>1. IdsOf(env[c]) \subseteq Ids
    BY <1>1 DEF IdsOf, LineIds, Env, OnLine, Maybe
  <2> QED BY <1>1, <2>1 DEF Deleted, Tells, TypeOK, Job, Maybe
<1> QED BY <1>1, <1>3, <1>4, GoesTyped DEF Deleted, TypeOK, Acts, AccountActs

LEMMA ActsRun ==
  ASSUME Shape, NEW c \in Clients, Run(c) PROVE Acts(c)
<1>1. TypeOK /\ scene \in Scene
  BY PurchasesAssumption DEF Shape, TypeOK
<1>2. PICK asked \in SUBSET (scene.lines \ Slow), keep \in BOOLEAN :
        GoesOn(c, "find", [NoJob EXCEPT !.verb = "run", !.asked = asked, !.keep = keep,
                                        !.snapshot = shown])
  BY DEF Run
<1>3. asked \subseteq Lines
  BY <1>1 DEF Scene
<1>4. [NoJob EXCEPT !.verb = "run", !.asked = asked, !.keep = keep, !.snapshot = shown] \in Job
  BY <1>1, <1>3, Nothing DEF Job, Verbs, TypeOK, AccountTyped
<1> QED
  BY <1>1, <1>2, <1>4, GoesTyped
     DEF Run, TypeOK, Acts, AccountActs, KeepsRecord, GoesOn, Steps

(* What a run has of a line, and has after it let it all go.                *)
LEMMA HoldsTyped ==
  ASSUME TypeOK, NEW c \in Clients, NEW k \in Kinds, NEW i \in Maybe, NEW hourly \in BOOLEAN
  PROVE  /\ [job[c] EXCEPT !.kind = k, !.id = i, !.held[k] = [id |-> i, hourly |-> hourly]] \in Job
         /\ [job[c] EXCEPT !.held[k] = NotHeld] \in Job
         /\ [Between(c) EXCEPT !.asked = {}, !.snapshot = {}] \in Job
<1>1. job[c] \in Job
  BY DEF TypeOK
<1>2. [job[c] EXCEPT !.kind = k, !.id = i, !.held[k] = [id |-> i, hourly |-> hourly]] \in Job
  BY <1>1 DEF Job, Held
<1>3. [job[c] EXCEPT !.held[k] = NotHeld] \in Job
  BY <1>1 DEF Job, Held, NotHeld, Maybe
<1>4. [Between(c) EXCEPT !.asked = {}, !.snapshot = {}] \in Job
  BY <1>1 DEF Between, Job, Kinds, Maybe
<1> QED BY <1>2, <1>3, <1>4

(* A run stops.                                                             *)
LEMMA ActsStops ==
  ASSUME TypeOK, NEW c \in Clients, Stops(c), KeepsRecord, UNCHANGED <<account, env, told>>
  PROVE  Acts(c)
<1>1. [Between(c) EXCEPT !.asked = {}, !.snapshot = {}] \in Job
  BY HoldsTyped DEF Kinds, Maybe
<1> QED
  BY <1>1, GoesTyped DEF Stops, TypeOK, Acts, AccountActs, KeepsRecord, GoesOn, Steps

LEMMA ActsFindLine ==
  ASSUME Shape, NEW c \in Clients, FindLine(c) PROVE Acts(c)
<1>1. TypeOK /\ job[c] \in Job
  BY DEF Shape, TypeOK
<1>2. CASE Stops(c) /\ UNCHANGED told
  BY <1>1, <1>2, ActsStops DEF FindLine
<1>3. CASE Goto(c, "runs") /\ UNCHANGED <<job, told>>
  BY <1>1, <1>3, GoesTyped DEF FindLine, TypeOK, Acts, AccountActs, KeepsRecord, Steps
<1>4. ASSUME NEW k \in job[c].asked, NEW i \in LettingIn(k), NEW hourly \in BOOLEAN,
             Takes(c, "await", k, i, hourly), told' = told \ {i}
      PROVE  Acts(c)
  <2>1. k \in Kinds /\ i \in Maybe
    BY <1>1 DEF Job, Kinds, Maybe, LettingIn, TypeOK, AccountTyped
  <2>2. [job[c] EXCEPT !.kind = k, !.id = i, !.held[k] = [id |-> i, hourly |-> hourly]] \in Job
    BY <1>1, <2>1, HoldsTyped
  <2>3. /\ pc' \in [Clients -> Steps] /\ job' \in [Clients -> Job]
        /\ \A d \in Clients \ {c} : pc'[d] = pc[d] /\ job'[d] = job[d]
    BY <1>1, <1>4, <2>2, GoesTyped DEF Takes, GoesOn, Steps
  <2>4. told' \subseteq Ids
    BY <1>1, <1>4 DEF TypeOK
  <2> QED BY <1>1, <2>3, <2>4 DEF FindLine, TypeOK, Acts, AccountActs, KeepsRecord
<1>5. ASSUME NEW k \in job[c].asked, GoesOn(c, "buy", [job[c] EXCEPT !.kind = k]), UNCHANGED told
      PROVE  Acts(c)
  <2>1. [job[c] EXCEPT !.kind = k] \in Job
    BY <1>1 DEF Job, Kinds
  <2> QED
    BY <1>1, <1>5, <2>1, GoesTyped
       DEF FindLine, TypeOK, Acts, AccountActs, KeepsRecord, GoesOn, Steps
<1>6. ASSUME NEW k \in job[c].asked, NEW i \in LettingIn(k), told' = told \ {i},
             Takes(c, "await", k, i, i \in job[c].snapshot)
      PROVE  Acts(c)
  <2>1. (i \in job[c].snapshot) \in BOOLEAN
    OBVIOUS
  <2> QED BY <1>4, <1>6, <2>1
<1> QED BY <1>2, <1>3, <1>5, <1>6 DEF FindLine

LEMMA ActsBuyLine ==
  ASSUME Shape, NEW c \in Clients, BuyLine(c) PROVE Acts(c)
<1>1. TypeOK /\ job[c] \in Job
  BY DEF Shape, TypeOK
<1>2. CASE Stops(c) /\ (UNCHANGED account \/ StartsUnnamed(c, "home"))
  <2>1. AccountActs
    BY <1>1, <1>2 DEF StartsUnnamed, AccountActs, Places, Job
  <2>2. [Between(c) EXCEPT !.asked = {}, !.snapshot = {}] \in Job
    BY <1>1, HoldsTyped DEF Kinds, Maybe
  <2> QED
    BY <1>1, <1>2, <2>1, <2>2, GoesTyped
       DEF BuyLine, Stops, TypeOK, Acts, GoesOn, KeepsRecord, Steps
<1>3. ASSUME NEW i \in Ids, NEW started \in BOOLEAN, Starts(i, job[c].kind, "home"),
             GoesOn(c, "bought", [job[c] EXCEPT !.id = i, !.started = started])
      PROVE  Acts(c)
  <2>1. [job[c] EXCEPT !.id = i, !.started = started] \in Job /\ job[c].kind \in Kinds
    BY <1>1 DEF Job, Maybe
  <2>2. AccountActs
    BY <1>3, <2>1 DEF AccountActs, Places
  <2> QED
    BY <1>1, <1>3, <2>1, <2>2, GoesTyped
       DEF BuyLine, TypeOK, Acts, GoesOn, KeepsRecord, Steps
<1> QED BY <1>2, <1>3 DEF BuyLine

LEMMA ActsHoldLine ==
  ASSUME Shape, NEW c \in Clients, HoldLine(c) PROVE Acts(c)
<1> DEFINE k == job[c].kind
           i == job[c].id
<1>1. TypeOK /\ k \in Kinds /\ i \in Maybe
  BY DEF Shape, TypeOK, Job
<1>2. [job[c] EXCEPT !.kind = k, !.id = i, !.held[k] = [id |-> i, hourly |-> TRUE]] \in Job
  BY <1>1, HoldsTyped
<1> QED
  BY <1>1, <1>2, GoesTyped
     DEF HoldLine, Takes, TypeOK, Acts, AccountActs, KeepsRecord, GoesOn, Steps

LEMMA ActsAwaitLine ==
  ASSUME Shape, NEW c \in Clients, AwaitLine(c) PROVE Acts(c)
<1>1. TypeOK /\ job[c] \in Job
  BY DEF Shape, TypeOK
<1>2. CASE Stops(c)
  BY <1>1, <1>2, ActsStops DEF AwaitLine
<1>3. [Between(c) EXCEPT !.asked = @ \ {job[c].kind}] \in Job
  BY <1>1 DEF Between, Job, Kinds, Maybe
<1> QED
  BY <1>1, <1>2, <1>3, GoesTyped
     DEF AwaitLine, TypeOK, Acts, AccountActs, KeepsRecord, GoesOn, Steps

LEMMA ActsLetGo ==
  ASSUME Shape, NEW c \in Clients, NEW k \in Lines, LetGo(c, k) PROVE Acts(c)
<1> DEFINE i == job[c].held[k].id
<1>1. TypeOK /\ job[c] \in Job /\ i \in Ids
  BY DEF Shape, TypeOK, Job, Held, Maybe, LetGo
<1>2. [job[c] EXCEPT !.held[k] = NotHeld] \in Job
  BY <1>1, HoldsTyped DEF Kinds, Maybe
<1>3. AccountActs
  BY <1>1 DEF LetGo, AccountActs
<1>4. told' \subseteq Ids
  BY <1>1 DEF LetGo, Tells, TypeOK
<1> QED
  BY <1>1, <1>2, <1>3, <1>4, GoesTyped DEF LetGo, TypeOK, Acts, KeepsRecord

LEMMA ActsCtrlC ==
  ASSUME Shape, NEW c \in Clients, CtrlC(c) PROVE Acts(c)
<1>1. TypeOK /\ job[c] \in Job
  BY DEF Shape, TypeOK
<1>2. [job[c] EXCEPT !.came = TRUE] \in Job
  BY <1>1 DEF Job
<1> QED
  BY <1>1, <1>2, GoesTyped DEF CtrlC, TypeOK, Acts, AccountActs, KeepsRecord

(* Every step of a client.                                                  *)
ClientStep(c) == DeployStep(c) \/ DeleteStep(c) \/ RunStep(c) \/ Cut(c)

LEMMA ActsClient == ASSUME Shape, NEW c \in Clients, ClientStep(c) PROVE Acts(c)
<1>1. TypeOK
  BY DEF Shape
<1>2. CASE DeployStep(c)
  BY <1>2, ActsDeploy, ActsServer, ActsStart, ActsPutOnRecord, ActsSetUp, ActsForgetLine,
     ActsNextLine, ActsReadList, ActsReadCharges, ActsFirstSight, ActsWaitLine, ActsUndoLine,
     ActsDeployed DEF DeployStep
<1>3. CASE DeleteStep(c)
  BY <1>3, ActsDelete, ActsRemove, ActsReadWhatIsCharged, ActsEndLine, ActsEndServer,
     ActsDeleted DEF DeleteStep
<1>4. CASE RunEnds(c) \/ Cut(c)
  BY <1>1, <1>4, FailsTyped DEF RunEnds, Cut
<1>5. CASE AppRuns(c)
  BY <1>1, <1>5, ActsStops DEF AppRuns
<1>6. CASE RunStep(c)
  BY <1>4, <1>5, <1>6, ActsRun, ActsFindLine, ActsBuyLine, ActsHoldLine, ActsAwaitLine,
     ActsCtrlC, ActsLetGo DEF RunStep
<1> QED BY <1>2, <1>3, <1>4, <1>6 DEF ClientStep

(* Every step but the account's own is one of a client.                     *)
LEMMA StepKinds ==
  [Next]_vars =>
    \/ \E c \in Clients : ClientStep(c) /\ UNCHANGED scene
    \/ AccountActs /\ KeepsRecord /\ UNCHANGED <<clients, told, scene>>
BY DEF Next, AccountStep, AccountActs, ClientStep, vars, KeepsRecord

(* Every step keeps the types.                                              *)
LEMMA StepTyped == Shape /\ [Next]_vars => TypeOK'
<1> SUFFICES ASSUME Shape, [Next]_vars PROVE TypeOK'
  OBVIOUS
<1>1. TypeOK
  BY DEF Shape
<1>2. ASSUME NEW c \in Clients, ClientStep(c), UNCHANGED scene PROVE TypeOK'
  BY <1>1, <1>2, ActsClient, AccountTypes DEF TypeOK, Acts
<1>3. CASE AccountActs /\ KeepsRecord /\ UNCHANGED <<clients, told, scene>>
  BY <1>1, <1>3, AccountTypes DEF TypeOK, KeepsRecord, clients
<1> QED BY <1>2, <1>3, StepKinds

-----------------------------------------------------------------------------
(* The account.                                                             *)

(* A product that is bought is one no other is.                             *)
LEMMA StartsFresh ==
  ASSUME AccountTyped, AccountInv, NEW i, NEW k \in Kinds, NEW where, Starts(i, k, where)
  PROVE  i \in Ids /\ kind[i] = "none" /\ Bought \cup {i} = 1..i
<1>1. PICK n \in 0..MaxBought : Bought = 1..n
  BY DEF AccountInv
<1>2. n \in Nat /\ Cardinality(1..n) = n
  <2>1. n \in Nat
    BY AccountAssumption
  <2>2. Cardinality(1..n) = IF 1 > n THEN 0 ELSE n - 1 + 1
    BY <2>1, FS_Interval
  <2> QED BY <2>1, <2>2
<1>3. i = n + 1 /\ i \in Ids
  BY <1>1, <1>2 DEF Starts
<1>4. i \notin Bought
  BY <1>1, <1>2, <1>3
<1> QED BY <1>1, <1>2, <1>3, <1>4 DEF Bought

(* A step leaves what was bought as it was, charges for nothing but one     *)
(* product more, and drops nothing charged from the status list.            *)
Moves ==
  /\ \A i \in Ids : kind[i] # "none" => kind'[i] = kind[i] /\ lets'[i] = lets[i]
  /\ \A i \in charged' : i \in charged \/ kind[i] = "none"
  /\ \A i \in listed : i \in charged' => i \in listed'

LEMMA AccountMoves == AccountTyped /\ AccountInv /\ AccountActs => AccountInv' /\ Moves
<1> SUFFICES ASSUME AccountTyped, AccountInv, AccountActs PROVE AccountInv' /\ Moves
  OBVIOUS
<1> USE DEF AccountTyped
<1>1. CASE UNCHANGED account
  BY <1>1 DEF account, AccountInv, Bought, Moves
<1>2. ASSUME NEW i \in Ids, NEW k \in Kinds, NEW where \in Places, Starts(i, k, where)
      PROVE  AccountInv' /\ Moves
  <2>1. i \in Ids /\ kind[i] = "none" /\ i \notin Bought /\ Bought \cup {i} = 1..i
    BY <1>2, StartsFresh DEF Bought
  <2>2. k # "none"
    BY AccountAssumption DEF Kinds
  <2>3. Bought' = Bought \cup {i}
    BY <1>2, <2>1, <2>2 DEF Starts, Bought
  <2>4. \E n \in 0..MaxBought : Bought \cup {i} = 1..n
    <3>1. i \in 0..MaxBought
      BY AccountAssumption DEF Ids
    <3> QED BY <2>1, <3>1
  <2>5. AccountInv'
    BY <1>2, <2>3, <2>4 DEF Starts, AccountInv
  <2>6. Moves
    BY <1>2, <2>1 DEF Starts, Moves
  <2> QED BY <2>5, <2>6
<1>3. ASSUME NEW i \in Ids, Ends(i) PROVE AccountInv' /\ Moves
  BY <1>3 DEF Ends, AccountInv, Bought, Moves
<1>4. CASE ListCatchesUp
  BY <1>4 DEF ListCatchesUp, CatchesUp, AccountInv, Bought, Moves
<1>5. CASE SnapshotCatchesUp
  BY <1>5 DEF SnapshotCatchesUp, CatchesUp, AccountInv, Bought, Moves
<1>6. CASE GetsReady
  BY <1>6 DEF GetsReady, views, AccountInv, Bought, Moves
<1>7. CASE EndedElsewhere
  BY <1>7 DEF EndedElsewhere, views, AccountInv, Bought, Moves
<1> QED BY <1>1, <1>2, <1>3, <1>4, <1>5, <1>6, <1>7 DEF AccountActs

(* What names products rightly, and what fits, does so after any step of    *)
(* the account, for whoever has it then.                                    *)
LEMMA GoodLasts ==
  ASSUME TypeOK, Moves, NEW e \in Env, Good(e)
  PROVE  /\ record' = e => Good(record)'
         /\ \A c \in Clients : env'[c] = e => Good(env[c])'
<1>1. \A i \in Ids : kind[i] # "none" =>
        kind'[i] = kind[i] /\ (i \in charged' => i \in charged)
        /\ (i \in listed /\ i \in charged' => i \in listed')
  BY DEF Moves
<1>2. e.vps # 0 => e.vps \in Ids /\ kind[e.vps] = "vps"
  BY DEF Good, Env, Maybe
<1>3. \A k \in Lines : e.lines[k].id # 0 => e.lines[k].id \in Ids /\ kind[e.lines[k].id] = k /\ k # "none"
  BY AccountAssumption DEF Good, Env, Maybe, OnLine
<1> QED BY <1>1, <1>2, <1>3 DEF Good

(* A command's place, job and copy fit after any step of the account, too.  *)
LEMMA FitsLasts ==
  ASSUME TypeOK, TypeOK', Moves, NEW p \in Steps, NEW j \in Job, NEW e \in Env, Good(e), Fits(p, j, e)
  PROVE  \A c \in Clients : pc'[c] = p /\ job'[c] = j /\ env'[c] = e => Fits(pc[c], job[c], env[c])'
<1>1. \A i \in Ids : kind[i] # "none" => kind'[i] = kind[i] /\ (i \in charged' => i \in charged)
  BY DEF Moves
<1>2. 0 \notin charged'
  BY DEF TypeOK, AccountTyped, Ids
<1>3. e.vps \notin charged => e.vps \notin charged'
  BY <1>1, <1>2 DEF Good, Env, Maybe
<1>4. \A k \in Lines : e.lines[k].id \notin charged => e.lines[k].id \notin charged'
  BY <1>1, <1>2, AccountAssumption DEF Good, Env, Maybe, OnLine
<1>5. SUFFICES ASSUME NEW c \in Clients, pc'[c] = p, job'[c] = j, env'[c] = e
               PROVE  Fits(pc[c], job[c], env[c])'
  OBVIOUS
<1>6. VerbFits(pc[c], job[c])'
  BY <1>5 DEF Fits, VerbFits
<1>7. RunFits(pc[c], job[c])'
  BY <1>5 DEF Fits, RunFits
<1>8. DeleteFits(pc[c], job[c], env[c])'
  BY <1>3, <1>4, <1>5 DEF Fits, DeleteFits
<1>9. DeployFits(pc[c], job[c], env[c])'
  <2>1. p = "started" => j.id \in Ids /\ kind'[j.id] = j.kind
    BY <1>1, AccountAssumption DEF Fits, DeployFits, Job, Kinds
  <2>2. p = "charges" /\ ~j.listed /\ e.lines[j.kind].seen => j.id \notin charged'
    BY <1>4 DEF Fits, DeployFits
  <2> QED BY <1>5, <2>1, <2>2 DEF Fits, DeployFits, Empty
<1> QED BY <1>6, <1>7, <1>8, <1>9 DEF Fits

-----------------------------------------------------------------------------
(* Shapes are kept.                                                         *)

(* Writing over a copy keeps it right.                                      *)
LEMMA GoodOps ==
  ASSUME TypeOK, NEW e \in Env, Good(e)
  PROVE  /\ \A i \in Maybe : Good(Without(e, i))
         /\ Good([e EXCEPT !.there = TRUE]) /\ Good(NoEnv)
         /\ \A k \in Kinds, i \in Ids, seen \in BOOLEAN :
              kind[i] = k /\ (seen => i \in listed) => Good(With(e, k, i, seen))
<1> USE DEF Good, Env, OnLine, NoLine
<1>1. \A i \in Maybe : Good(Without(e, i))
  BY DEF Without
<1>2. Good([e EXCEPT !.there = TRUE]) /\ Good(NoEnv)
  BY DEF NoEnv
<1>3. ASSUME NEW k \in Kinds, NEW i \in Ids, NEW seen \in BOOLEAN,
             kind[i] = k, seen => i \in listed
      PROVE  Good(With(e, k, i, seen))
  BY <1>3 DEF With, Kinds
<1> QED BY <1>1, <1>2, <1>3

(* A write of the record, or a failed one, leaves it right.                 *)
LEMMA WritesGood ==
  ASSUME TypeOK, Moves, Good(record), NEW c \in Clients, NEW e \in Env, Good(e),
         Saves(c, e) \/ SaveFails(c, e) \/ KeepsRecord
  PROVE  Good(record)'
<1>1. [e EXCEPT !.there = TRUE] \in Env /\ Good([e EXCEPT !.there = TRUE])
  BY GoodOps DEF Env
<1>2. record' \in {record, [e EXCEPT !.there = TRUE]}
  BY DEF Saves, SaveFails, KeepsRecord
<1> QED BY <1>1, <1>2, GoodLasts DEF TypeOK

(* What a step of c owes to the shape.                                      *)
Keeps(c) == Good(record)' /\ Good(env[c])' /\ Fits(pc[c], job[c], env[c])'

(* A command that ends, or fails, owes nothing more.                        *)
LEMMA EndsWell ==
  ASSUME Shape, Moves, TypeOK', NEW c \in Clients, Answers(c), Good(record)' PROVE Keeps(c)
<1>1. TypeOK /\ NoEnv \in Env /\ NoJob \in Job /\ "idle" \in Steps
  BY Nothing DEF Shape, Steps
<1>2. Good(NoEnv)
  BY <1>1, GoodOps DEF Shape, TypeOK
<1>3. pc'[c] = "idle" /\ job'[c] = NoJob /\ env'[c] = NoEnv
  BY <1>1, GoesTyped
<1>4. Fits("idle", NoJob, NoEnv)
  BY DEF Fits, VerbFits, DeployFits, DeleteFits, RunFits, DeployPlaces, DeletePlaces, RunPlaces, NoJob
<1> QED BY <1>1, <1>2, <1>3, <1>4, GoodLasts, FitsLasts DEF Keeps

LEMMA FailsWell ==
  ASSUME Shape, Moves, TypeOK', NEW c \in Clients, Fails(c) PROVE Keeps(c)
<1>1. Good(record)'
  BY GoodLasts DEF Shape, TypeOK, Fails, KeepsRecord
<1> QED BY <1>1, EndsWell DEF Fails

(* A command that goes on.                                                  *)
LEMMA GoesWell ==
  ASSUME Shape, Moves, TypeOK', NEW c \in Clients, Good(record)', NEW p, NEW j, NEW e,
         Good(e), Fits(p, j, e), pc'[c] = p, job'[c] = j, env'[c] = e, env[c] = e \/ e \in Env
  PROVE  Keeps(c)
<1>1. TypeOK /\ p \in Steps /\ j \in Job /\ e \in Env
  BY DEF Shape, TypeOK
<1> QED BY <1>1, GoodLasts, FitsLasts DEF Keeps

(* Each step of a client keeps what it owes: the steps of a deploy.         *)
LEMMA KeptDeploy ==
  ASSUME Shape, Moves, TypeOK', NEW c \in Clients, Deploy(c) PROVE Keeps(c)
<1>1. TypeOK /\ record \in Env /\ Good(record)
  BY DEF Shape, TypeOK
<1>2. PICK asked \in SUBSET scene.lines, forget \in LineIds(record) \cup {0} :
        GoesOn(c, "server", [NoJob EXCEPT !.asked = asked, !.forget = forget])
  BY DEF Deploy
<1> DEFINE j == [NoJob EXCEPT !.asked = asked, !.forget = forget]
<1>3. pc'[c] = "server" /\ job'[c] = j /\ env'[c] = record
  BY <1>1, <1>2 DEF Deploy, GoesOn, Goto, Does, Has, TypeOK
<1>4. Fits("server", j, record)
  BY DEF Fits, VerbFits, DeployFits, DeleteFits, RunFits, DeployPlaces, DeletePlaces, RunPlaces, NoJob
<1>5. Good(record)'
  BY <1>1, GoodLasts DEF Deploy
<1> QED BY <1>1, <1>3, <1>4, <1>5, GoesWell

LEMMA KeptServer ==
  ASSUME Shape, Moves, TypeOK', NEW c \in Clients, Server(c) PROVE Keeps(c)
<1>1. TypeOK /\ record \in Env /\ Good(record) /\ env[c] \in Env /\ Good(env[c])
      /\ Fits("server", job[c], env[c])
  BY DEF Shape, TypeOK, Server, At
<1>2. PICK p \in {"build", "start"} : pc'[c] = p /\ (p = "start" => env[c].vps = 0)
  BY <1>1 DEF Server, Goto, TypeOK
<1>3. Fits(p, job[c], env[c])
  BY <1>1, <1>2 DEF Fits, VerbFits, DeployFits, DeleteFits, RunFits, DeployPlaces, DeletePlaces,
     RunPlaces, Empty
<1>4. Good(record)'
  BY <1>1, GoodLasts DEF Server
<1> QED BY <1>1, <1>2, <1>3, <1>4, GoesWell DEF Server

LEMMA KeptStart ==
  ASSUME Shape, Moves, TypeOK', NEW c \in Clients, Start(c) PROVE Keeps(c)
<1>1. TypeOK /\ record \in Env /\ Good(record) /\ env[c] \in Env /\ Good(env[c]) /\ job[c] \in Job
      /\ Fits("start", job[c], env[c])
  BY DEF Shape, TypeOK, Start, At
<1>2. CASE Fails(c)
  BY <1>2, FailsWell
<1>3. ASSUME NEW i \in Ids, NEW started \in BOOLEAN, Starts(i, job[c].kind, "server"),
             GoesOn(c, "started", [job[c] EXCEPT !.id = i, !.new = TRUE, !.started = started]),
             KeepsRecord, UNCHANGED <<env, told>>
      PROVE  Keeps(c)
  <2> DEFINE j == [job[c] EXCEPT !.id = i, !.new = TRUE, !.started = started]
  <2>1. pc'[c] = "started" /\ job'[c] = j /\ env'[c] = env[c]
    BY <1>1, <1>3 DEF GoesOn, Goto, Does, TypeOK
  <2>2. Good(record)' /\ Good(env[c])'
    BY <1>1, <1>3, GoodLasts DEF KeepsRecord
  <2>3. kind'[i] = job[c].kind
    BY <1>1, <1>3 DEF Starts, TypeOK, AccountTyped
  <2>4. /\ j.id = i /\ j.kind = job[c].kind /\ j.verb = job[c].verb /\ j.held = job[c].held
    BY <1>1 DEF Job
  <2>5. Fits(pc[c], job[c], env[c])'
    BY <1>1, <2>1, <2>3, <2>4
       DEF Fits, VerbFits, DeployFits, DeleteFits, RunFits, DeployPlaces, DeletePlaces,
           RunPlaces, Empty
  <2> QED BY <2>2, <2>5 DEF Keeps
<1>4. CASE Answers(c) /\ KeepsRecord
  <2>1. Good(record)'
    BY <1>1, <1>4, GoodLasts DEF KeepsRecord
  <2> QED BY <1>4, <2>1, EndsWell
<1> QED BY <1>2, <1>3, <1>4 DEF Start

LEMMA KeptPutOnRecord ==
  ASSUME Shape, Moves, TypeOK', NEW c \in Clients, PutOnRecord(c) PROVE Keeps(c)
<1> DEFINE e == With(env[c], job[c].kind, job[c].id, FALSE)
<1>1. TypeOK /\ record \in Env /\ Good(record) /\ env[c] \in Env /\ Good(env[c]) /\ job[c] \in Job
      /\ Fits("started", job[c], env[c])
  BY DEF Shape, TypeOK, PutOnRecord, At
<1>2. job[c].kind \in Kinds /\ job[c].id \in Ids /\ kind[job[c].id] = job[c].kind /\ 0 \notin Ids
  BY <1>1 DEF Job, Fits, DeployFits, Ids
<1>3. e \in Env /\ Good(e)
  BY <1>1, <1>2, EnvOps, GoodOps DEF Maybe
<1>4. Good(record)'
  BY <1>1, <1>3, WritesGood DEF PutOnRecord
<1>5. CASE Answers(c)
  BY <1>4, <1>5, EndsWell
<1>6. CASE Has(c, e) /\ GoesOn(c, "build", Between(c))
  <2>1. Fits("build", Between(c), e)
    BY <1>1 DEF Fits, VerbFits, DeployFits, DeleteFits, RunFits, DeployPlaces, DeletePlaces,
       RunPlaces, Between, Job
  <2>2. pc'[c] = "build" /\ job'[c] = Between(c) /\ env'[c] = e
    BY <1>1, <1>6 DEF GoesOn, Goto, Does, Has, TypeOK
  <2> QED BY <1>3, <1>4, <2>1, <2>2, GoesWell
<1>7. CASE After(c) = "sight" /\ Has(c, e) /\ Goto(c, "sight") /\ UNCHANGED job
  <2>1. job[c].kind \in Lines
    BY <1>2, <1>7 DEF After, Kinds
  <2>2. e.lines[job[c].kind].id = job[c].id
    BY <1>1, <2>1, AccountAssumption DEF With, Env
  <2>3. Fits("sight", job[c], e)
    BY <1>1, <1>2, <2>1, <2>2
       DEF Fits, VerbFits, DeployFits, DeleteFits, RunFits, DeployPlaces, DeletePlaces, RunPlaces
  <2>4. pc'[c] = "sight" /\ job'[c] = job[c] /\ env'[c] = e
    BY <1>1, <1>7 DEF Goto, Has, TypeOK
  <2> QED BY <1>3, <1>4, <2>3, <2>4, GoesWell
<1>8. After(c) \in {"idle", "build", "sight"}
  BY DEF After
<1> QED BY <1>5, <1>6, <1>7, <1>8 DEF PutOnRecord

LEMMA KeptSetUp ==
  ASSUME Shape, Moves, TypeOK', NEW c \in Clients, SetUp(c) PROVE Keeps(c)
<1> DEFINE e == [env[c] EXCEPT !.there = TRUE, !.host = TRUE]
<1>1. TypeOK /\ record \in Env /\ Good(record) /\ env[c] \in Env /\ Good(env[c]) /\ job[c] \in Job
      /\ Fits("build", job[c], env[c])
  BY DEF Shape, TypeOK, SetUp, At
<1>2. CASE Fails(c)
  BY <1>2, FailsWell
<1>3. CASE ~Fails(c)
  <2>1. e \in Env /\ Good(e)
    BY <1>1 DEF Good, Env
  <2>2. Good(record)'
    BY <1>1, <1>3, <2>1, WritesGood DEF SetUp
  <2>3. PICK j \in {job[c], [job[c] EXCEPT !.saved = FALSE]} :
          job'[c] = j /\ env'[c] = e /\ pc'[c] = IF j.forget = 0 THEN "lines" ELSE "forget"
    BY <1>1, <1>3 DEF SetUp, Goto, Does, Has, TypeOK, Job
  <2>4. Fits(pc'[c], j, e)
    BY <1>1, <2>3
       DEF Fits, VerbFits, DeployFits, DeleteFits, RunFits, DeployPlaces, DeletePlaces, RunPlaces, Job
  <2> QED BY <2>1, <2>2, <2>3, <2>4, GoesWell
<1> QED BY <1>2, <1>3

LEMMA KeptForgetLine ==
  ASSUME Shape, Moves, TypeOK', NEW c \in Clients, ForgetLine(c) PROVE Keeps(c)
<1>1. TypeOK /\ record \in Env /\ Good(record) /\ env[c] \in Env /\ Good(env[c]) /\ job[c] \in Job
      /\ Fits("forget", job[c], env[c])
  BY DEF Shape, TypeOK, ForgetLine, At
<1> DEFINE e == Without(env[c], job[c].forget)
<1>2. e \in Env /\ Good(e)
  BY <1>1, EnvOps, GoodOps DEF Job, Kinds
<1>3. Good(record)'
  BY <1>1, <1>2, WritesGood DEF ForgetLine
<1>4. CASE Answers(c)
  BY <1>3, <1>4, EndsWell
<1>5. CASE Has(c, e) /\ Goto(c, "lines") /\ UNCHANGED job
  <2>1. pc'[c] = "lines" /\ job'[c] = job[c] /\ env'[c] = e
    BY <1>1, <1>5 DEF Goto, Has, TypeOK
  <2>2. Fits("lines", job[c], e)
    BY <1>1
       DEF Fits, VerbFits, DeployFits, DeleteFits, RunFits, DeployPlaces, DeletePlaces,
         RunPlaces
  <2> QED BY <1>2, <1>3, <2>1, <2>2, GoesWell
<1> QED BY <1>4, <1>5 DEF ForgetLine

LEMMA KeptNextLine ==
  ASSUME Shape, Moves, TypeOK', NEW c \in Clients, NextLine(c) PROVE Keeps(c)
<1>1. TypeOK /\ record \in Env /\ Good(record) /\ env[c] \in Env /\ Good(env[c]) /\ job[c] \in Job
      /\ Fits("lines", job[c], env[c])
  BY DEF Shape, TypeOK, NextLine, At
<1>2. Good(record)'
  BY <1>1, GoodLasts DEF NextLine, KeepsRecord
<1>3. CASE Goto(c, "finish") /\ UNCHANGED job
  <2>1. pc'[c] = "finish" /\ job'[c] = job[c] /\ env'[c] = env[c]
    BY <1>1, <1>3 DEF NextLine, Goto, TypeOK
  <2>2. Fits("finish", job[c], env[c])
    BY <1>1
       DEF Fits, VerbFits, DeployFits, DeleteFits, RunFits, DeployPlaces, DeletePlaces,
         RunPlaces
  <2> QED BY <1>1, <1>2, <2>1, <2>2, GoesWell
<1>4. ASSUME NEW k \in job[c].asked, NEW p, NEW j,
             p = (IF env[c].lines[k].id = 0 THEN "start" ELSE "list"),
             j = [job[c] EXCEPT !.kind = k, !.id = env[c].lines[k].id, !.new = FALSE],
             GoesOn(c, p, j)
      PROVE  Keeps(c)
  <2>1. pc'[c] = p /\ job'[c] = j /\ env'[c] = env[c]
    BY <1>1, <1>4 DEF NextLine, GoesOn, Goto, Does, TypeOK
  <2>2. k \in Lines /\ k # "vps"
    BY <1>1, AccountAssumption DEF Job
  <2>3. /\ j.kind = k /\ j.id = env[c].lines[k].id
        /\ j.verb = job[c].verb /\ j.held = job[c].held
    BY <1>1, <1>4 DEF Job
  <2>4. Fits(p, j, env[c])
    BY <1>1, <1>4, <2>2, <2>3
       DEF Fits, VerbFits, DeployFits, DeleteFits, RunFits, DeployPlaces, DeletePlaces,
         RunPlaces, Empty
  <2> QED BY <1>1, <1>2, <2>1, <2>4, GoesWell
<1> QED BY <1>3, <1>4 DEF NextLine

LEMMA KeptReadList ==
  ASSUME Shape, Moves, TypeOK', NEW c \in Clients, ReadList(c) PROVE Keeps(c)
<1>1. TypeOK /\ record \in Env /\ Good(record) /\ env[c] \in Env /\ Good(env[c]) /\ job[c] \in Job
      /\ Fits("list", job[c], env[c])
  BY DEF Shape, TypeOK, ReadList, At
<1> DEFINE j == [job[c] EXCEPT !.listed = @ \/ job[c].id \in listed]
<1>2. CASE Fails(c)
  BY <1>2, FailsWell
<1>3. CASE ~Fails(c)
  <2>1. Good(record)'
    BY <1>1, <1>3, GoodLasts DEF ReadList, KeepsRecord
  <2>2. pc'[c] = "charges" /\ job'[c] = j /\ env'[c] = env[c]
    BY <1>1, <1>3 DEF ReadList, GoesOn, Goto, Does, TypeOK
  <2>3. /\ j.kind = job[c].kind /\ j.id = job[c].id /\ j.verb = job[c].verb
        /\ j.held = job[c].held /\ (~j.listed => j.id \notin listed)
    BY <1>1 DEF Job
  <2>4. /\ j.kind \in Lines /\ j.id = env[c].lines[j.kind].id /\ j.id # 0
        /\ j.verb = "deploy" /\ j.held = NoJob.held
    BY <1>1, <2>3 DEF Fits, DeployFits, VerbFits, DeployPlaces, RunPlaces
  <2>5. ~j.listed /\ env[c].lines[j.kind].seen => j.id \notin charged
    BY <1>1, <2>3, <2>4 DEF Good
  <2>6. Fits("charges", j, env[c])
    BY <2>4, <2>5
       DEF Fits, VerbFits, DeployFits, DeleteFits, RunFits, DeployPlaces, DeletePlaces,
         RunPlaces
  <2> QED BY <1>1, <2>1, <2>2, <2>6, GoesWell
<1> QED BY <1>2, <1>3

LEMMA KeptReadCharges ==
  ASSUME Shape, Moves, TypeOK', NEW c \in Clients, ReadCharges(c) PROVE Keeps(c)
<1>1. TypeOK /\ record \in Env /\ Good(record) /\ env[c] \in Env /\ Good(env[c]) /\ job[c] \in Job
      /\ Fits("charges", job[c], env[c])
  BY DEF Shape, TypeOK, ReadCharges, At
<1> DEFINE e == Without(env[c], job[c].id)
           j == [job[c] EXCEPT !.listed = FALSE]
<1>2. e \in Env /\ Good(e)
  BY <1>1, EnvOps, GoodOps DEF Job, Kinds
<1>3. Good(record)'
  BY <1>1, <1>2, WritesGood DEF ReadCharges, Fails
<1>4. CASE Answers(c)
  BY <1>3, <1>4, EndsWell
<1>5. /\ j.kind = job[c].kind /\ j.id = job[c].id /\ j.verb = "deploy" /\ j.held = NoJob.held
      /\ j.kind \in Lines /\ j.id = env[c].lines[j.kind].id /\ j.id # 0
  BY <1>1 DEF Job, Fits, DeployFits, VerbFits, DeployPlaces, RunPlaces
<1>6. CASE Has(c, e) /\ GoesOn(c, "start", j)
  <2>1. pc'[c] = "start" /\ job'[c] = j /\ env'[c] = e
    BY <1>1, <1>6 DEF GoesOn, Goto, Does, Has, TypeOK
  <2>2. e.lines[j.kind].id = 0 /\ j.kind # "vps"
    BY <1>1, <1>5, AccountAssumption DEF Without, Env, NoLine
  <2>3. Fits("start", j, e)
    BY <1>5, <2>2
       DEF Fits, VerbFits, DeployFits, DeleteFits, RunFits, DeployPlaces, DeletePlaces,
         RunPlaces, Empty
  <2> QED BY <1>2, <1>3, <2>1, <2>3, GoesWell
<1>7. CASE GoesOn(c, "wait", j) /\ UNCHANGED env
  <2>1. pc'[c] = "wait" /\ job'[c] = j /\ env'[c] = env[c]
    BY <1>1, <1>7 DEF GoesOn, Goto, Does, TypeOK
  <2>2. Fits("wait", j, env[c])
    BY <1>5
       DEF Fits, VerbFits, DeployFits, DeleteFits, RunFits, DeployPlaces, DeletePlaces,
         RunPlaces
  <2> QED BY <1>1, <1>3, <2>1, <2>2, GoesWell
<1> QED BY <1>4, <1>6, <1>7 DEF ReadCharges, Fails

(* The line is kept again with its endpoint.                                *)
LEMMA KeptSees ==
  ASSUME Shape, Moves, TypeOK', NEW c \in Clients, NEW j, NEW next, Sees(c, j, next),
         job[c].kind \in Lines, job[c].id \in listed, kind[job[c].id] = job[c].kind,
         \A e \in Env : e.lines[job[c].kind].id = job[c].id => Fits(next, j, e)
  PROVE  Keeps(c)
<1> DEFINE e == With(env[c], job[c].kind, job[c].id, TRUE)
<1>1. TypeOK /\ record \in Env /\ Good(record) /\ env[c] \in Env /\ Good(env[c]) /\ job[c] \in Job
      /\ job[c].id \in Ids
  BY DEF Shape, TypeOK, AccountTyped
<1>2. e \in Env /\ Good(e)
  BY <1>1, EnvOps, GoodOps DEF Maybe, Kinds
<1>3. Good(record)'
  BY <1>1, <1>2, WritesGood DEF Sees
<1>4. CASE Answers(c)
  BY <1>3, <1>4, EndsWell
<1>5. CASE Has(c, e) /\ GoesOn(c, next, j)
  <2>1. pc'[c] = next /\ job'[c] = j /\ env'[c] = e
    BY <1>1, <1>5 DEF GoesOn, Goto, Does, Has, TypeOK
  <2>2. e.lines[job[c].kind].id = job[c].id
    BY <1>1, AccountAssumption DEF With, Env
  <2> QED BY <1>2, <1>3, <2>1, <2>2, GoesWell
<1> QED BY <1>4, <1>5 DEF Sees

LEMMA KeptFirstSight ==
  ASSUME Shape, Moves, TypeOK', NEW c \in Clients, FirstSight(c) PROVE Keeps(c)
<1>1. TypeOK /\ record \in Env /\ Good(record) /\ env[c] \in Env /\ Good(env[c]) /\ job[c] \in Job
      /\ Fits("sight", job[c], env[c])
  BY DEF Shape, TypeOK, FirstSight, At
<1>2. job[c].kind \in Lines /\ job[c].id = env[c].lines[job[c].kind].id /\ job[c].id # 0
  BY <1>1 DEF Fits, DeployFits
<1>3. kind[job[c].id] = job[c].kind
  BY <1>1, <1>2 DEF Good
<1>4. \A e \in Env : e.lines[job[c].kind].id = job[c].id => Fits("wait", job[c], e)
  BY <1>1, <1>2
     DEF Fits, VerbFits, DeployFits, DeleteFits, RunFits, DeployPlaces, DeletePlaces,
         RunPlaces
<1> QED BY <1>2, <1>3, <1>4, FailsWell, KeptSees DEF FirstSight

LEMMA KeptWaitLine ==
  ASSUME Shape, Moves, TypeOK', NEW c \in Clients, WaitLine(c) PROVE Keeps(c)
<1>1. TypeOK /\ record \in Env /\ Good(record) /\ env[c] \in Env /\ Good(env[c]) /\ job[c] \in Job
      /\ Fits("wait", job[c], env[c])
  BY DEF Shape, TypeOK, WaitLine, At
<1> DEFINE j == [Between(c) EXCEPT !.asked = @ \ {job[c].kind}]
<1>2. job[c].kind \in Lines /\ job[c].id = env[c].lines[job[c].kind].id /\ job[c].id # 0
  BY <1>1 DEF Fits, DeployFits
<1>3. kind[job[c].id] = job[c].kind
  BY <1>1, <1>2 DEF Good
<1>4. j.verb = "deploy" /\ j.held = NoJob.held
  BY <1>1 DEF Between, Job, Fits, VerbFits, DeployPlaces, RunPlaces
<1>5. \A e \in Env : Fits("lines", j, e)
  BY <1>4
     DEF Fits, VerbFits, DeployFits, DeleteFits, RunFits, DeployPlaces, DeletePlaces,
         RunPlaces
<1>6. ready \subseteq listed
  BY DEF Shape, AccountInv
<1>7. CASE Goto(c, "undo") /\ KeepsRecord /\ UNCHANGED <<account, job, env, told>>
  <2>1. pc'[c] = "undo" /\ job'[c] = job[c] /\ env'[c] = env[c]
    BY <1>1, <1>7 DEF Goto, TypeOK
  <2>2. Good(record)'
    BY <1>1, <1>7, GoodLasts DEF KeepsRecord
  <2>3. Fits("undo", job[c], env[c])
    BY <1>1, <1>2
       DEF Fits, VerbFits, DeployFits, DeleteFits, RunFits, DeployPlaces, DeletePlaces,
         RunPlaces
  <2> QED BY <1>1, <2>1, <2>2, <2>3, GoesWell
<1> QED BY <1>2, <1>3, <1>5, <1>6, <1>7, FailsWell, KeptSees DEF WaitLine

LEMMA KeptUndoLine ==
  ASSUME Shape, Moves, TypeOK', NEW c \in Clients, UndoLine(c) PROVE Keeps(c)
<1>1. TypeOK /\ record \in Env /\ Good(record) /\ env[c] \in Env /\ Good(env[c]) /\ job[c] \in Job
      /\ Fits("undo", job[c], env[c])
  BY DEF Shape, TypeOK, UndoLine, At
<1>2. Without(env[c], job[c].id) \in Env /\ Good(Without(env[c], job[c].id))
  BY <1>1, EnvOps, GoodOps DEF Job, Kinds
<1>3. Good(record)'
  BY <1>1, <1>2, WritesGood DEF UndoLine
<1> QED BY <1>3, EndsWell DEF UndoLine

LEMMA KeptDeployed ==
  ASSUME Shape, Moves, TypeOK', NEW c \in Clients, Deployed(c) PROVE Keeps(c)
<1>1. TypeOK /\ record \in Env /\ Good(record) /\ env[c] \in Env /\ Good(env[c]) /\ job[c] \in Job
      /\ Fits("finish", job[c], env[c])
  BY DEF Shape, TypeOK, Deployed, At
<1>2. Good(record)'
  BY <1>1, WritesGood DEF Deployed
<1> QED BY <1>2, EndsWell DEF Deployed

(* What a line of a copy is not charged for stays so.                       *)
LEMMA NotChargedLasts ==
  ASSUME TypeOK, TypeOK', Moves, NEW e \in Env, Good(e), NEW k \in Lines, e.lines[k].id \notin charged
  PROVE  e.lines[k].id \notin charged'
<1>1. 0 \notin charged'
  BY DEF TypeOK, AccountTyped, Ids
<1>2. e.lines[k].id # 0 => kind[e.lines[k].id] # "none"
  BY AccountAssumption DEF Good
<1> QED BY <1>1, <1>2 DEF Moves

(* The steps of a delete.                                                   *)
LEMMA KeptDelete ==
  ASSUME Shape, Moves, TypeOK', NEW c \in Clients, Delete(c) PROVE Keeps(c)
<1>1. TypeOK /\ record \in Env /\ Good(record)
  BY DEF Shape, TypeOK
<1>2. PICK release \in BOOLEAN, reach \in BOOLEAN, forget \in LineIds(record) \cup {0} :
        /\ GoesOn(c, "remove", [NoJob EXCEPT !.verb = "delete", !.release = release,
                                             !.reach = reach, !.forget = forget])
        /\ Has(c, Without(record, forget))
  BY DEF Delete
<1> DEFINE j == [NoJob EXCEPT !.verb = "delete", !.release = release, !.reach = reach,
                              !.forget = forget]
           e == Without(record, forget)
<1>3. forget \in Maybe
  BY <1>1 DEF LineIds, Env, OnLine, Maybe
<1>4. e \in Env /\ Good(e)
  BY <1>1, <1>3, EnvOps, GoodOps DEF Kinds
<1>5. pc'[c] = "remove" /\ job'[c] = j /\ env'[c] = e
  BY <1>1, <1>2 DEF GoesOn, Goto, Does, Has, TypeOK
<1>6. Fits("remove", j, e)
  BY DEF Fits, VerbFits, DeployFits, DeleteFits, RunFits, DeployPlaces, DeletePlaces,
         RunPlaces, NoJob
<1>7. Good(record)'
  BY <1>1, GoodLasts DEF Delete
<1> QED BY <1>4, <1>5, <1>6, <1>7, GoesWell

LEMMA KeptRemove ==
  ASSUME Shape, Moves, TypeOK', NEW c \in Clients, Remove(c) PROVE Keeps(c)
<1>1. TypeOK /\ record \in Env /\ Good(record) /\ env[c] \in Env /\ Good(env[c]) /\ job[c] \in Job
      /\ Fits("remove", job[c], env[c])
  BY DEF Shape, TypeOK, Remove, At
<1>2. CASE Fails(c)
  BY <1>2, FailsWell
<1>3. ASSUME NEW r \in Removals, r = "failed" => job[c].release, NEW p, NEW j,
             p = (IF job[c].release THEN "ends" ELSE "finish"),
             j = [job[c] EXCEPT !.removal = r],
             GoesOn(c, p, j), KeepsRecord, UNCHANGED <<account, env, told>>
      PROVE  Keeps(c)
  <2>1. pc'[c] = p /\ job'[c] = j /\ env'[c] = env[c]
    BY <1>1, <1>3 DEF GoesOn, Goto, Does, TypeOK
  <2>2. Good(record)'
    BY <1>1, <1>3, GoodLasts DEF KeepsRecord
  <2>3. /\ j.removal = r /\ j.release = job[c].release /\ j.failed = {} /\ ~j.ended
        /\ j.verb = "delete" /\ j.held = NoJob.held
    BY <1>1, <1>3 DEF Job, Fits, VerbFits, DeleteFits, DeletePlaces, RunPlaces
  <2>4. Fits(p, j, env[c])
    BY <1>3, <2>3
       DEF Fits, VerbFits, DeployFits, DeleteFits, RunFits, DeployPlaces, DeletePlaces,
         RunPlaces
  <2> QED BY <1>1, <2>1, <2>2, <2>4, GoesWell
<1> QED BY <1>2, <1>3 DEF Remove, Removals

LEMMA KeptReadWhatIsCharged ==
  ASSUME Shape, Moves, TypeOK', NEW c \in Clients, ReadWhatIsCharged(c) PROVE Keeps(c)
<1>1. TypeOK /\ record \in Env /\ Good(record) /\ env[c] \in Env /\ Good(env[c]) /\ job[c] \in Job
      /\ Fits("ends", job[c], env[c])
  BY DEF Shape, TypeOK, ReadWhatIsCharged, At
<1> DEFINE left == {k \in Lines : env[c].lines[k].id # 0}
<1>2. PICK known \in BOOLEAN :
        GoesOn(c, "endLines", [job[c] EXCEPT !.known = known, !.left = left,
                                             !.snapshot = IF known THEN shown ELSE {}])
  BY <1>1 DEF ReadWhatIsCharged, Job
<1> DEFINE j == [job[c] EXCEPT !.known = known, !.snapshot = IF known THEN shown ELSE {},
                               !.left = left]
<1>3. pc'[c] = "endLines" /\ env'[c] = env[c]
      /\ job'[c] = [job[c] EXCEPT !.known = known, !.left = left,
                                  !.snapshot = IF known THEN shown ELSE {}]
  BY <1>1, <1>2 DEF ReadWhatIsCharged, GoesOn, Goto, Does, TypeOK
<1>4. /\ job'[c].left = left /\ job'[c].release /\ job'[c].failed = {} /\ ~job'[c].ended
      /\ job'[c].verb = "delete" /\ job'[c].held = NoJob.held
  BY <1>1, <1>3 DEF Job, Fits, VerbFits, DeleteFits, DeletePlaces, RunPlaces
<1>5. 0 \notin charged
  BY <1>1 DEF TypeOK, AccountTyped, Ids
<1>6. Fits("endLines", job'[c], env[c])
  BY <1>4, <1>5
     DEF Fits, VerbFits, DeployFits, DeleteFits, RunFits, DeployPlaces, DeletePlaces,
         RunPlaces
<1>7. Good(record)'
  BY <1>1, GoodLasts DEF ReadWhatIsCharged, KeepsRecord
<1> QED BY <1>1, <1>3, <1>6, <1>7, GoesWell

LEMMA KeptEndLine ==
  ASSUME Shape, Moves, TypeOK', NEW c \in Clients, NEW k \in Lines, EndLine(c, k) PROVE Keeps(c)
<1>1. TypeOK /\ record \in Env /\ Good(record) /\ env[c] \in Env /\ Good(env[c]) /\ job[c] \in Job
      /\ Fits("endLines", job[c], env[c])
  BY DEF Shape, TypeOK, EndLine, At
<1> DEFINE i == env[c].lines[k].id
           done == [job[c] EXCEPT !.left = @ \ {k}]
           failed == [done EXCEPT !.failed = @ \cup {k}]
<1>2. pc'[c] = "endLines" /\ env'[c] = env[c] /\ (job'[c] = done \/ job'[c] = failed)
  BY <1>1 DEF EndLine, Does, TypeOK, At
<1>3. Good(record)' /\ Good(env[c])'
  BY <1>1, GoodLasts DEF EndLine, KeepsRecord
<1>4. i # 0 => i \in Ids /\ kind[i] = k /\ kind[i] # "none"
  BY <1>1, AccountAssumption DEF Good, Env, Maybe, OnLine
<1>5. k \notin job'[c].failed => i \notin charged'
  <2>1. CASE Drops(c, k) /\ UNCHANGED account
    BY <1>1, <1>4, <2>1 DEF Drops, IsGone, Good, TypeOK, AccountTyped, Ids, account
  <2>2. CASE Ends(i)
    BY <2>2 DEF Ends
  <2>3. CASE Does(c, failed)
    BY <1>1, <2>3 DEF Does, TypeOK, Job
  <2> QED BY <2>1, <2>2, <2>3 DEF EndLine
<1>6. job'[c].verb = "delete" /\ job'[c].held = NoJob.held /\ job'[c].release /\ ~job'[c].ended
  BY <1>1, <1>2 DEF Job, Fits, VerbFits, DeleteFits, DeletePlaces, RunPlaces
<1> HIDE DEF done, failed
<1>7. /\ job'[c].left = job[c].left \ {k}
       /\ job[c].failed \subseteq job'[c].failed /\ job'[c].failed \subseteq job[c].failed \cup {k}
  <2>1. done.left = job[c].left \ {k} /\ done.failed = job[c].failed /\ done \in Job
    BY <1>1 DEF Job, done
  <2>2. failed.left = done.left /\ failed.failed = done.failed \cup {k}
    BY <2>1 DEF Job, failed
  <2> QED BY <1>2, <2>1, <2>2
<1>8. "vps" \notin job'[c].failed
  BY <1>1, <1>7, AccountAssumption DEF Fits, DeleteFits
<1>9. \A l \in Lines \ (job'[c].left \cup job'[c].failed) : env[c].lines[l].id \notin charged'
  <2> SUFFICES ASSUME NEW l \in Lines, l \notin job'[c].left, l \notin job'[c].failed
               PROVE  env[c].lines[l].id \notin charged'
    OBVIOUS
  <2>1. CASE l = k
    BY <1>1, <1>2, <1>5, <2>1 DEF Job
  <2>2. CASE l # k
    <3>1. l \notin job[c].left /\ l \notin job[c].failed
      BY <1>7, <2>2
    <3>2. env[c].lines[l].id \notin charged
      BY <1>1, <3>1 DEF Fits, DeleteFits
    <3> QED BY <1>1, <3>2, NotChargedLasts
  <2> QED BY <2>1, <2>2
<1>10. Fits(pc[c], job[c], env[c])'
  BY <1>2, <1>6, <1>8, <1>9
     DEF Fits, VerbFits, DeployFits, DeleteFits, RunFits, DeployPlaces, DeletePlaces,
         RunPlaces
<1> QED BY <1>3, <1>10 DEF Keeps

LEMMA KeptEndServer ==
  ASSUME Shape, Moves, TypeOK', NEW c \in Clients, EndServer(c) PROVE Keeps(c)
<1>1. TypeOK /\ record \in Env /\ Good(record) /\ env[c] \in Env /\ Good(env[c]) /\ job[c] \in Job
      /\ Fits("endLines", job[c], env[c])
  BY DEF Shape, TypeOK, EndServer, At
<1> DEFINE i == env[c].vps
           done == [job[c] EXCEPT !.ended = TRUE]
           failed == [job[c] EXCEPT !.failed = @ \cup {"vps"}]
<1>2. /\ pc'[c] = "finish" /\ env'[c] = env[c] /\ job[c].left = {}
      /\ \/ i = 0 /\ job'[c] = job[c]
         \/ Ends(i) /\ job'[c] = done
         \/ job'[c] = failed
  BY <1>1 DEF EndServer, Goto, Does, TypeOK
<1>3. Good(record)' /\ Good(env[c])'
  BY <1>1, GoodLasts DEF EndServer, KeepsRecord
<1>4. /\ job'[c].verb = "delete" /\ job'[c].held = NoJob.held /\ job'[c].release
      /\ job'[c].left = {} /\ job[c].failed \subseteq job'[c].failed
      /\ "vps" \notin job[c].failed /\ ~job[c].ended
  BY <1>1, <1>2 DEF Job, Fits, VerbFits, DeleteFits, DeletePlaces, RunPlaces
<1>5. job'[c].ended \/ "vps" \notin job'[c].failed => i \notin charged'
  <2>1. CASE i = 0 /\ job'[c] = job[c]
    BY <2>1 DEF TypeOK, AccountTyped, Ids
  <2>2. CASE Ends(i)
    BY <2>2 DEF Ends
  <2>3. CASE job'[c] = failed
    BY <1>1, <1>4, <2>3 DEF Job
  <2> QED BY <1>2, <2>1, <2>2, <2>3
<1>6. \A k \in Lines \ job'[c].failed : env[c].lines[k].id \notin charged'
  <2> SUFFICES ASSUME NEW k \in Lines, k \notin job'[c].failed
               PROVE  env[c].lines[k].id \notin charged'
    OBVIOUS
  <2>1. env[c].lines[k].id \notin charged
    BY <1>1, <1>2, <1>4 DEF Fits, DeleteFits
  <2> QED BY <1>1, <2>1, NotChargedLasts
<1>7. Fits(pc[c], job[c], env[c])'
  BY <1>2, <1>4, <1>5, <1>6
     DEF Fits, VerbFits, DeployFits, DeleteFits, RunFits, DeployPlaces, DeletePlaces,
         RunPlaces
<1> QED BY <1>3, <1>7 DEF Keeps

LEMMA KeptDeleted ==
  ASSUME Shape, Moves, TypeOK', NEW c \in Clients, Deleted(c) PROVE Keeps(c)
<1>1. TypeOK /\ record \in Env /\ Good(record) /\ env[c] \in Env /\ Good(env[c]) /\ job[c] \in Job
      /\ Fits("finish", job[c], env[c])
  BY DEF Shape, TypeOK, Deleted, At
<1>2. LeftOver(c) \in Env /\ Good(LeftOver(c))
  BY <1>1 DEF LeftOver, Env, OnLine, NoLine, Maybe, Good
<1>3. Good(record)'
  <2>1. CASE record' = NoEnv
    BY <1>1, <2>1, GoodOps, GoodLasts, Nothing
  <2> QED BY <1>1, <1>2, <2>1, WritesGood DEF Deleted
<1> QED BY <1>3, EndsWell DEF Deleted

(* A run goes on: its record and its copy of it are not its own.            *)
LEMMA RunGoesOn ==
  ASSUME Shape, Moves, TypeOK', NEW c \in Clients, KeepsRecord, UNCHANGED env,
         NEW p \in RunPlaces, NEW j, GoesOn(c, p, j), j.verb = "run", RunFits(p, j)
  PROVE  Keeps(c)
<1>1. TypeOK /\ record \in Env /\ Good(record) /\ env[c] \in Env /\ Good(env[c])
  BY DEF Shape, TypeOK
<1>2. pc'[c] = p /\ job'[c] = j /\ env'[c] = env[c]
  BY <1>1 DEF GoesOn, Goto, Does, TypeOK
<1>3. Good(record)'
  BY <1>1, GoodLasts DEF KeepsRecord
<1>4. Fits(p, j, env[c])
  BY DEF Fits, VerbFits, DeployFits, DeleteFits, DeployPlaces, DeletePlaces, RunPlaces
<1> QED BY <1>1, <1>2, <1>3, <1>4, GoesWell

(* A run stops asking.                                                      *)
LEMMA RunStops ==
  ASSUME Shape, Moves, TypeOK', NEW c \in Clients, KeepsRecord, UNCHANGED env,
         job[c].verb = "run", Stops(c)
  PROVE  Keeps(c)
<1> DEFINE j == [Between(c) EXCEPT !.asked = {}, !.snapshot = {}]
<1>1. job[c] \in Job
  BY DEF Shape, TypeOK
<1>2. j.verb = "run"
  BY <1>1 DEF Between, Job
<1>3. RunFits("letgo", j)
  BY DEF RunFits
<1> QED BY <1>2, <1>3, RunGoesOn DEF Stops, RunPlaces

(* The steps of a run.                                                      *)
LEMMA KeptRun ==
  ASSUME Shape, Moves, TypeOK', NEW c \in Clients, Run(c) PROVE Keeps(c)
<1>1. PICK asked \in SUBSET (scene.lines \ Slow), keep \in BOOLEAN :
        GoesOn(c, "find", [NoJob EXCEPT !.verb = "run", !.asked = asked, !.keep = keep,
                                        !.snapshot = shown])
  BY DEF Run
<1> DEFINE j == [NoJob EXCEPT !.verb = "run", !.asked = asked, !.keep = keep,
                              !.snapshot = shown]
<1>2. TypeOK /\ scene \in Scene
  BY PurchasesAssumption DEF Shape, TypeOK
<1>3. j.verb = "run" /\ j.asked = asked /\ asked \subseteq Lines
      /\ \A k \in Lines : j.held[k].id = 0
  BY <1>2 DEF NoJob, NotHeld, Scene
<1>4. RunFits("find", j)
  BY <1>3 DEF RunFits
<1> QED BY <1>1, <1>3, <1>4, RunGoesOn DEF Run, RunPlaces

LEMMA KeptFindLine ==
  ASSUME Shape, Moves, TypeOK', NEW c \in Clients, FindLine(c) PROVE Keeps(c)
<1>1. TypeOK /\ record \in Env /\ Good(record) /\ env[c] \in Env /\ Good(env[c]) /\ job[c] \in Job
      /\ Fits("find", job[c], env[c])
  BY DEF Shape, TypeOK, FindLine, At
<1>2. job[c].verb = "run" /\ \A k \in job[c].asked : k \in Lines /\ job[c].held[k].id = 0
  BY <1>1 DEF Fits, VerbFits, RunFits, RunPlaces, Job
<1>3. CASE Stops(c)
  BY <1>2, <1>3, RunStops DEF FindLine
<1>4. CASE Goto(c, "runs") /\ UNCHANGED job
  <2>1. GoesOn(c, "runs", job[c])
    BY <1>1, <1>4 DEF GoesOn, Does, TypeOK
  <2>2. RunFits("runs", job[c])
    BY DEF RunFits
  <2> QED BY <1>2, <2>1, <2>2, RunGoesOn DEF FindLine, RunPlaces
<1>5. ASSUME NEW k \in job[c].asked, NEW i, NEW hourly, NEW j,
             j = [job[c] EXCEPT !.kind = k, !.id = i, !.held[k] = [id |-> i, hourly |-> hourly]],
             GoesOn(c, "await", j)
      PROVE  Keeps(c)
  <2>1. /\ j.verb = "run" /\ j.kind = k /\ j.asked = job[c].asked
        /\ \A l \in Lines \ {k} : j.held[l] = job[c].held[l]
    BY <1>1, <1>2, <1>5 DEF Job
  <2>2. RunFits("await", j)
    BY <1>2, <2>1 DEF RunFits
  <2> QED BY <1>5, <2>1, <2>2, RunGoesOn DEF FindLine, RunPlaces
<1>6. ASSUME NEW k \in job[c].asked, NEW j, j = [job[c] EXCEPT !.kind = k], GoesOn(c, "buy", j)
      PROVE  Keeps(c)
  <2>1. j.verb = "run" /\ j.kind = k /\ j.asked = job[c].asked /\ j.held = job[c].held
    BY <1>1, <1>2, <1>6 DEF Job
  <2>2. RunFits("buy", j)
    BY <1>2, <2>1 DEF RunFits
  <2> QED BY <1>6, <2>1, <2>2, RunGoesOn DEF FindLine, RunPlaces
<1> QED BY <1>3, <1>4, <1>5, <1>6 DEF FindLine, Takes

LEMMA KeptBuyLine ==
  ASSUME Shape, Moves, TypeOK', NEW c \in Clients, BuyLine(c) PROVE Keeps(c)
<1>1. TypeOK /\ record \in Env /\ Good(record) /\ env[c] \in Env /\ Good(env[c]) /\ job[c] \in Job
      /\ Fits("buy", job[c], env[c])
  BY DEF Shape, TypeOK, BuyLine, At
<1>2. job[c].verb = "run"
  BY <1>1 DEF Fits, VerbFits, RunPlaces
<1>3. CASE Stops(c)
  BY <1>2, <1>3, RunStops DEF BuyLine
<1>4. ASSUME NEW i \in Ids, NEW started, NEW j,
             j = [job[c] EXCEPT !.id = i, !.started = started], GoesOn(c, "bought", j)
      PROVE  Keeps(c)
  <2>1. /\ j.verb = "run" /\ j.kind = job[c].kind /\ j.asked = job[c].asked
        /\ j.held = job[c].held /\ j.id = i /\ i # 0
    BY <1>1, <1>2, <1>4 DEF Job, Ids
  <2>2. RunFits("bought", j)
    BY <1>1, <2>1 DEF Fits, RunFits
  <2> QED BY <1>4, <2>1, <2>2, RunGoesOn DEF BuyLine, RunPlaces
<1> QED BY <1>3, <1>4 DEF BuyLine

LEMMA KeptHoldLine ==
  ASSUME Shape, Moves, TypeOK', NEW c \in Clients, HoldLine(c) PROVE Keeps(c)
<1>1. TypeOK /\ record \in Env /\ Good(record) /\ env[c] \in Env /\ Good(env[c]) /\ job[c] \in Job
      /\ Fits("bought", job[c], env[c])
  BY DEF Shape, TypeOK, HoldLine, At
<1> DEFINE k == job[c].kind
           i == job[c].id
           j == [job[c] EXCEPT !.kind = k, !.id = i, !.held[k] = [id |-> i, hourly |-> TRUE]]
<1>2. /\ j.verb = "run" /\ j.kind = k /\ j.asked = job[c].asked
      /\ \A l \in Lines \ {k} : j.held[l] = job[c].held[l]
  BY <1>1 DEF Job, Fits, VerbFits, RunPlaces
<1>3. RunFits("await", j) /\ RunFits("letgo", j)
  <2>1. \A l \in job[c].asked \ {k} : l \in Lines /\ job[c].held[l].id = 0
    BY <1>1 DEF Fits, RunFits, Job
  <2> QED BY <1>2, <2>1 DEF RunFits
<1>4. PICK p \in {"await", "letgo"} : GoesOn(c, p, j)
  BY DEF HoldLine, Takes
<1> QED BY <1>2, <1>3, <1>4, RunGoesOn DEF HoldLine, RunPlaces

LEMMA KeptAwaitLine ==
  ASSUME Shape, Moves, TypeOK', NEW c \in Clients, AwaitLine(c) PROVE Keeps(c)
<1>1. TypeOK /\ record \in Env /\ Good(record) /\ env[c] \in Env /\ Good(env[c]) /\ job[c] \in Job
      /\ Fits("await", job[c], env[c])
  BY DEF Shape, TypeOK, AwaitLine, At
<1> DEFINE j == [Between(c) EXCEPT !.asked = @ \ {job[c].kind}]
<1>2. /\ job[c].verb = "run" /\ j.verb = "run" /\ j.asked = job[c].asked \ {job[c].kind}
      /\ j.held = job[c].held
  BY <1>1 DEF Between, Job, Fits, VerbFits, RunPlaces
<1>3. CASE Stops(c)
  BY <1>2, <1>3, RunStops DEF AwaitLine
<1>4. CASE GoesOn(c, "find", j)
  <2>1. RunFits("find", j)
    BY <1>1, <1>2 DEF Fits, RunFits
  <2> QED BY <1>2, <1>4, <2>1, RunGoesOn DEF AwaitLine, RunPlaces
<1> QED BY <1>3, <1>4 DEF AwaitLine

LEMMA KeptLetGo ==
  ASSUME Shape, Moves, TypeOK', NEW c \in Clients, NEW k \in Lines, LetGo(c, k) PROVE Keeps(c)
<1>1. TypeOK /\ record \in Env /\ Good(record) /\ env[c] \in Env /\ Good(env[c]) /\ job[c] \in Job
      /\ Fits("letgo", job[c], env[c])
  BY DEF Shape, TypeOK, LetGo, At
<1> DEFINE j == [job[c] EXCEPT !.held[k] = NotHeld]
<1>2. j.verb = "run"
  BY <1>1 DEF Job, Fits, VerbFits, RunPlaces
<1>3. RunFits("letgo", j)
  BY DEF RunFits
<1>4. GoesOn(c, "letgo", j)
  BY <1>1 DEF LetGo, GoesOn, Goto, At, TypeOK
<1> QED BY <1>2, <1>3, <1>4, RunGoesOn DEF LetGo, RunPlaces

LEMMA KeptCtrlC ==
  ASSUME Shape, Moves, TypeOK', NEW c \in Clients, CtrlC(c) PROVE Keeps(c)
<1> DEFINE j == [job[c] EXCEPT !.came = TRUE]
<1>1. TypeOK /\ job[c] \in Job /\ pc[c] \in Steps /\ Fits(pc[c], job[c], env[c])
  BY DEF Shape, TypeOK
<1>2. /\ j.verb = "run" /\ j.kind = job[c].kind /\ j.asked = job[c].asked
      /\ j.held = job[c].held /\ j.id = job[c].id
  BY <1>1 DEF CtrlC, Job
<1>3. pc[c] \in RunPlaces
  BY <1>1 DEF Fits, VerbFits, DeployPlaces, DeletePlaces, RunPlaces, Steps, CtrlC, Idle, At
<1>4. RunFits(pc[c], j)
  BY <1>1, <1>2 DEF Fits, RunFits
<1>5. GoesOn(c, pc[c], j)
  BY <1>1 DEF CtrlC, GoesOn, Goto, TypeOK
<1> QED BY <1>2, <1>3, <1>4, <1>5, RunGoesOn DEF CtrlC

(* Every step of a client.                                                  *)
LEMMA KeptClient ==
  ASSUME Shape, Moves, TypeOK', NEW c \in Clients, ClientStep(c) PROVE Keeps(c)
<1>1. CASE DeployStep(c)
  BY <1>1, KeptDeploy, KeptServer, KeptStart, KeptPutOnRecord, KeptSetUp, KeptForgetLine,
     KeptNextLine, KeptReadList, KeptReadCharges, KeptFirstSight, KeptWaitLine, KeptUndoLine,
     KeptDeployed DEF DeployStep
<1>2. CASE DeleteStep(c)
  BY <1>2, KeptDelete, KeptRemove, KeptReadWhatIsCharged, KeptEndLine, KeptEndServer,
     KeptDeleted DEF DeleteStep
<1>3. CASE RunEnds(c) \/ Cut(c)
  BY <1>3, FailsWell DEF RunEnds, Cut
<1>4. CASE AppRuns(c)
  <2>1. job[c].verb = "run"
    BY <1>4 DEF Shape, Fits, VerbFits, RunPlaces, AppRuns, At
  <2> QED BY <1>4, <2>1, RunStops DEF AppRuns
<1>5. CASE RunStep(c)
  BY <1>3, <1>4, <1>5, KeptRun, KeptFindLine, KeptBuyLine, KeptHoldLine, KeptAwaitLine,
     KeptCtrlC, KeptLetGo DEF RunStep
<1> QED BY <1>1, <1>2, <1>3, <1>5 DEF ClientStep

(* Before anything is bought, and after any step, the shape holds.          *)
LEMMA InitShape == Init => Shape
<1> SUFFICES ASSUME Init PROVE Shape
  OBVIOUS
<1>1. TypeOK
  BY Nothing DEF Init, InitAccount, TypeOK, AccountTyped, Places, Steps
<1>2. AccountInv
  <2>1. Bought = {} /\ 1..0 = {} /\ 0 \in 0..MaxBought
    BY AccountAssumption DEF Init, InitAccount, Bought
  <2> QED BY <2>1 DEF Init, InitAccount, AccountInv
<1>3. Good(NoEnv)
  BY DEF Good, NoEnv, NoLine
<1>4. Fits("idle", NoJob, NoEnv)
  BY DEF Fits, VerbFits, DeployFits, DeleteFits, RunFits, DeployPlaces, DeletePlaces,
         RunPlaces, NoJob
<1> QED BY <1>1, <1>2, <1>3, <1>4 DEF Init, Shape

LEMMA StepMoves == Shape /\ [Next]_vars => Moves /\ AccountInv'
<1> SUFFICES ASSUME Shape, [Next]_vars PROVE Moves /\ AccountInv'
  OBVIOUS
<1>1. AccountActs
  BY ActsClient, StepKinds DEF Acts
<1> QED BY <1>1, AccountMoves DEF Shape, TypeOK

LEMMA StepShape == Shape /\ [Next]_vars => Shape'
<1> SUFFICES ASSUME Shape, [Next]_vars PROVE Shape'
  OBVIOUS
<1>1. TypeOK /\ TypeOK' /\ Moves /\ AccountInv' /\ Good(record)
  BY StepTyped, StepMoves DEF Shape
<1>2. ASSUME NEW d \in Clients, pc'[d] = pc[d], job'[d] = job[d], env'[d] = env[d]
      PROVE  Good(env[d])' /\ Fits(pc[d], job[d], env[d])'
  <2>1. pc[d] \in Steps /\ job[d] \in Job /\ env[d] \in Env /\ Good(env[d])
        /\ Fits(pc[d], job[d], env[d])
    BY DEF Shape, TypeOK
  <2> QED BY <1>1, <1>2, <2>1, GoodLasts, FitsLasts
<1>3. ASSUME NEW c \in Clients, ClientStep(c) PROVE Shape'
  <2>1. Keeps(c) /\ Acts(c)
    BY <1>1, <1>3, KeptClient, ActsClient
  <2>2. ASSUME NEW d \in Clients PROVE Good(env[d])' /\ Fits(pc[d], job[d], env[d])'
    <3>1. CASE d = c
      BY <2>1, <3>1 DEF Keeps
    <3>2. CASE d # c
      BY <1>2, <2>1, <3>2 DEF Acts
    <3> QED BY <3>1, <3>2
  <2> QED BY <1>1, <2>1, <2>2 DEF Shape, Keeps
<1>4. CASE AccountActs /\ KeepsRecord /\ UNCHANGED <<clients, told, scene>>
  <2>1. Good(record)'
    BY <1>1, <1>4, GoodLasts DEF KeepsRecord, TypeOK
  <2>2. ASSUME NEW d \in Clients PROVE Good(env[d])' /\ Fits(pc[d], job[d], env[d])'
    BY <1>2, <1>4 DEF clients
  <2> QED BY <1>1, <2>1, <2>2 DEF Shape
<1> QED BY <1>3, <1>4, StepKinds

(* The account, the record and what every command has keep their kinds,     *)
(* also where the record is written though it changed.                      *)
THEOREM PurchasesTyped == Spec => []TypeOK
<1>1. Shape => TypeOK
  BY DEF Shape
<1> QED BY InitShape, StepShape, <1>1, PTL DEF Spec

(* delete --release-server: when it is about to say that it ended all,      *)
(* nothing of what it read from the record is charged, however late the     *)
(* list and the snapshot were, whatever failed on the way and whoever wrote *)
(* the record meanwhile.                                                    *)
THEOREM ReleasesEndAll == Spec => []ReleaseEndsAll
<1>1. Shape => ReleaseEndsAll
  <2> SUFFICES ASSUME Shape, NEW c \in Clients, At(c, "finish"), job[c].verb = "delete",
                      job[c].release, ~Problems(c)
               PROVE  IdsOf(env[c]) \cap charged = {}
    BY DEF ReleaseEndsAll
  <2>1. /\ job[c].left = {} /\ job[c].failed = {} /\ env[c].vps \notin charged
        /\ \A k \in Lines : env[c].lines[k].id \notin charged
    BY DEF Shape, Fits, DeleteFits, At, Problems
  <2> QED BY <2>1 DEF IdsOf, LineIds
<1> QED BY InitShape, StepShape, <1>1, PTL DEF Spec

-----------------------------------------------------------------------------
(* What is charged is known, where no race is taken; where only `slow` is,  *)
(* what is charged for a worker.                                            *)

(* A line of this machine's, which a run may take for one that is not       *)
(* billed by the hour when the snapshot it read is behind.                  *)
Excused(i) == "slow" \in Races /\ i \in Bought /\ lets[i] = "home"


(* While an environment is deleted only runs go on beside it.               *)
DeletesAlone ==
  \A c, d \in Clients :
    c # d /\ job[c].verb = "delete" => pc[d] = "idle" \/ job[d].verb = "run"

SameIds(e, f) == e.vps = f.vps /\ \A k \in Lines : e.lines[k].id = f.lines[k].id

(* A deploy whose copy is not stale has what the record has; a delete has   *)
(* it, but for the line it is to forget.                                    *)
CopiesFit ==
  \A c \in Clients :
    /\ pc[c] # "idle" /\ job[c].verb = "deploy" /\ c \notin stale => SameIds(env[c], record)
    /\ job[c].verb = "delete" => IdsOf(record) \subseteq IdsOf(env[c]) \cup {job[c].forget}

(* A run takes up no other line that it would not end.                      *)
HeldIsHourly ==
  \A c \in Clients, k \in Lines :
    job[c].held[k].id # 0 => job[c].held[k].hourly \/ Excused(job[c].held[k].id)

(* And no other line is charged that nobody knows of.                       *)
StillKnown ==
  \A i \in charged :
    Excused(i) \/ i \in IdsOf(record) \cup told \cup UNION {InHand(c) : c \in Clients}

KnownInv == Shape /\ DeletesAlone /\ CopiesFit /\ HeldIsHourly /\ StillKnown

(* What writing over a copy does to the products it names.                  *)
LEMMA IdsOps ==
  ASSUME NEW e \in Env
  PROVE  /\ 0 \notin IdsOf(e)
         /\ \A f \in Env : SameIds(e, f) => IdsOf(e) = IdsOf(f)
         /\ \A f : f = [e EXCEPT !.there = TRUE] => SameIds(e, f) /\ IdsOf(f) = IdsOf(e)
         /\ \A i \in Maybe : IdsOf(e) \ {i} \subseteq IdsOf(Without(e, i))
         /\ \A k \in Kinds, i \in Maybe, seen \in BOOLEAN :
              Empty(e, k) => IdsOf(e) \cup {i} \subseteq IdsOf(With(e, k, i, seen)) \cup {0}
         /\ \A k \in Lines, i \in Maybe, seen \in BOOLEAN :
              e.lines[k].id = i => SameIds(e, With(e, k, i, seen))
<1> USE DEF Env, OnLine, NoLine, Maybe
<1>1. 0 \notin IdsOf(e) /\ \A f \in Env : SameIds(e, f) => IdsOf(e) = IdsOf(f)
  BY DEF IdsOf, LineIds, SameIds
<1>2. \A f : f = [e EXCEPT !.there = TRUE] => f \in Env /\ SameIds(e, f)
  BY DEF SameIds
<1>3. \A i \in Maybe : IdsOf(e) \ {i} \subseteq IdsOf(Without(e, i))
  BY DEF IdsOf, LineIds, Without
<1>4. ASSUME NEW k \in Kinds, NEW i \in Maybe, NEW seen \in BOOLEAN, Empty(e, k)
      PROVE  IdsOf(e) \cup {i} \subseteq IdsOf(With(e, k, i, seen)) \cup {0}
  <2> DEFINE w == With(e, k, i, seen)
  <2>1. CASE k = "vps"
    <3>1. w.vps = i /\ w.lines = e.lines /\ e.vps = 0
      BY <1>4, <2>1 DEF With, Empty
    <3> QED BY <3>1 DEF IdsOf, LineIds
  <2>2. CASE k # "vps"
    <3>1. /\ k \in Lines /\ w.vps = e.vps /\ e.lines[k].id = 0 /\ w.lines[k].id = i
          /\ \A l \in Lines \ {k} : w.lines[l] = e.lines[l]
      BY <1>4, <2>2 DEF With, Empty, Kinds
    <3> QED BY <3>1 DEF IdsOf, LineIds
  <2> QED BY <2>1, <2>2
<1>5. \A k \in Lines, i \in Maybe, seen \in BOOLEAN :
        e.lines[k].id = i => SameIds(e, With(e, k, i, seen))
  BY AccountAssumption DEF With, SameIds
<1> QED BY <1>1, <1>2, <1>3, <1>4, <1>5

(* What a step of c owes to the others, and to itself.                      *)
LeavesOthers(c) == \A d \in Clients \ {c} : d \notin stale' => d \notin stale /\ record' = record

OwnFits(c) ==
  pc'[c] # "idle" =>
    /\ job'[c].verb = "deploy" /\ c \notin stale' => SameIds(env'[c], record')
    /\ job'[c].verb = "delete" => IdsOf(record') \subseteq IdsOf(env'[c]) \cup {job'[c].forget}

StaysKnown(c) ==
  \A i \in charged' :
    i \in IdsOf(record) \cup told \cup InHand(c) \/ i \notin charged =>
      Excused(i) \/ i \in IdsOf(record') \cup told' \cup InHand(c)'

Knows(c) == LeavesOthers(c) /\ OwnFits(c) /\ StaysKnown(c)

(* Only a run, and a deploy that just bought something, has anything in     *)
(* hand.                                                                    *)
LEMMA NothingInHand ==
  ASSUME Shape, NEW c \in Clients, pc[c] \notin RunPlaces \cup {"started"}
  PROVE  InHand(c) = {}
<1>1. job[c].held = NoJob.held
  BY DEF Shape, Fits, VerbFits
<1>2. \A k \in Lines : job[c].held[k].id = 0
  BY <1>1 DEF NoJob, NotHeld
<1> QED BY <1>2 DEF InHand, RunPlaces

(* A command that ended has no copy to fit.                                 *)
LEMMA AnswersFit ==
  ASSUME TypeOK, NEW c \in Clients, Answers(c) PROVE OwnFits(c)
BY GoesTyped DEF OwnFits

(* An error with nothing in hand loses nothing.                             *)
LEMMA FailsKnows ==
  ASSUME KnownInv, NEW c \in Clients, Fails(c), InHand(c) = {} PROVE Knows(c)
<1>1. TypeOK /\ Answers(c) /\ UNCHANGED <<record, stale, account, told>>
  BY DEF KnownInv, Shape, Fails, KeepsRecord
<1>2. LeavesOthers(c) /\ StaysKnown(c)
  BY <1>1 DEF LeavesOthers, StaysKnown, account
<1> QED BY <1>1, <1>2, AnswersFit DEF Knows

(* A step that writes nothing and drops nothing.                            *)
LEMMA QuietKnows ==
  ASSUME KnownInv, NEW c \in Clients, KeepsRecord, UNCHANGED <<env, told>>, pc[c] # "idle",
         job'[c].verb = job[c].verb, job'[c].forget = job[c].forget,
         charged' \subseteq charged, InHand(c) \subseteq InHand(c)'
  PROVE  Knows(c)
<1>1. LeavesOthers(c) /\ StaysKnown(c)
  BY DEF LeavesOthers, StaysKnown, KeepsRecord
<1>2. OwnFits(c)
  BY DEF OwnFits, KnownInv, CopiesFit, KeepsRecord
<1> QED BY <1>1, <1>2 DEF Knows

(* What a deploy writes over the record, or fails to.                       *)
LEMMA DeployWrites ==
  ASSUME Races \subseteq {"slow"}, KnownInv, NEW c \in Clients, NEW e \in Env, pc[c] # "idle",
         job[c].verb = "deploy", Saves(c, e) \/ SaveFails(c, e)
  PROVE  /\ LeavesOthers(c)
         /\ \/ IdsOf(record') = IdsOf(record)
            \/ IdsOf(record') = IdsOf(e) /\ IdsOf(record) = IdsOf(env[c])
         /\ Saves(c, e) => /\ c \notin stale /\ c \notin stale' /\ SameIds(e, record')
                           /\ IdsOf(record') = IdsOf(e) /\ IdsOf(record) = IdsOf(env[c])
         /\ SaveFails(c, e) => \/ KeepsRecord
                               \/ c \in stale' /\ IdsOf(record') = IdsOf(e)
                                  /\ IdsOf(record) = IdsOf(env[c])
<1>1. TypeOK /\ record \in Env /\ env[c] \in Env
  BY DEF KnownInv, Shape, TypeOK
<1>2. c \notin stale => IdsOf(record) = IdsOf(env[c])
  BY <1>1, IdsOps DEF KnownInv, CopiesFit
<1>3. CASE Saves(c, e)
  <2>1. c \notin stale /\ record' = [e EXCEPT !.there = TRUE] /\ stale' = (stale \cup Clients) \ {c}
    BY <1>3 DEF Saves
  <2>2. SameIds(e, record') /\ IdsOf(record') = IdsOf(e)
    BY <2>1, IdsOps
  <2>3. LeavesOthers(c)
    BY <2>1 DEF LeavesOthers
  <2>4. ~SaveFails(c, e) \/ KeepsRecord \/ c \in stale'
    BY DEF SaveFails, KeepsRecord
  <2> QED BY <1>2, <2>1, <2>2, <2>3, <2>4
<1>4. CASE SaveFails(c, e) /\ ~Saves(c, e)
  <2>1. CASE KeepsRecord
    BY <1>4, <2>1 DEF KeepsRecord, LeavesOthers
  <2>2. CASE c \notin stale /\ record' = [e EXCEPT !.there = TRUE] /\ stale' = Clients
    <3>1. IdsOf(record') = IdsOf(e)
      BY <2>2, IdsOps
    <3> QED BY <1>2, <1>4, <2>2, <3>1 DEF LeavesOthers
  <2> QED BY <1>4, <2>1, <2>2 DEF SaveFails, KeepsRecord
<1> QED BY <1>3, <1>4

(* A command begins with a copy of the record.                              *)
LEMMA KnowsDeploy ==
  ASSUME Races \subseteq {"slow"}, KnownInv, NEW c \in Clients, Deploy(c) PROVE Knows(c)
<1>1. TypeOK /\ record \in Env /\ pc[c] = "idle" /\ UNCHANGED <<account, record, told>>
      /\ env'[c] = record /\ stale' = stale \ {c}
  BY DEF KnownInv, Shape, TypeOK, Deploy, Begins, Idle, At, Has
<1>2. InHand(c) = {}
  BY <1>1, NothingInHand DEF KnownInv, RunPlaces
<1>3. PICK asked \in SUBSET scene.lines, forget \in LineIds(record) \cup {0} :
        GoesOn(c, "server", [NoJob EXCEPT !.asked = asked, !.forget = forget])
  BY DEF Deploy
<1>4. job'[c].verb = "deploy"
  BY <1>1, <1>3 DEF GoesOn, Does, TypeOK, NoJob
<1>5. SameIds(env'[c], record')
  BY <1>1 DEF SameIds
<1> QED BY <1>1, <1>2, <1>4, <1>5 DEF Knows, LeavesOthers, OwnFits, StaysKnown, account

LEMMA KnowsDelete ==
  ASSUME Races \subseteq {"slow"}, KnownInv, NEW c \in Clients, Delete(c) PROVE Knows(c)
<1>1. TypeOK /\ record \in Env /\ pc[c] = "idle" /\ UNCHANGED <<account, record, told>>
      /\ stale' = stale \ {c}
  BY DEF KnownInv, Shape, TypeOK, Delete, Begins, Idle, At
<1>2. InHand(c) = {}
  BY <1>1, NothingInHand DEF KnownInv, RunPlaces
<1>3. PICK release \in BOOLEAN, reach \in BOOLEAN, forget \in LineIds(record) \cup {0} :
        /\ GoesOn(c, "remove", [NoJob EXCEPT !.verb = "delete", !.release = release,
                                             !.reach = reach, !.forget = forget])
        /\ Has(c, Without(record, forget))
  BY DEF Delete
<1>4. forget \in Maybe
  BY <1>1 DEF LineIds, Env, OnLine, Maybe
<1>5. env'[c] = Without(record, forget) /\ job'[c].verb = "delete" /\ job'[c].forget = forget
  BY <1>1, <1>3 DEF GoesOn, Does, Has, TypeOK, NoJob
<1>6. IdsOf(record) \subseteq IdsOf(env'[c]) \cup {forget}
  BY <1>1, <1>4, <1>5, IdsOps
<1> QED BY <1>1, <1>2, <1>5, <1>6 DEF Knows, LeavesOthers, OwnFits, StaysKnown, account

(* The steps of a deploy.                                                   *)
LEMMA KnowsServer ==
  ASSUME Races \subseteq {"slow"}, KnownInv, NEW c \in Clients, Server(c) PROVE Knows(c)
<1>1. TypeOK /\ env[c] \in Env /\ job[c] \in Job /\ pc[c] = "server" /\ Fits("server", job[c], env[c])
  BY DEF KnownInv, Shape, TypeOK, Server, At
<1>2. InHand(c) = {}
  BY <1>1, NothingInHand DEF KnownInv, RunPlaces
<1> QED BY <1>1, <1>2, QuietKnows DEF Server, KeepsRecord, account

LEMMA KnowsStart ==
  ASSUME Races \subseteq {"slow"}, KnownInv, NEW c \in Clients, Start(c) PROVE Knows(c)
<1>1. TypeOK /\ env[c] \in Env /\ job[c] \in Job /\ pc[c] = "start" /\ Fits("start", job[c], env[c])
  BY DEF KnownInv, Shape, TypeOK, Start, At
<1>2. InHand(c) = {}
  BY <1>1, NothingInHand DEF KnownInv, RunPlaces
<1>3. ASSUME NEW i \in Ids, NEW started, Starts(i, job[c].kind, "server"),
             GoesOn(c, "started", [job[c] EXCEPT !.id = i, !.new = TRUE, !.started = started]),
             KeepsRecord, UNCHANGED <<env, told>>
      PROVE  Knows(c)
  <2>1. pc'[c] = "started" /\ job'[c].id = i /\ job'[c].verb = job[c].verb
        /\ job'[c].forget = job[c].forget /\ i # 0
    BY <1>1, <1>3 DEF GoesOn, Goto, Does, TypeOK, Job, Ids
  <2>2. i \in InHand(c)'
    BY <2>1 DEF InHand
  <2>3. charged' = charged \cup {i}
    BY <1>3 DEF Starts
  <2>4. LeavesOthers(c) /\ StaysKnown(c)
    BY <1>2, <1>3, <2>2, <2>3 DEF LeavesOthers, StaysKnown, KeepsRecord
  <2>5. OwnFits(c)
    BY <1>1, <1>3, <2>1 DEF OwnFits, KnownInv, CopiesFit, KeepsRecord
  <2> QED BY <2>4, <2>5 DEF Knows
<1> QED BY <1>2, <1>3, FailsKnows DEF Start, StartsUnnamed

LEMMA KnowsPutOnRecord ==
  ASSUME Races \subseteq {"slow"}, KnownInv, NEW c \in Clients, PutOnRecord(c) PROVE Knows(c)
<1>1. TypeOK /\ env[c] \in Env /\ job[c] \in Job /\ pc[c] = "started" /\ Fits("started", job[c], env[c])
  BY DEF KnownInv, Shape, TypeOK, PutOnRecord, At
<1> DEFINE e == With(env[c], job[c].kind, job[c].id, FALSE)
<1>2. job[c].kind \in Kinds /\ job[c].id \in Ids /\ Empty(env[c], job[c].kind)
      /\ job[c].verb = "deploy" /\ job[c].held = NoJob.held
  <2>1. job[c].kind \in Kinds
    BY <1>1 DEF Job
  <2> QED BY <1>1, <2>1 DEF Fits, DeployFits, VerbFits, DeployPlaces, RunPlaces
<1>3. e \in Env /\ IdsOf(env[c]) \cup {job[c].id} \subseteq IdsOf(e) \cup {0} /\ 0 \notin IdsOf(env[c])
  <2>1. job[c].id \in Maybe
    BY <1>2 DEF Maybe
  <2>2. e \in Env
    BY <1>1, <1>2, <2>1, EnvOps
  <2>3. \A k \in Kinds, i \in Maybe, seen \in BOOLEAN :
          Empty(env[c], k) =>
            IdsOf(env[c]) \cup {i} \subseteq IdsOf(With(env[c], k, i, seen)) \cup {0}
    BY <1>1, IdsOps
  <2>4. 0 \notin IdsOf(env[c])
    BY <1>1, IdsOps
  <2>5. FALSE \in BOOLEAN
    OBVIOUS
  <2>6. IdsOf(env[c]) \cup {job[c].id} \subseteq IdsOf(e) \cup {0}
    BY <1>2, <2>1, <2>3, <2>5
  <2> QED BY <2>2, <2>4, <2>6
<1>4. InHand(c) = {job[c].id}
  BY <1>1, <1>2 DEF InHand, NoJob, NotHeld, Ids
<1>5. job[c].id # 0 /\ charged' = charged
  BY <1>2 DEF Ids, PutOnRecord, account
<1>6. CASE Saves(c, e)
  <2>1. /\ LeavesOthers(c) /\ c \notin stale' /\ SameIds(e, record')
        /\ IdsOf(record') = IdsOf(e) /\ IdsOf(record) = IdsOf(env[c])
    BY <1>1, <1>2, <1>3, <1>6, DeployWrites
  <2>2. StaysKnown(c)
    BY <1>3, <1>4, <1>5, <2>1 DEF StaysKnown, PutOnRecord, Tells
  <2>3. pc'[c] = "idle" \/ (env'[c] = e /\ job'[c].verb = "deploy")
    <3>1. Between(c).verb = "deploy"
      BY <1>1, <1>2 DEF Between, Job
    <3>2. After(c) \in {"idle", "build", "sight"}
      BY DEF After
    <3>3. CASE Answers(c)
      BY <1>1, <3>3, GoesTyped
    <3>4. CASE Has(c, e) /\ GoesOn(c, "build", Between(c))
      BY <1>1, <3>1, <3>4 DEF Has, GoesOn, Does, TypeOK
    <3>5. CASE Has(c, e) /\ UNCHANGED job
      BY <1>1, <1>2, <3>5 DEF Has, TypeOK
    <3>6. CASE SaveFails(c, e) /\ Answers(c)
      BY <3>3, <3>6
    <3> QED BY <3>2, <3>3, <3>4, <3>5, <3>6 DEF PutOnRecord
  <2>4. OwnFits(c)
    BY <2>1, <2>3 DEF OwnFits
  <2> QED BY <2>1, <2>2, <2>4 DEF Knows
<1>7. CASE ~Saves(c, e)
  <2>1. SaveFails(c, e) /\ Answers(c) /\ told' = told \cup {job[c].id}
    BY <1>7 DEF PutOnRecord, Tells
  <2>2. /\ LeavesOthers(c)
        /\ \/ IdsOf(record') = IdsOf(record)
           \/ IdsOf(record') = IdsOf(e) /\ IdsOf(record) = IdsOf(env[c])
    BY <1>1, <1>2, <1>3, <2>1, DeployWrites
  <2>3. StaysKnown(c)
    <3> SUFFICES ASSUME NEW i \in charged, i \in IdsOf(record) \cup told \cup {job[c].id}
                 PROVE  i \in IdsOf(record') \cup told'
      BY <1>4, <1>5 DEF StaysKnown
    <3>1. CASE i \in IdsOf(record)
      BY <1>3, <2>2, <3>1
    <3> QED BY <2>1, <3>1
  <2> QED BY <1>1, <2>1, <2>2, <2>3, AnswersFit DEF Knows
<1> QED BY <1>6, <1>7

LEMMA KnowsSetUp ==
  ASSUME Races \subseteq {"slow"}, KnownInv, NEW c \in Clients, SetUp(c) PROVE Knows(c)
<1>1. TypeOK /\ env[c] \in Env /\ job[c] \in Job /\ pc[c] = "build" /\ Fits("build", job[c], env[c])
  BY DEF KnownInv, Shape, TypeOK, SetUp, At
<1>2. InHand(c) = {}
  BY <1>1, NothingInHand DEF KnownInv, RunPlaces
<1> DEFINE e == [env[c] EXCEPT !.there = TRUE, !.host = TRUE]
<1>3. CASE Fails(c)
  BY <1>2, <1>3, FailsKnows
<1>4. CASE ~Fails(c)
  <2>1. e \in Env /\ SameIds(env[c], e) /\ job[c].verb = "deploy"
    BY <1>1 DEF Env, SameIds, Fits, VerbFits, DeployPlaces
  <2>2. IdsOf(e) = IdsOf(env[c])
    BY <1>1, <2>1, IdsOps
  <2>3. charged' = charged /\ told' = told /\ env'[c] = e
    BY <1>1, <1>4 DEF SetUp, account, Has, TypeOK
  <2>4. Saves(c, e) \/ SaveFails(c, e)
    BY <1>4 DEF SetUp
  <2>5. LeavesOthers(c) /\ IdsOf(record') = IdsOf(record)
    BY <1>1, <2>1, <2>2, <2>4, DeployWrites
  <2>6. StaysKnown(c)
    BY <1>2, <2>3, <2>5 DEF StaysKnown
  <2>7. c \notin stale' => SameIds(e, record')
    <3>1. CASE Saves(c, e)
      BY <1>1, <2>1, <3>1, DeployWrites
    <3>2. CASE SaveFails(c, e) /\ KeepsRecord
      BY <1>1, <2>1, <3>2 DEF KeepsRecord, KnownInv, CopiesFit, SameIds
    <3> QED BY <1>1, <2>1, <2>4, <3>1, <3>2, DeployWrites
  <2>8. job'[c].verb = "deploy"
    BY <1>1, <1>4, <2>1 DEF SetUp, Does, TypeOK, Job
  <2> QED BY <2>3, <2>5, <2>6, <2>7, <2>8 DEF Knows, OwnFits
<1> QED BY <1>3, <1>4

LEMMA KnowsForgetLine ==
  ASSUME Races \subseteq {"slow"}, KnownInv, NEW c \in Clients, ForgetLine(c) PROVE Knows(c)
<1>1. TypeOK /\ env[c] \in Env /\ job[c] \in Job /\ pc[c] = "forget" /\ Fits("forget", job[c], env[c])
  BY DEF KnownInv, Shape, TypeOK, ForgetLine, At
<1>2. InHand(c) = {}
  BY <1>1, NothingInHand DEF KnownInv, RunPlaces
<1> DEFINE i == job[c].forget
           e == Without(env[c], i)
<1>3. e \in Env /\ IdsOf(env[c]) \ {i} \subseteq IdsOf(e) /\ job[c].verb = "deploy"
  BY <1>1, EnvOps, IdsOps DEF Job, Kinds, Fits, VerbFits, DeployPlaces
<1>4. charged' = charged /\ told' = told \cup {i}
  BY DEF ForgetLine, Tells, account
<1>5. /\ LeavesOthers(c)
      /\ \/ IdsOf(record') = IdsOf(record)
         \/ IdsOf(record') = IdsOf(e) /\ IdsOf(record) = IdsOf(env[c])
  BY <1>1, <1>3, DeployWrites DEF ForgetLine
<1>6. StaysKnown(c)
  BY <1>2, <1>3, <1>4, <1>5 DEF StaysKnown
<1>7. OwnFits(c)
  <2>1. CASE Saves(c, e) /\ Has(c, e) /\ UNCHANGED job
    <3>1. SameIds(e, record') /\ env'[c] = e /\ job'[c].verb = "deploy"
      BY <1>1, <1>3, <2>1, DeployWrites DEF Has, TypeOK
    <3> QED BY <3>1 DEF OwnFits
  <2> QED BY <1>1, <2>1, AnswersFit DEF ForgetLine
<1> QED BY <1>5, <1>6, <1>7 DEF Knows

LEMMA KnowsNextLine ==
  ASSUME Races \subseteq {"slow"}, KnownInv, NEW c \in Clients, NextLine(c) PROVE Knows(c)
<1>1. TypeOK /\ env[c] \in Env /\ job[c] \in Job /\ pc[c] = "lines" /\ Fits("lines", job[c], env[c])
  BY DEF KnownInv, Shape, TypeOK, NextLine, At
<1>2. InHand(c) = {}
  BY <1>1, NothingInHand DEF KnownInv, RunPlaces
<1>3. job'[c].verb = job[c].verb /\ job'[c].forget = job[c].forget
  <2>1. CASE UNCHANGED job
    BY <2>1
  <2>2. ASSUME NEW p, NEW k, NEW i,
               GoesOn(c, p, [job[c] EXCEPT !.kind = k, !.id = i, !.new = FALSE])
        PROVE  job'[c].verb = job[c].verb /\ job'[c].forget = job[c].forget
    BY <1>1, <2>2 DEF GoesOn, Does, TypeOK, Job
  <2> QED BY <2>1, <2>2 DEF NextLine
<1> QED BY <1>1, <1>2, <1>3, QuietKnows DEF NextLine, account

LEMMA KnowsReadList ==
  ASSUME Races \subseteq {"slow"}, KnownInv, NEW c \in Clients, ReadList(c) PROVE Knows(c)
<1>1. TypeOK /\ env[c] \in Env /\ job[c] \in Job /\ pc[c] = "list" /\ Fits("list", job[c], env[c])
  BY DEF KnownInv, Shape, TypeOK, ReadList, At
<1>2. InHand(c) = {}
  BY <1>1, NothingInHand DEF KnownInv, RunPlaces
<1>3. CASE ~Fails(c)
  <2>1. job'[c].verb = job[c].verb /\ job'[c].forget = job[c].forget
    BY <1>1, <1>3 DEF ReadList, GoesOn, Does, TypeOK, Job
  <2> QED BY <1>1, <1>2, <1>3, <2>1, QuietKnows DEF ReadList, account
<1> QED BY <1>2, <1>3, FailsKnows

LEMMA KnowsReadCharges ==
  ASSUME Races \subseteq {"slow"}, KnownInv, NEW c \in Clients, ReadCharges(c) PROVE Knows(c)
<1>1. TypeOK /\ env[c] \in Env /\ job[c] \in Job /\ pc[c] = "charges" /\ Fits("charges", job[c], env[c])
  BY DEF KnownInv, Shape, TypeOK, ReadCharges, At
<1>2. InHand(c) = {}
  BY <1>1, NothingInHand DEF KnownInv, RunPlaces
<1> DEFINE i == job[c].id
           e == Without(env[c], i)
<1>3. e \in Env /\ IdsOf(env[c]) \ {i} \subseteq IdsOf(e) /\ job[c].verb = "deploy"
  BY <1>1, EnvOps, IdsOps DEF Job, Kinds, Fits, VerbFits, DeployPlaces
<1>4. CASE Fails(c)
  BY <1>2, <1>4, FailsKnows
<1>5. ASSUME IsGone(env[c].lines[job[c].kind], job[c].listed, i \in shown),
             Saves(c, e) \/ SaveFails(c, e),
             \/ Has(c, e) /\ Does(c, [job[c] EXCEPT !.listed = FALSE]) /\ Saves(c, e)
             \/ Answers(c),
             UNCHANGED <<account, told>>
      PROVE  Knows(c)
  <2>1. i \notin charged
    BY <1>1, <1>5 DEF IsGone, Fits, DeployFits
  <2>2. /\ LeavesOthers(c)
        /\ \/ IdsOf(record') = IdsOf(record)
           \/ IdsOf(record') = IdsOf(e) /\ IdsOf(record) = IdsOf(env[c])
    BY <1>1, <1>3, <1>5, DeployWrites
  <2>3. StaysKnown(c)
    BY <1>2, <1>3, <1>5, <2>1, <2>2 DEF StaysKnown, account
  <2>4. OwnFits(c)
    <3>1. CASE Has(c, e) /\ Does(c, [job[c] EXCEPT !.listed = FALSE]) /\ Saves(c, e)
      <4>1. SameIds(e, record') /\ env'[c] = e /\ job'[c].verb = "deploy"
        BY <1>1, <1>3, <3>1, DeployWrites DEF Has, Does, TypeOK, Job
      <4> QED BY <4>1 DEF OwnFits
    <3> QED BY <1>1, <1>5, <3>1, AnswersFit
  <2> QED BY <2>2, <2>3, <2>4 DEF Knows
<1>6. CASE /\ GoesOn(c, "wait", [job[c] EXCEPT !.listed = FALSE])
           /\ KeepsRecord /\ UNCHANGED <<account, env, told>>
  <2>1. job'[c].verb = job[c].verb /\ job'[c].forget = job[c].forget
    BY <1>1, <1>6 DEF GoesOn, Does, TypeOK, Job
  <2> QED BY <1>1, <1>2, <1>6, <2>1, QuietKnows DEF account
<1> QED BY <1>4, <1>5, <1>6 DEF ReadCharges, GoesOn

(* A line written again names nothing else.                                 *)
LEMMA KnowsSees ==
  ASSUME Races \subseteq {"slow"}, KnownInv, NEW c \in Clients, NEW j, NEW next, Sees(c, j, next),
         UNCHANGED account, pc[c] # "idle", job[c].verb = "deploy", j.verb = "deploy",
         InHand(c) = {}, job[c].kind \in Lines, env[c].lines[job[c].kind].id = job[c].id
  PROVE  Knows(c)
<1> DEFINE e == With(env[c], job[c].kind, job[c].id, TRUE)
<1>1. TypeOK /\ env[c] \in Env /\ job[c] \in Job
  BY DEF KnownInv, Shape, TypeOK
<1>2. e \in Env /\ SameIds(env[c], e) /\ IdsOf(env[c]) = IdsOf(e)
  BY <1>1, EnvOps, IdsOps DEF Job
<1>3. LeavesOthers(c) /\ IdsOf(record') = IdsOf(record)
  BY <1>1, <1>2, DeployWrites DEF Sees
<1>4. told \subseteq told'
  BY DEF Sees, Tells
<1>5. StaysKnown(c)
  BY <1>3, <1>4 DEF StaysKnown, account
<1>6. OwnFits(c)
  <2>1. CASE Saves(c, e) /\ Has(c, e) /\ GoesOn(c, next, j)
    <3>1. SameIds(e, record') /\ env'[c] = e /\ job'[c] = j
      BY <1>1, <1>2, <2>1, DeployWrites DEF Has, GoesOn, Does, TypeOK
    <3> QED BY <3>1 DEF OwnFits
  <2> QED BY <1>1, <2>1, AnswersFit DEF Sees
<1> QED BY <1>3, <1>5, <1>6 DEF Knows

LEMMA KnowsFirstSight ==
  ASSUME Races \subseteq {"slow"}, KnownInv, NEW c \in Clients, FirstSight(c) PROVE Knows(c)
<1>1. TypeOK /\ env[c] \in Env /\ job[c] \in Job /\ pc[c] = "sight" /\ Fits("sight", job[c], env[c])
  BY DEF KnownInv, Shape, TypeOK, FirstSight, At
<1>2. InHand(c) = {}
  BY <1>1, NothingInHand DEF KnownInv, RunPlaces
<1>3. /\ job[c].verb = "deploy" /\ job[c].kind \in Lines
      /\ env[c].lines[job[c].kind].id = job[c].id
  BY <1>1 DEF Fits, VerbFits, DeployFits, DeployPlaces
<1> QED BY <1>1, <1>2, <1>3, FailsKnows, KnowsSees DEF FirstSight

LEMMA KnowsWaitLine ==
  ASSUME Races \subseteq {"slow"}, KnownInv, NEW c \in Clients, WaitLine(c) PROVE Knows(c)
<1>1. TypeOK /\ env[c] \in Env /\ job[c] \in Job /\ pc[c] = "wait" /\ Fits("wait", job[c], env[c])
  BY DEF KnownInv, Shape, TypeOK, WaitLine, At
<1>2. InHand(c) = {}
  BY <1>1, NothingInHand DEF KnownInv, RunPlaces
<1> DEFINE j == [Between(c) EXCEPT !.asked = @ \ {job[c].kind}]
<1>3. /\ job[c].verb = "deploy" /\ job[c].kind \in Lines /\ j.verb = "deploy"
      /\ env[c].lines[job[c].kind].id = job[c].id
  BY <1>1 DEF Fits, VerbFits, DeployFits, DeployPlaces, Between, Job
<1>4. CASE Goto(c, "undo") /\ KeepsRecord /\ UNCHANGED <<account, job, env, told>>
  BY <1>1, <1>2, <1>4, QuietKnows DEF account
<1> QED BY <1>1, <1>2, <1>3, <1>4, FailsKnows, KnowsSees DEF WaitLine

LEMMA KnowsUndoLine ==
  ASSUME Races \subseteq {"slow"}, KnownInv, NEW c \in Clients, UndoLine(c) PROVE Knows(c)
<1>1. TypeOK /\ env[c] \in Env /\ job[c] \in Job /\ pc[c] = "undo" /\ Fits("undo", job[c], env[c])
  BY DEF KnownInv, Shape, TypeOK, UndoLine, At
<1>2. InHand(c) = {}
  BY <1>1, NothingInHand DEF KnownInv, RunPlaces
<1> DEFINE i == job[c].id
           e == Without(env[c], i)
<1>3. e \in Env /\ IdsOf(env[c]) \ {i} \subseteq IdsOf(e) /\ job[c].verb = "deploy"
  BY <1>1, EnvOps, IdsOps DEF Job, Kinds, Fits, VerbFits, DeployPlaces
<1>4. CASE Ends(i) /\ (Saves(c, e) \/ SaveFails(c, e))
  <2>1. charged' = charged \ {i} /\ told' = told
    BY <1>4 DEF Ends, UndoLine
  <2>2. /\ LeavesOthers(c)
        /\ \/ IdsOf(record') = IdsOf(record)
           \/ IdsOf(record') = IdsOf(e) /\ IdsOf(record) = IdsOf(env[c])
    BY <1>1, <1>3, <1>4, DeployWrites
  <2>3. StaysKnown(c)
    BY <1>2, <1>3, <2>1, <2>2 DEF StaysKnown
  <2> QED BY <1>1, <2>2, <2>3, AnswersFit DEF Knows, UndoLine
<1>5. CASE KeepsRecord /\ (Ends(i) \/ UNCHANGED account)
  <2>1. charged' \subseteq charged /\ told' = told
    BY <1>5 DEF Ends, UndoLine, account
  <2>2. LeavesOthers(c) /\ StaysKnown(c)
    BY <1>2, <1>5, <2>1 DEF KeepsRecord, LeavesOthers, StaysKnown
  <2> QED BY <1>1, <2>2, AnswersFit DEF Knows, UndoLine
<1> QED BY <1>4, <1>5 DEF UndoLine

LEMMA KnowsDeployed ==
  ASSUME Races \subseteq {"slow"}, KnownInv, NEW c \in Clients, Deployed(c) PROVE Knows(c)
<1>1. TypeOK /\ env[c] \in Env /\ job[c] \in Job /\ pc[c] = "finish" /\ Fits("finish", job[c], env[c])
  BY DEF KnownInv, Shape, TypeOK, Deployed, At
<1>2. InHand(c) = {}
  BY <1>1, NothingInHand DEF KnownInv, RunPlaces
<1>3. charged' = charged /\ told' = told /\ job[c].verb = "deploy"
  BY DEF Deployed, account
<1>4. LeavesOthers(c) /\ IdsOf(record') = IdsOf(record)
  <2>1. CASE KeepsRecord
    BY <2>1 DEF KeepsRecord, LeavesOthers
  <2> QED BY <1>1, <1>3, <2>1, DeployWrites DEF Deployed
<1>5. StaysKnown(c)
  BY <1>2, <1>3, <1>4 DEF StaysKnown
<1> QED BY <1>1, <1>4, <1>5, AnswersFit DEF Knows, Deployed

(* The steps of a delete.                                                   *)
LEMMA KnowsRemove ==
  ASSUME Races \subseteq {"slow"}, KnownInv, NEW c \in Clients, Remove(c) PROVE Knows(c)
<1>1. TypeOK /\ env[c] \in Env /\ job[c] \in Job /\ pc[c] = "remove" /\ Fits("remove", job[c], env[c])
  BY DEF KnownInv, Shape, TypeOK, Remove, At
<1>2. InHand(c) = {}
  BY <1>1, NothingInHand DEF KnownInv, RunPlaces
<1>3. ASSUME NEW p, NEW r, GoesOn(c, p, [job[c] EXCEPT !.removal = r]),
             KeepsRecord, UNCHANGED <<account, env, told>>
      PROVE  Knows(c)
  <2>1. job'[c].verb = job[c].verb /\ job'[c].forget = job[c].forget
    BY <1>1, <1>3 DEF GoesOn, Does, TypeOK, Job
  <2> QED BY <1>1, <1>2, <1>3, <2>1, QuietKnows DEF account
<1> QED BY <1>2, <1>3, FailsKnows DEF Remove

LEMMA KnowsReadWhatIsCharged ==
  ASSUME Races \subseteq {"slow"}, KnownInv, NEW c \in Clients, ReadWhatIsCharged(c) PROVE Knows(c)
<1>1. TypeOK /\ env[c] \in Env /\ job[c] \in Job /\ pc[c] = "ends" /\ Fits("ends", job[c], env[c])
  BY DEF KnownInv, Shape, TypeOK, ReadWhatIsCharged, At
<1>2. InHand(c) = {}
  BY <1>1, NothingInHand DEF KnownInv, RunPlaces
<1>3. job'[c].verb = job[c].verb /\ job'[c].forget = job[c].forget
  BY <1>1 DEF ReadWhatIsCharged, GoesOn, Does, TypeOK, Job
<1> QED BY <1>1, <1>2, <1>3, QuietKnows DEF ReadWhatIsCharged, account

LEMMA KnowsEndLine ==
  ASSUME Races \subseteq {"slow"}, KnownInv, NEW c \in Clients, NEW k \in Lines, EndLine(c, k) PROVE Knows(c)
<1>1. TypeOK /\ env[c] \in Env /\ job[c] \in Job /\ pc[c] = "endLines" /\ Fits("endLines", job[c], env[c])
  BY DEF KnownInv, Shape, TypeOK, EndLine, At
<1>2. InHand(c) = {}
  BY <1>1, NothingInHand DEF KnownInv, RunPlaces
<1>3. job'[c].verb = job[c].verb /\ job'[c].forget = job[c].forget
  <2>1. \A j : Does(c, j) => job'[c] = j
    BY <1>1 DEF Does, TypeOK
  <2>2. ASSUME NEW left PROVE [job[c] EXCEPT !.left = left].verb = job[c].verb
                              /\ [job[c] EXCEPT !.left = left].forget = job[c].forget
    BY <1>1 DEF Job
  <2>3. CASE Does(c, [job[c] EXCEPT !.left = @ \ {k}])
    BY <2>1, <2>2, <2>3
  <2>4. CASE Does(c, [[job[c] EXCEPT !.left = @ \ {k}] EXCEPT !.failed = @ \cup {k}])
    BY <1>1, <2>1, <2>4 DEF Job
  <2> QED BY <2>3, <2>4 DEF EndLine
<1>4. charged' \subseteq charged
  BY DEF EndLine, Ends, account
<1> QED BY <1>1, <1>2, <1>3, <1>4, QuietKnows DEF EndLine

LEMMA KnowsEndServer ==
  ASSUME Races \subseteq {"slow"}, KnownInv, NEW c \in Clients, EndServer(c) PROVE Knows(c)
<1>1. TypeOK /\ env[c] \in Env /\ job[c] \in Job /\ pc[c] = "endLines" /\ Fits("endLines", job[c], env[c])
  BY DEF KnownInv, Shape, TypeOK, EndServer, At
<1>2. InHand(c) = {}
  BY <1>1, NothingInHand DEF KnownInv, RunPlaces
<1>3. job'[c].verb = job[c].verb /\ job'[c].forget = job[c].forget
  BY <1>1 DEF EndServer, Does, TypeOK, Job
<1>4. charged' \subseteq charged
  BY DEF EndServer, Ends, account
<1> QED BY <1>1, <1>2, <1>3, <1>4, QuietKnows DEF EndServer

LEMMA KnowsDeleted ==
  ASSUME Races \subseteq {"slow"}, KnownInv, NEW c \in Clients, Deleted(c) PROVE Knows(c)
<1>1. TypeOK /\ env[c] \in Env /\ job[c] \in Job /\ pc[c] = "finish" /\ Fits("finish", job[c], env[c])
  BY DEF KnownInv, Shape, TypeOK, Deleted, At
<1>2. InHand(c) = {}
  BY <1>1, NothingInHand DEF KnownInv, RunPlaces
<1> DEFINE e == LeftOver(c)
<1>3. charged' = charged /\ job[c].verb = "delete" /\ told \subseteq told'
      /\ (job[c].forget # 0 => job[c].forget \in told')
      /\ (~job[c].release => IdsOf(env[c]) \subseteq told')
  BY DEF Deleted, account, Tells
<1>4. IdsOf(record) \subseteq IdsOf(env[c]) \cup {job[c].forget} /\ 0 \notin IdsOf(record)
  BY <1>3, IdsOps DEF KnownInv, Shape, TypeOK, CopiesFit
<1>5. ASSUME NEW i \in charged, i \in IdsOf(env[c]), job[c].release
      PROVE  Problems(c) /\ i \in IdsOf(e)
  <2>1. CASE i = env[c].vps /\ i # 0
    <3>1. ~job[c].ended /\ "vps" \in job[c].failed
      BY <1>1, <1>3, <1>5, <2>1 DEF Fits, DeleteFits
    <3>2. e.vps = i
      BY <1>1, <2>1, <3>1 DEF LeftOver, Env
    <3> QED BY <2>1, <3>1, <3>2 DEF Problems, IdsOf
  <2>2. ASSUME NEW k \in Lines, i = env[c].lines[k].id, i # 0
        PROVE  Problems(c) /\ i \in IdsOf(e)
    <3>1. k \in job[c].failed
      BY <1>1, <1>3, <1>5, <2>2 DEF Fits, DeleteFits
    <3>2. e.lines[k].id = i
      BY <1>1, <2>2, <3>1 DEF LeftOver, Env
    <3> QED BY <2>2, <3>1, <3>2 DEF Problems, IdsOf, LineIds
  <2> QED BY <1>5, <2>1, <2>2 DEF IdsOf, LineIds
<1>6. /\ LeavesOthers(c)
      /\ \/ record' = record
         \/ Problems(c) /\ IdsOf(record') = IdsOf(e)
         \/ ~Problems(c)
  <2>1. e \in Env
    BY <1>1 DEF LeftOver, Env, OnLine, NoLine, Maybe
  <2>2. \A f : f = [e EXCEPT !.there = TRUE] => IdsOf(f) = IdsOf(e)
    BY <2>1, IdsOps
  <2>3. LeavesOthers(c)
    BY DEF Deleted, LeavesOthers, Saves, SaveFails, KeepsRecord
  <2>4. Problems(c) => record' = record \/ record' = [e EXCEPT !.there = TRUE]
    BY DEF Deleted, Saves, SaveFails
  <2> QED BY <2>2, <2>3, <2>4
<1>7. StaysKnown(c)
  <2> SUFFICES ASSUME NEW i \in charged, i \in IdsOf(record) \cup told
               PROVE  i \in IdsOf(record') \cup told'
    BY <1>2, <1>3 DEF StaysKnown
  <2>1. CASE i \in told
    BY <1>3, <2>1
  <2>2. CASE i = job[c].forget /\ i # 0
    BY <1>3, <2>2
  <2>3. CASE i \in IdsOf(env[c]) /\ i \in IdsOf(record)
    BY <1>3, <1>5, <1>6, <2>3
  <2> QED BY <1>4, <2>1, <2>2, <2>3
<1> QED BY <1>1, <1>6, <1>7, AnswersFit DEF Knows, Deleted

(* What a step of a run owes.                                               *)
RunKnows(c) ==
  /\ KeepsRecord /\ StaysKnown(c)
  /\ job'[c].verb = "run" \/ pc'[c] = "idle"
  /\ \A l \in Lines :
       job'[c].held[l].id # 0 => job'[c].held[l].hourly \/ Excused(job'[c].held[l].id)

(* A step of a run that takes up nothing and lets nothing go.               *)
LEMMA RunIsQuiet ==
  ASSUME KnownInv, NEW c \in Clients, NEW p, NEW j, GoesOn(c, p, j), KeepsRecord, UNCHANGED told,
         charged' \subseteq charged, pc[c] # "started", pc[c] # "bought",
         j.verb = "run", j.held = job[c].held
  PROVE  RunKnows(c)
<1>1. job'[c] = j
  BY DEF GoesOn, Does, KnownInv, Shape, TypeOK
<1>2. InHand(c) \subseteq InHand(c)'
  BY <1>1 DEF InHand
<1> QED BY <1>1, <1>2 DEF RunKnows, StaysKnown, KeepsRecord, KnownInv, HeldIsHourly

(* A run that stops still holds what it held.                               *)
LEMMA RunKnowsStops ==
  ASSUME KnownInv, NEW c \in Clients, Stops(c), KeepsRecord, UNCHANGED <<account, told>>,
         pc[c] # "started", pc[c] # "bought", job[c].verb = "run"
  PROVE  RunKnows(c)
<1> DEFINE j == [Between(c) EXCEPT !.asked = {}, !.snapshot = {}]
<1>1. job[c] \in Job
  BY DEF KnownInv, Shape, TypeOK
<1>2. j.verb = "run" /\ j.held = job[c].held
  BY <1>1 DEF Between, Job
<1> QED BY <1>2, RunIsQuiet DEF Stops, account

(* The steps of a run.                                                      *)
LEMMA RunKnowsRun ==
  ASSUME Races \subseteq {"slow"}, KnownInv, NEW c \in Clients, Run(c) PROVE RunKnows(c)
<1>1. TypeOK /\ pc[c] = "idle"
  BY DEF KnownInv, Shape, TypeOK, Run, Begins, Idle, At
<1>2. job[c] = NoJob
  BY <1>1 DEF KnownInv, Shape, Fits, VerbFits
<1>3. PICK asked \in SUBSET (scene.lines \ Slow), keep \in BOOLEAN :
        GoesOn(c, "find", [NoJob EXCEPT !.verb = "run", !.asked = asked, !.keep = keep,
                                        !.snapshot = shown])
  BY DEF Run
<1> DEFINE j == [NoJob EXCEPT !.verb = "run", !.asked = asked, !.keep = keep,
                              !.snapshot = shown]
<1>4. j.verb = "run" /\ j.held = job[c].held
  BY <1>2 DEF NoJob
<1> QED BY <1>1, <1>3, <1>4, RunIsQuiet DEF Run, account

LEMMA RunKnowsFindLine ==
  ASSUME Races \subseteq {"slow"}, KnownInv, NEW c \in Clients, FindLine(c) PROVE RunKnows(c)
<1>1. TypeOK /\ job[c] \in Job /\ pc[c] = "find" /\ Fits("find", job[c], env[c])
      /\ \A l \in Lines :
           job[c].held[l].id # 0 => job[c].held[l].hourly \/ Excused(job[c].held[l].id)
  BY DEF KnownInv, Shape, TypeOK, HeldIsHourly, FindLine, At
<1>2. job[c].verb = "run" /\ \A k \in job[c].asked : k \in Lines /\ job[c].held[k].id = 0
  BY <1>1 DEF Fits, VerbFits, RunFits, RunPlaces, Job
<1>3. CASE Stops(c) /\ UNCHANGED told
  BY <1>1, <1>2, <1>3, RunKnowsStops DEF FindLine
<1>4. CASE Goto(c, "runs") /\ UNCHANGED <<job, told>>
  <2>1. GoesOn(c, "runs", job[c])
    BY <1>1, <1>4 DEF GoesOn, Does, TypeOK
  <2> QED BY <1>1, <1>2, <1>4, <2>1, RunIsQuiet DEF FindLine, account
<1>5. ASSUME NEW k \in job[c].asked, NEW i \in LettingIn(k), NEW hourly \in BOOLEAN,
             hourly \/ "slow" \in Races, Takes(c, "await", k, i, hourly), told' = told \ {i}
      PROVE  RunKnows(c)
  <2>0. hourly \/ Excused(i)
    BY <1>5, <1>2 DEF LettingIn, Excused, KnownInv, Shape, AccountInv
  <2> DEFINE j == [job[c] EXCEPT !.kind = k, !.id = i,
                                 !.held[k] = [id |-> i, hourly |-> hourly]]
  <2>1. job'[c] = j
    BY <1>1, <1>5 DEF Takes, GoesOn, Does, TypeOK
  <2>2. j.verb = "run" /\ j.held = [job[c].held EXCEPT ![k] = [id |-> i, hourly |-> hourly]]
    BY <1>1, <1>2 DEF Job
  <2>3. /\ job'[c].held[k].id = i /\ job'[c].held[k].hourly = hourly
        /\ \A l \in Lines \ {k} : job'[c].held[l] = job[c].held[l]
    BY <1>1, <1>2, <1>5, <2>1, <2>2 DEF Job
  <2>4. i # 0
    BY <1>1 DEF LettingIn, TypeOK, AccountTyped, Ids
  <2>5. InHand(c) \cup {i} \subseteq InHand(c)'
    BY <1>1, <1>2, <2>3, <2>4 DEF InHand
  <2>6. StaysKnown(c)
    BY <1>5, <2>5 DEF StaysKnown, FindLine, KeepsRecord, account
  <2>7. \A l \in Lines :
          job'[c].held[l].id # 0 => job'[c].held[l].hourly \/ Excused(job'[c].held[l].id)
    BY <1>1, <2>0, <2>3
  <2>8. job'[c].verb = "run"
    BY <2>1, <2>2
  <2> QED BY <2>6, <2>7, <2>8 DEF RunKnows, FindLine
<1>6. ASSUME NEW k \in job[c].asked, GoesOn(c, "buy", [job[c] EXCEPT !.kind = k]), UNCHANGED told
      PROVE  RunKnows(c)
  <2> DEFINE j == [job[c] EXCEPT !.kind = k]
  <2>1. j.verb = "run" /\ j.held = job[c].held
    BY <1>1, <1>2 DEF Job
  <2> QED BY <1>1, <1>6, <2>1, RunIsQuiet DEF FindLine, account
<1>7. ASSUME NEW k \in job[c].asked, NEW i \in LettingIn(k), told' = told \ {i},
             "slow" \in Races \/ i \in job[c].snapshot,
             Takes(c, "await", k, i, i \in job[c].snapshot)
      PROVE  RunKnows(c)
  <2>1. (i \in job[c].snapshot) \in BOOLEAN
    OBVIOUS
  <2> QED BY <1>5, <1>7, <2>1
<1> QED BY <1>3, <1>4, <1>6, <1>7 DEF FindLine

LEMMA RunKnowsBuyLine ==
  ASSUME Races \subseteq {"slow"}, KnownInv, NEW c \in Clients, BuyLine(c) PROVE RunKnows(c)
<1>1. TypeOK /\ job[c] \in Job /\ pc[c] = "buy" /\ Fits("buy", job[c], env[c])
      /\ \A l \in Lines :
           job[c].held[l].id # 0 => job[c].held[l].hourly \/ Excused(job[c].held[l].id)
  BY DEF KnownInv, Shape, TypeOK, HeldIsHourly, BuyLine, At
<1>2. job[c].verb = "run"
  BY <1>1 DEF Fits, VerbFits, RunPlaces
<1>3. CASE Stops(c) /\ UNCHANGED account
  BY <1>1, <1>2, <1>3, RunKnowsStops DEF BuyLine
<1>4. ASSUME NEW i \in Ids, NEW started, Starts(i, job[c].kind, "home"),
             GoesOn(c, "bought", [job[c] EXCEPT !.id = i, !.started = started])
      PROVE  RunKnows(c)
  <2>1. pc'[c] = "bought" /\ job'[c].id = i /\ job'[c].verb = "run"
        /\ job'[c].held = job[c].held /\ i # 0
    BY <1>1, <1>2, <1>4 DEF GoesOn, Goto, Does, TypeOK, Job, Ids
  <2>2. InHand(c) \cup {i} \subseteq InHand(c)'
    BY <1>1, <2>1 DEF InHand
  <2>3. charged' = charged \cup {i}
    BY <1>4 DEF Starts
  <2>4. StaysKnown(c)
    BY <2>2, <2>3 DEF BuyLine, StaysKnown, KeepsRecord
  <2> QED BY <1>1, <2>1, <2>4 DEF RunKnows, BuyLine
<1> QED BY <1>3, <1>4 DEF BuyLine, StartsUnnamed

LEMMA RunKnowsHoldLine ==
  ASSUME Races \subseteq {"slow"}, KnownInv, NEW c \in Clients, HoldLine(c) PROVE RunKnows(c)
<1>1. TypeOK /\ job[c] \in Job /\ pc[c] = "bought" /\ Fits("bought", job[c], env[c])
      /\ \A l \in Lines :
           job[c].held[l].id # 0 => job[c].held[l].hourly \/ Excused(job[c].held[l].id)
  BY DEF KnownInv, Shape, TypeOK, HeldIsHourly, HoldLine, At
<1> DEFINE k == job[c].kind
           i == job[c].id
           j == [job[c] EXCEPT !.kind = k, !.id = i, !.held[k] = [id |-> i, hourly |-> TRUE]]
<1>2. job[c].verb = "run" /\ k \in Lines /\ i # 0 /\ job[c].held[k].id = 0
  BY <1>1 DEF Fits, VerbFits, RunFits, RunPlaces
<1>3. job'[c] = j
  BY <1>1 DEF HoldLine, Takes, GoesOn, Does, TypeOK
<1>4. j.verb = "run" /\ j.held = [job[c].held EXCEPT ![k] = [id |-> i, hourly |-> TRUE]]
  BY <1>1, <1>2 DEF Job
<1>5. /\ job'[c].held[k].id = i /\ job'[c].held[k].hourly
      /\ \A l \in Lines \ {k} : job'[c].held[l] = job[c].held[l]
  BY <1>1, <1>2, <1>3, <1>4 DEF Job
<1>6. InHand(c) \subseteq InHand(c)'
  BY <1>1, <1>2, <1>5 DEF InHand
<1>7. StaysKnown(c)
  BY <1>6 DEF StaysKnown, HoldLine, KeepsRecord, account
<1> QED BY <1>1, <1>3, <1>4, <1>5, <1>7 DEF RunKnows, HoldLine

LEMMA RunKnowsAwaitLine ==
  ASSUME Races \subseteq {"slow"}, KnownInv, NEW c \in Clients, AwaitLine(c) PROVE RunKnows(c)
<1>1. TypeOK /\ job[c] \in Job /\ pc[c] = "await" /\ Fits("await", job[c], env[c])
      /\ \A l \in Lines :
           job[c].held[l].id # 0 => job[c].held[l].hourly \/ Excused(job[c].held[l].id)
  BY DEF KnownInv, Shape, TypeOK, HeldIsHourly, AwaitLine, At
<1> DEFINE j == [Between(c) EXCEPT !.asked = @ \ {job[c].kind}]
<1>2. job[c].verb = "run" /\ j.verb = "run" /\ j.held = job[c].held
  BY <1>1 DEF Between, Job, Fits, VerbFits, RunPlaces
<1>3. CASE Stops(c)
  BY <1>1, <1>2, <1>3, RunKnowsStops DEF AwaitLine
<1>4. CASE GoesOn(c, "find", j)
  BY <1>1, <1>2, <1>4, RunIsQuiet DEF AwaitLine, account
<1> QED BY <1>3, <1>4 DEF AwaitLine

LEMMA RunKnowsLetGo ==
  ASSUME Races \subseteq {"slow"}, KnownInv, NEW c \in Clients, NEW k \in Lines, LetGo(c, k) PROVE RunKnows(c)
<1>1. TypeOK /\ job[c] \in Job /\ pc[c] = "letgo" /\ Fits("letgo", job[c], env[c])
      /\ \A l \in Lines :
           job[c].held[l].id # 0 => job[c].held[l].hourly \/ Excused(job[c].held[l].id)
  BY DEF KnownInv, Shape, TypeOK, HeldIsHourly, LetGo, At
<1> DEFINE i == job[c].held[k].id
           j == [job[c] EXCEPT !.held[k] = NotHeld]
<1>2. job[c].verb = "run" /\ i # 0 /\ (job[c].held[k].hourly \/ Excused(i))
  BY <1>1 DEF Fits, VerbFits, RunPlaces, LetGo
<1>3. job'[c] = j
  BY <1>1 DEF LetGo, Does, TypeOK
<1>4. j.verb = "run" /\ j.held = [job[c].held EXCEPT ![k] = NotHeld]
  BY <1>1, <1>2 DEF Job
<1>5. /\ job'[c].held[k].id = 0
      /\ \A l \in Lines \ {k} : job'[c].held[l] = job[c].held[l]
  BY <1>1, <1>3, <1>4 DEF Job, NotHeld
<1>6. InHand(c) \subseteq InHand(c)' \cup {i}
  BY <1>1, <1>2, <1>5 DEF InHand, LetGo
<1>7. charged' \subseteq charged /\ told \subseteq told' /\ (i \in charged' => i \in told' \/ Excused(i))
  BY <1>2 DEF LetGo, Ends, Tells, account
<1>8. StaysKnown(c)
  BY <1>6, <1>7 DEF StaysKnown, LetGo, KeepsRecord
<1> QED BY <1>1, <1>3, <1>4, <1>5, <1>8 DEF RunKnows, LetGo

LEMMA RunKnowsRunEnds ==
  ASSUME Races \subseteq {"slow"}, KnownInv, NEW c \in Clients, RunEnds(c) PROVE RunKnows(c)
<1>1. TypeOK /\ pc[c] = "letgo" /\ \A k \in Lines : job[c].held[k].id = 0
  BY DEF KnownInv, Shape, RunEnds, At
<1>2. InHand(c) = {}
  BY <1>1 DEF InHand
<1>3. StaysKnown(c)
  BY <1>2 DEF StaysKnown, RunEnds, Fails, KeepsRecord, account
<1>4. pc'[c] = "idle" /\ job'[c] = NoJob
  BY <1>1, GoesTyped DEF RunEnds, Fails
<1> QED BY <1>3, <1>4 DEF RunKnows, RunEnds, Fails, NoJob, NotHeld

LEMMA RunKnowsCtrlC ==
  ASSUME Races \subseteq {"slow"}, KnownInv, NEW c \in Clients, CtrlC(c) PROVE RunKnows(c)
<1> DEFINE j == [job[c] EXCEPT !.came = TRUE]
<1>1. TypeOK /\ job[c] \in Job /\ job'[c] = j
  BY DEF KnownInv, Shape, TypeOK, CtrlC, Does
<1>2. j.verb = "run" /\ j.held = job[c].held /\ j.id = job[c].id
  BY <1>1 DEF CtrlC, Job
<1>3. InHand(c)' = InHand(c)
  BY <1>1, <1>2 DEF InHand, CtrlC
<1>4. StaysKnown(c)
  BY <1>3 DEF StaysKnown, CtrlC, KeepsRecord, account
<1> QED BY <1>1, <1>2, <1>4 DEF RunKnows, CtrlC, KnownInv, HeldIsHourly

LEMMA RunKnowsStep ==
  ASSUME Races \subseteq {"slow"}, KnownInv, NEW c \in Clients, RunStep(c) PROVE RunKnows(c)
<1>1. CASE AppRuns(c)
  <2>1. pc[c] = "runs" /\ job[c].verb = "run"
    BY <1>1 DEF KnownInv, Shape, Fits, VerbFits, RunPlaces, AppRuns, At
  <2> QED BY <1>1, <2>1, RunKnowsStops DEF AppRuns
<1> QED
  BY <1>1, RunKnowsRun, RunKnowsFindLine, RunKnowsBuyLine, RunKnowsHoldLine,
     RunKnowsAwaitLine, RunKnowsLetGo, RunKnowsRunEnds, RunKnowsCtrlC DEF RunStep

(* A deploy or a delete that has begun stays what it is until it ends.      *)
LEMMA VerbStays ==
  ASSUME Shape, NEW c \in Clients, DeployStep(c) \/ DeleteStep(c) \/ Cut(c), ~Deploy(c), ~Delete(c)
  PROVE  pc[c] # "idle" /\ (Answers(c) \/ job'[c].verb = job[c].verb)
<1> DEFINE Stays == pc[c] # "idle" /\ (Answers(c) \/ job'[c].verb = job[c].verb)
<1>1. TypeOK /\ job[c] \in Job /\ \A j \in Job : Does(c, j) => job'[c] = j
  BY GoesTyped DEF Shape, TypeOK
<1>2. Between(c).verb = job[c].verb /\ Between(c) \in Job
  BY <1>1 DEF Between, Job, Kinds, Maybe
<1> HIDE DEF Stays
<1>3. ASSUME NEW j, Does(c, j), j.verb = job[c].verb, pc[c] # "idle" PROVE Stays
  BY <1>1, <1>3 DEF Does, TypeOK, Stays
<1>4. ASSUME Answers(c), pc[c] # "idle" PROVE Stays
  BY <1>4 DEF Stays
<1>5. ASSUME UNCHANGED job, pc[c] # "idle" PROVE Stays
  BY <1>5 DEF Stays
<1>6. CASE Server(c)
  BY <1>1, <1>2, <1>3, <1>4, <1>5, <1>6
     DEF Server, At, GoesOn, Fails, Sees, Job
<1>7. CASE Start(c)
  <2>1. ASSUME NEW i, NEW started,
               Does(c, [job[c] EXCEPT !.id = i, !.new = TRUE, !.started = started])
        PROVE  job'[c].verb = job[c].verb
    BY <1>1, <2>1 DEF Does, TypeOK, Job
  <2> QED BY <1>4, <1>7, <2>1 DEF Start, Fails, GoesOn, Stays, At
<1>8. CASE PutOnRecord(c)
  BY <1>1, <1>2, <1>3, <1>4, <1>5, <1>8
     DEF PutOnRecord, At, GoesOn, Fails, Sees, Job
<1>9. CASE SetUp(c)
  BY <1>1, <1>2, <1>3, <1>4, <1>5, <1>9
     DEF SetUp, At, GoesOn, Fails, Sees, Job
<1>10. CASE ForgetLine(c)
  BY <1>1, <1>2, <1>3, <1>4, <1>5, <1>10
     DEF ForgetLine, At, GoesOn, Fails, Sees, Job
<1>11. CASE NextLine(c)
  <2>1. ASSUME NEW i, NEW k, Does(c, [job[c] EXCEPT !.kind = k, !.id = i, !.new = FALSE])
        PROVE  job'[c].verb = job[c].verb
    BY <1>1, <2>1 DEF Does, TypeOK, Job
  <2> QED BY <1>5, <1>11, <2>1 DEF NextLine, GoesOn, Stays, At
<1>12. CASE ReadList(c)
  BY <1>1, <1>2, <1>3, <1>4, <1>5, <1>12
     DEF ReadList, At, GoesOn, Fails, Sees, Job
<1>13. CASE ReadCharges(c)
  BY <1>1, <1>2, <1>3, <1>4, <1>5, <1>13
     DEF ReadCharges, At, GoesOn, Fails, Sees, Job
<1>14. CASE FirstSight(c)
  BY <1>1, <1>2, <1>3, <1>4, <1>5, <1>14
     DEF FirstSight, At, GoesOn, Fails, Sees, Job
<1>15. CASE WaitLine(c)
  BY <1>1, <1>2, <1>3, <1>4, <1>5, <1>15
     DEF WaitLine, At, GoesOn, Fails, Sees, Job
<1>16. CASE UndoLine(c)
  BY <1>1, <1>2, <1>3, <1>4, <1>5, <1>16
     DEF UndoLine, At, GoesOn, Fails, Sees, Job
<1>17. CASE Deployed(c)
  BY <1>1, <1>2, <1>3, <1>4, <1>5, <1>17
     DEF Deployed, At, GoesOn, Fails, Sees, Job
<1>18. CASE Remove(c)
  BY <1>1, <1>4, <1>18 DEF Remove, Fails, GoesOn, Does, TypeOK, Job, Stays, At
<1>19. CASE ReadWhatIsCharged(c)
  <2>1. ASSUME NEW known, NEW snapshot, NEW left,
               Does(c, [job[c] EXCEPT !.known = known, !.snapshot = snapshot, !.left = left])
        PROVE  job'[c].verb = job[c].verb
    BY <1>1, <2>1 DEF Does, TypeOK, Job
  <2> QED BY <1>19, <2>1 DEF ReadWhatIsCharged, GoesOn, Stays, At
<1>20. CASE EndServer(c)
  BY <1>1, <1>4, <1>20 DEF EndServer, Fails, GoesOn, Does, TypeOK, Job, Stays, At
<1>21. CASE Deleted(c)
  BY <1>1, <1>2, <1>3, <1>4, <1>5, <1>21
     DEF Deleted, At, GoesOn, Fails, Sees, Job
<1>22. ASSUME NEW k \in Lines, EndLine(c, k) PROVE Stays
  BY <1>1, <1>3, <1>22 DEF EndLine, At, Job
<1>23. CASE Cut(c)
  BY <1>4, <1>23 DEF Cut, Fails, Idle, At
<1> QED BY <1>6, <1>7, <1>8, <1>9, <1>10, <1>11, <1>12, <1>13, <1>14, <1>15, <1>16, <1>17, <1>18, <1>19, <1>20, <1>21, <1>22, <1>23
     DEF DeployStep, DeleteStep, Stays

(* What goes on in a deploy or a delete is not a run's.                     *)
LEMMA RunsRun ==
  ASSUME Shape, NEW c \in Clients, DeployStep(c) \/ DeleteStep(c), ~Deploy(c), ~Delete(c)
  PROVE  job[c].verb # "run"
<1>1. pc[c] \in DeployPlaces \cup DeletePlaces \cup {"finish"}
  <2>1. CASE DeployStep(c)
    BY <2>1
       DEF DeployStep, DeployPlaces, At, Server, Start, PutOnRecord, SetUp, ForgetLine, NextLine,
           ReadList, ReadCharges, FirstSight, WaitLine, UndoLine, Deployed
  <2>2. CASE DeleteStep(c)
    BY <2>2
       DEF DeleteStep, DeletePlaces, At, Remove, ReadWhatIsCharged, EndServer, Deleted, EndLine
  <2> QED BY <2>1, <2>2
<1> QED BY <1>1 DEF Shape, Fits, VerbFits

(* Nor does one get to a place of a run.                                    *)
LEMMA RunsRunOnly ==
  ASSUME Shape, Shape', NEW c \in Clients, DeployStep(c) \/ DeleteStep(c) \/ Cut(c)
  PROVE  pc'[c] \notin RunPlaces
<1>1. TypeOK
  BY DEF Shape
<1>2. job'[c].verb # "run"
  <2>1. CASE Deploy(c)
    <3>1. PICK asked \in SUBSET scene.lines, forget \in LineIds(record) \cup {0} :
            GoesOn(c, "server", [NoJob EXCEPT !.asked = asked, !.forget = forget])
      BY <2>1 DEF Deploy
    <3> QED BY <1>1, <3>1 DEF GoesOn, Does, TypeOK, NoJob
  <2>2. CASE Delete(c)
    <3>1. PICK release \in BOOLEAN, reach \in BOOLEAN, forget \in LineIds(record) \cup {0} :
            GoesOn(c, "remove", [NoJob EXCEPT !.verb = "delete", !.release = release,
                                              !.reach = reach, !.forget = forget])
      BY <2>2 DEF Delete
    <3> QED BY <1>1, <3>1 DEF GoesOn, Does, TypeOK, NoJob
  <2>3. CASE Answers(c)
    BY <1>1, <2>3, GoesTyped DEF NoJob
  <2>4. CASE ~Deploy(c) /\ ~Delete(c) /\ ~Answers(c)
    BY <2>4, VerbStays, RunsRun DEF Cut
  <2> QED BY <2>1, <2>2, <2>3, <2>4
<1> QED BY <1>2 DEF Shape, Fits, VerbFits

(* Every step of a client leaves what is charged known.                     *)
LEMMA KnowsClient ==
  ASSUME Races \subseteq {"slow"}, KnownInv, NEW c \in Clients, ClientStep(c) PROVE Knows(c)
<1>1. CASE DeployStep(c)
  BY <1>1, KnowsDeploy, KnowsServer, KnowsStart, KnowsPutOnRecord, KnowsSetUp, KnowsForgetLine,
     KnowsNextLine, KnowsReadList, KnowsReadCharges, KnowsFirstSight, KnowsWaitLine,
     KnowsUndoLine, KnowsDeployed DEF DeployStep
<1>2. CASE DeleteStep(c)
  BY <1>2, KnowsDelete, KnowsRemove, KnowsReadWhatIsCharged, KnowsEndLine, KnowsEndServer,
     KnowsDeleted DEF DeleteStep
<1>3. CASE RunStep(c)
  <2>1. RunKnows(c)
    BY <1>3, RunKnowsStep
  <2>2. LeavesOthers(c) /\ OwnFits(c)
    BY <2>1 DEF RunKnows, KeepsRecord, LeavesOthers, OwnFits
  <2> QED BY <2>1, <2>2 DEF Knows, RunKnows
<1>4. CASE Cut(c)
  BY <1>4, FailsKnows DEF Cut
<1> QED BY <1>1, <1>2, <1>3, <1>4 DEF ClientStep

(* Who is idle does nothing, and deletes nothing.                           *)
LEMMA IdleDeletesNot ==
  ASSUME Shape, NEW d \in Clients, job[d].verb = "delete" PROVE pc[d] # "idle"
BY DEF Shape, Fits, VerbFits, NoJob

(* The invariant is kept, conjunct by conjunct.                             *)
LEMMA StepDeletesAlone ==
  ASSUME Races \subseteq {"slow"}, KnownInv, NEW c \in Clients, ClientStep(c), Shape' PROVE DeletesAlone'
<1>1. TypeOK /\ Shape /\ Acts(c) /\ DeletesAlone
  BY ActsClient DEF KnownInv, Shape
<1>2. \A d \in Clients \ {c} : pc'[d] = pc[d] /\ job'[d] = job[d]
  BY <1>1 DEF Acts
<1>3. CASE Deploy(c)
  <2>1. PICK asked \in SUBSET scene.lines, forget \in LineIds(record) \cup {0} :
          GoesOn(c, "server", [NoJob EXCEPT !.asked = asked, !.forget = forget])
    BY <1>3 DEF Deploy
  <2>2. job'[c].verb = "deploy"
    BY <1>1, <2>1 DEF GoesOn, Does, TypeOK, NoJob
  <2>3. \A d \in Clients : job[d].verb # "delete"
    BY <1>3 DEF Deploy, NobodyDeletes
  <2> QED BY <1>2, <2>2, <2>3 DEF DeletesAlone
<1>4. CASE Delete(c)
  <2>1. \A d \in Clients \ {c} : pc[d] = "idle"
    BY <1>4 DEF Delete, Alone, Idle, At
  <2>2. \A d \in Clients \ {c} : job[d].verb # "delete"
    BY <1>1, <2>1, IdleDeletesNot
  <2> QED BY <1>2, <2>1, <2>2 DEF DeletesAlone
<1>5. CASE RunStep(c)
  <2>1. job'[c].verb = "run" \/ pc'[c] = "idle"
    BY <1>5, RunKnowsStep DEF RunKnows
  <2>2. job'[c].verb # "delete"
    BY <2>1 DEF Shape, Fits, VerbFits, NoJob
  <2> QED BY <1>1, <1>2, <2>1, <2>2 DEF DeletesAlone
<1>6. CASE (DeployStep(c) \/ DeleteStep(c) \/ Cut(c)) /\ ~Deploy(c) /\ ~Delete(c)
  <2>1. pc[c] # "idle" /\ (Answers(c) \/ job'[c].verb = job[c].verb)
    BY <1>1, <1>6, VerbStays
  <2>2. CASE Answers(c)
    <3>1. pc'[c] = "idle" /\ job'[c].verb = "deploy"
      BY <1>1, <2>2, GoesTyped DEF NoJob
    <3> QED BY <1>1, <1>2, <3>1 DEF DeletesAlone
  <2>3. CASE job'[c].verb = job[c].verb
    BY <1>1, <1>2, <2>1, <2>3 DEF DeletesAlone
  <2> QED BY <2>1, <2>2, <2>3
<1> QED BY <1>3, <1>4, <1>5, <1>6 DEF ClientStep

LEMMA StepCopies ==
  ASSUME Races \subseteq {"slow"}, KnownInv, NEW c \in Clients, ClientStep(c), Shape' PROVE CopiesFit'
<1>1. TypeOK /\ Shape /\ Acts(c) /\ Knows(c)
  BY ActsClient, KnowsClient DEF KnownInv, Shape
<1>2. ASSUME NEW d \in Clients, pc'[d] # "idle", job'[d].verb = "deploy", d \notin stale'
      PROVE  SameIds(env'[d], record')
  <2>1. CASE d = c
    BY <1>1, <1>2, <2>1 DEF Knows, OwnFits
  <2>2. CASE d # c
    <3>1. pc[d] # "idle" /\ job[d].verb = "deploy" /\ d \notin stale /\ record' = record
          /\ env'[d] = env[d]
      BY <1>1, <1>2, <2>2 DEF Acts, Knows, LeavesOthers
    <3> QED BY <3>1 DEF KnownInv, CopiesFit
  <2> QED BY <2>1, <2>2
<1>3. ASSUME NEW d \in Clients, job'[d].verb = "delete"
      PROVE  IdsOf(record') \subseteq IdsOf(env'[d]) \cup {job'[d].forget}
  <2>1. CASE d = c
    <3>1. pc'[c] # "idle"
      BY <1>3, <2>1 DEF Shape, Fits, VerbFits, NoJob
    <3> QED BY <1>1, <1>3, <2>1, <3>1 DEF Knows, OwnFits
  <2>2. CASE d # c
    <3>1. job[d] = job'[d] /\ env'[d] = env[d] /\ job[d].verb = "delete"
      BY <1>1, <1>3, <2>2 DEF Acts
    <3>2. pc[d] # "idle" /\ (pc[c] = "idle" \/ job[c].verb = "run")
      BY <1>1, <2>2, <3>1, IdleDeletesNot DEF KnownInv, DeletesAlone
    <3>3. ~Deploy(c) /\ ~Delete(c)
      BY <2>2, <3>1, <3>2 DEF Deploy, NobodyDeletes, Delete, Alone, Idle, At
    <3>4. RunStep(c)
      <4>1. CASE DeployStep(c) \/ DeleteStep(c) \/ Cut(c)
        <5>1. pc[c] # "idle" /\ job[c].verb = "run"
          BY <1>1, <3>2, <3>3, <4>1, VerbStays
        <5> QED BY <1>1, <3>3, <4>1, <5>1, RunsRun DEF Cut
      <4> QED BY <4>1 DEF ClientStep
    <3>5. record' = record
      BY <3>4, RunKnowsStep DEF RunKnows, KeepsRecord
    <3> QED BY <3>1, <3>5 DEF KnownInv, CopiesFit
  <2> QED BY <2>1, <2>2
<1> QED BY <1>2, <1>3 DEF CopiesFit, SameIds, IdsOf, LineIds

(* What is excused stays so: no product changes its address.                *)
LEMMA ExcusedStays ==
  ASSUME Shape, AccountActs, NEW i, Excused(i)
  PROVE  Excused(i)'
<1>1. AccountTyped /\ AccountInv
  BY DEF Shape, TypeOK
<1>2. Moves
  BY <1>1, AccountMoves
<1> QED BY <1>1, <1>2 DEF Excused, Bought, Moves, AccountTyped, Kinds

LEMMA StepHeld ==
  ASSUME Races \subseteq {"slow"}, KnownInv, NEW c \in Clients, ClientStep(c), Shape' PROVE HeldIsHourly'
<1>1. Acts(c)
  BY ActsClient DEF KnownInv
<1>2. \A k \in Lines :
        job'[c].held[k].id # 0 => job'[c].held[k].hourly \/ Excused(job'[c].held[k].id)
  <2>1. CASE RunStep(c)
    BY <2>1, RunKnowsStep DEF RunKnows
  <2>2. CASE pc'[c] \notin RunPlaces
    <3>1. job'[c].held = NoJob.held
      BY <2>2 DEF Shape, Fits, VerbFits
    <3> QED BY <3>1 DEF NoJob, NotHeld
  <2>3. CASE ~RunStep(c)
    BY <2>2, <2>3, RunsRunOnly DEF KnownInv, ClientStep
  <2> QED BY <2>1, <2>2, <2>3
<1>3. \A i \in Bought : Excused(i) => Excused(i)'
  BY <1>1, ExcusedStays DEF Acts, KnownInv
<1>4. \A i : Excused(i) => i \in Bought
  BY DEF Excused
<1> QED BY <1>1, <1>2, <1>3, <1>4 DEF Acts, KnownInv, HeldIsHourly

LEMMA StepCharged ==
  ASSUME Races \subseteq {"slow"}, KnownInv, NEW c \in Clients, ClientStep(c) PROVE StillKnown'
<1>1. Acts(c) /\ Knows(c)
  BY ActsClient, KnowsClient DEF KnownInv
<1>2. \A d \in Clients \ {c} : InHand(d)' = InHand(d)
  BY <1>1 DEF Acts, InHand
<1>3. ASSUME NEW i \in charged'
      PROVE  Excused(i) \/ i \in IdsOf(record') \cup told' \/ \E d \in Clients : i \in InHand(d)'
  <2>1. CASE i \notin charged \/ i \in IdsOf(record) \cup told \cup InHand(c)
    BY <1>1, <2>1 DEF Knows, StaysKnown
  <2>2. CASE \E d \in Clients \ {c} : i \in InHand(d)
    BY <1>2, <2>2
  <2> QED BY <2>1, <2>2 DEF KnownInv, StillKnown
<1>4. IdsOf(record') = IdsOf(record)'
  BY DEF IdsOf, LineIds
<1>5. \A i \in charged' :
        Excused(i)' \/ i \in IdsOf(record)' \cup told' \cup UNION {InHand(d)' : d \in Clients}
  BY <1>1, <1>3, <1>4, ExcusedStays DEF Acts, KnownInv
<1> QED BY <1>5 DEF StillKnown

(* The account loses, lists and shows what it likes.                        *)
LEMMA AccountKnows ==
  ASSUME Shape', KnownInv, AccountStep PROVE KnownInv'
<1>1. charged' \subseteq charged /\ UNCHANGED <<record, stale, pc, job, env, told>>
  BY DEF AccountStep, KeepsRecord, clients, ListCatchesUp, SnapshotCatchesUp, GetsReady, views,
     EndedElsewhere
<1>0. \A i : Excused(i) => Excused(i)'
  BY ExcusedStays DEF KnownInv, AccountStep, AccountActs
<1>2. DeletesAlone' /\ HeldIsHourly'
  BY <1>0, <1>1 DEF KnownInv, DeletesAlone, HeldIsHourly
<1>3. CopiesFit'
  BY <1>1 DEF KnownInv, CopiesFit, SameIds, IdsOf, LineIds
<1>4. StillKnown'
  BY <1>0, <1>1 DEF KnownInv, StillKnown, IdsOf, LineIds, InHand
<1> QED BY <1>2, <1>3, <1>4 DEF KnownInv

(* Before anything is bought, and after any step, the invariant holds.      *)
LEMMA InitKnown == Init => KnownInv
<1> SUFFICES ASSUME Init PROVE KnownInv
  OBVIOUS
<1>1. Shape
  BY InitShape
<1>2. DeletesAlone /\ HeldIsHourly
  BY DEF Init, DeletesAlone, HeldIsHourly, NoJob, NotHeld
<1>3. CopiesFit
  BY DEF Init, CopiesFit, NoJob
<1>4. StillKnown
  BY DEF Init, InitAccount, StillKnown
<1> QED BY <1>1, <1>2, <1>3, <1>4 DEF KnownInv

LEMMA StepKnown == Races \subseteq {"slow"} /\ KnownInv /\ [Next]_vars => KnownInv'
<1> SUFFICES ASSUME Races \subseteq {"slow"}, KnownInv, [Next]_vars PROVE KnownInv'
  OBVIOUS
<1>1. Shape'
  BY StepShape DEF KnownInv
<1>2. ASSUME NEW c \in Clients, ClientStep(c) PROVE KnownInv'
  BY <1>1, <1>2, StepDeletesAlone, StepCopies, StepHeld, StepCharged DEF KnownInv
<1>3. CASE AccountStep
  BY <1>1, <1>3, AccountKnows
<1>4. CASE UNCHANGED vars
  <2>1. UNCHANGED <<charged, record, stale, pc, job, env, told>>
    BY <1>4 DEF vars, account, clients
  <2>0. \A i : Excused(i) => Excused(i)'
    BY <1>4, ExcusedStays DEF KnownInv, vars, AccountActs
  <2>2. DeletesAlone' /\ HeldIsHourly'
    BY <2>0, <2>1 DEF KnownInv, DeletesAlone, HeldIsHourly
  <2>3. CopiesFit'
    BY <2>1 DEF KnownInv, CopiesFit, SameIds, IdsOf, LineIds
  <2>4. StillKnown'
    BY <2>0, <2>1 DEF KnownInv, StillKnown, IdsOf, LineIds, InHand
  <2> QED BY <1>1, <2>2, <2>3, <2>4 DEF KnownInv
<1> QED BY <1>2, <1>3, <1>4 DEF Next, ClientStep

(* Whatever stops a command, what is charged is on record, in a command's   *)
(* hands or told to the operator: after a failed or half-done purchase, a   *)
(* write that failed, failed after it was applied or was refused, an ending *)
(* whose answer is lost, a delete that ends some of it, a run's Ctrl-C.     *)
THEOREM NothingChargedIsLost ==
  ASSUME Races = {} PROVE Spec => []ChargedIsKnown
<1>1. KnownInv => ChargedIsKnown
  BY DEF KnownInv, StillKnown, Excused, ChargedIsKnown
<1>2. KnownInv /\ [Next]_vars => KnownInv'
  BY StepKnown
<1> QED BY InitKnown, <1>1, <1>2, PTL DEF Spec

(* A deploy that reads a record no one changed since buys nothing of which  *)
(* the account has one already for a worker, but for one the operator was   *)
(* told of and one another deploy is buying now; also while a run takes up  *)
(* a line of this machine's that the snapshot it read did not show.  Of a   *)
(* deploy whose record was changed since, nothing is said here: it may buy  *)
(* a second one.                                                            *)
THEOREM NothingBoughtTwice ==
  ASSUME Races \subseteq {"slow"} PROVE Spec => NeverBuysAnother
<1>1. ASSUME KnownInv, NEW c \in Clients, At(c, "start"), c \notin stale, NEW i \in charged \ told,
             kind[i] = job[c].kind, lets[i] = "server"
      PROVE  \E d \in Clients \ {c} : i \in InHand(d)
  <2>1. /\ TypeOK /\ pc[c] = "start" /\ job[c].verb = "deploy" /\ Empty(env[c], job[c].kind)
        /\ Good(env[c]) /\ record \in Env /\ env[c] \in Env /\ job[c].kind \in Kinds
    BY <1>1 DEF KnownInv, Shape, TypeOK, Fits, VerbFits, DeployFits, DeployPlaces, At, Job
  <2>2. InHand(c) = {}
    BY <1>1, <2>1, NothingInHand DEF KnownInv, RunPlaces
  <2>3. IdsOf(record) = IdsOf(env[c])
    BY <1>1, <2>1, IdsOps DEF KnownInv, CopiesFit
  <2>4. i \notin IdsOf(env[c])
    <3>1. CASE i = env[c].vps /\ i # 0
      BY <1>1, <2>1, <3>1 DEF Good, Empty
    <3>2. ASSUME NEW k \in Lines, i = env[c].lines[k].id, i # 0 PROVE FALSE
      BY <1>1, <2>1, <3>2, AccountAssumption DEF Good, Empty
    <3> QED BY <3>1, <3>2 DEF IdsOf, LineIds
  <2> QED BY <1>1, <2>2, <2>3, <2>4 DEF KnownInv, StillKnown, Excused
<1>2. KnownInv /\ [Next]_vars =>
        [\A c \in Clients :
          (At(c, "start") /\ pc'[c] = "started" /\ c \notin stale) =>
            \A i \in charged \ told :
              kind[i] = job[c].kind /\ lets[i] = "server" =>
                \E d \in Clients \ {c} : i \in InHand(d)]_vars
  BY <1>1
<1>3. KnownInv /\ [Next]_vars => KnownInv'
  BY StepKnown
<1> QED BY InitKnown, <1>2, <1>3, PTL DEF Spec, NeverBuysAnother
=============================================================================
