----------------------------- MODULE Purchases -----------------------------
(***************************************************************************)
(* What erpc buys by the hour for a worker, and what it keeps on record of *)
(* it: deploy (crates/erpc/src/worker_deploy.rs), delete                   *)
(* (worker_remote.rs) and run (worker_run.rs), over the account            *)
(* (HourlyAccount) and the record of one environment (worker.rs,           *)
(* worker_inventory.rs).                                                   *)
(*                                                                         *)
(* The record is a 1Password item with a version: a command reads it once  *)
(* and a write is refused when it changed since.  stale stands for the     *)
(* versions: whose copy is not what the item has any more.  Prices, plans, *)
(* regions and the operator's yes are left out but for a no, which ends a  *)
(* command as a refusal does.  A scene has the clients, the kinds of lines *)
(* and the verbs that take part, and the faults:                           *)
(*   api        a read of the account fails                                *)
(*   half       a line is not started, and user-api names it all the same   *)
(*   save       a write of the record fails                                *)
(*   savedTold  it fails, and was applied                                  *)
(*   end        a product is not ended                                     *)
(*   endLost    it is ended, and the answer is lost                        *)
(*   elsewhere  a product is ended in the dashboard                        *)
(*   cut        erpc ends between two steps, with nothing just bought      *)
(* Races names what an instance lets happen besides:                       *)
(*   unchecked  the record is written though it changed (erpc.toml alone   *)
(*              has no version; 1Password has no compare-and-swap)         *)
(*   archived   an environment is deleted while it is being deployed       *)
(*   slow       a run takes up a line the snapshot does not show yet       *)
(*   unnamed    a product is charged and no id of it is taken: the answer  *)
(*              is lost, or says of a VPS that it was not started          *)
(***************************************************************************)
EXTENDS HourlyAccount

CONSTANTS Clients, \* erpc processes
          Slow,    \* lines that cannot be ended while they are set up
          Scenes, Races

Verbs == {"deploy", "delete", "run"}
FaultNames == {"api", "half", "save", "savedTold", "end", "endLost", "elsewhere", "cut"}
Scene == [clients : SUBSET Clients, lines : SUBSET Lines, verbs : SUBSET Verbs,
          faults : SUBSET FaultNames]

ASSUME PurchasesAssumption ==
  /\ Slow \subseteq Lines
  /\ Scenes \subseteq Scene
  /\ Races \subseteq {"unchecked", "archived", "slow", "unnamed"}

VARIABLES
  scene,
  record, \* the environment's item
  stale,  \* the clients whose copy of it is out of date
  env,    \* each client's copy
  pc, job,
  told    \* history: products the operator was told are charged and not on record

clients == <<pc, job, env>>
vars == <<account, scene, record, stale, clients, told>>

Maybe == Ids \cup {0}
OnLine == [id : Maybe, seen : BOOLEAN]
NoLine == [id |-> 0, seen |-> FALSE]
Env == [there : BOOLEAN, vps : Maybe, host : BOOLEAN, lines : [Lines -> OnLine]]
NoEnv == [there |-> FALSE, vps |-> 0, host |-> FALSE, lines |-> [k \in Lines |-> NoLine]]

Held == [id : Maybe, hourly : BOOLEAN]
NotHeld == [id |-> 0, hourly |-> FALSE]
Removals == {"none", "done", "skipped", "failed"}
Job == [verb : Verbs, asked : SUBSET Lines, kind : Kinds, id : Maybe, new : BOOLEAN,
        started : BOOLEAN, forget : Maybe, release : BOOLEAN, reach : BOOLEAN, keep : BOOLEAN, saved : BOOLEAN,
        listed : BOOLEAN, known : BOOLEAN, snapshot : SUBSET Ids, left : SUBSET Lines,
        failed : SUBSET Kinds, ended : BOOLEAN, removal : Removals,
        held : [Lines -> Held], came : BOOLEAN]
NoJob == [verb |-> "deploy", asked |-> {}, kind |-> "vps", id |-> 0, new |-> FALSE,
          started |-> FALSE, forget |-> 0, release |-> FALSE, reach |-> TRUE, keep |-> FALSE, saved |-> TRUE,
          listed |-> FALSE, known |-> FALSE, snapshot |-> {}, left |-> {},
          failed |-> {}, ended |-> FALSE, removal |-> "none",
          held |-> [k \in Lines |-> NotHeld], came |-> FALSE]

Init ==
  /\ InitAccount
  /\ scene \in Scenes
  /\ record = NoEnv /\ stale = {}
  /\ env = [c \in Clients |-> NoEnv]
  /\ pc = [c \in Clients |-> "idle"] /\ job = [c \in Clients |-> NoJob]
  /\ told = {}

-----------------------------------------------------------------------------
May(f) == f \in scene.faults
At(c, p) == pc[c] = p
Idle(c) == At(c, "idle")
LineIds(e) == {e.lines[k].id : k \in Lines} \ {0}

\* Mutant: nothing bought counts as a product.
IdsOfAny(e) == {e.lines[k].id : k \in Lines} \cup {e.vps}

IdsOf(e) == LineIds(e) \cup ({e.vps} \ {0})
Without(e, i) == [e EXCEPT !.lines = [k \in Lines |-> IF e.lines[k].id = i THEN NoLine ELSE e.lines[k]]]

(* keep, and the record of a VPS just bought. *)
With(e, k, i, seen) ==
  IF k = "vps" THEN [e EXCEPT !.there = TRUE, !.vps = i]
  ELSE [e EXCEPT !.there = TRUE, !.lines[k] = [id |-> i, seen |-> seen]]

Goto(c, p) == pc' = [pc EXCEPT ![c] = p]
Does(c, j) == job' = [job EXCEPT ![c] = j]
Has(c, e) == env' = [env EXCEPT ![c] = e]
GoesOn(c, p, j) == Goto(c, p) /\ Does(c, j)

(* The command ends, with an answer or an error. *)
Answers(c) == GoesOn(c, "idle", NoJob) /\ Has(c, NoEnv)
Tells(ids) == told' = told \cup ids

(* EnvRecord::save: refused when the item changed since it was read. *)
Saves(c, e) ==
  /\ c \notin stale \/ "unchecked" \in Races
  /\ record' = [e EXCEPT !.there = TRUE]
  /\ stale' = (stale \cup Clients) \ {c}

SaveFails(c, e) ==
  \/ (c \in stale \/ May("save")) /\ UNCHANGED <<record, stale>>
  \/ May("savedTold") /\ c \notin stale /\ record' = [e EXCEPT !.there = TRUE] /\ stale' = Clients

KeepsRecord == UNCHANGED <<record, stale>>

(* An error, with nothing changed but the client. *)
Fails(c) == Answers(c) /\ KeepsRecord /\ UNCHANGED <<account, told>>

-----------------------------------------------------------------------------
(* deploy. *)

Begins(c, verb) == Idle(c) /\ c \in scene.clients /\ verb \in scene.verbs
Alone(c) == "archived" \in Races \/ \A d \in Clients \ {c} : Idle(d)
NobodyDeletes == "archived" \in Races \/ \A d \in Clients : job[d].verb # "delete"

(* load_env, take_lines *)
Deploy(c) ==
  /\ Begins(c, "deploy") /\ NobodyDeletes
  /\ \E asked \in SUBSET scene.lines, forget \in LineIds(record) \cup {0} :
       GoesOn(c, "server", [NoJob EXCEPT !.asked = asked, !.forget = forget])
  /\ Has(c, record) /\ stale' = stale \ {c}
  /\ UNCHANGED <<account, record, told>>

(* server: the one on record, a VPS bought before, one of the operator's    *)
(* own, or a new one.                                                       *)
Server(c) ==
  /\ At(c, "server")
  /\ \/ Goto(c, "build")
     \/ /\ ~env[c].host /\ env[c].vps = 0
        /\ Goto(c, "start")
  /\ UNCHANGED <<account, record, stale, env, job, told>>

(* The start took effect, and its error names no product: buy drops the id  *)
(* of a VPS that user-api answers as not done.                              *)
StartsUnnamed(c, where) ==
  "unnamed" \in Races /\ \E i \in Ids : Starts(i, job[c].kind, where)

(* start_hourly_product: no yes, a read that fails and a refusal buy        *)
(* nothing.                                                                 *)
Start(c) ==
  /\ At(c, "start")
  /\ \/ Fails(c)
     \/ StartsUnnamed(c, "server") /\ Answers(c) /\ KeepsRecord /\ UNCHANGED told
     \/ /\ \E i \in Ids, started \in {TRUE} \cup (IF May("half") /\ job[c].kind # "vps" THEN {FALSE} ELSE {}) :
             /\ Starts(i, job[c].kind, "server")
             /\ GoesOn(c, "started", [job[c] EXCEPT !.id = i, !.new = TRUE, !.started = started])
        /\ KeepsRecord /\ UNCHANGED <<env, told>>

(* Between two products, nothing is kept of the last one. *)
Between(c) == [job[c] EXCEPT !.kind = "vps", !.id = 0, !.new = FALSE, !.started = FALSE]

After(c) ==
  IF job[c].kind = "vps" THEN "build" ELSE IF job[c].started THEN "sight" ELSE "idle"

(* on_record_then, named: on record before anything is waited for.          *)
PutOnRecord(c) ==
  /\ At(c, "started")
  /\ LET e == With(env[c], job[c].kind, job[c].id, FALSE) IN
       \/ /\ Saves(c, e)
          /\ CASE After(c) = "idle" -> Answers(c)
               [] After(c) = "build" -> Has(c, e) /\ GoesOn(c, "build", Between(c))
               [] OTHER -> Has(c, e) /\ Goto(c, "sight") /\ UNCHANGED job
          /\ UNCHANGED told
       \/ SaveFails(c, e) /\ Answers(c) /\ Tells({job[c].id})
  /\ UNCHANGED account

(* The VPS is waited for, made key-only and set up; then the record names   *)
(* the server, and a record that cannot be written is said at the end.      *)
SetUp(c) ==
  /\ At(c, "build")
  /\ \/ Fails(c)
     \/ /\ env[c].host \/ env[c].vps \in ready \cup {0}
        /\ LET e == [env[c] EXCEPT !.there = TRUE, !.host = TRUE] IN
             /\ Has(c, e)
             /\ \/ Saves(c, e) /\ UNCHANGED job
                \/ SaveFails(c, e) /\ Does(c, [job[c] EXCEPT !.saved = FALSE])
        /\ Goto(c, IF job[c].forget = 0 THEN "lines" ELSE "forget")
        /\ UNCHANGED <<account, told>>

(* take_lines: a line the operator says is gone leaves the record. *)
ForgetLine(c) ==
  /\ At(c, "forget")
  /\ LET e == Without(env[c], job[c].forget) IN
       \/ Saves(c, e) /\ Has(c, e) /\ Goto(c, "lines") /\ UNCHANGED job
       \/ SaveFails(c, e) /\ Answers(c)
  /\ Tells({job[c].forget})
  /\ UNCHANGED account

(* lines: each kind asked for, one after the other. *)
NextLine(c) ==
  /\ At(c, "lines")
  /\ \/ job[c].asked = {} /\ Goto(c, "finish") /\ UNCHANGED job
     \/ \E k \in job[c].asked :
          LET i == env[c].lines[k].id IN
          GoesOn(c, IF i = 0 THEN "start" ELSE "list", [job[c] EXCEPT !.kind = k, !.id = i, !.new = FALSE])
  /\ KeepsRecord /\ UNCHANGED <<account, env, told>>

(* line_next: the status list, then the credit snapshot. *)
ReadList(c) ==
  /\ At(c, "list")
  /\ \/ May("api") /\ Fails(c)
     \/ /\ GoesOn(c, "charges", [job[c] EXCEPT !.listed = @ \/ job[c].id \in listed])
        /\ KeepsRecord /\ UNCHANGED <<account, env, told>>

\* Mutant: what the account is not charged for is gone.
IsGoneUncharged(line, isListed, isCharged) == ~isCharged

(* is_gone: only a line seen with its endpoint before is taken for gone.    *)
IsGone(line, isListed, isCharged) == line.seen /\ ~isListed /\ ~isCharged

ReadCharges(c) ==
  /\ At(c, "charges")
  /\ LET line == env[c].lines[job[c].kind]
         isCharged == job[c].id \in shown
         e == Without(env[c], job[c].id) IN
       \/ May("api") /\ Fails(c)
       \/ /\ IsGone(line, job[c].listed, isCharged)
          /\ \/ Saves(c, e) /\ Has(c, e) /\ GoesOn(c, "start", [job[c] EXCEPT !.listed = FALSE])
             \/ SaveFails(c, e) /\ Answers(c)
          /\ UNCHANGED <<account, told>>
       \/ /\ job[c].listed /\ isCharged
          /\ GoesOn(c, "wait", [job[c] EXCEPT !.listed = FALSE])
          /\ KeepsRecord /\ UNCHANGED <<account, env, told>>
       \/ /\ ~IsGone(line, job[c].listed, isCharged) /\ ~(job[c].listed /\ isCharged)
          /\ Fails(c)

(* first_sight and wait_line: the line is kept again with its endpoint.     *)
Sees(c, j, next) ==
  LET e == With(env[c], job[c].kind, job[c].id, TRUE) IN
    \/ Saves(c, e) /\ Has(c, e) /\ GoesOn(c, next, j) /\ UNCHANGED told
    \/ SaveFails(c, e) /\ Answers(c) /\ Tells({job[c].id})

FirstSight(c) ==
  /\ At(c, "sight")
  /\ \/ Fails(c)
     \/ job[c].id \in listed /\ Sees(c, job[c], "wait") /\ UNCHANGED account

(* A new line that does not become active is ended, unless it is Slow.      *)
WaitLine(c) ==
  /\ At(c, "wait")
  /\ \/ /\ job[c].id \in ready
        /\ Sees(c, [Between(c) EXCEPT !.asked = @ \ {job[c].kind}], "lines")
        /\ UNCHANGED account
     \/ ~(job[c].new /\ job[c].kind \notin Slow) /\ Fails(c)
     \/ /\ job[c].new /\ job[c].kind \notin Slow
        /\ Goto(c, "undo") /\ KeepsRecord /\ UNCHANGED <<account, job, env, told>>

UndoLine(c) ==
  /\ At(c, "undo")
  /\ LET e == Without(env[c], job[c].id) IN
       \/ Ends(job[c].id) /\ (Saves(c, e) \/ SaveFails(c, e))
       \/ May("endLost") /\ Ends(job[c].id) /\ KeepsRecord
       \/ UNCHANGED account /\ KeepsRecord
  /\ Answers(c) /\ UNCHANGED told

(* The release runs: the item records it, if it took the server. *)
Deployed(c) ==
  /\ At(c, "finish") /\ job[c].verb = "deploy"
  /\ IF job[c].saved THEN Saves(c, env[c]) \/ SaveFails(c, env[c]) ELSE KeepsRecord
  /\ Answers(c) /\ UNCHANGED <<account, told>>

-----------------------------------------------------------------------------
(* delete. *)

(* refuse_delete: a VPS that was bought and never reached is only ended.    *)
Delete(c) ==
  /\ Begins(c, "delete") /\ Alone(c) /\ record.there
  /\ \E release, reach \in BOOLEAN, forget \in LineIds(record) \cup {0} :
       /\ release \/ record.host \/ record.vps = 0
       /\ GoesOn(c, "remove", [NoJob EXCEPT !.verb = "delete", !.release = release,
                                            !.reach = reach, !.forget = forget])
       /\ Has(c, Without(record, forget))
  /\ stale' = stale \ {c}
  /\ UNCHANGED <<account, record, told>>

(* The worker off its server; with --release-server a failure is kept.      *)
Remove(c) ==
  /\ At(c, "remove")
  /\ LET outcomes == CASE ~env[c].host -> {"none"}
                       [] env[c].host /\ ~job[c].reach -> {"skipped"}
                       [] OTHER -> {"done", "failed"} IN
     \E r \in outcomes :
       IF r = "failed" /\ ~job[c].release THEN Fails(c)
       ELSE /\ GoesOn(c, IF job[c].release THEN "ends" ELSE "finish", [job[c] EXCEPT !.removal = r])
            /\ KeepsRecord /\ UNCHANGED <<account, env, told>>

(* release: what the account is charged for, if it can be read. *)
ReadWhatIsCharged(c) ==
  /\ At(c, "ends")
  /\ \E known \in {TRUE} \cup (IF May("api") THEN {FALSE} ELSE {}) :
       GoesOn(c, "endLines", [job[c] EXCEPT !.known = known, !.snapshot = IF known THEN shown ELSE {},
                                            !.left = {k \in Lines : env[c].lines[k].id # 0}])
  /\ KeepsRecord /\ UNCHANGED <<account, env, told>>

\* Mutant: a line the snapshot does not have is dropped.
DropsUncharged(c, k) == job[c].known /\ env[c].lines[k].id \notin job[c].snapshot

(* line_end *)
Drops(c, k) ==
  LET line == env[c].lines[k] IN
  job[c].known /\ IsGone(line, line.id \in listed, line.id \in job[c].snapshot)

(* A line whose status cannot be read is not dropped. *)
Tries(c, k) == ~Drops(c, k) \/ May("api")

EndLine(c, k) ==
  /\ At(c, "endLines") /\ k \in job[c].left
  /\ LET i == env[c].lines[k].id
         done == [job[c] EXCEPT !.left = @ \ {k}]
         failed == [done EXCEPT !.failed = @ \cup {k}] IN
       \/ Drops(c, k) /\ Does(c, done) /\ UNCHANGED account
       \/ Tries(c, k) /\ Ends(i) /\ Does(c, done)
       \/ Tries(c, k) /\ May("endLost") /\ Ends(i) /\ Does(c, failed)
       \/ Tries(c, k) /\ (~CanEnd(i) \/ May("end")) /\ Does(c, failed) /\ UNCHANGED account
  /\ KeepsRecord /\ UNCHANGED <<pc, env, told>>

(* Its server is ended whatever happened to the lines. *)
EndServer(c) ==
  /\ At(c, "endLines") /\ job[c].left = {}
  /\ LET i == env[c].vps
         failed == [job[c] EXCEPT !.failed = @ \cup {"vps"}] IN
       \/ i = 0 /\ UNCHANGED <<account, job>>
       \/ i # 0 /\ Ends(i) /\ Does(c, [job[c] EXCEPT !.ended = TRUE])
       \/ i # 0 /\ May("endLost") /\ Ends(i) /\ Does(c, failed)
       \/ i # 0 /\ (~CanEnd(i) \/ May("end")) /\ Does(c, failed) /\ UNCHANGED account
  /\ Goto(c, "finish")
  /\ KeepsRecord /\ UNCHANGED <<env, told>>

(* must_keep *)
Problems(c) == job[c].failed # {} \/ (job[c].removal = "failed" /\ ~job[c].ended)

\* Mutant: only the server stays on record.
LeftOverServer(c) ==
  [env[c] EXCEPT !.lines = [k \in Lines |-> NoLine], !.vps = IF job[c].ended THEN 0 ELSE @]

(* left_over *)
LeftOver(c) ==
  LET e == [env[c] EXCEPT !.lines = [k \in Lines |-> IF k \in job[c].failed THEN @[k] ELSE NoLine]] IN
  IF job[c].ended \/ (job[c].removal # "failed" /\ env[c].vps = 0)
  THEN [e EXCEPT !.vps = 0, !.host = FALSE] ELSE e

(* What is not done stays on record; a delete that did all it was asked     *)
(* forgets the environment, and says what is still charged.                 *)
Deleted(c) ==
  /\ At(c, "finish") /\ job[c].verb = "delete"
  /\ \/ Problems(c) /\ (Saves(c, LeftOver(c)) \/ SaveFails(c, LeftOver(c)))
     \/ ~Problems(c) /\ record' = NoEnv /\ stale' = (stale \cup Clients) \ {c}
     \/ ~Problems(c) /\ May("save") /\ KeepsRecord
  /\ Tells(({job[c].forget} \ {0}) \cup IF job[c].release THEN {} ELSE IdsOf(env[c]))
  /\ Answers(c) /\ UNCHANGED account

-----------------------------------------------------------------------------
(* run: lines for a run on this machine, held in memory. *)

Run(c) ==
  /\ Begins(c, "run")
  /\ \E asked \in SUBSET (scene.lines \ Slow), keep \in BOOLEAN :
       /\ asked # {}
       /\ GoesOn(c, "find", [NoJob EXCEPT !.verb = "run", !.asked = asked, !.keep = keep, !.snapshot = shown])
  /\ KeepsRecord /\ UNCHANGED <<account, env, told>>

Takes(c, p, k, i, hourly) ==
  GoesOn(c, p, [job[c] EXCEPT !.kind = k, !.id = i, !.held[k] = [id |-> i, hourly |-> hourly]])

Stops(c) == GoesOn(c, "letgo", [Between(c) EXCEPT !.asked = {}, !.snapshot = {}])

(* line_letting_in: an active line of the account's that lets this machine  *)
(* in is taken up.                                                          *)
LettingIn(k) == {i \in listed \cap ready : kind[i] = k /\ lets[i] = "home"}

FindLine(c) ==
  /\ At(c, "find")
  /\ \/ job[c].came /\ Stops(c) /\ UNCHANGED told
     \/ ~job[c].came /\ job[c].asked = {} /\ Goto(c, "runs") /\ UNCHANGED <<job, told>>
     \/ May("api") /\ Stops(c) /\ UNCHANGED told
     \/ \E k \in job[c].asked :
          /\ ~job[c].came
          /\ \/ \E i \in LettingIn(k) :
                  /\ "slow" \in Races \/ i \in job[c].snapshot
                  /\ Takes(c, "await", k, i, i \in job[c].snapshot)
                  /\ told' = told \ {i}
             \/ LettingIn(k) = {} /\ GoesOn(c, "buy", [job[c] EXCEPT !.kind = k]) /\ UNCHANGED told
  /\ KeepsRecord /\ UNCHANGED <<account, env>>

BuyLine(c) ==
  /\ At(c, "buy")
  /\ \/ Stops(c) /\ (UNCHANGED account \/ (~job[c].came /\ StartsUnnamed(c, "home")))
     \/ ~job[c].came /\ \E i \in Ids, started \in {TRUE} \cup (IF May("half") THEN {FALSE} ELSE {}) :
          /\ Starts(i, job[c].kind, "home")
          /\ GoesOn(c, "bought", [job[c] EXCEPT !.id = i, !.started = started])
  /\ KeepsRecord /\ UNCHANGED <<env, told>>

(* A purchase that was sent is let finish, Ctrl-C or not.                   *)
HoldLine(c) ==
  /\ At(c, "bought")
  /\ Takes(c, IF job[c].started THEN "await" ELSE "letgo", job[c].kind, job[c].id, TRUE)
  /\ KeepsRecord /\ UNCHANGED <<account, env, told>>

AwaitLine(c) ==
  /\ At(c, "await")
  /\ \/ Stops(c)
     \/ /\ ~job[c].came /\ job[c].id \in ready
        /\ GoesOn(c, "find", [Between(c) EXCEPT !.asked = @ \ {job[c].kind}])
  /\ KeepsRecord /\ UNCHANGED <<account, env, told>>

AppRuns(c) == At(c, "runs") /\ Stops(c) /\ KeepsRecord /\ UNCHANGED <<account, env, told>>

(* let_go: each hourly line is ended or said, unless it is kept, which is   *)
(* said.                                                                    *)
LetGo(c, k) ==
  /\ At(c, "letgo") /\ job[c].held[k].id # 0
  /\ LET i == job[c].held[k].id IN
       \/ ~job[c].held[k].hourly /\ UNCHANGED <<account, told>>
       \/ job[c].held[k].hourly /\ job[c].keep /\ Tells({i}) /\ UNCHANGED account
       \/ job[c].held[k].hourly /\ ~job[c].keep /\ Ends(i) /\ UNCHANGED told
       \/ /\ job[c].held[k].hourly /\ ~job[c].keep
          /\ Tells({i})
          /\ \/ May("endLost") /\ Ends(i)
             \/ (~CanEnd(i) \/ May("end")) /\ UNCHANGED account
  /\ Does(c, [job[c] EXCEPT !.held[k] = NotHeld])
  /\ KeepsRecord /\ UNCHANGED <<pc, env>>

RunEnds(c) ==
  /\ At(c, "letgo") /\ \A k \in Lines : job[c].held[k].id = 0
  /\ Fails(c)

(* Hold: the first Ctrl-C of a run goes to it, and is kept. *)
CtrlC(c) ==
  /\ job[c].verb = "run" /\ ~Idle(c) /\ ~job[c].came
  /\ Does(c, [job[c] EXCEPT !.came = TRUE])
  /\ KeepsRecord /\ UNCHANGED <<account, pc, env, told>>

-----------------------------------------------------------------------------
InHand(c) ==
  ({job[c].held[k].id : k \in Lines} \cup (IF pc[c] \in {"started", "bought"} THEN {job[c].id} ELSE {})) \ {0}

(* erpc ends between two steps: a signal, a panic, the power. *)
Cut(c) ==
  /\ May("cut") /\ ~Idle(c) /\ InHand(c) = {} /\ job[c].verb # "run"
  /\ Fails(c)

DeployStep(c) ==
  \/ Deploy(c) \/ Server(c) \/ Start(c) \/ PutOnRecord(c) \/ SetUp(c)
  \/ ForgetLine(c) \/ NextLine(c) \/ ReadList(c) \/ ReadCharges(c) \/ FirstSight(c)
  \/ WaitLine(c) \/ UndoLine(c) \/ Deployed(c)

DeleteStep(c) ==
  \/ Delete(c) \/ Remove(c) \/ ReadWhatIsCharged(c) \/ EndServer(c) \/ Deleted(c)
  \/ \E k \in Lines : EndLine(c, k)

RunStep(c) ==
  \/ Run(c) \/ FindLine(c) \/ BuyLine(c) \/ HoldLine(c) \/ AwaitLine(c) \/ AppRuns(c)
  \/ RunEnds(c) \/ CtrlC(c) \/ \E k \in Lines : LetGo(c, k)

AccountStep ==
  /\ ListCatchesUp \/ SnapshotCatchesUp \/ GetsReady \/ (May("elsewhere") /\ EndedElsewhere)
  /\ KeepsRecord /\ UNCHANGED <<clients, told>>

Next ==
  /\ \/ \E c \in Clients : DeployStep(c) \/ DeleteStep(c) \/ RunStep(c) \/ Cut(c)
     \/ AccountStep
  /\ UNCHANGED scene

Spec == Init /\ [][Next]_vars

-----------------------------------------------------------------------------
Steps ==
  {"idle", "server", "start", "started", "build", "forget", "lines", "list", "charges", "sight",
   "wait", "undo", "finish", "remove", "ends", "endLines", "find", "buy", "bought", "await",
   "runs", "letgo"}

TypeOK ==
  /\ AccountTyped
  /\ scene \in Scenes
  /\ record \in Env /\ stale \subseteq Clients
  /\ env \in [Clients -> Env]
  /\ pc \in [Clients -> Steps] /\ job \in [Clients -> Job]
  /\ told \subseteq Ids

(* docs/worker.md, "What is bought goes on record at once": whatever stops  *)
(* a command, what is charged is on record or in a command's hands, or the  *)
(* operator was told of it.                                                 *)
ChargedIsKnown ==
  charged \subseteq IdsOf(record) \cup told \cup UNION {InHand(c) : c \in Clients}

(* worker_deploy.rs: "Refuse, and buy nothing: buying another could charge  *)
(* for two": a deploy buys only what nothing else is charged for, but for   *)
(* what the operator was told of and what another deploy is buying now.     *)
(* Only of a deploy whose copy of the record is what the item has: nothing  *)
(* reads the item again before buying, so one that read it before another   *)
(* deploy bought does buy a second; its own write is then refused, and the  *)
(* operator told of it (ChargedIsKnown).                                    *)
NeverBuysAnother == [][\A c \in Clients :
  (At(c, "start") /\ pc'[c] = "started" /\ c \notin stale) =>
    \A i \in charged \ told :
      kind[i] = job[c].kind /\ lets[i] = "server" => \E d \in Clients \ {c} : i \in InHand(d)]_vars

(* docs/worker.md: delete --release-server "ends each line, then the        *)
(* server": when it is about to say so, nothing of it is charged any more.  *)
ReleaseEndsAll == \A c \in Clients :
  (At(c, "finish") /\ job[c].verb = "delete" /\ job[c].release /\ ~Problems(c))
    => IdsOf(env[c]) \cap charged = {}
=============================================================================
