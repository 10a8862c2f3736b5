--------------------------- MODULE WorkerFirewall ---------------------------
(***************************************************************************)
(* The firewall the workers on one server share                            *)
(* (crates/erpc-worker-agent/src/firewall.rs), as erpc changes it over SSH *)
(* (crates/erpc/src/worker_firewall.rs, apply_worker).                     *)
(*                                                                         *)
(* A Client is an erpc that deploys or removes a worker.  A change is      *)
(* applied over one connection and confirmed over a fresh one; until then  *)
(* a timer on the server puts the previous table back.  A verb holds the   *)
(* firewall's lock from its first step to its answer.  A verb that has     *)
(* begun runs to its end, with or without its client, unless the server    *)
(* restarts.                                                               *)
(*                                                                         *)
(* A table is which workers' ports it opens and whether erpc's SSH gets    *)
(* through it: the port erpc connects to need not be the one sshd has.     *)
(*                                                                         *)
(* There is no clock: the timer may fire at any time while it waits.  Races *)
(* names what this instance lets happen that the code leaves to timing or  *)
(* does not look at:                                                       *)
(*   overtaken     another verb has, or takes, the lock between a confirm's *)
(*                 connection getting in and the confirm taking it         *)
(*   lateRollback  the timer's service is still there when another verb    *)
(*                 than a confirm begins                                   *)
(*   halfKept      the server restarts between the two files that a        *)
(*                 confirm or a removal writes                             *)
(*   unread        the change a confirm took cannot be read                *)
(*   unstopped     a timer that a verb stops goes on                       *)
(***************************************************************************)
EXTENDS FiniteSets

CONSTANTS Clients,      \* erpc processes that change the firewall
          Workers,      \* the workers on the server
          Faults,       \* which faults this instance has
          Races,        \* which races this instance has
          None          \* no table, no change, nobody

FaultNames == {"disk", "nft", "systemd", "reboot"}
RaceNames == {"overtaken", "lateRollback", "halfKept", "unread", "unstopped"}

Table  == [in : BOOLEAN, open : SUBSET Workers]
Change == [id : Workers, open : BOOLEAN]
Request == [verb : {"apply", "remove"}, id : Workers, open : BOOLEAN, in : BOOLEAN]

ASSUME FirewallAssumption ==
  /\ Faults \subseteq FaultNames
  /\ Races \subseteq RaceNames
  /\ None \notin Clients \cup Table \cup Change \cup Request

VARIABLES
  live,     \* the table the kernel has
  applied,  \* applied.nft: the table kept, loaded at boot
  previous, \* previous.nft: the table the timer goes back to
  draft,    \* pending.nft: the table of the change applied last
  pending,  \* pending.json: the change that waits to be confirmed
  taken,    \* confirming.json: the change a confirm has taken
  kept,     \* workers/<id>.json: the workers with an opening
  boot,     \* whether the unit that loads applied.nft at boot is enabled
  timer,    \* the rollback timer: off, waiting, or running its service
  svc,      \* its service: none, started (before mv), moved (before nft -f)
  lock,     \* the client whose verb has .lock
  pc,       \* where each client, or its verb on the server, is
  req,      \* what each client asked last
  told,     \* what each client was told last
  stuck     \* history: a rollback failed, and the table it was to replace is in force

files == <<applied, previous, draft, pending, taken, kept, boot>>
systemd == <<timer, svc>>
clients == <<pc, req, told>>
vars == <<live, files, systemd, lock, clients, stuck>>

Init ==
  /\ live = None /\ applied = None /\ previous = None /\ draft = None
  /\ pending = None /\ taken = None /\ kept = {} /\ boot = FALSE
  /\ timer = "off" /\ svc = "none" /\ lock = None
  /\ pc = [c \in Clients |-> "idle"]
  /\ req = [c \in Clients |-> None]
  /\ told = [c \in Clients |-> "none"]
  /\ stuck = FALSE

-----------------------------------------------------------------------------
(* No table drops nothing, so it lets erpc in. *)
LetsIn(t) == t # None => t.in

Opens(t) == IF t = None THEN {} ELSE t.open

(* The openings kept, with c's in place of its worker's. *)
Openings(c) ==
  IF req[c].open THEN kept \cup {req[c].id} ELSE kept \ {req[c].id}

NewTable(c) == [in |-> req[c].in, open |-> Openings(c)]

(* remove's table keeps the SSH port it finds in the one kept. *)
ClosedTable(c) == [in |-> applied.in, open |-> kept \ {req[c].id}]

(* systemd: the timer of a service that runs is active too; a timer that is *)
(* stopped leaves the service it started alone.                             *)
Armed == timer # "off"
ServiceEnds == svc' = "none" /\ timer' = IF timer = "running" THEN "off" ELSE timer

(* A verb has systemd stop the timer, and does not look whether it did. *)
Stop == timer' \in (IF "unstopped" \in Races THEN {"off", timer} ELSE {"off"})

Goto(c, p) == pc' = [pc EXCEPT ![c] = p]

(* The verb ends: its answer is printed and its lock goes. *)
Answer(c, a) ==
  /\ lock' = None
  /\ Goto(c, "idle")
  /\ told' = [told EXCEPT ![c] = a]
  /\ req' = [req EXCEPT ![c] = None]

(* The verb goes on. *)
On(c, p) == Goto(c, p) /\ UNCHANGED <<lock, req, told>>

May(fault) == fault \in Faults

(* set_aside: a rename that fails is not noticed. *)
SetAside == pending' = None \/ (May("disk") /\ UNCHANGED pending)

-----------------------------------------------------------------------------
(* erpc's side. *)

(* apply_worker and worker removal: erpc reaches the server and runs a verb. *)
Call(c) ==
  /\ pc[c] = "idle" /\ LetsIn(live)
  /\ \E r \in Request :
       /\ r.verb = "remove" => ~r.open /\ r.in
       /\ req' = [req EXCEPT ![c] = r]
  /\ Goto(c, "called")
  /\ told' = [told EXCEPT ![c] = "none"]
  /\ UNCHANGED <<live, files, systemd, lock, stuck>>

(* The fresh connection, or none: then the change is left to its timer. *)
Connect(c) ==
  /\ pc[c] = "applied"
  /\ \/ /\ LetsIn(live)
        /\ "overtaken" \in Races \/ lock = None
        /\ On(c, "connected")
     \/ /\ Goto(c, "idle") /\ UNCHANGED lock
        /\ told' = [told EXCEPT ![c] = "failed"] /\ req' = [req EXCEPT ![c] = None]
  /\ UNCHANGED <<live, files, systemd, stuck>>

-----------------------------------------------------------------------------
(* apply and remove, up to where they part. *)

(* lock, and refuse_while_waiting's look for a change. *)
Begin(c) ==
  /\ pc[c] = "called" /\ lock = None
  /\ "overtaken" \in Races \/ \A d \in Clients : pc[d] # "connected"
  /\ "lateRollback" \in Races \/ svc = "none"
  /\ lock' = c
  /\ Goto(c, IF pending = None THEN "ready" ELSE "ask")
  /\ UNCHANGED <<live, files, systemd, req, told, stuck>>

\* Mutant: a change is set aside without a look at its timer.
AskNobody(c) ==
  /\ pc[c] = "ask"
  /\ pending' = None
  /\ On(c, "ready")
  /\ UNCHANGED <<live, applied, previous, draft, taken, kept, boot, systemd, stuck>>

(* refuse_while_waiting: a change whose timer is gone is set aside. *)
Ask(c) ==
  /\ pc[c] = "ask"
  /\ \/ /\ Armed \/ May("systemd")
        /\ Answer(c, "failed")
        /\ UNCHANGED pending
     \/ /\ ~Armed
        /\ SetAside
        /\ On(c, "ready")
  /\ UNCHANGED <<live, applied, previous, draft, taken, kept, boot, systemd, stuck>>

-----------------------------------------------------------------------------
(* firewall-apply. *)

\* Mutant: the table to go back to is the first one, not the one kept.
KeepFirst(c) ==
  /\ pc[c] = "ready" /\ req[c].verb = "apply"
  /\ timer' = "off"
  /\ previous' = IF previous = None THEN applied ELSE previous
  /\ On(c, "write")
  /\ UNCHANGED <<live, applied, draft, pending, taken, kept, boot, svc, stuck>>

(* The timer is stopped, and what is kept becomes what a rollback loads. *)
KeepPrevious(c) ==
  /\ pc[c] = "ready" /\ req[c].verb = "apply"
  /\ Stop
  /\ \/ /\ previous' = applied
        /\ On(c, "write")
     \/ May("disk") /\ Answer(c, "failed") /\ UNCHANGED previous
  /\ UNCHANGED <<live, applied, draft, pending, taken, kept, boot, svc, stuck>>

\* Mutant: the record lacks the opening.
WriteNameOnly(c) ==
  /\ pc[c] = "write"
  /\ pending' = [id |-> req[c].id]
  /\ taken' = None
  /\ On(c, "arm")
  /\ UNCHANGED <<live, applied, previous, draft, kept, boot, systemd, stuck>>

WritePending(c) ==
  /\ pc[c] = "write"
  /\ \/ /\ pending' = [id |-> req[c].id, open |-> req[c].open]
        /\ taken' = None
        /\ On(c, "arm")
     \/ May("disk") /\ Answer(c, "failed") /\ UNCHANGED <<pending, taken>>
  /\ UNCHANGED <<live, applied, previous, draft, kept, boot, systemd, stuck>>

\* Mutant: no timer when there is no earlier table to go back to.
ArmIfKept(c) ==
  /\ pc[c] = "arm"
  /\ timer' = IF previous = None THEN timer ELSE "waiting"
  /\ On(c, "load")
  /\ UNCHANGED <<live, files, svc, stuck>>

(* systemd-run, which refuses while a service of that name is there. *)
Arm(c) ==
  /\ pc[c] = "arm"
  /\ \/ /\ timer = "off" /\ svc = "none"
        /\ timer' = "waiting"
        /\ On(c, "load")
     \/ /\ timer # "off" \/ svc # "none" \/ May("systemd")
        /\ Answer(c, "failed") /\ UNCHANGED timer
  /\ UNCHANGED <<live, files, svc, stuck>>

(* load: pending.nft written, checked and loaded, or the timer stopped. *)
Load(c) ==
  /\ pc[c] = "load"
  /\ lock' = None
  /\ \/ /\ draft' = NewTable(c) /\ live' = NewTable(c)
        /\ stuck' = FALSE
        /\ Goto(c, "applied") /\ UNCHANGED <<timer, told, req>>
     \/ /\ \/ May("nft") /\ draft' = NewTable(c)
           \/ May("disk") /\ UNCHANGED draft
        /\ Stop
        /\ Answer(c, "failed") /\ UNCHANGED <<live, stuck>>
  /\ UNCHANGED <<applied, previous, pending, taken, kept, boot, svc>>

-----------------------------------------------------------------------------
(* firewall-confirm. *)

\* Mutant: whether the timer is waiting is not asked.
ConfirmUnasked(c) ==
  /\ pc[c] = "connected" /\ lock = None
  /\ lock' = c /\ Goto(c, "claim")
  /\ UNCHANGED <<live, files, systemd, req, told, stuck>>

(* lock, armed: with no timer the change is set aside. *)
BeginConfirm(c) ==
  /\ pc[c] = "connected" /\ lock = None
  /\ \/ /\ Armed
        /\ lock' = c /\ Goto(c, "claim") /\ UNCHANGED <<pending, req, told>>
     \/ ~Armed /\ Answer(c, "rolled_back") /\ SetAside
     \/ May("systemd") /\ Answer(c, "failed") /\ UNCHANGED pending
  /\ UNCHANGED <<live, applied, previous, draft, taken, kept, boot, systemd, stuck>>

(* claim: whatever change is pending, taken by one rename and then read. *)
Claim(c) ==
  /\ pc[c] = "claim"
  /\ taken' = IF pending = None THEN taken ELSE pending
  /\ pending' = None
  /\ \/ pending # None /\ On(c, "disarm")
     \/ (pending = None \/ "unread" \in Races) /\ Answer(c, "rolled_back")
  /\ UNCHANGED <<live, applied, previous, draft, kept, boot, systemd, stuck>>

Disarm(c) ==
  /\ pc[c] = "disarm"
  /\ Stop
  /\ On(c, "opening")
  /\ UNCHANGED <<live, files, svc, stuck>>

\* Mutant: an opening is written and never removed.
KeepOpeningAdds(c) ==
  /\ pc[c] = "opening"
  /\ kept' = IF taken.open THEN kept \cup {taken.id} ELSE kept
  /\ On(c, "table")
  /\ UNCHANGED <<live, applied, previous, draft, pending, taken, boot, systemd, stuck>>

(* The opening is written, or removed: a removal that fails is not noticed. *)
KeepOpening(c) ==
  /\ pc[c] = "opening"
  /\ \/ /\ kept' = IF taken.open THEN kept \cup {taken.id} ELSE kept \ {taken.id}
        /\ On(c, "table")
     \/ /\ May("disk") /\ UNCHANGED kept
        /\ IF taken.open THEN Answer(c, "failed")
                         ELSE On(c, "table")
  /\ UNCHANGED <<live, applied, previous, draft, pending, taken, boot, systemd, stuck>>

(* pending.nft becomes applied.nft; what was claimed is forgotten. *)
KeepTable(c) ==
  /\ pc[c] = "table"
  /\ \/ /\ draft # None
        /\ applied' = draft /\ draft' = None /\ taken' = None
        /\ On(c, "boot")
     \/ /\ draft = None \/ May("disk")
        /\ Answer(c, "failed") /\ UNCHANGED <<applied, draft, taken>>
  /\ UNCHANGED <<live, previous, pending, kept, boot, systemd, stuck>>

(* boot_unit. *)
KeepAtBoot(c) ==
  /\ pc[c] = "boot"
  /\ \/ boot' = TRUE /\ Answer(c, "confirmed")
     \/ /\ May("disk") \/ May("systemd")
        /\ Answer(c, "failed") /\ UNCHANGED boot
  /\ UNCHANGED <<live, applied, previous, draft, pending, taken, kept, systemd, stuck>>

-----------------------------------------------------------------------------
(* remove, which holds the firewall from before it takes the worker down. *)

(* close: nothing kept, nothing to load; taking the worker down may fail. *)
CloseLoad(c) ==
  /\ pc[c] = "ready" /\ req[c].verb = "remove"
  /\ \/ /\ applied = None
        /\ \/ kept' = kept \ {req[c].id}
           \/ May("disk") /\ UNCHANGED kept
        /\ Answer(c, "removed") /\ UNCHANGED <<live, stuck>>
     \/ /\ applied # None
        /\ live' = ClosedTable(c) /\ stuck' = FALSE
        /\ On(c, "keep") /\ UNCHANGED kept
     \/ /\ Faults \cap {"disk", "nft", "systemd"} # {}
        /\ Answer(c, "failed") /\ UNCHANGED <<live, kept, stuck>>
  /\ UNCHANGED <<applied, previous, draft, pending, taken, boot, systemd>>

(* next.nft becomes applied.nft. *)
CloseKeep(c) ==
  /\ pc[c] = "keep"
  /\ \/ /\ applied' = ClosedTable(c)
        /\ On(c, "forget")
     \/ May("disk") /\ Answer(c, "failed") /\ UNCHANGED applied
  /\ UNCHANGED <<live, previous, draft, pending, taken, kept, boot, systemd, stuck>>

(* The opening is removed; a removal that fails is not noticed. *)
CloseForget(c) ==
  /\ pc[c] = "forget"
  /\ \/ kept' = kept \ {req[c].id}
     \/ May("disk") /\ UNCHANGED kept
  /\ Answer(c, "removed")
  /\ UNCHANGED <<live, applied, previous, draft, pending, taken, boot, systemd, stuck>>

-----------------------------------------------------------------------------
(* The server: the timer, its service, and a restart. *)

(* FIREWALL_ROLLBACK_SECONDS is longer than loading a table takes. *)
Fire ==
  /\ timer = "waiting"
  /\ \A c \in Clients : pc[c] # "load"
  /\ timer' = "running" /\ svc' = "started"
  /\ UNCHANGED <<live, files, lock, clients, stuck>>

\* Mutant: the rollback goes ahead whether or not it has the change.
TakeOrNot ==
  /\ svc = "started"
  /\ pending' = None /\ svc' = "moved"
  /\ UNCHANGED <<live, applied, previous, draft, taken, kept, boot, timer, lock, clients, stuck>>

(* rollback_command: mv pending.json, and only then nft -f previous.nft.  A *)
(* move that fails ends it with the change still there, and nothing tries   *)
(* again.                                                                  *)
Take ==
  /\ svc = "started"
  /\ \/ pending # None /\ pending' = None /\ svc' = "moved" /\ UNCHANGED <<timer, stuck>>
     \/ pending = None /\ ServiceEnds /\ UNCHANGED <<pending, stuck>>
     \/ /\ pending # None /\ May("disk")
        /\ ServiceEnds /\ stuck' = TRUE /\ UNCHANGED pending
  /\ UNCHANGED <<live, applied, previous, draft, taken, kept, boot, lock, clients>>

(* A load that nft refuses is not tried again: the change is gone by then.  *)
PutBack ==
  /\ svc = "moved"
  /\ \/ live' = previous /\ stuck' = FALSE
     \/ May("nft") /\ stuck' = TRUE /\ UNCHANGED live
  /\ ServiceEnds
  /\ UNCHANGED <<files, lock, clients>>

(* The kernel's tables, the transient units and the verbs go; files stay. *)
Reboot ==
  /\ May("reboot")
  /\ "halfKept" \in Races \/ \A c \in Clients : pc[c] \notin {"table", "forget"}
  /\ live' = IF boot THEN applied ELSE None
  /\ stuck' = FALSE
  /\ timer' = "off" /\ svc' = "none" /\ lock' = None
  /\ pc' = [c \in Clients |-> IF pc[c] = "applied" THEN "applied" ELSE "idle"]
  /\ req' = [c \in Clients |-> IF pc[c] = "applied" THEN req[c] ELSE None]
  /\ UNCHANGED <<files, told>>

-----------------------------------------------------------------------------
(* A verb's next step on the server. *)
VerbStep(c) ==
  \/ Begin(c) \/ Ask(c)
  \/ KeepPrevious(c) \/ WritePending(c) \/ Arm(c) \/ Load(c)
  \/ BeginConfirm(c) \/ Claim(c) \/ Disarm(c)
  \/ KeepOpening(c) \/ KeepTable(c) \/ KeepAtBoot(c)
  \/ CloseLoad(c) \/ CloseKeep(c) \/ CloseForget(c)

Next ==
  \/ \E c \in Clients : Call(c) \/ Connect(c) \/ VerbStep(c)
  \/ Fire \/ Take \/ PutBack \/ Reboot

Spec == Init /\ [][Next]_vars

-----------------------------------------------------------------------------
(* Properties. *)

(* The shape of the files, of systemd's units and of the verbs. *)
TypeOK ==
  /\ {live, applied, previous, draft} \subseteq Table \cup {None}
  /\ {pending, taken} \subseteq Change \cup {None}
  /\ kept \subseteq Workers /\ boot \in BOOLEAN
  /\ timer \in {"off", "waiting", "running"}
  /\ svc \in {"none", "started", "moved"}
  /\ lock \in Clients \cup {None} /\ stuck \in BOOLEAN
  /\ pc \in [Clients -> {"idle", "called", "ask", "ready", "write", "arm", "load",
                          "applied", "connected", "claim", "disarm", "opening",
                          "table", "boot", "keep", "forget"}]
  /\ req \in [Clients -> Request \cup {None}]
  /\ told \in [Clients -> {"none", "failed", "rolled_back", "confirmed", "removed"}]

(* A rollback is on its way: the timer, or its service, will find the change *)
(* and put the previous table back.                                        *)
Guarded ==
  \/ timer = "waiting" /\ pending # None
  \/ svc = "started" /\ pending # None
  \/ svc = "moved"

(* A table that locks erpc out is in force only while the rollback that puts *)
(* one back that lets it in is on its way ("a change that may lock erpc out  *)
(* goes in two steps").  The one exception is a rollback that was run and    *)
(* failed: it took the change first, so nothing tries again.                *)
LockoutIsGuarded == ~LetsIn(live) => stuck \/ (Guarded /\ LetsIn(previous))

(* With no verb running, what the kernel has is what is kept, or nothing     *)
(* because the server restarted before the kept one was loaded at boot, or a *)
(* rollback is on its way: no change stays in force that was not kept, but   *)
(* for one whose rollback failed.                                           *)
KeptOrGuarded ==
  lock = None => live = applied \/ (live = None /\ ~boot) \/ Guarded \/ stuck

(* A table is kept for the next boot only when it is the one in force and    *)
(* erpc got in through it ("which proves the new table lets erpc in").      *)
KeptIsProven ==
  [][applied' # applied => applied' = live /\ LetsIn(live)]_vars

(* With no verb running, the openings the next table is made from are those  *)
(* of the table kept: "each changes only its own part".                     *)
OpeningsAreKept == lock = None => kept = Opens(applied)

(* A port opens only by a change that asks for it, or by a table in which it *)
(* was confirmed: neither a rollback nor another worker's change opens a     *)
(* port that was closed or whose worker was removed.                        *)
OpensOnlyOwn ==
  [][\A w \in Opens(live') \ Opens(live) :
       \/ w \in kept
       \/ pending # None /\ pending.id = w /\ pending.open]_vars

-----------------------------------------------------------------------------
(* Fairness: the timer elapses, its shell is run, and a verb that is running *)
(* is run to its end.                                                       *)
ServerRuns ==
  /\ WF_vars(Fire) /\ WF_vars(Take) /\ WF_vars(PutBack)
  /\ \A c \in Clients : WF_vars(VerbStep(c))

FairSpec == Spec /\ ServerRuns

(* Whoever is locked out gets in again, or the rollback was run and failed. *)
LockoutEnds == ~LetsIn(live) ~> LetsIn(live) \/ stuck
=============================================================================
