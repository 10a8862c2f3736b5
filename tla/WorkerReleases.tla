--------------------------- MODULE WorkerReleases ---------------------------
(***************************************************************************)
(* The releases of a worker on its server, as erpc changes them:           *)
(* `erpc-worker-agent ctl` (crates/erpc-worker-agent/src/ctl.rs) run over  *)
(* SSH by deploy, rollback and delete (crates/erpc/src/worker_deploy.rs,   *)
(* worker_remote.rs), and the agent it asks over the socket                *)
(* (WorkerSupervisor).                                                     *)
(*                                                                         *)
(* A Client is an erpc that deploys, goes back or deletes.  install,       *)
(* activate and rollback hold .lock and refuse to wait for it; remove      *)
(* takes no lock, and takes the lock file away with the directory.         *)
(* Races names what this instance lets happen:                             *)
(*   unlocked    a worker is removed while another verb is under way        *)
(*   unended     systemctl cannot stop the agent of a worker it removes     *)
(***************************************************************************)
EXTENDS WorkerSupervisor, FiniteSets

CONSTANTS Clients,  \* erpc processes that change the worker
          Keep,     \* deploy.keep_releases, at least one
          Asked,    \* the requests operators make besides
          Races     \* which races this instance has

RequestNames == {"unlock", "lock", "start", "stop", "restart"}

ASSUME ReleasesAssumption ==
  /\ Keep \in Nat \ {0}
  /\ Asked \subseteq RequestNames
  /\ Races \subseteq {"unlocked", "unended"}
  /\ None \notin Clients

VARIABLES
  previous, \* the link to the release to go back to
  lock,     \* the client whose verb has .lock
  pc,       \* where each client, or its verb on the server, is
  job,      \* the release a verb is for, and the links it found
  trusted,  \* history: the releases shown healthy
  astray,   \* history: since the last release shown healthy a verb was cut off,
            \* failed, or went back to a release that is not
  damaged   \* history: the releases that a removal got at and did not finish

links == <<disk, current, previous>>
clients == <<lock, pc, job>>
history == <<trusted, astray, damaged>>
vars == <<links, supervisor, clients, history>>

Link == Releases \cup {None}
Job == [verb : {"deploy", "rollback", "remove"}, id : Link, before : Link, beforePrevious : Link]
NoJob == [verb |-> "deploy", id |-> None, before |-> None, beforePrevious |-> None]

Init ==
  /\ InitSupervisor
  /\ previous = None /\ lock = None
  /\ pc = [c \in Clients |-> "idle"] /\ job = [c \in Clients |-> NoJob]
  /\ trusted = {} /\ astray = FALSE /\ damaged = {}

-----------------------------------------------------------------------------
Goto(c, p) == pc' = [pc EXCEPT ![c] = p]
On(c, p) == Goto(c, p) /\ UNCHANGED <<lock, job>>

(* The verb has answered and the client is done. *)
Answer(c) ==
  /\ lock' = IF lock = c THEN None ELSE lock
  /\ Goto(c, "idle")
  /\ job' = [job EXCEPT ![c] = NoJob]

(* The same, with the links where they were not meant to stay. *)
GoesAstray(c) == Answer(c) /\ astray' = TRUE /\ UNCHANGED <<trusted, damaged>>

Idle(c) == pc[c] = "idle"
NobodyRemoves == "unlocked" \in Races \/ \A d \in Clients : job[d].verb # "remove"

(* locked: another verb has the lock. *)
Refused(c, p) ==
  /\ pc[c] = p /\ lock # None
  /\ Answer(c)
  /\ UNCHANGED <<links, supervisor, history>>

-----------------------------------------------------------------------------
(* erpc. *)

(* deploy, up to setup: the agent runs, and was restarted if it or its unit *)
(* was replaced.                                                            *)
Deploy(c) ==
  /\ Idle(c) /\ NobodyRemoves
  /\ \E r \in Releases : job' = [job EXCEPT ![c].verb = "deploy", ![c].id = r]
  /\ \/ ComesUp
     \/ agent = "up" /\ UNCHANGED supervisor
  /\ Goto(c, "install")
  /\ UNCHANGED <<links, lock, history>>

(* rollback, to the previous release or the one named; an agent that is     *)
(* locked is handed what erpc.toml names first (Ask).                       *)
Rollback(c) ==
  /\ Idle(c) /\ agent = "up" /\ NobodyRemoves
  /\ \E r \in Link : job' = [job EXCEPT ![c].verb = "rollback", ![c].id = r]
  /\ Goto(c, "rollback")
  /\ UNCHANGED <<links, supervisor, lock, history>>

(* The client hands over what the release it deploys needs. *)
UnlockFor(c) ==
  /\ pc[c] = "unlock"
  /\ \/ /\ AskUnlock(Needs[job[c].id]) /\ On(c, "activate")
     \/ /\ agent # "up" /\ Answer(c) /\ UNCHANGED supervisor
  /\ UNCHANGED <<links, history>>

(* A client that stops between two verbs; a verb that is cut off. *)
Leave(c) ==
  /\ pc[c] \in {"install", "unlock", "activate", "rollback"}
  /\ Answer(c)
  /\ UNCHANGED <<links, supervisor, history>>

Cut(c) ==
  /\ May("cut") /\ lock = c
  /\ Answer(c)
  /\ astray' = TRUE
  /\ UNCHANGED <<links, supervisor, trusted, damaged>>

-----------------------------------------------------------------------------
(* install. *)

(* The upload is copied beside the releases and moved in with one rename; a *)
(* release that is there already is only looked at.                         *)
Install(c) ==
  /\ pc[c] = "install" /\ lock = None /\ NobodyRemoves
  /\ \/ /\ disk[job[c].id] = "none"
        /\ \E d \in {"whole"} \cup (IF May("torn") THEN {"torn"} ELSE {}) :
             disk' = [disk EXCEPT ![job[c].id] = d]
        /\ lock' = c /\ Goto(c, "verify") /\ UNCHANGED job
     \/ /\ disk[job[c].id] = "whole" /\ On(c, "unlock") /\ UNCHANGED disk
     \/ /\ disk[job[c].id] = "torn" /\ Answer(c) /\ UNCHANGED disk
  /\ UNCHANGED <<current, previous, supervisor, history>>

(* checked: a release whose digests differ is not kept. *)
Verify(c) ==
  /\ pc[c] = "verify"
  /\ \/ /\ disk[job[c].id] = "whole"
        /\ Goto(c, "unlock") /\ lock' = IF lock = c THEN None ELSE lock
        /\ damaged' = damaged \ {job[c].id}
        /\ UNCHANGED <<disk, job>>
     \/ /\ disk[job[c].id] # "whole"
        /\ disk' = [disk EXCEPT ![job[c].id] = "none"]
        /\ Answer(c) /\ UNCHANGED damaged
  /\ UNCHANGED <<current, previous, supervisor, trusted, astray>>

-----------------------------------------------------------------------------
(* activate and rollback. *)

Found(c, id) ==
  job' = [job EXCEPT ![c].id = id, ![c].before = current, ![c].beforePrevious = previous]

\* Mutant: the lock is opened and not taken.
ActivateUnlocked(c) ==
  /\ pc[c] = "activate" /\ NobodyRemoves
  /\ disk[job[c].id] = "whole" /\ job[c].id # current
  /\ Found(c, job[c].id) /\ Goto(c, "point")
  /\ UNCHANGED <<links, supervisor, lock, history>>

Activate(c) ==
  /\ pc[c] = "activate" /\ lock = None /\ NobodyRemoves
  /\ LET id == job[c].id IN
       \/ disk[id] # "whole" /\ Answer(c)
       \/ disk[id] = "whole" /\ id = current /\ Answer(c)
       \/ /\ disk[id] = "whole" /\ id # current
          /\ lock' = c /\ Found(c, id) /\ Goto(c, "point")
  /\ UNCHANGED <<links, supervisor, history>>

GoBack(c) ==
  /\ pc[c] = "rollback" /\ lock = None /\ NobodyRemoves
  /\ LET id == IF job[c].id = None THEN previous ELSE job[c].id IN
       \/ id = None /\ Answer(c)
       \/ id # None /\ id = current /\ Answer(c)
       \/ id # None /\ id # current /\ disk[id] # "whole" /\ Answer(c)
       \/ /\ id # None /\ id # current /\ disk[id] = "whole"
          /\ lock' = c /\ Found(c, id) /\ Goto(c, "point")
  /\ UNCHANGED <<links, supervisor, history>>

(* point, one rename each: current first, then previous. *)
Point(c) ==
  /\ pc[c] = "point"
  /\ \/ /\ current' = job[c].id /\ On(c, "link") /\ UNCHANGED history
     \/ /\ May("disk") /\ UNCHANGED current /\ Answer(c) /\ UNCHANGED history
  /\ UNCHANGED <<disk, previous, supervisor>>

LinkPrevious(c) ==
  /\ pc[c] = "link"
  /\ \/ /\ previous' = IF job[c].before = None THEN previous ELSE job[c].before
        /\ On(c, "restart") /\ UNCHANGED history
     \/ /\ May("disk") /\ UNCHANGED previous /\ GoesAstray(c)
  /\ UNCHANGED <<disk, current, supervisor>>

RestartNew(c) ==
  /\ pc[c] = "restart"
  /\ \/ /\ AskRestart /\ On(c, "watch") /\ UNCHANGED history
     \/ /\ agent # "up" /\ UNCHANGED supervisor /\ GoesAstray(c)
  /\ UNCHANGED links

Healthy(c) ==
  agent = "up" /\ app # None /\ app.rel = job[c].id /\ app.healthy

(* healthy: it is, or it is not in time, or it is locked, or nobody answers. *)
Watch(c) ==
  /\ pc[c] = "watch"
  /\ LET deploys == job[c].verb = "deploy" IN
       \/ /\ Healthy(c)
          /\ trusted' = trusted \cup {job[c].id} /\ astray' = FALSE /\ UNCHANGED damaged
          /\ \/ deploys /\ On(c, "prune")
             \/ ~deploys /\ Answer(c)
       \/ ~deploys /\ GoesAstray(c)
       \/ /\ deploys /\ On(c, IF job[c].before = None THEN "halt" ELSE "back")
          /\ UNCHANGED history
  /\ UNCHANGED <<links, supervisor>>

(* A first release with nothing to go back to is left stopped. *)
Halt(c) ==
  /\ pc[c] = "halt"
  /\ AskStop \/ (agent # "up" /\ UNCHANGED supervisor)
  /\ Answer(c)
  /\ UNCHANGED <<links, history>>

\* Mutant: it goes back to the release before the one that ran.
PointBackTwice(c) ==
  /\ pc[c] = "back"
  /\ current' = IF job[c].beforePrevious = None THEN job[c].before ELSE job[c].beforePrevious
  /\ On(c, "backLink")
  /\ UNCHANGED <<disk, previous, supervisor, history>>

PointBack(c) ==
  /\ pc[c] = "back"
  /\ \/ current' = job[c].before /\ On(c, "backLink") /\ UNCHANGED history
     \/ May("disk") /\ UNCHANGED current /\ GoesAstray(c)
  /\ UNCHANGED <<disk, previous, supervisor>>

LinkBack(c) ==
  /\ pc[c] = "backLink"
  /\ \/ /\ previous' = IF job[c].beforePrevious = None THEN previous ELSE job[c].beforePrevious
        /\ On(c, "backRestart")
     \/ May("disk") /\ UNCHANGED previous /\ Answer(c)
  /\ UNCHANGED <<disk, current, supervisor, history>>

RestartBack(c) ==
  /\ pc[c] = "backRestart"
  /\ \/ AskRestart /\ On(c, "backWatch")
     \/ agent # "up" /\ UNCHANGED supervisor /\ Answer(c)
  /\ UNCHANGED <<links, history>>

WatchBack(c) ==
  /\ pc[c] = "backWatch"
  /\ Answer(c)
  /\ UNCHANGED <<links, supervisor, history>>

OnDisk == {r \in Releases : disk[r] # "none"}

\* Mutant: only the release that runs is kept back.
ExcessButCurrent(c) ==
  LET older(r) == Cardinality({s \in OnDisk : s < r})
  IN  {r \in OnDisk \ {current} : older(r) < Cardinality(OnDisk) - Keep}

\* Mutant: the links are those the verb found.
ExcessOfBefore(c) ==
  LET older(r) == Cardinality({s \in OnDisk : s < r})
  IN  {r \in OnDisk \ {job[c].before, job[c].beforePrevious} :
         older(r) < Cardinality(OnDisk) - Keep}

(* prune: the oldest past Keep, but for the two that are pointed at. *)
Excess(c) ==
  LET older(r) == Cardinality({s \in OnDisk : s < r})
  IN  {r \in OnDisk \ {current, previous} : older(r) < Cardinality(OnDisk) - Keep}

Prune(c) ==
  /\ pc[c] = "prune"
  /\ \/ /\ \E r \in Excess(c) : disk' = [disk EXCEPT ![r] = "none"]
        /\ UNCHANGED clients
     \/ /\ May("disk") /\ \E r \in Excess(c) : disk' = [disk EXCEPT ![r] = "torn"]
        /\ Answer(c)
     \/ Excess(c) = {} /\ UNCHANGED disk /\ Answer(c)
  /\ UNCHANGED <<current, previous, supervisor, history>>

-----------------------------------------------------------------------------
(* remove: the unit and its state, then the directory.  That the unit is     *)
(* stopped, and its state cleaned, is not looked at.                        *)
Remove(c) ==
  /\ Idle(c)
  /\ agent # "gone" \/ OnDisk # {} \/ {current, previous} # {None}
  /\ "unlocked" \in Races \/ \A d \in Clients : Idle(d)
  /\ \/ /\ agent' = "gone" /\ Ends
        /\ \/ kept' = FALSE /\ off' = TRUE
           \/ May("disk") /\ UNCHANGED <<kept, off>>
     \/ "unended" \in Races /\ UNCHANGED supervisor
  /\ job' = [job EXCEPT ![c].verb = "remove"]
  /\ Goto(c, "remove")
  /\ UNCHANGED <<links, lock, history>>

(* The lock file goes with the directory, whoever has it. *)
Removed(c) ==
  /\ lock' = None
  /\ Goto(c, "idle") /\ job' = [job EXCEPT ![c] = NoJob]
  /\ UNCHANGED supervisor

RemoveDirectory(c) ==
  /\ pc[c] = "remove"
  /\ disk' = [r \in Releases |-> "none"] /\ current' = None /\ previous' = None
  /\ trusted' = {} /\ astray' = FALSE /\ damaged' = {}
  /\ Removed(c)

(* A removal that fails or is cut off, before, in or between any of the      *)
(* releases and the links: remove_dir_all takes them in no order.           *)
RemovePart(c) ==
  /\ pc[c] = "remove" /\ (May("disk") \/ May("cut"))
  /\ \E part \in SUBSET OnDisk : \E torn \in SUBSET part :
       /\ disk' = [r \in Releases |-> IF r \notin part THEN disk[r]
                                     ELSE IF r \in torn THEN "torn" ELSE "none"]
       /\ damaged' = damaged \cup part
  /\ current' \in {current, None} /\ previous' \in {previous, None}
  /\ trusted' = {} /\ astray' = TRUE
  /\ Removed(c)

-----------------------------------------------------------------------------
(* Operators ask the agent directly: start, stop, restart, lock, unlock. *)
Ask ==
  /\ \/ "unlock" \in Asked /\ \E r \in Releases : AskUnlock(Needs[r])
     \/ "lock" \in Asked /\ AskLock
     \/ "start" \in Asked /\ AskStart
     \/ "stop" \in Asked /\ AskStop
     \/ "restart" \in Asked /\ AskRestart
  /\ UNCHANGED <<links, clients, history>>

AgentStep == (Tick \/ UnitStep) /\ UNCHANGED <<links, clients, history>>

Begin(c) ==
  \/ Deploy(c) \/ Rollback(c) \/ Remove(c) \/ Install(c) \/ Activate(c) \/ GoBack(c)
  \/ UnlockFor(c) \/ Leave(c)
  \/ Refused(c, "install") \/ Refused(c, "activate") \/ Refused(c, "rollback")

VerbStep(c) ==
  \/ Verify(c) \/ Point(c) \/ LinkPrevious(c) \/ RestartNew(c) \/ Watch(c) \/ Halt(c)
  \/ PointBack(c) \/ LinkBack(c) \/ RestartBack(c) \/ WatchBack(c) \/ Prune(c)
  \/ RemoveDirectory(c) \/ RemovePart(c)

Next ==
  \/ \E c \in Clients : Begin(c) \/ VerbStep(c) \/ Cut(c)
  \/ Ask \/ AgentStep

Spec == Init /\ [][Next]_vars

(* The agent's loop goes round, and systemd brings it back. *)
AgentRuns ==
  WF_vars((PauseOver \/ StartDue \/ AgentComesBack) /\ UNCHANGED <<links, clients, history>>)

FairSpec == Spec /\ AgentRuns

-----------------------------------------------------------------------------
Places ==
  {"idle", "install", "verify", "unlock", "activate", "rollback", "point", "link",
   "restart", "watch", "halt", "back", "backLink", "backRestart", "backWatch",
   "prune", "remove"}

TypeOK ==
  /\ SupervisorTyped
  /\ previous \in Link /\ lock \in Clients \cup {None}
  /\ pc \in [Clients -> Places] /\ job \in [Clients -> Job]
  /\ {trusted, damaged} \subseteq SUBSET Releases /\ astray \in BOOLEAN

(* What `current` and `previous` point at is on disk and was checked: a     *)
(* reader sees one release or the other, never neither (ctl.rs, prune,      *)
(* point, install).  Only a removal that did not finish leaves a link at    *)
(* less, and only at a release it got at, until that is installed again.    *)
PointedIsOnDisk ==
  \A r \in {current, previous} \ {None} : disk[r] = "whole" \/ r \in damaged

(* The app never runs from a directory that was taken away (prune, while    *)
(* the agent starts what `current` points at), but for what a removal that  *)
(* did not finish left of it.                                               *)
RunsFromDisk == app # None => disk[app.rel] = "whole" \/ app.rel \in damaged

(* Once a release has been shown healthy, no activation that ran to its end *)
(* leaves `current` at one that was not (activate, "point `current` back"). *)
LeftTrusted ==
  lock = None /\ ~astray /\ trusted # {} /\ NobodyRemoves => current \in trusted

(* docs/worker.md: when the server went back, "the previous release still   *)
(* runs": the agent has what it needs.                                      *)
PreviousCanRun ==
  \A c \in Clients :
    pc[c] = "backWatch" /\ current \in trusted => Needs[current] \subseteq held

InVerb == {"verify", "point", "link", "restart", "watch", "halt", "back", "backLink",
           "backRestart", "backWatch", "prune"}

(* ctl.rs: .lock is held "so two deploys cannot interleave".                *)
OneVerb == \A c, d \in Clients : pc[c] \in InVerb /\ pc[d] \in InVerb => c = d
=============================================================================
