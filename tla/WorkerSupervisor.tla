-------------------------- MODULE WorkerSupervisor --------------------------
(***************************************************************************)
(* The agent of a worker (crates/erpc-worker-agent/src/supervise.rs): it   *)
(* has the secrets in memory, runs the app that `current` points at, takes *)
(* requests from its socket one at a time, and starts an app that ended.   *)
(*                                                                         *)
(* A release is a number: ids sort by the time they were built.  A key is  *)
(* one of the secrets.  A pause is on or over; how long it is, and the     *)
(* text of an answer, are left out.                                        *)
(***************************************************************************)
EXTENDS Integers

CONSTANTS Releases,   \* the releases that are built
          Secrets,    \* what an app may need: its key, its settings
          Needs,      \* the secrets launch.json names, by release
          Faults,     \* which faults this instance has
          None

FaultNames == {"disk", "state", "agent", "cut", "torn"}

ASSUME SupervisorAssumption ==
  /\ Releases \subseteq Nat
  /\ Needs \in [Releases -> SUBSET Secrets]
  /\ Faults \subseteq FaultNames
  /\ None \notin Nat

VARIABLES
  disk,     \* the release's directory: none, whole, or torn
  current,  \* the link the app is started from; ctl moves it
  agent,    \* up, down (systemd brings it back), or gone (no unit)
  held,     \* the secrets the agent was handed
  wanted,   \* whether the app is to run
  kept,     \* the file `wanted` in the state directory
  app,      \* the app that runs: its release, and whether it is healthy
  paused,   \* whether the next start is not due yet
  off       \* history: the last of start, restart, stop and lock was one of the latter

process == <<held, wanted, app, paused>>
supervisor == <<agent, kept, off, process>>

Running == [rel : Releases, healthy : BOOLEAN]

May(fault) == fault \in Faults

InitSupervisor ==
  /\ disk = [r \in Releases |-> "none"] /\ current = None
  /\ agent = "gone" /\ held = {} /\ wanted = FALSE /\ kept = FALSE
  /\ app = None /\ paused = FALSE /\ off = TRUE

-----------------------------------------------------------------------------
(* Starting and wanting. *)

(* current and missing: there is a release, and the agent has what it needs. *)
CanStart ==
  /\ current # None /\ disk[current] # "none"
  /\ Needs[current] \subseteq held

(* A release that is not whole need not start. *)
Startable == agent = "up" /\ wanted /\ CanStart /\ disk[current] = "whole"

(* start_app; a release that is not whole may or may not start. *)
StartApp ==
  \/ CanStart /\ app' = [rel |-> current, healthy |-> FALSE]
  \/ (CanStart => disk[current] = "torn") /\ app' = None

(* want: a file that cannot be written is passed over. *)
Want(w) ==
  /\ wanted' = w
  /\ kept' \in {w} \cup (IF May("state") THEN {kept} ELSE {})
  /\ off' = ~w

-----------------------------------------------------------------------------
(* What is asked over the socket. *)

AskUnlock(s) ==
  /\ agent = "up"
  /\ held' = s
  /\ paused' = (paused /\ ~(wanted /\ app = None))
  /\ UNCHANGED <<agent, wanted, kept, off, app>>

\* Mutant: a lock stops the app and forgets, and the app stays wanted.
ForgetOnly ==
  /\ agent = "up"
  /\ off' = TRUE
  /\ app' = None /\ held' = {}
  /\ UNCHANGED <<agent, wanted, kept, paused>>

AskLock ==
  /\ agent = "up"
  /\ Want(FALSE)
  /\ app' = None /\ held' = {}
  /\ UNCHANGED <<agent, paused>>

AskStart ==
  /\ agent = "up"
  /\ Want(TRUE)
  /\ \/ app # None /\ UNCHANGED <<app, paused>>
     \/ app = None /\ StartApp /\ paused' = FALSE
  /\ UNCHANGED <<agent, held>>

AskStop ==
  /\ agent = "up"
  /\ Want(FALSE)
  /\ app' = None
  /\ UNCHANGED <<agent, held, paused>>

AskRestart ==
  /\ agent = "up"
  /\ Want(TRUE)
  /\ StartApp /\ paused' = FALSE
  /\ UNCHANGED <<agent, held>>

-----------------------------------------------------------------------------
(* tick. *)

(* The app ends; one that is wanted is started after a pause. *)
AppEnds ==
  /\ agent = "up" /\ app # None
  /\ app' = None
  /\ paused' = (paused \/ wanted)
  /\ UNCHANGED <<agent, held, wanted, kept, off>>

Probe ==
  /\ agent = "up" /\ app # None
  /\ \E h \in BOOLEAN : app' = [app EXCEPT !.healthy = h]
  /\ UNCHANGED <<agent, held, wanted, kept, off, paused>>

\* Mutant: the pause is looked at only while an app runs.
PauseOverRunning ==
  /\ agent = "up" /\ paused /\ app # None
  /\ paused' = FALSE
  /\ UNCHANGED <<agent, held, wanted, kept, off, app>>

PauseOver ==
  /\ agent = "up" /\ paused
  /\ paused' = FALSE
  /\ UNCHANGED <<agent, held, wanted, kept, off, app>>

StartDue ==
  /\ agent = "up" /\ app = None /\ wanted /\ ~paused
  /\ StartApp
  /\ paused' = (app' = None)
  /\ UNCHANGED <<agent, held, wanted, kept, off>>

-----------------------------------------------------------------------------
(* The unit. *)

(* The process ends, and the app with it: what it had in memory is gone. *)
Ends == app' = None /\ held' = {} /\ wanted' = FALSE /\ paused' = FALSE

AgentDies ==
  /\ May("agent") /\ agent = "up"
  /\ agent' = "down" /\ Ends
  /\ UNCHANGED <<kept, off>>

(* run: the agent comes up locked, and wants what it wanted. *)
ComesUp ==
  /\ agent' = "up"
  /\ app' = None /\ held' = {} /\ wanted' = kept /\ paused' = FALSE
  /\ UNCHANGED <<kept, off>>

AgentComesBack == agent = "down" /\ ComesUp

Tick == AppEnds \/ Probe \/ PauseOver \/ StartDue
UnitStep == AgentDies \/ AgentComesBack

-----------------------------------------------------------------------------
SupervisorTyped ==
  /\ disk \in [Releases -> {"none", "whole", "torn"}]
  /\ current \in Releases \cup {None}
  /\ agent \in {"up", "down", "gone"}
  /\ held \subseteq Secrets
  /\ wanted \in BOOLEAN /\ kept \in BOOLEAN /\ paused \in BOOLEAN /\ off \in BOOLEAN
  /\ app \in Running \cup {None}

(* An app that was stopped or locked stays down until it is started again:  *)
(* no tick, unlock, crash of the agent or later boot brings it up           *)
(* (Request::Lock, "a lock is a stop that also forgets").                   *)
StaysStopped == off => app = None

(* What is wanted and can start is started (tick, "restarts an app that     *)
(* ended"): no order of failures, pauses and unlocks leaves it down.        *)
StartsAgain == Startable ~> (app # None \/ ~Startable)
=============================================================================
