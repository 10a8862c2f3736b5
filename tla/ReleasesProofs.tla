--------------------------- MODULE ReleasesProofs ---------------------------
(***************************************************************************)
(* What holds of module WorkerReleases for any number of clients, releases *)
(* and secrets, any number of releases kept, and every fault.              *)
(***************************************************************************)
EXTENDS WorkerReleases, TLAPS

-----------------------------------------------------------------------------
(* Shapes.                                                                  *)

(* The parts of TypeOK.                                                     *)
AgentTyped ==
  /\ agent \in {"up", "down", "gone"}
  /\ held \subseteq Secrets
  /\ wanted \in BOOLEAN /\ kept \in BOOLEAN /\ paused \in BOOLEAN /\ off \in BOOLEAN
  /\ app \in Running \cup {None}
LinksTyped ==
  /\ disk \in [Releases -> {"none", "whole", "torn"}]
  /\ current \in Link /\ previous \in Link
  /\ trusted \subseteq Releases /\ astray \in BOOLEAN /\ damaged \subseteq Releases
ClientsTyped ==
  /\ lock \in Clients \cup {None}
  /\ pc \in [Clients -> Places] /\ job \in [Clients -> Job]

(* From the request to the link that is moved a verb has a release.         *)
HasRelease == {"install", "verify", "unlock", "activate", "point"}
Carries == \A c \in Clients : pc[c] \in HasRelease => job[c].id \in Releases

Shape == TypeOK /\ Carries

(* The parts make the whole.                                                *)
LEMMA Parts == TypeOK <=> AgentTyped /\ LinksTyped /\ ClientsTyped
BY DEF TypeOK, SupervisorTyped, AgentTyped, LinksTyped, ClientsTyped, Link

(* What a verb has in hand is a release or none.                            *)
LEMMA JobFields ==
  ASSUME ClientsTyped, NEW c \in Clients
  PROVE  job[c].id \in Link /\ job[c].before \in Link /\ job[c].beforePrevious \in Link
<1>1. job[c] \in Job
  BY DEF ClientsTyped
<1> QED BY <1>1 DEF Job

(* A client that begins has a job of the verb and the release it is for.    *)
LEMMA NewJob ==
  ASSUME ClientsTyped, NEW c \in Clients, NEW v \in {"deploy", "rollback", "remove"},
         NEW r \in Link, job' = [job EXCEPT ![c].verb = v, ![c].id = r]
  PROVE  /\ job' \in [Clients -> Job]
         /\ job'[c].id = r /\ job'[c].verb = v
         /\ \A d \in Clients \ {c} : job'[d] = job[d]
<1>1. job[c] \in Job /\ job' = [job EXCEPT ![c] = [job[c] EXCEPT !.verb = v, !.id = r]]
  BY DEF ClientsTyped
<1>2. [job[c] EXCEPT !.verb = v, !.id = r] \in Job
  BY <1>1 DEF Job
<1> QED BY <1>1, <1>2 DEF ClientsTyped, Job

(* A server without the worker has the right shape.                         *)
LEMMA InitShape == Init => Shape
<1> SUFFICES ASSUME Init PROVE Shape
  OBVIOUS
<1> USE SupervisorAssumption, ReleasesAssumption DEF Init, InitSupervisor
<1>1. LinksTyped
  BY DEF LinksTyped, Link
<1>2. AgentTyped
  BY DEF AgentTyped
<1>3. ClientsTyped
  BY DEF ClientsTyped, Places, Job, NoJob, Link
<1>4. Carries
  BY DEF Carries, HasRelease
<1> QED BY <1>1, <1>2, <1>3, <1>4, Parts DEF Shape

(* What the agent may do in a step: answer a request, look after its app,   *)
(* end, come up, or be removed.                                             *)
Requests == (\E s \in SUBSET Secrets : AskUnlock(s)) \/ AskLock \/ AskStart \/ AskStop \/ AskRestart
IsRemoved ==
  agent' = "gone" /\ Ends /\ ((kept' = FALSE /\ off' = TRUE) \/ UNCHANGED <<kept, off>>)
AgentMoves ==
  Requests \/ Tick \/ UnitStep \/ ComesUp \/ IsRemoved \/ UNCHANGED supervisor

(* Every step is one of these for the agent.                                *)
LEMMA StepAgent ==
  ASSUME Shape, [Next]_vars
  PROVE  AgentMoves
<1> USE SupervisorAssumption
    DEF AgentMoves, Requests, IsRemoved
<1>1. ASSUME NEW c \in Clients, Deploy(c) PROVE AgentMoves
  BY <1>1 DEF Deploy
<1>2. ASSUME NEW c \in Clients, Rollback(c) PROVE AgentMoves
  BY <1>2 DEF Rollback
<1>3. ASSUME NEW c \in Clients, Remove(c) PROVE AgentMoves
  BY <1>3 DEF Remove
<1>4. ASSUME NEW c \in Clients, Install(c) PROVE AgentMoves
  BY <1>4 DEF Install
<1>5. ASSUME NEW c \in Clients, Activate(c) PROVE AgentMoves
  BY <1>5 DEF Activate, Found
<1>6. ASSUME NEW c \in Clients, GoBack(c) PROVE AgentMoves
  BY <1>6 DEF GoBack, Found
<1>7. ASSUME NEW c \in Clients, UnlockFor(c) PROVE AgentMoves
  <2>1. job[c].id \in Releases
    BY <1>7 DEF UnlockFor, Shape, Carries, HasRelease
  <2>2. Needs[job[c].id] \in SUBSET Secrets
    BY <2>1
  <2> QED BY <1>7, <2>2 DEF UnlockFor
<1>8. ASSUME NEW c \in Clients, Leave(c) PROVE AgentMoves
  BY <1>8 DEF Leave
<1>9. ASSUME NEW c \in Clients, NEW p \in {"install", "activate", "rollback"}, Refused(c, p)
      PROVE  AgentMoves
  BY <1>9 DEF Refused
<1>10. ASSUME NEW c \in Clients, Verify(c) PROVE AgentMoves
  BY <1>10 DEF Verify
<1>11. ASSUME NEW c \in Clients, Point(c) PROVE AgentMoves
  BY <1>11 DEF Point
<1>12. ASSUME NEW c \in Clients, LinkPrevious(c) PROVE AgentMoves
  BY <1>12 DEF LinkPrevious
<1>13. ASSUME NEW c \in Clients, RestartNew(c) PROVE AgentMoves
  BY <1>13 DEF RestartNew
<1>14. ASSUME NEW c \in Clients, Watch(c) PROVE AgentMoves
  BY <1>14 DEF Watch, Healthy
<1>15. ASSUME NEW c \in Clients, Halt(c) PROVE AgentMoves
  BY <1>15 DEF Halt
<1>16. ASSUME NEW c \in Clients, PointBack(c) PROVE AgentMoves
  BY <1>16 DEF PointBack
<1>17. ASSUME NEW c \in Clients, LinkBack(c) PROVE AgentMoves
  BY <1>17 DEF LinkBack
<1>18. ASSUME NEW c \in Clients, RestartBack(c) PROVE AgentMoves
  BY <1>18 DEF RestartBack
<1>19. ASSUME NEW c \in Clients, WatchBack(c) PROVE AgentMoves
  BY <1>19 DEF WatchBack
<1>20. ASSUME NEW c \in Clients, Prune(c) PROVE AgentMoves
  BY <1>20 DEF Prune, Excess, OnDisk
<1>21. ASSUME NEW c \in Clients, RemoveDirectory(c) PROVE AgentMoves
  BY <1>21 DEF RemoveDirectory, Removed
<1>26. ASSUME NEW c \in Clients, RemovePart(c) PROVE AgentMoves
  BY <1>26 DEF RemovePart, Removed, OnDisk
<1>22. ASSUME NEW c \in Clients, Cut(c) PROVE AgentMoves
  BY <1>22 DEF Cut
<1>23. CASE Ask
  BY <1>23 DEF Ask
<1>24. CASE AgentStep
  BY <1>24 DEF AgentStep
<1>25. CASE UNCHANGED vars
  BY <1>25 DEF vars
<1> QED
  BY <1>1, <1>2, <1>3, <1>4, <1>5, <1>6, <1>7, <1>8, <1>9, <1>10, <1>11, <1>12, <1>13,
     <1>14, <1>15, <1>16, <1>17, <1>18, <1>19, <1>20, <1>21, <1>22, <1>23, <1>24, <1>25,
     <1>26
     DEF Next, Begin, VerbStep

(* An app that is started runs the current release.                         *)
LEMMA StartedApp ==
  ASSUME AgentTyped, LinksTyped, StartApp
  PROVE  app' \in Running \cup {None}
<1>1. \A r \in Releases : [rel |-> r, healthy |-> FALSE] \in Running
  BY DEF Running
<1> QED BY <1>1 DEF StartApp, CanStart, LinksTyped, Link

(* None of them changes what the agent's state looks like.                  *)
LEMMA AgentKeepsShape ==
  ASSUME AgentTyped, LinksTyped, AgentMoves
  PROVE  AgentTyped'
<1> USE DEF AgentTyped
<1>1. ASSUME NEW s \in SUBSET Secrets, AskUnlock(s) PROVE AgentTyped'
  BY <1>1 DEF AskUnlock
<1>2. CASE AskLock
  BY <1>2 DEF AskLock, Want
<1>3. CASE AskStart
  <2>1. app' \in Running \cup {None}
    BY <1>3, StartedApp DEF AskStart
  <2> QED BY <1>3, <2>1 DEF AskStart, Want
<1>4. CASE AskStop
  BY <1>4 DEF AskStop, Want
<1>5. CASE AskRestart
  <2>1. app' \in Running \cup {None}
    BY <1>5, StartedApp DEF AskRestart
  <2> QED BY <1>5, <2>1 DEF AskRestart, Want
<1>6. CASE Tick
  <2>1. CASE AppEnds
    BY <2>1 DEF AppEnds
  <2>2. CASE Probe
    BY <2>2 DEF Probe, Running
  <2>3. CASE PauseOver
    BY <2>3 DEF PauseOver
  <2>4. CASE StartDue
    <3>1. app' \in Running \cup {None} /\ paused' \in BOOLEAN
      BY <2>4, StartedApp DEF StartDue
    <3> QED BY <2>4, <3>1 DEF StartDue
  <2> QED BY <1>6, <2>1, <2>2, <2>3, <2>4 DEF Tick
<1>7. CASE UnitStep \/ IsRemoved \/ ComesUp
  BY <1>7 DEF UnitStep, IsRemoved, AgentDies, AgentComesBack, ComesUp, Ends
<1>8. CASE UNCHANGED supervisor
  BY <1>8 DEF supervisor, process
<1> QED
  BY <1>1, <1>2, <1>3, <1>4, <1>5, <1>6, <1>7, <1>8 DEF AgentMoves, Requests

(* Nor does a step change what links and clients look like.                 *)
LEMMA LinksKeepShape ==
  ASSUME Shape, [Next]_vars
  PROVE  LinksTyped'
<1> USE Parts, SupervisorAssumption
    DEF Shape, Carries, HasRelease, LinksTyped, Link, links, history, GoesAstray
<1>1. ASSUME NEW c \in Clients, Deploy(c) PROVE LinksTyped'
  BY <1>1 DEF Deploy
<1>2. ASSUME NEW c \in Clients, Rollback(c) PROVE LinksTyped'
  BY <1>2 DEF Rollback
<1>3. ASSUME NEW c \in Clients, Remove(c) PROVE LinksTyped'
  BY <1>3 DEF Remove
<1>4. ASSUME NEW c \in Clients, Install(c) PROVE LinksTyped'
  BY <1>4 DEF Install
<1>5. ASSUME NEW c \in Clients, Activate(c) PROVE LinksTyped'
  BY <1>5 DEF Activate, Found
<1>6. ASSUME NEW c \in Clients, GoBack(c) PROVE LinksTyped'
  BY <1>6 DEF GoBack, Found
<1>7. ASSUME NEW c \in Clients, UnlockFor(c) PROVE LinksTyped'
  BY <1>7 DEF UnlockFor
<1>8. ASSUME NEW c \in Clients, Leave(c) PROVE LinksTyped'
  BY <1>8 DEF Leave
<1>9. ASSUME NEW c \in Clients, NEW p \in {"install", "activate", "rollback"}, Refused(c, p)
      PROVE  LinksTyped'
  BY <1>9 DEF Refused
<1>10. ASSUME NEW c \in Clients, Verify(c) PROVE LinksTyped'
  BY <1>10 DEF Verify
<1>11. ASSUME NEW c \in Clients, Point(c) PROVE LinksTyped'
  BY <1>11, JobFields DEF Point
<1>12. ASSUME NEW c \in Clients, LinkPrevious(c) PROVE LinksTyped'
  BY <1>12, JobFields DEF LinkPrevious
<1>13. ASSUME NEW c \in Clients, RestartNew(c) PROVE LinksTyped'
  BY <1>13 DEF RestartNew
<1>14. ASSUME NEW c \in Clients, Watch(c) PROVE LinksTyped'
  <2>1. Healthy(c) => job[c].id \in Releases
    BY JobFields, app # None => app.rel \in Releases DEF Healthy, AgentTyped, Running
  <2> QED BY <1>14, <2>1 DEF Watch
<1>15. ASSUME NEW c \in Clients, Halt(c) PROVE LinksTyped'
  BY <1>15 DEF Halt
<1>16. ASSUME NEW c \in Clients, PointBack(c) PROVE LinksTyped'
  BY <1>16, JobFields DEF PointBack
<1>17. ASSUME NEW c \in Clients, LinkBack(c) PROVE LinksTyped'
  BY <1>17, JobFields DEF LinkBack
<1>18. ASSUME NEW c \in Clients, RestartBack(c) PROVE LinksTyped'
  BY <1>18 DEF RestartBack
<1>19. ASSUME NEW c \in Clients, WatchBack(c) PROVE LinksTyped'
  BY <1>19 DEF WatchBack
<1>20. ASSUME NEW c \in Clients, Prune(c) PROVE LinksTyped'
  BY <1>20 DEF Prune, Excess, OnDisk
<1>21. ASSUME NEW c \in Clients, RemoveDirectory(c) PROVE LinksTyped'
  BY <1>21 DEF RemoveDirectory, Removed
<1>26. ASSUME NEW c \in Clients, RemovePart(c) PROVE LinksTyped'
  BY <1>26 DEF RemovePart, Removed, OnDisk
<1>22. ASSUME NEW c \in Clients, Cut(c) PROVE LinksTyped'
  BY <1>22 DEF Cut
<1>23. CASE Ask
  BY <1>23 DEF Ask
<1>24. CASE AgentStep
  BY <1>24 DEF AgentStep
<1>25. CASE UNCHANGED vars
  BY <1>25 DEF vars
<1> QED
  BY <1>1, <1>2, <1>3, <1>4, <1>5, <1>6, <1>7, <1>8, <1>9, <1>10, <1>11, <1>12, <1>13,
     <1>14, <1>15, <1>16, <1>17, <1>18, <1>19, <1>20, <1>21, <1>22, <1>23, <1>24, <1>25,
     <1>26
     DEF Next, Begin, VerbStep

LEMMA ClientsKeepShape ==
  ASSUME Shape, [Next]_vars
  PROVE  ClientsTyped' /\ Carries'
<1> DEFINE G == ClientsTyped' /\ Carries'
<1> USE Parts, SupervisorAssumption, ReleasesAssumption
    DEF Shape, Carries, HasRelease, ClientsTyped, LinksTyped, Link, Places, Job, NoJob, clients, Goto, On,
        Answer, GoesAstray
<1>1. ASSUME NEW c \in Clients, Deploy(c) PROVE G
  <2>1. PICK r \in Releases : job' = [job EXCEPT ![c].verb = "deploy", ![c].id = r]
    BY <1>1 DEF Deploy
  <2>2. job' \in [Clients -> Job] /\ job'[c].id = r /\ \A d \in Clients \ {c} : job'[d] = job[d]
    BY <2>1, NewJob
  <2> QED BY <1>1, <2>2 DEF Deploy
<1>2. ASSUME NEW c \in Clients, Rollback(c) PROVE G
  <2>1. PICK r \in Link : job' = [job EXCEPT ![c].verb = "rollback", ![c].id = r]
    BY <1>2 DEF Rollback
  <2>2. job' \in [Clients -> Job] /\ \A d \in Clients \ {c} : job'[d] = job[d]
    BY <2>1, NewJob
  <2> QED BY <1>2, <2>2 DEF Rollback
<1>3. ASSUME NEW c \in Clients, Remove(c) PROVE G
  BY <1>3 DEF Remove
<1>4. ASSUME NEW c \in Clients, Install(c) PROVE G
  BY <1>4 DEF Install
<1>5. ASSUME NEW c \in Clients, Activate(c) PROVE G
  <2>1. CASE lock' = c
    <3>1. job[c].id \in Releases
      BY <1>5 DEF Activate
    <3> QED BY <1>5, <2>1, <3>1, JobFields DEF Activate, Found
  <2> QED BY <1>5, <2>1 DEF Activate
<1>6. ASSUME NEW c \in Clients, GoBack(c) PROVE G
  <2>1. CASE Answer(c)
    BY <2>1
  <2>2. ASSUME NEW id \in Releases, lock' = c, Found(c, id), Goto(c, "point") PROVE G
    <3>1. job' \in [Clients -> Job] /\ job'[c].id = id /\ \A d \in Clients \ {c} : job'[d] = job[d]
      <4>1. job' = [job EXCEPT ![c] = [job[c] EXCEPT !.id = id, !.before = current,
                                                    !.beforePrevious = previous]]
        BY <2>2 DEF Found
      <4>2. job[c] \in Job /\ current \in Link /\ previous \in Link
        OBVIOUS
      <4>3. [job[c] EXCEPT !.id = id, !.before = current, !.beforePrevious = previous] \in Job
        BY <4>2
      <4> QED BY <4>1, <4>2, <4>3
    <3> QED BY <2>2, <3>1
  <2>3. \/ Answer(c)
        \/ \E id \in Releases : lock' = c /\ Found(c, id) /\ Goto(c, "point")
    <3>1. job[c].id \in Link /\ previous \in Link
      BY JobFields
    <3> QED BY <1>6, <3>1 DEF GoBack
  <2> QED BY <2>1, <2>2, <2>3
<1>7. ASSUME NEW c \in Clients, UnlockFor(c) PROVE G
  BY <1>7, SMTT(30) DEF UnlockFor
<1>8. ASSUME NEW c \in Clients, Leave(c) PROVE G
  BY <1>8 DEF Leave
<1>9. ASSUME NEW c \in Clients, NEW p \in {"install", "activate", "rollback"}, Refused(c, p)
      PROVE  G
  BY <1>9 DEF Refused
<1>10. ASSUME NEW c \in Clients, Verify(c) PROVE G
  BY <1>10 DEF Verify
<1>11. ASSUME NEW c \in Clients, Point(c) PROVE G
  BY <1>11 DEF Point
<1>12. ASSUME NEW c \in Clients, LinkPrevious(c) PROVE G
  BY <1>12 DEF LinkPrevious
<1>13. ASSUME NEW c \in Clients, RestartNew(c) PROVE G
  BY <1>13, SMTT(30) DEF RestartNew
<1>14. ASSUME NEW c \in Clients, Watch(c) PROVE G
  BY <1>14 DEF Watch, Healthy
<1>15. ASSUME NEW c \in Clients, Halt(c) PROVE G
  BY <1>15 DEF Halt
<1>16. ASSUME NEW c \in Clients, PointBack(c) PROVE G
  BY <1>16 DEF PointBack
<1>17. ASSUME NEW c \in Clients, LinkBack(c) PROVE G
  BY <1>17, SMTT(30) DEF LinkBack
<1>18. ASSUME NEW c \in Clients, RestartBack(c) PROVE G
  BY <1>18, SMTT(30) DEF RestartBack
<1>19. ASSUME NEW c \in Clients, WatchBack(c) PROVE G
  BY <1>19 DEF WatchBack
<1>20. ASSUME NEW c \in Clients, Prune(c) PROVE G
  BY <1>20 DEF Prune, Excess, OnDisk
<1>21. ASSUME NEW c \in Clients, RemoveDirectory(c) PROVE G
  BY <1>21 DEF RemoveDirectory, Removed
<1>26. ASSUME NEW c \in Clients, RemovePart(c) PROVE G
  BY <1>26 DEF RemovePart, Removed, OnDisk
<1>22. ASSUME NEW c \in Clients, Cut(c) PROVE G
  BY <1>22 DEF Cut
<1>23. CASE Ask
  BY <1>23 DEF Ask
<1>24. CASE AgentStep
  BY <1>24 DEF AgentStep
<1>25. CASE UNCHANGED vars
  BY <1>25 DEF vars
<1> QED
  BY <1>1, <1>2, <1>3, <1>4, <1>5, <1>6, <1>7, <1>8, <1>9, <1>10, <1>11, <1>12, <1>13,
     <1>14, <1>15, <1>16, <1>17, <1>18, <1>19, <1>20, <1>21, <1>22, <1>23, <1>24, <1>25,
     <1>26
     DEF Next, Begin, VerbStep

(* Every step keeps the shape.                                              *)
LEMMA StepShape ==
  ASSUME Shape, [Next]_vars
  PROVE  Shape'
<1>1. AgentTyped'
  BY StepAgent, AgentKeepsShape, Parts DEF Shape
<1>2. LinksTyped' /\ ClientsTyped' /\ Carries'
  BY LinksKeepShape, ClientsKeepShape
<1>3. TypeOK'
  BY <1>1, <1>2, Parts DEF AgentTyped, LinksTyped, ClientsTyped, TypeOK, SupervisorTyped, Link
<1> QED BY <1>2, <1>3 DEF Shape

(* Links, agent and clients keep their shape.                               *)
THEOREM ReleasesTyped == Spec => []TypeOK
<1>1. Shape => TypeOK
  BY DEF Shape
<1>2. Shape /\ [Next]_vars => Shape'
  BY StepShape
<1> QED BY InitShape, <1>1, <1>2, PTL DEF Spec

-----------------------------------------------------------------------------
(* Who has the lock.                                                        *)

(* Whoever is between taking .lock and its answer has it.                   *)
Holding == \A c \in Clients : pc[c] \in InVerb <=> lock = c

(* A worker is removed by a client that is the only one, and its agent is   *)
(* gone by then.                                                            *)
RemovesAlone ==
  \A c \in Clients :
    /\ pc[c] = "remove" <=> job[c].verb = "remove"
    /\ pc[c] = "remove" => agent = "gone" /\ \A d \in Clients \ {c} : pc[d] = "idle"

Apart == Holding /\ RemovesAlone

(* It holds of a server without the worker.                                 *)
LEMMA InitApart == Init => Apart
BY ReleasesAssumption DEF Init, InitSupervisor, Apart, Holding, RemovesAlone, InVerb, NoJob

(* Every step keeps it, when a worker is not removed under another verb.    *)
LEMMA StepApart ==
  ASSUME Races = {}, Shape, Apart, [Next]_vars
  PROVE  Apart'
<1> USE SupervisorAssumption, ReleasesAssumption
    DEF Shape, TypeOK, SupervisorTyped, Apart, Holding, RemovesAlone, InVerb, Places, Job,
        NoJob, Link, links, supervisor, process, clients, history, Goto, On, Answer,
        GoesAstray, Idle, NobodyRemoves
<1>1. ASSUME NEW c \in Clients, Deploy(c) PROVE Apart'
  BY <1>1 DEF Deploy
<1>2. ASSUME NEW c \in Clients, Rollback(c) PROVE Apart'
  BY <1>2 DEF Rollback
<1>3. ASSUME NEW c \in Clients, Remove(c) PROVE Apart'
  BY <1>3 DEF Remove
<1>4. ASSUME NEW c \in Clients, Install(c) PROVE Apart'
  BY <1>4 DEF Install
<1>5. ASSUME NEW c \in Clients, Activate(c) PROVE Apart'
  BY <1>5 DEF Activate, Found
<1>6. ASSUME NEW c \in Clients, GoBack(c) PROVE Apart'
  BY <1>6 DEF GoBack, Found
<1>7. ASSUME NEW c \in Clients, UnlockFor(c) PROVE Apart'
  BY <1>7 DEF UnlockFor
<1>8. ASSUME NEW c \in Clients, Leave(c) PROVE Apart'
  BY <1>8 DEF Leave
<1>9. ASSUME NEW c \in Clients, NEW p \in {"install", "activate", "rollback"}, Refused(c, p)
      PROVE  Apart'
  BY <1>9 DEF Refused
<1>10. ASSUME NEW c \in Clients, Verify(c) PROVE Apart'
  BY <1>10 DEF Verify
<1>11. ASSUME NEW c \in Clients, Point(c) PROVE Apart'
  BY <1>11 DEF Point
<1>12. ASSUME NEW c \in Clients, LinkPrevious(c) PROVE Apart'
  BY <1>12, SMTT(30) DEF LinkPrevious
<1>13. ASSUME NEW c \in Clients, RestartNew(c) PROVE Apart'
  <2>1. agent = "up" => agent' = "up"
    BY <1>13 DEF RestartNew, AskRestart
  <2>2. /\ pc[c] = "restart" /\ job[c].verb # "remove" /\ \A d \in Clients \ {c} : pc[d] # "remove"
        /\ \/ On(c, "watch")
           \/ Answer(c)
    BY <1>13 DEF RestartNew
  <2> QED BY <2>1, <2>2
<1>14. ASSUME NEW c \in Clients, Watch(c) PROVE Apart'
  BY <1>14 DEF Watch, Healthy
<1>15. ASSUME NEW c \in Clients, Halt(c) PROVE Apart'
  BY <1>15 DEF Halt
<1>16. ASSUME NEW c \in Clients, PointBack(c) PROVE Apart'
  BY <1>16, SMTT(30) DEF PointBack
<1>17. ASSUME NEW c \in Clients, LinkBack(c) PROVE Apart'
  BY <1>17 DEF LinkBack
<1>18. ASSUME NEW c \in Clients, RestartBack(c) PROVE Apart'
  BY <1>18 DEF RestartBack
<1>19. ASSUME NEW c \in Clients, WatchBack(c) PROVE Apart'
  BY <1>19 DEF WatchBack
<1>20. ASSUME NEW c \in Clients, Prune(c) PROVE Apart'
  BY <1>20 DEF Prune, Excess, OnDisk
<1>21. ASSUME NEW c \in Clients, RemoveDirectory(c) PROVE Apart'
  BY <1>21 DEF RemoveDirectory, Removed
<1>26. ASSUME NEW c \in Clients, RemovePart(c) PROVE Apart'
  BY <1>26 DEF RemovePart, Removed, OnDisk
<1>22. ASSUME NEW c \in Clients, Cut(c) PROVE Apart'
  BY <1>22 DEF Cut
<1>23. CASE Ask
  BY <1>23 DEF Ask, AskUnlock, AskLock, AskStart, AskStop, AskRestart
<1>24. CASE AgentStep
  BY <1>24 DEF AgentStep, Tick, UnitStep, AppEnds, Probe, PauseOver, StartDue, AgentDies,
     AgentComesBack, ComesUp
<1>25. CASE UNCHANGED vars
  BY <1>25 DEF vars
<1> QED
  BY <1>1, <1>2, <1>3, <1>4, <1>5, <1>6, <1>7, <1>8, <1>9, <1>10, <1>11, <1>12, <1>13,
     <1>14, <1>15, <1>16, <1>17, <1>18, <1>19, <1>20, <1>21, <1>22, <1>23, <1>24, <1>25,
     <1>26
     DEF Next, Begin, VerbStep

-----------------------------------------------------------------------------
(* What is on disk.                                                         *)

(* A verb that moves the links goes between releases that are on disk; until *)
(* it goes back, `current` is the one it is for.                             *)
Moves == {"point", "link", "restart", "watch", "halt", "back", "backLink"}
MovesOnDisk ==
  \A c \in Clients :
    /\ pc[c] \in Moves =>
         \A r \in {job[c].id, job[c].before, job[c].beforePrevious} \ {None} :
           disk[r] = "whole" \/ r \in damaged
    /\ pc[c] \in {"link", "restart", "watch", "prune"} => current = job[c].id

(* An app runs while its agent does, and when releases are pruned it runs    *)
(* the one that is current.                                                  *)
RunsCurrent ==
  /\ agent # "up" => app = None
  /\ \A c \in Clients : pc[c] = "prune" /\ app # None => app.rel = current

OnDiskInv == PointedIsOnDisk /\ RunsFromDisk /\ MovesOnDisk /\ RunsCurrent

(* It holds of a server without the worker.                                 *)
LEMMA InitOnDisk == Init => OnDiskInv
BY ReleasesAssumption
   DEF Init, InitSupervisor, OnDiskInv, PointedIsOnDisk, RunsFromDisk, MovesOnDisk, Moves,
       RunsCurrent

(* The verbs' steps at the disk and the links leave the agent alone.        *)
LinkStep(c) ==
  \/ Install(c) \/ Verify(c) \/ Point(c) \/ LinkPrevious(c) \/ PointBack(c) \/ LinkBack(c)
  \/ Prune(c) \/ RemoveDirectory(c) \/ RemovePart(c)
LEMMA LinksOrAgent ==
  ASSUME [Next]_vars
  PROVE  \/ UNCHANGED <<links, damaged>>
         \/ \E c \in Clients : LinkStep(c) /\ UNCHANGED supervisor
<1> DEFINE G == \/ UNCHANGED <<links, damaged>>
                \/ \E c \in Clients : LinkStep(c) /\ UNCHANGED supervisor
<1> USE DEF LinkStep, links, history, GoesAstray
<1>1. ASSUME NEW c \in Clients, Deploy(c) PROVE G
  BY <1>1 DEF Deploy
<1>2. ASSUME NEW c \in Clients, Rollback(c) PROVE G
  BY <1>2 DEF Rollback
<1>3. ASSUME NEW c \in Clients, Remove(c) PROVE G
  BY <1>3 DEF Remove
<1>4. ASSUME NEW c \in Clients, Install(c) PROVE G
  BY <1>4 DEF Install
<1>5. ASSUME NEW c \in Clients, Activate(c) PROVE G
  BY <1>5 DEF Activate, Found
<1>6. ASSUME NEW c \in Clients, GoBack(c) PROVE G
  BY <1>6 DEF GoBack, Found
<1>7. ASSUME NEW c \in Clients, UnlockFor(c) PROVE G
  BY <1>7 DEF UnlockFor
<1>8. ASSUME NEW c \in Clients, Leave(c) PROVE G
  BY <1>8 DEF Leave
<1>9. ASSUME NEW c \in Clients, NEW p \in {"install", "activate", "rollback"}, Refused(c, p)
      PROVE  G
  BY <1>9 DEF Refused
<1>10. ASSUME NEW c \in Clients, Verify(c) PROVE G
  BY <1>10 DEF Verify
<1>11. ASSUME NEW c \in Clients, Point(c) PROVE G
  BY <1>11 DEF Point
<1>12. ASSUME NEW c \in Clients, LinkPrevious(c) PROVE G
  BY <1>12 DEF LinkPrevious
<1>13. ASSUME NEW c \in Clients, RestartNew(c) PROVE G
  BY <1>13, SMTT(30) DEF RestartNew
<1>14. ASSUME NEW c \in Clients, Watch(c) PROVE G
  BY <1>14 DEF Watch, Healthy
<1>15. ASSUME NEW c \in Clients, Halt(c) PROVE G
  BY <1>15 DEF Halt
<1>16. ASSUME NEW c \in Clients, PointBack(c) PROVE G
  BY <1>16 DEF PointBack
<1>17. ASSUME NEW c \in Clients, LinkBack(c) PROVE G
  BY <1>17, SMTT(30) DEF LinkBack
<1>18. ASSUME NEW c \in Clients, RestartBack(c) PROVE G
  BY <1>18 DEF RestartBack
<1>19. ASSUME NEW c \in Clients, WatchBack(c) PROVE G
  BY <1>19 DEF WatchBack
<1>20. ASSUME NEW c \in Clients, Prune(c) PROVE G
  BY <1>20 DEF Prune, Excess, OnDisk
<1>21. ASSUME NEW c \in Clients, RemoveDirectory(c) PROVE G
  BY <1>21 DEF RemoveDirectory, Removed
<1>26. ASSUME NEW c \in Clients, RemovePart(c) PROVE G
  BY <1>26 DEF RemovePart, Removed, OnDisk
<1>22. ASSUME NEW c \in Clients, Cut(c) PROVE G
  BY <1>22 DEF Cut
<1>23. CASE Ask
  BY <1>23 DEF Ask
<1>24. CASE AgentStep
  BY <1>24 DEF AgentStep
<1>25. CASE UNCHANGED vars
  BY <1>25 DEF vars
<1> QED
  BY <1>1, <1>2, <1>3, <1>4, <1>5, <1>6, <1>7, <1>8, <1>9, <1>10, <1>11, <1>12, <1>13,
     <1>14, <1>15, <1>16, <1>17, <1>18, <1>19, <1>20, <1>21, <1>22, <1>23, <1>24, <1>25,
     <1>26
     DEF Next, Begin, VerbStep

(* An app that runs after a step ran before it, or was started from         *)
(* `current`; and none runs without its agent.                              *)
LEMMA WhatRuns ==
  ASSUME Shape, RunsCurrent, AgentMoves
  PROVE  /\ agent' # "up" => app' = None
         /\ app' # None => (app'.rel = current /\ current # None) \/ (app # None /\ app'.rel = app.rel)
<1> USE Parts DEF Shape, AgentTyped, RunsCurrent
<1>1. ASSUME NEW s \in SUBSET Secrets, AskUnlock(s)
      PROVE  agent = "up" /\ UNCHANGED <<agent, app>>
  BY <1>1 DEF AskUnlock
<1>2. CASE AskLock \/ AskStop \/ UnitStep \/ ComesUp \/ IsRemoved \/ AppEnds
  BY <1>2 DEF AskLock, AskStop, UnitStep, AgentDies, AgentComesBack, ComesUp, IsRemoved, Ends,
     AppEnds
<1>3. CASE AskStart \/ AskRestart \/ StartDue
  <2>1. StartApp /\ app' # None => app'.rel = current /\ current # None
    BY DEF StartApp, CanStart
  <2>2. agent' = "up"
    BY <1>3 DEF AskStart, AskRestart, StartDue
  <2>3. StartApp \/ (app # None /\ app' = app)
    BY <1>3 DEF AskStart, AskRestart, StartDue
  <2> QED BY <2>1, <2>2, <2>3
<1>4. CASE Probe
  BY <1>4 DEF Probe, Running
<1>5. CASE PauseOver \/ UNCHANGED supervisor
  BY <1>5 DEF PauseOver, supervisor, process
<1> QED
  BY <1>1, <1>2, <1>3, <1>4, <1>5 DEF AgentMoves, Requests, Tick

(* Every step keeps what is pointed at.                                     *)
LEMMA StepPointed ==
  ASSUME Shape, Apart, OnDiskInv, [Next]_vars
  PROVE  PointedIsOnDisk'
<1> USE Parts, SupervisorAssumption
    DEF Shape, LinksTyped, Link, Carries, HasRelease, OnDiskInv, PointedIsOnDisk, MovesOnDisk,
        Moves, history, GoesAstray
<1>1. CASE UNCHANGED <<links, damaged>>
  BY <1>1 DEF links
<1>2. ASSUME NEW c \in Clients, Install(c) PROVE PointedIsOnDisk'
  BY <1>2 DEF Install
<1>3. ASSUME NEW c \in Clients, Verify(c) PROVE PointedIsOnDisk'
  BY <1>3 DEF Verify
<1>4. ASSUME NEW c \in Clients, Point(c) PROVE PointedIsOnDisk'
  BY <1>4, JobFields DEF Point
<1>5. ASSUME NEW c \in Clients, LinkPrevious(c) PROVE PointedIsOnDisk'
  BY <1>5, JobFields DEF LinkPrevious
<1>6. ASSUME NEW c \in Clients, PointBack(c) PROVE PointedIsOnDisk'
  BY <1>6, JobFields DEF PointBack
<1>7. ASSUME NEW c \in Clients, LinkBack(c) PROVE PointedIsOnDisk'
  BY <1>7, JobFields DEF LinkBack
<1>8. ASSUME NEW c \in Clients, Prune(c) PROVE PointedIsOnDisk'
  <2>1. \A r \in Excess(c) : r \notin {current, previous}
    BY DEF Excess
  <2> QED BY <1>8, <2>1 DEF Prune
<1>9. ASSUME NEW c \in Clients, RemoveDirectory(c) PROVE PointedIsOnDisk'
  BY <1>9 DEF RemoveDirectory
<1>10. ASSUME NEW c \in Clients, RemovePart(c) PROVE PointedIsOnDisk'
  BY <1>10 DEF RemovePart, OnDisk
<1> QED
  BY LinksOrAgent, <1>1, <1>2, <1>3, <1>4, <1>5, <1>6, <1>7, <1>8, <1>9, <1>10
     DEF LinkStep

(* Every step keeps what the verbs go between.                              *)
LEMMA StepMoves ==
  ASSUME Shape, Apart, OnDiskInv, [Next]_vars
  PROVE  MovesOnDisk'
<1> USE Parts, SupervisorAssumption, ReleasesAssumption
    DEF Shape, LinksTyped, ClientsTyped, Carries, HasRelease, Apart, Holding, InVerb, OnDiskInv,
        PointedIsOnDisk, MovesOnDisk, Moves, Link, NoJob, links, clients, history, Goto, On, Answer,
        GoesAstray
<1>1. ASSUME NEW c \in Clients, Deploy(c) PROVE MovesOnDisk'
  BY <1>1 DEF Deploy
<1>2. ASSUME NEW c \in Clients, Rollback(c) PROVE MovesOnDisk'
  BY <1>2 DEF Rollback
<1>3. ASSUME NEW c \in Clients, Remove(c) PROVE MovesOnDisk'
  BY <1>3 DEF Remove
<1>4. ASSUME NEW c \in Clients, Install(c) PROVE MovesOnDisk'
  BY <1>4 DEF Install
<1>5. ASSUME NEW c \in Clients, Activate(c) PROVE MovesOnDisk'
  <2>1. CASE lock' = c
    <3>1. PICK id \in Releases : disk[id] = "whole" /\ Found(c, id) /\ pc' = [pc EXCEPT ![c] = "point"]
      BY <1>5, <2>1, JobFields DEF Activate
    <3>2. /\ job'[c].id = id /\ job'[c].before = current /\ job'[c].beforePrevious = previous
          /\ \A d \in Clients \ {c} : job'[d] = job[d]
      BY <3>1 DEF Found, Job
    <3> QED BY <1>5, <3>1, <3>2 DEF Activate
  <2>2. CASE lock' # c
    BY <1>5, <2>2 DEF Activate
  <2> QED BY <2>1, <2>2
<1>6. ASSUME NEW c \in Clients, GoBack(c) PROVE MovesOnDisk'
  <2>1. CASE lock' = c
    <3>1. PICK id \in Releases : disk[id] = "whole" /\ Found(c, id) /\ pc' = [pc EXCEPT ![c] = "point"]
      BY <1>6, <2>1, JobFields DEF GoBack
    <3>2. /\ job'[c].id = id /\ job'[c].before = current /\ job'[c].beforePrevious = previous
          /\ \A d \in Clients \ {c} : job'[d] = job[d]
      BY <3>1 DEF Found, Job
    <3> QED BY <1>6, <3>1, <3>2 DEF GoBack
  <2>2. CASE lock' # c
    BY <1>6, <2>2 DEF GoBack
  <2> QED BY <2>1, <2>2
<1>7. ASSUME NEW c \in Clients, UnlockFor(c) PROVE MovesOnDisk'
  BY <1>7 DEF UnlockFor
<1>8. ASSUME NEW c \in Clients, Leave(c) PROVE MovesOnDisk'
  BY <1>8 DEF Leave
<1>9. ASSUME NEW c \in Clients, NEW p \in {"install", "activate", "rollback"}, Refused(c, p)
      PROVE  MovesOnDisk'
  BY <1>9 DEF Refused
<1>10. ASSUME NEW c \in Clients, Verify(c) PROVE MovesOnDisk'
  BY <1>10 DEF Verify
<1>11. ASSUME NEW c \in Clients, Point(c) PROVE MovesOnDisk'
  BY <1>11 DEF Point
<1>12. ASSUME NEW c \in Clients, LinkPrevious(c) PROVE MovesOnDisk'
  BY <1>12 DEF LinkPrevious
<1>13. ASSUME NEW c \in Clients, RestartNew(c) PROVE MovesOnDisk'
  BY <1>13 DEF RestartNew
<1>14. ASSUME NEW c \in Clients, Watch(c) PROVE MovesOnDisk'
  BY <1>14 DEF Watch, Healthy
<1>15. ASSUME NEW c \in Clients, Halt(c) PROVE MovesOnDisk'
  BY <1>15 DEF Halt
<1>16. ASSUME NEW c \in Clients, PointBack(c) PROVE MovesOnDisk'
  BY <1>16 DEF PointBack
<1>17. ASSUME NEW c \in Clients, LinkBack(c) PROVE MovesOnDisk'
  BY <1>17 DEF LinkBack
<1>18. ASSUME NEW c \in Clients, RestartBack(c) PROVE MovesOnDisk'
  BY <1>18 DEF RestartBack
<1>19. ASSUME NEW c \in Clients, WatchBack(c) PROVE MovesOnDisk'
  BY <1>19 DEF WatchBack
<1>20. ASSUME NEW c \in Clients, Prune(c) PROVE MovesOnDisk'
  BY <1>20 DEF Prune, Excess, OnDisk
<1>21. ASSUME NEW c \in Clients, RemoveDirectory(c) PROVE MovesOnDisk'
  BY <1>21 DEF RemoveDirectory, Removed, RemovesAlone
<1>26. ASSUME NEW c \in Clients, RemovePart(c) PROVE MovesOnDisk'
  BY <1>26 DEF RemovePart, Removed, OnDisk, RemovesAlone
<1>22. ASSUME NEW c \in Clients, Cut(c) PROVE MovesOnDisk'
  BY <1>22 DEF Cut
<1>23. CASE Ask
  BY <1>23 DEF Ask
<1>24. CASE AgentStep
  BY <1>24 DEF AgentStep
<1>25. CASE UNCHANGED vars
  BY <1>25 DEF vars
<1> QED
  BY <1>1, <1>2, <1>3, <1>4, <1>5, <1>6, <1>7, <1>8, <1>9, <1>10, <1>11, <1>12, <1>13,
     <1>14, <1>15, <1>16, <1>17, <1>18, <1>19, <1>20, <1>21, <1>22, <1>23, <1>24, <1>25,
     <1>26
     DEF Next, Begin, VerbStep

(* Releases are pruned by a verb that has just seen `current` healthy, and   *)
(* nothing moves `current` meanwhile.                                       *)
LEMMA PruneFollowsWatch ==
  ASSUME Shape, Apart, [Next]_vars, NEW e \in Clients, pc'[e] = "prune"
  PROVE  /\ current' = current
         /\ pc[e] = "prune" \/ (pc[e] = "watch" /\ app' = app /\ app.rel = job[e].id)
<1> DEFINE G == /\ current' = current
                /\ pc[e] = "prune" \/ (pc[e] = "watch" /\ app' = app /\ app.rel = job[e].id)
<1> USE Parts DEF Shape, ClientsTyped, Apart, Holding, RemovesAlone, InVerb, links, clients, Goto, On,
        Answer, GoesAstray
<1>1. ASSUME NEW c \in Clients, Deploy(c) PROVE G
  BY <1>1 DEF Deploy
<1>2. ASSUME NEW c \in Clients, Rollback(c) PROVE G
  BY <1>2 DEF Rollback
<1>3. ASSUME NEW c \in Clients, Remove(c) PROVE G
  BY <1>3 DEF Remove
<1>4. ASSUME NEW c \in Clients, Install(c) PROVE G
  BY <1>4 DEF Install
<1>5. ASSUME NEW c \in Clients, Activate(c) PROVE G
  BY <1>5 DEF Activate, Found
<1>6. ASSUME NEW c \in Clients, GoBack(c) PROVE G
  BY <1>6 DEF GoBack, Found
<1>7. ASSUME NEW c \in Clients, UnlockFor(c) PROVE G
  BY <1>7 DEF UnlockFor
<1>8. ASSUME NEW c \in Clients, Leave(c) PROVE G
  BY <1>8 DEF Leave
<1>9. ASSUME NEW c \in Clients, NEW p \in {"install", "activate", "rollback"}, Refused(c, p)
      PROVE  G
  BY <1>9 DEF Refused
<1>10. ASSUME NEW c \in Clients, Verify(c) PROVE G
  BY <1>10 DEF Verify
<1>11. ASSUME NEW c \in Clients, Point(c) PROVE G
  BY <1>11 DEF Point
<1>12. ASSUME NEW c \in Clients, LinkPrevious(c) PROVE G
  BY <1>12 DEF LinkPrevious
<1>13. ASSUME NEW c \in Clients, RestartNew(c) PROVE G
  BY <1>13, SMTT(30) DEF RestartNew
<1>14. ASSUME NEW c \in Clients, Watch(c) PROVE G
  BY <1>14 DEF Watch, Healthy, supervisor, process
<1>15. ASSUME NEW c \in Clients, Halt(c) PROVE G
  BY <1>15 DEF Halt
<1>16. ASSUME NEW c \in Clients, PointBack(c) PROVE G
  BY <1>16 DEF PointBack
<1>17. ASSUME NEW c \in Clients, LinkBack(c) PROVE G
  BY <1>17, SMTT(30) DEF LinkBack
<1>18. ASSUME NEW c \in Clients, RestartBack(c) PROVE G
  BY <1>18 DEF RestartBack
<1>19. ASSUME NEW c \in Clients, WatchBack(c) PROVE G
  BY <1>19 DEF WatchBack
<1>20. ASSUME NEW c \in Clients, Prune(c) PROVE G
  BY <1>20 DEF Prune, Excess, OnDisk
<1>21. ASSUME NEW c \in Clients, RemoveDirectory(c) PROVE G
  BY <1>21 DEF RemoveDirectory, Removed
<1>26. ASSUME NEW c \in Clients, RemovePart(c) PROVE G
  BY <1>26 DEF RemovePart, Removed, OnDisk
<1>22. ASSUME NEW c \in Clients, Cut(c) PROVE G
  BY <1>22 DEF Cut
<1>23. CASE Ask
  BY <1>23 DEF Ask
<1>24. CASE AgentStep
  BY <1>24 DEF AgentStep
<1>25. CASE UNCHANGED vars
  BY <1>25 DEF vars
<1> QED
  BY <1>1, <1>2, <1>3, <1>4, <1>5, <1>6, <1>7, <1>8, <1>9, <1>10, <1>11, <1>12, <1>13,
     <1>14, <1>15, <1>16, <1>17, <1>18, <1>19, <1>20, <1>21, <1>22, <1>23, <1>24, <1>25,
     <1>26
     DEF Next, Begin, VerbStep

(* Every step keeps where the app runs from.                                *)
LEMMA StepRuns ==
  ASSUME Shape, Apart, OnDiskInv, [Next]_vars
  PROVE  RunsFromDisk' /\ RunsCurrent'
<1> USE Parts, SupervisorAssumption DEF Shape, OnDiskInv
<1>1. /\ agent' # "up" => app' = None
      /\ app' # None => (app'.rel = current /\ current # None) \/ (app # None /\ app'.rel = app.rel)
  BY StepAgent, WhatRuns
<1>2. RunsFromDisk'
  <2> USE DEF RunsFromDisk, PointedIsOnDisk, LinksTyped, AgentTyped, Running, history, GoesAstray
  <2>1. CASE UNCHANGED <<links, damaged>>
    BY <1>1, <2>1 DEF links, Link
  <2>2. ASSUME NEW c \in Clients, LinkStep(c), UNCHANGED supervisor PROVE RunsFromDisk'
    <3>1. app' = app
      BY <2>2 DEF supervisor, process
    <3>2. CASE Install(c)
      BY <3>1, <3>2 DEF Install
    <3>3. CASE Verify(c)
      BY <3>1, <3>3 DEF Verify
    <3>4. CASE Point(c) \/ LinkPrevious(c) \/ PointBack(c) \/ LinkBack(c)
      BY <3>1, <3>4 DEF Point, LinkPrevious, PointBack, LinkBack
    <3>5. CASE Prune(c)
      <4>1. \A r \in Excess(c) : r # current
        BY DEF Excess
      <4> QED BY <3>1, <3>5, <4>1 DEF Prune, RunsCurrent
    <3>6. CASE RemoveDirectory(c)
      BY <3>1, <3>6 DEF RemoveDirectory, Apart, RemovesAlone, RunsCurrent
    <3>7. CASE RemovePart(c)
      BY <3>1, <3>7 DEF RemovePart, Apart, RemovesAlone, RunsCurrent
    <3> QED BY <2>2, <3>2, <3>3, <3>4, <3>5, <3>6, <3>7 DEF LinkStep
  <2> QED BY LinksOrAgent, <2>1, <2>2
<1>3. ASSUME NEW c \in Clients, pc'[c] = "prune", app' # None
      PROVE  app'.rel = current'
  <2>1. CASE pc[c] = "prune"
    BY <1>1, <1>3, <2>1, PruneFollowsWatch DEF RunsCurrent
  <2>2. CASE pc[c] = "watch" /\ app' = app /\ app.rel = job[c].id
    BY <1>3, <2>2, PruneFollowsWatch DEF MovesOnDisk
  <2> QED BY <1>3, <2>1, <2>2, PruneFollowsWatch
<1> QED BY <1>1, <1>2, <1>3 DEF RunsCurrent

(* Every step keeps all of it.                                              *)
LEMMA StepOnDisk ==
  ASSUME Shape, Apart, OnDiskInv, [Next]_vars
  PROVE  OnDiskInv'
BY StepPointed, StepMoves, StepRuns DEF OnDiskInv

-----------------------------------------------------------------------------
(* What was shown healthy.                                                  *)

(* Where `current` may be at a release that was not: a verb is there, and    *)
(* goes back to one that was.                                                *)
OnTrial == {"link", "restart", "watch", "back"}
GoesBackToTrusted ==
  trusted # {} /\ ~astray =>
    /\ \A c \in Clients : pc[c] \in OnTrial => job[c].before \in trusted
    /\ \A c \in Clients : pc[c] # "halt"
    /\ (\A c \in Clients : pc[c] \notin OnTrial) => current \in trusted
FoundCurrent == \A c \in Clients : pc[c] = "point" => job[c].before = current

TrustInv == GoesBackToTrusted /\ FoundCurrent

(* It holds of a server without the worker.                                 *)
LEMMA InitTrust == Init => TrustInv
BY DEF Init, TrustInv, GoesBackToTrusted, FoundCurrent

(* Every step keeps it.                                                     *)
LEMMA StepTrust ==
  ASSUME Shape, Apart, OnDiskInv, TrustInv, [Next]_vars
  PROVE  TrustInv'
<1> USE SupervisorAssumption, ReleasesAssumption
    DEF Shape, TypeOK, SupervisorTyped, Apart, Holding, RemovesAlone, InVerb, OnDiskInv,
        MovesOnDisk, TrustInv, GoesBackToTrusted, FoundCurrent, OnTrial, Places, Job, NoJob,
        Link, links, supervisor, process, clients, history, Goto, On, Answer, GoesAstray,
        Idle
<1>1. ASSUME NEW c \in Clients, Deploy(c) PROVE TrustInv'
  BY <1>1 DEF Deploy
<1>2. ASSUME NEW c \in Clients, Rollback(c) PROVE TrustInv'
  BY <1>2 DEF Rollback
<1>3. ASSUME NEW c \in Clients, Remove(c) PROVE TrustInv'
  BY <1>3 DEF Remove
<1>4. ASSUME NEW c \in Clients, Install(c) PROVE TrustInv'
  BY <1>4 DEF Install
<1>5. ASSUME NEW c \in Clients, Activate(c) PROVE TrustInv'
  <2>1. UNCHANGED <<current, trusted, astray>> /\ pc[c] \in {"activate", "rollback"}
    BY <1>5 DEF Activate
  <2>2. \/ Answer(c)
        \/ (\E id \in Link : Found(c, id)) /\ Goto(c, "point")
    BY <1>5, JobFields, Parts DEF Activate
  <2>3. ASSUME NEW id \in Link, Found(c, id)
        PROVE  job'[c].before = current /\ \A d \in Clients \ {c} : job'[d] = job[d]
    BY <2>3 DEF Found
  <2> QED BY <2>1, <2>2, <2>3
<1>6. ASSUME NEW c \in Clients, GoBack(c) PROVE TrustInv'
  <2>1. UNCHANGED <<current, trusted, astray>> /\ pc[c] \in {"activate", "rollback"}
    BY <1>6 DEF GoBack
  <2>2. \/ Answer(c)
        \/ (\E id \in Link : Found(c, id)) /\ Goto(c, "point")
    BY <1>6, JobFields, Parts DEF GoBack
  <2>3. ASSUME NEW id \in Link, Found(c, id)
        PROVE  job'[c].before = current /\ \A d \in Clients \ {c} : job'[d] = job[d]
    BY <2>3 DEF Found
  <2> QED BY <2>1, <2>2, <2>3
<1>7. ASSUME NEW c \in Clients, UnlockFor(c) PROVE TrustInv'
  BY <1>7 DEF UnlockFor
<1>8. ASSUME NEW c \in Clients, Leave(c) PROVE TrustInv'
  BY <1>8 DEF Leave
<1>9. ASSUME NEW c \in Clients, NEW p \in {"install", "activate", "rollback"}, Refused(c, p)
      PROVE  TrustInv'
  BY <1>9 DEF Refused
<1>10. ASSUME NEW c \in Clients, Verify(c) PROVE TrustInv'
  BY <1>10 DEF Verify
<1>11. ASSUME NEW c \in Clients, Point(c) PROVE TrustInv'
  BY <1>11 DEF Point
<1>12. ASSUME NEW c \in Clients, LinkPrevious(c) PROVE TrustInv'
  BY <1>12 DEF LinkPrevious
<1>13. ASSUME NEW c \in Clients, RestartNew(c) PROVE TrustInv'
  BY <1>13 DEF RestartNew
<1>14. ASSUME NEW c \in Clients, Watch(c) PROVE TrustInv'
  <2>1. CASE Healthy(c) /\ trusted' = trusted \cup {job[c].id} /\ pc'[c] \in {"prune", "idle"}
    BY <1>14, <2>1, SMTT(30) DEF Watch
  <2>2. CASE astray' = TRUE
    <3>1. GoesBackToTrusted'
      BY <2>2
    <3>2. \A d \in Clients : pc'[d] = "point" => pc[d] = "point" /\ job'[d] = job[d]
      BY <1>14 DEF Watch
    <3>3. FoundCurrent'
      BY <1>14, <3>2 DEF Watch
    <3> QED BY <3>1, <3>3
  <2>3. CASE UNCHANGED history /\ On(c, IF job[c].before = None THEN "halt" ELSE "back")
    <3>1. trusted # {} /\ ~astray => job[c].before \in Releases
      BY <1>14 DEF Watch
    <3>2. CASE trusted # {} /\ ~astray
      <4>0. None \notin Releases
        BY SupervisorAssumption
      <4>1. job[c].before # None
        BY <3>1, <3>2, <4>0
      <4>2. pc' = [pc EXCEPT ![c] = "back"]
        BY <2>3, <4>1
      <4> QED BY <1>14, <2>3, <4>2 DEF Watch
    <3>3. CASE ~(trusted # {} /\ ~astray)
      BY <1>14, <2>3, <3>3 DEF Watch
    <3> QED BY <3>2, <3>3
  <2> QED BY <1>14, <2>1, <2>2, <2>3 DEF Watch
<1>15. ASSUME NEW c \in Clients, Halt(c) PROVE TrustInv'
  BY <1>15 DEF Halt
<1>16. ASSUME NEW c \in Clients, PointBack(c) PROVE TrustInv'
  BY <1>16 DEF PointBack
<1>17. ASSUME NEW c \in Clients, LinkBack(c) PROVE TrustInv'
  BY <1>17 DEF LinkBack
<1>18. ASSUME NEW c \in Clients, RestartBack(c) PROVE TrustInv'
  BY <1>18 DEF RestartBack
<1>19. ASSUME NEW c \in Clients, WatchBack(c) PROVE TrustInv'
  BY <1>19 DEF WatchBack
<1>20. ASSUME NEW c \in Clients, Prune(c) PROVE TrustInv'
  BY <1>20 DEF Prune, Excess, OnDisk
<1>21. ASSUME NEW c \in Clients, RemoveDirectory(c) PROVE TrustInv'
  BY <1>21 DEF RemoveDirectory, Removed
<1>26. ASSUME NEW c \in Clients, RemovePart(c) PROVE TrustInv'
  BY <1>26 DEF RemovePart, Removed, OnDisk
<1>22. ASSUME NEW c \in Clients, Cut(c) PROVE TrustInv'
  BY <1>22 DEF Cut
<1>23. CASE Ask
  BY <1>23 DEF Ask
<1>24. CASE AgentStep
  BY <1>24 DEF AgentStep
<1>25. CASE UNCHANGED vars
  BY <1>25 DEF vars
<1> QED
  BY <1>1, <1>2, <1>3, <1>4, <1>5, <1>6, <1>7, <1>8, <1>9, <1>10, <1>11, <1>12, <1>13,
     <1>14, <1>15, <1>16, <1>17, <1>18, <1>19, <1>20, <1>21, <1>22, <1>23, <1>24, <1>25,
     <1>26
     DEF Next, Begin, VerbStep

-----------------------------------------------------------------------------
(* What was stopped is not wanted, in memory or on disk.                    *)
OffInv == off => ~wanted /\ ~kept /\ app = None

(* It holds of a server without the worker.                                 *)
LEMMA InitOff == Init => OffInv
BY DEF Init, InitSupervisor, OffInv

(* What the agent does keeps it, when the file `wanted` is written.         *)
LEMMA StepOff ==
  ASSUME "state" \notin Faults, AgentTyped, OffInv, AgentMoves
  PROVE  OffInv'
<1> USE DEF AgentTyped, OffInv, May
<1>1. ASSUME NEW s \in SUBSET Secrets, AskUnlock(s) PROVE OffInv'
  BY <1>1 DEF AskUnlock
<1>2. CASE AskLock \/ AskStop
  BY <1>2 DEF AskLock, AskStop, Want
<1>3. CASE AskStart \/ AskRestart
  BY <1>3 DEF AskStart, AskRestart, Want
<1>4. CASE Tick
  BY <1>4 DEF Tick, AppEnds, Probe, PauseOver, StartDue
<1>5. CASE UnitStep \/ ComesUp \/ IsRemoved
  BY <1>5 DEF UnitStep, AgentDies, AgentComesBack, ComesUp, IsRemoved, Ends
<1>6. CASE UNCHANGED supervisor
  BY <1>6 DEF supervisor, process
<1> QED
  BY <1>1, <1>2, <1>3, <1>4, <1>5, <1>6 DEF AgentMoves, Requests

-----------------------------------------------------------------------------
(* The theorems.                                                            *)

(* When no worker is removed under another verb, what was said of the lock, *)
(* the disk and the releases holds of every reachable state.                *)
LEMMA Inductive ==
  ASSUME Races = {}
  PROVE  Spec => [](Shape /\ Apart /\ OnDiskInv /\ TrustInv)
<1>1. Init => Shape /\ Apart /\ OnDiskInv /\ TrustInv
  BY InitShape, InitApart, InitOnDisk, InitTrust
<1>2. Shape /\ Apart /\ OnDiskInv /\ TrustInv /\ [Next]_vars
        => Shape' /\ Apart' /\ OnDiskInv' /\ TrustInv'
  BY StepShape, StepApart, StepOnDisk, StepTrust
<1> QED BY <1>1, <1>2, PTL DEF Spec

(* Two verbs that change the releases are never under way at once (ctl.rs,  *)
(* "so two deploys cannot interleave").                                     *)
THEOREM VerbsDoNotInterleave ==
  ASSUME Races = {}
  PROVE  Spec => []OneVerb
<1>1. Apart => OneVerb
  BY DEF Apart, Holding, OneVerb
<1> QED BY Inductive, <1>1, PTL

(* What `current` and `previous` point at is on disk, whole, whatever is    *)
(* pruned, cut off or fails, but for what a removal that did not finish got *)
(* at (ctl.rs, point, prune and remove).                                    *)
THEOREM NeverNoRelease ==
  ASSUME Races = {}
  PROVE  Spec => []PointedIsOnDisk
<1>1. OnDiskInv => PointedIsOnDisk
  BY DEF OnDiskInv
<1> QED BY Inductive, <1>1, PTL

(* No prune takes the directory of the app that runs, and no removal that   *)
(* finishes (ctl.rs, prune and remove).                                     *)
THEOREM AppKeepsItsRelease ==
  ASSUME Races = {}
  PROVE  Spec => []RunsFromDisk
<1>1. OnDiskInv => RunsFromDisk
  BY DEF OnDiskInv
<1> QED BY Inductive, <1>1, PTL

(* An activation that ran to its end leaves `current` at a release that was *)
(* shown healthy, once there is one (ctl.rs, activate).                     *)
THEOREM UnhealthyDoesNotStay ==
  ASSUME Races = {}
  PROVE  Spec => []LeftTrusted
<1>1. Apart /\ TrustInv => LeftTrusted
  BY ReleasesAssumption
     DEF Apart, Holding, TrustInv, GoesBackToTrusted, LeftTrusted, OnTrial, InVerb
<1> QED BY Inductive, <1>1, PTL

(* What was stopped or locked stays down, through crashes of the agent and  *)
(* restarts of its unit (supervise.rs, want).                               *)
THEOREM StoppedStaysDown ==
  ASSUME "state" \notin Faults
  PROVE  Spec => []StaysStopped
<1>1. OffInv => StaysStopped
  BY DEF OffInv, StaysStopped
<1>2. Shape /\ OffInv /\ [Next]_vars => Shape' /\ OffInv'
  BY StepShape, StepAgent, StepOff, Parts DEF Shape
<1> QED BY InitShape, InitOff, <1>1, <1>2, PTL DEF Spec
=============================================================================
