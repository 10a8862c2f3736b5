--------------------------- MODULE FirewallProofs ---------------------------
(***************************************************************************)
(* What holds of module WorkerFirewall for any number of clients and       *)
(* workers and every fault.                                                *)
(***************************************************************************)
EXTENDS WorkerFirewall, TLAPS

-----------------------------------------------------------------------------
(* Shapes.                                                                  *)

(* Where a client waits for the answer of a verb it asked for, or runs it.  *)
Asking == {"called", "ask", "ready", "write", "arm", "load", "keep", "forget"}

(* A verb has its request, a confirm the change it took, a close a table to *)
(* close a port in.                                                        *)
Carries ==
  \A c \in Clients :
    /\ pc[c] \in Asking => req[c] \in Request
    /\ pc[c] \in {"disarm", "opening"} => taken \in Change
    /\ pc[c] = "keep" => applied \in Table

(* Whoever is between taking the lock and its answer has the lock, so there *)
(* is one such verb at most.                                               *)
Verb == {"ask", "ready", "write", "arm", "load", "claim", "disarm", "opening",
         "table", "boot", "keep", "forget"}
Holding == \A c \in Clients : pc[c] \in Verb <=> lock = c

Shape == TypeOK /\ Carries /\ Holding

(* A server without a firewall has the right shape.                         *)
LEMMA InitShape == Init => Shape
BY FirewallAssumption DEF Init, Shape, TypeOK, Carries, Holding, Asking, Verb

(* Every step keeps the shape.                                              *)
LEMMA StepShape == Shape /\ [Next]_vars => Shape'
<1> SUFFICES ASSUME Shape, [Next]_vars PROVE Shape'
  OBVIOUS
<1> USE FirewallAssumption
    DEF Shape, TypeOK, Carries, Holding, Asking, Verb, files, systemd, clients,
        Goto, On, Answer, Stop, SetAside, Table, Change, Request
<1>1. ASSUME NEW c \in Clients, Call(c) PROVE Shape'
  BY <1>1 DEF Call
<1>2. ASSUME NEW c \in Clients, Connect(c) PROVE Shape'
  BY <1>2 DEF Connect
<1>3. ASSUME NEW c \in Clients, Begin(c) PROVE Shape'
  BY <1>3 DEF Begin
<1>4. ASSUME NEW c \in Clients, Ask(c) PROVE Shape'
  BY <1>4 DEF Ask
<1>5. ASSUME NEW c \in Clients, KeepPrevious(c) PROVE Shape'
  BY <1>5 DEF KeepPrevious
<1>6. ASSUME NEW c \in Clients, WritePending(c) PROVE Shape'
  BY <1>6 DEF WritePending
<1>7. ASSUME NEW c \in Clients, Arm(c) PROVE Shape'
  BY <1>7 DEF Arm
<1>8. ASSUME NEW c \in Clients, Load(c) PROVE Shape'
  <2>1. stuck' \in BOOLEAN
    BY <1>8 DEF Load
  <2> QED BY <1>8, <2>1 DEF Load, NewTable, Openings
<1>9. ASSUME NEW c \in Clients, BeginConfirm(c) PROVE Shape'
  BY <1>9 DEF BeginConfirm
<1>10. ASSUME NEW c \in Clients, Claim(c) PROVE Shape'
  BY <1>10 DEF Claim
<1>11. ASSUME NEW c \in Clients, Disarm(c) PROVE Shape'
  BY <1>11 DEF Disarm
<1>12. ASSUME NEW c \in Clients, KeepOpening(c) PROVE Shape'
  BY <1>12 DEF KeepOpening
<1>13. ASSUME NEW c \in Clients, KeepTable(c) PROVE Shape'
  BY <1>13 DEF KeepTable
<1>14. ASSUME NEW c \in Clients, KeepAtBoot(c) PROVE Shape'
  <2>1. boot' \in BOOLEAN
    BY <1>14 DEF KeepAtBoot
  <2> QED BY <1>14, <2>1 DEF KeepAtBoot
<1>15. ASSUME NEW c \in Clients, CloseLoad(c) PROVE Shape'
  <2>1. stuck' \in BOOLEAN
    BY <1>15 DEF CloseLoad
  <2> QED BY <1>15, <2>1 DEF CloseLoad, ClosedTable
<1>16. ASSUME NEW c \in Clients, CloseKeep(c) PROVE Shape'
  BY <1>16 DEF CloseKeep, ClosedTable
<1>17. ASSUME NEW c \in Clients, CloseForget(c) PROVE Shape'
  BY <1>17 DEF CloseForget
<1>18. CASE Fire
  BY <1>18 DEF Fire
<1>19. CASE Take
  BY <1>19 DEF Take, ServiceEnds
<1>20. CASE PutBack
  <2>1. stuck' \in BOOLEAN
    BY <1>20 DEF PutBack
  <2>2. timer' \in {"off", timer}
    BY <1>20 DEF PutBack, ServiceEnds
  <2> QED BY <1>20, <2>1, <2>2 DEF PutBack, ServiceEnds
<1>21. CASE Reboot
  BY <1>21 DEF Reboot
<1>22. CASE UNCHANGED vars
  BY <1>22 DEF vars
<1> QED
  BY <1>1, <1>2, <1>3, <1>4, <1>5, <1>6, <1>7, <1>8, <1>9, <1>10, <1>11,
     <1>12, <1>13, <1>14, <1>15, <1>16, <1>17, <1>18, <1>19, <1>20, <1>21, <1>22
     DEF Next, VerbStep

(* The files, the units and the verbs keep their shape.                     *)
THEOREM FirewallTyped == Spec => []TypeOK
<1>1. Shape => TypeOK
  BY DEF Shape
<1> QED BY InitShape, StepShape, <1>1, PTL DEF Spec

-----------------------------------------------------------------------------
(* Who may be locked out, and how long.                                     *)

(* The timer waits for a change, but while a confirm that took it is about  *)
(* to stop it; it has a service exactly when it runs one.                   *)
TimerHasChange ==
  /\ timer = "waiting" => svc = "none"
  /\ timer = "running" => svc # "none"
  /\ timer = "waiting" /\ pending = None => \E c \in Clients : pc[c] = "disarm"
  /\ svc = "moved" => pending = None

(* From the answer that no change waits until the new one is armed there is *)
(* no timer and no rollback; then there are a change and its timer.         *)
NothingElseRuns ==
  \A c \in Clients :
    /\ pc[c] \in {"ready", "write", "arm", "keep", "forget"} => timer = "off" /\ svc = "none"
    /\ pc[c] = "ask" => svc = "none" \/ timer = "running"
    /\ pc[c] \in {"arm", "load"} => pending # None
    /\ pc[c] = "load" => timer = "waiting"

(* A confirm that got in is not overtaken by a verb that loads a table.     *)
NotOvertaken ==
  \A c, d \in Clients :
    pc[c] = "connected" =>
      pc[d] \notin {"ask", "ready", "write", "arm", "load", "keep", "forget"}

(* What a confirm would keep is what is in force, as long as there is a     *)
(* timer to say so and once the change is taken.                            *)
DraftIsLive ==
  /\ pending # None /\ timer # "off" =>
       draft = live \/ \E c \in Clients : pc[c] = "load"
  /\ \A c \in Clients :
       /\ pc[c] = "claim" /\ pending # None => draft = live
       /\ pc[c] \in {"disarm", "opening", "table"} =>
            pending = None /\ svc # "moved" /\ draft = live
       /\ pc[c] \in {"opening", "table"} => timer = "off"
       /\ pc[c] = "keep" => live = ClosedTable(c)

(* What may be kept, or gone back to, lets erpc in; so does the table in    *)
(* force wherever a confirm got in or a removal closed a port, and, but for *)
(* one a failed rollback left, where an apply replaces it.                  *)
Trusted == {"keep", "connected", "claim", "disarm", "opening", "table"}
LetsInWhereItMatters ==
  /\ LetsIn(applied) /\ LetsIn(previous)
  /\ \A c \in Clients :
       /\ pc[c] \in Trusted => LetsIn(live)
       /\ pc[c] \in {"ready", "write", "arm", "load"} => LetsIn(live) \/ stuck
  /\ ~LetsIn(live) => Guarded \/ stuck

IInv == /\ TimerHasChange
        /\ NothingElseRuns
        /\ NotOvertaken
        /\ DraftIsLive
        /\ LetsInWhereItMatters

(* It holds of a server without a firewall.                                 *)
LEMMA InitInv == Init => IInv
BY FirewallAssumption
   DEF Init, IInv, TimerHasChange, NothingElseRuns, NotOvertaken, DraftIsLive,
       LetsInWhereItMatters, Trusted, LetsIn

(* Every step keeps it, when confirms are not overtaken and the timer's     *)
(* service does not outlast the verb it raced with.                         *)
LEMMA StepInv ==
  ASSUME Races \subseteq {"halfKept"}, Shape, IInv, [Next]_vars
  PROVE  IInv'
<1> USE FirewallAssumption
    DEF IInv, TimerHasChange, NothingElseRuns, NotOvertaken, DraftIsLive,
        LetsInWhereItMatters, Trusted, Guarded, LetsIn, Shape, Holding, Carries, Verb,
        Asking, TypeOK, files, systemd, clients, Goto, On, Answer, Stop, SetAside, Armed, Table, Change,
        Request, ClosedTable
<1>1. ASSUME NEW c \in Clients, Call(c) PROVE IInv'
  BY <1>1 DEF Call
<1>2. ASSUME NEW c \in Clients, Connect(c) PROVE IInv'
  BY <1>2 DEF Connect
<1>3. ASSUME NEW c \in Clients, Begin(c) PROVE IInv'
  BY <1>3 DEF Begin
<1>4. ASSUME NEW c \in Clients, Ask(c) PROVE IInv'
  BY <1>4 DEF Ask
<1>5. ASSUME NEW c \in Clients, KeepPrevious(c) PROVE IInv'
  BY <1>5 DEF KeepPrevious
<1>6. ASSUME NEW c \in Clients, WritePending(c) PROVE IInv'
  BY <1>6 DEF WritePending
<1>7. ASSUME NEW c \in Clients, Arm(c) PROVE IInv'
  BY <1>7 DEF Arm
<1>8. ASSUME NEW c \in Clients, Load(c) PROVE IInv'
  <2>1. /\ pc[c] = "load" /\ lock = c /\ lock' = None /\ timer = "waiting" /\ svc = "none"
        /\ pc'[c] \in {"applied", "idle"}
        /\ \A d \in Clients \ {c} : pc'[d] = pc[d] /\ pc[d] \notin Verb \cup {"connected"}
        /\ UNCHANGED <<applied, previous, pending, svc>>
    BY <1>8 DEF Load
  <2>2. \A d \in Clients : pc'[d] \notin Verb \cup {"connected"}
    BY <2>1
  <2>3. CASE timer' = timer /\ draft' = live'
    BY <2>1, <2>2, <2>3
  <2>4. CASE timer' = "off" /\ live' = live /\ stuck' = stuck
    BY <2>1, <2>2, <2>4
  <2> QED BY <1>8, <2>3, <2>4 DEF Load
<1>9. ASSUME NEW c \in Clients, BeginConfirm(c) PROVE IInv'
  BY <1>9 DEF BeginConfirm
<1>10. ASSUME NEW c \in Clients, Claim(c) PROVE IInv'
  BY <1>10 DEF Claim
<1>11. ASSUME NEW c \in Clients, Disarm(c) PROVE IInv'
  BY <1>11 DEF Disarm
<1>12. ASSUME NEW c \in Clients, KeepOpening(c) PROVE IInv'
  BY <1>12 DEF KeepOpening
<1>13. ASSUME NEW c \in Clients, KeepTable(c) PROVE IInv'
  BY <1>13 DEF KeepTable
<1>14. ASSUME NEW c \in Clients, KeepAtBoot(c) PROVE IInv'
  BY <1>14 DEF KeepAtBoot
<1>15. ASSUME NEW c \in Clients, CloseLoad(c) PROVE IInv'
  BY <1>15 DEF CloseLoad, ClosedTable
<1>16. ASSUME NEW c \in Clients, CloseKeep(c) PROVE IInv'
  BY <1>16 DEF CloseKeep, ClosedTable
<1>17. ASSUME NEW c \in Clients, CloseForget(c) PROVE IInv'
  BY <1>17 DEF CloseForget
<1>18. CASE Fire
  BY <1>18 DEF Fire
<1>19. CASE Take
  BY <1>19 DEF Take, ServiceEnds
<1>20. CASE PutBack
  BY <1>20 DEF PutBack, ServiceEnds
<1>21. CASE Reboot
  BY <1>21 DEF Reboot
<1>22. CASE UNCHANGED vars
  BY <1>22 DEF vars
<1> QED
  BY <1>1, <1>2, <1>3, <1>4, <1>5, <1>6, <1>7, <1>8, <1>9, <1>10, <1>11,
     <1>12, <1>13, <1>14, <1>15, <1>16, <1>17, <1>18, <1>19, <1>20, <1>21, <1>22
     DEF Next, VerbStep

(* With no race (see Races) every reachable state has the invariant.        *)
LEMMA Inductive ==
  ASSUME Races \subseteq {"halfKept"}
  PROVE  Spec => [](Shape /\ IInv)
<1>1. Init => Shape /\ IInv
  BY InitShape, InitInv
<1>2. Shape /\ IInv /\ [Next]_vars => Shape' /\ IInv'
  BY StepShape, StepInv
<1> QED BY <1>1, <1>2, PTL DEF Spec

(* A table that locks erpc out is in force only while a rollback to one     *)
(* that lets it in is on its way, or after that rollback itself failed; no  *)
(* other fault and no restart leaves it there.                              *)
THEOREM NobodyStaysOut ==
  ASSUME Races \subseteq {"halfKept"}
  PROVE  Spec => []LockoutIsGuarded
<1>1. IInv => LockoutIsGuarded
  BY DEF IInv, LetsInWhereItMatters, LockoutIsGuarded
<1> QED BY Inductive, <1>1, PTL

(* A table is kept for the next boot by a confirm that got in through it, or *)
(* by a removal that closes a port in it, and is then in force.             *)
THEOREM OnlyProvenIsKept ==
  ASSUME Races \subseteq {"halfKept"}
  PROVE  Spec => KeptIsProven
<1> DEFINE A == applied' # applied => applied' = live /\ LetsIn(live)
<1>1. ASSUME Shape, IInv, [Next]_vars PROVE A
  <2> USE <1>1 DEF IInv, DraftIsLive, LetsInWhereItMatters, Trusted
  <2>1. ASSUME NEW c \in Clients, KeepTable(c) PROVE A
    BY <2>1 DEF KeepTable
  <2>2. ASSUME NEW c \in Clients, CloseKeep(c) PROVE A
    BY <2>2 DEF CloseKeep
  <2>3. ASSUME applied' # applied
        PROVE  \E c \in Clients : KeepTable(c) \/ CloseKeep(c)
    BY <2>3 DEF Next, VerbStep, vars, files, Call, Connect, Begin, Ask, KeepPrevious,
       WritePending, Arm, Load, BeginConfirm, Claim, Disarm, KeepOpening, KeepAtBoot,
       CloseLoad, CloseForget, Fire, Take, PutBack, Reboot
  <2> QED BY <2>1, <2>2, <2>3
<1>2. Shape /\ IInv /\ [Next]_vars => [A]_vars
  BY <1>1
<1>3. Spec => [][A]_vars
  BY Inductive, <1>2, PTL DEF Spec
<1> QED BY <1>3 DEF KeptIsProven

-----------------------------------------------------------------------------
(* What is in force and what is kept, when writes of files succeed.         *)

(* What the kernel has is what is kept, or the server restarted before the  *)
(* kept table was loaded at boot.                                           *)
Kept == live = applied \/ (live = None /\ ~boot)

(* A rollback goes back to what is kept; a timer that was stopped has left  *)
(* its service no change; a change that waits, or was taken, has a table;   *)
(* whoever finds one to claim finds its timer.                              *)
RollbackFits ==
  /\ timer = "off" /\ svc # "none" => pending = None
  /\ Guarded => previous = applied
  /\ pending # None /\ timer # "off" => draft # None \/ \E c \in Clients : pc[c] = "load"
  /\ \A c \in Clients :
       /\ pc[c] \in {"write", "arm", "load"} => previous = applied
       /\ pc[c] \in {"disarm", "opening", "table"} => draft # None
       /\ pc[c] = "claim" /\ pending # None => timer # "off"

(* Where what is in force is kept, about to be put back, or left by a       *)
(* rollback that failed.                                                    *)
Settled ==
  /\ lock = None => Kept \/ Guarded \/ stuck
  /\ \A c \in Clients :
       /\ pc[c] \in {"ask", "claim"} => Kept \/ Guarded \/ stuck
       /\ pc[c] \in {"ready", "write", "arm", "load"} => Kept \/ stuck
       /\ pc[c] \in {"boot", "forget"} => live = applied

SettledInv == RollbackFits /\ Settled

(* It holds of a server without a firewall.                                 *)
LEMMA InitSettled == Init => SettledInv
BY DEF Init, SettledInv, RollbackFits, Settled, Kept, Guarded

(* Every step keeps it.                                                     *)
LEMMA StepSettled ==
  ASSUME Races \subseteq {"halfKept"}, "disk" \notin Faults, Shape, IInv, SettledInv, [Next]_vars
  PROVE  SettledInv'
<1> USE FirewallAssumption
    DEF SettledInv, RollbackFits, Settled, Kept, Guarded, IInv, TimerHasChange,
        NothingElseRuns, DraftIsLive, Shape, Holding, Carries, Verb, Asking, TypeOK,
        files, systemd, clients, Goto, On, Answer, Stop, SetAside, Armed, May, Table,
        Change, Request,
        ClosedTable
<1>1. ASSUME NEW c \in Clients, Call(c) PROVE SettledInv'
  BY <1>1 DEF Call
<1>2. ASSUME NEW c \in Clients, Connect(c) PROVE SettledInv'
  BY <1>2 DEF Connect
<1>3. ASSUME NEW c \in Clients, Begin(c) PROVE SettledInv'
  BY <1>3 DEF Begin
<1>4. ASSUME NEW c \in Clients, Ask(c) PROVE SettledInv'
  BY <1>4 DEF Ask
<1>5. ASSUME NEW c \in Clients, KeepPrevious(c) PROVE SettledInv'
  BY <1>5 DEF KeepPrevious
<1>6. ASSUME NEW c \in Clients, WritePending(c) PROVE SettledInv'
  BY <1>6 DEF WritePending
<1>7. ASSUME NEW c \in Clients, Arm(c) PROVE SettledInv'
  BY <1>7 DEF Arm
<1>8. ASSUME NEW c \in Clients, Load(c) PROVE SettledInv'
  BY <1>8 DEF Load, NewTable, Openings
<1>9. ASSUME NEW c \in Clients, BeginConfirm(c) PROVE SettledInv'
  BY <1>9 DEF BeginConfirm
<1>10. ASSUME NEW c \in Clients, Claim(c) PROVE SettledInv'
  BY <1>10 DEF Claim
<1>11. ASSUME NEW c \in Clients, Disarm(c) PROVE SettledInv'
  BY <1>11 DEF Disarm
<1>12. ASSUME NEW c \in Clients, KeepOpening(c) PROVE SettledInv'
  BY <1>12 DEF KeepOpening
<1>13. ASSUME NEW c \in Clients, KeepTable(c) PROVE SettledInv'
  BY <1>13 DEF KeepTable
<1>14. ASSUME NEW c \in Clients, KeepAtBoot(c) PROVE SettledInv'
  BY <1>14 DEF KeepAtBoot
<1>15. ASSUME NEW c \in Clients, CloseLoad(c) PROVE SettledInv'
  BY <1>15 DEF CloseLoad
<1>16. ASSUME NEW c \in Clients, CloseKeep(c) PROVE SettledInv'
  <2>1. applied' = live /\ timer = "off" /\ svc = "none"
    BY <1>16 DEF CloseKeep
  <2>2. \A d \in Clients \ {c} : pc'[d] = pc[d] /\ pc[d] \notin Verb
    BY <1>16 DEF CloseKeep
  <2> QED BY <1>16, <2>1, <2>2 DEF CloseKeep
<1>17. ASSUME NEW c \in Clients, CloseForget(c) PROVE SettledInv'
  BY <1>17 DEF CloseForget
<1>18. CASE Fire
  BY <1>18 DEF Fire
<1>19. CASE Take
  BY <1>19 DEF Take, ServiceEnds
<1>20. CASE PutBack
  BY <1>20 DEF PutBack, ServiceEnds
<1>21. CASE Reboot
  BY <1>21 DEF Reboot
<1>22. CASE UNCHANGED vars
  BY <1>22 DEF vars
<1> QED
  BY <1>1, <1>2, <1>3, <1>4, <1>5, <1>6, <1>7, <1>8, <1>9, <1>10, <1>11,
     <1>12, <1>13, <1>14, <1>15, <1>16, <1>17, <1>18, <1>19, <1>20, <1>21, <1>22
     DEF Next, VerbStep

(* With no verb running, what is in force is kept or about to be put back,  *)
(* if writes of files succeed; else the rollback was tried and failed.      *)
THEOREM NothingUnkeptStays ==
  ASSUME Races \subseteq {"halfKept"}, "disk" \notin Faults
  PROVE  Spec => []KeptOrGuarded
<1>1. Init => Shape /\ IInv /\ SettledInv
  BY InitShape, InitInv, InitSettled
<1>2. Shape /\ IInv /\ SettledInv /\ [Next]_vars => Shape' /\ IInv' /\ SettledInv'
  BY StepShape, StepInv, StepSettled
<1>3. SettledInv => KeptOrGuarded
  BY DEF SettledInv, Settled, Kept, KeptOrGuarded
<1> QED BY <1>1, <1>2, <1>3, PTL DEF Spec

-----------------------------------------------------------------------------
(* Openings.                                                                *)

(* The openings kept once a change is confirmed.                            *)
Changed(change) == IF change.open THEN kept \cup {change.id} ELSE kept \ {change.id}

(* The openings kept are those of the table kept, but between the two       *)
(* writes of a confirm or of a removal; the table of a change that waits    *)
(* opens what will be kept with it.                                         *)
OpeningsFit ==
  /\ (\A c \in Clients : pc[c] \notin {"table", "forget"}) => kept = Opens(applied)
  /\ pending # None /\ timer # "off" =>
       Opens(draft) = Changed(pending) \/ \E c \in Clients : pc[c] = "load"
  /\ \A c \in Clients :
       /\ pc[c] \in {"arm", "load"} => pending = [id |-> req[c].id, open |-> req[c].open]
       /\ pc[c] \in {"disarm", "opening"} => Opens(draft) = Changed(taken)
       /\ pc[c] = "table" => kept = Opens(draft)
       /\ pc[c] = "forget" => kept \ {req[c].id} = Opens(applied)

(* It holds of a server without a firewall.                                 *)
LEMMA InitOpenings == Init => OpeningsFit
BY DEF Init, OpeningsFit, Opens

(* Where the openings and the change that waits matter.                     *)
Opening == {"arm", "load", "disarm", "opening", "table", "forget"}

(* A step that leaves the tables and the openings alone, keeps the change   *)
(* that waits or drops it, and neither begins nor ends such a place.        *)
LEMMA QuietStep ==
  ASSUME OpeningsFit, UNCHANGED <<applied, kept, draft, taken>>,
         pending' = None \/ (pending' = pending /\ (timer' # "off" => timer # "off")),
         \A d \in Clients : pc[d] \in {"table", "forget", "load"} => pc'[d] = pc[d],
         \A d \in Clients : pc'[d] \in Opening =>
           pc'[d] = pc[d] /\ req'[d] = req[d] /\ pending' = pending
  PROVE  OpeningsFit'
BY DEF OpeningsFit, Changed, Opens, Opening

(* A step of a confirm, with no change left waiting, has only its own place *)
(* to answer for.                                                           *)
LEMMA ConfirmStep ==
  ASSUME NEW c \in Clients, timer' = "off", pc'[c] \in {"disarm", "opening", "table"},
         \A d \in Clients \ {c} : pc'[d] \notin Opening,
         IF pc'[c] = "table" THEN (kept = Opens(draft))'
         ELSE (kept = Opens(applied))' /\ (Opens(draft) = Changed(taken))'
  PROVE  OpeningsFit'
BY DEF OpeningsFit, Opening

(* Every step keeps it.                                                     *)
LEMMA StepOpenings ==
  ASSUME Races = {}, "disk" \notin Faults, Shape, IInv, SettledInv, OpeningsFit, [Next]_vars
  PROVE  OpeningsFit'
<1> USE FirewallAssumption
    DEF OpeningsFit, Changed, Opens, RollbackFits, SettledInv, IInv, TimerHasChange,
        NothingElseRuns, DraftIsLive, Shape, Holding, Carries, Verb, Asking, TypeOK,
        files, systemd, clients, Goto, On, Answer, Stop, SetAside, Armed, May, Table,
        Change, Request,
        ClosedTable
<1>0. \A c \in Clients : \A p : pc' = [pc EXCEPT ![c] = p] =>
        pc'[c] = p /\ \A d \in Clients \ {c} : pc'[d] = pc[d]
  OBVIOUS
<1>1. ASSUME NEW c \in Clients, Call(c) PROVE OpeningsFit'
  <2>1. /\ UNCHANGED <<applied, kept, draft, taken>>
        /\ pending' = None \/ (pending' = pending /\ timer' = timer)
        /\ pc[c] \notin Opening /\ pc'[c] \notin Opening
        /\ \A d \in Clients \ {c} : pc'[d] = pc[d] /\ req'[d] = req[d]
    BY <1>0, <1>1 DEF Call, Opening
  <2>2. \A d \in Clients \ {c} : pending' = pending \/ pc[d] \notin Opening
    BY <1>1 DEF Call, Opening
  <2> QED BY <2>1, <2>2, QuietStep DEF Opening
<1>2. ASSUME NEW c \in Clients, Connect(c) PROVE OpeningsFit'
  <2>1. /\ UNCHANGED <<applied, kept, draft, taken>>
        /\ pending' = None \/ (pending' = pending /\ timer' = timer)
        /\ pc[c] \notin Opening /\ pc'[c] \notin Opening
        /\ \A d \in Clients \ {c} : pc'[d] = pc[d] /\ req'[d] = req[d]
    BY <1>0, <1>2 DEF Connect, Opening
  <2>2. \A d \in Clients \ {c} : pending' = pending \/ pc[d] \notin Opening
    BY <1>2 DEF Connect, Opening
  <2> QED BY <2>1, <2>2, QuietStep DEF Opening
<1>3. ASSUME NEW c \in Clients, Begin(c) PROVE OpeningsFit'
  BY <1>3 DEF Begin
<1>4. ASSUME NEW c \in Clients, Ask(c) PROVE OpeningsFit'
  <2>1. /\ UNCHANGED <<applied, kept, draft, taken>>
        /\ pending' = None \/ (pending' = pending /\ timer' = timer)
        /\ pc[c] \notin Opening /\ pc'[c] \notin Opening
        /\ \A d \in Clients \ {c} : pc'[d] = pc[d] /\ req'[d] = req[d]
    BY <1>0, <1>4 DEF Ask, Opening
  <2>2. \A d \in Clients \ {c} : pending' = pending \/ pc[d] \notin Opening
    BY <1>4 DEF Ask, Opening
  <2> QED BY <2>1, <2>2, QuietStep DEF Opening
<1>5. ASSUME NEW c \in Clients, KeepPrevious(c) PROVE OpeningsFit'
  BY <1>5 DEF KeepPrevious
<1>6. ASSUME NEW c \in Clients, WritePending(c) PROVE OpeningsFit'
  BY <1>6 DEF WritePending
<1>7. ASSUME NEW c \in Clients, Arm(c) PROVE OpeningsFit'
  BY <1>7 DEF Arm
<1>8. ASSUME NEW c \in Clients, Load(c) PROVE OpeningsFit'
  <2>1. /\ UNCHANGED <<applied, kept, pending, taken>>
        /\ \A d \in Clients : pc'[d] \notin Opening /\ pc[d] \notin {"table", "forget"}
    BY <1>0, <1>8 DEF Load, Opening
  <2>2. CASE draft' = NewTable(c)
    <3>1. pending = [id |-> req[c].id, open |-> req[c].open]
      BY <1>8 DEF Load
    <3>2. Opens(draft') = Openings(c)
      BY <2>2, FirewallAssumption, <1>8 DEF NewTable, Openings, Load
    <3>3. Changed(pending)' = Openings(c)
      BY <2>1, <3>1 DEF Openings
    <3> QED BY <2>1, <3>2, <3>3 DEF Opening
  <2>3. CASE timer' = "off"
    BY <2>1, <2>3 DEF Opening
  <2> QED BY <1>8, <2>2, <2>3 DEF Load
<1>9. ASSUME NEW c \in Clients, BeginConfirm(c) PROVE OpeningsFit'
  <2>1. /\ UNCHANGED <<applied, kept, draft, taken>>
        /\ pending' = None \/ (pending' = pending /\ timer' = timer)
        /\ pc[c] \notin Opening /\ pc'[c] \notin Opening
        /\ \A d \in Clients \ {c} : pc'[d] = pc[d] /\ req'[d] = req[d]
    BY <1>0, <1>9 DEF BeginConfirm, Opening
  <2>2. \A d \in Clients \ {c} : pending' = pending \/ pc[d] \notin Opening
    BY <1>9 DEF BeginConfirm, Opening
  <2> QED BY <2>1, <2>2, QuietStep DEF Opening
<1>10. ASSUME NEW c \in Clients, Claim(c) PROVE OpeningsFit'
  <2>1. /\ UNCHANGED <<applied, kept, draft, timer, req>> \/ pending = None
        /\ \A d \in Clients \ {c} : pc'[d] = pc[d] /\ pc[d] \notin Opening
        /\ pc[c] = "claim" /\ pc'[c] \in {"idle", "disarm"} /\ pending' = None
    BY <1>0, <1>10 DEF Claim, Opening
  <2>2. CASE pending = None
    BY <1>10, <2>1, <2>2, QuietStep DEF Claim, Opening
  <2>3. CASE pending # None
    <3>1. timer # "off" /\ taken' = pending /\ UNCHANGED <<applied, kept, draft>>
      BY <1>10, <2>3 DEF Claim
    <3>2. Opens(draft) = Changed(pending)
      BY <2>1, <2>3, <3>1 DEF Opening
    <3>3. (Opens(draft) = Changed(taken))'
      BY <3>1, <3>2
    <3>4. kept = Opens(applied)
      BY <2>1 DEF Opening
    <3> QED BY <2>1, <3>1, <3>3, <3>4 DEF Opening
  <2> QED BY <2>2, <2>3
<1>11. ASSUME NEW c \in Clients, Disarm(c) PROVE OpeningsFit'
  <2>1. /\ pc[c] = "disarm" /\ pc'[c] = "opening" /\ timer' = "off"
        /\ \A d \in Clients \ {c} : pc'[d] = pc[d] /\ pc[d] \notin Opening
        /\ UNCHANGED <<applied, kept, draft, taken>>
    BY <1>0, <1>11 DEF Disarm, Opening
  <2>2. kept = Opens(applied) /\ Opens(draft) = Changed(taken)
    BY <2>1 DEF Opening
  <2>3. (kept = Opens(applied))' /\ (Opens(draft) = Changed(taken))'
    BY <2>1, <2>2
  <2> HIDE DEF OpeningsFit, Changed, Opens
  <2> QED BY <2>1, <2>3, ConfirmStep
<1>12. ASSUME NEW c \in Clients, KeepOpening(c) PROVE OpeningsFit'
  <2>1. /\ pc[c] = "opening" /\ kept' = Changed(taken) /\ pc'[c] = "table"
        /\ \A d \in Clients \ {c} : pc'[d] = pc[d] /\ pc[d] \notin Opening
        /\ UNCHANGED <<applied, draft, pending, timer>> /\ timer = "off"
    BY <1>0, <1>12 DEF KeepOpening, Opening
  <2>2. (kept = Opens(draft))'
    BY <2>1
  <2> HIDE DEF OpeningsFit, Changed, Opens
  <2> QED BY <2>1, <2>2, ConfirmStep
<1>13. ASSUME NEW c \in Clients, KeepTable(c) PROVE OpeningsFit'
  BY <1>13 DEF KeepTable
<1>14. ASSUME NEW c \in Clients, KeepAtBoot(c) PROVE OpeningsFit'
  BY <1>14 DEF KeepAtBoot
<1>15. ASSUME NEW c \in Clients, CloseLoad(c) PROVE OpeningsFit'
  BY <1>15 DEF CloseLoad
<1>16. ASSUME NEW c \in Clients, CloseKeep(c) PROVE OpeningsFit'
  BY <1>16 DEF CloseKeep
<1>17. ASSUME NEW c \in Clients, CloseForget(c) PROVE OpeningsFit'
  <2>1. /\ kept' = kept \ {req[c].id} /\ UNCHANGED <<applied, draft, pending, taken, timer>>
        /\ pc[c] = "forget" /\ pc'[c] = "idle"
        /\ \A d \in Clients \ {c} : pc'[d] = pc[d] /\ pc[d] \notin Opening
    BY <1>0, <1>17 DEF CloseForget, Opening
  <2> QED BY <2>1 DEF Opening
<1>18. CASE Fire
  BY <1>18 DEF Fire
<1>19. CASE Take
  BY <1>19 DEF Take, ServiceEnds
<1>20. CASE PutBack
  BY <1>20 DEF PutBack, ServiceEnds
<1>21. CASE Reboot
  BY <1>21 DEF Reboot
<1>22. CASE UNCHANGED vars
  BY <1>22 DEF vars
<1> QED
  BY <1>1, <1>2, <1>3, <1>4, <1>5, <1>6, <1>7, <1>8, <1>9, <1>10, <1>11,
     <1>12, <1>13, <1>14, <1>15, <1>16, <1>17, <1>18, <1>19, <1>20, <1>21, <1>22
     DEF Next, VerbStep

(* With no race and no failing write, all the invariants hold.              *)
LEMMA AllInductive ==
  ASSUME Races = {}, "disk" \notin Faults
  PROVE  Spec => [](Shape /\ IInv /\ SettledInv /\ OpeningsFit)
<1>1. Init => Shape /\ IInv /\ SettledInv /\ OpeningsFit
  BY InitShape, InitInv, InitSettled, InitOpenings
<1>2. Shape /\ IInv /\ SettledInv /\ OpeningsFit /\ [Next]_vars
        => Shape' /\ IInv' /\ SettledInv' /\ OpeningsFit'
  BY StepShape, StepInv, StepSettled, StepOpenings
<1> QED BY <1>1, <1>2, PTL DEF Spec

(* With no verb running, the openings the next table is made from are those *)
(* of the table kept: no confirm or removal leaves one without the other.   *)
THEOREM OpeningsStayWithTheirTable ==
  ASSUME Races = {}, "disk" \notin Faults
  PROVE  Spec => []OpeningsAreKept
<1>1. Shape /\ OpeningsFit => OpeningsAreKept
  BY FirewallAssumption DEF Shape, Holding, Verb, OpeningsFit, OpeningsAreKept
<1> QED BY AllInductive, <1>1, PTL

(* A port opens only by the change that asks for it or in a table in which  *)
(* it was confirmed: not by a rollback, a restart, or another's change.     *)
THEOREM NoPortReopens ==
  ASSUME Races = {}, "disk" \notin Faults
  PROVE  Spec => OpensOnlyOwn
<1> DEFINE A == \A w \in Opens(live') \ Opens(live) :
                  \/ w \in kept
                  \/ pending # None /\ pending.id = w /\ pending.open
<1>1. ASSUME Shape, IInv, SettledInv, OpeningsFit, [Next]_vars PROVE A
  <2> USE <1>1, FirewallAssumption
      DEF OpeningsFit, SettledInv, RollbackFits, IInv, NothingElseRuns, DraftIsLive, TimerHasChange,
          Shape, Holding, Verb, Carries, Asking, TypeOK, Request, Change, Table
  <2>1. ASSUME NEW c \in Clients, Load(c) PROVE A
    BY <2>1 DEF Load, NewTable, Openings, Opens
  <2>2. ASSUME NEW c \in Clients, CloseLoad(c) PROVE A
    BY <2>2 DEF CloseLoad, ClosedTable, Opens
  <2>3. CASE PutBack
    <3>1. previous = applied /\ live' \in {previous, live}
      BY <2>3 DEF PutBack, Guarded
    <3>2. \A c \in Clients : pc[c] \notin {"table", "forget"}
      BY <2>3 DEF PutBack
    <3> QED BY <3>1, <3>2
  <2>4. CASE Reboot
    <3>1. \A c \in Clients : pc[c] \notin {"table", "forget"}
      BY <2>4 DEF Reboot
    <3> QED BY <2>4, <3>1 DEF Reboot, Opens
  <2>5. ASSUME live' # live
        PROVE  Reboot \/ PutBack \/ \E c \in Clients : Load(c) \/ CloseLoad(c)
    BY <2>5 DEF Next, VerbStep, vars, Call, Connect, Begin, Ask, KeepPrevious,
       WritePending, Arm, BeginConfirm, Claim, Disarm, KeepOpening, KeepTable, KeepAtBoot,
       CloseKeep, CloseForget, Fire, Take
  <2> QED BY <2>1, <2>2, <2>3, <2>4, <2>5
<1>2. Shape /\ IInv /\ SettledInv /\ OpeningsFit /\ [Next]_vars => [A]_vars
  BY <1>1
<1>3. Spec => [][A]_vars
  BY AllInductive, <1>2, PTL DEF Spec
<1> QED BY <1>3 DEF OpensOnlyOwn
=============================================================================
