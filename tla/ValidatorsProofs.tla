-------------------------- MODULE ValidatorsProofs --------------------------
(***************************************************************************)
(* What holds of module Validators for any number of commands, machines,   *)
(* validators and servers, and wherever a command stops.                   *)
(***************************************************************************)
EXTENDS Validators, SequenceTheorems, TLAPS

-----------------------------------------------------------------------------
(* Shapes.                                                                  *)

Makes == {"find", "list", "make"}
AddsVal == {"waitVal", "checkVal", "addVal"}
AddsHost == {"waitHost", "checkHost", "addHost"}
OnServer == {"password", "run", "follow"}
Writes == {"waitPut", "get", "put"}
OnTheChain == {"chain", "create", "bls", "forget"}

HasBls(k) == \E a \in accounts : a.key = k /\ a.bls

(* A validator, stored or read before, whose vote account can still be made:  *)
(* its key is there and its item names it, or the account is complete.       *)
Full(val) == /\ val.vote \in DOMAIN keys
             /\ keys[val.vote].gone \/ ~val.ref => HasBls(val.vote)

(* What a command has in hand at each place.                                *)
NewInHand(job) ==
  job.val \in Validator /\ job.val.ref /\ job.val.by = job.at /\ job.val.name = job.name
HostInHand(job) == job.op = "init" /\ job.host \in Host /\ job.host.by = job.at
StoredInHand(job) == job.op \in HostOps /\ job.host \in Host /\ job.h \in DOMAIN hosts
ValInHand(job) ==
  job.op \in {"keys", "vote"} /\ job.val \in Validator /\ job.v \in DOMAIN vals /\ Full(job.val)

Fit(place, job) ==
  /\ place # "idle" => job \in Job
  /\ place \in Makes \cup AddsVal => NewInHand(job)
  /\ place \in AddsVal => Full(job.val)
  /\ place \in Makes \cup AddsVal \cup AddsHost => HostInHand(job)
  /\ place \in OnServer => StoredInHand(job) /\ job.op # "record"
  /\ place \in Writes => StoredInHand(job) \/ ValInHand(job)
  /\ place \in OnTheChain => ValInHand(job) /\ job.op = "vote"
  /\ place \in {"bls", "forget"} => OnChain(job.val.vote) # {}
  /\ place = "forget" => HasBls(job.val.vote)

(* Who is told of a run's end is following it.                              *)
Followed == \A a \in Addresses : runs[a] # None /\ runs[a].by # None =>
              pc[runs[a].by] = "follow" /\ my[runs[a].by].host.addr = a

AllFit == \A c \in Cmds : Fit(pc[c], my[c])
AllFull == \A v \in DOMAIN vals : Full(vals[v])

(* A write that outlived its erpc has what fits the place it was begun at.     *)
LateFit == \A w \in late : Fit(w.place, w.job)

Shape == TypeOK /\ AllFit /\ AllFull /\ LateFit /\ Followed

(* Nothing that is stored goes, and what a key was for is done.              *)
Grows ==
  /\ DOMAIN vals \subseteq DOMAIN vals'
  /\ DOMAIN hosts \subseteq DOMAIN hosts'
  /\ DOMAIN keys \subseteq DOMAIN keys'
  /\ \A k \in DOMAIN keys : keys'[k].gone => keys[k].gone \/ HasBls(k)
  /\ \A a \in accounts : \E b \in accounts' : b.key = a.key /\ (a.bls => b.bls)

(* What a command has in hand stays good while others go on.                *)
LEMMA FullStays ==
  ASSUME Grows, NEW val, Full(val)
  PROVE  Full(val)'
<1>1. HasBls(val.vote) => HasBls(val.vote)'
  BY DEF HasBls, Grows
<1>2. val.vote \in DOMAIN keys'
  BY DEF Full, Grows
<1>3. ASSUME keys'[val.vote].gone \/ ~val.ref PROVE HasBls(val.vote)'
  BY <1>1, <1>3 DEF Full, Grows
<1> QED BY <1>2, <1>3 DEF Full

(* So what fits a place goes on fitting it.                                 *)
LEMMA FitStays ==
  ASSUME Grows, NEW place, NEW job, Fit(place, job)
  PROVE  Fit(place, job)'
<1>1. Full(job.val) => Full(job.val)'
  BY FullStays
<1>2. StoredInHand(job) => StoredInHand(job)'
  BY DEF StoredInHand, Grows
<1>3. ValInHand(job) => ValInHand(job)'
  BY <1>1 DEF ValInHand, Grows
<1>4. OnChain(job.val.vote) # {} => OnChain(job.val.vote)' # {}
  BY DEF OnChain, Grows
<1>5. HasBls(job.val.vote) => HasBls(job.val.vote)'
  BY DEF HasBls, Grows
<1> QED BY <1>1, <1>2, <1>3, <1>4, <1>5 DEF Fit, NewInHand, HostInHand

(* A step of one command is good if it leaves the inventory typed and grown   *)
(* and the command with what its next place takes.                          *)
OnlyOf(c) == \A d \in Cmds \ {c} : pc'[d] = pc[d] /\ my'[d] = my[d]

(* With only its own place and job changed, one command leaves the others fit. *)
LEMMA OthersStay ==
  ASSUME AllFit, Grows, NEW c \in Cmds, OnlyOf(c), Fit(pc[c], my[c])'
  PROVE  AllFit'
<1> SUFFICES ASSUME NEW d \in Cmds PROVE Fit(pc[d], my[d])'
  BY DEF AllFit
<1>1. CASE d = c
  BY <1>1
<1>2. CASE d # c
  <2>1. pc'[d] = pc[d] /\ my'[d] = my[d]
    BY <1>2 DEF OnlyOf
  <2>2. Fit(pc[d], my[d])
    BY DEF AllFit
  <2>3. \A p, j : Fit(p, j) => Fit(p, j)'
    BY FitStays
  <2>4. PICK p, j : p = pc[d] /\ j = my[d]
    OBVIOUS
  <2>5. Fit(p, j) /\ p = pc'[d] /\ j = my'[d]
    BY <2>1, <2>2, <2>4
  <2>6. Fit(p, j)'
    BY <2>3, <2>5
  <2> QED BY <2>5, <2>6 DEF Fit, NewInHand, HostInHand, StoredInHand, ValInHand, Full, HasBls, OnChain
<1> QED BY <1>1, <1>2

(* And the writes that outlived their erpc go on fitting.                    *)
LEMMA LateStays ==
  ASSUME LateFit, Grows, late' \subseteq late
  PROVE  LateFit'
<1> SUFFICES ASSUME NEW w \in late PROVE Fit(w.place, w.job)'
  BY DEF LateFit
<1>1. PICK p, j : p = w.place /\ j = w.job
  OBVIOUS
<1>2. Fit(p, j)'
  BY <1>1, FitStays DEF LateFit
<1> QED BY <1>1, <1>2

(* A command that goes on has the place and the job that it is given.        *)
LEMMA WentOn ==
  ASSUME TypeOK, NEW c \in Cmds, NEW place \in Place, NEW job \in Job \cup {None},
         GoesOn(c, place, job)
  PROVE  /\ pc' \in [Cmds -> Place] /\ my' \in [Cmds -> Job \cup {None}]
         /\ pc'[c] = place /\ my'[c] = job
         /\ OnlyOf(c)
BY DEF TypeOK, GoesOn, OnlyOf

(* Giving a lock back leaves the locks typed.                               *)
LEMMA Unlocked ==
  ASSUME TypeOK, NEW c \in Cmds, Unlock(c)
  PROVE  lock' \in [Machines -> Cmds \cup {None}]
BY DEF TypeOK, Unlock

(* Who is followed is not one that goes on from elsewhere.                  *)
LEMMA FollowedStays ==
  ASSUME Shape, NEW c \in Cmds, pc[c] # "follow", OnlyOf(c), runs' = runs
  PROVE  Followed'
<1> SUFFICES ASSUME NEW a \in Addresses, runs[a] # None, runs[a].by # None
             PROVE  pc'[runs[a].by] = "follow" /\ my'[runs[a].by].host.addr = a
  BY DEF Followed
<1>1. runs[a].by \in Cmds
  BY DEF Shape, TypeOK, Run
<1>2. pc[runs[a].by] = "follow" /\ my[runs[a].by].host.addr = a
  BY DEF Shape, Followed
<1> QED BY <1>1, <1>2 DEF OnlyOf

(* A step that writes nothing that is kept.                                 *)
LEMMA QuietStep ==
  ASSUME Shape, NEW c \in Cmds, NEW p \in Place, NEW j \in Job \cup {None},
         GoesOn(c, p, j), Fit(p, j), pc[c] # "follow",
         UNCHANGED <<vault, accounts, nodes>>,
         lock' \in [Machines -> Cmds \cup {None}]
  PROVE  Shape'
<1> USE DEF settled, vault, nodes
<1>1. /\ pc' \in [Cmds -> Place] /\ my' \in [Cmds -> Job \cup {None}]
      /\ pc'[c] = p /\ my'[c] = j /\ OnlyOf(c)
  BY WentOn DEF Shape
<1>2. TypeOK'
  BY <1>1 DEF Shape, TypeOK
<1>3. Grows
  BY DEF Grows
<1>4. Fit(pc[c], my[c])'
  BY <1>1 DEF Fit, NewInHand, HostInHand, StoredInHand, ValInHand, Full, HasBls, OnChain
<1>5. AllFit'
  BY <1>1, <1>3, <1>4, OthersStay DEF Shape
<1>6. AllFull'
  BY DEF Shape, AllFull, Full, HasBls
<1>7. Followed'
  BY <1>1, FollowedStays
<1>8. LateFit'
  BY <1>3, LateStays DEF Shape
<1> QED BY <1>2, <1>5, <1>6, <1>7, <1>8 DEF Shape

(* A command that ends has nothing in hand.                                 *)
LEMMA NothingInHand == Fit("idle", None) /\ "idle" \in Place
BY DEF Fit, Makes, AddsVal, AddsHost, OnServer, Writes, OnTheChain, Place

(* Ending is such a step.                                                   *)
LEMMA EndStep ==
  ASSUME Shape, NEW c \in Cmds, Ends(c), pc[c] # "follow", UNCHANGED <<vault, accounts, nodes>>
  PROVE  Shape'
<1>1. GoesOn(c, "idle", None) /\ lock' \in [Machines -> Cmds \cup {None}]
  BY Unlocked DEF Ends, Shape
<1> QED BY <1>1, NothingInHand, QuietStep

(* What a command read or was given is a job of its own.                    *)
LEMMA HasJob ==
  ASSUME Shape, NEW c \in Cmds, pc[c] # "idle"
  PROVE  my[c] \in Job /\ Fit(pc[c], my[c])
BY DEF Shape, AllFit, Fit

-----------------------------------------------------------------------------
(* The steps, one by one.                                                   *)

(* A command begins with what the operator gave it, and nothing in hand.    *)
LEMMA StartShape ==
  ASSUME Shape, NEW c \in Cmds, Start(c)
  PROVE  Shape'
<1> USE ValidatorsAssumption
<1>1. PICK op \in scene.ops, at \in scene.machines, name \in Names, addr \in Addresses \cup {None},
           spare \in BOOLEAN :
        GoesOn(c, "vals", [op |-> op, at |-> at, name |-> name, addr |-> addr, spare |-> spare,
                           v |-> 0, val |-> None, h |-> 0, host |-> None, pw |-> 0])
  <2>1. scene \in Scene
    BY DEF Shape, TypeOK
  <2> QED BY <2>1 DEF Start, Scene
<1> DEFINE j == [op |-> op, at |-> at, name |-> name, addr |-> addr, spare |-> spare,
                 v |-> 0, val |-> None, h |-> 0, host |-> None, pw |-> 0]
<1>2. op \in Ops /\ at \in Machines
  BY DEF Shape, TypeOK, Scene
<1>3. j \in Job
  BY <1>2 DEF Job
<1>4. Fit("vals", j) /\ "vals" \in Place
  BY <1>3 DEF Fit, Makes, AddsVal, AddsHost, OnServer, Writes, OnTheChain, Place
<1>5. lock' \in [Machines -> Cmds \cup {None}] /\ UNCHANGED <<vault, accounts, nodes>> /\ pc[c] # "follow"
  BY DEF Start, Shape, TypeOK
<1> HIDE DEF j
<1> QED BY <1>1, <1>3, <1>4, <1>5, QuietStep DEF j

(* An item that was found by its validator's name is one there is.           *)
LEMMA ValFound ==
  ASSUME Shape, NEW name, NEW v \in Named(vals, name)
  PROVE  v \in DOMAIN vals /\ vals[v] \in Validator /\ v \in Nat
<1>1. v \in DOMAIN vals
  BY DEF Named
<1>2. vals \in Seq(Validator)
  BY DEF Shape, TypeOK
<1> QED BY <1>1, <1>2

(* Likewise for a host.                                                     *)
LEMMA HostFound ==
  ASSUME Shape, NEW name, NEW h \in Named(hosts, name)
  PROVE  h \in DOMAIN hosts /\ hosts[h] \in Host /\ h \in Nat
<1>1. h \in DOMAIN hosts
  BY DEF Named
<1>2. hosts \in Seq(Host)
  BY DEF Shape, TypeOK
<1> QED BY <1>1, <1>2

(* The other of two authorities is one.                                     *)
LEMMA OtherAuthority == \A a \in 1..2 : 3 - a \in 1..2
OBVIOUS

(* Reading the validators.                                                  *)
LEMMA ReadValsShape ==
  ASSUME Shape, NEW c \in Cmds, ReadVals(c)
  PROVE  Shape'
<1> USE DEF ReadVals
<1> DEFINE name == my[c].name
<1>1. my[c] \in Job /\ pc[c] = "vals" /\ pc[c] # "follow" /\ UNCHANGED <<vault, accounts, nodes>>
  BY HasJob
<1>2. lock \in [Machines -> Cmds \cup {None}] /\ vals \in Seq(Validator)
  BY DEF Shape, TypeOK
<1>3. CASE my[c].op \in {"init", "deploy"} /\ UNCHANGED lock /\ Goes(c, "hosts")
  <2>1. Fit("hosts", my[c]) /\ "hosts" \in Place
    BY <1>1 DEF Fit, Makes, AddsVal, AddsHost, OnServer, Writes, OnTheChain, Place
  <2> QED BY <1>1, <1>2, <1>3, <2>1, QuietStep DEF Goes
<1>4. ASSUME NEW v \in Named(vals, name), UNCHANGED lock,
             GoesOn(c, "hosts", [my[c] EXCEPT !.v = v])
      PROVE  Shape'
  <2> DEFINE j == [my[c] EXCEPT !.v = v]
  <2>1. j \in Job
    BY <1>1, ValFound DEF Job
  <2>2. Fit("hosts", j) /\ "hosts" \in Place
    BY <2>1 DEF Fit, Makes, AddsVal, AddsHost, OnServer, Writes, OnTheChain, Place
  <2> HIDE DEF j
  <2> QED BY <1>1, <1>2, <1>4, <2>1, <2>2, QuietStep DEF j
<1>5. ASSUME my[c].op = "keys", NEW v \in Named(vals, name), UNCHANGED lock,
             GoesOn(c, "waitPut", [my[c] EXCEPT !.v = v, !.val = [vals[v] EXCEPT !.auth = 3 - @]])
      PROVE  Shape'
  <2> DEFINE new == [vals[v] EXCEPT !.auth = 3 - @]
             j == [my[c] EXCEPT !.v = v, !.val = new]
  <2>1. v \in DOMAIN vals /\ vals[v] \in Validator /\ v \in Nat
    BY ValFound
  <2>2. new \in Validator /\ new.vote = vals[v].vote /\ new.ref = vals[v].ref
    <3>1. \A a \in 1..2 : 3 - a \in 1..2
      BY OtherAuthority
    <3>3. vals[v].auth \in 1..2
      BY <2>1, Zenon DEF Validator
    <3>2. new = [vals[v] EXCEPT !.auth = 3 - vals[v].auth]
      BY <2>1 DEF Validator
    <3> HIDE DEF new
    <3> QED BY <2>1, <3>1, <3>2, <3>3 DEF Validator
  <2>3. Full(new)
    BY <2>1, <2>2 DEF Shape, AllFull, Full
  <2> HIDE DEF new
  <2>4. j \in Job /\ j.op = "keys" /\ j.val = new /\ j.v = v
    BY <1>1, <1>5, <2>1, <2>2 DEF Job
  <2>5. Fit("waitPut", j) /\ "waitPut" \in Place
    BY <2>1, <2>2, <2>3, <2>4
    DEF Fit, Makes, AddsVal, AddsHost, OnServer, Writes, OnTheChain, Place, ValInHand, Waits
  <2> HIDE DEF j
  <2> QED BY <1>1, <1>2, <1>5, <2>4, <2>5, QuietStep DEF j, new
<1>6. ASSUME my[c].op = "vote", NEW v \in Named(vals, name), UNCHANGED lock,
             GoesOn(c, "chain", [my[c] EXCEPT !.v = v, !.val = vals[v]])
      PROVE  Shape'
  <2> DEFINE j == [my[c] EXCEPT !.v = v, !.val = vals[v]]
  <2>1. v \in DOMAIN vals /\ vals[v] \in Validator /\ v \in Nat
    BY ValFound
  <2>2. Full(vals[v])
    BY <2>1 DEF Shape, AllFull
  <2>3. j \in Job /\ j.op = "vote" /\ j.val = vals[v] /\ j.v = v
    BY <1>1, <1>6, <2>1 DEF Job
  <2>4. Fit("chain", j) /\ "chain" \in Place
    BY <2>1, <2>2, <2>3
    DEF Fit, Makes, AddsVal, AddsHost, OnServer, Writes, OnTheChain, Place, ValInHand
  <2> HIDE DEF j
  <2> QED BY <1>1, <1>2, <1>6, <2>3, <2>4, QuietStep DEF j
<1>7. CASE Ends(c)
  BY <1>1, <1>7, EndStep
<1> QED BY <1>3, <1>4, <1>5, <1>6, <1>7

(* The plan of an init has the host that is resumed, or new items, in hand. *)
LEMMA PlanShape ==
  ASSUME Shape, NEW c \in Cmds, pc[c] = "hosts", my[c].op = "init", Plan(c),
         UNCHANGED <<vault, accounts, nodes>>
  PROVE  Shape'
<1> DEFINE on == [my[c] EXCEPT !.addr = None, !.spare = FALSE, !.v = 0, !.val = None]
<1>1. my[c] \in Job /\ pc[c] # "follow"
  BY HasJob
<1>2. lock \in [Machines -> Cmds \cup {None}] /\ hosts \in Seq(Host)
  BY DEF Shape, TypeOK
<1>3. on \in Job /\ on.op = "init" /\ on.at = my[c].at /\ on.name = my[c].name
  BY <1>1 DEF Job
<1>4. ASSUME NEW h \in Resumed(my[c].name, my[c].addr), UNCHANGED lock,
             GoesOn(c, "password", [on EXCEPT !.h = h, !.host = hosts[h]])
      PROVE  Shape'
  <2> HIDE DEF on
  <2> DEFINE j == [on EXCEPT !.h = h, !.host = hosts[h]]
  <2>1. h \in DOMAIN hosts
    BY DEF Resumed, Pending, Named
  <2>2. hosts[h] \in Host /\ h \in Nat
    BY <1>2, <2>1
  <2>3. j \in Job /\ j.op = "init" /\ j.host = hosts[h] /\ j.h = h
    BY <1>3, <2>2 DEF Job
  <2>4. Fit("password", j) /\ "password" \in Place
    BY <2>1, <2>2, <2>3
    DEF Fit, Makes, AddsVal, AddsHost, OnServer, Writes, OnTheChain, Place, StoredInHand, HostOps
  <2> HIDE DEF j
  <2> QED BY <1>1, <1>2, <1>4, <2>3, <2>4, QuietStep DEF j
<1>5. ASSUME NEW n \in NextName(my[c].name), my[c].addr # None
      PROVE  LET new == NewHost(my[c], n) IN new \in Host /\ new.by = my[c].at
  <2>1. n \in Nat
    BY <1>2 DEF NextName
  <2>2. my[c].addr \in Addresses /\ my[c].name \in Names /\ my[c].at \in Machines /\ my[c].spare \in BOOLEAN
    BY <1>1, <1>5 DEF Job
  <2>3. (~my[c].spare) \in BOOLEAN
    BY <2>2
  <2> QED BY <2>1, <2>2, <2>3 DEF NewHost, Host
<1>6. ASSUME NEW n \in NextName(my[c].name), my[c].addr # None, UNCHANGED lock,
             GoesOn(c, "find", [on EXCEPT !.val = NewVal(my[c]), !.host = NewHost(my[c], n)])
      PROVE  Shape'
  <2> HIDE DEF on
  <2> DEFINE j == [on EXCEPT !.val = NewVal(my[c]), !.host = NewHost(my[c], n)]
  <2>1. LET val == NewVal(my[c]) IN
          val \in Validator /\ val.ref /\ val.by = my[c].at /\ val.name = my[c].name
    BY <1>1 DEF NewVal, Validator, Job
  <2>2. /\ j \in Job /\ j.op = "init" /\ j.at = my[c].at /\ j.name = my[c].name
        /\ j.val = NewVal(my[c]) /\ j.host = NewHost(my[c], n)
    BY <1>3, <1>5, <1>6, <2>1 DEF Job
  <2> HIDE DEF j
  <2>3. Fit("find", j) /\ "find" \in Place
    BY <1>5, <1>6, <2>1, <2>2
    DEF Fit, Makes, AddsVal, AddsHost, OnServer, Writes, OnTheChain, Place, NewInHand, HostInHand
  <2> QED BY <1>1, <1>2, <1>6, <2>2, <2>3, QuietStep DEF j
<1>7. ASSUME NEW n \in NextName(my[c].name), my[c].addr # None, UNCHANGED lock,
             GoesOn(c, "waitHost", [on EXCEPT !.host = NewHost(my[c], n)])
      PROVE  Shape'
  <2> HIDE DEF on
  <2> DEFINE j == [on EXCEPT !.host = NewHost(my[c], n)]
  <2>1. j \in Job /\ j.op = "init" /\ j.at = my[c].at /\ j.host = NewHost(my[c], n)
    BY <1>3, <1>5, <1>7 DEF Job
  <2> HIDE DEF j
  <2>2. Fit("waitHost", j) /\ "waitHost" \in Place
    BY <1>5, <1>7, <2>1
    DEF Fit, Makes, AddsVal, AddsHost, OnServer, Writes, OnTheChain, Place, HostInHand, Waits
  <2> QED BY <1>1, <1>2, <1>7, <2>1, <2>2, QuietStep DEF j
<1>8. CASE Ends(c)
  BY <1>1, <1>8, EndStep
<1> QED BY <1>4, <1>6, <1>7, <1>8 DEF Plan

(* Reading the hosts, for an init and for a deploy.                         *)
LEMMA ReadHostsShape ==
  ASSUME Shape, NEW c \in Cmds, ReadHosts(c)
  PROVE  Shape'
<1> USE DEF ReadHosts
<1>1. my[c] \in Job /\ pc[c] # "follow" /\ UNCHANGED <<vault, accounts, nodes>>
  BY HasJob
<1>2. lock \in [Machines -> Cmds \cup {None}] /\ hosts \in Seq(Host)
  BY DEF Shape, TypeOK
<1>3. ASSUME my[c].op = "deploy", NEW h \in Named(hosts, my[c].name), NEW p \in {"waitPut", "run"},
             UNCHANGED lock, GoesOn(c, p, [my[c] EXCEPT !.h = h, !.host = hosts[h], !.v = 0])
      PROVE  Shape'
  <2> DEFINE j == [my[c] EXCEPT !.h = h, !.host = hosts[h], !.v = 0]
  <2>1. h \in DOMAIN hosts /\ hosts[h] \in Host /\ h \in Nat
    BY HostFound
  <2>2. j \in Job /\ j.op = "deploy" /\ j.host = hosts[h] /\ j.h = h
    BY <1>1, <1>3, <2>1 DEF Job
  <2> HIDE DEF j
  <2>3. Fit(p, j) /\ p \in Place
    BY <2>1, <2>2
    DEF Fit, Makes, AddsVal, AddsHost, OnServer, Writes, OnTheChain, Place, Waits, StoredInHand, HostOps
  <2> QED BY <1>1, <1>2, <1>3, <2>2, <2>3, QuietStep DEF j
<1>4. CASE my[c].op = "deploy" /\ Pick(c)
  BY <1>1, <1>3, <1>4, EndStep DEF Pick
<1>5. CASE my[c].op = "init" /\ Plan(c)
  BY <1>1, <1>5, PlanShape
<1> QED BY <1>4, <1>5

(* A resumed host's password is read.                                       *)
LEMMA ReadPasswordShape ==
  ASSUME Shape, NEW c \in Cmds, ReadPassword(c)
  PROVE  Shape'
<1> DEFINE h == my[c].h
           j == [my[c] EXCEPT !.pw = hosts[h].pw]
<1>1. my[c] \in Job /\ Fit("password", my[c]) /\ pc[c] # "follow" /\ UNCHANGED <<vault, accounts, nodes>>
  BY HasJob DEF ReadPassword
<1>2. lock' \in [Machines -> Cmds \cup {None}] /\ hosts \in Seq(Host)
  BY DEF Shape, TypeOK, ReadPassword
<1>3. my[c].op \in {"init", "deploy"} /\ my[c].host \in Host /\ h \in DOMAIN hosts
  BY <1>1 DEF Fit, StoredInHand, OnServer, HostOps
<1>4. hosts[h] \in Host
  BY <1>2, <1>3
<1>5. hosts[h].pw \in Nat
  BY <1>4 DEF Host
<1> HIDE DEF h
<1>6. j \in Job /\ j.op = my[c].op /\ j.host = my[c].host /\ j.h = h
  BY <1>1, <1>5 DEF Job, h
<1> HIDE DEF j
<1>7. Fit("run", j) /\ "run" \in Place
  BY <1>3, <1>6
  DEF Fit, Makes, AddsVal, AddsHost, OnServer, Writes, OnTheChain, Place, Waits, StoredInHand, HostOps
<1>8. GoesOn(c, "run", j)
  BY DEF ReadPassword, j, h
<1> QED BY <1>1, <1>2, <1>6, <1>7, <1>8, QuietStep

(* The job that a key becomes part of.                                      *)
LEMMA KeyInHand ==
  ASSUME NEW job \in Job, NewInHand(job), HostInHand(job), NEW k \in Nat
  PROVE  /\ With(job, k) \in Job /\ NewInHand(With(job, k)) /\ HostInHand(With(job, k))
         /\ job.val.identity # 0 => With(job, k).val.vote = k
<1> DEFINE val == job.val
           new == IF val.identity = 0 THEN [val EXCEPT !.identity = k] ELSE [val EXCEPT !.vote = k]
           j == [job EXCEPT !.val = new]
<1>1. val \in Validator /\ val.ref /\ val.by = job.at /\ val.name = job.name
  BY DEF NewInHand
<1>2. new \in Validator /\ new.ref /\ new.by = job.at /\ new.name = job.name
  BY <1>1 DEF Validator
<1>3. val.identity # 0 => new.vote = k
  BY <1>1 DEF Validator
<1>4. With(job, k) = j
  BY DEF With, Job
<1> HIDE DEF new
<1>5. /\ j \in Job /\ j.val = new /\ j.op = job.op /\ j.host = job.host /\ j.at = job.at
      /\ j.name = job.name
  BY <1>2 DEF Job
<1> HIDE DEF j
<1>6. NewInHand(j) /\ HostInHand(j)
  BY <1>2, <1>5 DEF NewInHand, HostInHand
<1> QED BY <1>3, <1>4, <1>5, <1>6

(* What a command has in hand while it makes keys.                          *)
LEMMA MakesFit ==
  ASSUME Shape, NEW c \in Cmds, pc[c] \in Makes
  PROVE  my[c] \in Job /\ NewInHand(my[c]) /\ HostInHand(my[c]) /\ pc[c] # "follow"
BY HasJob DEF Fit, Makes

(* Looking for a key by its title.                                          *)
LEMMA FindKeyShape ==
  ASSUME Shape, NEW c \in Cmds, FindKey(c)
  PROVE  Shape'
<1> DEFINE p == IF my[c].val.identity = 0 THEN "find" ELSE "waitVal"
<1>1. my[c] \in Job /\ NewInHand(my[c]) /\ HostInHand(my[c]) /\ pc[c] # "follow"
  BY MakesFit DEF FindKey, Makes
<1>2. lock' \in [Machines -> Cmds \cup {None}] /\ UNCHANGED <<vault, accounts, nodes>>
  BY DEF Shape, TypeOK, FindKey
<1>3. ASSUME NEW k \in KeysOf(my[c].name, Wanted(my[c])), GoesOn(c, p, With(my[c], k))
      PROVE  Shape'
  <2>1. k \in DOMAIN keys /\ ~keys[k].gone /\ k \in Nat
    <3>1. keys \in Seq(Key)
      BY DEF Shape, TypeOK
    <3>2. k \in DOMAIN keys /\ ~keys[k].gone
      BY DEF KeysOf
    <3> QED BY <3>1, <3>2
  <2> DEFINE j == With(my[c], k)
  <2>2. j \in Job /\ NewInHand(j) /\ HostInHand(j) /\ (my[c].val.identity # 0 => j.val.vote = k)
    BY <1>1, <2>1, KeyInHand
  <2> HIDE DEF j
  <2>4. my[c].val.identity # 0 => Full(j.val)
    BY <2>1, <2>2 DEF Full, NewInHand
  <2>5. Fit(p, j)
    BY <2>2, <2>4 DEF Fit, Makes, AddsVal, AddsHost, OnServer, Writes, OnTheChain
  <2>3. p \in Place
    BY DEF Place, Waits
  <2> HIDE DEF p
  <2> QED BY <1>1, <1>2, <1>3, <2>2, <2>3, <2>5, QuietStep DEF j
<1>4. CASE Goes(c, "list")
  <2>1. Fit("list", my[c]) /\ "list" \in Place
    BY <1>1 DEF Fit, Makes, AddsVal, AddsHost, OnServer, Writes, OnTheChain, Place
  <2> QED BY <1>1, <1>2, <1>4, <2>1, QuietStep DEF Goes
<1> QED BY <1>3, <1>4 DEF FindKey, HasKey

(* Looking whether the title of a new key is taken.                         *)
LEMMA ListKeysShape ==
  ASSUME Shape, NEW c \in Cmds, ListKeys(c)
  PROVE  Shape'
<1>1. my[c] \in Job /\ NewInHand(my[c]) /\ HostInHand(my[c]) /\ pc[c] # "follow"
  BY MakesFit DEF ListKeys, Makes
<1>2. lock \in [Machines -> Cmds \cup {None}] /\ UNCHANGED <<vault, accounts, nodes>>
  BY DEF Shape, TypeOK, ListKeys
<1>3. CASE Goes(c, "make") /\ UNCHANGED lock
  <2>1. Fit("make", my[c]) /\ "make" \in Place
    BY <1>1 DEF Fit, Makes, AddsVal, AddsHost, OnServer, Writes, OnTheChain, Place
  <2> QED BY <1>1, <1>2, <1>3, <2>1, QuietStep DEF Goes
<1>4. CASE Ends(c)
  BY <1>1, <1>2, <1>4, EndStep
<1> QED BY <1>3, <1>4 DEF ListKeys

(* The lock is had, and what is read under it is as good as before.          *)
LEMMA TakeLockShape ==
  ASSUME Shape, NEW c \in Cmds, TakeLock(c)
  PROVE  Shape'
<1>1. my[c] \in Job /\ Fit(pc[c], my[c]) /\ pc[c] # "follow" /\ UNCHANGED <<vault, accounts, nodes>>
  BY HasJob DEF TakeLock, Waits
<1>2. lock' \in [Machines -> Cmds \cup {None}]
  BY DEF Shape, TypeOK, TakeLock
<1>3. Fit(Behind(pc[c]), my[c]) /\ Behind(pc[c]) \in Place
  BY <1>1
  DEF Fit, Makes, AddsVal, AddsHost, OnServer, Writes, OnTheChain, Place, Waits, Alone, Behind, TakeLock
<1> QED BY <1>1, <1>2, <1>3, QuietStep DEF Goes, TakeLock

(* Looking whether a new item would clash.                                  *)
LEMMA CheckShape ==
  ASSUME Shape, NEW c \in Cmds, CheckVal(c) \/ CheckHost(c)
  PROVE  Shape'
<1>1. my[c] \in Job /\ Fit(pc[c], my[c]) /\ pc[c] # "follow" /\ UNCHANGED <<vault, accounts, nodes>>
  BY HasJob DEF CheckVal, CheckHost
<1>2. lock \in [Machines -> Cmds \cup {None}]
  BY DEF Shape, TypeOK
<1>3. CASE pc[c] = "checkVal" /\ Goes(c, "addVal") /\ UNCHANGED lock
  <2>1. Fit("addVal", my[c]) /\ "addVal" \in Place
    BY <1>1, <1>3 DEF Fit, Makes, AddsVal, AddsHost, OnServer, Writes, OnTheChain, Place, Alone
  <2> QED BY <1>1, <1>2, <1>3, <2>1, QuietStep DEF Goes
<1>4. CASE pc[c] = "checkHost" /\ Goes(c, "addHost") /\ UNCHANGED lock
  <2>1. Fit("addHost", my[c]) /\ "addHost" \in Place
    BY <1>1, <1>4 DEF Fit, Makes, AddsVal, AddsHost, OnServer, Writes, OnTheChain, Place, Alone
  <2> QED BY <1>1, <1>2, <1>4, <2>1, QuietStep DEF Goes
<1>5. CASE Ends(c)
  BY <1>1, <1>5, EndStep
<1> QED BY <1>3, <1>4, <1>5 DEF CheckVal, CheckHost

(* Reading an item again before writing it.                                 *)
LEMMA GetShape ==
  ASSUME Shape, NEW c \in Cmds, Get(c)
  PROVE  Shape'
<1> DEFINE h == my[c].h
           j == IF OnHost(c) THEN [my[c] EXCEPT !.pw = hosts[h].pw] ELSE my[c]
<1>1. my[c] \in Job /\ Fit("get", my[c]) /\ pc[c] # "follow" /\ UNCHANGED <<vault, accounts, nodes>>
  BY HasJob DEF Get
<1>2. lock \in [Machines -> Cmds \cup {None}] /\ hosts \in Seq(Host)
  BY DEF Shape, TypeOK
<1>3. StoredInHand(my[c]) \/ ValInHand(my[c])
  BY <1>1 DEF Fit, Writes
<1>4. OnHost(c) => StoredInHand(my[c])
  BY <1>3 DEF OnHost, HostOps, ValInHand
<1>5. OnHost(c) => hosts[h] \in Host
  BY <1>2, <1>4 DEF StoredInHand
<1>6. OnHost(c) => hosts[h].pw \in Nat
  BY <1>5 DEF Host
<1> HIDE DEF h
<1>7. j \in Job /\ j.op = my[c].op /\ j.host = my[c].host /\ j.h = my[c].h /\ j.val = my[c].val /\ j.v = my[c].v
  BY <1>1, <1>6 DEF Job
<1> HIDE DEF j
<1>8. StoredInHand(j) \/ ValInHand(j)
  BY <1>3, <1>7 DEF StoredInHand, ValInHand
<1>9. Fit("put", j) /\ "put" \in Place
  BY <1>7, <1>8 DEF Fit, Makes, AddsVal, AddsHost, OnServer, Writes, OnTheChain, Place, Alone
<1>10. CASE GoesOn(c, "put", j) /\ UNCHANGED lock
  BY <1>1, <1>2, <1>7, <1>9, <1>10, QuietStep
<1>11. CASE Ends(c)
  BY <1>1, <1>11, EndStep
<1> QED BY <1>10, <1>11 DEF Get, j, h

(* Reading the vote account: what was there before need not be made.        *)
LEMMA ReadChainShape ==
  ASSUME Shape, NEW c \in Cmds, ReadChain(c)
  PROVE  Shape'
<1>1. my[c] \in Job /\ Fit("chain", my[c]) /\ pc[c] # "follow" /\ UNCHANGED <<vault, accounts, nodes>>
  BY HasJob DEF ReadChain
<1>2. lock \in [Machines -> Cmds \cup {None}]
  BY DEF Shape, TypeOK
<1>3. ValInHand(my[c]) /\ my[c].op = "vote"
  BY <1>1 DEF Fit, OnTheChain
<1>4. CASE Goes(c, "create") /\ UNCHANGED lock
  <2>1. Fit("create", my[c]) /\ "create" \in Place
    BY <1>1, <1>3 DEF Fit, Makes, AddsVal, AddsHost, OnServer, Writes, OnTheChain, Place
  <2> QED BY <1>1, <1>2, <1>4, <2>1, QuietStep DEF Goes
<1>5. ASSUME NEW a \in OnChain(my[c].val.vote), UNCHANGED lock,
             Goes(c, IF a.bls THEN "forget" ELSE "bls")
      PROVE  Shape'
  <2>1. OnChain(my[c].val.vote) # {} /\ (a.bls => HasBls(my[c].val.vote))
    BY DEF OnChain, HasBls
  <2>2. "bls" \in Place /\ "forget" \in Place
    BY DEF Place
  <2>3. Fit("bls", my[c])
    BY <1>1, <1>3, <2>1 DEF Fit, Makes, AddsVal, AddsHost, OnServer, Writes, OnTheChain
  <2>4. a.bls => Fit("forget", my[c])
    BY <1>1, <1>3, <2>1 DEF Fit, Makes, AddsVal, AddsHost, OnServer, Writes, OnTheChain
  <2>5. CASE a.bls
    BY <1>1, <1>2, <1>5, <2>2, <2>4, <2>5, QuietStep DEF Goes
  <2>6. CASE ~a.bls
    BY <1>1, <1>2, <1>5, <2>2, <2>3, <2>6, QuietStep DEF Goes
  <2> QED BY <2>5, <2>6
<1>6. CASE Ends(c)
  BY <1>1, <1>6, EndStep
<1> QED BY <1>4, <1>5, <1>6 DEF ReadChain

-----------------------------------------------------------------------------
(* The steps that write.                                                    *)

(* A step that writes, and lets the rest only grow.                         *)
LEMMA WritingStep ==
  ASSUME Shape, NEW c \in Cmds, NEW p \in Place, NEW j \in Job \cup {None},
         GoesOn(c, p, j), Fit(p, j)', Grows, UNCHANGED settled,
         vals' \in Seq(Validator), hosts' \in Seq(Host), keys' \in Seq(Key),
         accounts' \subseteq Account, solv' \in [Addresses -> Nat],
         runs' \in [Addresses -> Run \cup {None}], lock' \in [Machines -> Cmds \cup {None}],
         AllFull', Followed'
  PROVE  Shape'
<1>1. /\ pc' \in [Cmds -> Place] /\ my' \in [Cmds -> Job \cup {None}]
      /\ pc'[c] = p /\ my'[c] = j /\ OnlyOf(c)
  BY WentOn DEF Shape
<1>2. TypeOK'
  BY <1>1 DEF Shape, TypeOK, settled
<1>3. Fit(pc[c], my[c])'
  BY <1>1 DEF Fit, NewInHand, HostInHand, StoredInHand, ValInHand, Full, HasBls, OnChain
<1>4. AllFit' /\ LateFit'
  BY <1>1, <1>3, OthersStay, LateStays DEF Shape, settled
<1> QED BY <1>2, <1>4 DEF Shape

(* The validators that stay as they are stay full.                          *)
LEMMA AllFullStays ==
  ASSUME Shape, Grows, vals' = vals
  PROVE  AllFull'
<1> SUFFICES ASSUME NEW v \in DOMAIN vals PROVE Full(vals[v])'
  BY DEF AllFull
<1>1. \A val : Full(val) => Full(val)'
  BY FullStays
<1>2. PICK val : val = vals[v]
  OBVIOUS
<1>3. Full(val)
  BY <1>2 DEF Shape, AllFull
<1>4. Full(val)'
  BY <1>1, <1>3
<1> QED BY <1>2, <1>4 DEF Full, HasBls

(* A key that was made is there for the item that names it.                 *)
LEMMA MakeKeyShape ==
  ASSUME Shape, NEW c \in Cmds, MakeKey(c)
  PROVE  Shape'
<1> DEFINE new == NewKey(my[c])
           k == Len(keys) + 1
           p == IF my[c].val.identity = 0 THEN "find" ELSE "waitVal"
<1>1. my[c] \in Job /\ NewInHand(my[c]) /\ HostInHand(my[c]) /\ pc[c] # "follow"
  BY MakesFit DEF MakeKey, Makes
<1>2. keys \in Seq(Key)
  BY DEF Shape, TypeOK
<1>3. new \in Key
  BY <1>1 DEF Key, NewKey, Wanted, Job
<1>4. keys' = Append(keys, new) /\ GoesOn(c, p, With(my[c], k))
  BY DEF MakeKey, HasKey
<1>5. UNCHANGED <<settled, vals, hosts, accounts, solv, runs, lock>>
  BY DEF MakeKey, nodes
<1> HIDE DEF new
<1>6. /\ keys' \in Seq(Key) /\ k \in DOMAIN keys' /\ keys'[k] = new /\ k \in Nat
      /\ DOMAIN keys \subseteq DOMAIN keys' /\ \A i \in DOMAIN keys : keys'[i] = keys[i]
  BY <1>2, <1>3, <1>4
<1>7. Grows
  BY <1>5, <1>6 DEF Grows
<1>8. ~keys'[k].gone
  BY <1>6 DEF new, NewKey
<1> HIDE DEF k
<1>9. PICK j \in Job : /\ j = With(my[c], k) /\ NewInHand(j) /\ HostInHand(j)
                       /\ my[c].val.identity # 0 => j.val.vote = k
  BY <1>1, <1>6, KeyInHand
<1>10. my[c].val.identity # 0 => Full(j.val)'
  BY <1>6, <1>8, <1>9 DEF Full, NewInHand
<1> DEFINE first == my[c].val.identity = 0
<1>11. (first => Fit("find", j)') /\ (~first => Fit("waitVal", j)')
  BY <1>9, <1>10
  DEF Fit, Makes, AddsVal, AddsHost, OnServer, Writes, OnTheChain, NewInHand, HostInHand
<1>12. AllFull' /\ Followed'
  <2>1. OnlyOf(c)
    BY <1>4 DEF GoesOn, OnlyOf, Shape, TypeOK
  <2> QED BY <1>1, <1>5, <1>7, <2>1, AllFullStays, FollowedStays
<1>13. "find" \in Place /\ "waitVal" \in Place
  BY DEF Place, Waits
<1>14. (first => GoesOn(c, "find", j)) /\ (~first => GoesOn(c, "waitVal", j))
  BY <1>4, <1>9
<1> HIDE DEF first
<1>15. CASE first
  BY <1>5, <1>6, <1>7, <1>11, <1>12, <1>13, <1>14, <1>15, WritingStep DEF Shape, TypeOK
<1>16. CASE ~first
  BY <1>5, <1>6, <1>7, <1>11, <1>12, <1>13, <1>14, <1>16, WritingStep DEF Shape, TypeOK
<1> QED BY <1>15, <1>16

(* A validator that is stored is full.                                      *)
LEMMA AddValShape ==
  ASSUME Shape, NEW c \in Cmds, AddVal(c)
  PROVE  Shape'
<1>1. my[c] \in Job /\ Fit("addVal", my[c]) /\ pc[c] # "follow"
  BY HasJob DEF AddVal
<1>2. NewInHand(my[c]) /\ HostInHand(my[c]) /\ Full(my[c].val)
  BY <1>1 DEF Fit, AddsVal
<1>3. PICK val : val = my[c].val
  OBVIOUS
<1>4. PICK j : j = [my[c] EXCEPT !.val = None]
  OBVIOUS
<1>5. val \in Validator /\ Full(val)
  BY <1>2, <1>3 DEF NewInHand
<1>6. j \in Job /\ HostInHand(j)
  BY <1>1, <1>2, <1>4 DEF Job, HostInHand
<1>7. vals \in Seq(Validator) /\ lock' \in [Machines -> Cmds \cup {None}]
  BY Unlocked DEF Shape, TypeOK, AddVal
<1>8. vals' = Append(vals, val) /\ UNCHANGED <<settled, hosts, keys, accounts, solv, runs>>
  BY <1>3 DEF AddVal, nodes
<1>9. /\ vals' \in Seq(Validator) /\ DOMAIN vals \subseteq DOMAIN vals'
      /\ \A v \in DOMAIN vals' : vals'[v] = val \/ (v \in DOMAIN vals /\ vals'[v] = vals[v])
  <2>1. DOMAIN vals = 1..Len(vals) /\ Len(vals) \in Nat
    BY <1>7
  <2>2. vals' \in Seq(Validator) /\ DOMAIN vals' = 1..(Len(vals) + 1)
    BY <1>5, <1>7, <1>8
  <2>3. \A v \in DOMAIN vals : vals'[v] = vals[v]
    BY <1>7, <1>8
  <2>4. vals'[Len(vals) + 1] = val
    BY <1>7, <1>8
  <2>5. \A v \in DOMAIN vals' : v \in DOMAIN vals \/ v = Len(vals) + 1
    BY <2>1, <2>2
  <2> QED BY <2>1, <2>2, <2>3, <2>4, <2>5
<1>10. Grows
  BY <1>8, <1>9 DEF Grows
<1>11. AllFull'
  BY <1>5, <1>8, <1>9 DEF Shape, AllFull, Full, HasBls
<1>12. GoesOn(c, "waitHost", j) /\ OnlyOf(c)
  BY <1>4 DEF AddVal, GoesOn, OnlyOf, Shape, TypeOK
<1>13. Followed'
  BY <1>1, <1>8, <1>12, FollowedStays
<1>14. Fit("waitHost", j)' /\ "waitHost" \in Place
  BY <1>6
  DEF Fit, Makes, AddsVal, AddsHost, OnServer, Writes, OnTheChain, Place, Waits, HostInHand
<1> QED BY <1>6, <1>7, <1>8, <1>9, <1>10, <1>11, <1>12, <1>13, <1>14, WritingStep DEF Shape, TypeOK

(* A host that is stored is in hand with its new id.                        *)
LEMMA AddHostShape ==
  ASSUME Shape, NEW c \in Cmds, AddHost(c)
  PROVE  Shape'
<1>1. my[c] \in Job /\ Fit("addHost", my[c]) /\ pc[c] # "follow"
  BY HasJob DEF AddHost
<1>2. HostInHand(my[c])
  BY <1>1 DEF Fit, AddsHost
<1>3. hosts \in Seq(Host) /\ lock' \in [Machines -> Cmds \cup {None}]
  BY Unlocked DEF Shape, TypeOK, AddHost
<1>4. PICK id \in Nat : id = Len(hosts) + 1
  BY <1>3
<1>5. PICK new : new = [my[c].host EXCEPT !.pw = id]
  OBVIOUS
<1>6. PICK j : j = [my[c] EXCEPT !.h = id, !.host = new, !.pw = id]
  OBVIOUS
<1>7. new \in Host
  BY <1>2, <1>5 DEF HostInHand, Host
<1>8. j \in Job /\ j.op = "init" /\ j.host = new /\ j.h = id
  BY <1>1, <1>2, <1>6, <1>7 DEF Job, HostInHand
<1>9. /\ hosts' = Append(hosts, new) /\ GoesOn(c, "run", j)
      /\ UNCHANGED <<settled, vals, keys, accounts, solv, runs>>
  BY <1>4, <1>5, <1>6 DEF AddHost, nodes
<1>10. hosts' \in Seq(Host) /\ id \in DOMAIN hosts' /\ DOMAIN hosts \subseteq DOMAIN hosts'
  BY <1>3, <1>4, <1>7, <1>9
<1>11. Grows
  BY <1>9, <1>10 DEF Grows
<1>12. Fit("run", j)' /\ "run" \in Place
  BY <1>7, <1>8, <1>10
  DEF Fit, Makes, AddsVal, AddsHost, OnServer, Writes, OnTheChain, Place, StoredInHand, HostOps
<1>13. OnlyOf(c)
  BY <1>9 DEF GoesOn, OnlyOf, Shape, TypeOK
<1>14. AllFull' /\ Followed'
  BY <1>1, <1>9, <1>11, <1>13, AllFullStays, FollowedStays
<1> QED BY <1>3, <1>8, <1>9, <1>10, <1>11, <1>12, <1>14, WritingStep DEF Shape, TypeOK

(* Writing over a host.                                                     *)
LEMMA PutHostShape ==
  ASSUME Shape, NEW c \in Cmds, Put(c), OnHost(c)
  PROVE  Shape'
<1>1. my[c] \in Job /\ Fit("put", my[c]) /\ pc[c] # "follow"
  BY HasJob DEF Put
<1>2. StoredInHand(my[c])
  BY <1>1 DEF Fit, Writes, ValInHand, OnHost, HostOps
<1>3. hosts \in Seq(Host) /\ lock' \in [Machines -> Cmds \cup {None}]
  BY Unlocked DEF Shape, TypeOK, Put
<1>4. PICK h : h = my[c].h
  OBVIOUS
<1>5. PICK new : new = [my[c].host EXCEPT !.solv = TRUE, !.pw = my[c].pw, !.last = my[c].at,
                                          !.ver = hosts[h].ver + 1]
  OBVIOUS
<1>6. h \in DOMAIN hosts /\ hosts[h] \in Host /\ my[c].host \in Host
  BY <1>2, <1>3, <1>4 DEF StoredInHand
<1>7. hosts[h].ver \in Nat /\ my[c].pw \in Nat /\ my[c].at \in Machines
  BY <1>1, <1>6 DEF Host, Job
<1>8. new \in Host
  <2>1. hosts[h].ver + 1 \in Nat
    BY <1>7
  <2> QED BY <1>5, <1>6, <1>7, <2>1 DEF Host
<1>9. hosts' = [hosts EXCEPT ![h] = new] /\ UNCHANGED <<settled, vals, keys, accounts, solv, runs>>
  BY <1>4, <1>5 DEF Put, nodes
<1>10. hosts' \in Seq(Host) /\ DOMAIN hosts = DOMAIN hosts'
  BY <1>3, <1>6, <1>8, <1>9
<1>11. Grows
  BY <1>9, <1>10 DEF Grows
<1>12. PICK j : j = [my[c] EXCEPT !.host = new]
  OBVIOUS
<1>13. GoesOn(c, "idle", None) \/ (GoesOn(c, "run", j) /\ my[c].op = "deploy")
  BY <1>4, <1>5, <1>12 DEF Put
<1>14. j \in Job /\ j.op = my[c].op /\ j.h = h /\ j.host = new
  BY <1>1, <1>4, <1>8, <1>12 DEF Job
<1>15. my[c].op = "deploy" => Fit("run", j)'
  BY <1>6, <1>8, <1>10, <1>14
  DEF Fit, Makes, AddsVal, AddsHost, OnServer, Writes, OnTheChain, StoredInHand, HostOps
<1>16. OnlyOf(c)
  BY <1>13 DEF GoesOn, OnlyOf, Shape, TypeOK
<1>17. AllFull' /\ Followed'
  BY <1>1, <1>9, <1>11, <1>16, AllFullStays, FollowedStays
<1>18. "idle" \in Place /\ "run" \in Place /\ Fit("idle", None)'
  BY DEF Fit, Makes, AddsVal, AddsHost, OnServer, Writes, OnTheChain, Place
<1>19. CASE GoesOn(c, "idle", None)
  BY <1>3, <1>9, <1>10, <1>11, <1>17, <1>18, <1>19, WritingStep DEF Shape, TypeOK
<1>20. CASE GoesOn(c, "run", j) /\ my[c].op = "deploy"
  BY <1>3, <1>9, <1>10, <1>11, <1>14, <1>15, <1>17, <1>18, <1>20, WritingStep DEF Shape, TypeOK
<1> QED BY <1>13, <1>19, <1>20

(* Writing over a validator: what is written was full when it was read.     *)
LEMMA PutValShape ==
  ASSUME Shape, NEW c \in Cmds, Put(c), ~OnHost(c)
  PROVE  Shape'
<1>1. my[c] \in Job /\ Fit("put", my[c]) /\ pc[c] # "follow"
  BY HasJob DEF Put
<1>2. ValInHand(my[c])
  BY <1>1 DEF Fit, Writes, StoredInHand, OnHost, HostOps
<1>3. vals \in Seq(Validator) /\ lock' \in [Machines -> Cmds \cup {None}]
  BY Unlocked DEF Shape, TypeOK, Put
<1>4. PICK v : v = my[c].v
  OBVIOUS
<1>5. PICK new : new = [my[c].val EXCEPT !.last = my[c].at, !.ver = vals[v].ver + 1]
  OBVIOUS
<1>6. v \in DOMAIN vals /\ vals[v] \in Validator /\ my[c].val \in Validator /\ Full(my[c].val)
  BY <1>2, <1>3, <1>4 DEF ValInHand
<1>7. vals[v].ver \in Nat /\ my[c].at \in Machines
  BY <1>1, <1>6 DEF Validator, Job
<1>8. new \in Validator /\ new.vote = my[c].val.vote /\ new.ref = my[c].val.ref
  <2>1. vals[v].ver + 1 \in Nat
    BY <1>7
  <2> QED BY <1>5, <1>6, <1>7, <2>1 DEF Validator
<1>9. vals' = [vals EXCEPT ![v] = new] /\ UNCHANGED <<settled, hosts, keys, accounts, solv, runs>>
  BY <1>4, <1>5 DEF Put, nodes
<1>10. /\ vals' \in Seq(Validator) /\ DOMAIN vals = DOMAIN vals'
       /\ \A w \in DOMAIN vals : vals'[w] = new \/ vals'[w] = vals[w]
  BY <1>3, <1>6, <1>8, <1>9
<1>11. Grows
  BY <1>9, <1>10 DEF Grows
<1>12. Full(new)
  BY <1>6, <1>8 DEF Full
<1>13. AllFull'
  BY <1>9, <1>10, <1>12 DEF Shape, AllFull, Full, HasBls
<1>14. GoesOn(c, "idle", None) /\ OnlyOf(c)
  BY DEF Put, GoesOn, OnlyOf, Shape, TypeOK
<1>15. Followed'
  BY <1>1, <1>9, <1>14, FollowedStays
<1>16. "idle" \in Place /\ Fit("idle", None)'
  BY DEF Fit, Makes, AddsVal, AddsHost, OnServer, Writes, OnTheChain, Place
<1> QED BY <1>3, <1>9, <1>10, <1>11, <1>13, <1>14, <1>15, <1>16, WritingStep DEF Shape, TypeOK

(* The vote account is made.                                                *)
LEMMA CreateAccountShape ==
  ASSUME Shape, NEW c \in Cmds, CreateAccount(c)
  PROVE  Shape'
<1>1. my[c] \in Job /\ Fit("create", my[c]) /\ pc[c] # "follow"
  BY HasJob DEF CreateAccount
<1>2. CASE OnChain(my[c].val.vote) # {} /\ Ends(c) /\ UNCHANGED accounts
  BY <1>1, <1>2, EndStep DEF CreateAccount
<1>3. CASE Goes(c, "bls") /\ UNCHANGED lock
           /\ accounts' = accounts \cup {[key |-> my[c].val.vote, identity |-> my[c].val.identity,
                                          auth |-> my[c].val.auth, bls |-> FALSE]}
  <2>1. ValInHand(my[c]) /\ my[c].op = "vote"
    BY <1>1 DEF Fit, OnTheChain
  <2>2. PICK new : new = [key |-> my[c].val.vote, identity |-> my[c].val.identity,
                          auth |-> my[c].val.auth, bls |-> FALSE]
    OBVIOUS
  <2>3. new \in Account /\ new.key = my[c].val.vote
    BY <2>1, <2>2 DEF ValInHand, Validator, Account
  <2>4. accounts' = accounts \cup {new} /\ UNCHANGED <<settled, vals, hosts, keys, solv, runs, lock>>
    BY <1>3, <2>2 DEF CreateAccount, vault, nodes
  <2>5. Grows
    BY <2>4 DEF Grows
  <2>6. PICK j : j = my[c]
    OBVIOUS
  <2>7. ValInHand(j)'
    <3>1. Full(j.val)'
      BY <2>1, <2>5, <2>6, FullStays DEF ValInHand
    <3> QED BY <2>1, <2>4, <2>6, <3>1 DEF ValInHand
  <2>8. OnChain(j.val.vote)' # {}
    BY <2>3, <2>4, <2>6 DEF OnChain
  <2>9. Fit("bls", j)' /\ "bls" \in Place
    BY <1>1, <2>1, <2>6, <2>7, <2>8
    DEF Fit, Makes, AddsVal, AddsHost, OnServer, Writes, OnTheChain, Place
  <2>10. GoesOn(c, "bls", j) /\ OnlyOf(c)
    BY <1>3, <2>6 DEF Goes, GoesOn, OnlyOf, Shape, TypeOK
  <2>11. AllFull' /\ Followed'
    BY <1>1, <2>4, <2>5, <2>10, AllFullStays, FollowedStays
  <2>12. accounts' \subseteq Account
    BY <2>3, <2>4 DEF Shape, TypeOK
  <2>13. j \in Job
    BY <1>1, <2>6
  <2> QED BY <2>4, <2>5, <2>9, <2>10, <2>11, <2>12, <2>13, WritingStep DEF Shape, TypeOK
<1> QED BY <1>2, <1>3 DEF CreateAccount

(* The vote account is complete.                                            *)
LEMMA RegisterBlsShape ==
  ASSUME Shape, NEW c \in Cmds, RegisterBls(c)
  PROVE  Shape'
<1>1. my[c] \in Job /\ Fit("bls", my[c]) /\ pc[c] # "follow"
  BY HasJob DEF RegisterBls
<1>2. ValInHand(my[c]) /\ my[c].op = "vote" /\ OnChain(my[c].val.vote) # {}
  BY <1>1 DEF Fit, OnTheChain
<1>3. PICK j : j = my[c]
  OBVIOUS
<1>4. PICK k : k = j.val.vote
  OBVIOUS
<1>5. accounts' = {[a EXCEPT !.bls = (@ \/ a.key = k)] : a \in accounts}
  BY <1>3, <1>4 DEF RegisterBls
<1>6. UNCHANGED <<settled, vals, hosts, keys, solv, runs, lock>>
  BY DEF RegisterBls, vault, nodes
<1>7. accounts \subseteq Account
  BY DEF Shape, TypeOK
<1>8. ASSUME NEW a \in accounts
      PROVE  LET b == [a EXCEPT !.bls = (@ \/ a.key = k)] IN
               b \in Account /\ b.key = a.key /\ (a.bls \/ a.key = k => b.bls)
  BY <1>7, <1>8 DEF Account
<1>9. accounts' \subseteq Account
  BY <1>5, <1>8
<1>10. \A a \in accounts : \E b \in accounts' : b.key = a.key /\ (a.bls \/ a.key = k => b.bls)
  <2>1. TAKE a \in accounts
  <2>2. PICK b : b = [a EXCEPT !.bls = (@ \/ a.key = k)]
    OBVIOUS
  <2>3. b \in accounts'
    BY <1>5, <2>2
  <2>4. b.key = a.key /\ (a.bls \/ a.key = k => b.bls)
    BY <1>8, <2>2
  <2> QED BY <2>3, <2>4
<1>11. Grows
  BY <1>6, <1>10 DEF Grows
<1>12. HasBls(k)' /\ OnChain(k)' # {}
  <2>1. PICK a \in accounts : a.key = k
    BY <1>2, <1>3, <1>4 DEF OnChain
  <2>2. PICK b \in accounts' : b.key = k /\ b.bls
    BY <1>10, <2>1
  <2> QED BY <2>2 DEF HasBls, OnChain
<1>13. ValInHand(j)'
  <2>1. Full(j.val)'
    BY <1>2, <1>3, <1>11, FullStays DEF ValInHand
  <2> QED BY <1>2, <1>3, <1>6, <2>1 DEF ValInHand
<1>14. Fit("forget", j)' /\ "forget" \in Place
  BY <1>1, <1>2, <1>3, <1>4, <1>12, <1>13
  DEF Fit, Makes, AddsVal, AddsHost, OnServer, Writes, OnTheChain, Place
<1>15. GoesOn(c, "forget", j) /\ OnlyOf(c)
  BY <1>3 DEF RegisterBls, Goes, GoesOn, OnlyOf, Shape, TypeOK
<1>16. AllFull' /\ Followed'
  BY <1>1, <1>6, <1>11, <1>15, AllFullStays, FollowedStays
<1>17. j \in Job
  BY <1>1, <1>3
<1> QED BY <1>6, <1>9, <1>11, <1>14, <1>15, <1>16, <1>17, WritingStep DEF Shape, TypeOK

(* The key goes only after the account is complete.                         *)
LEMMA ForgetKeyShape ==
  ASSUME Shape, NEW c \in Cmds, ForgetKey(c)
  PROVE  Shape'
<1>1. my[c] \in Job /\ Fit("forget", my[c]) /\ pc[c] # "follow"
  BY HasJob DEF ForgetKey
<1>2. CASE Ends(c) /\ UNCHANGED keys
  BY <1>1, <1>2, EndStep DEF ForgetKey, vault
<1>3. CASE keys' = [keys EXCEPT ![my[c].val.vote].gone = TRUE] /\ UNCHANGED lock
           /\ GoesOn(c, "waitPut", [my[c] EXCEPT !.val.ref = FALSE])
  <2>1. ValInHand(my[c]) /\ my[c].op = "vote" /\ HasBls(my[c].val.vote)
    BY <1>1 DEF Fit, OnTheChain
  <2>2. PICK k : k = my[c].val.vote
    OBVIOUS
  <2>3. PICK val : val = [my[c].val EXCEPT !.ref = FALSE]
    OBVIOUS
  <2>4. PICK j : j = [my[c] EXCEPT !.val = val]
    OBVIOUS
  <2>5. j = [my[c] EXCEPT !.val.ref = FALSE]
    BY <1>1, <2>3, <2>4 DEF Job
  <2>6. val \in Validator /\ val.vote = k
    BY <2>1, <2>2, <2>3 DEF ValInHand, Validator
  <2>7. j \in Job /\ j.op = "vote" /\ j.val = val /\ j.v = my[c].v
    BY <1>1, <2>1, <2>4, <2>6 DEF Job
  <2>8. keys \in Seq(Key) /\ k \in DOMAIN keys
    BY <2>1, <2>2 DEF Shape, TypeOK, ValInHand, Full
  <2>9. PICK key : key = [keys[k] EXCEPT !.gone = TRUE]
    OBVIOUS
  <2>10. key \in Key
    <3>1. keys[k] \in Key
      BY <2>8
    <3> QED BY <2>9, <3>1 DEF Key
  <2>11. keys' = [keys EXCEPT ![k] = key]
    BY <1>3, <2>2, <2>9
  <2>12. /\ keys' \in Seq(Key) /\ DOMAIN keys' = DOMAIN keys
         /\ \A i \in DOMAIN keys : i # k => keys'[i] = keys[i]
    BY <2>8, <2>10, <2>11
  <2>13. UNCHANGED <<settled, vals, hosts, accounts, solv, runs, lock>>
    BY <1>3 DEF ForgetKey, nodes
  <2>14. HasBls(k) /\ HasBls(k)'
    BY <2>1, <2>2, <2>13 DEF HasBls
  <2>15. Grows
    BY <2>12, <2>13, <2>14 DEF Grows
  <2>16. Full(val)'
    BY <2>6, <2>8, <2>12, <2>14 DEF Full
  <2>17. ValInHand(j)'
    BY <2>1, <2>6, <2>7, <2>13, <2>16 DEF ValInHand
  <2>18. Fit("waitPut", j)' /\ "waitPut" \in Place
    BY <2>7, <2>17
    DEF Fit, Makes, AddsVal, AddsHost, OnServer, Writes, OnTheChain, Place, Waits
  <2>19. GoesOn(c, "waitPut", j) /\ OnlyOf(c)
    BY <1>3, <2>5 DEF GoesOn, OnlyOf, Shape, TypeOK
  <2>20. AllFull' /\ Followed'
    BY <1>1, <2>13, <2>15, <2>19, AllFullStays, FollowedStays
  <2> QED BY <2>7, <2>12, <2>13, <2>15, <2>18, <2>19, <2>20, WritingStep DEF Shape, TypeOK
<1> QED BY <1>2, <1>3 DEF ForgetKey

-----------------------------------------------------------------------------
(* Runs on a server, and stopping.                                          *)

(* A run that failed, or was refused, ends the command or has it recorded.   *)
LEMMA FailedGoes ==
  ASSUME Shape, NEW c \in Cmds, pc[c] \in {"run", "follow"}, Failed(c)
  PROVE  \E p \in Place \ {"follow"}, j \in Job \cup {None} :
           GoesOn(c, p, j) /\ Fit(p, j) /\ lock' \in [Machines -> Cmds \cup {None}]
<1>1. my[c] \in Job /\ Fit(pc[c], my[c])
  BY HasJob
<1>2. StoredInHand(my[c]) /\ lock \in [Machines -> Cmds \cup {None}]
  BY <1>1 DEF Fit, OnServer, Shape, TypeOK
<1>3. CASE Ends(c)
  <2>1. GoesOn(c, "idle", None) /\ lock' \in [Machines -> Cmds \cup {None}]
    BY <1>3, Unlocked DEF Ends, Shape
  <2> QED BY <2>1, NothingInHand
<1>4. CASE GoesOn(c, "waitPut", [my[c] EXCEPT !.op = "record"]) /\ UNCHANGED lock
  <2>1. PICK j : j = [my[c] EXCEPT !.op = "record"]
    OBVIOUS
  <2>2. j \in Job /\ j.op = "record" /\ j.host = my[c].host /\ j.h = my[c].h
    BY <1>1, <2>1 DEF Job
  <2>3. Fit("waitPut", j) /\ "waitPut" \in Place \ {"follow"}
    BY <1>2, <2>2
    DEF Fit, Makes, AddsVal, AddsHost, OnServer, Writes, OnTheChain, Place, Waits, StoredInHand,
        HostOps
  <2> QED BY <1>2, <1>4, <2>1, <2>2, <2>3
<1> QED BY <1>3, <1>4 DEF Failed

(* While the vault and the chain stay as they are, what fits goes on fitting. *)
LEMMA FitsStill ==
  ASSUME UNCHANGED <<vals, hosts, keys, accounts>>, NEW p, NEW j, Fit(p, j)
  PROVE  Fit(p, j)'
BY DEF Fit, NewInHand, HostInHand, StoredInHand, ValInHand, Full, HasBls, OnChain

(* A run that begins has its command follow it; one that is refused has failed. *)
LEMMA StartRunShape ==
  ASSUME Shape, NEW c \in Cmds, StartRun(c)
  PROVE  Shape'
<1> USE ValidatorsAssumption
<1>1. my[c] \in Job /\ Fit("run", my[c]) /\ pc[c] = "run" /\ UNCHANGED <<vault, accounts, solv>>
  BY HasJob DEF StartRun
<1>2. StoredInHand(my[c]) /\ my[c].op # "record"
  BY <1>1 DEF Fit, OnServer
<1>3. CASE Failed(c) /\ UNCHANGED runs
  <2>1. PICK p \in Place \ {"follow"}, j \in Job \cup {None} :
          GoesOn(c, p, j) /\ Fit(p, j) /\ lock' \in [Machines -> Cmds \cup {None}]
    BY <1>1, <1>3, FailedGoes
  <2> QED BY <1>1, <1>3, <2>1, QuietStep DEF nodes
<1>4. PICK a : a = my[c].host.addr
  OBVIOUS
<1>5. PICK run : run = [by |-> c, pw |-> IF my[c].op = "init" THEN my[c].pw ELSE 0]
  OBVIOUS
<1>6. CASE runs' = [runs EXCEPT ![a] = run] /\ Goes(c, "follow") /\ UNCHANGED lock
  <2>1. a \in Addresses
    BY <1>2, <1>4 DEF StoredInHand, Host
  <2>2. run \in Run /\ run.by = c
    BY <1>1, <1>5 DEF Run, Job
  <2>3. runs \in [Addresses -> Run \cup {None}] /\ lock \in [Machines -> Cmds \cup {None}]
    BY DEF Shape, TypeOK
  <2>4. PICK j : j = my[c]
    OBVIOUS
  <2>5. GoesOn(c, "follow", j) /\ j \in Job /\ "follow" \in Place
    BY <1>1, <1>6, <2>4 DEF Goes, Place
  <2>6. pc'[c] = "follow" /\ my'[c] = j /\ OnlyOf(c)
    BY <2>5, WentOn DEF Shape
  <2>7. Fit("follow", j)
    BY <1>1, <1>2, <2>4
    DEF Fit, Makes, AddsVal, AddsHost, OnServer, Writes, OnTheChain
  <2>8. Fit("follow", j)'
    BY <1>1, <2>7, FitsStill DEF vault
  <2>9. Grows
    BY <1>1 DEF Grows, vault
  <2>10. AllFull'
    BY <1>1, <2>9, AllFullStays DEF vault
  <2>11. Followed'
    <3> SUFFICES ASSUME NEW b \in Addresses, runs'[b] # None, runs'[b].by # None
                 PROVE  pc'[runs'[b].by] = "follow" /\ my'[runs'[b].by].host.addr = b
      BY DEF Followed
    <3>1. CASE b = a
      BY <1>4, <1>6, <2>1, <2>2, <2>3, <2>4, <2>6, <3>1
    <3>2. CASE b # a
      <4>1. runs'[b] = runs[b]
        BY <1>6, <2>3, <3>2
      <4>2. runs[b].by \in Cmds /\ pc[runs[b].by] = "follow" /\ my[runs[b].by].host.addr = b
        BY <2>3, <4>1 DEF Shape, Followed, Run
      <4>3. runs[b].by \in Cmds \ {c}
        BY <1>1, <4>2
      <4> QED BY <2>6, <4>1, <4>2, <4>3 DEF OnlyOf
    <3> QED BY <3>1, <3>2
  <2>12. runs' \in [Addresses -> Run \cup {None}]
    BY <1>6, <2>1, <2>2, <2>3
  <2> QED BY <1>1, <1>6, <2>3, <2>5, <2>8, <2>9, <2>10, <2>11, <2>12, WritingStep
          DEF Shape, TypeOK, vault
<1> QED BY <1>3, <1>4, <1>5, <1>6 DEF StartRun

(* Of the runs that go on, none has the command of one that ended.           *)
LEMMA OthersFollowed ==
  ASSUME Shape, NEW a \in Addresses, NEW c \in Cmds, runs[a] # None, runs[a].by = c, OnlyOf(c),
         runs' = [runs EXCEPT ![a] = None]
  PROVE  Followed'
<1> USE ValidatorsAssumption
<1> SUFFICES ASSUME NEW b \in Addresses, runs'[b] # None, runs'[b].by # None
             PROVE  pc'[runs'[b].by] = "follow" /\ my'[runs'[b].by].host.addr = b
  BY DEF Followed
<1>1. runs \in [Addresses -> Run \cup {None}]
  BY DEF Shape, TypeOK
<1>2. b # a /\ runs'[b] = runs[b]
  BY <1>1
<1>3. runs[b].by \in Cmds /\ pc[runs[b].by] = "follow" /\ my[runs[b].by].host.addr = b
  BY <1>1, <1>2 DEF Shape, Followed, Run
<1>4. my[c].host.addr = a
  BY DEF Shape, Followed
<1>5. runs[b].by \in Cmds \ {c}
  BY <1>2, <1>3, <1>4
<1> QED BY <1>2, <1>3, <1>5 DEF OnlyOf

(* A run's end moves whoever follows it, and nobody else.                   *)
LEMMA RunEndsShape ==
  ASSUME Shape, NEW a \in Addresses, RunEnds(a)
  PROVE  Shape'
<1> USE ValidatorsAssumption
<1>1. runs \in [Addresses -> Run \cup {None}] /\ solv \in [Addresses -> Nat] /\ runs[a] \in Run
  BY DEF Shape, TypeOK, RunEnds
<1>2. runs' = [runs EXCEPT ![a] = None] /\ UNCHANGED <<vault, accounts>>
  BY DEF RunEnds
<1>3. runs' \in [Addresses -> Run \cup {None}] /\ solv' \in [Addresses -> Nat]
  <2>1. runs[a].pw \in Nat
    BY <1>1 DEF Run
  <2>2. solv' = solv \/ solv' = [solv EXCEPT ![a] = runs[a].pw]
    BY <1>1 DEF RunEnds
  <2>3. solv' \in [Addresses -> Nat]
    BY <1>1, <2>1, <2>2
  <2> QED BY <1>1, <1>2, <2>3
<1>4. Grows /\ AllFull'
  <2>1. Grows
    BY <1>2 DEF Grows, vault
  <2> QED BY <1>2, <2>1, AllFullStays DEF vault
<1>5. CASE UNCHANGED <<pc, my, lock>>
  <2>1. TypeOK'
    BY <1>2, <1>3, <1>5 DEF Shape, TypeOK, vault, settled
  <2>2. AllFit'
    <3> SUFFICES ASSUME NEW c \in Cmds PROVE Fit(pc[c], my[c])'
      BY DEF AllFit
    <3>1. PICK p, j : p = pc[c] /\ j = my[c]
      OBVIOUS
    <3>2. Fit(p, j)'
      BY <1>2, <3>1, FitsStill DEF Shape, AllFit, vault
    <3> QED BY <1>5, <3>1, <3>2 DEF Fit, NewInHand, HostInHand, StoredInHand, ValInHand, Full, HasBls, OnChain
  <2>3. Followed'
    BY <1>1, <1>2, <1>5 DEF Shape, Followed
  <2>4. LateFit'
    BY <1>2, <1>4, LateStays DEF Shape, vault, settled
  <2> QED BY <1>4, <2>1, <2>2, <2>3, <2>4 DEF Shape
<1>6. CASE runs[a].by # None
  <2>1. PICK c \in Cmds : c = runs[a].by
    BY <1>1, <1>6 DEF Run
  <2>2. pc[c] = "follow" /\ my[c] \in Job /\ Fit("follow", my[c]) /\ lock \in [Machines -> Cmds \cup {None}]
    <3>1. pc[c] = "follow"
      BY <1>6, <2>1 DEF Shape, Followed, RunEnds
    <3>2. my[c] \in Job /\ Fit("follow", my[c])
      BY <3>1, HasJob
    <3> QED BY <3>1, <3>2 DEF Shape, TypeOK
  <2>3. StoredInHand(my[c])
    BY <2>2 DEF Fit, OnServer
  <2>4. \/ Failed(c)
        \/ /\ UNCHANGED lock
           /\ GoesOn(c, "waitPut", IF my[c].op = "init" THEN my[c] ELSE [my[c] EXCEPT !.op = "record"])
    BY <1>6, <2>1 DEF RunEnds
  <2>5. CASE Failed(c)
    <3>1. PICK p \in Place \ {"follow"}, j \in Job \cup {None} :
            GoesOn(c, p, j) /\ Fit(p, j) /\ lock' \in [Machines -> Cmds \cup {None}]
      BY <2>2, <2>5, FailedGoes
    <3>2. Fit(p, j)' /\ OnlyOf(c)
      BY <1>2, <3>1, FitsStill, WentOn DEF Shape, vault
    <3>3. Followed'
      BY <1>2, <2>1, <3>2, OthersFollowed DEF RunEnds
    <3> QED BY <1>2, <1>3, <1>4, <3>1, <3>2, <3>3, WritingStep DEF Shape, TypeOK, vault
  <2>6. ASSUME UNCHANGED lock, NEW j \in Job, StoredInHand(j), GoesOn(c, "waitPut", j)
        PROVE  Shape'
    <3>1. Fit("waitPut", j) /\ "waitPut" \in Place
      BY <2>6
      DEF Fit, Makes, AddsVal, AddsHost, OnServer, Writes, OnTheChain, Place, Waits
    <3>2. Fit("waitPut", j)' /\ OnlyOf(c)
      BY <1>2, <2>6, <3>1, FitsStill, WentOn DEF Shape, vault
    <3>3. Followed'
      BY <1>2, <2>1, <3>2, OthersFollowed DEF RunEnds
    <3> QED BY <1>2, <1>3, <1>4, <2>2, <2>6, <3>1, <3>2, <3>3, WritingStep DEF Shape, TypeOK, vault
  <2>7. PICK j : j = [my[c] EXCEPT !.op = "record"]
    OBVIOUS
  <2>8. j \in Job /\ StoredInHand(j)
    BY <2>2, <2>3, <2>7 DEF Job, StoredInHand, HostOps
  <2> QED BY <2>2, <2>3, <2>4, <2>5, <2>6, <2>7, <2>8
<1> QED BY <1>5, <1>6 DEF RunEnds

(* A command that stops leaves its run to nobody.                           *)
LEMMA StopShape ==
  ASSUME Shape, NEW c \in Cmds, Stop(c)
  PROVE  Shape'
<1> USE ValidatorsAssumption
<1>1. GoesOn(c, "idle", None) /\ lock' \in [Machines -> Cmds \cup {None}] /\ OnlyOf(c)
  <2>1. GoesOn(c, "idle", None) /\ lock' \in [Machines -> Cmds \cup {None}]
    BY Unlocked DEF Stop, Ends, Shape
  <2> QED BY <2>1, NothingInHand, WentOn DEF Shape
<1>2. runs \in [Addresses -> Run \cup {None}]
  BY DEF Shape, TypeOK
<1>3. /\ runs' = [a \in Addresses |-> IF runs[a] # None /\ runs[a].by = c
                                      THEN [runs[a] EXCEPT !.by = None] ELSE runs[a]]
      /\ UNCHANGED <<vals, hosts, keys, accounts, solv>>
  BY DEF Stop
<1>4. runs' \in [Addresses -> Run \cup {None}]
  <2> SUFFICES ASSUME NEW a \in Addresses PROVE runs'[a] \in Run \cup {None}
    BY <1>3
  <2>1. runs[a] # None => [runs[a] EXCEPT !.by = None] \in Run
    BY <1>2 DEF Run
  <2> QED BY <1>2, <1>3, <2>1
<1>5. Grows
  BY <1>3 DEF Grows
<1>6. AllFull' /\ Fit("idle", None)'
  BY <1>3, <1>5, AllFullStays, NothingInHand, FitsStill
<1>7. Followed'
  <2> SUFFICES ASSUME NEW a \in Addresses, runs'[a] # None, runs'[a].by # None
               PROVE  pc'[runs'[a].by] = "follow" /\ my'[runs'[a].by].host.addr = a
    BY DEF Followed
  <2>1. runs[a] # None
    BY <1>3
  <2>2. runs[a] \in Run
    BY <1>2, <2>1
  <2>3. runs[a].by # c /\ runs'[a] = runs[a]
    <3>1. runs[a].by = c => runs'[a] = [runs[a] EXCEPT !.by = None]
      BY <1>3, <2>1
    <3>2. runs[a].by # c => runs'[a] = runs[a]
      BY <1>3
    <3> QED BY <2>2, <3>1, <3>2 DEF Run
  <2>4. runs[a].by \in Cmds \ {c} /\ pc[runs[a].by] = "follow" /\ my[runs[a].by].host.addr = a
    BY <2>1, <2>2, <2>3 DEF Shape, Followed, Run
  <2> QED BY <1>1, <2>3, <2>4 DEF OnlyOf
<1>8. PICK p, j : p = pc[c] /\ j = my[c]
  OBVIOUS
<1>9. p # "idle" /\ j \in Job /\ Fit(p, j)
  BY <1>8, HasJob DEF Stop
<1>10. ASSUME NEW w \in late', w \notin late
       PROVE  w = [place |-> p, job |-> j] /\ p \in Written
  BY <1>8, <1>10 DEF Stop, settled
<1>11. late' \subseteq [place : Written, job : Job] /\ scene' \in Scene
  <2>1. late' \subseteq [place : Written, job : Job]
    BY <1>9, <1>10 DEF Shape, TypeOK
  <2>2. scene.late > 0 => scene.late - 1 \in Nat
    BY DEF Shape, TypeOK, Scene
  <2>3. scene' = scene \/ (scene.late > 0 /\ scene' = [scene EXCEPT !.late = scene.late - 1])
    BY DEF Stop, settled
  <2> QED BY <2>1, <2>2, <2>3 DEF Shape, TypeOK, Scene
<1>12. LateFit'
  <2> SUFFICES ASSUME NEW w \in late' PROVE Fit(w.place, w.job)'
    BY DEF LateFit
  <2>1. PICK q, i : q = w.place /\ i = w.job
    OBVIOUS
  <2>2. Fit(q, i)
    BY <1>9, <1>10, <2>1 DEF Shape, LateFit
  <2>3. Fit(q, i)'
    BY <1>3, <2>2, FitsStill
  <2> QED BY <2>1, <2>3 DEF Fit, NewInHand, HostInHand, StoredInHand, ValInHand, Full, HasBls, OnChain
<1>13. TypeOK'
  BY <1>1, <1>3, <1>4, <1>11, NothingInHand, WentOn DEF Shape, TypeOK
<1>14. pc'[c] = "idle" /\ my'[c] = None
  BY <1>1, NothingInHand, WentOn DEF Shape
<1>15. AllFit'
  <2>1. Fit(pc[c], my[c])'
    BY <1>6, <1>14 DEF Fit, NewInHand, HostInHand, StoredInHand, ValInHand, Full, HasBls, OnChain
  <2> QED BY <1>1, <1>5, <2>1, OthersStay DEF Shape
<1> QED BY <1>6, <1>7, <1>12, <1>13, <1>15 DEF Shape

(* A write that outlived its erpc is as good as one that did not:            *)
LEMMA LandsFit ==
  ASSUME Shape, NEW w \in late, Grows, UNCHANGED <<scene, accounts, nodes, lock, pc, my>>,
         late' = late \ {w}, vals' \in Seq(Validator), hosts' \in Seq(Host), keys' \in Seq(Key),
         AllFull'
  PROVE  Shape'
<1>1. TypeOK' /\ Followed'
  BY DEF Shape, TypeOK, Followed, nodes
<1>2. LateFit'
  BY LateStays DEF Shape
<1>3. AllFit'
  <2> SUFFICES ASSUME NEW c \in Cmds PROVE Fit(pc[c], my[c])'
    BY DEF AllFit
  <2>1. PICK p, j : p = pc[c] /\ j = my[c]
    OBVIOUS
  <2>2. Fit(p, j)'
    BY <2>1, FitStays DEF Shape, AllFit
  <2> QED BY <2>1, <2>2 DEF Fit, NewInHand, HostInHand, StoredInHand, ValInHand, Full, HasBls, OnChain
<1> QED BY <1>1, <1>2, <1>3 DEF Shape

(* what it makes is full, and what it writes over goes on being there.        *)
LEMMA LandsShape ==
  ASSUME Shape, NEW w \in late, Lands(w)
  PROVE  Shape'
<1>1. PICK j : j = w.job
  OBVIOUS
<1>2. j \in Job /\ Fit(w.place, j)
  BY <1>1 DEF Shape, TypeOK, LateFit
<1>3. /\ late' = late \ {w} /\ UNCHANGED <<scene, accounts, nodes, lock, pc, my>>
      /\ vals \in Seq(Validator) /\ hosts \in Seq(Host) /\ keys \in Seq(Key)
  BY DEF Lands, Shape, TypeOK
<1>4. ASSUME Grows, vals' = vals, hosts' \in Seq(Host), keys' \in Seq(Key) PROVE Shape'
  BY <1>3, <1>4, AllFullStays, LandsFit
<1>5. ASSUME NEW val \in Validator, Full(val), keys' = keys, hosts' = hosts,
             vals' \in Seq(Validator), DOMAIN vals \subseteq DOMAIN vals',
             \A v \in DOMAIN vals' : vals'[v] = val \/ (v \in DOMAIN vals /\ vals'[v] = vals[v])
      PROVE  Shape'
  <2>1. Grows
    BY <1>3, <1>5 DEF Grows
  <2>2. AllFull'
    BY <1>3, <1>5 DEF Shape, AllFull, Full, HasBls
  <2> QED BY <1>3, <1>5, <2>1, <2>2, LandsFit
<1>6. CASE w.place = "make" /\ keys' = Append(keys, NewKey(j)) /\ UNCHANGED <<vals, hosts>>
  <2>1. NewKey(j) \in Key
    BY <1>2 DEF NewKey, Wanted, Key, Job
  <2>2. PICK key \in Key : keys' = Append(keys, key)
    BY <1>6, <2>1
  <2>3. /\ keys' \in Seq(Key) /\ DOMAIN keys \subseteq DOMAIN keys'
        /\ \A k \in DOMAIN keys : keys'[k] = keys[k]
    BY <1>3, <2>2
  <2>4. Grows
    BY <1>3, <1>6, <2>3 DEF Grows
  <2> QED BY <1>3, <1>4, <1>6, <2>3, <2>4
<1>7. CASE /\ w.place = "forget" /\ keys' = [keys EXCEPT ![j.val.vote].gone = TRUE]
           /\ UNCHANGED <<vals, hosts>>
  <2>1. PICK k : k = j.val.vote
    OBVIOUS
  <2>2. k \in DOMAIN keys /\ HasBls(k)
    BY <1>2, <1>7, <2>1 DEF Fit, OnTheChain, ValInHand, Full
  <2>3. PICK key : key = [keys[k] EXCEPT !.gone = TRUE]
    OBVIOUS
  <2>4. key \in Key
    <3>1. keys[k] \in Key
      BY <1>3, <2>2
    <3> QED BY <2>3, <3>1 DEF Key
  <2>5. keys' = [keys EXCEPT ![k] = key]
    BY <1>7, <2>1, <2>3
  <2>6. /\ keys' \in Seq(Key) /\ DOMAIN keys' = DOMAIN keys
        /\ \A i \in DOMAIN keys : i # k => keys'[i] = keys[i]
    BY <1>3, <2>2, <2>4, <2>5
  <2>7. Grows
    BY <1>3, <1>7, <2>2, <2>6 DEF Grows
  <2> QED BY <1>3, <1>4, <1>7, <2>6, <2>7
<1>8. CASE /\ w.place = "addVal" /\ vals' = Append(vals, [j.val EXCEPT !.by = None, !.last = None])
           /\ UNCHANGED <<keys, hosts>>
  <2>1. PICK val : val = [j.val EXCEPT !.by = None, !.last = None]
    OBVIOUS
  <2>2. j.val \in Validator /\ Full(j.val)
    BY <1>2, <1>8 DEF Fit, AddsVal, NewInHand
  <2>3. val \in Validator /\ val.vote = j.val.vote /\ val.ref = j.val.ref
    BY <2>1, <2>2 DEF Validator
  <2>4. Full(val)
    BY <2>2, <2>3 DEF Full
  <2>5. vals' = Append(vals, val)
    BY <1>8, <2>1
  <2>6. DOMAIN vals = 1..Len(vals) /\ Len(vals) \in Nat
    BY <1>3
  <2>7. vals' \in Seq(Validator) /\ DOMAIN vals' = 1..(Len(vals) + 1)
    BY <1>3, <2>3, <2>5
  <2>8. \A v \in DOMAIN vals : vals'[v] = vals[v]
    BY <1>3, <2>5
  <2>9. vals'[Len(vals) + 1] = val
    BY <1>3, <2>5
  <2>10. \A v \in DOMAIN vals' : v \in DOMAIN vals \/ v = Len(vals) + 1
    BY <2>6, <2>7
  <2>11. DOMAIN vals \subseteq DOMAIN vals'
    BY <2>6, <2>7
  <2>12. \A v \in DOMAIN vals' : vals'[v] = val \/ (v \in DOMAIN vals /\ vals'[v] = vals[v])
    BY <2>8, <2>9, <2>10
  <2> QED BY <1>5, <1>8, <2>3, <2>4, <2>7, <2>11, <2>12
<1>9. CASE /\ w.place = "addHost" /\ UNCHANGED <<keys, vals>>
           /\ hosts' = Append(hosts, [[j.host EXCEPT !.by = None, !.last = None] EXCEPT
                                        !.pw = Len(hosts) + 1])
  <2>1. PICK new : new = [[j.host EXCEPT !.by = None, !.last = None] EXCEPT !.pw = Len(hosts) + 1]
    OBVIOUS
  <2>2. j.host \in Host /\ Len(hosts) + 1 \in Nat
    BY <1>2, <1>3, <1>9 DEF Fit, AddsHost, HostInHand
  <2>3. new \in Host
    BY <2>1, <2>2 DEF Host
  <2>4. hosts' \in Seq(Host) /\ DOMAIN hosts \subseteq DOMAIN hosts'
    BY <1>3, <1>9, <2>1, <2>3
  <2>5. Grows
    BY <1>3, <1>9, <2>4 DEF Grows
  <2> QED BY <1>3, <1>4, <1>9, <2>4, <2>5
<1>10. CASE /\ w.place = "put" /\ j.op \in HostOps /\ UNCHANGED <<keys, vals>>
            /\ hosts' = [hosts EXCEPT ![j.h] = [j.host EXCEPT !.solv = TRUE, !.pw = j.pw, !.last = None,
                                                            !.ver = hosts[j.h].ver + 1]]
  <2>1. PICK h : h = j.h
    OBVIOUS
  <2>2. PICK new : new = [j.host EXCEPT !.solv = TRUE, !.pw = j.pw, !.last = None,
                                        !.ver = hosts[h].ver + 1]
    OBVIOUS
  <2>3. StoredInHand(j)
    BY <1>2, <1>10 DEF Fit, Writes, ValInHand, HostOps
  <2>4. h \in DOMAIN hosts /\ j.host \in Host /\ hosts[h] \in Host
    BY <1>3, <2>1, <2>3 DEF StoredInHand
  <2>5. hosts[h].ver + 1 \in Nat /\ j.pw \in Nat
    BY <1>2, <2>4 DEF Host, Job
  <2>6. new \in Host
    BY <2>2, <2>4, <2>5 DEF Host
  <2>7. hosts' = [hosts EXCEPT ![h] = new]
    BY <1>10, <2>1, <2>2
  <2>8. hosts' \in Seq(Host) /\ DOMAIN hosts = DOMAIN hosts'
    BY <1>3, <2>4, <2>6, <2>7
  <2>9. Grows
    BY <1>3, <1>10, <2>8 DEF Grows
  <2> QED BY <1>3, <1>4, <1>10, <2>8, <2>9
<1>11. CASE /\ w.place = "put" /\ j.op \notin HostOps /\ UNCHANGED <<keys, hosts>>
            /\ vals' = [vals EXCEPT ![j.v] = [j.val EXCEPT !.last = None, !.ver = vals[j.v].ver + 1]]
  <2>1. PICK v : v = j.v
    OBVIOUS
  <2>2. PICK new : new = [j.val EXCEPT !.last = None, !.ver = vals[v].ver + 1]
    OBVIOUS
  <2>3. ValInHand(j)
    BY <1>2, <1>11 DEF Fit, Writes, StoredInHand
  <2>4. v \in DOMAIN vals /\ vals[v] \in Validator /\ j.val \in Validator /\ Full(j.val)
    BY <1>3, <2>1, <2>3 DEF ValInHand
  <2>5. vals[v].ver + 1 \in Nat
    BY <2>4 DEF Validator
  <2>6. new \in Validator /\ new.vote = j.val.vote /\ new.ref = j.val.ref
    BY <2>2, <2>4, <2>5 DEF Validator
  <2>7. Full(new)
    BY <2>4, <2>6 DEF Full
  <2>8. vals' = [vals EXCEPT ![v] = new]
    BY <1>11, <2>1, <2>2
  <2>9. /\ vals' \in Seq(Validator) /\ DOMAIN vals = DOMAIN vals'
        /\ \A i \in DOMAIN vals : vals'[i] = new \/ vals'[i] = vals[i]
    BY <1>3, <2>4, <2>6, <2>8
  <2> QED BY <1>5, <1>11, <2>6, <2>7, <2>9
<1> QED BY <1>1, <1>6, <1>7, <1>8, <1>9, <1>10, <1>11 DEF Lands

(* Every step, and none.                                                    *)
LEMMA StepShape ==
  ASSUME Shape, [Next]_vars
  PROVE  Shape'
<1>1. CASE UNCHANGED vars
  <2>1. TypeOK' /\ Followed'
    BY <1>1 DEF Shape, vars, TypeOK, Followed
  <2>2. AllFull'
    BY <1>1 DEF Shape, vars, AllFull, Full, HasBls
  <2>3. AllFit' /\ LateFit'
    BY <1>1 DEF Shape, vars, AllFit, LateFit, Fit, NewInHand, HostInHand, StoredInHand, ValInHand, Full, HasBls, OnChain
  <2> QED BY <2>1, <2>2, <2>3 DEF Shape
<1>2. ASSUME NEW a \in Addresses, RunEnds(a) PROVE Shape'
  BY <1>2, RunEndsShape
<1>3. ASSUME NEW c \in Cmds, Start(c) \/ TakeLock(c) \/ Stop(c) PROVE Shape'
  BY <1>3, StartShape, TakeLockShape, StopShape
<1>5. ASSUME NEW w \in late, Lands(w) PROVE Shape'
  BY <1>5, LandsShape
<1>4. ASSUME NEW c \in Cmds, Step(c) PROVE Shape'
  <2>1. CASE Put(c)
    BY <2>1, PutHostShape, PutValShape
  <2> QED BY <1>4, <2>1, ReadValsShape, ReadHostsShape, ReadPasswordShape, FindKeyShape,
             ListKeysShape, MakeKeyShape, CheckShape, AddValShape, AddHostShape, GetShape,
             StartRunShape, ReadChainShape, CreateAccountShape, RegisterBlsShape, ForgetKeyShape
          DEF Step
<1> QED BY <1>1, <1>2, <1>3, <1>4, <1>5 DEF Next

(* Nothing is under way at first, and the keys of what is stored are there.   *)
LEMMA InitShape ==
  ASSUME Init
  PROVE  Shape
<1> USE ValidatorsAssumption
<1>1. scene \in Scene /\ scene \in Scenes
  BY DEF Init
<1>2. keys \in Seq(Key)
  <2>1. CASE keys = <<>>
    BY <2>1
  <2>2. ASSUME NEW name \in Names, KeysStored(name) PROVE keys \in Seq(Key)
    <3>1. \A k \in 1..2 : keys[k] \in Key
      BY <2>2 DEF KeysStored, Key
    <3>2. keys \in [1..2 -> Key]
      BY <2>2, <3>1 DEF KeysStored
    <3>3. keys \in UNION {[1..n -> Key] : n \in Nat}
      BY <3>2
    <3> QED BY <3>3, SeqDef
  <2> QED BY <2>1, <2>2 DEF Init
<1>3. vals \in Seq(Validator) /\ hosts \in Seq(Host) /\ solv \in [Addresses -> Nat] /\ AllFull
  <2>1. CASE NoServer
    BY <2>1 DEF NoServer, AllFull
  <2>2. ASSUME NEW m \in Machines, NEW name \in Names, NEW a \in Addresses,
               KeysStored(name), OneServer(m, name, a)
        PROVE  vals \in Seq(Validator) /\ hosts \in Seq(Host) /\ solv \in [Addresses -> Nat] /\ AllFull
    <3>1. PICK val : val = [name |-> name, identity |-> 1, vote |-> 2, ref |-> TRUE, auth |-> 1,
                            ver |-> 1, by |-> m, last |-> m]
      OBVIOUS
    <3>2. PICK host : host = [name |-> name, n |-> 1, addr |-> a, primary |-> TRUE, solv |-> TRUE,
                              pw |-> 1, ver |-> 2, by |-> m, last |-> m]
      OBVIOUS
    <3>3. val \in Validator /\ val.vote = 2 /\ val.ref
      BY <3>1 DEF Validator
    <3>4. host \in Host
      BY <3>2 DEF Host
    <3>5. vals = <<val>> /\ hosts = <<host>>
      BY <2>2, <3>1, <3>2 DEF OneServer
    <3>6. solv \in [Addresses -> Nat]
      BY <2>2 DEF OneServer
    <3>7. 2 \in DOMAIN keys /\ ~keys[2].gone
      BY <2>2 DEF KeysStored
    <3>8. AllFull
      BY <3>3, <3>5, <3>7 DEF AllFull, Full
    <3> QED BY <3>3, <3>4, <3>5, <3>6, <3>8
  <2>3. scene.machines \subseteq Machines /\ scene.servers \subseteq Addresses
    BY <1>1 DEF Scene
  <2>4. \/ NoServer
        \/ \E name \in Names : /\ KeysStored(name)
                               /\ \E m \in scene.machines, a \in scene.servers : OneServer(m, name, a)
    BY DEF Init
  <2> QED BY <2>1, <2>2, <2>3, <2>4
<1>4. TypeOK
  BY <1>1, <1>2, <1>3 DEF Init, TypeOK, Place
<1>5. AllFit /\ LateFit /\ Followed
  BY DEF Init, AllFit, LateFit, Fit, Makes, AddsVal, AddsHost, OnServer, Writes, OnTheChain, Followed
<1> QED BY <1>3, <1>4, <1>5 DEF Shape

(* So everything always has its shape.                                      *)
LEMMA ShapeHolds == Spec => []Shape
<1>1. Shape /\ [Next]_vars => Shape'
  BY StepShape
<1> QED BY <1>1, InitShape, PTL DEF Spec

-----------------------------------------------------------------------------
(* The inventory's items, the keys, the accounts, the servers' users and what *)
(* each command has in hand keep the form the code gives them.              *)
THEOREM TypeIsCorrect == Spec => []TypeOK
<1>1. Shape => TypeOK
  BY DEF Shape
<1> QED BY <1>1, ShapeHolds, PTL

(* A validator's vote account key is deleted, and its item no longer names    *)
(* it, only once the account is on chain with its BLS key (validator_vote.rs:  *)
(* create and bls come before forget_vote_key): wherever a vote-account       *)
(* stopped, it can be run again.                                            *)
THEOREM VoteKeyIsKept == Spec => []KeyIsKept
<1>1. Shape => KeyIsKept
  BY DEF Shape, AllFull, Full, HasBls, KeyIsKept, OnChain
<1> QED BY <1>1, ShapeHolds, PTL

-----------------------------------------------------------------------------
(* The lock of a machine, and what is read under it.                        *)

(* What an item keeps for as long as it is stored.                          *)
Who(val) == <<val.by, val.name>>
Spot(host) == <<host.by, host.name, host.n, host.addr, host.primary>>

(* Two items of one machine that OnceEach forbids.                          *)
Twin(one, two) == one.by # None /\ Who(one) = Who(two)
Clash(one, two) ==
  /\ one.by # None /\ one.by = two.by
  /\ \/ one.addr = two.addr
     \/ one.name = two.name /\ (\/ one.n = two.n
                                \/ one.primary /\ two.primary)

(* A command that reads and writes has its machine's lock; what it has in     *)
(* hand is still the item it read; what it adds is not there; and what it     *)
(* writes over is what it read, or came from another machine.               *)
Safe(c, place, job) ==
  /\ place \in Alone => lock[job.at] = c
  /\ place \in OnServer \cup Writes /\ job.op \in HostOps => Spot(job.host) = Spot(hosts[job.h])
  /\ place \in OnTheChain \cup Writes /\ job.op \notin HostOps => Who(job.val) = Who(vals[job.v])
  /\ place = "addVal" => \A v \in DOMAIN vals : Who(vals[v]) # Who(job.val)
  /\ place = "addHost" => \A h \in DOMAIN hosts : ~Clash(hosts[h], job.host)
  /\ place = "put" /\ job.op \in HostOps =>
       job.host.ver = hosts[job.h].ver \/ hosts[job.h].last # job.at
  /\ place = "put" /\ job.op \notin HostOps =>
       job.val.ver = vals[job.v].ver \/ vals[job.v].last # job.at

AllSafe == \A c \in Cmds : Safe(c, pc[c], my[c])

(* A write that outlived its erpc is still over the item that was read.       *)
Same(w) ==
  w.place = "put" => /\ w.job.op \in HostOps => Spot(w.job.host) = Spot(hosts[w.job.h])
                     /\ w.job.op \notin HostOps => Who(w.job.val) = Who(vals[w.job.v])
LateSame == \A w \in late : Same(w)

Safety == Shape /\ AllSafe /\ LateSame /\ OnceEach

(* What a step of command d may do: take a free lock or give its own back,    *)
(* add one item, and write over one, both only under its lock.              *)
LockStep(d) == \A m \in Machines :
  lock'[m] = lock[m] \/ lock[m] = d \/ (lock[m] = None /\ lock'[m] = d)
ValsStep(d) ==
  /\ \A v \in DOMAIN vals :
       /\ v \in DOMAIN vals' /\ Who(vals'[v]) = Who(vals[v])
       /\ vals'[v] = vals[v] \/ (pc[d] = "put" /\ vals'[v].last = my[d].at)
  /\ \A v \in DOMAIN vals' \ DOMAIN vals :
       v = Len(vals) + 1 /\ pc[d] = "addVal" /\ Who(vals'[v]) = Who(my[d].val)
HostsStep(d) ==
  /\ \A h \in DOMAIN hosts :
       /\ h \in DOMAIN hosts' /\ Spot(hosts'[h]) = Spot(hosts[h])
       /\ hosts'[h] = hosts[h] \/ (pc[d] = "put" /\ hosts'[h].last = my[d].at)
  /\ \A h \in DOMAIN hosts' \ DOMAIN hosts :
       h = Len(hosts) + 1 /\ pc[d] = "addHost" /\ Spot(hosts'[h]) = Spot(my[d].host)

(* What a command has op write may outlive it.                              *)
LateStep(d) == \A w \in late' : w \in late \/ (w.place = pc[d] /\ w.job = my[d])

(* Items keep what they are known by.                                       *)
ItemsStay ==
  /\ \A v \in DOMAIN vals : v \in DOMAIN vals' /\ Who(vals'[v]) = Who(vals[v])
  /\ \A h \in DOMAIN hosts : h \in DOMAIN hosts' /\ Spot(hosts'[h]) = Spot(hosts[h])

(* Two items that are the same in what they keep clash with the same others.  *)
LEMMA SameClash ==
  ASSUME NEW one, NEW two, NEW more, Spot(one) = Spot(two)
  PROVE  /\ Clash(one, more) <=> Clash(two, more)
         /\ Clash(more, one) <=> Clash(more, two)
         /\ Clash(one, more) <=> Clash(more, one)
<1>1. /\ one.by = two.by /\ one.name = two.name /\ one.n = two.n
      /\ one.addr = two.addr /\ one.primary = two.primary
  BY DEF Spot
<1>2. Clash(one, more) <=> Clash(two, more)
  BY <1>1 DEF Clash
<1>3. Clash(more, one) <=> Clash(more, two)
  BY <1>1 DEF Clash
<1>4. ASSUME NEW x, NEW y, Clash(x, y) PROVE Clash(y, x)
  <2>1. y.by # None /\ y.by = x.by
    BY <1>4 DEF Clash
  <2>2. CASE x.addr = y.addr
    BY <2>1, <2>2 DEF Clash
  <2>3. CASE x.name = y.name /\ x.n = y.n
    BY <2>1, <2>3, Zenon DEF Clash
  <2>4. CASE x.name = y.name /\ x.primary /\ y.primary
    BY <2>1, <2>4, Zenon DEF Clash
  <2> QED BY <1>4, <2>2, <2>3, <2>4, Zenon DEF Clash
<1> QED BY <1>2, <1>3, <1>4

(* What a command that waits, or is between its reading and its writing, has  *)
(* is not spoilt by another's step: two that use one lock are not both alone. *)
LEMMA OtherSafe ==
  ASSUME Shape, AllSafe, NEW c \in Cmds, NEW d \in Cmds \ {c}, OnlyOf(d),
         LockStep(d), ValsStep(d), HostsStep(d)
  PROVE  Safe(c, pc[c], my[c])'
<1> USE ValidatorsAssumption
<1>1. PICK p, j : p = pc[c] /\ j = my[c]
  OBVIOUS
<1>2. pc'[c] = p /\ my'[c] = j
  BY <1>1 DEF OnlyOf
<1>3. Safe(c, p, j) /\ Fit(p, j)
  BY <1>1 DEF AllSafe, Shape, AllFit
<1>4. pc[d] \in Alone => lock[my[d].at] = d
  BY DEF AllSafe, Safe
<1>5. p # "idle" => j \in Job
  BY <1>3 DEF Fit
<1>6. p \in Alone => j.at \in Machines /\ p # "idle"
  BY <1>5 DEF Job, Alone
<1>7. p \in Alone /\ pc[d] \in Alone => my[d].at # j.at
  BY <1>3, <1>4 DEF Safe
<1>8. p \in Alone => lock'[j.at] = c
  BY <1>3, <1>6 DEF Safe, LockStep
<1>9. p \in OnServer \cup Writes /\ j.op \in HostOps =>
        j.h \in DOMAIN hosts /\ Spot(j.host) = Spot(hosts'[j.h])
  <2>1. ASSUME p \in OnServer \cup Writes, j.op \in HostOps PROVE StoredInHand(j)
    BY <1>3, <2>1 DEF Fit, ValInHand, HostOps
  <2> QED BY <1>3, <2>1 DEF Safe, StoredInHand, HostsStep
<1>10. p \in OnTheChain \cup Writes /\ j.op \notin HostOps =>
         j.v \in DOMAIN vals /\ Who(j.val) = Who(vals'[j.v])
  <2>1. ASSUME p \in OnTheChain \cup Writes, j.op \notin HostOps PROVE ValInHand(j)
    BY <1>3, <2>1 DEF Fit, StoredInHand
  <2> QED BY <1>3, <2>1 DEF Safe, ValInHand, ValsStep
<1>11. ASSUME p = "addVal", NEW v \in DOMAIN vals' PROVE Who(vals'[v]) # Who(j.val)
  <2>1. CASE v \in DOMAIN vals
    BY <1>3, <1>11, <2>1 DEF Safe, ValsStep
  <2>2. CASE v \notin DOMAIN vals
    <3>1. pc[d] = "addVal" /\ Who(vals'[v]) = Who(my[d].val)
      BY <2>2 DEF ValsStep
    <3>2. my[d].val.by = my[d].at
      BY <3>1 DEF Shape, AllFit, Fit, AddsVal, NewInHand
    <3>3. j.val.by = j.at
      BY <1>3, <1>11 DEF Fit, AddsVal, NewInHand
    <3>4. my[d].at # j.at
      BY <1>7, <1>11, <3>1 DEF Alone
    <3> QED BY <3>1, <3>2, <3>3, <3>4 DEF Who
  <2> QED BY <2>1, <2>2
<1>12. ASSUME p = "addHost", NEW h \in DOMAIN hosts' PROVE ~Clash(hosts'[h], j.host)
  <2>1. CASE h \in DOMAIN hosts
    BY <1>3, <1>12, <2>1, SameClash DEF Safe, HostsStep
  <2>2. CASE h \notin DOMAIN hosts
    <3>1. pc[d] = "addHost" /\ Spot(hosts'[h]) = Spot(my[d].host)
      BY <2>2 DEF HostsStep
    <3>2. my[d].host.by = my[d].at
      BY <3>1 DEF Shape, AllFit, Fit, AddsHost, HostInHand
    <3>3. j.host.by = j.at
      BY <1>3, <1>12 DEF Fit, AddsHost, HostInHand
    <3>4. my[d].at # j.at
      BY <1>7, <1>12, <3>1 DEF Alone
    <3>5. hosts'[h].by = my[d].at
      BY <3>1, <3>2 DEF Spot
    <3> QED BY <3>3, <3>4, <3>5 DEF Clash
  <2> QED BY <2>1, <2>2
<1>13. p = "put" /\ j.op \in HostOps => j.host.ver = hosts'[j.h].ver \/ hosts'[j.h].last # j.at
  <2> SUFFICES ASSUME p = "put", j.op \in HostOps
               PROVE  j.host.ver = hosts'[j.h].ver \/ hosts'[j.h].last # j.at
    OBVIOUS
  <2>1. j.h \in DOMAIN hosts
    BY <1>9 DEF Writes
  <2>2. CASE hosts'[j.h] = hosts[j.h]
    BY <1>3, <2>2 DEF Safe
  <2>3. CASE pc[d] = "put" /\ hosts'[j.h].last = my[d].at
    BY <1>7, <2>3 DEF Alone
  <2> QED BY <2>1, <2>2, <2>3 DEF HostsStep
<1>14. p = "put" /\ j.op \notin HostOps => j.val.ver = vals'[j.v].ver \/ vals'[j.v].last # j.at
  <2> SUFFICES ASSUME p = "put", j.op \notin HostOps
               PROVE  j.val.ver = vals'[j.v].ver \/ vals'[j.v].last # j.at
    OBVIOUS
  <2>1. j.v \in DOMAIN vals
    BY <1>10 DEF Writes
  <2>2. CASE vals'[j.v] = vals[j.v]
    BY <1>3, <2>2 DEF Safe
  <2>3. CASE pc[d] = "put" /\ vals'[j.v].last = my[d].at
    BY <1>7, <2>3 DEF Alone
  <2> QED BY <2>1, <2>2, <2>3 DEF ValsStep
<1>15. Safe(c, p, j)'
  BY <1>8, <1>9, <1>10, <1>11, <1>12, <1>13, <1>14 DEF Safe
<1> QED BY <1>2, <1>15 DEF Safe, Clash, Who, Spot

(* One item of each kind stays one, if none that is added has its like.       *)
LEMMA OnceEachStays ==
  ASSUME Safety, ItemsStay,
         \A y \in DOMAIN vals' \ DOMAIN vals :
           y = Len(vals) + 1 /\ \A x \in DOMAIN vals : ~Twin(vals[x], vals'[y]),
         \A y \in DOMAIN hosts' \ DOMAIN hosts :
           y = Len(hosts) + 1 /\ \A x \in DOMAIN hosts : ~Clash(hosts[x], hosts'[y])
  PROVE  OnceEach'
<1>1. \A v, w \in DOMAIN vals : Twin(vals[v], vals[w]) => v = w
  BY DEF Safety, OnceEach, Twin, Who
<1>2. \A h, i \in DOMAIN hosts : Clash(hosts[h], hosts[i]) => h = i
  BY DEF Safety, OnceEach, Clash
<1>3. \A v, w \in DOMAIN vals' : Twin(vals'[v], vals'[w]) => v = w
  <2> SUFFICES ASSUME NEW v \in DOMAIN vals', NEW w \in DOMAIN vals', Twin(vals'[v], vals'[w])
               PROVE  v = w
    OBVIOUS
  <2>1. ASSUME NEW x \in DOMAIN vals, NEW y \in DOMAIN vals' \ DOMAIN vals
        PROVE  ~Twin(vals'[x], vals'[y]) /\ ~Twin(vals'[y], vals'[x])
    <3>1. Who(vals'[x]) = Who(vals[x]) /\ ~Twin(vals[x], vals'[y])
      BY DEF ItemsStay
    <3> QED BY <3>1 DEF Twin, Who
  <2>2. CASE v \in DOMAIN vals /\ w \in DOMAIN vals
    <3>1. Who(vals'[v]) = Who(vals[v]) /\ Who(vals'[w]) = Who(vals[w])
      BY <2>2 DEF ItemsStay
    <3>2. Twin(vals[v], vals[w])
      BY <3>1 DEF Twin, Who
    <3> QED BY <1>1, <2>2, <3>2
  <2> QED BY <2>1, <2>2
<1>4. \A h, i \in DOMAIN hosts' : Clash(hosts'[h], hosts'[i]) => h = i
  <2> SUFFICES ASSUME NEW h \in DOMAIN hosts', NEW i \in DOMAIN hosts', Clash(hosts'[h], hosts'[i])
               PROVE  h = i
    OBVIOUS
  <2>1. ASSUME NEW x \in DOMAIN hosts, NEW y \in DOMAIN hosts' \ DOMAIN hosts
        PROVE  ~Clash(hosts'[x], hosts'[y]) /\ ~Clash(hosts'[y], hosts'[x])
    <3>1. Spot(hosts'[x]) = Spot(hosts[x]) /\ ~Clash(hosts[x], hosts'[y])
      BY DEF ItemsStay
    <3> QED BY <3>1, SameClash
  <2>2. CASE h \in DOMAIN hosts /\ i \in DOMAIN hosts
    BY <1>2, <2>2, SameClash DEF ItemsStay
  <2> QED BY <2>1, <2>2
<1>5. \A v, w \in DOMAIN vals' :
        vals'[v].by # None /\ vals'[v].by = vals'[w].by /\ vals'[v].name = vals'[w].name => v = w
  BY <1>3 DEF Twin, Who
<1>6. \A h, i \in DOMAIN hosts' :
        /\ hosts'[h].by # None /\ hosts'[h].by = hosts'[i].by
        /\ \/ hosts'[h].addr = hosts'[i].addr
           \/ hosts'[h].name = hosts'[i].name /\ (\/ hosts'[h].n = hosts'[i].n
                                                  \/ hosts'[h].primary /\ hosts'[i].primary)
        => h = i
  BY <1>4 DEF Clash
<1> QED BY <1>5, <1>6 DEF OnceEach

(* Nor does a write that outlived its erpc come to be over another item.      *)
LEMMA LateSameStays ==
  ASSUME Safety, ItemsStay, NEW w \in late
  PROVE  Same(w)'
<1>1. PICK p, j : p = w.place /\ j = w.job
  OBVIOUS
<1>2. p = "put" => StoredInHand(j) \/ ValInHand(j)
  BY <1>1 DEF Safety, Shape, LateFit, Fit, Writes
<1>3. Same(w)
  BY DEF Safety, LateSame
<1>4. p = "put" /\ j.op \in HostOps => Spot(j.host) = Spot(hosts'[j.h])
  BY <1>1, <1>2, <1>3 DEF Same, ItemsStay, StoredInHand, ValInHand, HostOps
<1>5. p = "put" /\ j.op \notin HostOps => Who(j.val) = Who(vals'[j.v])
  BY <1>1, <1>2, <1>3 DEF Same, ItemsStay, StoredInHand, ValInHand
<1> QED BY <1>1, <1>4, <1>5 DEF Same, Spot, Who

(* So a step of one command is safe if it leaves that command safe.          *)
LEMMA SafeStep ==
  ASSUME Safety, Shape', NEW c \in Cmds, NEW p \in Place, NEW j \in Job \cup {None},
         GoesOn(c, p, j), LateStep(c), LockStep(c), ValsStep(c), HostsStep(c), Safe(c, p, j)'
  PROVE  Safety'
<1>1. pc'[c] = p /\ my'[c] = j /\ OnlyOf(c)
  BY WentOn DEF Safety, Shape
<1>2. Safe(c, pc[c], my[c])'
  BY <1>1 DEF Safe, Clash, Who, Spot
<1>3. ASSUME NEW b \in Cmds \ {c} PROVE Safe(b, pc[b], my[b])'
  BY <1>1, OtherSafe DEF Safety
<1>4. AllSafe'
  <2> SUFFICES ASSUME NEW b \in Cmds PROVE Safe(b, pc[b], my[b])'
    BY DEF AllSafe
  <2>1. CASE b = c
    BY <1>2, <2>1
  <2>2. CASE b # c
    BY <1>3, <2>2
  <2> QED BY <2>1, <2>2
<1>5. ItemsStay
  BY DEF ItemsStay, ValsStep, HostsStep
<1>6. OnceEach'
  <2>1. ASSUME NEW y \in DOMAIN vals' \ DOMAIN vals, NEW x \in DOMAIN vals
        PROVE  y = Len(vals) + 1 /\ ~Twin(vals[x], vals'[y])
    <3>1. y = Len(vals) + 1 /\ pc[c] = "addVal" /\ Who(vals'[y]) = Who(my[c].val)
      BY DEF ValsStep
    <3>2. Who(vals[x]) # Who(my[c].val)
      BY <3>1 DEF Safety, AllSafe, Safe
    <3> QED BY <3>1, <3>2 DEF Twin
  <2>2. ASSUME NEW y \in DOMAIN hosts' \ DOMAIN hosts, NEW x \in DOMAIN hosts
        PROVE  y = Len(hosts) + 1 /\ ~Clash(hosts[x], hosts'[y])
    <3>1. y = Len(hosts) + 1 /\ pc[c] = "addHost" /\ Spot(hosts'[y]) = Spot(my[c].host)
      BY DEF HostsStep
    <3>2. ~Clash(hosts[x], my[c].host)
      BY <3>1 DEF Safety, AllSafe, Safe
    <3> QED BY <3>1, <3>2, SameClash
  <2>3. /\ \A y \in DOMAIN vals' \ DOMAIN vals : y = Len(vals) + 1
        /\ \A y \in DOMAIN hosts' \ DOMAIN hosts : y = Len(hosts) + 1
    BY DEF ValsStep, HostsStep
  <2> QED BY <1>5, <2>1, <2>2, <2>3, OnceEachStays
<1>7. LateSame'
  <2> SUFFICES ASSUME NEW w \in late' PROVE Same(w)'
    BY DEF LateSame
  <2>1. CASE w \in late
    BY <1>5, <2>1, LateSameStays
  <2>2. CASE w.place = pc[c] /\ w.job = my[c]
    <3>1. PICK q, i : q = pc[c] /\ i = my[c]
      OBVIOUS
    <3>2. Safe(c, q, i) /\ (q = "put" => StoredInHand(i) \/ ValInHand(i))
      BY <3>1 DEF Safety, AllSafe, Shape, AllFit, Fit, Writes
    <3>3. q = "put" /\ i.op \in HostOps => Spot(i.host) = Spot(hosts'[i.h])
      BY <1>5, <3>2 DEF Safe, Writes, ItemsStay, StoredInHand, ValInHand, HostOps
    <3>4. q = "put" /\ i.op \notin HostOps => Who(i.val) = Who(vals'[i.v])
      BY <1>5, <3>2 DEF Safe, Writes, ItemsStay, StoredInHand, ValInHand
    <3> QED BY <2>2, <3>1, <3>3, <3>4 DEF Same, Spot, Who
  <2> QED BY <2>1, <2>2 DEF LateStep
<1> QED BY <1>4, <1>6, <1>7 DEF Safety

(* Where a command has no lock and nothing of the inventory in hand.         *)
Free == {"idle", "vals", "hosts", "find", "list", "make", "waitVal", "waitHost"}

(* There, nothing is asked of it.                                           *)
LEMMA FreeSafe ==
  ASSUME NEW c, NEW p \in Free, NEW j
  PROVE  Safe(c, p, j) /\ Safe(c, p, j)' /\ p \in Place
BY DEF Free, Safe, Alone, OnServer, Writes, OnTheChain, Place, Waits

(* A command gives back only its own locks.                                 *)
LEMMA UnlockStep ==
  ASSUME NEW c, Unlock(c)
  PROVE  LockStep(c)
BY DEF Unlock, LockStep

(* A step that stores nothing adds and overwrites nothing.                  *)
LEMMA NothingStored ==
  ASSUME vals' = vals, hosts' = hosts, NEW c
  PROVE  ValsStep(c) /\ HostsStep(c)
BY DEF ValsStep, HostsStep

(* Steps that neither store anything nor touch a lock, and endings.          *)
LEMMA QuietSafe ==
  ASSUME Safety, Shape', NEW c \in Cmds, LateStep(c), NEW p \in Place, NEW j \in Job \cup {None},
         GoesOn(c, p, j), UNCHANGED <<vals, hosts, lock>>, Safe(c, p, j)
  PROVE  Safety'
<1>1. Safe(c, p, j)'
  BY DEF Safe, Who, Spot, Clash
<1>2. LockStep(c)
  BY DEF LockStep
<1> QED BY <1>1, <1>2, NothingStored, SafeStep

(* An ending may give locks back.                                           *)
LEMMA EndSafe ==
  ASSUME Safety, Shape', NEW c \in Cmds, LateStep(c), Ends(c), UNCHANGED <<vals, hosts>>
  PROVE  Safety'
<1>1. GoesOn(c, "idle", None) /\ LockStep(c)
  BY UnlockStep DEF Ends
<1>2. Safe(c, "idle", None)' /\ "idle" \in Place
  BY FreeSafe DEF Free
<1> QED BY <1>1, <1>2, NothingStored, SafeStep

-----------------------------------------------------------------------------
(* The steps again, one by one.                                             *)

(* Beginning.                                                               *)
LEMMA StartSafe ==
  ASSUME Safety, Shape', NEW c \in Cmds, LateStep(c), Start(c)
  PROVE  Safety'
<1>1. PICK j : GoesOn(c, "vals", j)
  BY DEF Start
<1>2. my'[c] = j /\ my'[c] \in Job \cup {None}
  BY <1>1 DEF GoesOn, Safety, Shape, TypeOK
<1> QED BY <1>1, <1>2, FreeSafe, QuietSafe DEF Start, vault, Free

(* Reading the validators.                                                  *)
LEMMA ReadValsSafe ==
  ASSUME Safety, Shape', NEW c \in Cmds, LateStep(c), ReadVals(c)
  PROVE  Safety'
<1>1. my[c] \in Job /\ UNCHANGED <<vals, hosts>>
  BY HasJob DEF Safety, ReadVals, vault
<1>2. ASSUME NEW p \in Place, NEW j, GoesOn(c, p, j) PROVE j \in Job \cup {None}
  BY <1>2 DEF GoesOn, Safety, Shape, TypeOK
<1>3. ASSUME NEW j, GoesOn(c, "hosts", j), UNCHANGED lock PROVE Safety'
  BY <1>1, <1>2, <1>3, FreeSafe, QuietSafe DEF Free
<1>4. ASSUME my[c].op = "keys", NEW v \in Named(vals, my[c].name), UNCHANGED lock,
             GoesOn(c, "waitPut", [my[c] EXCEPT !.v = v, !.val = [vals[v] EXCEPT !.auth = 3 - @]])
      PROVE  Safety'
  <2>1. PICK new : new = [vals[v] EXCEPT !.auth = 3 - @]
    OBVIOUS
  <2>2. PICK j : j = [my[c] EXCEPT !.v = v, !.val = new]
    OBVIOUS
  <2>3. vals[v] \in Validator
    BY ValFound DEF Safety
  <2>4. Who(new) = Who(vals[v])
    BY <2>1, <2>3 DEF Who, Validator
  <2>5. j.op = "keys" /\ j.v = v /\ j.val = new
    BY <1>1, <1>4, <2>2 DEF Job
  <2>6. Safe(c, "waitPut", j) /\ "waitPut" \in Place
    BY <2>4, <2>5 DEF Safe, Alone, OnServer, Writes, OnTheChain, Place, Waits, HostOps
  <2> QED BY <1>1, <1>2, <1>4, <2>1, <2>2, <2>6, QuietSafe
<1>5. ASSUME my[c].op = "vote", NEW v \in Named(vals, my[c].name), UNCHANGED lock,
             GoesOn(c, "chain", [my[c] EXCEPT !.v = v, !.val = vals[v]])
      PROVE  Safety'
  <2>1. PICK j : j = [my[c] EXCEPT !.v = v, !.val = vals[v]]
    OBVIOUS
  <2>2. j.op = "vote" /\ j.v = v /\ j.val = vals[v]
    BY <1>1, <1>5, <2>1 DEF Job
  <2>3. Safe(c, "chain", j) /\ "chain" \in Place
    BY <2>2 DEF Safe, Alone, OnServer, Writes, OnTheChain, Place, Waits, HostOps
  <2> QED BY <1>1, <1>2, <1>5, <2>1, <2>3, QuietSafe
<1>6. CASE Ends(c)
  BY <1>1, <1>6, EndSafe
<1> QED BY <1>3, <1>4, <1>5, <1>6 DEF ReadVals, Goes

(* A host that is read is the one in hand.                                  *)
LEMMA HostRead ==
  ASSUME Safety, Shape', NEW c \in Cmds, LateStep(c), NEW job \in Job, job.op \in {"init", "deploy"}, NEW h,
         NEW p \in {"password", "run", "waitPut"},
         GoesOn(c, p, [job EXCEPT !.h = h, !.host = hosts[h]]),
         UNCHANGED <<vals, hosts, lock>>
  PROVE  Safety'
<1>1. PICK j : j = [job EXCEPT !.h = h, !.host = hosts[h]]
  OBVIOUS
<1>2. j.op = job.op /\ j.h = h /\ j.host = hosts[h]
  BY <1>1 DEF Job
<1>3. Safe(c, p, j) /\ p \in Place
  BY <1>2 DEF Safe, Alone, OnServer, Writes, OnTheChain, Place, Waits, HostOps
<1>4. j \in Job \cup {None}
  BY <1>1, <1>3 DEF GoesOn, Safety, Shape, TypeOK
<1> QED BY <1>1, <1>3, <1>4, QuietSafe

(* Reading the hosts.                                                       *)
LEMMA ReadHostsSafe ==
  ASSUME Safety, Shape', NEW c \in Cmds, LateStep(c), ReadHosts(c)
  PROVE  Safety'
<1>1. my[c] \in Job /\ UNCHANGED <<vals, hosts>>
  BY HasJob DEF Safety, ReadHosts, vault
<1>2. ASSUME NEW p \in {"find", "waitHost"}, NEW j, GoesOn(c, p, j), UNCHANGED lock PROVE Safety'
  <2>1. p \in Free /\ p \in Place
    BY DEF Free, Place, Waits
  <2>2. j \in Job \cup {None}
    BY <1>2 DEF GoesOn, Safety, Shape, TypeOK
  <2> QED BY <1>1, <1>2, <2>1, <2>2, FreeSafe, QuietSafe
<1>3. CASE Ends(c)
  BY <1>1, <1>3, EndSafe
<1>4. CASE my[c].op = "init" /\ Plan(c)
  <2>1. PICK on : on = [my[c] EXCEPT !.addr = None, !.spare = FALSE, !.v = 0, !.val = None]
    OBVIOUS
  <2>2. on \in Job /\ on.op = "init"
    BY <1>1, <1>4, <2>1 DEF Job
  <2>3. ASSUME NEW h, UNCHANGED lock, GoesOn(c, "password", [on EXCEPT !.h = h, !.host = hosts[h]])
        PROVE  Safety'
    BY <1>1, <2>2, <2>3, HostRead
  <2> QED BY <1>2, <1>3, <1>4, <2>1, <2>3 DEF Plan
<1>5. CASE my[c].op = "deploy" /\ Pick(c)
  <2>1. ASSUME NEW h, NEW p \in {"waitPut", "run"}, UNCHANGED lock,
               GoesOn(c, p, [my[c] EXCEPT !.h = h, !.host = hosts[h], !.v = 0])
        PROVE  Safety'
    <3>1. PICK on : on = [my[c] EXCEPT !.v = 0]
      OBVIOUS
    <3>2. on \in Job /\ on.op = "deploy"
      BY <1>1, <1>5, <3>1 DEF Job
    <3>3. [my[c] EXCEPT !.h = h, !.host = hosts[h], !.v = 0] = [on EXCEPT !.h = h, !.host = hosts[h]]
      BY <1>1, <3>1 DEF Job
    <3>4. GoesOn(c, p, [on EXCEPT !.h = h, !.host = hosts[h]])
      BY <2>1, <3>3
    <3>5. my[c].op \in {"init", "deploy"} /\ p \in {"password", "run", "waitPut"}
      BY <1>5, <2>1
    <3> QED BY <1>1, <2>1, <3>2, <3>4, <3>5, HostRead
  <2> QED BY <1>3, <1>5, <2>1 DEF Pick
<1> QED BY <1>4, <1>5 DEF ReadHosts

(* Reading the password of a host that is resumed.                          *)
LEMMA ReadPasswordSafe ==
  ASSUME Safety, Shape', NEW c \in Cmds, LateStep(c), ReadPassword(c)
  PROVE  Safety'
<1>1. my[c] \in Job /\ StoredInHand(my[c]) /\ UNCHANGED <<vals, hosts, lock>> /\ pc[c] = "password"
  BY HasJob DEF Safety, ReadPassword, vault, Fit, OnServer
<1>2. Spot(my[c].host) = Spot(hosts[my[c].h])
  BY <1>1 DEF Safety, AllSafe, Safe, OnServer, StoredInHand
<1>3. PICK j : j = [my[c] EXCEPT !.pw = hosts[my[c].h].pw]
  OBVIOUS
<1>4. j.op = my[c].op /\ j.host = my[c].host /\ j.h = my[c].h
  BY <1>1, <1>3 DEF Job
<1>5. Safe(c, "run", j) /\ "run" \in Place
  BY <1>2, <1>4 DEF Safe, Alone, OnServer, Writes, OnTheChain, Place, Waits
<1>6. GoesOn(c, "run", j)
  BY <1>3 DEF ReadPassword
<1>7. j \in Job \cup {None}
  BY <1>6 DEF GoesOn, Safety, Shape, TypeOK
<1> QED BY <1>1, <1>5, <1>6, <1>7, QuietSafe

(* Finding, listing and making keys has no use for the lock.                *)
LEMMA KeyStepsSafe ==
  ASSUME Safety, Shape', NEW c \in Cmds, LateStep(c), FindKey(c) \/ ListKeys(c) \/ MakeKey(c)
  PROVE  Safety'
<1>1. UNCHANGED <<vals, hosts>> /\ (UNCHANGED lock \/ Ends(c))
  BY DEF FindKey, ListKeys, MakeKey, vault
<1>2. CASE Ends(c)
  BY <1>1, <1>2, EndSafe
<1>3. ASSUME NEW p \in Free, NEW j, GoesOn(c, p, j), UNCHANGED lock PROVE Safety'
  <2>1. j \in Job \cup {None}
    BY <1>3 DEF GoesOn, Safety, Shape, TypeOK
  <2> QED BY <1>1, <1>3, <2>1, FreeSafe, QuietSafe
<1>4. "find" \in Free /\ "list" \in Free /\ "make" \in Free /\ "waitVal" \in Free
  BY DEF Free
<1> QED BY <1>1, <1>2, <1>3, <1>4 DEF FindKey, ListKeys, MakeKey, HasKey, Goes

(* The lock of the machine, taken by who waits for it.                       *)
LEMMA TakeLockSafe ==
  ASSUME Safety, Shape', NEW c \in Cmds, LateStep(c), TakeLock(c)
  PROVE  Safety'
<1>1. /\ my[c] \in Job /\ Fit(pc[c], my[c]) /\ pc[c] \in Waits /\ UNCHANGED <<vals, hosts>>
      /\ GoesOn(c, Behind(pc[c]), my[c])
  BY HasJob DEF Safety, TakeLock, vault, Goes, Waits
<1>2. lock \in [Machines -> Cmds \cup {None}] /\ my[c].at \in Machines
  BY <1>1 DEF Safety, Shape, TypeOK, Job
<1>3. lock[my[c].at] = None /\ lock' = [lock EXCEPT ![my[c].at] = c]
  BY DEF TakeLock
<1>4. LockStep(c) /\ lock'[my[c].at] = c
  BY <1>2, <1>3 DEF LockStep
<1>5. Safe(c, pc[c], my[c])
  BY DEF Safety, AllSafe
<1>6. PICK p, j : p = Behind(pc[c]) /\ j = my[c]
  OBVIOUS
<1>7. p \in {"checkVal", "checkHost", "get"} /\ (p = "get" => pc[c] = "waitPut")
  BY <1>1, <1>6 DEF Behind, Waits
<1>8. Safe(c, p, j)'
  BY <1>1, <1>4, <1>5, <1>6, <1>7
  DEF Safe, Alone, OnServer, Writes, OnTheChain, Who, Spot
<1>9. p \in Place
  BY <1>7 DEF Place, Alone
<1> QED BY <1>1, <1>4, <1>6, <1>8, <1>9, NothingStored, SafeStep

(* Under the lock: what is to be added is not there, and what is to be written *)
(* over is as it was read.                                                  *)
LEMMA CheckValSafe ==
  ASSUME Safety, Shape', NEW c \in Cmds, LateStep(c), CheckVal(c)
  PROVE  Safety'
<1>1. /\ my[c] \in Job /\ NewInHand(my[c]) /\ pc[c] = "checkVal" /\ UNCHANGED <<vals, hosts>>
      /\ lock[my[c].at] = c
  BY HasJob DEF Safety, CheckVal, vault, Fit, AddsVal, AllSafe, Safe, Alone
<1>2. CASE Ends(c)
  BY <1>1, <1>2, EndSafe
<1>3. CASE Named(vals, my[c].name) = {} /\ Goes(c, "addVal") /\ UNCHANGED lock
  <2>1. \A v \in DOMAIN vals : Who(vals[v]) # Who(my[c].val)
    BY <1>1, <1>3 DEF Named, NewInHand, Who
  <2>2. Safe(c, "addVal", my[c]) /\ "addVal" \in Place
    BY <1>1, <2>1 DEF Safe, Alone, OnServer, Writes, OnTheChain, Place
  <2> QED BY <1>1, <1>3, <2>2, QuietSafe DEF Goes
<1> QED BY <1>2, <1>3 DEF CheckVal

(* Likewise for a host: its server, its name and its being primary.         *)
LEMMA CheckHostSafe ==
  ASSUME Safety, Shape', NEW c \in Cmds, LateStep(c), CheckHost(c)
  PROVE  Safety'
<1>1. my[c] \in Job /\ pc[c] = "checkHost" /\ UNCHANGED <<vals, hosts>> /\ lock[my[c].at] = c
  BY HasJob DEF Safety, CheckHost, vault, AllSafe, Safe, Alone
<1>2. CASE Ends(c)
  BY <1>1, <1>2, EndSafe
<1>3. CASE Fits(my[c].host) /\ Goes(c, "addHost") /\ UNCHANGED lock
  <2>1. ASSUME NEW h \in DOMAIN hosts PROVE ~Clash(hosts[h], my[c].host)
    <3>1. hosts[h].addr # my[c].host.addr
      BY <1>3 DEF Fits
    <3>2. hosts[h].name = my[c].host.name => hosts[h].n # my[c].host.n
      BY <1>3 DEF Fits
    <3>3. hosts[h].name = my[c].host.name => ~(hosts[h].primary /\ my[c].host.primary)
      BY <1>3 DEF Fits, Named
    <3> QED BY <3>1, <3>2, <3>3 DEF Clash
  <2>2. Safe(c, "addHost", my[c]) /\ "addHost" \in Place
    BY <1>1, <2>1 DEF Safe, Alone, OnServer, Writes, OnTheChain, Place
  <2> QED BY <1>1, <1>3, <2>2, QuietSafe DEF Goes
<1> QED BY <1>2, <1>3 DEF CheckHost

(* The version under the lock is the one that was read before.              *)
LEMMA GetSafe ==
  ASSUME Safety, Shape', NEW c \in Cmds, LateStep(c), Get(c)
  PROVE  Safety'
<1>1. /\ my[c] \in Job /\ Fit("get", my[c]) /\ pc[c] = "get" /\ UNCHANGED <<vals, hosts>>
      /\ Safe(c, "get", my[c])
  BY HasJob DEF Safety, Get, vault, AllSafe
<1>2. CASE Ends(c)
  BY <1>1, <1>2, EndSafe
<1>3. CASE /\ Version(c) = VersionRead(c) /\ UNCHANGED lock
           /\ GoesOn(c, "put", IF OnHost(c) THEN [my[c] EXCEPT !.pw = hosts[my[c].h].pw] ELSE my[c])
  <2>1. PICK j : j = IF OnHost(c) THEN [my[c] EXCEPT !.pw = hosts[my[c].h].pw] ELSE my[c]
    OBVIOUS
  <2>2. /\ j.op = my[c].op /\ j.h = my[c].h /\ j.host = my[c].host /\ j.v = my[c].v /\ j.val = my[c].val
        /\ j.at = my[c].at
    BY <1>1, <2>1 DEF Job
  <2>3. j.op \in HostOps => j.host.ver = hosts[j.h].ver
    BY <1>3, <2>2 DEF Version, VersionRead, OnHost, HostOps
  <2>4. j.op \notin HostOps => j.val.ver = vals[j.v].ver
    BY <1>3, <2>2 DEF Version, VersionRead, OnHost, HostOps
  <2>5. Safe(c, "put", j) /\ "put" \in Place
    BY <1>1, <2>2, <2>3, <2>4 DEF Safe, Alone, OnServer, Writes, OnTheChain, Place
  <2>6. GoesOn(c, "put", j)
    BY <1>3, <2>1
  <2>7. j \in Job \cup {None}
    BY <2>6 DEF GoesOn, Safety, Shape, TypeOK
  <2> QED BY <1>1, <1>3, <2>5, <2>6, <2>7, QuietSafe
<1> QED BY <1>2, <1>3 DEF Get

(* Storing a new item.                                                      *)
LEMMA AddValSafe ==
  ASSUME Safety, Shape', NEW c \in Cmds, LateStep(c), AddVal(c)
  PROVE  Safety'
<1>1. pc[c] = "addVal" /\ hosts' = hosts /\ vals' = Append(vals, my[c].val) /\ LockStep(c)
  BY UnlockStep DEF AddVal
<1>2. vals \in Seq(Validator) /\ vals' \in Seq(Validator)
  BY DEF Safety, Shape, TypeOK
<1>3. PICK val : val = my[c].val
  OBVIOUS
<1>4. ValsStep(c)
  <2>1. vals' = Append(vals, val)
    BY <1>1, <1>3
  <2>2. \A v \in DOMAIN vals : v \in DOMAIN vals' /\ vals'[v] = vals[v]
    BY <1>2, <2>1
  <2>3. \A v \in DOMAIN vals' \ DOMAIN vals : v = Len(vals) + 1 /\ vals'[v] = val
    BY <1>2, <2>1
  <2> QED BY <1>1, <1>3, <2>2, <2>3 DEF ValsStep
<1>5. HostsStep(c)
  BY <1>1 DEF HostsStep
<1>6. PICK j : GoesOn(c, "waitHost", j)
  BY DEF AddVal
<1>7. j \in Job \cup {None}
  BY <1>6 DEF GoesOn, Safety, Shape, TypeOK
<1>8. Safe(c, "waitHost", j)' /\ "waitHost" \in Place
  BY FreeSafe DEF Free
<1> QED BY <1>1, <1>4, <1>5, <1>6, <1>7, <1>8, SafeStep

(* Likewise for a host, which stays in hand.                                *)
LEMMA AddHostSafe ==
  ASSUME Safety, Shape', NEW c \in Cmds, LateStep(c), AddHost(c)
  PROVE  Safety'
<1>1. /\ pc[c] = "addHost" /\ my[c] \in Job /\ HostInHand(my[c]) /\ vals' = vals /\ LockStep(c)
      /\ hosts \in Seq(Host)
  BY HasJob, UnlockStep DEF Safety, Shape, TypeOK, AddHost, Fit, AddsHost
<1>2. PICK id : id = Len(hosts) + 1
  OBVIOUS
<1>3. PICK new : new = [my[c].host EXCEPT !.pw = id]
  OBVIOUS
<1>4. PICK j : j = [my[c] EXCEPT !.h = id, !.host = new, !.pw = id]
  OBVIOUS
<1>5. hosts' = Append(hosts, new) /\ GoesOn(c, "run", j)
  BY <1>2, <1>3, <1>4 DEF AddHost
<1>6. Spot(new) = Spot(my[c].host)
  BY <1>1, <1>3 DEF Spot, HostInHand, Host
<1>7. /\ \A h \in DOMAIN hosts : h \in DOMAIN hosts' /\ hosts'[h] = hosts[h]
      /\ \A h \in DOMAIN hosts' \ DOMAIN hosts : h = Len(hosts) + 1 /\ hosts'[h] = new
      /\ hosts'[id] = new
  BY <1>1, <1>2, <1>5
<1>8. HostsStep(c) /\ ValsStep(c)
  BY <1>1, <1>6, <1>7, NothingStored DEF HostsStep, ValsStep
<1>9. j.h = id /\ j.host = new /\ j.op = my[c].op
  BY <1>1, <1>4 DEF Job
<1>10. Spot(j.host) = Spot(hosts'[j.h])
  BY <1>7, <1>9
<1>11. Safe(c, "run", j)' /\ "run" \in Place
  BY <1>10 DEF Safe, Alone, OnServer, Writes, OnTheChain, Place
<1>12. j \in Job \cup {None}
  BY <1>5 DEF GoesOn, Safety, Shape, TypeOK
<1> QED BY <1>1, <1>5, <1>8, <1>11, <1>12, SafeStep

(* Writing over a stored item.                                              *)
LEMMA PutHostSafe ==
  ASSUME Safety, Shape', NEW c \in Cmds, LateStep(c), Put(c), OnHost(c)
  PROVE  Safety'
<1>1. pc[c] = "put" /\ my[c] \in Job /\ Fit("put", my[c]) /\ Safe(c, "put", my[c]) /\ vals' = vals
  BY HasJob DEF Safety, AllSafe, Put
<1>2. hosts \in Seq(Host) /\ LockStep(c)
  BY UnlockStep DEF Safety, Shape, TypeOK, Put
<1>3. PICK h : h = my[c].h
  OBVIOUS
<1>4. PICK new : new = [my[c].host EXCEPT !.solv = TRUE, !.pw = my[c].pw, !.last = my[c].at,
                                          !.ver = hosts[h].ver + 1]
  OBVIOUS
<1>5. StoredInHand(my[c]) /\ my[c].op \in HostOps
  BY <1>1 DEF Fit, Writes, ValInHand, OnHost, HostOps
<1>6. h \in DOMAIN hosts /\ my[c].host \in Host /\ Spot(my[c].host) = Spot(hosts[h])
  BY <1>1, <1>3, <1>5 DEF StoredInHand, Safe, Writes
<1>7. Spot(new) = Spot(hosts[h]) /\ new.last = my[c].at
  BY <1>4, <1>6 DEF Spot, Host
<1>8. hosts' = [hosts EXCEPT ![h] = new]
  BY <1>3, <1>4 DEF Put
<1>9. HostsStep(c) /\ hosts'[h] = new
  <2>1. DOMAIN hosts' = DOMAIN hosts /\ hosts'[h] = new
    BY <1>6, <1>8
  <2>2. \A i \in DOMAIN hosts : i # h => hosts'[i] = hosts[i]
    BY <1>8
  <2>3. \A i \in DOMAIN hosts : /\ Spot(hosts'[i]) = Spot(hosts[i])
                                /\ hosts'[i] = hosts[i] \/ hosts'[i].last = my[c].at
    BY <1>7, <2>1, <2>2
  <2> QED BY <1>1, <2>1, <2>3 DEF HostsStep
<1>10. ValsStep(c)
  BY <1>1 DEF ValsStep
<1>11. PICK j : j = [my[c] EXCEPT !.host = new]
  OBVIOUS
<1>12. GoesOn(c, "idle", None) \/ GoesOn(c, "run", j)
  BY <1>3, <1>4, <1>11 DEF Put
<1>13. Safe(c, "idle", None)' /\ "idle" \in Place
  BY FreeSafe DEF Free
<1>14. j.host = new /\ j.h = h
  BY <1>1, <1>3, <1>11 DEF Job
<1>15. Spot(j.host) = Spot(hosts'[j.h])
  BY <1>9, <1>14
<1>16. Safe(c, "run", j)' /\ "run" \in Place
  BY <1>15 DEF Safe, Alone, OnServer, Writes, OnTheChain, Place
<1>17. GoesOn(c, "run", j) => j \in Job \cup {None}
  BY DEF GoesOn, Safety, Shape, TypeOK
<1> QED BY <1>2, <1>9, <1>10, <1>12, <1>13, <1>16, <1>17, SafeStep

(* Likewise for a validator.                                                *)
LEMMA PutValSafe ==
  ASSUME Safety, Shape', NEW c \in Cmds, LateStep(c), Put(c), ~OnHost(c)
  PROVE  Safety'
<1>1. pc[c] = "put" /\ my[c] \in Job /\ Fit("put", my[c]) /\ Safe(c, "put", my[c]) /\ hosts' = hosts
  BY HasJob DEF Safety, AllSafe, Put
<1>2. vals \in Seq(Validator) /\ LockStep(c) /\ GoesOn(c, "idle", None)
  BY UnlockStep DEF Safety, Shape, TypeOK, Put
<1>3. PICK v : v = my[c].v
  OBVIOUS
<1>4. PICK new : new = [my[c].val EXCEPT !.last = my[c].at, !.ver = vals[v].ver + 1]
  OBVIOUS
<1>5. ValInHand(my[c]) /\ my[c].op \notin HostOps
  BY <1>1 DEF Fit, Writes, StoredInHand, OnHost, HostOps
<1>6. v \in DOMAIN vals /\ my[c].val \in Validator /\ Who(my[c].val) = Who(vals[v])
  BY <1>1, <1>3, <1>5 DEF ValInHand, Safe, Writes
<1>7. Who(new) = Who(vals[v]) /\ new.last = my[c].at
  BY <1>4, <1>6 DEF Who, Validator
<1>8. vals' = [vals EXCEPT ![v] = new]
  BY <1>3, <1>4 DEF Put
<1>9. ValsStep(c)
  <2>1. DOMAIN vals' = DOMAIN vals /\ vals'[v] = new
    BY <1>6, <1>8
  <2>2. \A i \in DOMAIN vals : i # v => vals'[i] = vals[i]
    BY <1>8
  <2>3. \A i \in DOMAIN vals : /\ Who(vals'[i]) = Who(vals[i])
                               /\ vals'[i] = vals[i] \/ vals'[i].last = my[c].at
    BY <1>7, <2>1, <2>2
  <2> QED BY <1>1, <2>1, <2>3 DEF ValsStep
<1>10. HostsStep(c)
  BY <1>1 DEF HostsStep
<1>11. Safe(c, "idle", None)' /\ "idle" \in Place
  BY FreeSafe DEF Free
<1> QED BY <1>2, <1>9, <1>10, <1>11, SafeStep

(* The host in hand stays the one it is through a run and its record.        *)
LEMMA HostStays ==
  ASSUME Safety, NEW c \in Cmds, pc[c] \in {"run", "follow"}, NEW j, NEW p \in {"follow", "waitPut"},
         j.host = my[c].host, j.h = my[c].h, j.op \in HostOps
  PROVE  Safe(c, p, j) /\ p \in Place
<1>1. Fit(pc[c], my[c]) /\ Safe(c, pc[c], my[c])
  BY DEF Safety, Shape, AllFit, AllSafe
<1>2. Spot(my[c].host) = Spot(hosts[my[c].h])
  BY <1>1 DEF Fit, Safe, OnServer, StoredInHand
<1> QED BY <1>2 DEF Safe, Alone, OnServer, Writes, OnTheChain, Place, Waits

(* A run that failed ends the command, or its host is written next.          *)
LEMMA FailedSafe ==
  ASSUME Safety, Shape', NEW c \in Cmds, LateStep(c), pc[c] \in {"run", "follow"}, Failed(c),
         UNCHANGED <<vals, hosts>>
  PROVE  Safety'
<1>1. CASE Ends(c)
  BY <1>1, EndSafe
<1>2. CASE GoesOn(c, "waitPut", [my[c] EXCEPT !.op = "record"]) /\ UNCHANGED lock
  <2>1. PICK j : j = [my[c] EXCEPT !.op = "record"]
    OBVIOUS
  <2>2. my[c] \in Job
    BY HasJob DEF Safety
  <2>3. j.host = my[c].host /\ j.h = my[c].h /\ j.op \in HostOps
    BY <2>1, <2>2 DEF Job, HostOps
  <2>4. Safe(c, "waitPut", j) /\ "waitPut" \in Place
    BY <2>3, HostStays
  <2>5. j \in Job \cup {None}
    BY <1>2, <2>1 DEF GoesOn, Safety, Shape, TypeOK
  <2> QED BY <1>2, <2>1, <2>4, <2>5, QuietSafe
<1> QED BY <1>1, <1>2 DEF Failed

(* Starting a run.                                                          *)
LEMMA StartRunSafe ==
  ASSUME Safety, Shape', NEW c \in Cmds, LateStep(c), StartRun(c)
  PROVE  Safety'
<1>1. my[c] \in Job /\ Fit("run", my[c]) /\ pc[c] = "run" /\ UNCHANGED <<vals, hosts>>
  BY HasJob DEF Safety, StartRun, vault
<1>2. CASE Failed(c)
  BY <1>1, <1>2, FailedSafe
<1>3. CASE Goes(c, "follow") /\ UNCHANGED lock
  <2>1. my[c].op \in HostOps
    BY <1>1 DEF Fit, OnServer, StoredInHand
  <2>2. Safe(c, "follow", my[c]) /\ "follow" \in Place
    BY <1>1, <2>1, HostStays
  <2> QED BY <1>1, <1>3, <2>2, QuietSafe DEF Goes
<1> QED BY <1>2, <1>3 DEF StartRun

(* A run's end.                                                             *)
LEMMA RunEndsSafe ==
  ASSUME Safety, Shape', NEW a \in Addresses, RunEnds(a)
  PROVE  Safety'
<1>1. UNCHANGED <<vals, hosts, late>> /\ runs[a] # None /\ \A c : LateStep(c)
  BY DEF RunEnds, vault, settled, LateStep
<1>2. CASE UNCHANGED <<pc, my, lock>>
  <2>1. AllSafe' /\ LateSame' /\ OnceEach'
    BY <1>1, <1>2 DEF Safety, AllSafe, Safe, LateSame, Same, Who, Spot, Clash, OnceEach
  <2> QED BY <2>1 DEF Safety
<1>3. CASE runs[a].by # None
  <2>1. PICK c : c = runs[a].by
    OBVIOUS
  <2>2. c \in Cmds /\ pc[c] = "follow"
    BY <1>1, <1>3, <2>1 DEF Safety, Shape, TypeOK, Run, Followed
  <2>3. my[c] \in Job /\ my[c].op \in HostOps
    <3>1. my[c] \in Job /\ Fit("follow", my[c])
      BY <2>2, HasJob DEF Safety
    <3> QED BY <3>1 DEF Fit, OnServer, StoredInHand
  <2>4. \/ Failed(c)
        \/ /\ UNCHANGED lock
           /\ GoesOn(c, "waitPut", IF my[c].op = "init" THEN my[c] ELSE [my[c] EXCEPT !.op = "record"])
    BY <1>3, <2>1 DEF RunEnds
  <2>5. PICK j : j = IF my[c].op = "init" THEN my[c] ELSE [my[c] EXCEPT !.op = "record"]
    OBVIOUS
  <2>6. j.host = my[c].host /\ j.h = my[c].h /\ j.op \in HostOps
    BY <2>3, <2>5 DEF Job, HostOps
  <2>7. Safe(c, "waitPut", j) /\ "waitPut" \in Place
    BY <2>2, <2>6, HostStays
  <2>8. CASE GoesOn(c, "waitPut", j) /\ UNCHANGED lock
    <3>1. j \in Job \cup {None}
      BY <2>2, <2>8 DEF GoesOn, Safety, Shape, TypeOK
    <3> QED BY <1>1, <2>2, <2>7, <2>8, <3>1, QuietSafe
  <2>9. CASE Failed(c)
    BY <1>1, <2>2, <2>9, FailedSafe
  <2> QED BY <2>4, <2>5, <2>8, <2>9
<1> QED BY <1>2, <1>3 DEF RunEnds

(* The steps of vote-account, which has the item of a validator in hand.      *)
LEMMA VoteStepsSafe ==
  ASSUME Safety, Shape', NEW c \in Cmds, LateStep(c),
         ReadChain(c) \/ CreateAccount(c) \/ RegisterBls(c) \/ ForgetKey(c)
  PROVE  Safety'
<1>1. my[c] \in Job /\ Fit(pc[c], my[c]) /\ pc[c] \in OnTheChain /\ UNCHANGED <<vals, hosts>>
  BY HasJob DEF Safety, ReadChain, CreateAccount, RegisterBls, ForgetKey, vault, OnTheChain
<1>2. ValInHand(my[c]) /\ my[c].op = "vote"
  BY <1>1 DEF Fit
<1>3. Who(my[c].val) = Who(vals[my[c].v])
  BY <1>1, <1>2 DEF Safety, AllSafe, Safe, HostOps
<1>4. CASE Ends(c)
  BY <1>1, <1>4, EndSafe
<1>5. ASSUME NEW p \in OnTheChain, Goes(c, p), UNCHANGED lock PROVE Safety'
  <2>1. Safe(c, p, my[c]) /\ p \in Place
    BY <1>2, <1>3 DEF Safe, Alone, OnServer, Writes, OnTheChain, Place, HostOps
  <2> QED BY <1>1, <1>5, <2>1, QuietSafe DEF Goes
<1>6. CASE GoesOn(c, "waitPut", [my[c] EXCEPT !.val.ref = FALSE]) /\ UNCHANGED lock
  <2>1. PICK val : val = [my[c].val EXCEPT !.ref = FALSE]
    OBVIOUS
  <2>2. PICK j : j = [my[c] EXCEPT !.val = val]
    OBVIOUS
  <2>3. j = [my[c] EXCEPT !.val.ref = FALSE]
    BY <1>1, <2>1, <2>2 DEF Job
  <2>4. Who(val) = Who(my[c].val)
    BY <1>2, <2>1 DEF ValInHand, Who, Validator
  <2>5. j.op = "vote" /\ j.v = my[c].v /\ j.val = val
    BY <1>1, <1>2, <2>2 DEF Job
  <2>6. Safe(c, "waitPut", j) /\ "waitPut" \in Place
    BY <1>3, <2>4, <2>5 DEF Safe, Alone, OnServer, Writes, OnTheChain, Place, Waits, HostOps
  <2>7. GoesOn(c, "waitPut", j)
    BY <1>6, <2>3
  <2>8. j \in Job \cup {None}
    BY <2>7 DEF GoesOn, Safety, Shape, TypeOK
  <2> QED BY <1>1, <1>6, <2>6, <2>7, <2>8, QuietSafe
<1>7. {"create", "bls", "forget"} \subseteq OnTheChain
  BY DEF OnTheChain
<1> QED BY <1>4, <1>5, <1>6, <1>7 DEF ReadChain, CreateAccount, RegisterBls, ForgetKey

(* Only a command that stops leaves a write behind.                         *)
LEMMA LateOf ==
  ASSUME NEW c \in Cmds, Start(c) \/ Step(c) \/ TakeLock(c) \/ Stop(c)
  PROVE  LateStep(c)
<1>1. CASE Stop(c)
  BY <1>1 DEF Stop, settled, LateStep
<1>2. CASE Start(c) \/ TakeLock(c)
  BY <1>2 DEF Start, TakeLock, vault, settled, LateStep
<1>3. CASE Step(c)
  <2>1. late' = late
    BY <1>3
    DEF Step, ReadVals, ReadHosts, ReadPassword, FindKey, ListKeys, MakeKey, CheckVal, AddVal, CheckHost,
        AddHost, Get, Put, StartRun, ReadChain, CreateAccount, RegisterBls, ForgetKey, vault, settled
  <2> QED BY <2>1 DEF LateStep
<1> QED BY <1>1, <1>2, <1>3

(* What lands late is over the item that was read, and nobody's.             *)
LEMMA LandsSteps ==
  ASSUME Safety, NEW w \in late, Lands(w)
  PROVE  /\ \A v \in DOMAIN vals :
              /\ v \in DOMAIN vals' /\ Who(vals'[v]) = Who(vals[v])
              /\ vals'[v] = vals[v] \/ vals'[v].last = None
         /\ \A v \in DOMAIN vals' \ DOMAIN vals : v = Len(vals) + 1 /\ vals'[v].by = None
         /\ \A h \in DOMAIN hosts :
              /\ h \in DOMAIN hosts' /\ Spot(hosts'[h]) = Spot(hosts[h])
              /\ hosts'[h] = hosts[h] \/ hosts'[h].last = None
         /\ \A h \in DOMAIN hosts' \ DOMAIN hosts : h = Len(hosts) + 1 /\ hosts'[h].by = None
<1>1. PICK j : j = w.job
  OBVIOUS
<1>2. Fit(w.place, j) /\ Same(w)
  BY <1>1 DEF Safety, Shape, LateFit, LateSame
<1>3. vals \in Seq(Validator) /\ hosts \in Seq(Host)
  BY DEF Safety, Shape, TypeOK
<1>4. CASE UNCHANGED <<vals, hosts>>
  BY <1>4
<1>5. CASE /\ w.place = "addVal" /\ vals' = Append(vals, [j.val EXCEPT !.by = None, !.last = None])
           /\ hosts' = hosts
  <2>1. PICK val : val = [j.val EXCEPT !.by = None, !.last = None]
    OBVIOUS
  <2>2. j.val \in Validator
    BY <1>2, <1>5 DEF Fit, AddsVal, NewInHand
  <2>3. val.by = None
    BY <2>1, <2>2 DEF Validator
  <2>4. vals' = Append(vals, val)
    BY <1>5, <2>1
  <2>5. \A v \in DOMAIN vals : v \in DOMAIN vals' /\ vals'[v] = vals[v]
    BY <1>3, <2>4
  <2>6. \A v \in DOMAIN vals' \ DOMAIN vals : v = Len(vals) + 1 /\ vals'[v] = val
    BY <1>3, <2>4
  <2> QED BY <1>5, <2>3, <2>5, <2>6
<1>6. CASE /\ w.place = "addHost" /\ vals' = vals
           /\ hosts' = Append(hosts, [[j.host EXCEPT !.by = None, !.last = None] EXCEPT
                                        !.pw = Len(hosts) + 1])
  <2>1. PICK new : new = [[j.host EXCEPT !.by = None, !.last = None] EXCEPT !.pw = Len(hosts) + 1]
    OBVIOUS
  <2>2. j.host \in Host
    BY <1>2, <1>6 DEF Fit, AddsHost, HostInHand
  <2>3. new.by = None
    BY <2>1, <2>2 DEF Host
  <2>4. hosts' = Append(hosts, new)
    BY <1>6, <2>1
  <2>5. \A h \in DOMAIN hosts : h \in DOMAIN hosts' /\ hosts'[h] = hosts[h]
    BY <1>3, <2>4
  <2>6. \A h \in DOMAIN hosts' \ DOMAIN hosts : h = Len(hosts) + 1 /\ hosts'[h] = new
    BY <1>3, <2>4
  <2> QED BY <1>6, <2>3, <2>5, <2>6
<1>7. CASE /\ w.place = "put" /\ j.op \in HostOps /\ vals' = vals
           /\ hosts' = [hosts EXCEPT ![j.h] = [j.host EXCEPT !.solv = TRUE, !.pw = j.pw, !.last = None,
                                                           !.ver = hosts[j.h].ver + 1]]
  <2>1. PICK h : h = j.h
    OBVIOUS
  <2>2. PICK new : new = [j.host EXCEPT !.solv = TRUE, !.pw = j.pw, !.last = None,
                                        !.ver = hosts[h].ver + 1]
    OBVIOUS
  <2>3. StoredInHand(j)
    BY <1>2, <1>7 DEF Fit, Writes, ValInHand, HostOps
  <2>4. h \in DOMAIN hosts /\ j.host \in Host /\ Spot(j.host) = Spot(hosts[h])
    BY <1>1, <1>2, <1>7, <2>1, <2>3 DEF StoredInHand, Same
  <2>5. new.last = None /\ Spot(new) = Spot(hosts[h])
    BY <2>2, <2>4 DEF Host, Spot
  <2>6. hosts' = [hosts EXCEPT ![h] = new]
    BY <1>7, <2>1, <2>2
  <2>7. DOMAIN hosts' = DOMAIN hosts /\ hosts'[h] = new
    BY <2>4, <2>6
  <2>8. \A i \in DOMAIN hosts : i # h => hosts'[i] = hosts[i]
    BY <2>6
  <2>9. \A i \in DOMAIN hosts : /\ Spot(hosts'[i]) = Spot(hosts[i])
                                /\ hosts'[i] = hosts[i] \/ hosts'[i].last = None
    BY <2>5, <2>7, <2>8
  <2> QED BY <1>7, <2>7, <2>9
<1>8. CASE /\ w.place = "put" /\ j.op \notin HostOps /\ hosts' = hosts
           /\ vals' = [vals EXCEPT ![j.v] = [j.val EXCEPT !.last = None, !.ver = vals[j.v].ver + 1]]
  <2>1. PICK v : v = j.v
    OBVIOUS
  <2>2. PICK new : new = [j.val EXCEPT !.last = None, !.ver = vals[v].ver + 1]
    OBVIOUS
  <2>3. ValInHand(j)
    BY <1>2, <1>8 DEF Fit, Writes, StoredInHand
  <2>4. v \in DOMAIN vals /\ j.val \in Validator /\ Who(j.val) = Who(vals[v])
    BY <1>1, <1>2, <1>8, <2>1, <2>3 DEF ValInHand, Same
  <2>5. new.last = None /\ Who(new) = Who(vals[v])
    BY <2>2, <2>4 DEF Validator, Who
  <2>6. vals' = [vals EXCEPT ![v] = new]
    BY <1>8, <2>1, <2>2
  <2>7. DOMAIN vals' = DOMAIN vals /\ vals'[v] = new
    BY <2>4, <2>6
  <2>8. \A i \in DOMAIN vals : i # v => vals'[i] = vals[i]
    BY <2>6
  <2>9. \A i \in DOMAIN vals : /\ Who(vals'[i]) = Who(vals[i])
                               /\ vals'[i] = vals[i] \/ vals'[i].last = None
    BY <2>5, <2>7, <2>8
  <2> QED BY <1>8, <2>7, <2>9
<1> QED BY <1>1, <1>4, <1>5, <1>6, <1>7, <1>8 DEF Lands

(* So it spoils nothing of what a command that has the lock has found.        *)
LEMMA LandsSafe ==
  ASSUME Safety, Shape', NEW w \in late, Lands(w)
  PROVE  Safety'
<1> USE ValidatorsAssumption
<1>1. ItemsStay
  BY LandsSteps DEF ItemsStay
<1>2. /\ late' = late \ {w} /\ UNCHANGED <<lock, pc, my>>
      /\ vals \in Seq(Validator) /\ hosts \in Seq(Host)
  BY DEF Lands, Safety, Shape, TypeOK
<1>3. LateSame'
  <2> SUFFICES ASSUME NEW x \in late PROVE Same(x)'
    BY <1>2 DEF LateSame
  <2> QED BY <1>1, LateSameStays
<1>4. OnceEach'
  <2>1. ASSUME NEW y \in DOMAIN vals' \ DOMAIN vals, NEW x \in DOMAIN vals
        PROVE  y = Len(vals) + 1 /\ ~Twin(vals[x], vals'[y])
    BY LandsSteps DEF Twin, Who
  <2>2. ASSUME NEW y \in DOMAIN hosts' \ DOMAIN hosts, NEW x \in DOMAIN hosts
        PROVE  y = Len(hosts) + 1 /\ ~Clash(hosts[x], hosts'[y])
    BY LandsSteps DEF Clash
  <2>3. /\ \A y \in DOMAIN vals' \ DOMAIN vals : y = Len(vals) + 1
        /\ \A y \in DOMAIN hosts' \ DOMAIN hosts : y = Len(hosts) + 1
    BY LandsSteps
  <2> QED BY <1>1, <2>1, <2>2, <2>3, OnceEachStays
<1>5. ASSUME NEW c \in Cmds PROVE Safe(c, pc[c], my[c])'
  <2>1. PICK p, j : p = pc[c] /\ j = my[c]
    OBVIOUS
  <2>2. Safe(c, p, j) /\ Fit(p, j) /\ p = pc'[c] /\ j = my'[c]
    BY <1>2, <2>1 DEF Safety, AllSafe, Shape, AllFit
  <2>3. p # "idle" => j \in Job
    BY <2>2 DEF Fit
  <2>4. p \in Alone => j.at \in Machines /\ lock'[j.at] = c
    BY <1>2, <2>2, <2>3 DEF Job, Alone, Safe
  <2>5. p \in OnServer \cup Writes /\ j.op \in HostOps =>
          j.h \in DOMAIN hosts /\ Spot(j.host) = Spot(hosts'[j.h])
    <3>1. ASSUME p \in OnServer \cup Writes, j.op \in HostOps PROVE StoredInHand(j)
      BY <2>2, <3>1 DEF Fit, ValInHand, HostOps
    <3> QED BY <1>1, <2>2, <3>1 DEF Safe, StoredInHand, ItemsStay
  <2>6. p \in OnTheChain \cup Writes /\ j.op \notin HostOps =>
          j.v \in DOMAIN vals /\ Who(j.val) = Who(vals'[j.v])
    <3>1. ASSUME p \in OnTheChain \cup Writes, j.op \notin HostOps PROVE ValInHand(j)
      BY <2>2, <3>1 DEF Fit, StoredInHand
    <3> QED BY <1>1, <2>2, <3>1 DEF Safe, ValInHand, ItemsStay
  <2>7. ASSUME p = "addVal", NEW v \in DOMAIN vals' PROVE Who(vals'[v]) # Who(j.val)
    <3>1. CASE v \in DOMAIN vals
      BY <1>1, <2>2, <2>7, <3>1 DEF Safe, ItemsStay
    <3>2. CASE v \notin DOMAIN vals
      <4>1. vals'[v].by = None
        BY <3>2, LandsSteps
      <4>2. j.val.by = j.at /\ j.at # None
        BY <2>2, <2>4, <2>7 DEF Fit, AddsVal, NewInHand, Alone
      <4> QED BY <4>1, <4>2 DEF Who
    <3> QED BY <3>1, <3>2
  <2>8. ASSUME p = "addHost", NEW h \in DOMAIN hosts' PROVE ~Clash(hosts'[h], j.host)
    <3>1. CASE h \in DOMAIN hosts
      BY <1>1, <2>2, <2>8, <3>1, SameClash DEF Safe, ItemsStay
    <3>2. CASE h \notin DOMAIN hosts
      BY <3>2, LandsSteps DEF Clash
    <3> QED BY <3>1, <3>2
  <2>9. ASSUME p = "put", j.op \in HostOps
        PROVE  j.host.ver = hosts'[j.h].ver \/ hosts'[j.h].last # j.at
    <3>1. j.h \in DOMAIN hosts /\ j.at # None
      BY <2>4, <2>5, <2>9 DEF Writes, Alone
    <3> QED BY <2>2, <2>9, <3>1, LandsSteps DEF Safe
  <2>10. ASSUME p = "put", j.op \notin HostOps
         PROVE  j.val.ver = vals'[j.v].ver \/ vals'[j.v].last # j.at
    <3>1. j.v \in DOMAIN vals /\ j.at # None
      BY <2>4, <2>6, <2>10 DEF Writes, Alone
    <3> QED BY <2>2, <2>10, <3>1, LandsSteps DEF Safe
  <2>11. Safe(c, p, j)'
    BY <2>4, <2>5, <2>6, <2>7, <2>8, <2>9, <2>10 DEF Safe
  <2> QED BY <2>2, <2>11 DEF Safe, Clash, Who, Spot
<1> QED BY <1>3, <1>4, <1>5 DEF Safety, AllSafe

(* Every step, and none.                                                    *)
LEMMA StepSafe ==
  ASSUME Safety, [Next]_vars
  PROVE  Safety'
<1>1. Shape'
  BY StepShape DEF Safety
<1>2. CASE UNCHANGED vars
  <2>1. AllSafe' /\ LateSame' /\ OnceEach'
    BY <1>2 DEF Safety, vars, AllSafe, Safe, LateSame, Same, Who, Spot, Clash, OnceEach
  <2> QED BY <1>1, <2>1 DEF Safety
<1>3. ASSUME NEW a \in Addresses, RunEnds(a) PROVE Safety'
  BY <1>1, <1>3, RunEndsSafe
<1>4. ASSUME NEW c \in Cmds, Start(c) \/ TakeLock(c) \/ Stop(c) PROVE Safety'
  <2>1. LateStep(c)
    BY <1>4, LateOf
  <2>2. CASE Stop(c)
    BY <1>1, <2>1, <2>2, EndSafe DEF Stop
  <2> QED BY <1>1, <1>4, <2>1, <2>2, StartSafe, TakeLockSafe
<1>5. ASSUME NEW c \in Cmds, Step(c) PROVE Safety'
  <2>1. LateStep(c)
    BY <1>5, LateOf
  <2>2. CASE Put(c)
    BY <1>1, <2>1, <2>2, PutHostSafe, PutValSafe
  <2> QED BY <1>1, <1>5, <2>1, <2>2, ReadValsSafe, ReadHostsSafe, ReadPasswordSafe, KeyStepsSafe,
             CheckValSafe, CheckHostSafe, AddValSafe, AddHostSafe, GetSafe, StartRunSafe, VoteStepsSafe
          DEF Step
<1>6. ASSUME NEW w \in late, Lands(w) PROVE Safety'
  BY <1>1, <1>6, LandsSafe
<1> QED BY <1>2, <1>3, <1>4, <1>5, <1>6 DEF Next

(* At most one item of each kind is there at first.                         *)
LEMMA InitSafe ==
  ASSUME Init
  PROVE  Safety
<1>1. Shape
  BY InitShape
<1>2. AllSafe
  BY FreeSafe DEF Init, AllSafe, Free
<1>3. OnceEach
  <2>1. DOMAIN vals \subseteq {1} /\ DOMAIN hosts \subseteq {1}
    BY DEF Init, NoServer, OneServer
  <2> QED BY <2>1 DEF OnceEach
<1>4. LateSame
  BY DEF Init, LateSame
<1> QED BY <1>1, <1>2, <1>3, <1>4 DEF Safety

(* So every command always has its machine's lock when it needs it.          *)
LEMMA SafetyHolds == Spec => []Safety
<1>1. Safety /\ [Next]_vars => Safety'
  BY StepSafe
<1> QED BY <1>1, InitSafe, PTL DEF Spec

-----------------------------------------------------------------------------
(* Of what the erpc of one machine add to the inventory under its lock, no two *)
(* validators have one name, no two hosts one name or one server, and no       *)
(* validator two primaries (add_validator and add_host look under the lock),   *)
(* however many commands run at once, wherever they stop and whatever lands    *)
(* late.  What lands late was not made under a lock (OpCli::run's child is not *)
(* ended with its erpc): such an item may be the second of its name or server. *)
THEOREM AddedOnce == Spec => []OnceEach
<1>1. Safety => OnceEach
  BY DEF Safety
<1> QED BY <1>1, SafetyHolds, PTL

(* Writing over an item under the lock of its machine, with its version        *)
(* compared (update_host, update_validator), loses only what another machine  *)
(* wrote in between, or a write that outlived its erpc; such a write, with no  *)
(* lock, may itself lose anything.                                          *)
THEOREM OnlyOthersOverwritten == Spec => NothingOverwritten
<1> DEFINE Kept ==
      /\ \A h \in DOMAIN hosts : hosts'[h] # hosts[h] /\ hosts'[h].last # None =>
           \E c \in Cmds : /\ pc[c] = "put" /\ OnHost(c) /\ my[c].h = h
                           /\ my[c].host.ver = hosts[h].ver \/ hosts[h].last # my[c].at
      /\ \A v \in DOMAIN vals : vals'[v] # vals[v] /\ vals'[v].last # None =>
           \E c \in Cmds : /\ pc[c] = "put" /\ ~OnHost(c) /\ my[c].v = v
                           /\ my[c].val.ver = vals[v].ver \/ vals[v].last # my[c].at
<1>1. ASSUME Safety, [Next]_vars PROVE [Kept]_vars
  <2>1. CASE UNCHANGED <<vals, hosts>>
    BY <2>1
  <2>2. ASSUME NEW c \in Cmds, AddVal(c) PROVE Kept
    <3>1. vals \in Seq(Validator) /\ vals' \in Seq(Validator)
      BY <1>1, StepShape DEF Safety, Shape, TypeOK
    <3>2. PICK val : val = my[c].val
      OBVIOUS
    <3>3. vals' = Append(vals, val) /\ hosts' = hosts
      BY <2>2, <3>2 DEF AddVal
    <3> QED BY <3>1, <3>3
  <2>3. ASSUME NEW c \in Cmds, AddHost(c) PROVE Kept
    <3>1. hosts \in Seq(Host) /\ vals' = vals
      BY <1>1, <2>3 DEF Safety, Shape, TypeOK, AddHost
    <3>2. PICK new : hosts' = Append(hosts, new)
      BY <2>3 DEF AddHost
    <3>3. \A h \in DOMAIN hosts : hosts'[h] = hosts[h]
      BY <3>1, <3>2
    <3> QED BY <3>1, <3>3
  <2>4. ASSUME NEW c \in Cmds, Put(c) PROVE Kept
    <3>1. pc[c] = "put" /\ Safe(c, "put", my[c])
      BY <1>1, <2>4 DEF Put, Safety, AllSafe
    <3>2. CASE OnHost(c)
      <4>1. my[c].host.ver = hosts[my[c].h].ver \/ hosts[my[c].h].last # my[c].at
        BY <3>1, <3>2 DEF Safe, OnHost, HostOps
      <4>2. vals' = vals /\ \A h \in DOMAIN hosts : h # my[c].h => hosts'[h] = hosts[h]
        BY <2>4, <3>2 DEF Put
      <4> QED BY <3>1, <3>2, <4>1, <4>2
    <3>3. CASE ~OnHost(c)
      <4>1. my[c].val.ver = vals[my[c].v].ver \/ vals[my[c].v].last # my[c].at
        BY <3>1, <3>3 DEF Safe, OnHost, HostOps
      <4>2. hosts' = hosts /\ \A v \in DOMAIN vals : v # my[c].v => vals'[v] = vals[v]
        BY <2>4, <3>3 DEF Put
      <4> QED BY <3>1, <3>3, <4>1, <4>2
    <3> QED BY <3>2, <3>3
  <2>5. ASSUME NEW c \in Cmds, Step(c), ~AddVal(c), ~AddHost(c), ~Put(c)
        PROVE  UNCHANGED <<vals, hosts>>
    BY <2>5
    DEF Step, ReadVals, ReadHosts, ReadPassword, FindKey, ListKeys, MakeKey, CheckVal, CheckHost, Get,
        StartRun, ReadChain, CreateAccount, RegisterBls, ForgetKey, vault
  <2>6. \/ UNCHANGED <<vals, hosts>>
        \/ \E c \in Cmds : Step(c)
        \/ \E w \in late : Lands(w)
    BY <1>1 DEF Next, Start, TakeLock, Stop, RunEnds, vault, vars
  <2>7. ASSUME NEW w \in late, Lands(w) PROVE Kept
    BY <1>1, <2>7, LandsSteps
  <2> HIDE DEF Kept
  <2> QED BY <2>1, <2>2, <2>3, <2>4, <2>5, <2>6, <2>7
<1> QED BY <1>1, SafetyHolds, PTL DEF Spec, NothingOverwritten

-----------------------------------------------------------------------------
(* Passwords.  Each is told apart by the item it was made for.               *)

IsFor(h, a) == h \in DOMAIN hosts /\ hosts[h].addr = a

(* An item keeps the password it was made with, and says that its server has  *)
(* a `solv` user only when it has.                                          *)
ItemsTrue ==
  \A h \in DOMAIN hosts : hosts[h].pw = h /\ (hosts[h].solv => solv[hosts[h].addr] # 0)

(* What a server has, and what a run gives it, is the password of an item for *)
(* that server; the run of an init gives it one.                            *)
ServersTrue ==
  \A a \in Addresses :
    /\ solv[a] # 0 => IsFor(solv[a], a)
    /\ runs[a] # None /\ runs[a].pw # 0 => IsFor(runs[a].pw, a)
    /\ runs[a] # None /\ runs[a].by # None /\ my[runs[a].by].op = "init" => runs[a].pw # 0

(* What a command knows of its server: an init that runs there, or that writes *)
(* what it did, has the item's password, and nothing is written, and no        *)
(* deploy runs, before the server has its user.                             *)
ForItem(place, job) == place \in OnServer \/ (place \in Writes /\ job.op \in HostOps)
HasPw(place, job) == \/ place \in {"run", "follow"} /\ job.op = "init"
                     \/ place = "put" /\ job.op \in HostOps
HasUser(place, job) == \/ place \in {"run", "follow"} /\ job.op # "init"
                       \/ place \in Writes /\ job.op \in HostOps
Knows(place, job) ==
  /\ place \in Makes \cup AddsVal \cup AddsHost => ~job.host.solv
  /\ place = "password" => job.op = "init"
  /\ ForItem(place, job) => IsFor(job.h, job.host.addr)
  /\ HasPw(place, job) => job.pw = job.h
  /\ HasUser(place, job) => solv[job.host.addr] # 0
AllKnow == \A c \in Cmds : Knows(pc[c], my[c])

LateKnow == \A w \in late : Knows(w.place, w.job)

Passwords == Shape /\ ItemsTrue /\ ServersTrue /\ AllKnow /\ LateKnow

(* No item changes its server, and no server loses its user.                 *)
ServersStay ==
  /\ \A h \in DOMAIN hosts : h \in DOMAIN hosts' /\ hosts'[h].addr = hosts[h].addr
  /\ \A a \in Addresses : solv[a] # 0 => solv'[a] # 0

(* So an item stays for its server,                                         *)
LEMMA ForStays ==
  ASSUME ServersStay, NEW h, NEW a, IsFor(h, a)
  PROVE  IsFor(h, a)'
BY DEF ServersStay, IsFor

(* whose address is an address,                                             *)
LEMMA ForAddress ==
  ASSUME Shape, NEW h, NEW a, IsFor(h, a)
  PROVE  a \in Addresses /\ h \in Nat \ {0} /\ hosts[h] \in Host
<1>1. hosts \in Seq(Host) /\ h \in DOMAIN hosts /\ hosts[h].addr = a
  BY DEF Shape, TypeOK, IsFor
<1>2. hosts[h] \in Host /\ h \in Nat \ {0}
  BY <1>1
<1> QED BY <1>1, <1>2 DEF Host

(* and what a command knows stays true.                                     *)
LEMMA KnowsStill ==
  ASSUME Shape, ServersStay, NEW place, NEW job, Knows(place, job)
  PROVE  Knows(place, job)'
<1>1. ForItem(place, job) => IsFor(job.h, job.host.addr)'
  <2>1. ASSUME IsFor(job.h, job.host.addr) PROVE IsFor(job.h, job.host.addr)'
    <3>1. PICK h, a : h = job.h /\ a = job.host.addr
      OBVIOUS
    <3>2. IsFor(h, a)'
      BY <2>1, <3>1, ForStays
    <3> QED BY <3>1, <3>2
  <2> QED BY <2>1 DEF Knows
<1>2. HasUser(place, job) => ForItem(place, job)
  BY DEF HasUser, ForItem, OnServer
<1>3. HasUser(place, job) => solv'[job.host.addr] # 0
  <2>1. ASSUME HasUser(place, job) PROVE job.host.addr \in Addresses
    <3>1. IsFor(job.h, job.host.addr)
      BY <1>2, <2>1 DEF Knows
    <3> QED BY <3>1, ForAddress
  <2> QED BY <2>1 DEF Knows, ServersStay
<1> QED BY <1>1, <1>3 DEF Knows, ForItem, HasPw, HasUser

(* So does what a write that outlived its erpc was begun with.               *)
LEMMA LateKnowStays ==
  ASSUME Passwords, ServersStay, NEW c \in Cmds, LateStep(c)
  PROVE  LateKnow'
<1> SUFFICES ASSUME NEW w \in late' PROVE Knows(w.place, w.job)'
  BY DEF LateKnow
<1>1. PICK p, j : p = w.place /\ j = w.job
  OBVIOUS
<1>2. Knows(p, j)
  BY <1>1 DEF LateStep, Passwords, AllKnow, LateKnow
<1>3. Knows(p, j)'
  BY <1>2, KnowsStill DEF Passwords
<1> QED BY <1>1, <1>3 DEF Knows, ForItem, HasPw, HasUser, IsFor

(* A step is good if what it leaves of the items and the servers is true, and  *)
(* the command knows what its next place takes.                             *)
LEMMA PasswordStep ==
  ASSUME Passwords, Shape', NEW c \in Cmds, LateStep(c), NEW p, NEW j, GoesOn(c, p, j), Knows(p, j)',
         ServersStay, ItemsTrue', ServersTrue'
  PROVE  Passwords'
<1>1. pc'[c] = p /\ my'[c] = j /\ OnlyOf(c)
  BY DEF Passwords, Shape, TypeOK, GoesOn, OnlyOf
<1>2. ASSUME NEW d \in Cmds PROVE Knows(pc[d], my[d])'
  <2>1. CASE d = c
    BY <1>1, <2>1 DEF Knows, ForItem, HasPw, HasUser, IsFor
  <2>2. CASE d # c
    <3>1. PICK q, i : q = pc[d] /\ i = my[d]
      OBVIOUS
    <3>2. q = pc'[d] /\ i = my'[d]
      BY <1>1, <2>2, <3>1 DEF OnlyOf
    <3>3. Knows(q, i)'
      BY <3>1, KnowsStill DEF Passwords, AllKnow
    <3> QED BY <3>2, <3>3 DEF Knows, ForItem, HasPw, HasUser, IsFor
  <2> QED BY <2>1, <2>2
<1> QED BY <1>2, LateKnowStays DEF Passwords, AllKnow

(* Who follows a run is not one that goes on from elsewhere, so its run is as  *)
(* it was.                                                                  *)
LEMMA RunsTrue ==
  ASSUME Passwords, NEW c \in Cmds, pc[c] # "follow", OnlyOf(c), ServersStay,
         solv' = solv, runs' = runs
  PROVE  ServersTrue'
<1>1. ASSUME NEW a \in Addresses, runs[a] # None, runs[a].by # None
      PROVE  my'[runs[a].by] = my[runs[a].by]
  <2>1. runs[a] \in Run
    BY <1>1 DEF Passwords, Shape, TypeOK
  <2>2. pc[runs[a].by] = "follow"
    BY <1>1 DEF Passwords, Shape, Followed
  <2> QED BY <1>1, <2>1, <2>2 DEF Run, OnlyOf
<1>2. \A a \in Addresses :
        /\ solv[a] # 0 => IsFor(solv[a], a)
        /\ runs[a] # None /\ runs[a].pw # 0 => IsFor(runs[a].pw, a)
        /\ runs[a] # None /\ runs[a].by # None /\ my'[runs[a].by].op = "init" => runs[a].pw # 0
  BY <1>1 DEF Passwords, ServersTrue
<1>3. \A h, a : IsFor(h, a) => h \in DOMAIN hosts' /\ hosts'[h].addr = a
  BY DEF ServersStay, IsFor
<1> QED BY <1>2, <1>3 DEF ServersTrue, IsFor

(* Steps that touch neither an item of a host nor a server.                  *)
LEMMA QuietKnows ==
  ASSUME Passwords, Shape', NEW c \in Cmds, LateStep(c), NEW p, NEW j, GoesOn(c, p, j), Knows(p, j),
         pc[c] # "follow", UNCHANGED <<hosts, solv, runs>>
  PROVE  Passwords'
<1>1. OnlyOf(c)
  BY DEF Passwords, Shape, TypeOK, GoesOn, OnlyOf
<1>2. ServersStay
  BY DEF ServersStay
<1>3. Knows(p, j)'
  BY <1>2, KnowsStill DEF Passwords
<1>4. ItemsTrue'
  BY DEF Passwords, ItemsTrue
<1>5. ServersTrue'
  BY <1>1, <1>2, RunsTrue
<1> QED BY <1>2, <1>3, <1>4, <1>5, PasswordStep

(* Where nothing is asked of a command.                                     *)
Unasked == {"idle", "vals", "hosts"} \cup OnTheChain
LEMMA NothingAsked ==
  ASSUME NEW p \in Unasked, NEW j
  PROVE  Knows(p, j) /\ Knows(p, j)'
BY DEF Unasked, Makes, AddsVal, AddsHost, OnServer, Writes, OnTheChain, Knows, ForItem, HasPw, HasUser

(* Ending.                                                                  *)
LEMMA EndKnows ==
  ASSUME Passwords, Shape', NEW c \in Cmds, LateStep(c), Ends(c), pc[c] # "follow", UNCHANGED <<hosts, solv, runs>>
  PROVE  Passwords'
<1>1. GoesOn(c, "idle", None)
  BY DEF Ends
<1>2. Knows("idle", None)
  BY NothingAsked DEF Unasked
<1> QED BY <1>1, <1>2, QuietKnows

(* Beginning, and reading the validators.                                   *)
LEMMA ReadingKnows ==
  ASSUME Passwords, Shape', NEW c \in Cmds, LateStep(c), Start(c) \/ ReadVals(c)
  PROVE  Passwords'
<1>1. pc[c] # "follow" /\ UNCHANGED <<hosts, solv, runs>>
  BY DEF Start, ReadVals, vault, nodes
<1>2. CASE Ends(c)
  BY <1>1, <1>2, EndKnows
<1>3. ASSUME NEW p \in Unasked, NEW j, GoesOn(c, p, j) PROVE Passwords'
  BY <1>1, <1>3, NothingAsked, QuietKnows
<1>4. ASSUME ReadVals(c), my[c].op = "keys", NEW v,
             GoesOn(c, "waitPut", [my[c] EXCEPT !.v = v, !.val = [vals[v] EXCEPT !.auth = 3 - @]])
      PROVE  Passwords'
  <2>1. my[c] \in Job
    BY <1>4, HasJob DEF Passwords, ReadVals
  <2>2. PICK j : j = [my[c] EXCEPT !.v = v, !.val = [vals[v] EXCEPT !.auth = 3 - @]]
    OBVIOUS
  <2>3. j.op = "keys"
    BY <1>4, <2>1, <2>2 DEF Job
  <2>4. Knows("waitPut", j)
    BY <2>3
    DEF Knows, ForItem, HasPw, HasUser, Makes, AddsVal, AddsHost, OnServer, Writes, HostOps
  <2> QED BY <1>1, <1>4, <2>2, <2>4, QuietKnows
<1>5. "vals" \in Unasked /\ "hosts" \in Unasked /\ "chain" \in Unasked
  BY DEF Unasked, OnTheChain
<1> QED BY <1>2, <1>3, <1>4, <1>5 DEF Start, ReadVals, Goes

(* A host that is resumed, one that is new and has no `solv`, one that a       *)
(* deploy goes to and has it.                                               *)
LEMMA ReadHostsKnows ==
  ASSUME Passwords, Shape', NEW c \in Cmds, LateStep(c), ReadHosts(c)
  PROVE  Passwords'
<1>1. my[c] \in Job /\ pc[c] # "follow" /\ UNCHANGED <<hosts, solv, runs>>
  BY HasJob DEF Passwords, ReadHosts, vault, nodes
<1>2. CASE Ends(c)
  BY <1>1, <1>2, EndKnows
<1>3. CASE my[c].op = "init" /\ Plan(c)
  <2>1. PICK on : on = [my[c] EXCEPT !.addr = None, !.spare = FALSE, !.v = 0, !.val = None]
    OBVIOUS
  <2>2. on \in Job /\ on.op = "init"
    BY <1>1, <1>3, <2>1 DEF Job
  <2>3. ASSUME NEW h \in Resumed(my[c].name, my[c].addr),
               GoesOn(c, "password", [on EXCEPT !.h = h, !.host = hosts[h]])
        PROVE  Passwords'
    <3>1. PICK j : j = [on EXCEPT !.h = h, !.host = hosts[h]]
      OBVIOUS
    <3>2. j.op = "init" /\ j.h = h /\ j.host = hosts[h]
      BY <2>2, <3>1 DEF Job
    <3>3. h \in DOMAIN hosts
      BY DEF Resumed, Pending, Named
    <3>4. Knows("password", j)
      BY <3>2, <3>3
      DEF Knows, ForItem, HasPw, HasUser, Makes, AddsVal, AddsHost, OnServer, Writes, IsFor
    <3> QED BY <1>1, <2>3, <3>1, <3>4, QuietKnows
  <2>4. ASSUME NEW p \in {"find", "waitHost"}, NEW j, GoesOn(c, p, j), ~j.host.solv
        PROVE  Passwords'
    <3>1. Knows(p, j)
      BY <2>4 DEF Knows, ForItem, HasPw, HasUser, Makes, AddsVal, AddsHost, OnServer, Writes
    <3> QED BY <1>1, <2>4, <3>1, QuietKnows
  <2>5. ASSUME NEW n, GoesOn(c, "find", [on EXCEPT !.val = NewVal(my[c]), !.host = NewHost(my[c], n)])
        PROVE  Passwords'
    <3>1. PICK j : j = [on EXCEPT !.val = NewVal(my[c]), !.host = NewHost(my[c], n)]
      OBVIOUS
    <3>2. j.host = NewHost(my[c], n)
      BY <2>2, <3>1 DEF Job
    <3>3. ~j.host.solv
      BY <3>2 DEF NewHost
    <3> QED BY <2>4, <2>5, <3>1, <3>3
  <2>6. ASSUME NEW n, GoesOn(c, "waitHost", [on EXCEPT !.host = NewHost(my[c], n)])
        PROVE  Passwords'
    <3>1. PICK j : j = [on EXCEPT !.host = NewHost(my[c], n)]
      OBVIOUS
    <3>2. j.host = NewHost(my[c], n)
      BY <2>2, <3>1 DEF Job
    <3>3. ~j.host.solv
      BY <3>2 DEF NewHost
    <3> QED BY <2>4, <2>6, <3>1, <3>3
  <2> QED BY <1>2, <1>3, <2>1, <2>3, <2>5, <2>6 DEF Plan
<1>4. CASE my[c].op = "deploy" /\ Pick(c)
  <2>1. ASSUME NEW h \in Named(hosts, my[c].name), hosts[h].solv, NEW p \in {"waitPut", "run"},
               GoesOn(c, p, [my[c] EXCEPT !.h = h, !.host = hosts[h], !.v = 0])
        PROVE  Passwords'
    <3>1. PICK j : j = [my[c] EXCEPT !.h = h, !.host = hosts[h], !.v = 0]
      OBVIOUS
    <3>2. j.op = "deploy" /\ j.h = h /\ j.host = hosts[h]
      BY <1>1, <1>4, <3>1 DEF Job
    <3>3. h \in DOMAIN hosts
      BY DEF Named
    <3>4. solv[hosts[h].addr] # 0
      BY <2>1, <3>3 DEF Passwords, ItemsTrue
    <3>5. Knows(p, j)
      BY <3>2, <3>3, <3>4
      DEF Knows, ForItem, HasPw, HasUser, Makes, AddsVal, AddsHost, OnServer, Writes, IsFor
    <3> QED BY <1>1, <2>1, <3>1, <3>5, QuietKnows
  <2> QED BY <1>2, <1>4, <2>1 DEF Pick
<1> QED BY <1>3, <1>4 DEF ReadHosts

(* A host that is resumed is given the password it has.                     *)
LEMMA ReadPasswordKnows ==
  ASSUME Passwords, Shape', NEW c \in Cmds, LateStep(c), ReadPassword(c)
  PROVE  Passwords'
<1>1. my[c] \in Job /\ pc[c] = "password" /\ UNCHANGED <<hosts, solv, runs>>
  BY HasJob DEF Passwords, ReadPassword, vault, nodes
<1>2. Knows("password", my[c])
  BY <1>1 DEF Passwords, AllKnow
<1>3. my[c].op = "init" /\ IsFor(my[c].h, my[c].host.addr)
  BY <1>2 DEF Knows, ForItem, OnServer
<1>4. PICK j : j = [my[c] EXCEPT !.pw = hosts[my[c].h].pw]
  OBVIOUS
<1>5. /\ j.op = "init" /\ j.h = my[c].h /\ j.host = my[c].host
      /\ j.pw = hosts[my[c].h].pw
  BY <1>1, <1>3, <1>4 DEF Job
<1>6. j.pw = j.h
  BY <1>3, <1>5 DEF Passwords, ItemsTrue, IsFor
<1>7. Knows("run", j)
  BY <1>3, <1>5, <1>6
  DEF Knows, ForItem, HasPw, HasUser, Makes, AddsVal, AddsHost, OnServer, Writes
<1> QED BY <1>1, <1>4, <1>7, QuietKnows DEF ReadPassword

(* A key changes nothing of the host that is to be.                         *)
LEMMA KeyStepsKnow ==
  ASSUME Passwords, Shape', NEW c \in Cmds, LateStep(c), FindKey(c) \/ ListKeys(c) \/ MakeKey(c)
  PROVE  Passwords'
<1>1. pc[c] \in Makes /\ pc[c] # "follow" /\ UNCHANGED <<hosts, solv, runs>>
  BY DEF FindKey, ListKeys, MakeKey, Makes, vault, nodes
<1>2. my[c] \in Job /\ ~my[c].host.solv
  <2>1. my[c] \in Job /\ Knows(pc[c], my[c])
    BY <1>1, MakesFit DEF Passwords, AllKnow
  <2> QED BY <1>1, <2>1 DEF Knows
<1>3. CASE Ends(c)
  BY <1>1, <1>3, EndKnows
<1>4. ASSUME NEW p \in Makes \cup {"waitVal"}, NEW j, GoesOn(c, p, j), j.host = my[c].host
      PROVE  Passwords'
  <2>1. Knows(p, j)
    BY <1>2, <1>4
    DEF Knows, ForItem, HasPw, HasUser, Makes, AddsVal, AddsHost, OnServer, Writes
  <2> QED BY <1>1, <1>4, <2>1, QuietKnows
<1>5. \A k : With(my[c], k).host = my[c].host
  BY <1>2 DEF With, Job
<1>6. ASSUME NEW k, HasKey(c, k) PROVE Passwords'
  <2>1. PICK p : p = IF my[c].val.identity = 0 THEN "find" ELSE "waitVal"
    OBVIOUS
  <2>2. p \in Makes \cup {"waitVal"}
    BY <2>1 DEF Makes
  <2> QED BY <1>4, <1>5, <1>6, <2>1, <2>2 DEF HasKey
<1>7. "list" \in Makes /\ "make" \in Makes
  BY DEF Makes
<1> QED BY <1>3, <1>4, <1>6, <1>7 DEF FindKey, ListKeys, MakeKey, Goes

(* The lock changes nothing of what is known, nor does looking for a clash.  *)
LEMMA WaitsKnow ==
  ASSUME Passwords, Shape', NEW c \in Cmds, LateStep(c), TakeLock(c) \/ CheckVal(c) \/ CheckHost(c) \/ AddVal(c)
  PROVE  Passwords'
<1>1. /\ pc[c] \in Waits \cup {"checkVal", "checkHost", "addVal"} /\ pc[c] # "follow"
      /\ pc[c] # "idle" /\ UNCHANGED <<hosts, solv, runs>>
  BY DEF TakeLock, CheckVal, CheckHost, AddVal, Waits, vault, nodes
<1>2. my[c] \in Job /\ Knows(pc[c], my[c])
  BY <1>1, HasJob DEF Passwords, AllKnow
<1>3. CASE Ends(c)
  BY <1>1, <1>3, EndKnows
<1>4. ASSUME NEW p \in AddsVal \cup AddsHost, NEW j, GoesOn(c, p, j), ~j.host.solv
      PROVE  Passwords'
  <2>1. Knows(p, j)
    BY <1>4 DEF Knows, ForItem, HasPw, HasUser, Makes, AddsVal, AddsHost, OnServer, Writes
  <2> QED BY <1>1, <1>4, <2>1, QuietKnows
<1>5. CASE pc[c] # "waitPut" /\ ~Ends(c)
  <2>1. pc[c] \in AddsVal \cup AddsHost
    BY <1>1, <1>5 DEF AddsVal, AddsHost, Waits
  <2>2. ~my[c].host.solv
    BY <1>2, <2>1 DEF Knows
  <2>3. PICK j : j = [my[c] EXCEPT !.val = None]
    OBVIOUS
  <2>4. j.host = my[c].host
    BY <1>2, <2>3 DEF Job
  <2>5. \/ \E p \in AddsVal \cup AddsHost : GoesOn(c, p, my[c])
        \/ GoesOn(c, "waitHost", j)
    BY <1>5, <2>3
    DEF TakeLock, CheckVal, CheckHost, AddVal, Waits, Behind, Goes, AddsVal, AddsHost
  <2>6. "waitHost" \in AddsHost
    BY DEF AddsHost
  <2> QED BY <1>4, <2>2, <2>4, <2>5, <2>6
<1>6. CASE pc[c] = "waitPut"
  <2>1. GoesOn(c, "get", my[c])
    BY <1>6 DEF TakeLock, CheckVal, CheckHost, AddVal, Behind, Goes
  <2>2. Knows("get", my[c])
    BY <1>2, <1>6
    DEF Knows, ForItem, HasPw, HasUser, Makes, AddsVal, AddsHost, OnServer, Writes
  <2> QED BY <1>1, <2>1, <2>2, QuietKnows
<1> QED BY <1>3, <1>5, <1>6

(* An item is written with the password that it has.                        *)
LEMMA GetKnows ==
  ASSUME Passwords, Shape', NEW c \in Cmds, LateStep(c), Get(c)
  PROVE  Passwords'
<1>1. my[c] \in Job /\ pc[c] = "get" /\ UNCHANGED <<hosts, solv, runs>>
  BY HasJob DEF Passwords, Get, vault, nodes
<1>2. Knows("get", my[c])
  BY <1>1 DEF Passwords, AllKnow
<1>3. CASE Ends(c)
  BY <1>1, <1>3, EndKnows
<1>4. CASE OnHost(c) /\ GoesOn(c, "put", [my[c] EXCEPT !.pw = hosts[my[c].h].pw])
  <2>1. PICK j : j = [my[c] EXCEPT !.pw = hosts[my[c].h].pw]
    OBVIOUS
  <2>2. /\ j.op = my[c].op /\ j.h = my[c].h /\ j.host = my[c].host
        /\ j.pw = hosts[my[c].h].pw
    BY <1>1, <2>1 DEF Job
  <2>3. my[c].op \in HostOps
    BY <1>4 DEF OnHost, HostOps
  <2>4. IsFor(my[c].h, my[c].host.addr) /\ solv[my[c].host.addr] # 0
    BY <1>2, <2>3 DEF Knows, ForItem, HasUser, Writes
  <2>5. j.pw = j.h
    BY <2>2, <2>4 DEF Passwords, ItemsTrue, IsFor
  <2>6. Knows("put", j)
    BY <2>2, <2>4, <2>5
    DEF Knows, ForItem, HasPw, HasUser, Makes, AddsVal, AddsHost, OnServer, Writes
  <2> QED BY <1>1, <1>4, <2>1, <2>6, QuietKnows
<1>5. CASE ~OnHost(c) /\ GoesOn(c, "put", my[c])
  <2>1. my[c].op \notin HostOps
    BY <1>5 DEF OnHost, HostOps
  <2>2. Knows("put", my[c])
    BY <2>1 DEF Knows, ForItem, HasPw, HasUser, Makes, AddsVal, AddsHost, OnServer, Writes
  <2> QED BY <1>1, <1>5, <2>2, QuietKnows
<1> QED BY <1>3, <1>4, <1>5 DEF Get

(* An item is added with its password and without a `solv`.                  *)
LEMMA AddHostKnows ==
  ASSUME Passwords, Shape', NEW c \in Cmds, LateStep(c), AddHost(c)
  PROVE  Passwords'
<1>1. /\ my[c] \in Job /\ Fit("addHost", my[c]) /\ Knows("addHost", my[c])
      /\ pc[c] # "follow" /\ UNCHANGED <<solv, runs>>
  BY HasJob DEF Passwords, AllKnow, AddHost, nodes
<1>2. my[c].op = "init" /\ my[c].host \in Host /\ ~my[c].host.solv
  BY <1>1 DEF Fit, AddsHost, HostInHand, Knows
<1>3. hosts \in Seq(Host)
  BY DEF Passwords, Shape, TypeOK
<1>4. PICK id \in Nat : id = Len(hosts) + 1
  BY <1>3
<1>5. PICK new : new = [my[c].host EXCEPT !.pw = id]
  OBVIOUS
<1>6. new.pw = id /\ ~new.solv
  BY <1>2, <1>5 DEF Host
<1>7. PICK j : j = [my[c] EXCEPT !.h = id, !.host = new, !.pw = id]
  OBVIOUS
<1>8. j.op = "init" /\ j.h = id /\ j.host = new /\ j.pw = id
  BY <1>1, <1>2, <1>7 DEF Job
<1>9. hosts' = Append(hosts, new) /\ GoesOn(c, "run", j)
  BY <1>4, <1>5, <1>7 DEF AddHost
<1>10. /\ id \in DOMAIN hosts' /\ hosts'[id] = new
       /\ \A h \in DOMAIN hosts : h \in DOMAIN hosts' /\ hosts'[h] = hosts[h]
       /\ \A h \in DOMAIN hosts' : h = id \/ h \in DOMAIN hosts
  BY <1>3, <1>4, <1>9
<1>11. ServersStay
  BY <1>1, <1>10 DEF ServersStay
<1>12. ItemsTrue'
  BY <1>1, <1>6, <1>10 DEF Passwords, ItemsTrue
<1>13. OnlyOf(c)
  BY <1>9 DEF Passwords, Shape, TypeOK, GoesOn, OnlyOf
<1>14. ServersTrue'
  BY <1>1, <1>11, <1>13, RunsTrue
<1>15. IsFor(j.h, j.host.addr)'
  BY <1>8, <1>10 DEF IsFor
<1>16. Knows("run", j)'
  BY <1>8, <1>15
  DEF Knows, ForItem, HasPw, HasUser, Makes, AddsVal, AddsHost, OnServer, Writes
<1> QED BY <1>9, <1>11, <1>12, <1>14, <1>16, PasswordStep

(* An item is written when its server has the user.                         *)
LEMMA PutKnows ==
  ASSUME Passwords, Shape', NEW c \in Cmds, LateStep(c), Put(c)
  PROVE  Passwords'
<1>1. /\ my[c] \in Job /\ Knows("put", my[c]) /\ pc[c] # "follow" /\ UNCHANGED <<solv, runs>>
  BY HasJob DEF Passwords, AllKnow, Put, nodes
<1>2. CASE ~OnHost(c)
  <2>1. hosts' = hosts /\ GoesOn(c, "idle", None)
    BY <1>2 DEF Put
  <2>2. Knows("idle", None)
    BY NothingAsked DEF Unasked
  <2> QED BY <1>1, <2>1, <2>2, QuietKnows
<1>3. CASE OnHost(c)
  <2>1. my[c].op \in HostOps
    BY <1>3 DEF OnHost, HostOps
  <2>2. IsFor(my[c].h, my[c].host.addr) /\ solv[my[c].host.addr] # 0 /\ my[c].pw = my[c].h
    BY <1>1, <2>1 DEF Knows, ForItem, HasUser, HasPw, Writes
  <2>3. PICK h : h = my[c].h
    OBVIOUS
  <2>4. PICK new : new = [my[c].host EXCEPT !.solv = TRUE, !.pw = my[c].pw, !.last = my[c].at,
                                            !.ver = hosts[h].ver + 1]
    OBVIOUS
  <2>5. my[c].host \in Host
    <3>1. Fit("put", my[c])
      BY HasJob DEF Passwords, Put
    <3> QED BY <2>1, <3>1 DEF Fit, Writes, StoredInHand, ValInHand, HostOps
  <2>6. new.addr = my[c].host.addr /\ new.pw = h
    BY <2>2, <2>3, <2>4, <2>5 DEF Host
  <2>7. hosts' = [hosts EXCEPT ![h] = new]
    BY <1>3, <2>3, <2>4 DEF Put
  <2>8. PICK j : j = [my[c] EXCEPT !.host = new]
    OBVIOUS
  <2>9. \/ GoesOn(c, "idle", None)
        \/ my[c].op = "deploy" /\ GoesOn(c, "run", j)
    BY <1>3, <2>3, <2>4, <2>8 DEF Put
  <2>10. j.op = my[c].op /\ j.h = h /\ j.host = new
    BY <1>1, <2>3, <2>8 DEF Job
  <2>11. h \in DOMAIN hosts /\ hosts[h].addr = new.addr /\ solv[new.addr] # 0
    BY <2>2, <2>3, <2>6 DEF IsFor
  <2>12. /\ DOMAIN hosts' = DOMAIN hosts /\ hosts'[h] = new
         /\ \A i \in DOMAIN hosts : i # h => hosts'[i] = hosts[i]
    BY <2>7, <2>11
  <2>13. ServersStay
    BY <1>1, <2>11, <2>12 DEF ServersStay
  <2>14. ItemsTrue'
    BY <1>1, <2>6, <2>11, <2>12 DEF Passwords, ItemsTrue
  <2>15. OnlyOf(c)
    BY <2>9 DEF Passwords, Shape, TypeOK, GoesOn, OnlyOf
  <2>16. ServersTrue'
    BY <1>1, <2>13, <2>15, RunsTrue
  <2>17. CASE GoesOn(c, "idle", None)
    <3>1. Knows("idle", None)'
      BY NothingAsked DEF Unasked
    <3> QED BY <2>13, <2>14, <2>16, <2>17, <3>1, PasswordStep
  <2>18. CASE my[c].op = "deploy" /\ GoesOn(c, "run", j)
    <3>1. IsFor(j.h, j.host.addr)' /\ solv'[j.host.addr] # 0
      BY <1>1, <2>10, <2>11, <2>12 DEF IsFor
    <3>2. Knows("run", j)'
      BY <2>10, <2>18, <3>1
      DEF Knows, ForItem, HasPw, HasUser, Makes, AddsVal, AddsHost, OnServer, Writes
    <3> QED BY <2>13, <2>14, <2>16, <2>18, <3>2, PasswordStep
  <2> QED BY <2>9, <2>17, <2>18
<1> QED BY <1>2, <1>3

(* A run that failed, or was refused: a deploy's is put on record, and its     *)
(* server has its user.                                                     *)
LEMMA FailedKnows ==
  ASSUME Passwords, NEW c \in Cmds, pc[c] \in {"run", "follow"}, Failed(c), ServersStay
  PROVE  \E p, j : GoesOn(c, p, j) /\ Knows(p, j)' /\ p # "follow"
<1>1. my[c] \in Job /\ Knows(pc[c], my[c])
  BY HasJob DEF Passwords, AllKnow
<1>2. CASE Ends(c)
  <2>1. GoesOn(c, "idle", None) /\ Knows("idle", None)'
    BY <1>2, NothingAsked DEF Ends, Unasked
  <2> QED BY <2>1
<1>3. CASE my[c].op = "deploy" /\ GoesOn(c, "waitPut", [my[c] EXCEPT !.op = "record"])
  <2>1. PICK j : j = [my[c] EXCEPT !.op = "record"]
    OBVIOUS
  <2>2. j.h = my[c].h /\ j.host = my[c].host /\ j.op = "record"
    BY <1>1, <2>1 DEF Job
  <2>3. IsFor(j.h, j.host.addr) /\ solv[j.host.addr] # 0
    BY <1>1, <1>3, <2>2 DEF Knows, ForItem, HasUser, OnServer
  <2>4. Knows("waitPut", j)
    BY <2>2, <2>3
    DEF Knows, ForItem, HasPw, HasUser, Makes, AddsVal, AddsHost, OnServer, Writes
  <2>5. Knows("waitPut", j)'
    BY <2>4, KnowsStill DEF Passwords
  <2> QED BY <1>3, <2>1, <2>5
<1> QED BY <1>2, <1>3 DEF Failed

(* A run is given its item's password, or none.                             *)
LEMMA StartRunKnows ==
  ASSUME Passwords, Shape', NEW c \in Cmds, LateStep(c), StartRun(c)
  PROVE  Passwords'
<1> USE ValidatorsAssumption
<1>1. /\ my[c] \in Job /\ Fit("run", my[c]) /\ Knows("run", my[c]) /\ pc[c] = "run"
      /\ UNCHANGED <<hosts, solv>>
  BY HasJob DEF Passwords, AllKnow, StartRun, vault
<1>2. ServersStay /\ ItemsTrue'
  BY <1>1 DEF ServersStay, Passwords, ItemsTrue
<1>3. CASE Failed(c) /\ UNCHANGED runs
  <2>1. PICK p, j : GoesOn(c, p, j) /\ Knows(p, j)'
    BY <1>1, <1>2, <1>3, FailedKnows
  <2>2. OnlyOf(c)
    BY <2>1 DEF Passwords, Shape, TypeOK, GoesOn, OnlyOf
  <2>3. ServersTrue'
    BY <1>1, <1>2, <1>3, <2>2, RunsTrue
  <2> QED BY <1>2, <2>1, <2>3, PasswordStep
<1>4. PICK a : a = my[c].host.addr
  OBVIOUS
<1>5. PICK run : run = [by |-> c, pw |-> IF my[c].op = "init" THEN my[c].pw ELSE 0]
  OBVIOUS
<1>6. CASE runs' = [runs EXCEPT ![a] = run] /\ Goes(c, "follow")
  <2>1. PICK j : j = my[c]
    OBVIOUS
  <2>2. GoesOn(c, "follow", j) /\ OnlyOf(c) /\ my'[c] = j
    BY <1>6, <2>1 DEF Goes, Passwords, Shape, TypeOK, GoesOn, OnlyOf
  <2>3. Knows("follow", j)
    BY <1>1, <2>1
    DEF Knows, ForItem, HasPw, HasUser, Makes, AddsVal, AddsHost, OnServer, Writes
  <2>4. Knows("follow", j)'
    BY <1>2, <2>3, KnowsStill DEF Passwords
  <2>5. IsFor(j.h, a) /\ (j.op = "init" => j.pw = j.h)
    BY <2>1, <2>3, <1>4 DEF Knows, ForItem, HasPw, OnServer
  <2>6. a \in Addresses /\ j.h # 0
    BY <2>5, ForAddress DEF Passwords
  <2>7. run.by = c /\ run.pw \in {0, j.h} /\ (j.op = "init" => run.pw # 0)
    BY <1>5, <2>1, <2>5, <2>6
  <2>8. runs \in [Addresses -> Run \cup {None}] /\ solv' = solv /\ hosts' = hosts
    BY <1>1 DEF Passwords, Shape, TypeOK
  <2>9. ASSUME NEW b \in Addresses
        PROVE  /\ solv[b] # 0 => IsFor(solv[b], b)
               /\ runs'[b] # None /\ runs'[b].pw # 0 => IsFor(runs'[b].pw, b)
               /\ runs'[b] # None /\ runs'[b].by # None /\ my'[runs'[b].by].op = "init"
                    => runs'[b].pw # 0
    <3>1. /\ solv[b] # 0 => IsFor(solv[b], b)
          /\ runs[b] # None /\ runs[b].pw # 0 => IsFor(runs[b].pw, b)
          /\ runs[b] # None /\ runs[b].by # None /\ my[runs[b].by].op = "init" => runs[b].pw # 0
      BY DEF Passwords, ServersTrue
    <3>2. CASE b = a
      <4>1. runs'[b] = run
        BY <1>6, <2>6, <2>8, <3>2
      <4> QED BY <2>2, <2>5, <2>7, <3>1, <3>2, <4>1
    <3>3. CASE b # a
      <4>1. runs'[b] = runs[b]
        BY <1>6, <2>8, <3>3
      <4>2. runs[b] # None /\ runs[b].by # None => my'[runs[b].by] = my[runs[b].by]
        <5>1. ASSUME runs[b] # None, runs[b].by # None PROVE runs[b].by \in Cmds \ {c}
          <6>1. runs[b] \in Run
            BY <2>8, <5>1
          <6>2. pc[runs[b].by] = "follow"
            BY <5>1 DEF Passwords, Shape, Followed
          <6> QED BY <1>1, <5>1, <6>1, <6>2 DEF Run
        <5> QED BY <2>2, <5>1 DEF OnlyOf
      <4> QED BY <3>1, <4>1, <4>2
    <3> QED BY <3>2, <3>3
  <2>10. ServersTrue'
    BY <2>8, <2>9 DEF ServersTrue, IsFor
  <2> QED BY <1>2, <2>2, <2>4, <2>10, PasswordStep
<1> QED BY <1>3, <1>4, <1>5, <1>6 DEF StartRun

(* A server has its user once a run that gives it one has ended well, and      *)
(* keeps it.                                                                *)
LEMMA RunEndsKnows ==
  ASSUME Passwords, Shape', NEW a \in Addresses, RunEnds(a)
  PROVE  Passwords'
<1> USE ValidatorsAssumption
<1>1. /\ runs \in [Addresses -> Run \cup {None}] /\ solv \in [Addresses -> Nat]
      /\ runs[a] # None /\ runs[a] \in Run
      /\ hosts' = hosts /\ runs' = [runs EXCEPT ![a] = None]
  BY DEF Passwords, Shape, TypeOK, RunEnds, vault
<1>0. late' = late /\ \A c : LateStep(c)
  BY DEF RunEnds, vault, settled, LateStep
<1>2. PICK pw \in Nat : pw = runs[a].pw
  BY <1>1 DEF Run
<1>3. solv' = solv \/ solv' = [solv EXCEPT ![a] = IF pw = 0 THEN @ ELSE pw]
  BY <1>2 DEF RunEnds
<1>4. \A b \in Addresses : solv'[b] = solv[b] \/ (b = a /\ solv'[b] = pw /\ pw # 0)
  BY <1>1, <1>3
<1>5. ServersStay /\ ItemsTrue'
  <2>1. ServersStay
    BY <1>1, <1>4 DEF ServersStay
  <2>2. \A h \in DOMAIN hosts : hosts[h].addr \in Addresses
    BY ForAddress DEF Passwords, IsFor
  <2> QED BY <1>1, <2>1, <2>2 DEF Passwords, ItemsTrue, ServersStay
<1>6. ASSUME \A b \in Addresses \ {a} : runs[b] # None /\ runs[b].by # None
               => my'[runs[b].by] = my[runs[b].by]
      PROVE  ServersTrue'
  <2>1. ASSUME NEW b \in Addresses
        PROVE  /\ solv'[b] # 0 => IsFor(solv'[b], b)
               /\ runs'[b] # None /\ runs'[b].pw # 0 => IsFor(runs'[b].pw, b)
               /\ runs'[b] # None /\ runs'[b].by # None /\ my'[runs'[b].by].op = "init"
                    => runs'[b].pw # 0
    <3>1. /\ solv[b] # 0 => IsFor(solv[b], b)
          /\ runs[b] # None /\ runs[b].pw # 0 => IsFor(runs[b].pw, b)
          /\ runs[b] # None /\ runs[b].by # None /\ my[runs[b].by].op = "init" => runs[b].pw # 0
      BY DEF Passwords, ServersTrue
    <3>2. solv'[b] # 0 => IsFor(solv'[b], b)
      BY <1>1, <1>2, <1>4, <3>1
    <3>3. CASE b = a
      <4>1. runs'[b] = None
        BY <1>1, <3>3
      <4> QED BY <3>2, <4>1
    <3>4. CASE b # a
      <4>1. runs'[b] = runs[b]
        BY <1>1, <3>4
      <4> QED BY <1>6, <3>1, <3>2, <3>4, <4>1
    <3> QED BY <3>3, <3>4
  <2> QED BY <1>1, <2>1 DEF ServersTrue, IsFor
<1>7. CASE UNCHANGED <<pc, my, lock>>
  <2>1. ServersTrue'
    BY <1>6, <1>7
  <2>2. ASSUME NEW c \in Cmds PROVE Knows(pc[c], my[c])'
    <3>1. PICK p, j : p = pc[c] /\ j = my[c]
      OBVIOUS
    <3>2. Knows(p, j)'
      BY <1>5, <3>1, KnowsStill DEF Passwords, AllKnow
    <3> QED BY <1>7, <3>1, <3>2 DEF Knows, ForItem, HasPw, HasUser, IsFor
  <2>3. LateKnow'
    <3> SUFFICES ASSUME NEW w \in late PROVE Knows(w.place, w.job)'
      BY <1>0 DEF LateKnow
    <3>1. PICK p, j : p = w.place /\ j = w.job
      OBVIOUS
    <3>2. Knows(p, j)'
      BY <1>5, <3>1, KnowsStill DEF Passwords, LateKnow
    <3> QED BY <3>1, <3>2 DEF Knows, ForItem, HasPw, HasUser, IsFor
  <2> QED BY <1>5, <2>1, <2>2, <2>3 DEF Passwords, AllKnow
<1>8. CASE runs[a].by # None
  <2>1. PICK c : c = runs[a].by
    OBVIOUS
  <2>2. c \in Cmds /\ pc[c] = "follow" /\ my[c].host.addr = a
    BY <1>1, <1>8, <2>1 DEF Passwords, Shape, Run, Followed
  <2>3. my[c] \in Job /\ Knows("follow", my[c])
    BY <2>2, HasJob DEF Passwords, AllKnow
  <2>4. PICK j : j = IF my[c].op = "init" THEN my[c] ELSE [my[c] EXCEPT !.op = "record"]
    OBVIOUS
  <2>5. ASSUME NEW p, NEW i, GoesOn(c, p, i), Knows(p, i)'
        PROVE  Passwords'
    <3>1. OnlyOf(c)
      BY <2>5 DEF Passwords, Shape, TypeOK, GoesOn, OnlyOf
    <3>2. ASSUME NEW b \in Addresses \ {a}, runs[b] # None, runs[b].by # None
          PROVE  my'[runs[b].by] = my[runs[b].by]
      <4>1. runs[b] \in Run
        BY <1>1, <3>2
      <4>2. my[runs[b].by].host.addr = b
        BY <3>2 DEF Passwords, Shape, Followed
      <4>3. runs[b].by \in Cmds \ {c}
        BY <2>2, <3>2, <4>1, <4>2 DEF Run
      <4> QED BY <3>1, <4>3 DEF OnlyOf
    <3>3. ServersTrue'
      BY <1>6, <3>2
    <3> QED BY <1>0, <1>5, <2>2, <2>5, <3>3, PasswordStep
  <2>6. CASE Failed(c)
    <3>1. PICK p, i : GoesOn(c, p, i) /\ Knows(p, i)'
      BY <1>5, <2>2, <2>6, FailedKnows
    <3> QED BY <2>5, <3>1
  <2>7. CASE /\ GoesOn(c, "waitPut", j)
             /\ solv' = [solv EXCEPT ![a] = IF pw = 0 THEN @ ELSE pw]
    <3>1. j.h = my[c].h /\ j.host = my[c].host
      BY <2>3, <2>4 DEF Job
    <3>2. IsFor(j.h, a)
      BY <2>2, <2>3, <3>1 DEF Knows, ForItem, OnServer
    <3>3. solv'[a] # 0
      <4>1. CASE my[c].op = "init"
        <5>1. pw # 0
          BY <1>1, <1>2, <1>8, <2>1, <4>1 DEF Passwords, ServersTrue
        <5> QED BY <1>1, <2>7, <5>1
      <4>2. CASE my[c].op # "init"
        <5>1. solv[a] # 0
          BY <2>2, <2>3, <4>2 DEF Knows, HasUser
        <5> QED BY <1>4, <5>1
      <4> QED BY <4>1, <4>2
    <3>4. IsFor(j.h, j.host.addr)' /\ solv'[j.host.addr] # 0
      BY <1>1, <2>2, <3>1, <3>2, <3>3 DEF IsFor
    <3>5. Knows("waitPut", j)'
      BY <3>4
      DEF Knows, ForItem, HasPw, HasUser, Makes, AddsVal, AddsHost, OnServer, Writes
    <3> QED BY <2>5, <2>7, <3>5
  <2>8. Failed(c) \/ /\ GoesOn(c, "waitPut", j)
                     /\ solv' = [solv EXCEPT ![a] = IF pw = 0 THEN @ ELSE pw]
    BY <1>2, <1>8, <2>1, <2>4 DEF RunEnds
  <2> QED BY <2>6, <2>7, <2>8
<1> QED BY <1>7, <1>8 DEF RunEnds

(* Who stops leaves the run it follows to itself.                           *)
LEMMA StopKnows ==
  ASSUME Passwords, Shape', NEW c \in Cmds, LateStep(c), Stop(c)
  PROVE  Passwords'
<1> USE ValidatorsAssumption
<1>1. /\ runs \in [Addresses -> Run \cup {None}]
      /\ runs' = [a \in Addresses |-> IF runs[a] # None /\ runs[a].by = c
                                      THEN [runs[a] EXCEPT !.by = None] ELSE runs[a]]
      /\ hosts' = hosts /\ solv' = solv /\ GoesOn(c, "idle", None)
  BY DEF Passwords, Shape, TypeOK, Stop, Ends
<1>2. ServersStay /\ ItemsTrue' /\ OnlyOf(c)
  BY <1>1 DEF ServersStay, Passwords, ItemsTrue, Shape, TypeOK, GoesOn, OnlyOf
<1>3. ASSUME NEW a \in Addresses
      PROVE  /\ solv[a] # 0 => IsFor(solv[a], a)
             /\ runs'[a] # None /\ runs'[a].pw # 0 => IsFor(runs'[a].pw, a)
             /\ runs'[a] # None /\ runs'[a].by # None /\ my'[runs'[a].by].op = "init"
                  => runs'[a].pw # 0
  <2>1. /\ solv[a] # 0 => IsFor(solv[a], a)
        /\ runs[a] # None /\ runs[a].pw # 0 => IsFor(runs[a].pw, a)
        /\ runs[a] # None /\ runs[a].by # None /\ my[runs[a].by].op = "init" => runs[a].pw # 0
    BY DEF Passwords, ServersTrue
  <2>2. CASE runs[a] # None /\ runs[a].by = c
    <3>1. runs[a] \in Run
      BY <1>1, <2>2
    <3>2. runs'[a].by = None /\ runs'[a].pw = runs[a].pw
      BY <1>1, <2>2, <3>1 DEF Run
    <3> QED BY <2>1, <2>2, <3>2
  <2>3. CASE runs[a] = None \/ runs[a].by # c
    <3>1. runs'[a] = runs[a]
      BY <1>1, <2>3
    <3>2. runs[a] # None /\ runs[a].by # None => my'[runs[a].by] = my[runs[a].by]
      <4>1. ASSUME runs[a] # None, runs[a].by # None PROVE runs[a].by \in Cmds \ {c}
        BY <1>1, <2>3, <4>1 DEF Run
      <4> QED BY <1>2, <4>1 DEF OnlyOf
    <3> QED BY <2>1, <3>1, <3>2
  <2> QED BY <2>2, <2>3
<1>4. ServersTrue'
  BY <1>1, <1>3 DEF ServersTrue, IsFor
<1>5. Knows("idle", None)'
  BY NothingAsked DEF Unasked
<1> QED BY <1>1, <1>2, <1>4, <1>5, PasswordStep

(* vote-account has nothing to do with servers.                             *)
LEMMA VoteStepsKnow ==
  ASSUME Passwords, Shape', NEW c \in Cmds, LateStep(c),
         ReadChain(c) \/ CreateAccount(c) \/ RegisterBls(c) \/ ForgetKey(c)
  PROVE  Passwords'
<1>1. /\ my[c] \in Job /\ Fit(pc[c], my[c]) /\ pc[c] \in OnTheChain /\ pc[c] # "follow"
      /\ UNCHANGED <<hosts, solv, runs>>
  BY HasJob DEF Passwords, ReadChain, CreateAccount, RegisterBls, ForgetKey, OnTheChain, vault, nodes
<1>2. CASE Ends(c)
  BY <1>1, <1>2, EndKnows
<1>3. ASSUME NEW p \in OnTheChain, GoesOn(c, p, my[c]) PROVE Passwords'
  <2>1. Knows(p, my[c])
    BY NothingAsked DEF Unasked
  <2> QED BY <1>1, <1>3, <2>1, QuietKnows
<1>4. CASE GoesOn(c, "waitPut", [my[c] EXCEPT !.val.ref = FALSE])
  <2>1. PICK j : j = [my[c] EXCEPT !.val.ref = FALSE]
    OBVIOUS
  <2>2. j.op = my[c].op /\ my[c].op = "vote"
    BY <1>1, <2>1 DEF Job, Fit
  <2>3. Knows("waitPut", j)
    BY <2>2
    DEF Knows, ForItem, HasPw, HasUser, Makes, AddsVal, AddsHost, OnServer, Writes, HostOps
  <2> QED BY <1>1, <1>4, <2>1, <2>3, QuietKnows
<1>5. "create" \in OnTheChain /\ "bls" \in OnTheChain /\ "forget" \in OnTheChain
  BY DEF OnTheChain
<1>6. CASE ReadChain(c)
  BY <1>2, <1>3, <1>5, <1>6 DEF ReadChain, Goes
<1>7. CASE CreateAccount(c) \/ RegisterBls(c)
  BY <1>2, <1>3, <1>5, <1>7 DEF CreateAccount, RegisterBls, Goes
<1>8. CASE ForgetKey(c)
  BY <1>2, <1>4, <1>8 DEF ForgetKey
<1> QED BY <1>6, <1>7, <1>8

(* What lands late was begun with what a command that does not stop knows.    *)
LEMMA LandsKnow ==
  ASSUME Passwords, Shape', NEW w \in late, Lands(w)
  PROVE  Passwords'
<1>1. PICK j : j = w.job
  OBVIOUS
<1>2. Fit(w.place, j) /\ Knows(w.place, j) /\ hosts \in Seq(Host)
  BY <1>1 DEF Passwords, Shape, TypeOK, LateFit, LateKnow
<1>3. late' = late \ {w} /\ UNCHANGED <<solv, runs, pc, my>>
  BY DEF Lands, nodes
<1>4. ASSUME ServersStay, ItemsTrue' PROVE Passwords'
  <2>1. \A h, a : IsFor(h, a) => h \in DOMAIN hosts' /\ hosts'[h].addr = a
    BY <1>4 DEF ServersStay, IsFor
  <2>2. ServersTrue'
    BY <1>3, <2>1 DEF Passwords, ServersTrue, IsFor
  <2>3. \A p, i : Knows(p, i) => Knows(p, i)'
    BY <1>4, KnowsStill DEF Passwords
  <2>4. AllKnow'
    <3> SUFFICES ASSUME NEW c \in Cmds PROVE Knows(pc[c], my[c])'
      BY DEF AllKnow
    <3>1. PICK p, i : p = pc[c] /\ i = my[c]
      OBVIOUS
    <3>2. Knows(p, i)'
      BY <2>3, <3>1 DEF Passwords, AllKnow
    <3> QED BY <1>3, <3>1, <3>2 DEF Knows, ForItem, HasPw, HasUser, IsFor
  <2>5. LateKnow'
    <3> SUFFICES ASSUME NEW x \in late PROVE Knows(x.place, x.job)'
      BY <1>3 DEF LateKnow
    <3>1. PICK p, i : p = x.place /\ i = x.job
      OBVIOUS
    <3>2. Knows(p, i)'
      BY <2>3, <3>1 DEF Passwords, LateKnow
    <3> QED BY <3>1, <3>2 DEF Knows, ForItem, HasPw, HasUser, IsFor
  <2> QED BY <1>4, <2>2, <2>4, <2>5 DEF Passwords
<1>5. CASE hosts' = hosts
  BY <1>3, <1>4, <1>5 DEF ServersStay, Passwords, ItemsTrue
<1>6. CASE /\ w.place = "addHost"
           /\ hosts' = Append(hosts, [[j.host EXCEPT !.by = None, !.last = None] EXCEPT
                                        !.pw = Len(hosts) + 1])
  <2>1. PICK id \in Nat : id = Len(hosts) + 1
    BY <1>2
  <2>2. PICK new : new = [[j.host EXCEPT !.by = None, !.last = None] EXCEPT !.pw = id]
    OBVIOUS
  <2>3. j.host \in Host /\ ~j.host.solv
    BY <1>2, <1>6 DEF Fit, AddsHost, HostInHand, Knows
  <2>4. new.pw = id /\ ~new.solv
    BY <2>2, <2>3 DEF Host
  <2>5. hosts' = Append(hosts, new)
    BY <1>6, <2>1, <2>2
  <2>6. /\ id \in DOMAIN hosts' /\ hosts'[id] = new
        /\ \A h \in DOMAIN hosts : h \in DOMAIN hosts' /\ hosts'[h] = hosts[h]
        /\ \A h \in DOMAIN hosts' : h = id \/ h \in DOMAIN hosts
    BY <1>2, <2>1, <2>5
  <2>7. ServersStay
    BY <1>3, <2>6 DEF ServersStay
  <2>8. ItemsTrue'
    BY <1>3, <2>4, <2>6 DEF Passwords, ItemsTrue
  <2> QED BY <1>4, <2>7, <2>8
<1>7. CASE /\ w.place = "put" /\ j.op \in HostOps
           /\ hosts' = [hosts EXCEPT ![j.h] = [j.host EXCEPT !.solv = TRUE, !.pw = j.pw, !.last = None,
                                                           !.ver = hosts[j.h].ver + 1]]
  <2>1. PICK h : h = j.h
    OBVIOUS
  <2>2. PICK new : new = [j.host EXCEPT !.solv = TRUE, !.pw = j.pw, !.last = None,
                                        !.ver = hosts[h].ver + 1]
    OBVIOUS
  <2>3. IsFor(h, j.host.addr) /\ solv[j.host.addr] # 0 /\ j.pw = h
    BY <1>2, <1>7, <2>1 DEF Knows, ForItem, HasUser, HasPw, Writes
  <2>4. j.host \in Host
    BY <1>2, <1>7 DEF Fit, Writes, StoredInHand, ValInHand, HostOps
  <2>5. new.addr = j.host.addr /\ new.pw = h
    BY <2>2, <2>3, <2>4 DEF Host
  <2>6. hosts' = [hosts EXCEPT ![h] = new]
    BY <1>7, <2>1, <2>2
  <2>7. h \in DOMAIN hosts /\ hosts[h].addr = new.addr /\ solv[new.addr] # 0
    BY <2>3, <2>5 DEF IsFor
  <2>8. /\ DOMAIN hosts' = DOMAIN hosts /\ hosts'[h] = new
        /\ \A i \in DOMAIN hosts : i # h => hosts'[i] = hosts[i]
    BY <2>6, <2>7
  <2>9. ServersStay
    BY <1>3, <2>7, <2>8 DEF ServersStay
  <2>10. ItemsTrue'
    BY <1>3, <2>5, <2>7, <2>8 DEF Passwords, ItemsTrue
  <2> QED BY <1>4, <2>9, <2>10
<1> QED BY <1>1, <1>5, <1>6, <1>7 DEF Lands

(* Every step, and none.                                                    *)
LEMMA StepKnows ==
  ASSUME Passwords, [Next]_vars
  PROVE  Passwords'
<1>1. Shape'
  BY StepShape DEF Passwords
<1>2. CASE UNCHANGED vars
  <2>1. ItemsTrue' /\ ServersTrue'
    BY <1>2 DEF Passwords, vars, ItemsTrue, ServersTrue, IsFor
  <2>2. AllKnow' /\ LateKnow'
    BY <1>2 DEF Passwords, vars, AllKnow, LateKnow, Knows, ForItem, HasPw, HasUser, IsFor
  <2> QED BY <1>1, <2>1, <2>2 DEF Passwords
<1>3. ASSUME NEW a \in Addresses, RunEnds(a) PROVE Passwords'
  BY <1>1, <1>3, RunEndsKnows
<1>4. ASSUME NEW c \in Cmds, Start(c) \/ TakeLock(c) \/ Stop(c) PROVE Passwords'
  BY <1>1, <1>4, LateOf, ReadingKnows, WaitsKnow, StopKnows
<1>5. ASSUME NEW c \in Cmds, Step(c) PROVE Passwords'
  BY <1>1, <1>5, LateOf, ReadingKnows, ReadHostsKnows, ReadPasswordKnows, KeyStepsKnow, WaitsKnow,
     AddHostKnows, GetKnows, PutKnows, StartRunKnows, VoteStepsKnow
  DEF Step
<1>6. ASSUME NEW w \in late, Lands(w) PROVE Passwords'
  BY <1>1, <1>6, LandsKnow
<1> QED BY <1>2, <1>3, <1>4, <1>5, <1>6 DEF Next

(* At first there is no item, or one whose server has its password.          *)
LEMMA InitKnows ==
  ASSUME Init
  PROVE  Passwords
<1>1. Shape
  BY InitShape
<1>2. AllKnow
  BY NothingAsked DEF Init, AllKnow, Unasked
<1>3. \A a \in Addresses : runs[a] = None
  BY DEF Init
<1>4. ItemsTrue /\ \A a \in Addresses : solv[a] # 0 => IsFor(solv[a], a)
  <2>1. CASE NoServer
    BY <2>1 DEF NoServer, ItemsTrue
  <2>2. ASSUME NEW m, NEW name, NEW a, OneServer(m, name, a)
        PROVE  ItemsTrue /\ \A b \in Addresses : solv[b] # 0 => IsFor(solv[b], b)
    <3>1. PICK host : host = [name |-> name, n |-> 1, addr |-> a, primary |-> TRUE, solv |-> TRUE,
                              pw |-> 1, ver |-> 2, by |-> m, last |-> m]
      OBVIOUS
    <3>2. hosts = <<host>> /\ host.pw = 1 /\ host.addr = a
      BY <2>2, <3>1 DEF OneServer
    <3>3. DOMAIN hosts = {1} /\ hosts[1] = host
      BY <3>2
    <3>4. \A b \in Addresses : solv[b] = IF b = a THEN 1 ELSE 0
      BY <2>2 DEF OneServer
    <3>5. a \in Addresses
      BY <1>1, <3>2, <3>3, ForAddress DEF IsFor
    <3> QED BY <3>2, <3>3, <3>4, <3>5 DEF ItemsTrue, IsFor
  <2> QED BY <2>1, <2>2 DEF Init
<1>5. ServersTrue
  BY <1>3, <1>4 DEF ServersTrue
<1>6. LateKnow
  BY DEF Init, LateKnow
<1> QED BY <1>1, <1>2, <1>4, <1>5, <1>6 DEF Passwords

(* So an item whose host has its `solv` has one of its server's passwords.    *)
LEMMA PasswordsHold == Spec => []Passwords
<1>1. Passwords /\ [Next]_vars => Passwords'
  BY StepKnows
<1> QED BY <1>1, InitKnows, PTL DEF Spec

-----------------------------------------------------------------------------
(* The password stored with a host that finished init is the one its server    *)
(* has (plan and store_items take the stored one for a host that is resumed,   *)
(* and the item says `solv` only after create_user): wherever the commands of  *)
(* any number of machines stopped, failed or wrote over each other, as long   *)
(* as no other item is for that server.                                     *)
THEOREM PasswordStaysTrue == Spec => []PasswordIsStored
<1>1. ASSUME Passwords, NEW h \in DOMAIN hosts, hosts[h].solv, Only(h)
      PROVE  solv[hosts[h].addr] = hosts[h].pw
  <2>1. hosts[h].pw = h /\ solv[hosts[h].addr] # 0
    BY <1>1 DEF Passwords, ItemsTrue
  <2>2. hosts[h].addr \in Addresses
    BY <1>1, ForAddress DEF Passwords, IsFor
  <2>3. IsFor(solv[hosts[h].addr], hosts[h].addr)
    BY <1>1, <2>1, <2>2 DEF Passwords, ServersTrue
  <2>4. solv[hosts[h].addr] = h
    BY <1>1, <2>3 DEF Only, IsFor
  <2> QED BY <2>1, <2>4
<1>2. Passwords => PasswordIsStored
  BY <1>1 DEF PasswordIsStored
<1> QED BY <1>2, PasswordsHold, PTL
=============================================================================
