----------------------------- MODULE Validators -----------------------------
(* The validators of a network: `erpc v init`, `keys`, `vote-account` and     *)
(* `deploy`, run by several erpc on several machines, over the inventory that *)
(* is kept in one 1Password vault (inventory.rs, identity.rs), the servers    *)
(* and the chain.  1Password has no compare-and-swap: an item is read, its    *)
(* version compared, and then written, under a lock that only the erpc of one *)
(* machine share.  A command may end at any step: an op or an SSH call fails, *)
(* the operator says no or presses Ctrl-C.  The op that writes is a process    *)
(* of its own and may outlive its erpc: what it was told to write then lands  *)
(* later, with the lock free.                                                 *)
EXTENDS Integers, Sequences, FiniteSets

CONSTANTS Cmds,       \* commands that may run at once
          Machines,   \* the operators' machines
          Names,      \* validators
          Addresses,  \* servers
          Scenes,     \* the settings an instance has, one in each behaviour
          MaxVer,     \* bound: no keys or deploy begins on an item at it
          None

Ops == {"init", "keys", "vote", "deploy"}

(* What is run, on which machines and for which servers, how far a first init *)
(* has come (it stopped with its keys stored, or is done), and a bound: how    *)
(* many more writes outlive their erpc.                                     *)
Scene == [ops : SUBSET Ops, machines : SUBSET Machines, servers : SUBSET Addresses,
          after : {"nothing", "keys", "init"}, late : Nat]

ASSUME ValidatorsAssumption ==
  /\ None \notin Cmds \cup Machines \cup Names \cup Addresses
  /\ Scenes \subseteq Scene
  /\ MaxVer \in Nat

VARIABLES
  scene,     \* the setting of this behaviour
  vals,      \* the validator items, by id
  hosts,     \* the host items, by id
  keys,      \* the key items, by id; those deleted are "gone"
  accounts,  \* the vote accounts on chain
  solv,      \* the password of each server's `solv` user, 0 without the user
  runs,      \* the run under way on each server
  late,      \* the writes of op that outlived the erpc that began them
  lock,      \* who has each machine's inventory.lock
  pc, my     \* of each command: where it is, and what it was given and read

vars == <<scene, vals, hosts, keys, accounts, solv, runs, late, lock, pc, my>>
settled == <<scene, late>>
vault == <<settled, vals, hosts, keys>>
nodes == <<solv, runs>>

(* `ref` is vote_ref, `solv` an ssh_user that is "solv"; `by` is the machine  *)
(* that made an item and `last` the one that wrote it last, under its lock;    *)
(* a write that outlived its erpc is nobody's.                              *)
Validator == [name : Names, identity : Nat, vote : Nat, ref : BOOLEAN, auth : 1..2,
              ver : Nat, by : Machines \cup {None}, last : Machines \cup {None}]
Host == [name : Names, n : Nat, addr : Addresses, primary : BOOLEAN, solv : BOOLEAN,
         pw : Nat, ver : Nat, by : Machines \cup {None}, last : Machines \cup {None}]
Key == [role : {"identity", "vote"}, name : Names, gone : BOOLEAN]
Account == [key : Nat, identity : Nat, auth : 1..2, bls : BOOLEAN]
Run == [by : Cmds \cup {None}, pw : Nat]
Job == [op : Ops \cup {"record"}, at : Machines, name : Names,
        addr : Addresses \cup {None}, spare : BOOLEAN,
        v : Nat, val : Validator \cup {None}, h : Nat, host : Host \cup {None}, pw : Nat]

Waits == {"waitVal", "waitHost", "waitPut"}
Alone == {"checkVal", "addVal", "checkHost", "addHost", "get", "put"}
Place == {"idle", "vals", "hosts", "password", "find", "list", "make", "run", "follow",
          "chain", "create", "bls", "forget"} \cup Waits \cup Alone

(* Where a command has op write.                                            *)
Written == {"make", "addVal", "addHost", "put", "forget"}

TypeOK ==
  /\ scene \in Scene
  /\ vals \in Seq(Validator)
  /\ hosts \in Seq(Host)
  /\ keys \in Seq(Key)
  /\ accounts \subseteq Account
  /\ solv \in [Addresses -> Nat]
  /\ runs \in [Addresses -> Run \cup {None}]
  /\ late \subseteq [place : Written, job : Job]
  /\ lock \in [Machines -> Cmds \cup {None}]
  /\ pc \in [Cmds -> Place]
  /\ my \in [Cmds -> Job \cup {None}]

KeysStored(name) == keys = [k \in 1..2 |-> [role |-> IF k = 1 THEN "identity" ELSE "vote",
                                            name |-> name, gone |-> FALSE]]
NoServer == /\ vals = <<>> /\ hosts = <<>>
            /\ solv = [a \in Addresses |-> 0]
OneServer(m, name, a) ==
  /\ vals = <<[name |-> name, identity |-> 1, vote |-> 2, ref |-> TRUE, auth |-> 1,
               ver |-> 1, by |-> m, last |-> m]>>
  /\ hosts = <<[name |-> name, n |-> 1, addr |-> a, primary |-> TRUE, solv |-> TRUE, pw |-> 1,
                ver |-> 2, by |-> m, last |-> m]>>
  /\ solv = [b \in Addresses |-> IF b = a THEN 1 ELSE 0]

Init ==
  /\ scene \in Scenes
  /\ \/ scene.after = "nothing" /\ keys = <<>> /\ NoServer
     \/ \E name \in Names :
          /\ KeysStored(name)
          /\ \/ scene.after = "keys" /\ NoServer
             \/ /\ scene.after = "init"
                /\ \E m \in scene.machines, a \in scene.servers : OneServer(m, name, a)
  /\ accounts = {}
  /\ runs = [a \in Addresses |-> None]
  /\ late = {}
  /\ lock = [m \in Machines |-> None]
  /\ pc = [c \in Cmds |-> "idle"]
  /\ my = [c \in Cmds |-> None]

-----------------------------------------------------------------------------
Named(items, name) == {i \in DOMAIN items : items[i].name = name}
KeysOf(name, role) == {k \in DOMAIN keys : keys[k].name = name /\ keys[k].role = role
                                           /\ ~keys[k].gone}

GoesOn(c, place, job) ==
  /\ pc' = [pc EXCEPT ![c] = place]
  /\ my' = [my EXCEPT ![c] = job]
Goes(c, place) == GoesOn(c, place, my[c])
Unlock(c) == lock' = [m \in Machines |-> IF lock[m] = c THEN None ELSE lock[m]]

(* The command ends, done or refused; the lock it has goes with it.         *)
Ends(c) == GoesOn(c, "idle", None) /\ Unlock(c)

Start(c) ==
  /\ pc[c] = "idle"
  /\ \E op \in scene.ops, at \in scene.machines, name \in Names :
       \E addr \in IF op = "init" THEN scene.servers \cup {None} ELSE {None},
          spare \in IF op = "init" THEN BOOLEAN ELSE {FALSE} :
         GoesOn(c, "vals", [op |-> op, at |-> at, name |-> name, addr |-> addr, spare |-> spare,
                            v |-> 0, val |-> None, h |-> 0, host |-> None, pw |-> 0])
  /\ UNCHANGED <<vault, accounts, nodes, lock>>

-----------------------------------------------------------------------------
(* Store::load: the validators, then the hosts, under no lock.              *)

(* `keys` gives the validator another authority, kept elsewhere; it and      *)
(* `vote-account` have no use for the hosts.                                *)
ReadVals(c) ==
  /\ pc[c] = "vals"
  /\ \/ /\ my[c].op \in {"init", "deploy"}
        /\ \/ \E v \in Named(vals, my[c].name) :
                GoesOn(c, "hosts", [my[c] EXCEPT !.v = v])
           \/ Named(vals, my[c].name) = {} /\ Goes(c, "hosts")
        /\ UNCHANGED lock
     \/ /\ my[c].op = "keys"
        /\ \E v \in Named(vals, my[c].name) :
             /\ vals[v].ver < MaxVer
             /\ GoesOn(c, "waitPut", [my[c] EXCEPT !.v = v,
                                      !.val = [vals[v] EXCEPT !.auth = 3 - @]])
        /\ UNCHANGED lock
     \/ /\ my[c].op = "vote"
        /\ \E v \in Named(vals, my[c].name) :
             GoesOn(c, "chain", [my[c] EXCEPT !.v = v, !.val = vals[v]])
        /\ UNCHANGED lock
     \/ /\ my[c].op # "init"
        /\ Named(vals, my[c].name) = {}
        /\ Ends(c)
  /\ UNCHANGED <<vault, accounts, nodes>>

(* next_host_name: the first name that is not taken.                        *)
Taken(name) == {hosts[h].n : h \in Named(hosts, name)}
NextName(name) == {n \in 1..(Len(hosts) + 1) : /\ n \notin Taken(name)
                                               /\ 1..(n - 1) \subseteq Taken(name)}

(* plan: the stored host an init is for -- the one at the address given, or  *)
(* the one that has no `solv` yet, or the only one.                         *)
Pending(name) == {h \in Named(hosts, name) : ~hosts[h].solv}
Resumed(name, addr) ==
  IF addr # None
  THEN {h \in Named(hosts, name) : hosts[h].addr = addr}
  ELSE CASE Cardinality(Pending(name)) = 1 -> Pending(name)
         [] Pending(name) = {} /\ Cardinality(Named(hosts, name)) = 1 -> Named(hosts, name)
         [] OTHER -> {}

NewVal(job) == [name |-> job.name, identity |-> 0, vote |-> 0, ref |-> TRUE, auth |-> 1,
                ver |-> 1, by |-> job.at, last |-> job.at]
NewHost(job, n) == [name |-> job.name, n |-> n, addr |-> job.addr,
                    primary |-> ~job.spare, solv |-> FALSE, pw |-> 0,
                    ver |-> 1, by |-> job.at, last |-> job.at]

(* plan's ways on: resume what is stored (and nothing is left to do for a    *)
(* host that has its `solv`), a new validator, or a spare of one there is.   *)
Plan(c) ==
  LET job == my[c]
      known == job.v # 0
      free == job.addr # None /\ \A h \in DOMAIN hosts : hosts[h].addr # job.addr
      on == [job EXCEPT !.addr = None, !.spare = FALSE, !.v = 0, !.val = None] IN
  \/ /\ known
     /\ \E h \in Resumed(job.name, job.addr) :
          /\ ~hosts[h].solv
          /\ GoesOn(c, "password", [on EXCEPT !.h = h, !.host = hosts[h]])
     /\ UNCHANGED lock
  \/ /\ free /\ ~known /\ ~job.spare
     /\ \E n \in NextName(job.name) :
          GoesOn(c, "find", [on EXCEPT !.val = NewVal(job), !.host = NewHost(job, n)])
     /\ UNCHANGED lock
  \/ /\ free /\ known /\ job.spare
     /\ \E n \in NextName(job.name) :
          GoesOn(c, "waitHost", [on EXCEPT !.host = NewHost(job, n)])
     /\ UNCHANGED lock
  \/ /\ IF Resumed(job.name, job.addr) # {}
        THEN ~known \/ \E h \in Resumed(job.name, job.addr) : hosts[h].solv
        ELSE ~free \/ known # job.spare
     /\ Ends(c)

(* deploy's pick: a host that has its `solv`.  Its Jito endpoints may first   *)
(* be brought up to date in its item (refresh_jito).                        *)
Pick(c) ==
  \/ /\ my[c].v # 0
     /\ \E h \in Named(hosts, my[c].name), place \in {"waitPut", "run"} :
          /\ hosts[h].solv /\ hosts[h].ver < MaxVer
          /\ GoesOn(c, place, [my[c] EXCEPT !.h = h, !.host = hosts[h], !.v = 0])
     /\ UNCHANGED lock
  \/ /\ \/ my[c].v = 0
        \/ Named(hosts, my[c].name) = {}
        \/ \E h \in Named(hosts, my[c].name) : ~hosts[h].solv
     /\ Ends(c)

ReadHosts(c) ==
  /\ pc[c] = "hosts"
  /\ \/ my[c].op = "init" /\ Plan(c)
     \/ my[c].op = "deploy" /\ Pick(c)
  /\ UNCHANGED <<vault, accounts, nodes>>

-----------------------------------------------------------------------------
(* store_items.                                                             *)

\* Mutant: a host that is resumed is given a new password.
ReadPasswordNew(c) ==
  /\ pc[c] = "password"
  /\ GoesOn(c, "run", [my[c] EXCEPT !.pw = Len(hosts) + 1])
  /\ UNCHANGED <<vault, accounts, nodes, lock>>

(* A host that is resumed has the password stored with it.                  *)
ReadPassword(c) ==
  /\ pc[c] = "password"
  /\ GoesOn(c, "run", [my[c] EXCEPT !.pw = hosts[my[c].h].pw])
  /\ UNCHANGED <<vault, accounts, nodes, lock>>

(* Of a new validator's keys, the identity comes first, then the vote        *)
(* account's (its authority is kept elsewhere).  A key that is to be new is   *)
(* first looked for by its title; one that is read from a file is not.       *)
Wanted(job) == IF job.val.identity = 0 THEN "identity" ELSE "vote"
With(job, k) == IF job.val.identity = 0 THEN [job EXCEPT !.val.identity = k]
                                        ELSE [job EXCEPT !.val.vote = k]
HasKey(c, k) == GoesOn(c, IF my[c].val.identity = 0 THEN "find" ELSE "waitVal", With(my[c], k))

FindKey(c) ==
  /\ pc[c] = "find"
  /\ \/ \E k \in KeysOf(my[c].name, Wanted(my[c])) : HasKey(c, k)
     \/ Goes(c, "list")
  /\ UNCHANGED <<vault, accounts, nodes, lock>>

(* store_key: refused if the vault has the title, and then made.            *)
ListKeys(c) ==
  /\ pc[c] = "list"
  /\ \/ KeysOf(my[c].name, Wanted(my[c])) = {} /\ Goes(c, "make") /\ UNCHANGED lock
     \/ KeysOf(my[c].name, Wanted(my[c])) # {} /\ Ends(c)
  /\ UNCHANGED <<vault, accounts, nodes>>

NewKey(job) == [role |-> Wanted(job), name |-> job.name, gone |-> FALSE]

MakeKey(c) ==
  /\ pc[c] = "make"
  /\ keys' = Append(keys, NewKey(my[c]))
  /\ HasKey(c, Len(keys) + 1)
  /\ UNCHANGED <<settled, vals, hosts, accounts, nodes, lock>>

-----------------------------------------------------------------------------
(* The inventory's writes, each under the machine's lock.                   *)

Behind(place) == CASE place = "waitVal"  -> "checkVal"
                   [] place = "waitHost" -> "checkHost"
                   [] place = "waitPut"  -> "get"

TakeLock(c) ==
  /\ pc[c] \in Waits
  /\ lock[my[c].at] = None
  /\ lock' = [lock EXCEPT ![my[c].at] = c]
  /\ Goes(c, Behind(pc[c]))
  /\ UNCHANGED <<vault, accounts, nodes>>

(* add_validator.                                                           *)
CheckVal(c) ==
  /\ pc[c] = "checkVal"
  /\ \/ Named(vals, my[c].name) = {} /\ Goes(c, "addVal") /\ UNCHANGED lock
     \/ Named(vals, my[c].name) # {} /\ Ends(c)
  /\ UNCHANGED <<vault, accounts, nodes>>

AddVal(c) ==
  /\ pc[c] = "addVal"
  /\ vals' = Append(vals, my[c].val)
  /\ GoesOn(c, "waitHost", [my[c] EXCEPT !.val = None])
  /\ Unlock(c)
  /\ UNCHANGED <<settled, hosts, keys, accounts, nodes>>

\* Mutant: only the server is looked for.
FitsByAddress(new) == \A h \in DOMAIN hosts : hosts[h].addr # new.addr

(* add_host: names and servers once, and one primary.                       *)
Fits(new) ==
  /\ Named(vals, new.name) # {}
  /\ \A h \in DOMAIN hosts : /\ hosts[h].addr # new.addr
                             /\ hosts[h].name = new.name => hosts[h].n # new.n
  /\ new.primary => \A h \in Named(hosts, new.name) : ~hosts[h].primary

CheckHost(c) ==
  /\ pc[c] = "checkHost"
  /\ \/ Fits(my[c].host) /\ Goes(c, "addHost") /\ UNCHANGED lock
     \/ ~Fits(my[c].host) /\ Ends(c)
  /\ UNCHANGED <<vault, accounts, nodes>>

(* Stored with a new password, which is told apart by the item it is made for. *)
AddHost(c) ==
  /\ pc[c] = "addHost"
  /\ LET id == Len(hosts) + 1
         new == [my[c].host EXCEPT !.pw = id] IN
     /\ hosts' = Append(hosts, new)
     /\ GoesOn(c, "run", [my[c] EXCEPT !.h = id, !.host = new, !.pw = id])
  /\ Unlock(c)
  /\ UNCHANGED <<settled, vals, keys, accounts, nodes>>

(* update: the item is read again, and the write refused if it is not the one that was *)
(* read before.                                                             *)
HostOps == {"init", "deploy", "record"}
OnHost(c) == my[c].op \in HostOps
Version(c) == IF OnHost(c) THEN hosts[my[c].h].ver ELSE vals[my[c].v].ver
VersionRead(c) == IF OnHost(c) THEN my[c].host.ver ELSE my[c].val.ver

\* Mutant: the version is not compared.
GetAnyVersion(c) ==
  /\ pc[c] = "get"
  /\ GoesOn(c, "put", IF OnHost(c) THEN [my[c] EXCEPT !.pw = hosts[my[c].h].pw] ELSE my[c])
  /\ UNCHANGED <<vault, accounts, nodes, lock>>

Get(c) ==
  /\ pc[c] = "get"
  /\ \/ /\ Version(c) = VersionRead(c)
        /\ GoesOn(c, "put", IF OnHost(c) THEN [my[c] EXCEPT !.pw = hosts[my[c].h].pw] ELSE my[c])
        /\ UNCHANGED lock
     \/ Version(c) # VersionRead(c) /\ Ends(c)
  /\ UNCHANGED <<vault, accounts, nodes>>

(* Every field is written, the password with them; then init, a record, keys  *)
(* and vote-account are done, and a deploy whose host was refreshed runs.    *)
Put(c) ==
  /\ pc[c] = "put"
  /\ \/ /\ OnHost(c)
        /\ LET new == [my[c].host EXCEPT !.solv = TRUE, !.pw = my[c].pw, !.last = my[c].at,
                                          !.ver = hosts[my[c].h].ver + 1] IN
           /\ hosts' = [hosts EXCEPT ![my[c].h] = new]
           /\ IF my[c].op = "deploy" THEN GoesOn(c, "run", [my[c] EXCEPT !.host = new])
                                     ELSE GoesOn(c, "idle", None)
        /\ UNCHANGED vals
     \/ /\ ~OnHost(c)
        /\ vals' = [vals EXCEPT ![my[c].v] = [my[c].val EXCEPT !.last = my[c].at,
                                                             !.ver = vals[my[c].v].ver + 1]]
        /\ GoesOn(c, "idle", None)
        /\ UNCHANGED hosts
  /\ Unlock(c)
  /\ UNCHANGED <<settled, keys, accounts, nodes>>

-----------------------------------------------------------------------------
(* Runs on a server: under systemd, so that one goes on without erpc, and     *)
(* under the node's lock, so that another is refused meanwhile.               *)

(* A deploy records how its run ended, a refused one too; init does not.     *)
Failed(c) ==
  \/ my[c].op = "init" /\ Ends(c)
  \/ my[c].op = "deploy" /\ GoesOn(c, "waitPut", [my[c] EXCEPT !.op = "record"]) /\ UNCHANGED lock

StartRun(c) ==
  /\ pc[c] = "run"
  /\ LET a == my[c].host.addr IN
     \/ /\ runs[a] = None
        /\ runs' = [runs EXCEPT ![a] = [by |-> c, pw |-> IF my[c].op = "init" THEN my[c].pw ELSE 0]]
        /\ Goes(c, "follow")
        /\ UNCHANGED lock
     \/ runs[a] # None /\ Failed(c) /\ UNCHANGED runs
  /\ UNCHANGED <<vault, accounts, solv>>

(* create_user gives `solv` its password, and a deploy leaves it; one that    *)
(* fails may have come that far.  Whoever follows the run is told.           *)
RunEnds(a) ==
  /\ runs[a] # None
  /\ \E ok \in BOOLEAN :
       /\ \/ solv' = [solv EXCEPT ![a] = IF runs[a].pw = 0 THEN @ ELSE runs[a].pw]
          \/ ~ok /\ UNCHANGED solv
       /\ \/ runs[a].by = None /\ UNCHANGED <<pc, my, lock>>
          \/ /\ runs[a].by # None
             /\ LET c == runs[a].by IN
                \/ ~ok /\ Failed(c)
                \/ /\ ok /\ UNCHANGED lock
                   /\ GoesOn(c, "waitPut", IF my[c].op = "init" THEN my[c]
                                           ELSE [my[c] EXCEPT !.op = "record"])
  /\ runs' = [runs EXCEPT ![a] = None]
  /\ UNCHANGED <<vault, accounts>>

-----------------------------------------------------------------------------
(* vote-account.                                                            *)

OnChain(k) == {a \in accounts : a.key = k}

ReadChain(c) ==
  /\ pc[c] = "chain"
  /\ LET val == my[c].val IN
     \/ \E a \in OnChain(val.vote) :
          \/ /\ a.identity = val.identity /\ a.auth = val.auth
             /\ Goes(c, IF a.bls THEN "forget" ELSE "bls")
             /\ UNCHANGED lock
          \/ (a.identity # val.identity \/ a.auth # val.auth) /\ Ends(c)
     \/ /\ OnChain(val.vote) = {}
        /\ \/ val.ref /\ ~keys[val.vote].gone /\ Goes(c, "create") /\ UNCHANGED lock
           \/ (~val.ref \/ keys[val.vote].gone) /\ Ends(c)
  /\ UNCHANGED <<vault, accounts, nodes>>

\* Mutant: an account that was just made is taken for complete.
CreateForgets(c) ==
  /\ pc[c] = "create"
  /\ accounts' = accounts \cup {[key |-> my[c].val.vote, identity |-> my[c].val.identity,
                                 auth |-> my[c].val.auth, bls |-> FALSE]}
  /\ Goes(c, "forget")
  /\ UNCHANGED <<vault, nodes, lock>>

CreateAccount(c) ==
  /\ pc[c] = "create"
  /\ LET val == my[c].val IN
     \/ /\ OnChain(val.vote) = {}
        /\ accounts' = accounts \cup {[key |-> val.vote, identity |-> val.identity,
                                       auth |-> val.auth, bls |-> FALSE]}
        /\ Goes(c, "bls")
        /\ UNCHANGED lock
     \/ OnChain(val.vote) # {} /\ Ends(c) /\ UNCHANGED accounts
  /\ UNCHANGED <<vault, nodes>>

RegisterBls(c) ==
  /\ pc[c] = "bls"
  /\ accounts' = {[a EXCEPT !.bls = @ \/ a.key = my[c].val.vote] : a \in accounts}
  /\ Goes(c, "forget")
  /\ UNCHANGED <<vault, nodes, lock>>

(* forget_vote_key: the key is deleted, and then the item's reference to it.  *)
ForgetKey(c) ==
  /\ pc[c] = "forget"
  /\ LET val == my[c].val IN
     \/ /\ val.ref /\ ~keys[val.vote].gone
        /\ keys' = [keys EXCEPT ![val.vote].gone = TRUE]
        /\ GoesOn(c, "waitPut", [my[c] EXCEPT !.val.ref = FALSE])
        /\ UNCHANGED lock
     \/ (~val.ref \/ keys[val.vote].gone) /\ Ends(c) /\ UNCHANGED keys
  /\ UNCHANGED <<settled, vals, hosts, accounts, nodes>>

-----------------------------------------------------------------------------
(* The command ends where it is; its run on the server goes on, and the op    *)
(* that it had write may too (an op child is not ended with its erpc).       *)
Stop(c) ==
  /\ pc[c] # "idle"
  /\ \/ UNCHANGED settled
     \/ /\ pc[c] \in Written
        /\ pc[c] = "forget" => my[c].val.ref
        /\ scene.late > 0
        /\ scene' = [scene EXCEPT !.late = @ - 1]
        /\ late' = late \cup {[place |-> pc[c], job |-> my[c]]}
  /\ Ends(c)
  /\ runs' = [a \in Addresses |-> IF runs[a] # None /\ runs[a].by = c
                                  THEN [runs[a] EXCEPT !.by = None] ELSE runs[a]]
  /\ UNCHANGED <<vals, hosts, keys, accounts, solv>>

(* What such an op does, whoever has the lock by then.                      *)
Lands(w) ==
  LET job == w.job
      nobodys(item) == [item EXCEPT !.by = None, !.last = None] IN
  /\ late' = late \ {w}
  /\ \/ /\ w.place = "make"
        /\ keys' = Append(keys, NewKey(job))
        /\ UNCHANGED <<vals, hosts>>
     \/ /\ w.place = "forget"
        /\ keys' = [keys EXCEPT ![job.val.vote].gone = TRUE]
        /\ UNCHANGED <<vals, hosts>>
     \/ /\ w.place = "addVal"
        /\ vals' = Append(vals, nobodys(job.val))
        /\ UNCHANGED <<keys, hosts>>
     \/ /\ w.place = "addHost"
        /\ hosts' = Append(hosts, [nobodys(job.host) EXCEPT !.pw = Len(hosts) + 1])
        /\ UNCHANGED <<keys, vals>>
     \/ /\ w.place = "put" /\ job.op \in HostOps
        /\ hosts' = [hosts EXCEPT ![job.h] =
                       [job.host EXCEPT !.solv = TRUE, !.pw = job.pw, !.last = None,
                                        !.ver = hosts[job.h].ver + 1]]
        /\ UNCHANGED <<keys, vals>>
     \/ /\ w.place = "put" /\ job.op \notin HostOps
        /\ vals' = [vals EXCEPT ![job.v] =
                      [job.val EXCEPT !.last = None, !.ver = vals[job.v].ver + 1]]
        /\ UNCHANGED <<keys, hosts>>
  /\ UNCHANGED <<scene, accounts, nodes, lock, pc, my>>

Step(c) ==
  \/ ReadVals(c) \/ ReadHosts(c) \/ ReadPassword(c)
  \/ FindKey(c) \/ ListKeys(c) \/ MakeKey(c)
  \/ CheckVal(c) \/ AddVal(c) \/ CheckHost(c) \/ AddHost(c) \/ Get(c) \/ Put(c)
  \/ StartRun(c)
  \/ ReadChain(c) \/ CreateAccount(c) \/ RegisterBls(c) \/ ForgetKey(c)

Next ==
  \/ \E c \in Cmds : Start(c) \/ Step(c) \/ TakeLock(c) \/ Stop(c)
  \/ \E a \in Addresses : RunEnds(a)
  \/ \E w \in late : Lands(w)

Spec == Init /\ [][Next]_vars

-----------------------------------------------------------------------------
(* Properties.                                                              *)

(* An item is written only over the version its writer read, unless what it   *)
(* writes over came from another machine ("this narrows a race between two    *)
(* writers rather than closing it; a local lock keeps one erpc from racing    *)
(* itself"), or the write it makes or the one it writes over outlived its erpc. *)
NothingOverwritten ==
  [][/\ \A h \in DOMAIN hosts : hosts'[h] # hosts[h] /\ hosts'[h].last # None =>
          \E c \in Cmds : /\ pc[c] = "put" /\ OnHost(c) /\ my[c].h = h
                          /\ my[c].host.ver = hosts[h].ver \/ hosts[h].last # my[c].at
     /\ \A v \in DOMAIN vals : vals'[v] # vals[v] /\ vals'[v].last # None =>
          \E c \in Cmds : /\ pc[c] = "put" /\ ~OnHost(c) /\ my[c].v = v
                          /\ my[c].val.ver = vals[v].ver \/ vals[v].last # my[c].at]_vars

(* Of what one machine adds under its lock, and so not by an op that outlives  *)
(* its erpc, no two validators have one name, no two hosts one name or one     *)
(* server, and no validator two primaries.                                  *)
OnceEach ==
  /\ \A v, w \in DOMAIN vals :
       vals[v].by # None /\ vals[v].by = vals[w].by /\ vals[v].name = vals[w].name => v = w
  /\ \A h, i \in DOMAIN hosts :
       /\ hosts[h].by # None /\ hosts[h].by = hosts[i].by
       /\ \/ hosts[h].addr = hosts[i].addr
          \/ hosts[h].name = hosts[i].name /\ (\/ hosts[h].n = hosts[i].n
                                               \/ hosts[h].primary /\ hosts[i].primary)
       => h = i

(* The `solv` password stored with a host that finished init is the one its   *)
(* server has, however often init stopped and was run again, as long as one   *)
(* item is for that server.                                                 *)
Only(h) == \A i \in DOMAIN hosts : hosts[i].addr = hosts[h].addr => i = h
PasswordIsStored ==
  \A h \in DOMAIN hosts :
    hosts[h].solv /\ Only(h) => solv[hosts[h].addr] = hosts[h].pw

(* A validator's vote account key is deleted, and its item without it, only   *)
(* once its account is on chain and has its BLS key: whatever stopped before  *)
(* can be done again.                                                       *)
KeyIsKept ==
  \A v \in DOMAIN vals :
    keys[vals[v].vote].gone \/ ~vals[v].ref =>
      \E a \in OnChain(vals[v].vote) : a.bls

=============================================================================
