# Verification of erpc

TLA+ specifications of the parts of `erpc` whose correctness rests on the order of
things, the TLC configurations that check them on small instances, and the theorems
TLAPS proves about them for every instance. Paths below are relative to `src/`.

## The system

`erpc` is a command line program (and a console, with an assistant) that signs an
operator in to an account, keeps the session in a credential store, and deploys and
operates RPC nodes, validators and trading workers on servers over SSH. Its parts:

| part | state it keeps | operations | works with |
|---|---|---|---|
| session (`crates/erpc-auth/src/session.rs`) | the session in a store, a parked session in a file, what this process has in flight | `current_session`, `sign_out`, `store_new_session`, `Leaving::{settled, answered, park}` | issuer (HTTPS), store, lock file, other erpc processes |
| lock and parked file (`lock.rs`) | `locks/<audience>.lock`, `pending-credentials.<audience>` | acquire, park, read, clear | all of the session's writers |
| credential stores (`store/`) | one session per key: 1Password (`op`), keychain (`security`), file | load, save, delete | child processes, the file system |
| device flow (`device_flow.rs`) | polling interval, time used | `next_wait` | issuer |
| signals and exit (`crates/erpc/src/interrupt.rs`, `main.rs`) | claims on Ctrl-C, whether the process leaves | `leave`, `ctrl_c`, `Hold`, `run_to_end`, the panic hook | session (`Leaving`) |
| worker agent (`crates/erpc-worker-agent/src`) | the app it supervises, the secrets it was handed, releases on disk with `current` and `previous`, firewall tables and their rollback timer | unlock, lock, start, stop, restart; install, activate, rollback, prune, remove; firewall apply, confirm, close | the client over SSH, systemd, nftables |
| trading engine (`crates/erpc-worker/templates/solana/pumpfun/src`) | positions and pending buys in memory, whether trading runs in memory and in Redis | buy, check and sell, burn and close, switch, take up the wallet at a start | a Solana RPC, the wallet, the operator over HTTP |
| hourly products of a worker (`crates/erpc/src/worker_deploy.rs`, `worker_remote.rs`, `worker_run.rs`, `crates/erpc-ai/src/actions.rs`) | one record per environment in 1Password, with a version | deploy, delete, run: buy, wait for and end servers and data lines | the account API, whose two lists are behind |
| node firewall and node runs (`crates/erpc-ops`) | the same kind of tables on a node, a run lock | apply, confirm, rollback, guard | ansible, systemd, nftables |
| inventory (`crates/erpc-chain/src/inventory.rs`, `crates/erpc-chain-solana/src/identity.rs`) | items of validators, hosts, nodes and keys in a 1Password vault, with a version; a lock per machine | load, add, update, remove; find, store and delete keys | other machines' erpc |
| validators (`crates/erpc/src/validator_{init,keys,vote,deploy}.rs`) | none of their own: the inventory, the server's `solv` user, the vote account on chain | `init`, `keys`, `vote-account`, `deploy` | the inventory, runs on servers over SSH, the chain |
| secret gate (`crates/erpc-secret`) | references to secrets and approvals | resolve | 1Password |
| assistant (`crates/erpc-ai`, `crates/erpc/src/ai.rs`) | a conversation, tools waiting for a yes | ask, confirm, run | the AI API, the operator |
| account API, wallets, storage, backup | little of their own | HTTP requests, restic | remote services |
| chains, SSH, terminal, i18n, installer | none that outlives a command | text and command building | |

What is hard: an issuer that rotates refresh tokens and revokes a whole family when it
sees one twice, several erpc processes and one process with several tasks, stores that
take seconds, fail, or report failure for a write they applied, processes that are
interrupted or killed between any two steps; and on the servers, changes that must be
undone by a timer unless they are confirmed, and releases that are switched while the
agent may stop at any point.

A trading app adds transactions that may land long after they were sent, an RPC that is
behind, and a wallet account that several positions in one token share; what is bought
by the hour adds money that runs on when a command stops. A validator is set up by
several commands, from several machines, over a vault without compare-and-swap, a server
whose runs go on without erpc, and a chain where nothing is taken back.

What makes each part correct: the session part must never leave a store with a spent
token while the new one is nowhere, never present a spent token without need, never
bring an old sign-in back, and never report a sign-out that left something; leaving must
end and lose nothing; a release that is not healthy must not stay current, and pruning
must not take one that is needed; a firewall change nobody confirmed must not stay in
force; an update of the inventory must not lose another's, and no key or password may be
lost while it is needed; the engine must not sign a second sell while the first can
land, nor lose track of tokens it bought; nothing may be charged that no record and no
message tells of.

## Modules

`Session` models signing in, refreshing, signing out and leaving, for one audience on
one machine. `SignedIn` is what it promises of the stores, and nothing of how.
`MCSession` instantiates `Session` for TLC. `SessionProofs`, `RotationProofs` and
`LeftoverProofs` hold the theorems.

`WorkerFirewall` models the firewall the workers on one server share, with the clients
that change it over SSH. `MCWorkerFirewall` instantiates it, `FirewallProofs` holds its
theorems.

`WorkerSupervisor` models the agent of a worker, and `WorkerReleases` extends it with
the verbs that change the worker's releases and the clients that call them: it is the
composition, the agent reading the links the verbs move. `MCWorkerReleases` instantiates
it, `ReleasesProofs` holds its theorems.

`Trading` models the trading engine of the pumpfun template. `MCTrading` instantiates
it, `TradingProofs` holds its theorems.

`HourlyAccount` models the account's hourly products as erpc sees them, and `Purchases`
extends it with the commands that buy and end them. `MCPurchases` instantiates it,
`PurchasesProofs` holds its theorems.

`Validators` models the commands that set a validator up, over the inventory, the
servers' runs and the chain. `MCValidators` instantiates it, `ValidatorsProofs` holds
its theorems.

These systems share the binary and some files, and no state whose order of changes
matters to two of them, so no module composes them further.

### Session

*Who acts.* A **call** is one running command's use of the session; a **proc** is the
erpc process it runs in, whose signal thread acts next to its calls. `ProcOf` gives each
call its process: two commands are two processes, the console is one process with
several calls. A process that ends takes its calls with it (`Ends`); its name then
stands for the next process started, so a finite set of names covers any number of runs
one after another.

*Tokens.* A refresh token is `[fam, gen]`: the sign-in it came from, and how often it
was rotated. The issuer's state is which families exist (`grants`), the newest
generation of each (`newest`) and which are dead (`revoked`). The issuer is not in the
repository; it is modelled from how the code uses it: it rotates the newest token of a
live family and revokes a family when it sees a spent one. Revoking a spent token may or
may not take the family: the code relies on neither, and both are allowed.

| variable | code |
|---|---|
| `store[s]` | what `CredentialStore::load` would return; `Unreadable` is `Corrupt` or `UnknownVersion` |
| `parked` | `pending-credentials.<audience>`: a `ParkedRecord` with the session and the one it replaces |
| `lock` | the call that has `ExclusiveLock` on `locks/<audience>.lock` |
| `pc`, `st`, `held`, `fresh` | where a call is, its store, the session it read, the newer one it carries |
| `tried`, `said` | sign-out's `attempted`, and what it told the operator |
| `unsaved` | `IN_FLIGHT.unsaved`; `IN_FLIGHT.rotations` is the number of calls in `Rotations` |
| `phase`, `toPark` | whether the process is done with its work, leaving because asked to, or parking, and what `Leaving::park` cloned and has yet to write |
| `orphans` | store writes of `op` or `security` children whose erpc has ended |
| `forfeit` | history only, read by properties: families whose parked copy was not written, became unreadable, was removed by a sign-in or sign-out, or was replaced by a record that is no successor of it |

*Actions.* `current_session` is `BeginSession`, `TakeLock`, `Recover`, `FileParked`,
`ClearParked`, `Load` (`read_locked`), then `IssuerAnswers`, `ReplyArrives` or
`RequestFails` (`Rotation::run`), `SaveRotated`, `ParkRotated` (`file_rotation`) and
`Filed`. `Unwind` and `DropParks` are `Rotating::drop`. `sign_out` is `SignOutLoad`,
`SignOutParked`, `SignOutClear`, `SignOutDelete`; `store_new_session` is `SignInLoad` to
`SignInRevoke`, with `login` around it: `Approve` before, `SignInUndo` when it fails,
and the sign-out of the store it moved away from after. A process leaves by `Done`
(`run_to_end`), `Leave` (a signal) or `Panic` (the hook); `Collect` and `ParkCollected`
are `Leaving::park`, `EndSettled` and `EndParked` the ends; `Kill` is the end nobody
prepared.

Each store call, file write and request is a step of its own, so every interleaving of
calls, signal threads and ends of processes between two of them is there. Whether a
session needs refreshing is left to chance (the clock).

*Faults* are a constant, a subset of `FaultNames`, so that a run or a theorem can say
which of them it allows:

| fault | code |
|---|---|
| `load`, `save`, `delete` | the store call fails and nothing changed |
| `savedTold` | the store call fails and the write was applied (`lock.rs`, `is_held_in`) |
| `clear`, `park` | the parked file cannot be removed, or written |
| `reply` | a refresh fails before or after the issuer has seen it |
| `revoke` | a revocation is not confirmed, whether it arrived or not |
| `lock` | the lock file cannot be opened, or the account is not found (`get_user`) |
| `kill`, `panic`, `unwind` | SIGKILL or power loss; a panic that aborts (release); one that unwinds |
| `impatient` | the grace is over, or a second signal came, while a rotation is unsaved |
| `unreadable` | the parked file can no longer be read by this build |
| `orphan` | a child process that writes the store outlives erpc |

### SignedIn

For each store the sign-in it holds, the sign-ins approved and not yet stored, the
stores that sign-outs under way are for, and what may happen: a sign-in is approved, a
pending one is stored (once, in one store) or dropped, a sign-out of a store is asked
for, and a store is emptied while one is under way for it. `Session` implements it under
the mapping `Promise` (the families the stores hold, those that calls between the
approval and the save carry, and the stores of the calls that sign out), which says that
refreshing, parking, filing, being refused, failing and crashing never move a store to
another sign-in and never empty one.

### WorkerFirewall

*Who acts.* A **client** is an `erpc` that deploys or removes a worker: it runs
`firewall-apply` over one connection, `firewall-confirm` over a fresh one, or `remove`.
A verb holds the firewall's lock from its first step to its answer and goes on without
its client; on the server there are also the rollback timer, the service it starts, and
a restart. Clients and removals are not counted.

*Tables.* A table is the set of workers whose port it opens and whether erpc's SSH gets
through it: `apply` is told the port erpc connects to, which behind a translated port is
not sshd's, and that is what locks erpc out. No table is `None`, and drops nothing;
`previous.nft` with a `delete table` is `None` too.

| variable | code |
|---|---|
| `live` | the table `inet erpc_worker` in the kernel |
| `applied`, `previous`, `draft` | `applied.nft`, `previous.nft`, `pending.nft` |
| `pending`, `taken` | `pending.json`, `confirming.json`: whose opening, and whether there is one |
| `kept` | the workers with a `workers/<id>.json` |
| `boot` | whether the boot unit is enabled |
| `timer`, `svc` | the transient timer and its service, before and after the `mv` |
| `lock`, `pc`, `req`, `told` | `.lock`, where a verb or its client is, what was asked and answered |
| `stuck` | history only: a rollback was run and failed, and the table it was to replace is in force |

`rolled-back.json` is read by nobody and left out; `next.nft` is what `close` has just
loaded. The addresses of an opening do not matter to the protocol.

*Actions.* `Call` and `Connect` are the client. `lock` and `refuse_while_waiting` are
`Begin` and `Ask`; `apply` goes on with `KeepPrevious`, `WritePending`, `Arm`, `Load`;
`confirm` is `BeginConfirm`, `Claim`, `Disarm`, `KeepOpening`, `KeepTable`,
`KeepAtBoot`; a removal is `CloseLoad`, `CloseKeep`, `CloseForget` after `Begin` and
`Ask` (`hold`). `Fire` is systemd, `Take` and `PutBack` are the two halves of
`rollback_command`, `Reboot` the server. Each write, rename and call of `nft` or
`systemctl` that another process can see is a step.

systemd is modelled from how the code uses it: a timer is active while it waits and
while its service runs, stopping it leaves a running service alone, and `systemd-run`
refuses a unit whose service is still there. `systemctl stop` is taken to succeed.

*Faults* (`Faults`): `disk` (a write, rename or removal fails; removals are not noticed,
as in the code), `nft`, `systemd` (it does not answer, or a unit cannot be started or
enabled), `reboot`. They reach the rollback too: its shell runs `mv pending.json` and
then `nft -f previous.nft` (`firewall.rs:46-54`), and either may fail, the second with
the change already taken. Nothing tries again in either case, which is `stuck`.

*Races* (`Races`): what the code leaves to timing. `overtaken`: another verb has or
takes the lock between a confirm's connection getting in and the confirm taking it.
`lateRollback`: the timer's service is still there when the next `apply` or `remove`
begins. Runs and theorems without them show what the protocol promises when those
windows are not hit; runs with them show what happens when they are. A rollback may
still fire, and take its change or not, at any step of a confirm. `halfKept`: the server
restarts between the two files a confirm, or a removal, writes one after the other; an
opening is then without its table, or the reverse, until that worker's next change.
`unread`: the change a confirm took cannot be read (`firewall.rs:126`). `unstopped`: the
timer a verb stops goes on, as the answer of `systemctl stop` is not looked at.

### WorkerSupervisor and WorkerReleases

*Who acts.* A **client** is an `erpc` that deploys, goes back, or deletes; each verb it
calls is a run of `erpc-worker-agent ctl` on the server, which holds `.lock` and refuses
to wait for it. Operators ask the agent directly. The agent takes one request at a time,
looks after the app in between, and may end.

| variable | code |
|---|---|
| `disk` | `releases/<id>`: absent, whole (the digests agree), or torn |
| `current`, `previous` | the links of these names |
| `agent` | the process and its unit: up, down (systemd brings it back), gone |
| `held`, `wanted`, `app`, `paused` | the supervisor's secrets, desired state, child, and whether its next start is due |
| `kept` | the file `wanted` in the state directory |
| `off` | history: the last of start, restart, stop and lock was one of the last two |
| `lock`, `pc`, `job` | `.lock`, where a client or its verb is, the release and the links it found |
| `trusted`, `astray` | history: releases shown healthy; whether a verb ended since then where it was not meant to |
| `damaged` | history: releases a removal got at and did not finish, until they are installed again |

*Actions.* `deploy` is `Deploy` (setup), `Install`, `Verify`, `UnlockFor`, `Activate`;
`activate` is `Point`, `LinkPrevious`, `RestartNew`, `Watch`, and `Prune`, one release a
step, when it is healthy; otherwise `PointBack`, `LinkBack`, `RestartBack`, `WatchBack`,
or `Halt` when there was none before. `rollback` is `GoBack` and the same steps.
`remove` is `Remove` (the unit and its state), then `RemoveDirectory`, or `RemovePart`
where `remove_dir_all` fails or is cut off: it takes the releases and the links in no
order, and may leave any of them, whole, torn or not at all. The agent is `AskUnlock`,
`AskLock`, `AskStart`, `AskStop`, `AskRestart`, the tick (`AppEnds`, `Probe`,
`PauseOver`, `StartDue`), and `AgentDies` and `AgentComesBack`. Each rename, each
request to the agent and each directory that is pruned is a step.

*Faults*: `disk` (a link cannot be moved, a directory cannot be removed whole, the
state is not cleaned with its unit), `state` (the file `wanted` cannot be written, which
the agent passes over), `agent` (it dies), `cut` (a verb is cut off at any step), `torn`
(an upload arrives damaged). *Races*: `unlocked`, a worker is removed while another verb
is under way. `remove` takes no lock (`ctl.rs:524`) and takes the lock file away with
the directory, so only the operator keeps it apart from the verbs that hold it.
`unended`, a removal leaves the agent running: the answer of `systemctl disable --now`
is not looked at (`ctl.rs:531`).

### Trading

*Who acts.* Each pool has a task that buys and checks that claim its position, from the
stream of pools and from the monitor; the chain lands or drops what was sent, the RPC
shows it then or later, the operator switches trading over HTTP, and the app may end and
start.

A scene (`Scenes`, chosen in `Init`) says which token each pool trades, whether the
engine goes on after a cycle (`AUTO_LOOP`), and which faults there are: one
configuration covers several settings in one run.

| variable | code |
|---|---|
| `account`, `view` | what the wallet's account of a token holds, on the chain and as the RPC shows it; `None` is no account |
| `pos`, `late` | `Position`, by pool, and whether it is past `sell_timeout_secs` |
| `pc`, `job`, `close` | where the check that claimed a position is, what it has read and not used yet, the close it sent |
| `buy`, `seen` | `pending_buys` with how far each is, `seen_pools` |
| `adrift` | transactions the engine follows no more and that can still land |
| `running`, `sellOnly`, `saved` | the trade switch, and the same in Redis |
| `landed`, `told` | history: sells of each position that landed; tokens an operator was told are left in the wallet |
| `unlisted` | history: tokens in the wallet that the last start could not list |

*Actions.* `check_and_sell_positions` is `ClaimForSell`, then `ReadHeight` and
`ReadStatus` (`resolve_pending`), `ReadHolding`, `PlanBurnAgain`, `SendSell`,
`ConfirmSell`, `ReadLeft`, `SendClose` and `ConfirmClose`; a buy is `NewPool`
(`reserve_buy`), `SendBuy`, `SettleBuy`, `ReadWallet`, `OpenPosition`; `Switch` and
`Restart` are the operator and the app, and `SellLands`, `CloseLands`, `BuyLands`,
`AdriftLands`, `Past`, `CatchesUp` and `TimesOut` the world. What follows an await is a
step of its own.

Amounts are a few tokens and a price is what it means to a position (`Levels`: its
target is met, a sell is worth its fee, or not, and whether the pool is dry). There is
no clock: a transaction may land until its blockhash is past, and a wait is over at any
moment. A poll of the monitor whose reads fail (`engine.rs:637-664`) changes nothing and
is no step: `ClaimForSell` may simply not come.

*Faults*: `rpc`, `lag` (balances are shown late), `send` (an error though it may be
out), `refuse`, `slip`, `restart`, `manual`. *Race*: `quick`, the app is up again before
what it sent has landed, or shows.

### HourlyAccount and Purchases

*Who acts.* A **client** is an `erpc` that deploys, deletes or runs a worker; the
account (external: modelled from how the code uses it) charges for what is started, and
tells of it in two places that are each behind: the list of lines and the credit
snapshot, which `end_hourly_product` goes by.

| variable | code |
|---|---|
| `kind`, `lets`, `charged`, `ready` | what was bought and for which address, what is paid for, what is up |
| `listed`, `shown` | the status list, and the credit snapshot |
| `record` | the environment's item in 1Password: its VPS, its host, its lines and whether each was seen with an endpoint |
| `stale` | the versions: the clients whose copy is not what the item has any more |
| `env`, `pc`, `job` | a client's copy, where it is, what it is asked and has found |
| `told` | history: products an operator was told of |

*Actions.* deploy is `Deploy`, `Server`, `Start`, `PutOnRecord`, `SetUp`, `ForgetLine`,
`NextLine`, `ReadList`, `ReadCharges`, `FirstSight`, `WaitLine`, `UndoLine`, `Deployed`;
delete is `Delete`, `Remove`, `ReadWhatIsCharged`, `EndLine`, `EndServer`, `Deleted`;
run is `Run`, `FindLine`, `BuyLine`, `HoldLine`, `AwaitLine`, `AppRuns`, `LetGo`,
`RunEnds`, with `CtrlC`, which a run keeps until it may act on it.

*Faults* are named in the module's head, among them a line that is started and answered
as failed (`half`; `user-api` names it all the same), writes of the record that fail or
fail and apply, ends that fail or whose answer is lost, and an erpc that ends between
two steps (`cut`). *Races*:
`unchecked`, `archived`, `slow` and `unnamed`, explained below.

### Validators

*Who acts.* A **command** is an `erpc v init`, `keys`, `vote-account` or `deploy` on one
of the operators' **machines**; a server carries out the run it was given, under systemd
and under the lock of `node-run.sh`, whether its erpc is there or not. The vault is
1Password's: items are found by tag, and an item is read, compared and written in three
calls. `inventory.lock` is a file of one machine.

A scene (`Scenes`, chosen in `Init`) says which commands are run, on which machines and
for which servers, how far a first init has come, and how many writes of `op` may
outlive their erpc.

| variable | code |
|---|---|
| `vals`, `hosts` | the items of kind `Validator` and `Host`, by id; `ver` is 1Password's version, `ref` is `vote_ref`, `solv` an `ssh_user` that is `solv`, `pw` the password stored with a host |
| `keys` | the key items of `identity.rs` and whether each was deleted; the title is the role and the name |
| `accounts` | the vote accounts on chain: identity, withdrawer, BLS key (external) |
| `solv`, `runs` | the password of each server's `solv` user, and the run that has the server's lock, with the command that follows it, if any |
| `lock` | who has the `inventory.lock` of each machine |
| `pc`, `my` | where a command is, what it was asked and what it has read |
| `late` | the writes `op` was given by an erpc that has ended since, and has yet to do |

`by` and `last` of an item are history: the machine that made it, and the one that wrote
it last; a late write is nobody's (`None`), as no command has the lock for it. A
password is told apart by the item it was made for.

*Actions.* `Store::load` is `ReadVals` and `ReadHosts`, which decides as `plan` (init)
or `pick` (deploy) does. `store_items` is `ReadPassword` for a host that is stored, or
`FindKey`, `ListKeys`, `MakeKey` for each key, then `TakeLock`, `CheckVal`, `AddVal`
(`add_validator`) and `TakeLock`, `CheckHost`, `AddHost` (`add_host`). `update` is
`TakeLock`, `Get`, `Put`. A run is `StartRun` and `RunEnds`; `vote_account` is
`ReadChain`, `CreateAccount`, `RegisterBls`, `ForgetKey`, then an update. `Stop` ends a
command at any step: `op`, SSH or the chain fails, the operator says no, Ctrl-C. A
failed call is a `Stop` before it, one whose effect was applied a `Stop` after it. `op`
is a child that is not ended with its erpc (`one_password.rs:258`): a write that was
under way may also land later, whoever has the lock by then (`Lands`).

## Properties

For the session:

* `SpentOnlyIfLost`: a spent token of a live family is presented to the issuer only when
  its successor is gone from the machine, or its parked copy could not be written, read
  or kept. This is the promise behind reading again under the lock, the parked file and
  `Leaving`.
* `NeverNeither`: when a store is left with a spent token of a live family, the
  successor is still on the machine ("either the old session or the new one, never
  neither").
* `UndoneIsNotStored`: a sign-in that is undone revokes a session no store has.
* `ConfirmedIsRevoked`: a sign-out that says the issuer confirmed leaves no live token
  of the family the store had.
* `SignedOutLeavesNothing`: a sign-out that reports success leaves neither the stored
  session nor a parked file.
* `KeepsPromise`: refinement of `SignedIn`: a store moves to another sign-in only by one
  that was approved and not yet stored, and is emptied only while a sign-out is under
  way for it.
* `OneAtATime`: whoever is between taking the lock and its last write has it.
* `LateSaveTakesNothingBack`: a store write that outlived its process does not replace a
  later session.
* `LeavingEnds`: a process asked to stop stops, though the store never answers.
* `ParkedIsFiled`: a parked session that supersedes what a store holds does not stay
  that way when commands are run again and, in the end, are left to finish and find
  nothing failing.

For the worker firewall:

* `LockoutIsGuarded`: a table that locks erpc out is in force only while a rollback to
  one that lets it in is on its way, or after one that was run and failed. The point of
  the two steps, and the end of what they can do.
* `KeptIsProven`: a table is kept for the next boot only when it is in force and lets
  erpc in.
* `KeptOrGuarded`: between the verbs, what is in force is what is kept, or its rollback
  is on its way or failed (or the server restarted before anything was kept at boot).
* `OpeningsAreKept`: between the verbs, the openings that the next table is made from
  are those of the table kept.
* `OpensOnlyOwn`: a port opens only by a change that asks for it or if it was confirmed
  open: no rollback and no other worker's change opens one that was closed.
* `LockoutEnds`: whoever is locked out gets in again, or the rollback was run and
  failed.

For a worker's releases:

* `StaysStopped`: an app that was stopped or locked stays down until it is started
  again, whatever crash, tick, unlock or boot comes.
* `PointedIsOnDisk`: what `current` and `previous` point at is on disk and was checked,
  except what a removal that did not finish got at.
* `RunsFromDisk`: the app never runs from a directory that was pruned, with the same
  exception.
* `LeftTrusted`: once a release was shown healthy, no activation that ran to its end
  leaves one that was not.
* `OneVerb`: two verbs that change releases are never between their first and last step.
* `StartsAgain`: what is wanted and can start is started.
* `PreviousCanRun`: when an activation went back, the agent has what the previous
  release needs.

For the trading engine:

* `OneSellAtATime`: two sells of one token can never both land: "nothing new is signed
  while an earlier sell can still land".
* `OnePositionPerToken`: two positions that are not closed never share an account.
* `NothingStranded`: tokens in the wallet belong to a position that is followed, or the
  operator was told of them, or the last start could not list them.
* `WithinSlots`: open positions and buys under way stay within `max_positions`.
* `ClosedIsGone`: a position is closed only when its account is gone on the chain.
* `ProceedsAreCounted`: it is closed with every sell that landed counted.
* `TargetIsKept`: it is sold or burned below its target only when it is forced out or a
  sell of it landed before.
* `EndsOnceLate`: a position that timed out ends or is given up, if polls of its pool
  get through in the end (`PollsGetThrough`), and unless the burn it decides on is
  called off again and again by what the pool shows when it is read a second time.

For what is bought by the hour:

* `ChargedIsKnown`: what is charged is on record, in the hands of a command, or the
  operator was told of it.
* `NeverBuysAnother`: a deploy whose copy of the record is what the item has buys
  nothing for which the account is charged already, but for what the operator was told
  of and what another deploy has in hand. A deploy whose copy is stale does: it read the
  record before another deploy bought, and reads nothing again before it buys. Its write
  is then refused and the operator told, which is `ChargedIsKnown`.
* `ReleaseEndsAll`: a delete that releases the server and reports no problem left
  nothing charged of what it knew.

For validators:

* `NothingOverwritten`: a command writes an item only over the version it read, unless
  what it writes over came from another machine, or from a write that outlived its
  erpc. It is what remains of what
  `inventory.rs:29-32` claims: reading again "narrows a race between two writers rather
  than closing it; a local lock keeps one erpc from racing itself".
* `OnceEach`: of what one machine adds, late writes apart, no two validators have one
  name, no two hosts one name or one server, and no validator two primaries, though a
  command plans before it takes the lock and checks under it.
* `PasswordIsStored`: the `solv` password stored with a host that finished init is the
  one its server has, however often init was stopped, and its run left to go on, and run
  again. Two items for one server, which two machines can add, are excepted.
* `KeyIsKept`: a vote account's key is deleted, and the reference to it dropped, only
  once the account is on chain and has its BLS key.

## Runs

| run | instance | checks | result |
|---|---|---|---|
| `SessionLeaving` | one process, two calls, two stores, `LeavingSpec`, every fault of reads, saves, replies, locks and ends | `TypeOK`, `OneAtATime`, `LeavingEnds` | holds |
| `SessionRotation` | two processes, one store, two rotations, every fault but `orphan` | `SpentOnlyIfLost`, `ConfirmedIsRevoked` | holds |
| `SessionSignIns` | two processes, two sign-ins, `WorkingSpec`, failing loads, saves, removals and locks | `NeverNeither`, `UndoneIsNotStored`, `SignedOutLeavesNothing`, `KeepsPromise`, `ParkedIsFiled` | holds |
| `SessionTwoStores` | two stores, failing saves | `NeverNeither` | violated |
| `SessionLateSave` | two rotations, orphaned writes | `LateSaveTakesNothingBack` | violated |
| `FirewallLockout` | two clients, two workers, every fault, `halfKept` | `TypeOK`, `LockoutIsGuarded`, `KeptIsProven` | holds |
| `FirewallSettles` | two clients, two workers, `FairSpec`, every fault but `disk`, no race | `KeptOrGuarded`, `OpeningsAreKept`, `OpensOnlyOwn`, `LockoutEnds` | holds |
| `WorkerReleases` | two clients, two releases that need different secrets, every request, `FairSpec`, every fault but `state` | `StaysStopped`, `PointedIsOnDisk`, `RunsFromDisk`, `LeftTrusted`, `OneVerb`, `StartsAgain` | holds |
| `ReleasesDroppedKey` | two releases, the second needs fewer secrets, no fault | `PreviousCanRun` | violated |
| `Trading` | two pools, five scenes, `FairSpec` | `TypeOK`, `OneSellAtATime`, `OnePositionPerToken`, `NothingStranded`, `WithinSlots`, `ClosedIsGone`, `ProceedsAreCounted`, `TargetIsKept`, `EndsOnceLate` | holds |
| `Purchases` | two clients, four kinds of scenes, two products | `TypeOK`, `ChargedIsKnown`, `ReleaseEndsAll`, `NeverBuysAnother` | holds |
| `Validators` | two commands, one validator, two machines, two servers, six kinds of scenes | `OnceEach`, `PasswordIsStored`, `KeyIsKept`, `NothingOverwritten` | holds |

Bounds. `MaxGrant` bounds sign-ins, `MaxGen` rotations of one family; both are guards of
`Approve` and `Load`, and nothing else is bounded: commands, failures, crashes and
restarts are not counted. Two calls are enough for one to act between any two steps of
another, two sign-ins for a stale one to come back over a newer one, two rotations for a
parked record to be overtaken by the next, two stores for them to share the parked file.
Symmetry swaps the two commands with their processes and is used in safety runs only.
Deadlock is checked in every run but `Trading`: a command can always be started. A
trading app may have nothing left to do, with every pool seen and every position closed.

`WorkerFirewall` is finite as it stands and bounds nothing but the sets: two clients are
enough for one to act between any two steps of the other, two workers for a change to
concern another one's port. Clients, and workers, are interchangeable, which the safety
runs use.

`WorkerReleases` bounds nothing but the sets either. Two releases with `Keep = 1` make
every kind of prune but one of several in a row happen: one release to go, and two that
must stay because they are pointed at; ids are built once and may be deployed again. Two
clients let one act between any two steps of the other.

`Trading`: a buy brings in `Amount = 2` tokens, the least that a sell can take in part
and that a second one can finish. `MaxPaid = 2` and `MaxTries = 2` leave one failure to
be tried again and one to give up; `MaxPositions = 1` with two pools makes the slot and
the token contended. A pool is bought once between restarts (`seen_pools`); restarts and
sends are not counted. The scenes keep faults apart that multiply states and do not act
on each other: failing sends, a slow RPC, two tokens with one slot, the operator,
restarts with failing reads.

`Purchases`: `MaxBought = 2` products are bought over the whole behaviour, which is what
it takes for one to be bought on top of another that is charged, and for an end to meet
a line and its server. The scenes are one client with two kinds of line (one of them
cannot be ended while it is set up) and every fault but failing writes of the record and
`cut`; one with a single kind and every fault; two that deploy and delete one
environment; and two that run lines for one machine. Clients are interchangeable
(`Alike`); the view leaves out of `told` and `stale` what no guard and no property reads
any more.

`Validators`: `MaxVer = 3` is a guard of the commands that would otherwise write an item
again and again (`keys`, `deploy`): an item is written twice after it was made, which is
what it takes for a write to meet another one between its read and its own. Two commands
on two machines let each step of one fall between two of the other, with a lock they
share or not; two servers and one name make a primary and a spare, and two of either.
The scenes keep apart what acts on different items: first inits, a spare next to a
deploy, an init taken up from two machines, and the changes of a validator's keys and
vote account. Two more have one machine and one server, for the first init and for those
changes, and let one write outlive its erpc, which is what it takes for it to land
between another command's check and its write, or after both. Commands, machines and
servers are interchangeable. Ends of commands, runs and their failures are not counted.

The types of releases and of validators are proved for every instance and not run.

### What the violations show

Each is a statement of the code's own comments that its steps do not keep.

* **Two stores, one parked file** (`session.rs:170`, `SessionTwoStores`). The parked
  file is named by the audience, not by the store. A rotation for store A that could not
  be saved is parked; a rotation for store B that cannot be saved either replaces it,
  and A keeps a spent token with nothing to supersede it.
* **A write that outlives erpc** (`store/one_password.rs:258`, `SessionLateSave`). `op`
  is a child that is not ended with erpc. Its save may land after the next command filed
  the parked copy, refreshed it and saved the newer one: the store is back at a spent
  token, not, as `session.rs:468-470` says, equal to the parked copy.
* **A deploy takes the previous release's key away**
  (`crates/erpc/src/worker_deploy.rs:1049`, `ReleasesDroppedKey`). deploy hands over
  what the new release needs before it is activated, and an unlock replaces all the
  agent holds. When `erpc.toml` no longer names a secret the running release needs, and
  the new one is unhealthy, the agent goes back to a release it cannot start, where
  `docs/worker.md:503` says that "the previous release still runs".

### What the faults and races left out would show

Every fault and race a run leaves out is in the module, and TLC finds what it does when
it is added to the run's constants:

* `impatient` and `MaxGen = 2` in `SessionSignIns` break `NeverNeither`
  (`session.rs:472`): `Leaving::park` clones what is unsaved and then writes it without
  the refresh lock. If the rotation's own save fails and parks in between, another
  process can file that session, refresh it and park the next one, which the stale clone
  then overwrites.
* `panic` and `unwind` in `SessionSignIns` break it too (`session.rs:414`):
  `Rotating::drop` takes a rotation that was cut off out of the count and parks it
  afterwards; a process waiting in `settled` may end in between. A build that aborts on
  panic, as the release profile does, does not get there by a panic.
* `savedTold` there breaks `UndoneIsNotStored` (`session.rs:754`): `login` revokes the
  token of a sign-in whose save failed and was applied all the same.
* A rollback that fails is the exception in `LockoutIsGuarded`, `KeptOrGuarded` and
  `LockoutEnds` (`firewall.rs:46-54`): `mv pending.json` comes before `nft -f`, so a
  table that nft refuses, or a rename that fails, leaves the change in force with
  nothing that tries again, and an operator it locks out stays out until the server
  restarts.
* `unread` and `unstopped` break `LockoutIsGuarded`, `KeptOrGuarded` and `OpensOnlyOwn`,
  and `unstopped` breaks `KeptIsProven` and `OpeningsAreKept` too (`firewall.rs:126`,
  `:286`): the timer of a change that waits no more is left waiting, and takes the
  `pending.json` of the next `apply` before that has armed its own, which then finds
  nothing to take.
* `overtaken` in `FirewallLockout` breaks `KeptIsProven` (`firewall.rs:283`): a change
  that is loaded after the confirm's connection got in is kept although nobody got in
  through it.
* `lateRollback` there breaks `LockoutIsGuarded` (`firewall.rs:49`): the timer fires
  while a confirm takes the change; its `mv`, if slow, takes the `pending.json` of the
  next `apply` before that has armed its own timer, which then finds nothing.
* `lateRollback` in `FirewallSettles` breaks `OpensOnlyOwn` (`firewall.rs:109`): a
  removal between the rollback's `mv` and its `nft -f` sees no change waiting, closes
  the port, and the rollback loads the table that opens it.
* `disk` in `FirewallSettles` breaks `KeptOrGuarded` (`firewall.rs:295`): a confirm that
  fails once it has stopped the timer leaves the change in force, not kept, and not to
  be taken back. `LockoutIsGuarded` holds all the same: erpc got in through that table.
* A confirm names no change (`firewall.rs:283`): `firewall-confirm` takes whatever is
  pending. A client whose change was rolled back while it slept confirms the one another
  client has just applied, and that client is told "rolled_back" with its change in
  force. No property is stated of what a client is told.
* `unlocked` in `WorkerReleases` breaks `OneVerb`, `PointedIsOnDisk` and `RunsFromDisk`
  (`ctl.rs:524`): a removal takes the lock file away with the directory, under the verb
  that has it.
* A removal that fails or is cut off is the exception in `PointedIsOnDisk` and
  `RunsFromDisk` (`ctl.rs:538`): `remove_dir_all` takes the releases and the links in no
  order and may leave a link at a release that is torn or gone. The next deploy
  (`install`) makes the release whole again or refuses it; until then it is `damaged`.
* `unended` there breaks `RunsFromDisk` (`ctl.rs:531`): the directory goes under an app
  that goes on.
* `state` with `agent` there breaks `StaysStopped` (`supervise.rs`, `want`): a stop that
  could not be written down is undone when the agent comes back.
* Without `astray`, `LeftTrusted` fails (`ctl.rs:260`): a verb cut off between pointing
  `current` at a release and the answer leaves it there, shown healthy or not.
  `PointedIsOnDisk` is about links that are there: a second activation that fails leaves
  both links at the first release, as there was no `previous` to put back, and a verb
  that is cut off between its two renames leaves a pair no release ran with.
* `quick` in `Trading` breaks `OneSellAtATime`, `NothingStranded`, `ClosedIsGone`,
  `ProceedsAreCounted` and `TargetIsKept`: what was sent is kept in memory only, so an
  app that is up again within a blockhash's life, or before the RPC shows what landed,
  takes the wallet up as it was.
* A start that cannot list the wallet is the exception in `NothingStranded`
  (`engine.rs:1735`): `get_token_accounts_by_owner` that fails is passed over with a
  warning of the token program, so the tokens of that program are neither taken up nor
  named, where the template's README (line 430) says that "a restart does not strand a
  position".
* Without `PollsGetThrough`, `EndsOnceLate` fails (`engine.rs:637-664`): a poll that
  cannot read the pool or its reserves counts no failure, so a position whose pool can
  never be read is neither sold nor given up, past its timeout, and holds its slot.
* A pause after a position is given up is in memory only (`engine.rs:1645`): after a
  restart trading is taken up as it was saved, though the template's README says that
  buying pauses until the operator starts it.
* A deploy whose copy of the record is stale is the exception in `NeverBuysAnother`
  (`worker_deploy.rs:576`): without it the property fails with two deploys, one of which
  read the record before the other bought. Both products are charged; the second is on
  no record, and the operator is told of it.
* `unnamed` in `Purchases` breaks `ChargedIsKnown` (`worker_vps.rs:372`, `:380`): a VPS
  that is answered as not done, or any product whose answer is lost, may be charged with
  its id dropped, so that nothing records it and nothing names it.
* `unchecked` in `Purchases` breaks `ChargedIsKnown` and `NeverBuysAnother`
  (`inventory.rs:1172`): an environment in `erpc.toml` has no version, and 1Password has
  no compare-and-swap, so the later of two writes drops what the earlier put on record.
* `archived` there breaks both too (`worker_inventory.rs:221`): a delete archives the
  item without a look at its version, and with it what a deploy has just put there.
* `slow` there breaks `ChargedIsKnown` (`worker_run.rs:194`, `:212`): a run reads the
  snapshot once at its start; a line it takes up and that the snapshot did not show yet
  is taken for one not billed by the hour, and is neither ended nor named.
* A write that outlives its erpc is the exception in `OnceEach` and `NothingOverwritten`
  (`one_password.rs:258`): `inventory.lock` goes with the erpc, and the `op` it had
  write does not. A late `item create` adds a name or a server next to the one the next
  command of the same machine added; a late `item edit` writes over what that command
  wrote, against `inventory.rs:29-32`, "a local lock keeps one erpc from racing itself".
  `PasswordIsStored` and `KeyIsKept` hold all the same.
* Two machines: `NothingOverwritten` and `OnceEach` except what another machine wrote or
  added, and need to. Two inits on two machines may both store the validator, its name
  and its server twice (`inventory.rs:926`, `:955`), and a write may drop another
  machine's (`:1172`). The lock closes the race on a machine and not between two.
* "A run that stops part way is picked up by running the same command again"
  (`validator_init.rs:14`) does not hold at every step. After a stop between
  `add_validator` (`:452`) and `add_host` (`:456`) there is a validator without a host,
  and the same command is refused, "add another server to it with --spare" (`:231`).
  With a key from a file, a stop after it was stored makes the same command fail in
  `store_key`, which finds the title. In the model both are `Plan` and `ListKeys` ending
  the command.
* A stop between `delete_item` (`validator_vote.rs:277`) and `update_validator` (`:279`)
  leaves `vote_ref` at a deleted item: the next `vote-account` reads the complete
  account, and then fails at the deletion. Nothing is lost (`KeyIsKept`).
* `vote-account` creates the account with the authority it read; `keys` on another
  command may give the validator another one meanwhile, and the account is then refused
  as "not this validator's" from then on.

### Fairness

`LeavingSpec` assumes what bounds the way out in the code: the request timeout
(`REQUEST_TIMEOUT`: the issuer answers or the request fails), the grace of the signal
thread (`SAVE_GRACE`), and that the signal thread takes its steps. Nothing is assumed of
the store. A process that is only done with its work (`run_to_end`) waits for the store
as long as it takes; `LeavingEnds` is about one that was asked. `WorkingSpec` adds that
the operator runs commands again, that a command's steps are taken, and strong fairness
of the lock, which `flock(2)` gives a waiter in practice though not by its contract.

`FairSpec` of `WorkerFirewall` assumes that the timer elapses and its shell is run
(systemd), and that a verb that is running is run to its end. Nothing is assumed of
clients, of the lock's order, or of there being no restarts.

`AgentRuns` of `WorkerReleases` assumes that the agent's loop goes round and that
systemd brings it back (`Restart=always`). Nothing is assumed of clients, of the app, or
of secrets being handed over: `StartsAgain` is about what can start.

`FairSpec` of `Trading` assumes that a check that has claimed its position and can take
a step takes one, and that the chain's height grows past a transaction's blockhash.
That a poll gets as far as a claim is no fairness of the engine, as its reads may fail
for ever: `EndsOnceLate` has it as its premise, for each pool apart. Nothing makes a
transaction land, a price move or the RPC catch up. `Purchases` and
`Validators` state no liveness: every wait in them is the operator's to end.

## Proofs

`tlapm` checks `SessionProofs.tla`, `RotationProofs.tla`, `LeftoverProofs.tla`,
`FirewallProofs.tla`, `ReleasesProofs.tla`, `TradingProofs.tla`, `PurchasesProofs.tla`
and `ValidatorsProofs.tla` to the last leaf. The theorems hold for any sets of
processes, calls, stores, clients, workers, releases, pools, tokens, lines, commands,
machines and servers and any bounds, from the assumption on the shape of the constants
in each module alone (`SessionAssumption`, `FirewallAssumption`,
`SupervisorAssumption`, `ReleasesAssumption`, `TradingAssumption`, `AccountAssumption`,
`PurchasesAssumption` and `ValidatorsAssumption`), which TLC evaluates in every run of
the module. A theorem that needs a fault or a race away says so in its `ASSUME`.

Every safety property of the passing runs is stated by one of these theorems.

For the session:

* `TypeCorrect`: `Spec => []TypeOK`. `TypeOK` is not inductive: filing needs a token to
  file, so `Carries` says what a call carries at each place (a call that has an answer
  carries a token read and a newer one of the same family), and `RecordsKeepFamily` that
  records keep to one family.
* `MutualExclusion`: `Spec => []OneAtATime`. Inductive as it stands, because the lock
  moves only as `LockMoves` says.
* `PromiseKept`: `"orphan" \notin Faults` gives `Spec => KeepsPromise`, an emptied store
  having a sign-out under way for it included. Besides `TypeOK`
  and `OneAtATime` it needs `Kept`: what a call has read is still what the store has
  until the call writes it (`StoreAsRead`, from the lock), pending sign-ins are of
  different families (`SignInsApart`), and so are the stores' (`StoresApart`). Each
  action is then shown to be an abstract step or a stutter.
* `NoNeedlessRevocation`: `"orphan" \notin Faults` gives `Spec => []SpentOnlyIfLost`.
  The invariant adds `Facts` (no token is ahead of the issuer, a record's session is the
  successor of the one it replaces, a call that has an answer carries the newest token,
  nobody else has parked it) and `Filing`: for a session whose successor still exists
  and is not forfeited, the successor is either carried by the call that rotates, being
  parked, or parked and dealt with before the store is next read for a refresh. This
  covers `savedTold`, `kill`, `panic`, `unwind` and all the others at once.
* `SignOutsLeaveNothing`: without `panic` and `impatient`, `Spec =>
  SignedOutLeavesNothing`. `ClearedOut`: a sign-out under way has said nothing but that
  something failed (`SaidLittle`), nothing is collected for a process on its way out
  (`NothingCollected`), and who is about to remove the store's record has removed the
  parked file or failed (`RemovedOrFailed`). Both assumptions are needed, as
  `Leaving::park` writes the parked file under no lock: with either fault a process does
  so between the two removals.
* `UndoneIsNobodys`: without `savedTold`, `Spec => []UndoneIsNotStored`. The session of
  a sign-in that has not been stored, or is being undone, is nowhere but in that call's
  hand (`Alone`), and nothing is of a family that was not granted (`OnlyGranted`). Late
  store writes are allowed: what a killed process was writing is of another sign-in than
  one that is still to be stored. With `savedTold` it fails: see above.
* `ConfirmedMeansRevoked`: without `orphan`, `Spec => ConfirmedIsRevoked`. To the
  invariant of `NoNeedlessRevocation` it adds that a sign-out holds what its store has
  (`HoldsStored`), and that when every revocation so far was confirmed, that session is
  dead, or was spent and its successor is dead or out of reach (`ConfirmedSoFar`).
* `NeverWithoutEither`: `Faults` within `load`, `save`, `savedTold`, `delete`, `clear`
  and `lock`, and one store, give `Spec => []NeverNeither`. `InPlace`: a store left with
  a spent token of a live family has the successor on its way to it, or parked to
  supersede exactly what it holds (`AllFiled`), and a call at the parked file has what
  it takes (`Steady`). Nothing can be dropped from the hypothesis: each other fault,
  added to those, lets TLC find a trace to a store that has neither, and so does a
  second store, which is the run `SessionTwoStores`. What remains when they do happen
  is what `NoNeedlessRevocation` says.

The assumption on `orphan` is needed: `SessionLateSave` shows why for `PromiseKept` and
`NoNeedlessRevocation`. For `ConfirmedMeansRevoked` TLC finds a trace too: a killed
rotation's write lands between a sign-out's read of the spent token, which it revokes,
and its removal of the store's record, which is then the newer one, live and gone.

For the worker firewall:

* `FirewallTyped`: `Spec => []TypeOK`, with `Holding` (whoever is between taking the
  lock and its answer has it) and `Carries` (what a verb has in hand).
* `NobodyStaysOut`: `Races \subseteq {"halfKept"}` gives `Spec => []LockoutIsGuarded`,
  for every fault; a rollback that fails is the case it excepts.
* `OnlyProvenIsKept`: `Races \subseteq {"halfKept"}` gives `Spec => KeptIsProven`, for
  every fault.

Both rest on `IInv`: a waiting timer has a change to take back (`TimerHasChange`);
between finding that no change waits and arming its own, an apply is alone
(`NothingElseRuns`); a confirm that got in is not overtaken (`NotOvertaken`); what a
confirm would keep is what is in force (`DraftIsLive`); and the table in force lets erpc
in wherever a verb stops a timer or keeps a table (`LetsInWhereItMatters`). The
assumption is needed: see `overtaken`, `lateRollback`, `unread` and `unstopped` above.

* `NothingUnkeptStays`: `Races \subseteq {"halfKept"}` and `"disk" \notin Faults` give
  `Spec => []KeptOrGuarded`. `SettledInv` adds that a rollback goes back to what is
  kept, that a timer that was stopped has left its service no change (`RollbackFits`),
  and where in a verb what is in force is kept or about to be put back (`Settled`).
* `OpeningsStayWithTheirTable` and `NoPortReopens`: `Races = {}` and `"disk" \notin
  Faults` give `Spec => []OpeningsAreKept` and `Spec => OpensOnlyOwn`. `OpeningsFit`:
  the openings that are kept are those of the table that is kept but between the two
  writes of a confirm or a removal, and the table of a change that waits opens what will
  be kept with it.

`disk` is away because a confirm that fails once the timer is stopped leaves a change
neither kept nor taken back (see above), and a failed second write leaves the openings
without their table. `halfKept` is the same second write lost to a restart, and is what
the last two cannot have.

For a worker's releases:

* `ReleasesTyped`: `Spec => []TypeOK`, by `Shape`: besides its types, what a verb has in
  hand at each of its places (a release to point at, a release to go back to).
* `VerbsDoNotInterleave`: `Races = {}` gives `Spec => []OneVerb`, by `Apart`: whoever is
  in a verb has the lock, and a removal is alone.
* `NeverNoRelease` and `AppKeepsItsRelease`: `Races = {}` gives `Spec =>
  []PointedIsOnDisk` and `Spec => []RunsFromDisk`. `OnDiskInv` adds that a verb's own
  release and the links it found stay whole until it has pointed at them, and that an
  app's release stays pointed at, by a link or by the verb that moves it, until the
  agent has been asked to restart; what a removal did not finish is apart from all of
  it, as `damaged`. Pruning spares the two links, and that is enough only
  because nobody else moves them meanwhile.
* `UnhealthyDoesNotStay`: `Races = {}` gives `Spec => []LeftTrusted`. `TrustInv` says at
  each place of a verb which of the links is at a release shown healthy.
* `StoppedStaysDown`: `"state" \notin Faults` gives `Spec => []StaysStopped`, by
  `OffInv`: what is not to run is neither wanted nor written down as wanted.

For the trading engine:

* `TradingTyped`: `Spec => []TypeOK`, and `OneAccountOnePosition`: `Spec =>
  []OnePositionPerToken`, by `FitsInv`. `Fits` says how a check and its position go
  together (what a check waits for is pending, a position that is over has nothing of
  one, one that drains has counted a sell), `Apart` that of the pools of one token at
  most one is taken.
* `SlotsAreKept`: `Spec => []WithinSlots` if `Pools` is finite, by the same and
  counting.
* `OneSell`, `NothingIsStranded`, `ClosedAccountsAreGone`, `EveryProceedIsCounted` and
  `TargetsAreKept`: `Races = {}` gives `OneSellAtATime`, `NothingStranded`,
  `ClosedIsGone`, `ProceedsAreCounted` and `TargetIsKept`, for every fault. `WalletInv`
  adds that the sells that landed are counted or about to be (`Counted`), that after a
  close an account that is not shown is not there (`Gone`), that tokens there before a
  buy are known of (`NotBought`), that a sell or a burn has its reason (`Decides`), and
  that only closes are ever let go while they can land (`OnlyCloses`).

A check is ten actions with some thirty ways to end. `Outcome` says once what a check
may make of a position; each action is shown to be one, and the invariants follow from
`Outcome` alone. `Races = {}` is needed: see `quick` above.

For the hourly products:

* `PurchasesTyped`: `Spec => []TypeOK`, and `ReleasesEndAll`: `Spec =>
  []ReleaseEndsAll`, for every fault and race, by `Shape`. `AccountInv` orders what the
  account says of a product (ready is charged and listed), `Good` says that a record
  names products by their kinds and that a line it has seen is listed as long as it is
  charged, and `Fits` what a command has in hand at each place.
* `NothingChargedIsLost`: `Races = {}` gives `Spec => []ChargedIsKnown`, and
  `NothingBoughtTwice`: `Races \subseteq {"slow"}` gives `Spec => NeverBuysAnother`, of
  deploys whose copy is not stale, both for every fault. Next to what is charged being
  known (`StillKnown`), `KnownInv` has that beside a delete only runs go on
  (`DeletesAlone`), that a deploy whose copy is not stale has what the record has and a
  delete all of it but what it is to forget (`CopiesFit`), and that a run holds no line
  it would not end (`HeldIsHourly`). With `slow` the last two except lines that let this
  machine in (`Excused`), which no deploy looks for.

The assumptions are needed: `unchecked` writes over a record another command wrote and
`archived` forgets what a deploy has put there meanwhile, which breaks `CopiesFit`; with
`slow` a run holds a line that it takes for one not billed by the hour, and lets it go
without a word; with `unnamed` a product is charged that nothing names.

For validators:

* `TypeIsCorrect`: `Spec => []TypeOK`, and `VoteKeyIsKept`: `Spec => []KeyIsKept`, by
  `Shape`. `AllFit` says what a command has in hand at each of its places (one about to
  delete a vote key, or to write an item without it, has its account complete on chain),
  `Followed` that a run is followed by a command that waits for it, and `AllFull` that
  every validator's vote key is an item, deleted or not referred to only when its
  account is complete.
* `AddedOnce`: `Spec => []OnceEach`, and `OnlyOthersOverwritten`: `Spec =>
  NothingOverwritten`, by `Safety`: a command between its check and its write has the
  lock of its machine; what it is about to add is not there among what its machine
  added; and the version it compared is still there unless another machine, or a write
  that outlived its erpc, wrote it.
* `PasswordStaysTrue`: `Spec => []PasswordIsStored`, by `Passwords`. In the model a
  password is told apart by the item it was made for: an item keeps its own and says
  `solv` only when its server has that user (`ItemsTrue`), what a server has or a run
  gives it is the password of an item for that server (`ServersTrue`), and a command
  that runs init, or writes what it did, has its item's (`AllKnow`). If only one item is
  for the server, the passwords are the same.

No assumption on how the commands interleave, where they stop or when a late write lands
is made. The first two hold of late writes too (what a late write deletes or drops the
reference to had its account complete before it began, and nothing is taken back on
chain), and so does the last (a late write keeps the password its item was made with).
`AddedOnce` and `OnlyOthersOverwritten` do not speak of what a late write adds or
replaces: there they would be false.

Only model-checked: the liveness properties (`LeavingEnds`, `ParkedIsFiled`,
`LockoutEnds`, `StartsAgain`, `EndsOnceLate`), which are out of the prover's reach:
fairness of an action is about `ENABLED`.

## Not modelled, and why

Within the session: which store a command chooses (an input), access tokens and the
clock (a refresh may be due at any time), the content of requests and of the parked file
beyond what the code decides on, the second audience (it has its own lock, file and
keys), the account half of a key (a command uses one account), and which Ctrl-C goes to
a claim instead of ending the process.

Within the worker firewall: the text of a table, addresses of openings, `show`, what a
removal does besides (the unit, the releases, the backup timer), a `systemctl stop` that
fails, an `nft -f` that takes longer than the timer waits (120 s), and durability of
writes across a power loss.

Within releases: how long a pause is, a start that fails though all it needs is there,
the 60 and 90 seconds an activation waits (it may give up at any moment), and the text
of `status`. `unlock_if_locked` compares how many secrets are missing, not which.

Within trading: prices, fees, slippage arithmetic, the stream of pools, creators' bans,
history and logs; reads that go to nodes that disagree (the view is behind, and never
goes back); `persist_trading`'s writes arriving out of order (`state.rs:608` starts a
task for each; one that is lost is in the model). A burn and close that was sent before
the operator's hold (`state.rs:512`) still lands, and is in the model; a position whose
close landed after it holds its slot until a later check.

Within purchases: prices, plans, regions, credit; servers of the operator's own beyond
their being there; lines that are not billed by the hour; backup keys in a delete; an
erpc that is killed between the answer of a start and the record (nothing in memory or
on record could name the product then, as with `unnamed`); and two runs on one machine
taking up one line beyond what `slow` shows: the first to finish ends it for both.

Within validators: where a key comes from (new, a file, another machine: a key that is
to be new is looked for first, and any other is not), funding, a voter other than the
identity, the decision to vote, disks and restarts of a deploy, the release that is
pinned, what a play does besides the `solv` user, and removals (`Store::remove`, which
asks for no version). RPC nodes and the other chains' items are written through the same
`update`, by commands that are not modelled. That no two key items have one title is not
stated: two commands can list the vault before either stores its own.

Elsewhere: everything PROJECT.json lists as `not_modelled`, with its reason. Building
command lines, templates, playbooks and text has no protocol to check.

## Plan

In this order, most important first:

1. Done: `Session`, `SignedIn`, their runs and the theorems above.
2. Done: `WorkerFirewall`, its runs and the theorems above.
3. Done: `WorkerSupervisor`, `WorkerReleases`, their runs and the theorems above.
4. Done: `Trading`, its run and the theorems above.
5. Done: `HourlyAccount`, `Purchases`, their run and the theorems above.
6. Done: `Validators`, its run and the theorems above.
7. `NodeFirewall` (`crates/erpc-ops/templates/rpc-firewall.py`, `node-run.sh`), and the
   SSH allow list (`crates/erpc-ssh/src/vps.rs`), with one abstract specification of a
   change that is kept once confirmed, for these and the worker's.
8. `DeviceFlow` (`device_flow.rs`): the poller's arithmetic and its end.
9. `Interrupt` (`interrupt.rs`): claims, holds and the second signal.
10. The inventory's RPC nodes, cards, renames and removals.
11. `Gate` and the assistant's confirmations, if what they keep is worth it.
12. Proofs: done for every safety property that holds. What is left: the abstract
    specification of item 7 and that the worker's firewall implements it.
