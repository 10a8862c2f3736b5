------------------------------ MODULE Trading ------------------------------
(***************************************************************************)
(* The trading engine of the pumpfun worker                                *)
(* (crates/erpc-worker/templates/solana/pumpfun/src/engine.rs, state.rs,   *)
(* api.rs): it buys the token of a new pool, watches the position, sells   *)
(* it at its target or when it is forced out, burns what is not worth a    *)
(* sell, and closes the token's account.                                   *)
(*                                                                         *)
(* Every step that follows an await is an action of its own, so the chain, *)
(* the operator, the other pools and a restart come between.               *)
(* There is no clock: a transaction may land until its blockhash is past,  *)
(* a position may time out at any moment, the wait after a failure is over *)
(* at any moment.  Amounts are a few tokens; a price is what it means to a *)
(* position (Levels).  The faults of a scene, and Races, name what an      *)
(* instance lets happen:                                                   *)
(*   rpc      a read fails                 lag      balances are read late *)
(*   send     a send answers an error and the transaction may be out       *)
(*   refuse   the simulation refuses it    slip     a sell or buy fails    *)
(*   restart  the app stops and starts     manual   trading is switched    *)
(*   quick    it is up again before what it sent has landed or cannot, or  *)
(*            before the RPC shows it                                      *)
(***************************************************************************)
EXTENDS Integers, FiniteSets

CONSTANTS Pools, Tokens,
          Amount,       \* what a buy brings in
          MaxPositions, \* max_positions
          MaxPaid,      \* MAX_SELL_FAILURES
          MaxTries,     \* MAX_SELL_ATTEMPTS
          Scenes,       \* the settings an instance has, one in each behaviour
          Races,        \* which races it has
          None          \* no account, no transaction

FaultNames == {"rpc", "lag", "send", "refuse", "slip", "restart", "manual"}

(* What may go wrong, which pools trade which token, AUTO_LOOP. *)
Scene == [faults : SUBSET FaultNames, token : [Pools -> Tokens], autoLoop : BOOLEAN]

Held == 0..Amount
Fates == {"unseen", "landed", "failed"}
Sent == [fate : Fates, past : BOOLEAN]

ASSUME TradingAssumption ==
  /\ {Amount, MaxPositions, MaxPaid, MaxTries} \subseteq Nat \ {0}
  /\ Scenes \subseteq Scene
  /\ Races \subseteq {"quick"}
  /\ None \notin Held \cup Sent

VARIABLES
  scene,    \* the setting of this behaviour
  account,  \* what the wallet's account of each token holds on the chain
  view,     \* the same, as the RPC shows it
  late,     \* the pools whose position is past sell_timeout_secs
  pos,      \* positions: the last one on each pool
  pc,       \* where the check that claimed a position is
  job,      \* what that check read: the level, the height; what it burns
  close,    \* the close it waits for
  buy,      \* where the buy of each pool is (pending_buys are those not none)
  seen,     \* seen_pools
  adrift,   \* transactions of a token that nothing leads to and can still land
  running, sellOnly,
  saved,    \* pumpfun:trading in Redis
  landed,   \* history: the sells of each position that landed
  told,     \* history: tokens the operator was told are left in the wallet
  unlisted  \* history: tokens held that the last start could not list

chain == <<scene, account, view, late, adrift>>
trade == <<running, sellOnly, saved>>
checks == <<pc, job, close>>
vars == <<chain, pos, checks, buy, seen, trade, landed, told, unlisted>>

(* A level is what a pool's reserves mean to a position: worth its target,  *)
(* worth a sell but not its target, not worth a sell's fee; thin and dry are *)
(* the last two with the SOL at or below exit_pool_sol_lamports.            *)
Levels == {"up", "down", "dust", "thin", "dry"}
Account == Held \cup {None}
Statuses == {"none", "active", "selling", "closed", "failed"}
Position == [status : Statuses, amount : Held, known : BOOLEAN,
             pending : Sent \cup {None}, draining : BOOLEAN, closing : BOOLEAN,
             closeSent : BOOLEAN, failures : 0..MaxPaid, tries : 0..MaxTries,
             restored : BOOLEAN, total : Nat]
Drift == [pool : Pools, kind : {"buy", "sell", "close"}, amount : Held]
Steps == {"idle", "height", "status", "holding", "burn", "sell", "confirm", "left", "close", "closing"}
Buys == {"none", "prepare", "unseen", "landed", "failed", "past", "wallet", "open"}
Wanted == {"running", "sell_only", "stopped"}

NoPosition == [status |-> "none", amount |-> 0, known |-> TRUE, pending |-> None,
               draining |-> FALSE, closing |-> FALSE, closeSent |-> FALSE,
               failures |-> 0, tries |-> 0, restored |-> FALSE, total |-> 0]
NoJob == [level |-> "down", past |-> FALSE, burn |-> 0]

(* Position::opened *)
Opened(n, known, restored) ==
  [NoPosition EXCEPT !.status = "active", !.amount = n, !.known = known, !.restored = restored]

Init ==
  /\ scene \in Scenes
  /\ account = [t \in Tokens |-> None] /\ view = account
  /\ late = {}
  /\ pos = [p \in Pools |-> NoPosition]
  /\ pc = [p \in Pools |-> "idle"] /\ job = [p \in Pools |-> NoJob]
  /\ close = [p \in Pools |-> None]
  /\ buy = [p \in Pools |-> "none"] /\ seen = {}
  /\ adrift = [t \in Tokens |-> {}]
  /\ running = TRUE /\ sellOnly = FALSE /\ saved = "running"
  /\ landed = [p \in Pools |-> 0] /\ told = {} /\ unlisted = {}

-----------------------------------------------------------------------------
Token(p) == scene.token[p]
May(f) == f \in scene.faults
Open(p) == pos[p].status \in {"active", "selling"}
OpenPools == {p \in Pools : Open(p)}
Buying == {p \in Pools : buy[p] # "none"}

(* A transaction that was signed and can still land. *)
Live(tx) == tx # None /\ tx.fate = "unseen" /\ ~tx.past
NewTx == [fate |-> "unseen", past |-> FALSE]

BuyTx(p) == IF buy[p] = "unseen" THEN NewTx ELSE None

(* A transaction that is not followed any more. *)
Out(p, kind, amount, tx) ==
  IF Live(tx) THEN {[pool |-> p, kind |-> kind, amount |-> amount]} ELSE {}
LetGo(p, out) == adrift' = [adrift EXCEPT ![Token(p)] = @ \cup out]
SellOut(p) == Out(p, "sell", pos[p].amount, pos[p].pending)
CloseOut(p) == Out(p, "close", job[p].burn, close[p])

(* read_holding: None is an account the RPC cannot find, "unread" one it    *)
(* could not say anything of.                                               *)
Holding(p) == view[Token(p)]

NewAccount(t, n) ==
  /\ account' = [account EXCEPT ![t] = n]
  /\ view' = IF May("lag") THEN view ELSE account'

-----------------------------------------------------------------------------
(* The chain and the RPC. *)

(* An exact-out sell takes some of what it was signed for, a close takes    *)
(* the account when it holds just what it burns; anything else fails.       *)
Sells(t, amount, k) == account[t] # None /\ k <= account[t] /\ k <= amount

SellLands(p) ==
  /\ Live(pos[p].pending)
  /\ \/ \E k \in 1..Amount :
          /\ Sells(Token(p), pos[p].amount, k)
          /\ NewAccount(Token(p), account[Token(p)] - k)
          /\ pos' = [pos EXCEPT ![p].pending.fate = "landed"]
          /\ landed' = [landed EXCEPT ![p] = @ + 1]
     \/ /\ May("slip") \/ ~Sells(Token(p), pos[p].amount, 1)
        /\ pos' = [pos EXCEPT ![p].pending.fate = "failed"]
        /\ UNCHANGED <<account, view, landed>>
  /\ UNCHANGED <<scene, late, adrift, checks, buy, seen, trade, told, unlisted>>

CloseLands(p) ==
  /\ Live(close[p])
  /\ IF account[Token(p)] = job[p].burn
     THEN /\ NewAccount(Token(p), None)
          /\ close' = [close EXCEPT ![p].fate = "landed"]
     ELSE /\ close' = [close EXCEPT ![p].fate = "failed"]
          /\ UNCHANGED <<account, view>>
  /\ UNCHANGED <<scene, late, adrift, pos, pc, job, buy, seen, trade, landed, told, unlisted>>

(* Amounts stop at Amount, also in an account that held some.  A close sent  *)
(* for an earlier position burns another amount than a later buy brings in. *)
BuyLands(p) ==
  /\ buy[p] = "unseen"
  /\ \/ /\ NewAccount(Token(p), Amount)
        /\ buy' = [buy EXCEPT ![p] = "landed"]
        /\ adrift' = [adrift EXCEPT ![Token(p)] = {d \in @ : d.kind # "close" \/ d.amount = 0}]
     \/ /\ May("slip")
        /\ buy' = [buy EXCEPT ![p] = "failed"]
        /\ UNCHANGED <<account, view, adrift>>
  /\ UNCHANGED <<scene, late, pos, checks, seen, trade, landed, told, unlisted>>

(* One that nothing follows any more lands, or never will. *)
AdriftLands(t) ==
  /\ \E d \in adrift[t] :
       /\ adrift' = [adrift EXCEPT ![t] = @ \ {d}]
       /\ \/ d.kind = "buy" /\ NewAccount(t, Amount) /\ UNCHANGED landed
          \/ /\ d.kind = "sell"
             /\ \E k \in 1..Amount : Sells(t, d.amount, k) /\ NewAccount(t, account[t] - k)
             /\ landed' = [landed EXCEPT ![d.pool] = @ + 1]
          \/ d.kind = "close" /\ account[t] = d.amount /\ NewAccount(t, None) /\ UNCHANGED landed
          \/ UNCHANGED <<account, view, landed>>
  /\ UNCHANGED <<scene, late, pos, checks, buy, seen, trade, told, unlisted>>

(* The blockhash of a transaction is past: it cannot land any more. *)
Past(p) ==
  /\ \/ /\ pos[p].pending # None /\ ~pos[p].pending.past
        /\ pos' = [pos EXCEPT ![p].pending.past = TRUE]
        /\ UNCHANGED <<buy, close>>
     \/ /\ Live(close[p])
        /\ close' = [close EXCEPT ![p].past = TRUE]
        /\ UNCHANGED <<buy, pos>>
     \/ /\ buy[p] = "unseen"
        /\ buy' = [buy EXCEPT ![p] = "past"]
        /\ UNCHANGED <<pos, close>>
  /\ UNCHANGED <<chain, pc, job, seen, trade, landed, told, unlisted>>

CatchesUp(t) ==
  /\ view[t] # account[t]
  /\ view' = [view EXCEPT ![t] = account[t]]
  /\ UNCHANGED <<scene, account, late, adrift, pos, checks, buy, seen, trade, landed, told, unlisted>>

TimesOut(p) ==
  /\ Open(p) /\ p \notin late
  /\ late' = late \cup {p}
  /\ UNCHANGED <<scene, account, view, adrift, pos, checks, buy, seen, trade, landed, told, unlisted>>

-----------------------------------------------------------------------------
(* How a check ends. *)

(* maybe_auto_stop_after_cycle, with the positions as they are then: in     *)
(* single-shot mode nothing open is the end of the cycle.                   *)
AutoStop(p) == running' = (running /\ (scene.autoLoop \/ OpenPools \ {p} # {}))

Done(p) ==
  /\ pc' = [pc EXCEPT ![p] = "idle"]
  /\ job' = [job EXCEPT ![p] = NoJob]
  /\ close' = [close EXCEPT ![p] = None]

(* What is kept of a position that is over is how it ended, and the sell    *)
(* that may still land.                                                     *)
Over(p) ==
  /\ late' = late \ {p}
  /\ landed' = [landed EXCEPT ![p] = 0]

Becomes(p, q) == pos' = [pos EXCEPT ![p] = q]

(* sell_failed, record_sell_failure: tried again after a wait, or given up, *)
(* and buying pauses.                                                       *)
Tried(q, paid) ==
  [q EXCEPT !.tries = @ + 1, !.failures = IF paid THEN @ + 1 ELSE @]
\* Mutant: only failures that cost a fee count.
GivenUpOnPaid(q) == q.failures >= MaxPaid

GivenUp(q) == q.failures >= MaxPaid \/ q.tries >= MaxTries

SellFails(p, q, paid) ==
  LET tried == Tried(q, paid) IN
  /\ \/ /\ GivenUp(tried)
        /\ Becomes(p, [NoPosition EXCEPT !.status = "failed", !.amount = q.amount, !.pending = q.pending])
        /\ sellOnly' = TRUE /\ AutoStop(p) /\ Over(p)
     \/ /\ ~GivenUp(tried)
        /\ Becomes(p, [tried EXCEPT !.status = "active"])
        /\ UNCHANGED <<running, sellOnly, late, landed>>
  /\ Done(p)
  /\ UNCHANGED <<scene, account, view, buy, seen, saved, told, unlisted>>

\* Mutant: a sell that is waited for leaves the position claimed.
WaitsClaimed(p, q) ==
  /\ Becomes(p, q)
  /\ Done(p)
  /\ UNCHANGED <<scene, account, view, late, buy, seen, trade, landed, told, unlisted>>

(* Back to Active, with nothing counted: wait_for_pending, or decided again *)
(* at the next check.                                                       *)
Waits(p, q) ==
  /\ Becomes(p, [q EXCEPT !.status = "active"])
  /\ Done(p)
  /\ UNCHANGED <<scene, account, view, late, buy, seen, trade, landed, told, unlisted>>

(* hold: a close decided before no longer applies. *)
Holds(p, q) == Waits(p, [q EXCEPT !.closing = FALSE])

(* It goes on at another step with what it found. *)
GoesOn(p, step, q, j) ==
  /\ Becomes(p, q)
  /\ pc' = [pc EXCEPT ![p] = step]
  /\ job' = [job EXCEPT ![p] = j]
  /\ UNCHANGED <<scene, account, view, late, buy, seen, trade, landed, told, unlisted>>

(* record_sell_proceeds, sell_succeeded *)
Proceeds(p) ==
  [pos[p] EXCEPT !.total = @ + 1, !.pending = None, !.draining = TRUE, !.failures = 0, !.tries = 0]

-----------------------------------------------------------------------------
(* check_and_sell_positions. *)

Forced(p, level) == p \in late \/ level \in {"thin", "dry"}

ClaimedOnEveryCheck(q) == q.pending # None \/ q.draining \/ ~q.known \/ q.closing

MaySell(q) == q.status = "active" /\ (q.restored => running)

(* Active to Selling in one step, on what the stream or the monitor read of *)
(* the pool; a sell sent before is settled first.  A monitor whose reads    *)
(* fail looks again half a second later, and counts nothing.                *)
ClaimForSell(p) ==
  /\ MaySell(pos[p])
  /\ \E level \in Levels :
       /\ ClaimedOnEveryCheck(pos[p]) \/ Forced(p, level) \/ level = "up"
       /\ GoesOn(p, IF pos[p].pending = None THEN "holding" ELSE "height",
                 [pos[p] EXCEPT !.status = "selling"], [NoJob EXCEPT !.level = level])
  /\ UNCHANGED <<adrift, close>>

(* resolve_pending: the height, then the status. *)
ReadHeight(p) ==
  /\ pc[p] = "height"
  /\ \/ /\ GoesOn(p, "status", pos[p], [job[p] EXCEPT !.past = pos[p].pending.past])
        /\ UNCHANGED close
     \/ May("rpc") /\ SellFails(p, pos[p], FALSE)
  /\ UNCHANGED adrift

\* Mutant: a sell that was not seen is taken for expired.
InFlightNever(p) == FALSE

(* pending_after_unseen, with the height read before. *)
InFlight(p) == ~job[p].past

ReadStatus(p) ==
  /\ pc[p] = "status"
  /\ LET fate == pos[p].pending.fate
         settled == [pos[p] EXCEPT !.pending = None] IN
     \/ /\ fate = "landed"
        /\ GoesOn(p, "holding", Proceeds(p), [job[p] EXCEPT !.past = FALSE])
        /\ UNCHANGED <<adrift, close>>
     \/ fate = "failed" /\ SellFails(p, settled, TRUE) /\ UNCHANGED adrift
     \/ fate = "unseen" /\ InFlight(p) /\ Waits(p, pos[p]) /\ UNCHANGED adrift
     \/ fate = "unseen" /\ ~InFlight(p) /\ SellFails(p, settled, FALSE) /\ LetGo(p, SellOut(p))
     \/ May("rpc") /\ SellFails(p, pos[p], FALSE) /\ UNCHANGED adrift

(* plan_sell, for what is held; what is not worth a sell is burned. *)
Decided(p, q, level) ==
  IF ~q.draining /\ ~Forced(p, level) /\ level # "up" THEN "hold"
  ELSE IF level \in {"dust", "dry"} THEN "burn" ELSE "sell"

(* The wallet's account, and what to do: an account that is not found counts *)
(* for closed only after a close of ours.                                   *)
ReadHolding(p) ==
  /\ pc[p] = "holding"
  /\ \/ /\ Holding(p) # None
        /\ LET q == [pos[p] EXCEPT !.amount = Holding(p), !.known = TRUE]
               plan == Decided(p, q, job[p].level) IN
           \/ Holding(p) = 0 /\ GoesOn(p, "close", q, NoJob) /\ UNCHANGED close
           \/ Holding(p) # 0 /\ plan = "hold" /\ Holds(p, q)
           \/ Holding(p) # 0 /\ plan # "hold" /\ GoesOn(p, plan, q, job[p]) /\ UNCHANGED close
     \/ /\ Holding(p) = None /\ pos[p].closeSent
        /\ GoesOn(p, "close", pos[p], NoJob) /\ UNCHANGED close
     \/ ((Holding(p) = None /\ ~pos[p].closeSent) \/ May("rpc")) /\ SellFails(p, pos[p], FALSE)
  /\ UNCHANGED adrift

(* Tokens are burned only when the plan, on reserves read just now, still   *)
(* says so.                                                                 *)
PlanBurnAgain(p) ==
  /\ pc[p] = "burn"
  /\ \/ \E level \in Levels :
          LET plan == Decided(p, pos[p], level) IN
          \/ /\ plan = "burn"
             /\ GoesOn(p, "close", pos[p], [NoJob EXCEPT !.level = level, !.burn = pos[p].amount])
             /\ UNCHANGED close
          \/ plan = "hold" /\ Holds(p, pos[p])
          \/ plan = "sell" /\ Waits(p, pos[p])
     \/ May("rpc") /\ SellFails(p, pos[p], FALSE)
  /\ UNCHANGED adrift

(* The sell is recorded before it is sent. *)
SendSell(p) ==
  /\ pc[p] = "sell"
  /\ LET sent == [pos[p] EXCEPT !.pending = NewTx] IN
     \/ GoesOn(p, "confirm", sent, NoJob) /\ UNCHANGED close
     \/ May("send") /\ Waits(p, sent)
     \/ (May("refuse") \/ May("rpc")) /\ SellFails(p, pos[p], FALSE)
  /\ UNCHANGED adrift

\* Mutant: a sell that is not confirmed in time is taken for failed.
ConfirmSellForgets(p) ==
  /\ pc[p] = "confirm"
  /\ LET fate == pos[p].pending.fate
         settled == [pos[p] EXCEPT !.pending = None] IN
     \/ fate = "landed" /\ GoesOn(p, "left", Proceeds(p), NoJob) /\ UNCHANGED <<adrift, close>>
     \/ fate = "failed" /\ SellFails(p, settled, TRUE) /\ UNCHANGED adrift
     \/ (fate = "unseen" \/ May("rpc")) /\ SellFails(p, settled, FALSE) /\ LetGo(p, SellOut(p))

(* confirm_transaction; what is not confirmed in time stays pending. *)
ConfirmSell(p) ==
  /\ pc[p] = "confirm"
  /\ LET fate == pos[p].pending.fate IN
     \/ fate = "landed" /\ GoesOn(p, "left", Proceeds(p), NoJob) /\ UNCHANGED close
     \/ fate = "failed" /\ SellFails(p, [pos[p] EXCEPT !.pending = None], TRUE)
     \/ (fate = "unseen" \/ May("rpc")) /\ Waits(p, pos[p])
  /\ UNCHANGED adrift

(* What is left decides what comes next. *)
ReadLeft(p) ==
  /\ pc[p] = "left"
  /\ \/ Holding(p) = 0 /\ GoesOn(p, "close", pos[p], NoJob) /\ UNCHANGED close
     \/ Holding(p) \in 1..Amount /\ Waits(p, [pos[p] EXCEPT !.amount = Holding(p), !.known = TRUE])
     \/ (Holding(p) = None \/ May("rpc")) /\ Waits(p, pos[p])
  /\ UNCHANGED adrift

-----------------------------------------------------------------------------
(* close_position, burn_and_close_ata. *)

CloseStart(p) ==
  CASE Holding(p) = job[p].burn -> "proceed"
    [] Holding(p) = None /\ pos[p].closeSent -> "closed"
    [] OTHER -> "not now"

Ends(p) ==
  /\ Becomes(p, [NoPosition EXCEPT !.status = "closed"])
  /\ AutoStop(p) /\ Over(p)
  /\ Done(p)
  /\ UNCHANGED <<scene, account, view, adrift, buy, seen, sellOnly, saved, told, unlisted>>

\* Mutant: a close that fails drains the position.
CloseFailsDraining(p, paid, sent) ==
  SellFails(p, [pos[p] EXCEPT !.closing = TRUE, !.draining = TRUE, !.closeSent = @ \/ sent], paid)

(* Looked at again on every check, but not drained. *)
CloseFails(p, paid, sent) ==
  SellFails(p, [pos[p] EXCEPT !.closing = TRUE, !.closeSent = @ \/ sent], paid)

SendClose(p) ==
  /\ pc[p] = "close"
  /\ \/ /\ CloseStart(p) = "proceed"
        /\ GoesOn(p, "closing", pos[p], [NoJob EXCEPT !.burn = job[p].burn])
        /\ close' = [close EXCEPT ![p] = NewTx]
        /\ UNCHANGED adrift
     \/ /\ CloseStart(p) = "proceed" /\ May("send")
        /\ CloseFails(p, FALSE, TRUE)
        /\ LetGo(p, Out(p, "close", job[p].burn, NewTx))
     \/ CloseStart(p) = "closed" /\ Ends(p)
     \/ /\ CloseStart(p) = "not now" \/ May("refuse") \/ May("rpc")
        /\ CloseFails(p, FALSE, FALSE)
        /\ UNCHANGED adrift

\* Mutant: a close that is not confirmed in time is taken for landed.
ConfirmCloseHopes(p) ==
  /\ pc[p] = "closing"
  /\ \/ close[p].fate \in {"landed", "unseen"} /\ Ends(p)
     \/ close[p].fate = "failed" /\ CloseFails(p, TRUE, FALSE) /\ UNCHANGED adrift

ConfirmClose(p) ==
  /\ pc[p] = "closing"
  /\ \/ close[p].fate = "landed" /\ Ends(p)
     \/ close[p].fate = "failed" /\ CloseFails(p, TRUE, FALSE) /\ UNCHANGED adrift
     \/ /\ close[p].fate = "unseen" \/ May("rpc")
        /\ CloseFails(p, FALSE, TRUE)
        /\ LetGo(p, CloseOut(p))

-----------------------------------------------------------------------------
(* handle_new_pool, buy_new_pool. *)

\* Mutants: a position given up does not count; a buy under way does not.
TokenIsFreeOfOpen(p) ==
  \A o \in Pools : Token(o) = Token(p) => ~Open(o) /\ buy[o] = "none"
SlotIsFreeOfOpen == Cardinality(OpenPools) < MaxPositions

(* reserve_buy *)
TokenIsFree(p) ==
  \A o \in Pools : Token(o) = Token(p) =>
    pos[o].status \in {"none", "closed"} /\ buy[o] = "none"
SlotIsFree == Cardinality(OpenPools) + Cardinality(Buying) < MaxPositions

Buy(p, step) ==
  /\ buy' = [buy EXCEPT ![p] = step]
  /\ UNCHANGED <<checks, trade>>

NewPool(p) ==
  /\ running /\ ~sellOnly
  /\ p \notin seen /\ TokenIsFree(p) /\ SlotIsFree
  /\ seen' = seen \cup {p}
  /\ Buy(p, "prepare")
  /\ UNCHANGED <<chain, pos, landed, told, unlisted>>

(* It is signed and sent, or given up before: too little SOL, a pool that   *)
(* is not wanted, a read that fails, a simulation that refuses it.          *)
SendBuy(p) ==
  /\ buy[p] = "prepare"
  /\ Buy(p, "unseen") \/ Buy(p, "none")
  /\ UNCHANGED <<chain, pos, seen, landed, told, unlisted>>

\* Mutant: a buy the RPC could not tell of is left.
SettleBuyLeaves(p) ==
  /\ \/ buy[p] = "landed" /\ Buy(p, "open")
     \/ buy[p] \in {"failed", "past"} /\ Buy(p, "none")
     \/ buy[p] \in {"landed", "failed"} /\ May("rpc") /\ Buy(p, "none")
  /\ UNCHANGED <<chain, pos, seen, landed, told, unlisted>>

(* settle_buy; the wallet decides when it was not seen, or when the RPC     *)
(* could not say in time, which is longer than a blockhash lasts.           *)
SettleBuy(p) ==
  /\ \/ buy[p] = "landed" /\ Buy(p, "open")
     \/ buy[p] = "failed" /\ Buy(p, "none")
     \/ buy[p] = "past" /\ Buy(p, "wallet")
     \/ buy[p] \in {"landed", "failed"} /\ May("rpc") /\ Buy(p, "wallet")
  /\ UNCHANGED <<chain, pos, seen, landed, told, unlisted>>

ReadWallet(p) ==
  /\ buy[p] = "wallet"
  /\ \/ Holding(p) \in 1..Amount /\ Buy(p, "open") /\ UNCHANGED told
     \/ /\ Holding(p) \notin 1..Amount \/ May("rpc")
        /\ Buy(p, "none") /\ told' = told \cup {Token(p)}
  /\ UNCHANGED <<chain, pos, seen, landed, unlisted>>

(* The position is recorded, from what the chain shows or as estimated. *)
OpenPosition(p) ==
  /\ buy[p] = "open"
  /\ \/ Holding(p) \in 1..Amount /\ Becomes(p, Opened(Holding(p), TRUE, FALSE))
     \/ (Holding(p) \notin 1..Amount \/ May("rpc")) /\ Becomes(p, Opened(Amount, FALSE, FALSE))
  /\ Buy(p, "none")
  /\ told' = told \ {Token(p)} /\ unlisted' = unlisted \ {Token(p)}
  /\ UNCHANGED <<chain, seen, landed>>

-----------------------------------------------------------------------------
(* The operator, and the app itself. *)

(* post_trade_start, post_trade_stop; saved by a task of its own, which may *)
(* fail.                                                                    *)
Switch(w) ==
  /\ May("manual")
  /\ running' = (w # "stopped")
  /\ IF w = "stopped" THEN UNCHANGED sellOnly ELSE sellOnly' = (w = "sell_only")
  /\ saved' \in {w, saved}
  /\ UNCHANGED <<chain, pos, checks, buy, seen, landed, told, unlisted>>

(* The app stops, with all it kept in memory, and starts again: trading is  *)
(* taken up as it was saved, and what the wallet holds becomes positions,   *)
(* with their value then as the baseline.  A token with no pool that can be *)
(* read is named and left.  The accounts are listed for each of two token   *)
(* programs; when that fails, none of its tokens is taken up or named.      *)
LeftOut(p) == Out(p, "buy", 0, BuyTx(p)) \cup SellOut(p) \cup CloseOut(p)

Settled ==
  /\ view = account
  /\ \A t \in Tokens : adrift[t] = {}
  /\ \A p \in Pools : LeftOut(p) = {}

HeldTokens == {t \in Tokens : view[t] \in 1..Amount}

TakenUp ==
  {P \in SUBSET Pools : \A p \in P :
     /\ Holding(p) \in 1..Amount
     /\ \A o \in P \ {p} : Token(o) # Token(p)}

Restart ==
  /\ May("restart") /\ ("quick" \in Races \/ Settled)
  /\ running' = (saved # "stopped") /\ sellOnly' = (saved = "sell_only")
  /\ \E P \in TakenUp :
       /\ pos' = [p \in Pools |-> IF p \in P THEN Opened(Holding(p), TRUE, TRUE) ELSE NoPosition]
       /\ unlisted' \in SUBSET (HeldTokens \ {Token(p) : p \in P})
       /\ told' = HeldTokens \ ({Token(p) : p \in P} \cup unlisted')
       /\ May("rpc") \/ (unlisted' = {} /\ told' \cap {Token(p) : p \in Pools} = {})
  /\ adrift' = [t \in Tokens |-> adrift[t] \cup UNION {LeftOut(p) : p \in {q \in Pools : Token(q) = t}}]
  /\ pc' = [p \in Pools |-> "idle"] /\ job' = [p \in Pools |-> NoJob]
  /\ close' = [p \in Pools |-> None]
  /\ buy' = [p \in Pools |-> "none"] /\ seen' = {}
  /\ late' = {}
  /\ landed' = [p \in Pools |-> 0]
  /\ UNCHANGED <<scene, account, view, saved>>

-----------------------------------------------------------------------------
Selling(p) ==
  \/ ReadHeight(p) \/ ReadStatus(p) \/ ReadHolding(p) \/ PlanBurnAgain(p)
  \/ SendSell(p) \/ ConfirmSell(p) \/ ReadLeft(p) \/ SendClose(p) \/ ConfirmClose(p)

Check(p) == ClaimForSell(p) \/ Selling(p)

BuyStep(p) == SendBuy(p) \/ SettleBuy(p) \/ ReadWallet(p) \/ OpenPosition(p)

World ==
  \/ \E p \in Pools : SellLands(p) \/ CloseLands(p) \/ BuyLands(p) \/ Past(p) \/ TimesOut(p)
  \/ \E t \in Tokens : AdriftLands(t) \/ CatchesUp(t)

Next ==
  \/ \E p \in Pools : Check(p) \/ NewPool(p) \/ BuyStep(p)
  \/ \E w \in Wanted : Switch(w)
  \/ World \/ Restart

Spec == Init /\ [][Next]_vars

(* A check that has begun goes on, and the chain's height grows.  Nothing   *)
(* makes a transaction land, a price move, an operator act or a check begin. *)
FairSpec ==
  /\ Spec
  /\ \A p \in Pools : WF_vars(Selling(p)) /\ WF_vars(Past(p))

(* The monitor of p's position: in the end a poll of it reads the pool, and  *)
(* claims what is due whatever the price.  Its reads may fail on each poll.  *)
Due(p) == p \in late \/ ClaimedOnEveryCheck(pos[p])
PollsGetThrough(p) == WF_vars(Due(p) /\ ClaimForSell(p))

-----------------------------------------------------------------------------
TypeOK ==
  /\ scene \in Scenes
  /\ account \in [Tokens -> Account] /\ view \in [Tokens -> Account]
  /\ late \subseteq Pools
  /\ pos \in [Pools -> Position]
  /\ pc \in [Pools -> Steps]
  /\ job \in [Pools -> [level : Levels, past : BOOLEAN, burn : Held]]
  /\ close \in [Pools -> Sent \cup {None}]
  /\ buy \in [Pools -> Buys] /\ seen \subseteq Pools
  /\ adrift \in [Tokens -> SUBSET Drift]
  /\ running \in BOOLEAN /\ sellOnly \in BOOLEAN /\ saved \in Wanted
  /\ landed \in [Pools -> Nat] /\ told \subseteq Tokens /\ unlisted \subseteq Tokens

PoolsOf(t) == {p \in Pools : Token(p) = t}

(* README: "Nothing new is signed while an earlier sell can still land."    *)
OneSellAtATime == \A t \in Tokens :
  Cardinality({p \in PoolsOf(t) : Live(pos[p].pending)})
    + Cardinality({d \in adrift[t] : d.kind = "sell"}) <= 1

(* One account serves every position in a token: two that are not closed    *)
(* would sell each other's tokens.                                          *)
OnePositionPerToken == \A t \in Tokens :
  Cardinality({p \in PoolsOf(t) : pos[p].status \notin {"none", "closed"} \/ buy[p] # "none"}) <= 1

(* Tokens in the wallet are followed, or the operator was told of them.      *)
(* Excepted are those whose accounts the last start could not list, until    *)
(* they are bought again: it warns of the token program and names no token.  *)
NothingStranded == \A t \in Tokens :
  account[t] \in 1..Amount =>
    \/ t \in told \cup unlisted
    \/ \E p \in PoolsOf(t) : pos[p].status \in {"active", "selling", "failed"} \/ buy[p] # "none"

(* What was bought and is open, and what is being bought, stay within        *)
(* max_positions; what a restart takes up may be more.                      *)
WithinSlots == Cardinality({p \in OpenPools : ~pos[p].restored}) + Cardinality(Buying) <= MaxPositions

Closes(p) == pos[p].status # "closed" /\ pos'[p].status = "closed"

(* A position ends only when its account is gone. *)
ClosedIsGone == [][\A p \in Pools : Closes(p) => account[Token(p)] = None]_vars

(* And with what each sell that landed brought in counted. *)
ProceedsAreCounted == [][\A p \in Pools : Closes(p) => pos[p].total = landed[p]]_vars

(* README: "a position drains only after a sell of it landed": it is sold,   *)
(* or burned, below its target only when it is forced out or a sell of it    *)
(* landed.                                                                   *)
TargetIsKept == [][\A p \in Pools :
  (pc[p] \in {"sell", "close"} /\ pc'[p] \in {"confirm", "closing"} /\ pos[p].amount # 0)
    => landed[p] > 0 \/ p \in late \/ job[p].level \in {"up", "thin", "dry"}]_vars

TurnsOver(p) ==
  /\ pc[p] = "burn" /\ pc'[p] = "idle"
  /\ pos'[p].status = "active" /\ pos'[p].tries = pos[p].tries

(* A position that timed out ends, or is given up, provided that polls of    *)
(* its pool get through -- the monitor counts no failing read, so a pool that *)
(* can never be read keeps its position and its slot -- and unless what a    *)
(* burn was decided on is over again and again when the pool is read a       *)
(* second time.                                                              *)
EndsOnceLate == \A p \in Pools :
  (<>[][~TurnsOver(p)]_vars /\ PollsGetThrough(p)) =>
    ((p \in late /\ Open(p) /\ ~pos[p].restored) ~> ~(p \in late /\ Open(p)))
=============================================================================
