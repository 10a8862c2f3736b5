--------------------------- MODULE TradingProofs ---------------------------
(***************************************************************************)
(* Theorems of Trading.  A check moves one position at a time; Outcome     *)
(* says what it may make of it, whatever the check found, and the          *)
(* invariants are shown from that.                                         *)
(***************************************************************************)
EXTENDS Trading, FiniteSetTheorems, TLAPS

Jobs == [level : Levels, past : BOOLEAN, burn : Held]

(* A sell of the position that landed and is not counted yet. *)
Unread(q) == IF q.pending # None /\ q.pending.fate = "landed" THEN 1 ELSE 0

(* A position that is over, or was never there, has nothing of one. *)
Blank(q) == q.pending = None /\ ~q.closeSent /\ ~q.draining /\ q.total = 0

Taken(p) == pos[p].status \notin {"none", "closed"} \/ buy[p] # "none"

(* A check and its position fit together. *)
Fits(p) ==
  /\ pc[p] # "idle" <=> pos[p].status = "selling"
  /\ pc[p] \in {"height", "status", "confirm"} => pos[p].pending # None
  /\ pc[p] \in {"holding", "burn", "sell", "left", "close", "closing"} => pos[p].pending = None
  /\ close[p] # None <=> pc[p] = "closing"
  /\ pc[p] = "status" /\ job[p].past => pos[p].pending.past
  /\ pos[p].status \in {"none", "closed"} => Blank(pos[p])
  /\ pos[p].draining => pos[p].total > 0
  /\ pc[p] = "left" => pos[p].draining
  /\ buy[p] # "none" => pos[p].status \in {"none", "closed"}

Apart == \A p, o \in Pools : Token(p) = Token(o) /\ Taken(p) /\ Taken(o) => p = o

FitsInv == TypeOK /\ (\A p \in Pools : Fits(p)) /\ Apart

-----------------------------------------------------------------------------
(* What a check may make of its position. *)

(* Below its target only when forced, or when a sell of it landed; or its   *)
(* account is gone.                                                         *)
Decides(p, q, x, j) ==
  /\ x = "sell" => q.draining \/ p \in late \/ j.level \in {"up", "thin", "dry"}
  /\ x = "close" =>
       \/ q.amount = 0 \/ q.draining \/ p \in late \/ j.level \in {"up", "thin", "dry"}
       \/ view[Token(p)] = None /\ q.closeSent

Moved(p, q, x, j, k) ==
  /\ pos' = [pos EXCEPT ![p] = q] /\ pc' = [pc EXCEPT ![p] = x]
  /\ job' = [job EXCEPT ![p] = j] /\ close' = [close EXCEPT ![p] = k]
  /\ running' \in BOOLEAN /\ sellOnly' \in BOOLEAN
  /\ UNCHANGED <<scene, account, view, buy, seen, saved, told, unlisted>>

After(p, q, x, j, k) ==
  /\ pos[p].status \in {"active", "selling"}
  /\ q.status \in {"active", "selling", "closed", "failed"}
  /\ x # "idle" <=> q.status = "selling"
  /\ x \in {"height", "status", "confirm"} => q.pending # None
  /\ x \in {"holding", "burn", "sell", "left", "close", "closing"} => q.pending = None
  /\ x # "closing" => k = None
  /\ x = "closing" => k = NewTx /\ pc[p] = "close" /\ view[Token(p)] # None
  /\ x = "status" /\ j.past => q.pending.past
  /\ q.status = "closed" =>
       /\ Blank(q) /\ pc[p] \in {"close", "closing"}
       /\ \/ view[Token(p)] = None /\ pos[p].closeSent
          \/ pc[p] = "closing" /\ close[p].fate = "landed"
  /\ q.draining => q.total > 0
  /\ q.status \in {"active", "selling"} => q.restored = pos[p].restored
  /\ x = "left" => q.draining
  /\ q.closeSent => pos[p].closeSent \/ pc[p] = "closing" \/ view[Token(p)] # None
  /\ Decides(p, q, x, j)

(* Sells are counted once, and never let go. *)
Counts(p, q) ==
  IF q.status \in {"closed", "failed"}
  THEN late' = late \ {p} /\ landed' = [landed EXCEPT ![p] = 0]
  ELSE /\ late' = late /\ landed' = landed
       /\ q.total + Unread(q) = pos[p].total + Unread(pos[p])

LetsGoCloses(p) ==
  \E D \in SUBSET {d \in Drift : d.kind = "close"} :
    adrift' = [adrift EXCEPT ![Token(p)] = @ \cup D]

Outcome(p) ==
  /\ LetsGoCloses(p)
  /\ \E q \in Position, x \in Steps, j \in Jobs, k \in Sent \cup {None} :
       Moved(p, q, x, j, k) /\ After(p, q, x, j, k) /\ Counts(p, q)

(* What a check knows of the position it is about to leave. *)
Sound(p, q) ==
  /\ q \in Position
  /\ pos[p].status \in {"active", "selling"}
  /\ q.draining => q.total > 0
  /\ q.closeSent => pos[p].closeSent \/ pc[p] = "closing" \/ view[Token(p)] # None
  /\ q.restored = pos[p].restored
  /\ q.total + Unread(q) = pos[p].total + Unread(pos[p])

-----------------------------------------------------------------------------
LEMMA TokenType ==
  ASSUME TypeOK, NEW p \in Pools
  PROVE  Token(p) \in Tokens /\ Holding(p) \in Account /\ view[Token(p)] = Holding(p)
<1>1. scene \in Scene
  BY TradingAssumption DEF TypeOK
<1>2. scene.token \in [Pools -> Tokens]
  BY <1>1 DEF Scene
<1>3. view \in [Tokens -> Account]
  BY DEF TypeOK
<1> QED BY <1>2, <1>3 DEF Token, Holding

LEMMA NothingLetGo ==
  ASSUME TypeOK, NEW p \in Pools, UNCHANGED adrift
  PROVE  LetsGoCloses(p)
<1>1. adrift \in [Tokens -> SUBSET Drift]
  BY DEF TypeOK
<1>2. adrift' = [adrift EXCEPT ![Token(p)] = @ \cup {}]
  BY <1>1
<1> QED BY <1>2 DEF LetsGoCloses

LEMMA Bounds ==
  /\ Amount \in Nat /\ Amount > 0 /\ MaxPositions \in Nat
  /\ MaxPaid \in Nat \ {0} /\ MaxTries \in Nat \ {0}
  /\ Held \subseteq Nat /\ 0 \in Held /\ Amount \in Held
  /\ None \notin Held /\ None \notin Sent
  BY TradingAssumption DEF Held

LEMMA NewTxType == NewTx \in Sent /\ NewTx # None /\ NewTx.fate = "unseen" /\ ~NewTx.past
<1>1. NewTx \in Sent
  BY DEF NewTx, Sent, Fates
<1>2. None \notin Sent
  BY Bounds
<1> QED BY <1>1, <1>2 DEF NewTx

LEMMA NoJobType == NoJob \in Jobs
  BY Bounds DEF NoJob, Jobs, Levels

LEMMA NoPositionType == NoPosition \in Position /\ Blank(NoPosition)
  BY Bounds DEF NoPosition, Position, Statuses, Blank

LEMMA FailsOutcome ==
  ASSUME TypeOK, NEW p \in Pools, NEW q, Sound(p, q), NEW paid \in BOOLEAN,
         SellFails(p, q, paid), LetsGoCloses(p)
  PROVE  Outcome(p)
<1> DEFINE tried == Tried(q, paid)
           over == [NoPosition EXCEPT !.status = "failed", !.amount = q.amount, !.pending = q.pending]
           again == [tried EXCEPT !.status = "active"]
<1>1. Done(p) /\ UNCHANGED <<scene, account, view, buy, seen, saved, told, unlisted>>
  BY DEF SellFails
<1>2. NoJob \in Jobs
  BY NoJobType
<1>3. running \in BOOLEAN /\ sellOnly \in BOOLEAN
  BY DEF TypeOK
<1>4. q.amount \in Held /\ q.pending \in Sent \cup {None} /\ q.failures \in 0..MaxPaid
      /\ q.tries \in 0..MaxTries /\ q.total \in Nat
  BY DEF Sound, Position
<1>5. MaxPaid \in Nat /\ MaxTries \in Nat
  BY TradingAssumption
<1>6. CASE /\ GivenUp(tried)
           /\ Becomes(p, over) /\ sellOnly' = TRUE /\ AutoStop(p) /\ Over(p)
  <2>1. over \in Position /\ over.status = "failed" /\ ~over.draining /\ ~over.closeSent
    BY <1>4, NoPositionType DEF NoPosition, Position, Statuses
  <2>2. running' \in BOOLEAN
    BY <1>3, <1>6 DEF AutoStop
  <2>3. Moved(p, over, "idle", NoJob, None)
    BY <1>1, <1>6, <2>2 DEF Moved, Becomes, Done
  <2>4. After(p, over, "idle", NoJob, None)
    BY <2>1 DEF After, Sound, Decides
  <2>5. Counts(p, over)
    BY <1>6, <2>1 DEF Counts, Over
  <2> QED BY <1>2, <2>1, <2>3, <2>4, <2>5 DEF Outcome, Steps
<1>7. CASE /\ ~GivenUp(tried)
           /\ Becomes(p, again) /\ UNCHANGED <<running, sellOnly, late, landed>>
  <2>1. tried.tries \in Nat /\ tried.failures \in Nat /\ ~(tried.failures >= MaxPaid)
        /\ ~(tried.tries >= MaxTries)
    BY <1>4, <1>5, <1>7 DEF GivenUp, Tried, Sound, Position
  <2>2. tried.tries \in 0..MaxTries /\ tried.failures \in 0..MaxPaid
    BY <2>1, <1>5
  <2>3. tried = [q EXCEPT !.tries = tried.tries, !.failures = tried.failures]
    BY DEF Tried, Sound, Position
  <2>4. again = [q EXCEPT !.tries = tried.tries, !.failures = tried.failures, !.status = "active"]
    BY <2>3
  <2>5. /\ again \in Position /\ again.status = "active" /\ again.draining = q.draining
        /\ again.closeSent = q.closeSent /\ again.total = q.total /\ again.pending = q.pending
        /\ again.restored = q.restored
    BY <2>2, <2>4 DEF Sound, Position, Statuses
  <2>6. Moved(p, again, "idle", NoJob, None)
    BY <1>1, <1>3, <1>7 DEF Moved, Becomes, Done
  <2>7. After(p, again, "idle", NoJob, None)
    BY <2>5 DEF After, Sound, Decides
  <2>8. Counts(p, again)
    BY <1>7, <2>5 DEF Counts, Sound, Unread
  <2> QED BY <1>2, <2>5, <2>6, <2>7, <2>8 DEF Outcome, Steps
<1> QED BY <1>6, <1>7 DEF SellFails

LEMMA WaitsOutcome ==
  ASSUME TypeOK, NEW p \in Pools, NEW q, Sound(p, q), Waits(p, q), UNCHANGED adrift
  PROVE  Outcome(p)
<1> DEFINE again == [q EXCEPT !.status = "active"]
<1>1. /\ again \in Position /\ again.status = "active" /\ again.draining = q.draining
      /\ again.closeSent = q.closeSent /\ again.total = q.total /\ again.pending = q.pending
      /\ again.restored = q.restored
  BY DEF Sound, Position, Statuses
<1>2. running \in BOOLEAN /\ sellOnly \in BOOLEAN
  BY DEF TypeOK
<1>3. Moved(p, again, "idle", NoJob, None)
  BY <1>2 DEF Waits, Moved, Becomes, Done, trade
<1>4. After(p, again, "idle", NoJob, None)
  BY <1>1 DEF After, Sound, Decides
<1>5. Counts(p, again)
  BY <1>1 DEF Counts, Sound, Unread, Waits
<1>6. LetsGoCloses(p)
  BY NothingLetGo
<1> QED BY <1>1, <1>3, <1>4, <1>5, <1>6, NoJobType DEF Outcome, Steps

LEMMA HoldsOutcome ==
  ASSUME TypeOK, NEW p \in Pools, NEW q, Sound(p, q), Holds(p, q), UNCHANGED adrift
  PROVE  Outcome(p)
<1> DEFINE held == [q EXCEPT !.closing = FALSE]
<1>1. Sound(p, held)
  BY DEF Sound, Position, Unread
<1> QED BY <1>1, WaitsOutcome DEF Holds

(* A check that goes on to another step, not waiting for a close. *)
LEMMA GoesOnOutcome ==
  ASSUME TypeOK, NEW p \in Pools, NEW q, NEW x \in Steps \ {"idle", "closing"}, NEW j \in Jobs,
         Fits(p), pc[p] # "closing",
         Sound(p, q), q.status = "selling", GoesOn(p, x, q, j), UNCHANGED <<adrift, close>>,
         x \in {"height", "status", "confirm"} => q.pending # None,
         x \in {"holding", "burn", "sell", "left", "close"} => q.pending = None,
         x = "status" /\ j.past => q.pending.past,
         x = "left" => q.draining,
         Decides(p, q, x, j)
  PROVE  Outcome(p)
<1>1. running \in BOOLEAN /\ sellOnly \in BOOLEAN
  BY DEF TypeOK
<1>2. close' = [close EXCEPT ![p] = None]
  BY DEF TypeOK, Fits
<1>3. Moved(p, q, x, j, None)
  BY <1>1, <1>2 DEF GoesOn, Moved, Becomes, trade
<1>4. After(p, q, x, j, None)
  BY DEF After, Sound
<1>5. Counts(p, q)
  BY DEF Counts, Sound, GoesOn
<1>6. LetsGoCloses(p)
  BY NothingLetGo
<1> QED BY <1>3, <1>4, <1>5, <1>6 DEF Outcome, Sound

LEMMA EndsOutcome ==
  ASSUME TypeOK, NEW p \in Pools, Fits(p), Ends(p), pc[p] \in {"close", "closing"},
         \/ view[Token(p)] = None /\ pos[p].closeSent
         \/ pc[p] = "closing" /\ close[p].fate = "landed"
  PROVE  Outcome(p)
<1> DEFINE over == [NoPosition EXCEPT !.status = "closed"]
<1>1. /\ over \in Position /\ over.status = "closed" /\ Blank(over)
  BY NoPositionType DEF NoPosition, Position, Statuses, Blank
<1>2. running' \in BOOLEAN /\ sellOnly' \in BOOLEAN
  BY DEF TypeOK, Ends, AutoStop
<1>3. Moved(p, over, "idle", NoJob, None)
  BY <1>2 DEF Ends, Moved, Becomes, Done
<1>4. After(p, over, "idle", NoJob, None)
  BY <1>1 DEF After, Decides, Fits, Blank
<1>5. Counts(p, over)
  BY <1>1 DEF Counts, Ends, Over
<1>6. LetsGoCloses(p)
  BY NothingLetGo DEF Ends
<1> QED BY <1>1, <1>3, <1>4, <1>5, <1>6, NoJobType DEF Outcome, Steps

-----------------------------------------------------------------------------
(* Each step of a check has such an outcome. *)

LEMMA SoundAsItWas ==
  ASSUME TypeOK, NEW p \in Pools, Fits(p), pc[p] # "idle"
  PROVE  /\ Sound(p, pos[p]) /\ pos[p].status = "selling" /\ job[p] \in Jobs
         /\ Holding(p) \in Account
<1>1. pos[p] \in Position /\ job[p] \in Jobs
  BY DEF TypeOK, Jobs
<1> QED BY <1>1, TokenType DEF Fits, Sound

LEMMA ClaimOutcome ==
  ASSUME TypeOK, NEW p \in Pools, Fits(p), ClaimForSell(p)
  PROVE  Outcome(p)
<1> DEFINE q == [pos[p] EXCEPT !.status = "selling"]
           x == IF pos[p].pending = None THEN "holding" ELSE "height"
<1>1. PICK level \in Levels : GoesOn(p, x, q, [NoJob EXCEPT !.level = level])
  BY DEF ClaimForSell
<1> DEFINE j == [NoJob EXCEPT !.level = level]
<1>2. pos[p] \in Position /\ pos[p].status = "active"
  BY DEF TypeOK, ClaimForSell, MaySell
<1>3. Sound(p, q) /\ q.status = "selling" /\ q.pending = pos[p].pending
  BY <1>2 DEF Sound, Position, Statuses, Unread, Fits
<1>4. j \in Jobs
  BY NoJobType DEF NoJob, Jobs
<1>5. pc[p] # "closing"
  BY <1>2 DEF Fits
<1>6. UNCHANGED <<adrift, close>>
  BY DEF ClaimForSell
<1>7. x \in Steps \ {"idle", "closing"} /\ x \in {"holding", "height"}
  BY DEF Steps
<1>8. Decides(p, q, x, j)
  BY <1>7 DEF Decides
<1>9. x = "height" => q.pending # None
  BY <1>3
<1>10. x = "holding" => q.pending = None
  BY <1>3
<1> HIDE DEF q, x, j
<1> QED BY <1>1, <1>3, <1>4, <1>5, <1>6, <1>7, <1>8, <1>9, <1>10, GoesOnOutcome DEF j

LEMMA HeightOutcome ==
  ASSUME TypeOK, NEW p \in Pools, Fits(p), ReadHeight(p)
  PROVE  Outcome(p)
<1> DEFINE j == [job[p] EXCEPT !.past = pos[p].pending.past]
<1>1. /\ Sound(p, pos[p]) /\ pos[p].status = "selling" /\ job[p] \in Jobs
  BY SoundAsItWas DEF ReadHeight
<1>2. CASE GoesOn(p, "status", pos[p], j) /\ UNCHANGED <<adrift, close>>
  <2>1. pos[p].pending # None /\ pos[p].pending \in Sent
    BY <1>1 DEF Fits, ReadHeight, Sound, Position
  <2>2. j \in Jobs /\ j.past = pos[p].pending.past
    BY <1>1, <2>1 DEF Jobs, Sent
  <2>3. Decides(p, pos[p], "status", j) /\ "status" \in Steps /\ pc[p] # "closing"
    BY DEF Decides, Steps, ReadHeight
  <2> HIDE DEF j
  <2> QED BY <1>1, <1>2, <2>1, <2>2, <2>3, GoesOnOutcome
<1>3. CASE SellFails(p, pos[p], FALSE) /\ UNCHANGED adrift
  BY <1>1, <1>3, NothingLetGo, FailsOutcome
<1> QED BY <1>2, <1>3 DEF ReadHeight

(* Counting a sell that landed. *)
LEMMA ProceedsSound ==
  ASSUME TypeOK, NEW p \in Pools, Fits(p), pc[p] \in {"status", "confirm"},
         pos[p].pending.fate = "landed"
  PROVE  /\ Sound(p, Proceeds(p)) /\ Proceeds(p).status = "selling"
         /\ Proceeds(p).pending = None /\ Proceeds(p).draining
<1>1. Sound(p, pos[p]) /\ pos[p].status = "selling" /\ pos[p].pending # None
  BY SoundAsItWas DEF Fits
<1>2. Unread(pos[p]) = 1
  BY <1>1 DEF Unread
<1>3. Proceeds(p) \in Position
  <2>1. pos[p].total \in Nat /\ pos[p] \in Position
    BY <1>1 DEF Sound, Position
  <2>2. 0 \in 0..MaxPaid /\ 0 \in 0..MaxTries /\ pos[p].total + 1 \in Nat
    BY <2>1, Bounds
  <2> QED BY <2>1, <2>2 DEF Proceeds, Position
<1>4. /\ Proceeds(p).total = pos[p].total + 1 /\ Proceeds(p).pending = None /\ Proceeds(p).draining
      /\ Proceeds(p).status = "selling" /\ Proceeds(p).closeSent = pos[p].closeSent
      /\ Proceeds(p).restored = pos[p].restored
  BY <1>1 DEF Proceeds, Sound, Position
<1>5. pos[p].total \in Nat
  BY <1>1 DEF Sound, Position
<1> QED BY <1>1, <1>2, <1>3, <1>4, <1>5 DEF Sound, Unread

(* Forgetting a sell that did not land. *)
LEMMA SettledSound ==
  ASSUME TypeOK, NEW p \in Pools, Fits(p), pc[p] \in {"status", "confirm"},
         pos[p].pending.fate # "landed"
  PROVE  Sound(p, [pos[p] EXCEPT !.pending = None])
<1>1. Sound(p, pos[p]) /\ pos[p].status = "selling" /\ pos[p].pending # None
  BY SoundAsItWas DEF Fits
<1> QED BY <1>1 DEF Sound, Unread, Position

LEMMA StatusOutcome ==
  ASSUME TypeOK, NEW p \in Pools, Fits(p), ReadStatus(p)
  PROVE  Outcome(p)
<1> DEFINE settled == [pos[p] EXCEPT !.pending = None]
           j == [job[p] EXCEPT !.past = FALSE]
<1>1. /\ Sound(p, pos[p]) /\ pos[p].status = "selling" /\ job[p] \in Jobs
  BY SoundAsItWas DEF ReadStatus
<1>2. pc[p] = "status"
  BY DEF ReadStatus
<1>3. CASE pos[p].pending.fate = "landed" /\ GoesOn(p, "holding", Proceeds(p), j) /\ UNCHANGED <<adrift, close>>
  <2>1. j \in Jobs
    BY <1>1 DEF Jobs
  <2>2. Decides(p, Proceeds(p), "holding", j) /\ "holding" \in Steps
    BY DEF Decides, Steps
  <2>3. /\ Sound(p, Proceeds(p)) /\ Proceeds(p).status = "selling" /\ Proceeds(p).pending = None
    BY <1>2, <1>3, ProceedsSound
  <2> HIDE DEF j
  <2> QED BY <1>2, <1>3, <2>1, <2>2, <2>3, GoesOnOutcome
<1>4. CASE pos[p].pending.fate = "failed" /\ SellFails(p, settled, TRUE) /\ UNCHANGED adrift
  <2>1. Sound(p, settled)
    BY <1>2, <1>4, SettledSound
  <2> HIDE DEF settled
  <2> QED BY <1>4, <2>1, NothingLetGo, FailsOutcome
<1>5. CASE Waits(p, pos[p]) /\ UNCHANGED adrift
  BY <1>1, <1>5, WaitsOutcome
<1>6. CASE pos[p].pending.fate = "unseen" /\ ~InFlight(p) /\ SellFails(p, settled, FALSE) /\ LetGo(p, SellOut(p))
  <2>1. Sound(p, settled)
    BY <1>2, <1>6, SettledSound
  <2>2. job[p].past
    BY <1>1, <1>6 DEF InFlight, Jobs
  <2>3. pos[p].pending.past
    BY <2>2, <1>2 DEF Fits
  <2>4. SellOut(p) = {}
    BY <2>3 DEF SellOut, Out, Live
  <2>5. LetsGoCloses(p)
    BY <1>6, <2>4 DEF LetGo, LetsGoCloses
  <2> HIDE DEF settled
  <2> QED BY <1>6, <2>1, <2>5, FailsOutcome
<1>7. CASE SellFails(p, pos[p], FALSE) /\ UNCHANGED adrift
  BY <1>1, <1>7, NothingLetGo, FailsOutcome
<1> QED BY <1>3, <1>4, <1>5, <1>6, <1>7 DEF ReadStatus

LEMMA DecidedFits ==
  ASSUME NEW p \in Pools, NEW q, NEW level \in Levels
  PROVE  /\ Decided(p, q, level) \in {"hold", "burn", "sell"}
         /\ Decided(p, q, level) # "hold" => q.draining \/ p \in late \/ level \in {"up", "thin", "dry"}
  BY DEF Decided, Forced

LEMMA HoldingOutcome ==
  ASSUME TypeOK, NEW p \in Pools, Fits(p), ReadHolding(p)
  PROVE  Outcome(p)
<1> DEFINE q == [pos[p] EXCEPT !.amount = Holding(p), !.known = TRUE]
           plan == Decided(p, q, job[p].level)
<1>1. /\ Sound(p, pos[p]) /\ pos[p].status = "selling" /\ job[p] \in Jobs /\ Holding(p) \in Account
  BY SoundAsItWas DEF ReadHolding
<1>2. pc[p] = "holding" /\ pos[p].pending = None
  BY DEF ReadHolding, Fits
<1>3. CASE Holding(p) # None
  <2>1. Holding(p) \in Held
    BY <1>1, <1>3 DEF Account
  <2>2. /\ Sound(p, q) /\ q.status = "selling" /\ q.pending = None /\ q.amount = Holding(p)
    BY <1>1, <1>2, <2>1 DEF Sound, Position, Unread
  <2>3. job[p].level \in Levels
    BY <1>1 DEF Jobs
  <2> HIDE DEF q
  <2>4. CASE Holding(p) = 0 /\ GoesOn(p, "close", q, NoJob) /\ UNCHANGED <<adrift, close>>
    <3>1. Decides(p, q, "close", NoJob) /\ "close" \in Steps
      BY <2>2, <2>4 DEF Decides, Steps
    <3> QED BY <1>2, <2>2, <2>4, <3>1, NoJobType, GoesOnOutcome
  <2>5. CASE Holds(p, q) /\ UNCHANGED adrift
    BY <2>2, <2>5, HoldsOutcome
  <2>6. CASE plan # "hold" /\ GoesOn(p, plan, q, job[p]) /\ UNCHANGED <<adrift, close>>
    <3>1. /\ plan \in {"burn", "sell"}
          /\ q.draining \/ p \in late \/ job[p].level \in {"up", "thin", "dry"}
      BY <2>3, <2>6, DecidedFits
    <3>2. Decides(p, q, plan, job[p]) /\ plan \in Steps \ {"idle", "closing"}
      BY <3>1 DEF Decides, Steps
    <3> HIDE DEF plan
    <3> QED BY <1>1, <1>2, <2>2, <2>6, <3>1, <3>2, GoesOnOutcome
  <2>7. CASE SellFails(p, pos[p], FALSE) /\ UNCHANGED adrift
    BY <1>1, <2>7, NothingLetGo, FailsOutcome
  <2> QED BY <1>3, <2>4, <2>5, <2>6, <2>7 DEF ReadHolding, q
<1>4. CASE Holding(p) = None /\ pos[p].closeSent /\ GoesOn(p, "close", pos[p], NoJob) /\ UNCHANGED <<adrift, close>>
  <2>1. Decides(p, pos[p], "close", NoJob) /\ "close" \in Steps
    BY <1>4 DEF Decides, Steps, Holding
  <2> QED BY <1>1, <1>2, <1>4, <2>1, NoJobType, GoesOnOutcome
<1>5. CASE SellFails(p, pos[p], FALSE) /\ UNCHANGED adrift
  BY <1>1, <1>5, NothingLetGo, FailsOutcome
<1> QED BY <1>3, <1>4, <1>5 DEF ReadHolding

LEMMA BurnOutcome ==
  ASSUME TypeOK, NEW p \in Pools, Fits(p), PlanBurnAgain(p)
  PROVE  Outcome(p)
<1>1. /\ Sound(p, pos[p]) /\ pos[p].status = "selling" /\ pos[p].pending = None
  BY SoundAsItWas DEF PlanBurnAgain, Fits
<1>2. CASE SellFails(p, pos[p], FALSE) /\ UNCHANGED adrift
  BY <1>1, <1>2, NothingLetGo, FailsOutcome
<1>3. ASSUME NEW level \in Levels, UNCHANGED adrift,
             \/ /\ Decided(p, pos[p], level) = "burn"
                /\ GoesOn(p, "close", pos[p], [NoJob EXCEPT !.level = level, !.burn = pos[p].amount])
                /\ UNCHANGED close
             \/ Holds(p, pos[p])
             \/ Waits(p, pos[p])
      PROVE  Outcome(p)
  <2> DEFINE j == [NoJob EXCEPT !.level = level, !.burn = pos[p].amount]
  <2>1. CASE Decided(p, pos[p], level) = "burn" /\ GoesOn(p, "close", pos[p], j) /\ UNCHANGED close
    <3>1. pos[p].draining \/ p \in late \/ level \in {"up", "thin", "dry"}
      BY <1>3, <2>1, DecidedFits
    <3>2. j \in Jobs /\ j.level = level
      BY <1>1, <1>3, NoJobType DEF NoJob, Jobs, Sound, Position
    <3>3. Decides(p, pos[p], "close", j) /\ "close" \in Steps /\ pc[p] # "closing"
      BY <3>1, <3>2 DEF Decides, Steps, PlanBurnAgain
    <3> HIDE DEF j
    <3> QED BY <1>1, <1>3, <2>1, <3>2, <3>3, GoesOnOutcome
  <2>2. CASE Holds(p, pos[p])
    BY <1>1, <1>3, <2>2, HoldsOutcome
  <2>3. CASE Waits(p, pos[p])
    BY <1>1, <1>3, <2>3, WaitsOutcome
  <2> QED BY <1>3, <2>1, <2>2, <2>3
<1> QED BY <1>2, <1>3 DEF PlanBurnAgain

LEMMA SendSellOutcome ==
  ASSUME TypeOK, NEW p \in Pools, Fits(p), SendSell(p)
  PROVE  Outcome(p)
<1> DEFINE sent == [pos[p] EXCEPT !.pending = NewTx]
<1>1. /\ Sound(p, pos[p]) /\ pos[p].status = "selling" /\ pos[p].pending = None
  BY SoundAsItWas DEF SendSell, Fits
<1>2. /\ Sound(p, sent) /\ sent.status = "selling" /\ sent.pending # None
  BY <1>1, NewTxType DEF Sound, Position, Unread
<1> HIDE DEF sent
<1>3. CASE GoesOn(p, "confirm", sent, NoJob) /\ UNCHANGED <<adrift, close>>
  <2>1. Decides(p, sent, "confirm", NoJob) /\ "confirm" \in Steps /\ pc[p] # "closing"
    BY DEF Decides, Steps, SendSell
  <2> QED BY <1>2, <1>3, <2>1, NoJobType, GoesOnOutcome
<1>4. CASE Waits(p, sent) /\ UNCHANGED adrift
  BY <1>2, <1>4, WaitsOutcome
<1>5. CASE SellFails(p, pos[p], FALSE) /\ UNCHANGED adrift
  BY <1>1, <1>5, NothingLetGo, FailsOutcome
<1> QED BY <1>3, <1>4, <1>5 DEF SendSell, sent

LEMMA ConfirmSellOutcome ==
  ASSUME TypeOK, NEW p \in Pools, Fits(p), ConfirmSell(p)
  PROVE  Outcome(p)
<1> DEFINE settled == [pos[p] EXCEPT !.pending = None]
<1>1. /\ Sound(p, pos[p]) /\ pos[p].status = "selling" /\ pc[p] = "confirm"
  BY SoundAsItWas DEF ConfirmSell
<1>2. CASE pos[p].pending.fate = "landed" /\ GoesOn(p, "left", Proceeds(p), NoJob) /\ UNCHANGED <<adrift, close>>
  <2>1. /\ Sound(p, Proceeds(p)) /\ Proceeds(p).status = "selling" /\ Proceeds(p).pending = None
        /\ Proceeds(p).draining
    BY <1>1, <1>2, ProceedsSound
  <2>2. Decides(p, Proceeds(p), "left", NoJob) /\ "left" \in Steps
    BY DEF Decides, Steps
  <2> QED BY <1>1, <1>2, <2>1, <2>2, NoJobType, GoesOnOutcome
<1>3. CASE pos[p].pending.fate = "failed" /\ SellFails(p, settled, TRUE) /\ UNCHANGED adrift
  <2>1. Sound(p, settled)
    BY <1>1, <1>3, SettledSound
  <2> HIDE DEF settled
  <2> QED BY <1>3, <2>1, NothingLetGo, FailsOutcome
<1>4. CASE Waits(p, pos[p]) /\ UNCHANGED adrift
  BY <1>1, <1>4, WaitsOutcome
<1> QED BY <1>2, <1>3, <1>4 DEF ConfirmSell

LEMMA LeftOutcome ==
  ASSUME TypeOK, NEW p \in Pools, Fits(p), ReadLeft(p)
  PROVE  Outcome(p)
<1> DEFINE q == [pos[p] EXCEPT !.amount = Holding(p), !.known = TRUE]
<1>1. /\ Sound(p, pos[p]) /\ pos[p].status = "selling" /\ pc[p] = "left"
      /\ pos[p].pending = None /\ pos[p].draining
  BY SoundAsItWas DEF ReadLeft, Fits
<1>2. CASE GoesOn(p, "close", pos[p], NoJob) /\ UNCHANGED <<adrift, close>>
  <2>1. Decides(p, pos[p], "close", NoJob) /\ "close" \in Steps
    BY <1>1 DEF Decides, Steps
  <2> QED BY <1>1, <1>2, <2>1, NoJobType, GoesOnOutcome
<1>3. CASE Holding(p) \in 1..Amount /\ Waits(p, q) /\ UNCHANGED adrift
  <2>1. Holding(p) \in Held
    BY <1>3, Bounds DEF Held
  <2>2. Sound(p, q)
    BY <1>1, <2>1 DEF Sound, Position, Unread
  <2> HIDE DEF q
  <2> QED BY <1>3, <2>2, WaitsOutcome
<1>4. CASE Waits(p, pos[p]) /\ UNCHANGED adrift
  BY <1>1, <1>4, WaitsOutcome
<1> QED BY <1>2, <1>3, <1>4 DEF ReadLeft

LEMMA CloseFailsOutcome ==
  ASSUME TypeOK, NEW p \in Pools, Fits(p), pc[p] \in {"close", "closing"},
         NEW paid \in BOOLEAN, NEW sent \in BOOLEAN, CloseFails(p, paid, sent),
         sent => pc[p] = "closing" \/ view[Token(p)] # None,
         LetsGoCloses(p)
  PROVE  Outcome(p)
<1> DEFINE q == [pos[p] EXCEPT !.closing = TRUE, !.closeSent = @ \/ sent]
<1>1. Sound(p, pos[p]) /\ pos[p].status = "selling"
  BY SoundAsItWas
<1>2. q.closeSent = (pos[p].closeSent \/ sent)
  BY <1>1 DEF Sound, Position
<1>3. Sound(p, q)
  BY <1>1 DEF Sound, Position, Unread
<1>4. SellFails(p, q, paid)
  BY DEF CloseFails
<1> HIDE DEF q
<1> QED BY <1>3, <1>4, FailsOutcome

(* A close that is let go. *)
LEMMA CloseLetGo ==
  ASSUME TypeOK, NEW p \in Pools, NEW n \in Held, NEW tx, LetGo(p, Out(p, "close", n, tx))
  PROVE  LetsGoCloses(p)
<1>1. Out(p, "close", n, tx) \in SUBSET {d \in Drift : d.kind = "close"}
  BY DEF Out, Drift
<1> QED BY <1>1 DEF LetGo, LetsGoCloses

LEMMA SendCloseOutcome ==
  ASSUME TypeOK, NEW p \in Pools, Fits(p), SendClose(p)
  PROVE  Outcome(p)
<1> DEFINE j == [NoJob EXCEPT !.burn = job[p].burn]
<1>1. /\ Sound(p, pos[p]) /\ pos[p].status = "selling" /\ pc[p] = "close"
      /\ pos[p].pending = None /\ job[p] \in Jobs
  BY SoundAsItWas DEF SendClose, Fits
<1>2. job[p].burn \in Held /\ job[p].burn # None
  BY <1>1, Bounds DEF Jobs
<1>3. CASE /\ CloseStart(p) = "proceed"
           /\ GoesOn(p, "closing", pos[p], j) /\ close' = [close EXCEPT ![p] = NewTx] /\ UNCHANGED adrift
  <2>1. view[Token(p)] # None
    BY <1>2, <1>3 DEF CloseStart, Holding
  <2>2. j \in Jobs
    BY <1>2, NoJobType DEF NoJob, Jobs
  <2> HIDE DEF j
  <2>3. Moved(p, pos[p], "closing", j, NewTx)
    BY <1>3 DEF GoesOn, Moved, Becomes, trade, TypeOK
  <2>4. After(p, pos[p], "closing", j, NewTx)
    BY <1>1, <2>1 DEF After, Sound, Decides
  <2>5. Counts(p, pos[p])
    BY <1>1, <1>3 DEF Counts, GoesOn
  <2>6. LetsGoCloses(p)
    BY <1>3, NothingLetGo
  <2> QED BY <1>1, <2>2, <2>3, <2>4, <2>5, <2>6, NewTxType DEF Outcome, Sound, Steps
<1>4. CASE /\ CloseStart(p) = "proceed" /\ CloseFails(p, FALSE, TRUE)
           /\ LetGo(p, Out(p, "close", job[p].burn, NewTx))
  <2>1. view[Token(p)] # None
    BY <1>2, <1>4 DEF CloseStart, Holding
  <2>2. LetsGoCloses(p)
    BY <1>2, <1>4, CloseLetGo
  <2> QED BY <1>1, <1>4, <2>1, <2>2, CloseFailsOutcome
<1>5. CASE CloseStart(p) = "closed" /\ Ends(p)
  <2>1. view[Token(p)] = None /\ pos[p].closeSent
    BY <1>5 DEF CloseStart, Holding
  <2> QED BY <1>1, <1>5, <2>1, EndsOutcome
<1>6. CASE CloseFails(p, FALSE, FALSE) /\ UNCHANGED adrift
  BY <1>1, <1>6, NothingLetGo, CloseFailsOutcome
<1> QED BY <1>3, <1>4, <1>5, <1>6 DEF SendClose

LEMMA ConfirmCloseOutcome ==
  ASSUME TypeOK, NEW p \in Pools, Fits(p), ConfirmClose(p)
  PROVE  Outcome(p)
<1>1. pc[p] = "closing" /\ job[p] \in Jobs
  BY SoundAsItWas DEF ConfirmClose
<1>2. job[p].burn \in Held
  BY <1>1 DEF Jobs
<1>3. CASE close[p].fate = "landed" /\ Ends(p)
  BY <1>1, <1>3, EndsOutcome
<1>4. CASE CloseFails(p, TRUE, FALSE) /\ UNCHANGED adrift
  BY <1>1, <1>4, NothingLetGo, CloseFailsOutcome
<1>5. CASE CloseFails(p, FALSE, TRUE) /\ LetGo(p, CloseOut(p))
  <2>1. LetsGoCloses(p)
    BY <1>2, <1>5, CloseLetGo DEF CloseOut
  <2> QED BY <1>1, <1>5, <2>1, CloseFailsOutcome
<1> QED BY <1>3, <1>4, <1>5 DEF ConfirmClose

LEMMA CheckOutcome ==
  ASSUME TypeOK, NEW p \in Pools, Fits(p), Check(p)
  PROVE  Outcome(p)
  BY ClaimOutcome, HeightOutcome, StatusOutcome, HoldingOutcome, BurnOutcome, SendSellOutcome,
     ConfirmSellOutcome, LeftOutcome, SendCloseOutcome, ConfirmCloseOutcome DEF Check, Selling

-----------------------------------------------------------------------------
(* The invariant of the checks and the positions. *)

LEMMA LetsGoTyped ==
  ASSUME TypeOK, NEW p \in Pools, LetsGoCloses(p)
  PROVE  adrift' \in [Tokens -> SUBSET Drift]
  BY DEF LetsGoCloses, TypeOK

LEMMA OutcomeTyped ==
  ASSUME TypeOK, NEW p \in Pools, Outcome(p)
  PROVE  TypeOK'
<1>1. adrift' \in [Tokens -> SUBSET Drift]
  BY LetsGoTyped DEF Outcome
<1>2. PICK q \in Position, x \in Steps, j \in Jobs, k \in Sent \cup {None} :
        Moved(p, q, x, j, k) /\ Counts(p, q)
  BY DEF Outcome
<1>3. /\ pos' \in [Pools -> Position] /\ pc' \in [Pools -> Steps]
      /\ close' \in [Pools -> Sent \cup {None}]
  BY <1>2 DEF Moved, TypeOK
<1>4. job' \in [Pools -> Jobs]
  BY <1>2 DEF Moved, TypeOK, Jobs
<1>5. late' \subseteq Pools /\ landed' \in [Pools -> Nat]
  BY <1>2 DEF Counts, TypeOK
<1>6. /\ scene' \in Scenes /\ account' \in [Tokens -> Account] /\ view' \in [Tokens -> Account]
      /\ buy' \in [Pools -> Buys] /\ seen' \subseteq Pools /\ saved' \in Wanted
      /\ running' \in BOOLEAN /\ sellOnly' \in BOOLEAN
      /\ told' \subseteq Tokens /\ unlisted' \subseteq Tokens
  BY <1>2 DEF Moved, TypeOK
<1> QED BY <1>1, <1>3, <1>4, <1>5, <1>6 DEF TypeOK, Jobs

LEMMA OutcomeFits ==
  ASSUME FitsInv, NEW p \in Pools, Outcome(p)
  PROVE  FitsInv'
<1>1. TypeOK'
  BY OutcomeTyped DEF FitsInv
<1>2. PICK q \in Position, x \in Steps, j \in Jobs, k \in Sent \cup {None} :
        Moved(p, q, x, j, k) /\ After(p, q, x, j, k)
  BY DEF Outcome
<1>3. ASSUME NEW o \in Pools PROVE Fits(o)'
  <2>1. Fits(o) /\ Fits(p)
    BY DEF FitsInv
  <2>2. CASE o # p
    <3>1. /\ pos'[o] = pos[o] /\ pc'[o] = pc[o] /\ job'[o] = job[o] /\ close'[o] = close[o]
          /\ buy'[o] = buy[o]
      BY <1>2, <2>2 DEF Moved, FitsInv, TypeOK
    <3> QED BY <2>1, <3>1 DEF Fits, Blank
  <2>3. CASE o = p
    <3>1. /\ pos'[p] = q /\ pc'[p] = x /\ job'[p] = j /\ close'[p] = k /\ buy'[p] = buy[p]
      BY <1>2 DEF Moved, FitsInv, TypeOK
    <3>2. buy[p] = "none"
      BY <1>2, <2>1 DEF After, Fits
    <3>3. close'[p] # None <=> pc'[p] = "closing"
      BY <1>2, <3>1, NewTxType DEF After
    <3> QED BY <1>2, <2>3, <3>1, <3>2, <3>3 DEF After, Fits, Blank
  <2> QED BY <2>2, <2>3
<1>4. Apart'
  <2>1. \A o \in Pools : Taken(o)' => Taken(o)
    BY <1>2 DEF Moved, After, Taken, FitsInv, TypeOK
  <2>2. \A o \in Pools : Token(o)' = Token(o)
    BY <1>2 DEF Moved, Token
  <2> QED BY <2>1, <2>2 DEF Apart, FitsInv
<1> QED BY <1>1, <1>3, <1>4 DEF FitsInv

(* A step that leaves every check and position alone. *)
LEMMA AsideFits ==
  ASSUME FitsInv, TypeOK', UNCHANGED <<scene, pos, checks, buy>>
  PROVE  FitsInv'
<1>1. \A o \in Pools : Fits(o)' <=> Fits(o)
  BY DEF Fits, checks, Blank
<1>2. Apart' <=> Apart
  BY DEF Apart, Taken, Token
<1> QED BY <1>1, <1>2 DEF FitsInv

(* A buy that goes on. *)
LEMMA BuyFits ==
  ASSUME FitsInv, TypeOK', NEW p \in Pools, NEW b \in Buys, buy[p] # "none",
         buy' = [buy EXCEPT ![p] = b], UNCHANGED <<scene, pos, checks>>
  PROVE  FitsInv'
<1>1. \A o \in Pools : buy'[o] # "none" => buy[o] # "none"
  BY DEF FitsInv, TypeOK
<1>2. \A o \in Pools : Fits(o)'
  BY <1>1 DEF Fits, checks, Blank, FitsInv
<1>3. Apart'
  BY <1>1 DEF Apart, Taken, Token, FitsInv
<1> QED BY <1>2, <1>3 DEF FitsInv

LEMMA FateUpdate ==
  ASSUME TypeOK, NEW p \in Pools, pos[p].pending # None, NEW f \in Fates,
         pos' = [pos EXCEPT ![p].pending.fate = f]
  PROVE  /\ pos' \in [Pools -> Position] /\ \A o \in Pools \ {p} : pos'[o] = pos[o]
         /\ pos'[p] = [pos[p] EXCEPT !.pending = [fate |-> f, past |-> pos[p].pending.past]]
<1>1. pos[p] \in Position /\ pos[p].pending \in Sent /\ pos \in [Pools -> Position]
  BY DEF TypeOK, Position
<1>2. [pos[p].pending EXCEPT !.fate = f] = [fate |-> f, past |-> pos[p].pending.past]
  BY <1>1 DEF Sent
<1>3. [fate |-> f, past |-> pos[p].pending.past] \in Sent
  BY <1>1 DEF Sent
<1>4. pos' = [pos EXCEPT ![p] = [pos[p] EXCEPT !.pending = [pos[p].pending EXCEPT !.fate = f]]]
  OBVIOUS
<1>5. pos'[p] = [pos[p] EXCEPT !.pending = [fate |-> f, past |-> pos[p].pending.past]]
  BY <1>1, <1>2, <1>4
<1>6. pos'[p] \in Position
  BY <1>1, <1>3, <1>5 DEF Position
<1> QED BY <1>1, <1>4, <1>5, <1>6

LEMMA SetsPast ==
  ASSUME NEW tx \in Sent
  PROVE  [tx EXCEPT !.past = TRUE] = [fate |-> tx.fate, past |-> TRUE]
<1>1. ASSUME NEW b \in BOOLEAN PROVE [tx EXCEPT !.past = b] = [fate |-> tx.fate, past |-> b]
  BY DEF Sent
<1> QED BY <1>1

LEMMA PastUpdate ==
  ASSUME TypeOK, NEW p \in Pools, pos[p].pending # None,
         pos' = [pos EXCEPT ![p].pending.past = TRUE]
  PROVE  /\ pos' \in [Pools -> Position] /\ \A o \in Pools \ {p} : pos'[o] = pos[o]
         /\ pos'[p] = [pos[p] EXCEPT !.pending = [fate |-> pos[p].pending.fate, past |-> TRUE]]
<1>1. pos[p] \in Position /\ pos[p].pending \in Sent /\ pos \in [Pools -> Position]
  BY DEF TypeOK, Position
<1>2. [pos[p].pending EXCEPT !.past = TRUE] = [fate |-> pos[p].pending.fate, past |-> TRUE]
  BY <1>1, SetsPast
<1>3. [fate |-> pos[p].pending.fate, past |-> TRUE] \in Sent
  BY <1>1 DEF Sent
<1>4. pos' = [pos EXCEPT ![p] = [pos[p] EXCEPT !.pending = [pos[p].pending EXCEPT !.past = TRUE]]]
  OBVIOUS
<1>5. pos'[p] = [pos[p] EXCEPT !.pending = [fate |-> pos[p].pending.fate, past |-> TRUE]]
  BY <1>1, <1>2, <1>4
<1>6. pos'[p] \in Position
  BY <1>1, <1>3, <1>5 DEF Position
<1> QED BY <1>1, <1>4, <1>5, <1>6

(* What a sell does to its position leaves the rest of it alone. *)
LEMMA PendingFits ==
  ASSUME FitsInv, TypeOK', NEW p \in Pools, NEW tx \in Sent, pos[p].pending # None,
         pos'[p] = [pos[p] EXCEPT !.pending = tx], \A o \in Pools \ {p} : pos'[o] = pos[o],
         pos[p].pending.past => tx.past, UNCHANGED <<scene, checks, buy>>
  PROVE  FitsInv'
<1>1. pos[p] \in Position /\ tx # None
  BY Bounds DEF FitsInv, TypeOK
<1>2. /\ pos'[p].status = pos[p].status /\ pos'[p].pending = tx
      /\ pos'[p].closeSent = pos[p].closeSent /\ pos'[p].draining = pos[p].draining
      /\ pos'[p].total = pos[p].total
  BY <1>1 DEF Position
<1>3. Fits(p)'
  <2>1. Fits(p)
    BY DEF FitsInv
  <2>2. pos[p].status \notin {"none", "closed"}
    BY <2>1 DEF Fits, Blank
  <2> QED BY <1>1, <1>2, <2>1, <2>2 DEF Fits, checks
<1>4. ASSUME NEW o \in Pools \ {p} PROVE Fits(o)'
  <2>1. Fits(o) /\ pos'[o] = pos[o]
    BY DEF FitsInv
  <2> QED BY <2>1 DEF Fits, checks, Blank
<1>5. Apart'
  <2>1. \A o \in Pools : Taken(o)' <=> Taken(o)
    BY <1>2 DEF Taken
  <2> QED BY <2>1 DEF Apart, Token, FitsInv
<1> QED BY <1>3, <1>4, <1>5 DEF FitsInv

LEMMA NewAccountTyped ==
  ASSUME TypeOK, NEW t \in Tokens, NEW n \in Account, NewAccount(t, n)
  PROVE  account' \in [Tokens -> Account] /\ view' \in [Tokens -> Account]
  BY DEF NewAccount, TypeOK

(* A sell takes some of what the account holds. *)
LEMMA SellTakes ==
  ASSUME TypeOK, NEW t \in Tokens, NEW n, NEW k \in 1..Amount, Sells(t, n, k)
  PROVE  account[t] \in Held \ {0} /\ account[t] - k \in Held
<1>1. account[t] \in Held
  BY DEF TypeOK, Account, Sells
<1> QED BY <1>1, Bounds DEF Sells, Held

LEMMA LandedTyped ==
  ASSUME TypeOK, NEW p \in Pools, landed' = [landed EXCEPT ![p] = @ + 1]
  PROVE  landed' \in [Pools -> Nat]
  BY DEF TypeOK

LEMMA SellLandsFits ==
  ASSUME FitsInv, NEW p \in Pools, SellLands(p)
  PROVE  FitsInv'
<1>0. TypeOK
  BY DEF FitsInv
<1>1. /\ pos[p].pending # None /\ Token(p) \in Tokens
      /\ UNCHANGED <<scene, late, adrift, pc, job, close, checks, buy, seen, running, sellOnly, saved, told, unlisted>>
  BY <1>0, TokenType DEF SellLands, Live, checks, trade
<1>2. PICK f \in Fates : pos' = [pos EXCEPT ![p].pending.fate = f]
  BY DEF SellLands, Fates
<1>3. account' \in [Tokens -> Account] /\ view' \in [Tokens -> Account] /\ landed' \in [Pools -> Nat]
  <2>1. CASE UNCHANGED <<account, view, landed>>
    BY <1>0, <2>1 DEF TypeOK
  <2>2. ASSUME NEW k \in 1..Amount, Sells(Token(p), pos[p].amount, k),
               NewAccount(Token(p), account[Token(p)] - k), landed' = [landed EXCEPT ![p] = @ + 1]
        PROVE  account' \in [Tokens -> Account] /\ view' \in [Tokens -> Account] /\ landed' \in [Pools -> Nat]
    <3>1. account[Token(p)] - k \in Account
      BY <1>0, <1>1, <2>2, SellTakes DEF Account
    <3> QED BY <1>0, <1>1, <2>2, <3>1, NewAccountTyped, LandedTyped
  <2> QED BY <2>1, <2>2 DEF SellLands
<1>4. pos' \in [Pools -> Position]
  BY <1>0, <1>1, <1>2, FateUpdate
<1>5. TypeOK'
  BY <1>0, <1>1, <1>3, <1>4 DEF TypeOK
<1>6. pos[p].pending \in Sent
  BY <1>0, <1>1 DEF TypeOK, Position
<1>7. [fate |-> f, past |-> pos[p].pending.past] \in Sent
  BY <1>6 DEF Sent
<1> QED BY <1>0, <1>1, <1>2, <1>5, <1>7, FateUpdate, PendingFits, ZenonT(30)

LEMMA CloseLandsFits ==
  ASSUME FitsInv, NEW p \in Pools, CloseLands(p)
  PROVE  FitsInv'
<1>0. TypeOK
  BY DEF FitsInv
<1>1. /\ close[p] \in Sent /\ Token(p) \in Tokens
      /\ UNCHANGED <<scene, late, adrift, pos, pc, job, buy, seen, running, sellOnly, saved, landed, told, unlisted>>
  BY <1>0, TokenType DEF CloseLands, Live, trade, TypeOK
<1>2. PICK f \in Fates : close' = [close EXCEPT ![p].fate = f]
  BY DEF CloseLands, Fates
<1>3. [close[p] EXCEPT !.fate = f] \in Sent
  BY <1>1 DEF Sent
<1>4. close' = [close EXCEPT ![p] = [close[p] EXCEPT !.fate = f]]
  BY <1>2
<1>5. close' \in [Pools -> Sent \cup {None}] /\ \A o \in Pools : close'[o] # None <=> close[o] # None
  BY <1>0, <1>1, <1>3, <1>4, Bounds DEF TypeOK
<1>6. account' \in [Tokens -> Account] /\ view' \in [Tokens -> Account]
  BY <1>0, <1>1, NewAccountTyped DEF CloseLands, Account, TypeOK
<1>7. TypeOK'
  BY <1>0, <1>1, <1>5, <1>6 DEF TypeOK
<1>8. \A o \in Pools : Fits(o)'
  BY <1>1, <1>5 DEF FitsInv, Fits, Blank
<1>9. Apart'
  BY <1>1 DEF FitsInv, Apart, Taken, Token
<1> QED BY <1>7, <1>8, <1>9 DEF FitsInv

LEMMA BuyLandsFits ==
  ASSUME FitsInv, NEW p \in Pools, BuyLands(p)
  PROVE  FitsInv'
<1>0. TypeOK
  BY DEF FitsInv
<1>1. /\ buy[p] = "unseen" /\ Token(p) \in Tokens
      /\ UNCHANGED <<scene, late, pos, pc, job, close, checks, seen, running, sellOnly, saved, landed, told, unlisted>>
  BY <1>0, TokenType DEF BuyLands, trade, checks
<1>2. PICK b \in Buys : buy' = [buy EXCEPT ![p] = b]
  BY DEF BuyLands, Buys
<1>3. account' \in [Tokens -> Account] /\ view' \in [Tokens -> Account]
  BY <1>0, <1>1, Bounds, NewAccountTyped DEF BuyLands, Account, TypeOK
<1>4. adrift' \in [Tokens -> SUBSET Drift]
  BY <1>0, <1>1 DEF BuyLands, TypeOK
<1>5. buy' \in [Pools -> Buys]
  BY <1>0, <1>2 DEF TypeOK
<1>6. TypeOK'
  BY <1>0, <1>1, <1>3, <1>4, <1>5 DEF TypeOK
<1> QED BY <1>1, <1>2, <1>6, BuyFits

LEMMA AdriftLandsFits ==
  ASSUME FitsInv, NEW t \in Tokens, AdriftLands(t)
  PROVE  FitsInv'
<1>0. TypeOK
  BY DEF FitsInv
<1>1. UNCHANGED <<scene, late, pos, pc, job, close, checks, buy, seen, running, sellOnly, saved, told, unlisted>>
  BY DEF AdriftLands, trade, checks
<1>2. PICK d \in adrift[t] :
        /\ adrift' = [adrift EXCEPT ![t] = @ \ {d}]
        /\ \/ NewAccount(t, Amount) /\ UNCHANGED landed
           \/ /\ \E k \in 1..Amount : Sells(t, d.amount, k) /\ NewAccount(t, account[t] - k)
              /\ landed' = [landed EXCEPT ![d.pool] = @ + 1]
           \/ NewAccount(t, None) /\ UNCHANGED landed
           \/ UNCHANGED <<account, view, landed>>
  BY DEF AdriftLands
<1>3. adrift' \in [Tokens -> SUBSET Drift] /\ d.pool \in Pools
  BY <1>0, <1>2 DEF TypeOK, Drift
<1>4. account' \in [Tokens -> Account] /\ view' \in [Tokens -> Account] /\ landed' \in [Pools -> Nat]
  <2>1. CASE (NewAccount(t, Amount) \/ NewAccount(t, None)) /\ UNCHANGED landed
    BY <1>0, <2>1, Bounds, NewAccountTyped DEF Account, TypeOK
  <2>2. ASSUME NEW k \in 1..Amount, Sells(t, d.amount, k), NewAccount(t, account[t] - k),
               landed' = [landed EXCEPT ![d.pool] = @ + 1]
        PROVE  account' \in [Tokens -> Account] /\ view' \in [Tokens -> Account] /\ landed' \in [Pools -> Nat]
    BY <1>0, <1>3, <2>2, SellTakes, NewAccountTyped, LandedTyped DEF Account
  <2>3. CASE UNCHANGED <<account, view, landed>>
    BY <1>0, <2>3 DEF TypeOK
  <2> QED BY <1>2, <2>1, <2>2, <2>3
<1>5. TypeOK'
  BY <1>0, <1>1, <1>3, <1>4 DEF TypeOK
<1> QED BY <1>1, <1>5, AsideFits

LEMMA PastFits ==
  ASSUME FitsInv, NEW p \in Pools, Past(p)
  PROVE  FitsInv'
<1>0. TypeOK
  BY DEF FitsInv
<1>1. UNCHANGED <<chain, scene, account, view, late, adrift, pc, job, seen, running, sellOnly, saved, landed, told, unlisted>>
  BY DEF Past, chain, trade
<1>2. CASE /\ pos[p].pending # None /\ pos' = [pos EXCEPT ![p].pending.past = TRUE]
           /\ UNCHANGED <<buy, close>>
  <2>1. pos' \in [Pools -> Position]
    BY <1>0, <1>2, PastUpdate
  <2>2. TypeOK'
    BY <1>0, <1>1, <1>2, <2>1 DEF TypeOK
  <2>3. [fate |-> pos[p].pending.fate, past |-> TRUE] \in Sent
    BY <1>0, <1>2 DEF TypeOK, Position, Sent
  <2>4. UNCHANGED checks
    BY <1>1, <1>2 DEF checks
  <2> QED BY <1>0, <1>1, <1>2, <2>2, <2>3, <2>4, PastUpdate, PendingFits
<1>3. CASE Live(close[p]) /\ close' = [close EXCEPT ![p].past = TRUE] /\ UNCHANGED <<buy, pos>>
  <2>1. close[p] \in Sent
    BY <1>0, <1>3 DEF TypeOK, Live
  <2>2. close' = [close EXCEPT ![p] = [close[p] EXCEPT !.past = TRUE]]
    BY <1>3
  <2>3. [close[p] EXCEPT !.past = TRUE] \in Sent
    BY <2>1 DEF Sent
  <2>4. close' \in [Pools -> Sent \cup {None}] /\ \A o \in Pools : close'[o] # None <=> close[o] # None
    BY <1>0, <2>1, <2>2, <2>3, Bounds DEF TypeOK
  <2>5. TypeOK'
    BY <1>0, <1>1, <1>3, <2>4 DEF TypeOK
  <2>6. \A o \in Pools : Fits(o)'
    BY <1>1, <1>3, <2>4 DEF FitsInv, Fits, Blank
  <2>7. Apart'
    BY <1>1, <1>3 DEF FitsInv, Apart, Taken, Token
  <2> QED BY <2>5, <2>6, <2>7 DEF FitsInv
<1>4. CASE buy[p] = "unseen" /\ buy' = [buy EXCEPT ![p] = "past"] /\ UNCHANGED <<pos, close>>
  <2>1. TypeOK'
    BY <1>0, <1>1, <1>4 DEF TypeOK, Buys
  <2> QED BY <1>1, <1>4, <2>1, BuyFits DEF checks, Buys
<1> QED BY <1>2, <1>3, <1>4 DEF Past

LEMMA OpenedType ==
  ASSUME NEW n \in Held, NEW known \in BOOLEAN, NEW restored \in BOOLEAN
  PROVE  /\ Opened(n, known, restored) \in Position
         /\ Opened(n, known, restored).status = "active"
         /\ Opened(n, known, restored).amount = n
         /\ Opened(n, known, restored).restored = restored
         /\ Blank(Opened(n, known, restored))
<1>1. /\ Opened(n, known, restored).status = "active" /\ Opened(n, known, restored).amount = n
      /\ Opened(n, known, restored).restored = restored /\ Blank(Opened(n, known, restored))
  BY DEF Opened, NoPosition, Blank
<1>2. Opened(n, known, restored) \in Position
  BY NoPositionType DEF Opened, NoPosition, Position, Statuses
<1> QED BY <1>1, <1>2

LEMMA SomeHeld == 1..Amount \subseteq Held
  BY Bounds DEF Held

LEMMA WorldFits ==
  ASSUME FitsInv, World
  PROVE  FitsInv'
<1>1. ASSUME NEW p \in Pools, TimesOut(p) PROVE FitsInv'
  BY <1>1, AsideFits DEF TimesOut, FitsInv, TypeOK, checks, trade
<1>2. ASSUME NEW t \in Tokens, CatchesUp(t) PROVE FitsInv'
  BY <1>2, AsideFits DEF CatchesUp, FitsInv, TypeOK, checks, trade
<1> QED BY <1>1, <1>2, SellLandsFits, CloseLandsFits, BuyLandsFits, PastFits, AdriftLandsFits DEF World

LEMMA NewPoolFits ==
  ASSUME FitsInv, NEW p \in Pools, NewPool(p)
  PROVE  FitsInv'
<1>1. /\ buy' = [buy EXCEPT ![p] = "prepare"]
      /\ UNCHANGED <<scene, pos, pc, job, close>>
  BY DEF NewPool, Buy, chain, checks
<1>2. TypeOK'
  BY <1>1 DEF NewPool, Buy, FitsInv, TypeOK, chain, trade, Buys
<1>3. \A o \in Pools : Token(o) = Token(p) => ~Taken(o)
  BY DEF NewPool, TokenIsFree, Taken
<1>4. \A o \in Pools : Fits(o)'
  BY <1>1, <1>3 DEF FitsInv, Fits, Blank, Taken, TypeOK
<1>5. \A o \in Pools : Taken(o)' => Taken(o) \/ o = p
  BY <1>1 DEF Taken, FitsInv, TypeOK
<1>6. Apart'
  BY <1>1, <1>3, <1>5 DEF FitsInv, Apart, Token
<1> QED BY <1>2, <1>4, <1>6 DEF FitsInv

LEMMA BuyStepFits ==
  ASSUME FitsInv, NEW p \in Pools, BuyStep(p)
  PROVE  FitsInv'
<1>0. TypeOK /\ Token(p) \in Tokens
  BY TokenType DEF FitsInv
<1>1. ASSUME NEW b \in Buys, buy[p] # "none", Buy(p, b),
             UNCHANGED <<chain, pos, seen, landed, unlisted>>, told' \in SUBSET Tokens
      PROVE  FitsInv'
  <2>1. TypeOK'
    BY <1>0, <1>1 DEF TypeOK, Buy, chain, checks, trade
  <2> QED BY <1>1, <2>1, BuyFits DEF Buy, chain
<1>2. CASE SendBuy(p)
  BY <1>0, <1>1, <1>2 DEF SendBuy, Buys, TypeOK
<1>3. CASE SettleBuy(p)
  BY <1>0, <1>1, <1>3 DEF SettleBuy, Buys, TypeOK
<1>4. CASE ReadWallet(p)
  BY <1>0, <1>1, <1>4 DEF ReadWallet, Buys, TypeOK
<1>5. CASE OpenPosition(p)
  <2>1. PICK n \in Held, known \in BOOLEAN : Becomes(p, Opened(n, known, FALSE))
    BY <1>5, SomeHeld, Bounds DEF OpenPosition
  <2>2. /\ buy[p] = "open" /\ buy' = [buy EXCEPT ![p] = "none"]
        /\ UNCHANGED <<scene, account, view, late, adrift, pc, job, close, seen, running, sellOnly, saved, landed>>
        /\ told' \subseteq Tokens /\ unlisted' \subseteq Tokens
    BY <1>0, <1>5 DEF OpenPosition, Buy, chain, checks, trade, TypeOK
  <2>3. /\ Opened(n, known, FALSE) \in Position /\ Opened(n, known, FALSE).status = "active"
        /\ Blank(Opened(n, known, FALSE))
    BY OpenedType
  <2>4. pos' = [pos EXCEPT ![p] = Opened(n, known, FALSE)]
    BY <2>1 DEF Becomes
  <2>5. TypeOK'
    BY <1>0, <2>2, <2>3, <2>4 DEF TypeOK, Buys
  <2>6. pc[p] = "idle" /\ close[p] = None
    BY <2>2 DEF FitsInv, Fits
  <2>7. ASSUME NEW o \in Pools PROVE Fits(o)'
    <3>1. CASE o = p
      BY <1>0, <2>2, <2>3, <2>4, <2>6, <3>1 DEF Fits, Blank, TypeOK
    <3>2. CASE o # p
      <4>1. Fits(o) /\ pos'[o] = pos[o] /\ buy'[o] = buy[o]
        BY <1>0, <2>2, <2>4, <3>2 DEF FitsInv, TypeOK
      <4> QED BY <2>2, <4>1 DEF Fits, Blank
    <3> QED BY <3>1, <3>2
  <2>8. \A o \in Pools : Taken(o)' => Taken(o)
    BY <1>0, <2>2, <2>3, <2>4 DEF Taken, TypeOK
  <2>9. Apart'
    BY <2>2, <2>8 DEF FitsInv, Apart, Token
  <2> QED BY <2>5, <2>7, <2>9 DEF FitsInv
<1> QED BY <1>2, <1>3, <1>4, <1>5 DEF BuyStep

LEMMA SwitchFits ==
  ASSUME FitsInv, NEW w \in Wanted, Switch(w)
  PROVE  FitsInv'
<1>1. saved' \in Wanted /\ running' \in BOOLEAN /\ sellOnly' \in BOOLEAN
  BY DEF Switch, FitsInv, TypeOK
<1>2. TypeOK'
  BY <1>1 DEF Switch, FitsInv, TypeOK, chain, checks
<1> QED BY <1>2, AsideFits DEF Switch, chain

LEMMA LeftOutTyped ==
  ASSUME TypeOK, NEW p \in Pools
  PROVE  LeftOut(p) \subseteq Drift
<1>1. job[p].burn \in Held /\ pos[p].amount \in Held
  BY DEF TypeOK, Position
<1> QED BY <1>1, Bounds DEF LeftOut, Out, SellOut, CloseOut, Drift

(* What a restart makes of the positions. *)
LEMMA RestartPositions ==
  ASSUME TypeOK, NEW P \in TakenUp,
         pos' = [p \in Pools |-> IF p \in P THEN Opened(Holding(p), TRUE, TRUE) ELSE NoPosition]
  PROVE  /\ pos' \in [Pools -> Position]
         /\ \A p \in Pools : Blank(pos'[p])
         /\ \A p \in P : pos'[p].status = "active" /\ pos'[p].restored
         /\ \A p \in Pools \ P : pos'[p] = NoPosition
         /\ P \subseteq Pools
<1>1. P \subseteq Pools /\ \A p \in P : Holding(p) \in Held
  BY SomeHeld DEF TakenUp
<1>2. \A p \in P : /\ Opened(Holding(p), TRUE, TRUE) \in Position
                   /\ Opened(Holding(p), TRUE, TRUE).status = "active"
                   /\ Opened(Holding(p), TRUE, TRUE).restored
                   /\ Blank(Opened(Holding(p), TRUE, TRUE))
  BY <1>1, OpenedType
<1> HIDE DEF Opened
<1>3. \A p \in P : pos'[p] = Opened(Holding(p), TRUE, TRUE)
  BY <1>1
<1>4. \A p \in Pools \ P : pos'[p] = NoPosition
  OBVIOUS
<1>5. pos' \in [Pools -> Position]
  BY <1>1, <1>2, NoPositionType
<1> QED BY <1>1, <1>2, <1>3, <1>4, <1>5, NoPositionType

LEMMA RestartFits ==
  ASSUME FitsInv, Restart
  PROVE  FitsInv'
<1>0. TypeOK
  BY DEF FitsInv
<1>1. PICK P \in TakenUp :
        /\ pos' = [p \in Pools |-> IF p \in P THEN Opened(Holding(p), TRUE, TRUE) ELSE NoPosition]
        /\ unlisted' \subseteq Tokens
        /\ told' = HeldTokens \ ({Token(p) : p \in P} \cup unlisted')
  BY DEF Restart, HeldTokens
<1>2. /\ pc' = [p \in Pools |-> "idle"] /\ job' = [p \in Pools |-> NoJob]
      /\ close' = [p \in Pools |-> None] /\ buy' = [p \in Pools |-> "none"]
      /\ seen' = {} /\ late' = {} /\ landed' = [p \in Pools |-> 0]
      /\ UNCHANGED <<scene, account, view, saved>>
      /\ adrift' = [t \in Tokens |-> adrift[t] \cup UNION {LeftOut(p) : p \in {q \in Pools : Token(q) = t}}]
      /\ running' = (saved # "stopped") /\ sellOnly' = (saved = "sell_only")
  BY DEF Restart
<1>3. /\ pos' \in [Pools -> Position] /\ P \subseteq Pools
      /\ \A p \in Pools : Blank(pos'[p])
      /\ \A p \in P : pos'[p].status = "active"
      /\ \A p \in Pools \ P : pos'[p] = NoPosition
  BY <1>0, <1>1, RestartPositions
<1>4. NoPosition.status = "none"
  BY DEF NoPosition
<1>5. adrift' \in [Tokens -> SUBSET Drift]
  BY <1>0, <1>2, LeftOutTyped DEF TypeOK
<1>6. TypeOK'
  BY <1>0, <1>1, <1>2, <1>3, <1>5, NoJobType DEF TypeOK, Jobs, Steps, Buys, HeldTokens
<1>7. \A p \in Pools : Fits(p)'
  BY <1>2, <1>3, <1>4 DEF Fits, Blank
<1>8. \A p \in Pools : Taken(p)' => p \in P
  BY <1>2, <1>3, <1>4 DEF Taken
<1>9. Apart'
  BY <1>2, <1>8 DEF Apart, Token, TakenUp
<1> QED BY <1>6, <1>7, <1>9 DEF FitsInv

LEMMA FitsAtFirst == Init => FitsInv
<1> SUFFICES ASSUME Init PROVE FitsInv
  OBVIOUS
<1>1. NoPosition \in Position /\ Blank(NoPosition) /\ NoPosition.status = "none"
  BY NoPositionType DEF NoPosition
<1>2. NoJob \in Jobs
  BY NoJobType
<1> HIDE DEF NoPosition, NoJob
<1>3. TypeOK
  BY <1>1, <1>2 DEF Init, TypeOK, Jobs, Account, Steps, Buys, Wanted
<1>4. \A p \in Pools : Fits(p)
  BY <1>1 DEF Init, Fits, Blank
<1>5. Apart
  BY <1>1 DEF Init, Apart, Taken
<1> QED BY <1>3, <1>4, <1>5 DEF FitsInv

LEMMA FitsKept == FitsInv /\ [Next]_vars => FitsInv'
<1> SUFFICES ASSUME FitsInv, [Next]_vars PROVE FitsInv'
  OBVIOUS
<1>1. ASSUME NEW p \in Pools, Check(p) PROVE FitsInv'
  BY <1>1, CheckOutcome, OutcomeFits DEF FitsInv
<1>2. CASE UNCHANGED vars
  <2>1. TypeOK'
    BY <1>2 DEF FitsInv, TypeOK, vars, chain, checks, trade
  <2> QED BY <1>2, <2>1, AsideFits DEF vars, chain
<1> QED BY <1>1, <1>2, NewPoolFits, BuyStepFits, SwitchFits, WorldFits, RestartFits DEF Next

(* Every variable keeps its type: no series of failed sells passes          *)
(* MAX_SELL_FAILURES or MAX_SELL_ATTEMPTS (sell_failed).                    *)
THEOREM TradingTyped == Spec => []TypeOK
<1>1. FitsInv => TypeOK
  BY DEF FitsInv
<1> QED BY <1>1, FitsAtFirst, FitsKept, PTL DEF Spec

LEMMA AtMostOne ==
  ASSUME NEW S, \A a, b \in S : a = b
  PROVE  IsFiniteSet(S) /\ Cardinality(S) \in Nat /\ Cardinality(S) <= 1
<1>1. CASE S = {}
  BY <1>1, FS_EmptySet
<1>2. CASE S # {}
  <2>1. PICK a \in S : S = {a}
    BY <1>2
  <2> QED BY <2>1, FS_Singleton, SMTT(30)
<1> QED BY <1>1, <1>2

(* At any time one position at most that is not over, or one buy, has a     *)
(* token's account (reserve_buy, and what a restart takes up).              *)
THEOREM OneAccountOnePosition == Spec => []OnePositionPerToken
<1>1. ASSUME FitsInv PROVE OnePositionPerToken
  <2>1. ASSUME NEW t \in Tokens
        PROVE  Cardinality({p \in PoolsOf(t) : pos[p].status \notin {"none", "closed"} \/ buy[p] # "none"}) <= 1
    <3> DEFINE S == {p \in PoolsOf(t) : pos[p].status \notin {"none", "closed"} \/ buy[p] # "none"}
    <3>1. \A a, b \in S : a = b
      BY <1>1 DEF FitsInv, Apart, Taken, PoolsOf
    <3> QED BY <3>1, AtMostOne
  <2> QED BY <2>1 DEF OnePositionPerToken
<1> QED BY <1>1, FitsAtFirst, FitsKept, PTL DEF Spec

-----------------------------------------------------------------------------
(* Slots. *)

Bought == {p \in OpenPools : ~pos[p].restored}

LEMMA SlotsType ==
  ASSUME IsFiniteSet(Pools)
  PROVE  /\ IsFiniteSet(OpenPools) /\ IsFiniteSet(Bought) /\ IsFiniteSet(Buying)
         /\ Cardinality(OpenPools) \in Nat /\ Cardinality(Bought) \in Nat /\ Cardinality(Buying) \in Nat
         /\ Cardinality(Bought) <= Cardinality(OpenPools)
<1>1. OpenPools \subseteq Pools /\ Bought \subseteq OpenPools /\ Buying \subseteq Pools
  BY DEF OpenPools, Bought, Buying
<1> QED BY <1>1, FS_Subset, FS_CardinalityType

(* Nothing takes a slot. *)
LEMMA SlotsShrink ==
  ASSUME IsFiniteSet(Pools), WithinSlots, Bought' \subseteq Bought, Buying' \subseteq Buying
  PROVE  WithinSlots'
<1>1. IsFiniteSet(Bought) /\ IsFiniteSet(Buying)
  BY SlotsType
<1>2. /\ IsFiniteSet(Bought') /\ Cardinality(Bought') <= Cardinality(Bought)
      /\ IsFiniteSet(Buying') /\ Cardinality(Buying') <= Cardinality(Buying)
  BY <1>1, FS_Subset
<1>3. /\ Cardinality(Bought) \in Nat /\ Cardinality(Buying) \in Nat
      /\ Cardinality(Bought') \in Nat /\ Cardinality(Buying') \in Nat
  BY <1>1, <1>2, FS_CardinalityType
<1>4. Cardinality(Bought) + Cardinality(Buying) <= MaxPositions
  BY DEF WithinSlots, Bought
<1>5. Cardinality(Bought') + Cardinality(Buying') <= MaxPositions
  BY <1>2, <1>3, <1>4, Bounds
<1> QED BY <1>5 DEF WithinSlots, Bought

LEMMA OutcomeSlots ==
  ASSUME FitsInv, NEW p \in Pools, Outcome(p)
  PROVE  Bought' \subseteq Bought /\ Buying' \subseteq Buying
<1>1. PICK q \in Position, x \in Steps, j \in Jobs, k \in Sent \cup {None} :
        Moved(p, q, x, j, k) /\ After(p, q, x, j, k)
  BY DEF Outcome
<1>2. pos'[p] = q /\ \A o \in Pools \ {p} : pos'[o] = pos[o]
  BY <1>1 DEF Moved, FitsInv, TypeOK
<1> QED BY <1>1, <1>2 DEF Moved, After, Bought, OpenPools, Open, Buying

LEMMA PendingSlots ==
  ASSUME NEW p \in Pools, NEW tx, pos[p] \in Position, buy' = buy,
         pos'[p] = [pos[p] EXCEPT !.pending = tx], \A o \in Pools \ {p} : pos'[o] = pos[o]
  PROVE  Bought' \subseteq Bought /\ Buying' \subseteq Buying
<1>1. pos'[p].status = pos[p].status /\ pos'[p].restored = pos[p].restored
  BY DEF Position
<1> QED BY <1>1 DEF Bought, OpenPools, Open, Buying

LEMMA WorldSlots ==
  ASSUME FitsInv, World
  PROVE  Bought' \subseteq Bought /\ Buying' \subseteq Buying
<1> USE DEF FitsInv
<1>1. ASSUME NEW p \in Pools, SellLands(p) PROVE Bought' \subseteq Bought /\ Buying' \subseteq Buying
  <2>1. PICK f \in Fates : pos' = [pos EXCEPT ![p].pending.fate = f]
    BY <1>1 DEF SellLands, Fates
  <2>2. pos[p] \in Position /\ pos[p].pending # None /\ buy' = buy
    BY <1>1 DEF SellLands, Live, TypeOK
  <2> QED BY <2>1, <2>2, FateUpdate, PendingSlots
<1>2. ASSUME NEW p \in Pools, Past(p) PROVE Bought' \subseteq Bought /\ Buying' \subseteq Buying
  <2>1. CASE pos[p].pending # None /\ pos' = [pos EXCEPT ![p].pending.past = TRUE] /\ buy' = buy
    <3>1. pos[p] \in Position
      BY DEF TypeOK
    <3> QED BY <2>1, <3>1, PastUpdate, PendingSlots
  <2>2. CASE UNCHANGED pos /\ buy' \in {buy, [buy EXCEPT ![p] = "past"]} /\ (buy' = buy \/ buy[p] = "unseen")
    BY <2>2 DEF Bought, OpenPools, Open, Buying, TypeOK
  <2> QED BY <1>2, <2>1, <2>2 DEF Past
<1>3. CASE UNCHANGED <<pos, buy>>
  BY <1>3 DEF Bought, OpenPools, Open, Buying
<1>4. ASSUME NEW p \in Pools, BuyLands(p) PROVE Bought' \subseteq Bought /\ Buying' \subseteq Buying
  BY <1>4 DEF BuyLands, Bought, OpenPools, Open, Buying, TypeOK
<1> QED BY <1>1, <1>2, <1>3, <1>4 DEF World, CloseLands, TimesOut, AdriftLands, CatchesUp

LEMMA NewPoolSlots ==
  ASSUME IsFiniteSet(Pools), FitsInv, WithinSlots, NEW p \in Pools, NewPool(p)
  PROVE  WithinSlots'
<1>1. /\ Cardinality(OpenPools) + Cardinality(Buying) < MaxPositions /\ buy[p] = "none"
      /\ buy' = [buy EXCEPT ![p] = "prepare"] /\ pos' = pos
  BY DEF NewPool, SlotIsFree, TokenIsFree, Buy
<1>2. Bought' = Bought
  BY <1>1 DEF Bought, OpenPools, Open
<1>3. Buying' = Buying \cup {p} /\ p \notin Buying
  BY <1>1 DEF Buying, FitsInv, TypeOK
<1>4. Cardinality(Buying') = Cardinality(Buying) + 1
  BY <1>3, SlotsType, FS_AddElement
<1>5. Cardinality(Bought') + Cardinality(Buying') <= MaxPositions
  BY <1>1, <1>2, <1>4, SlotsType, Bounds
<1> QED BY <1>5 DEF WithinSlots, Bought

LEMMA OpenPositionSlots ==
  ASSUME IsFiniteSet(Pools), FitsInv, WithinSlots, NEW p \in Pools, OpenPosition(p)
  PROVE  WithinSlots'
<1>1. /\ buy[p] = "open" /\ buy' = [buy EXCEPT ![p] = "none"]
      /\ \A o \in Pools \ {p} : pos'[o] = pos[o]
  BY DEF OpenPosition, Buy, Becomes, FitsInv, TypeOK
<1>2. Bought' \subseteq Bought \cup {p}
  BY <1>1 DEF Bought, OpenPools, Open
<1>3. p \in Buying /\ Buying' = Buying \ {p}
  BY <1>1 DEF Buying, FitsInv, TypeOK
<1>4. Cardinality(Buying') = Cardinality(Buying) - 1
  BY <1>3, SlotsType, FS_RemoveElement
<1>5. IsFiniteSet(Bought \cup {p}) /\ Cardinality(Bought \cup {p}) <= Cardinality(Bought) + 1
  <2>1. CASE p \in Bought
    <3>1. Bought \cup {p} = Bought
      BY <2>1
    <3> QED BY <3>1, SlotsType
  <2>2. CASE p \notin Bought
    <3>1. IsFiniteSet(Bought) /\ Cardinality(Bought) \in Nat
      BY SlotsType
    <3>2. /\ IsFiniteSet(Bought \cup {p})
          /\ Cardinality(Bought \cup {p}) = Cardinality(Bought) + 1
      BY <2>2, <3>1, FS_AddElement
    <3> QED BY <3>1, <3>2
  <2> QED BY <2>1, <2>2
<1>6. IsFiniteSet(Bought') /\ Cardinality(Bought') <= Cardinality(Bought \cup {p})
  BY <1>2, <1>5, FS_Subset
<1>7. Cardinality(Bought \cup {p}) \in Nat /\ Cardinality(Bought') \in Nat
  BY <1>5, <1>6, FS_CardinalityType
<1>8. Cardinality(Bought) + Cardinality(Buying) <= MaxPositions
  BY DEF WithinSlots, Bought
<1>9. Cardinality(Bought') + Cardinality(Buying') <= MaxPositions
  BY <1>4, <1>5, <1>6, <1>7, <1>8, SlotsType, Bounds
<1> QED BY <1>9 DEF WithinSlots, Bought

LEMMA RestartSlots ==
  ASSUME FitsInv, Restart
  PROVE  Bought' \subseteq Bought /\ Buying' \subseteq Buying
<1>1. PICK P \in TakenUp :
        pos' = [p \in Pools |-> IF p \in P THEN Opened(Holding(p), TRUE, TRUE) ELSE NoPosition]
  BY DEF Restart
<1>2. /\ \A p \in P : pos'[p].restored
      /\ \A p \in Pools \ P : pos'[p] = NoPosition
  BY <1>1, RestartPositions DEF FitsInv
<1>3. Bought' = {}
  BY <1>2 DEF Bought, OpenPools, Open, NoPosition
<1>4. Buying' = {}
  BY DEF Restart, Buying
<1> QED BY <1>3, <1>4

LEMMA SlotsKept ==
  ASSUME IsFiniteSet(Pools), FitsInv, WithinSlots, [Next]_vars
  PROVE  WithinSlots'
<1>1. ASSUME NEW p \in Pools, Check(p) PROVE WithinSlots'
  BY <1>1, CheckOutcome, OutcomeSlots, SlotsShrink DEF FitsInv
<1>2. ASSUME NEW p \in Pools, BuyStep(p) PROVE WithinSlots'
  <2>1. CASE OpenPosition(p)
    BY <2>1, OpenPositionSlots
  <2>2. CASE SendBuy(p) \/ SettleBuy(p) \/ ReadWallet(p)
    <3>1. pos' = pos /\ buy[p] # "none" /\ \E b \in Buys : buy' = [buy EXCEPT ![p] = b]
      BY <2>2 DEF SendBuy, SettleBuy, ReadWallet, Buy, Buys
    <3>2. Bought' \subseteq Bought /\ Buying' \subseteq Buying
      BY <3>1 DEF Bought, OpenPools, Open, Buying, FitsInv, TypeOK
    <3> QED BY <3>2, SlotsShrink
  <2> QED BY <1>2, <2>1, <2>2 DEF BuyStep
<1>3. CASE World
  BY <1>3, WorldSlots, SlotsShrink
<1>4. CASE Restart
  BY <1>4, RestartSlots, SlotsShrink
<1>5. CASE UNCHANGED <<pos, buy>>
  <2>1. Bought' \subseteq Bought /\ Buying' \subseteq Buying
    BY <1>5 DEF Bought, OpenPools, Open, Buying
  <2> QED BY <2>1, SlotsShrink
<1> QED BY <1>1, <1>2, <1>3, <1>4, <1>5, NewPoolSlots
        DEF Next, Switch, vars

(* Positions that were bought and buys under way never pass max_positions,  *)
(* however buys, checks, switches and restarts interleave (reserve_buy).    *)
THEOREM SlotsAreKept == ASSUME IsFiniteSet(Pools) PROVE Spec => []WithinSlots
<1>1. Init => WithinSlots
  <2> SUFFICES ASSUME Init PROVE WithinSlots
    OBVIOUS
  <2>1. \A p \in Pools : pos[p].status = "none" /\ buy[p] = "none"
    BY DEF Init, NoPosition
  <2>2. OpenPools = {} /\ Buying = {}
    BY <2>1 DEF OpenPools, Open, Buying
  <2>3. {p \in OpenPools : ~pos[p].restored} = {}
    BY <2>2
  <2>4. Cardinality({p \in OpenPools : ~pos[p].restored}) + Cardinality(Buying) = 0
    BY <2>2, <2>3, FS_EmptySet
  <2> QED BY <2>4, Bounds DEF WithinSlots
<1>2. FitsInv /\ WithinSlots /\ [Next]_vars => WithinSlots'
  BY SlotsKept
<1> QED BY <1>1, <1>2, FitsAtFirst, FitsKept, PTL DEF Spec

-----------------------------------------------------------------------------
(* What a wallet holds, while the app is down for as long as what it sent   *)
(* can land: Races = {}.                                                    *)

(* The sells that landed are counted or about to be. *)
Counted(p) == pos[p].status # "failed" => landed[p] = pos[p].total + Unread(pos[p])

(* After a close, an account that is not shown is not there. *)
Gone(p) ==
  pos[p].closeSent \/ pc[p] = "closing" => view[Token(p)] # None \/ account[Token(p)] = None

CloseLanded(p) == close[p] # None /\ close[p].fate = "landed" => account[Token(p)] = None

(* Tokens that are there before a buy are known of. *)
NotBought(p) ==
  buy[p] \in {"prepare", "unseen", "failed"} /\ account[Token(p)] \in 1..Amount => Token(p) \in told \cup unlisted

Wallet(p) ==
  /\ Counted(p) /\ Gone(p) /\ CloseLanded(p) /\ NotBought(p)
  /\ Decides(p, pos[p], pc[p], job[p])

OnlyCloses == \A t \in Tokens : \A d \in adrift[t] : d.kind = "close"

WalletInv == FitsInv /\ OnlyCloses /\ (\A p \in Pools : Wallet(p)) /\ NothingStranded

(* Two pools with one token, both taken, are one. *)
LEMMA Alone ==
  ASSUME FitsInv, NEW p \in Pools, NEW o \in Pools, Token(p) = Token(o),
         Taken(p), Taken(o)
  PROVE  p = o
  BY DEF FitsInv, Apart

LEMMA ClosesAreTaken ==
  ASSUME FitsInv, NEW p \in Pools,
         pos[p].closeSent \/ pc[p] # "idle" \/ close[p] # None \/ pos[p].pending # None
  PROVE  Taken(p) /\ buy[p] = "none"
  BY DEF FitsInv, Fits, Blank, Taken

(* A position that closes has no account any more. *)
LEMMA ClosesWhenGone ==
  ASSUME WalletInv, NEW p \in Pools, NEW q, NEW x, NEW j, NEW k,
         After(p, q, x, j, k), q.status = "closed"
  PROVE  account[Token(p)] = None /\ pos[p].total = landed[p]
<1>1. Fits(p) /\ Wallet(p)
  BY DEF WalletInv, FitsInv
<1>2. account[Token(p)] = None
  BY <1>1 DEF After, Wallet, Gone, CloseLanded, Fits
<1>3. pos[p].pending = None /\ pos[p].status # "failed"
  BY <1>1 DEF After, Fits
<1>4. pos[p].total \in Nat
  BY DEF WalletInv, FitsInv, TypeOK, Position
<1>5. pos[p].total = landed[p]
  BY <1>1, <1>3, <1>4 DEF Wallet, Counted, Unread
<1> QED BY <1>2, <1>5

LEMMA LetsGoOnlyCloses ==
  ASSUME TypeOK, OnlyCloses, NEW p \in Pools, LetsGoCloses(p)
  PROVE  OnlyCloses'
  BY DEF LetsGoCloses, OnlyCloses, TypeOK

LEMMA OutcomeWallet ==
  ASSUME WalletInv, NEW p \in Pools, Outcome(p)
  PROVE  WalletInv'
<1>0. TypeOK /\ FitsInv /\ FitsInv'
  BY OutcomeFits DEF WalletInv, FitsInv
<1>1. PICK q \in Position, x \in Steps, j \in Jobs, k \in Sent \cup {None} :
        Moved(p, q, x, j, k) /\ After(p, q, x, j, k) /\ Counts(p, q)
  BY DEF Outcome
<1>2. OnlyCloses'
  BY <1>0, LetsGoOnlyCloses DEF Outcome, WalletInv
<1>3. UNCHANGED <<scene, account, view, buy, told, unlisted>> /\ \A o \in Pools : Token(o)' = Token(o)
  BY <1>1 DEF Moved, Token
<1>4. ASSUME NEW o \in Pools PROVE Wallet(o)'
  <2>0. Wallet(o)
    BY DEF WalletInv
  <2>1. CASE o # p
    <3>1. /\ pos'[o] = pos[o] /\ pc'[o] = pc[o] /\ job'[o] = job[o] /\ close'[o] = close[o]
          /\ landed'[o] = landed[o] /\ (o \in late' <=> o \in late)
      BY <1>0, <1>1, <2>1 DEF Moved, Counts, TypeOK
    <3>2. Decides(o, pos[o], pc[o], job[o])'
      BY <1>3, <2>0, <3>1 DEF Wallet, Decides
    <3>3. Counted(o)' /\ Gone(o)' /\ CloseLanded(o)' /\ NotBought(o)'
      BY <1>3, <2>0, <3>1 DEF Wallet, Counted, Gone, CloseLanded, NotBought, Unread
    <3> QED BY <3>2, <3>3 DEF Wallet
  <2>2. CASE o = p
    <3>1. /\ pos'[p] = q /\ pc'[p] = x /\ job'[p] = j /\ close'[p] = k
      BY <1>0, <1>1 DEF Moved, TypeOK
    <3>2. Counted(p)'
      <4>1. CASE q.status = "closed"
        BY <1>0, <1>1, <3>1, <4>1 DEF Counts, Counted, After, Blank, Unread, TypeOK
      <4>2. CASE q.status \in {"active", "selling"}
        BY <1>0, <1>1, <2>0, <2>2, <3>1, <4>2 DEF Counts, Counted, After, Wallet, Unread, TypeOK
      <4> QED BY <1>1, <3>1, <4>1, <4>2 DEF After, Counted
    <3>3. Gone(p)'
      BY <1>1, <1>3, <2>0, <2>2, <3>1 DEF After, Gone, Wallet
    <3>4. CloseLanded(p)'
      BY <1>1, <3>1, NewTxType DEF After, CloseLanded
    <3>5. NotBought(p)'
      BY <1>3, <2>0, <2>2 DEF NotBought, Wallet
    <3>6. Decides(p, pos[p], pc[p], job[p])'
      <4>1. CASE x \in {"sell", "close"}
        <5>1. late' = late
          BY <1>1, <4>1 DEF After, Counts
        <5> QED BY <1>1, <1>3, <3>1, <5>1 DEF After, Decides
      <4>2. CASE x \notin {"sell", "close"}
        BY <3>1, <4>2 DEF Decides
      <4> QED BY <4>1, <4>2
    <3> QED BY <2>2, <3>2, <3>3, <3>4, <3>5, <3>6 DEF Wallet
  <2> QED BY <2>1, <2>2
<1>5. NothingStranded'
  <2> SUFFICES ASSUME NEW t \in Tokens, account[t] \in 1..Amount, t \notin told \cup unlisted
               PROVE  (\E o \in PoolsOf(t) : pos[o].status \in {"active", "selling", "failed"} \/ buy[o] # "none")'
    BY <1>3 DEF NothingStranded
  <2>1. PICK o \in PoolsOf(t) : pos[o].status \in {"active", "selling", "failed"} \/ buy[o] # "none"
    BY DEF WalletInv, NothingStranded
  <2>2. o \in Pools /\ Token(o) = t /\ o \in PoolsOf(t)'
    BY <1>3, <2>1 DEF PoolsOf
  <2>3. CASE o # p
    <3>1. pos'[o] = pos[o] /\ buy'[o] = buy[o]
      BY <1>0, <1>1, <1>3, <2>2, <2>3 DEF Moved, TypeOK
    <3> QED BY <2>1, <2>2, <3>1
  <2>4. CASE o = p
    <3>1. pos'[p] = q
      BY <1>0, <1>1 DEF Moved, TypeOK
    <3>2. q.status # "closed"
      <4>1. account[t] # None
        BY Bounds DEF Held
      <4> QED BY <1>1, <2>2, <2>4, <4>1, ClosesWhenGone
    <3> QED BY <1>1, <2>2, <2>4, <3>1, <3>2 DEF After
  <2> QED BY <2>3, <2>4
<1> QED BY <1>0, <1>2, <1>4, <1>5 DEF WalletInv

(* A position and its check that stay as they are, while the chain does not. *)
LEMMA StaysWallet ==
  ASSUME NEW o \in Pools, Wallet(o), Token(o)' = Token(o),
         pos'[o] = pos[o], pc'[o] = pc[o], job'[o] = job[o], close'[o] = close[o], landed'[o] = landed[o],
         o \in late => o \in late',
         Gone(o)', CloseLanded(o)', NotBought(o)',
         pc[o] = "close" /\ view[Token(o)] = None /\ pos[o].closeSent => view'[Token(o)] = None
  PROVE  Wallet(o)'
<1>1. Counted(o)'
  BY DEF Wallet, Counted, Unread
<1>2. Decides(o, pos[o], pc[o], job[o])'
  BY DEF Wallet, Decides
<1> QED BY <1>1, <1>2 DEF Wallet

LEMMA NewAccountSets ==
  ASSUME TypeOK, NEW t \in Tokens, NEW n, NewAccount(t, n)
  PROVE  /\ account'[t] = n /\ view'[t] \in {view[t], n}
         /\ \A u \in Tokens \ {t} : account'[u] = account[u] /\ view'[u] \in {view[u], account[u]}
<1>1. account' = [account EXCEPT ![t] = n] /\ account \in [Tokens -> Account]
  BY DEF NewAccount, TypeOK
<1>2. account'[t] = n /\ \A u \in Tokens \ {t} : account'[u] = account[u]
  BY <1>1
<1>3. view' = view \/ view' = account'
  BY DEF NewAccount
<1> QED BY <1>2, <1>3

(* The chain and the RPC: what happens to an account that is there, or goes. *)
LEMMA TakesWallet ==
  ASSUME WalletInv, NEW t \in Tokens, NEW n, account[t] \in Held,
         n = None \/ (n \in Held /\ account[t] \in 1..Amount), NewAccount(t, n),
         UNCHANGED <<scene, pc, job, close, buy, told, unlisted>>,
         NEW o \in Pools
  PROVE  /\ Gone(o) /\ pos'[o].closeSent = pos[o].closeSent => Gone(o)'
         /\ CloseLanded(o)' /\ NotBought(o)'
         /\ pos[o].closeSent /\ view[Token(o)] = None => view'[Token(o)] = None
<1>0. /\ TypeOK /\ Wallet(o) /\ Token(o) \in Tokens /\ Token(o)' = Token(o)
  BY TokenType DEF WalletInv, FitsInv, Token
<1>1. /\ account'[t] = n /\ view'[t] \in {view[t], n}
      /\ \A u \in Tokens \ {t} : account'[u] = account[u] /\ view'[u] \in {view[u], account[u]}
  BY <1>0, NewAccountSets
<1>2. account[t] # None /\ None \notin Held /\ None \notin 1..Amount
  BY Bounds, SomeHeld
<1>3. CASE Token(o) # t
  BY <1>0, <1>1, <1>3 DEF Wallet, Gone, CloseLanded, NotBought
<1>4. CASE Token(o) = t
  <2>1. Gone(o) /\ pos'[o].closeSent = pos[o].closeSent => Gone(o)'
    BY <1>0, <1>1, <1>2, <1>4 DEF Gone
  <2>2. CloseLanded(o)'
    BY <1>0, <1>1, <1>2, <1>4 DEF Wallet, CloseLanded
  <2>3. NotBought(o)'
    BY <1>0, <1>1, <1>2, <1>4 DEF Wallet, NotBought
  <2>4. pos[o].closeSent /\ view[t] = None => account[t] = None
    BY <1>0, <1>4 DEF Wallet, Gone
  <2> QED BY <1>0, <1>1, <1>2, <1>4, <2>1, <2>2, <2>3, <2>4
<1> QED BY <1>3, <1>4

LEMMA TakesFollowed ==
  ASSUME WalletInv, NEW t \in Tokens, NEW n, account[t] \in Held,
         n = None \/ (n \in Held /\ account[t] \in 1..Amount), NewAccount(t, n),
         UNCHANGED <<scene, buy, told, unlisted>>, \A o \in Pools : pos'[o].status = pos[o].status
  PROVE  NothingStranded'
<1>0. TypeOK /\ None \notin 1..Amount
  BY Bounds, SomeHeld DEF WalletInv, FitsInv
<1>1. /\ account'[t] = n
      /\ \A u \in Tokens \ {t} : account'[u] = account[u]
  BY <1>0, NewAccountSets
<1>2. \A u \in Tokens : account'[u] \in 1..Amount => account[u] \in 1..Amount
  BY <1>0, <1>1
<1> QED BY <1>2 DEF WalletInv, NothingStranded, PoolsOf, Token

(* The chain as it was, and every position no less followed. *)
LEMMA SameFollowed ==
  ASSUME WalletInv, UNCHANGED <<scene, account>>, told \subseteq told', unlisted' = unlisted,
         \A o \in Pools : /\ pos'[o].status = pos[o].status
                          /\ buy[o] # "none" => buy'[o] # "none"
  PROVE  NothingStranded'
<1> SUFFICES ASSUME NEW t \in Tokens, account[t] \in 1..Amount, t \notin told \cup unlisted
             PROVE  (\E o \in PoolsOf(t) : pos[o].status \in {"active", "selling", "failed"} \/ buy[o] # "none")'
  BY DEF NothingStranded
<1>1. PICK o \in PoolsOf(t) : pos[o].status \in {"active", "selling", "failed"} \/ buy[o] # "none"
  BY DEF WalletInv, NothingStranded
<1>2. o \in Pools /\ o \in PoolsOf(t)'
  BY <1>1 DEF PoolsOf, Token
<1> QED BY <1>1, <1>2

LEMMA SellLandsWallet ==
  ASSUME WalletInv, NEW p \in Pools, SellLands(p)
  PROVE  WalletInv'
<1>0. /\ TypeOK /\ FitsInv /\ FitsInv' /\ Token(p) \in Tokens
  BY SellLandsFits, TokenType DEF WalletInv, FitsInv
<1>1. /\ pos[p].pending # None /\ pos[p].pending.fate = "unseen" /\ ~pos[p].pending.past
      /\ UNCHANGED <<scene, late, adrift, pc, job, close, buy, seen, running, sellOnly, saved, told, unlisted>>
  BY DEF SellLands, Live, checks, trade
<1>2. PICK f \in {"landed", "failed"} :
        /\ pos' = [pos EXCEPT ![p].pending.fate = f]
        /\ f = "landed" => /\ landed' = [landed EXCEPT ![p] = @ + 1]
                            /\ \E k \in 1..Amount : Sells(Token(p), pos[p].amount, k)
                                                    /\ NewAccount(Token(p), account[Token(p)] - k)
        /\ f = "failed" => UNCHANGED <<account, view, landed>>
  BY DEF SellLands
<1>3. /\ \A o \in Pools \ {p} : pos'[o] = pos[o]
      /\ pos'[p] = [pos[p] EXCEPT !.pending = [fate |-> f, past |-> pos[p].pending.past]]
  BY <1>0, <1>1, <1>2, FateUpdate DEF Fates
<1>4. /\ pos'[p].status = pos[p].status /\ pos'[p].total = pos[p].total
      /\ pos'[p].closeSent = pos[p].closeSent /\ pos'[p].draining = pos[p].draining
      /\ pos'[p].amount = pos[p].amount /\ pos'[p].pending = [fate |-> f, past |-> pos[p].pending.past]
  BY <1>0, <1>3 DEF TypeOK, Position
<1>5. [fate |-> f, past |-> pos[p].pending.past] # None
  <2>1. pos[p].pending \in Sent
    BY <1>0, <1>1 DEF TypeOK, Position
  <2>2. [fate |-> f, past |-> pos[p].pending.past] \in Sent
    BY <2>1 DEF Sent, Fates
  <2> QED BY <2>2, Bounds
<1>6. \A o \in Pools : Token(o)' = Token(o)
  BY <1>1 DEF Token
<1>7. /\ \A o \in Pools : /\ Gone(o)' /\ CloseLanded(o)' /\ NotBought(o)'
                          /\ pos[o].closeSent /\ view[Token(o)] = None => view'[Token(o)] = None
      /\ NothingStranded'
  <2>0. \A o \in Pools : pos'[o].closeSent = pos[o].closeSent /\ pos'[o].status = pos[o].status
    BY <1>3, <1>4
  <2>1. CASE f = "landed"
    <3>1. PICK k \in 1..Amount : Sells(Token(p), pos[p].amount, k) /\ NewAccount(Token(p), account[Token(p)] - k)
      BY <1>2, <2>1
    <3>2. account[Token(p)] \in Held \ {0} /\ account[Token(p)] - k \in Held
      BY <1>0, <3>1, SellTakes
    <3>3. account[Token(p)] \in 1..Amount
      BY <3>2, Bounds DEF Held
    <3>4. \A o \in Pools : Gone(o)
      BY DEF WalletInv, Wallet
    <3> QED BY <1>1, <1>0, <2>0, <3>1, <3>2, <3>3, <3>4, TakesWallet, TakesFollowed
  <2>2. CASE f = "failed"
    <3>1. UNCHANGED <<account, view>>
      BY <1>2, <2>2
    <3>2. \A o \in Pools : /\ Gone(o)' /\ CloseLanded(o)' /\ NotBought(o)'
      BY <1>1, <1>6, <2>0, <3>1 DEF WalletInv, Wallet, Gone, CloseLanded, NotBought
    <3> QED BY <1>1, <2>0, <3>1, <3>2, SameFollowed
  <2> QED BY <2>1, <2>2
<1>8. ASSUME NEW o \in Pools PROVE Wallet(o)'
  <2>1. CASE o # p
    <3>1. Wallet(o) /\ landed'[o] = landed[o]
      BY <1>0, <1>2, <2>1 DEF WalletInv, TypeOK
    <3>2. /\ pos'[o] = pos[o] /\ pc'[o] = pc[o] /\ job'[o] = job[o] /\ close'[o] = close[o]
          /\ (o \in late => o \in late') /\ Token(o)' = Token(o)
      BY <1>1, <1>3, <1>6, <2>1
    <3>3. /\ Gone(o)' /\ CloseLanded(o)' /\ NotBought(o)'
          /\ (pc[o] = "close" /\ view[Token(o)] = None /\ pos[o].closeSent => view'[Token(o)] = None)
      BY <1>7
    <3> QED BY <3>1, <3>2, <3>3, StaysWallet
  <2>2. CASE o = p
    <3>0. Wallet(p)
      BY DEF WalletInv
    <3>1. Counted(p)'
      <4>1. landed[p] \in Nat /\ pos[p].total \in Nat
        BY <1>0 DEF TypeOK, Position
      <4>2. Unread(pos[p]) = 0
        BY <1>1 DEF Unread
      <4>3. CASE f = "landed"
        <5>1. landed'[p] = landed[p] + 1 /\ Unread(pos'[p]) = 1
          BY <1>0, <1>2, <1>4, <1>5, <4>3 DEF Unread, TypeOK
        <5> QED BY <1>4, <3>0, <4>1, <4>2, <5>1 DEF Counted, Wallet, Unread
      <4>4. CASE f = "failed"
        <5>1. landed'[p] = landed[p] /\ Unread(pos'[p]) = 0
          BY <1>2, <1>4, <1>5, <4>4 DEF Unread
        <5> QED BY <1>4, <3>0, <4>1, <4>2, <5>1 DEF Counted, Wallet, Unread
      <4> QED BY <4>3, <4>4
    <3>2. Decides(p, pos[p], pc[p], job[p])'
      <4>1. pc'[p] \notin {"sell", "close"}
        BY <1>1 DEF WalletInv, FitsInv, Fits
      <4> QED BY <4>1 DEF Decides
    <3>3. Gone(p)' /\ CloseLanded(p)' /\ NotBought(p)'
      BY <1>7
    <3> QED BY <2>2, <3>1, <3>2, <3>3 DEF Wallet
  <2> QED BY <2>1, <2>2
<1>9. OnlyCloses'
  BY <1>1 DEF WalletInv, OnlyCloses
<1> QED BY <1>0, <1>7, <1>8, <1>9 DEF WalletInv

LEMMA CloseLandsWallet ==
  ASSUME WalletInv, NEW p \in Pools, CloseLands(p)
  PROVE  WalletInv'
<1>0. /\ TypeOK /\ FitsInv /\ FitsInv' /\ Token(p) \in Tokens /\ close[p] \in Sent
  BY CloseLandsFits, TokenType DEF WalletInv, FitsInv, TypeOK, CloseLands, Live
<1>1. UNCHANGED <<scene, late, adrift, pos, pc, job, buy, seen, running, sellOnly, saved, landed, told, unlisted>>
  BY DEF CloseLands, trade
<1>2. \A o \in Pools : Token(o)' = Token(o)
  BY <1>1 DEF Token
<1>3. PICK f \in {"landed", "failed"} :
        /\ close' = [close EXCEPT ![p].fate = f]
        /\ f = "landed" => account[Token(p)] = job[p].burn /\ NewAccount(Token(p), None)
        /\ f = "failed" => UNCHANGED <<account, view>>
  BY DEF CloseLands
<1>4. close' = [close EXCEPT ![p] = [close[p] EXCEPT !.fate = f]]
  BY <1>3
<1>5. /\ close'[p] = [close[p] EXCEPT !.fate = f] /\ close'[p].fate = f
      /\ \A o \in Pools \ {p} : close'[o] = close[o]
  BY <1>0, <1>4 DEF TypeOK, Sent
<1>6. account' \in [Tokens -> Account] /\ job[p].burn \in Held /\ None \notin 1..Amount /\ None \notin Held
  BY <1>0, Bounds, SomeHeld DEF FitsInv, TypeOK
<1>7. /\ account'[Token(p)] = (IF f = "landed" THEN None ELSE account[Token(p)])
      /\ view'[Token(p)] \in {view[Token(p)]} \cup (IF f = "landed" THEN {None} ELSE {})
      /\ \A u \in Tokens \ {Token(p)} : account'[u] = account[u] /\ view'[u] \in {view[u], account[u]}
  <2>1. CASE f = "landed"
    BY <1>0, <1>3, <2>1, NewAccountSets
  <2>2. CASE f = "failed"
    BY <1>3, <2>2
  <2> QED BY <2>1, <2>2
<1>8. \A o \in Pools : Token(o) \in Tokens
  BY <1>0, TokenType
<1>9. ASSUME NEW o \in Pools PROVE Wallet(o)'
  <2>0. Wallet(o)
    BY DEF WalletInv
  <2>1. Counted(o)'
    BY <1>1, <2>0 DEF Wallet, Counted, Unread
  <2>2. Gone(o)' /\ NotBought(o)'
    BY <1>1, <1>2, <1>6, <1>7, <1>8, <2>0 DEF Wallet, Gone, NotBought
  <2>3. CloseLanded(o)'
    BY <1>2, <1>5, <1>7, <1>8, <2>0 DEF Wallet, CloseLanded
  <2>4. Decides(o, pos[o], pc[o], job[o])'
    <3>1. view[Token(o)] = None /\ pos[o].closeSent => view'[Token(o)] = None
      BY <1>7, <1>8, <2>0 DEF Wallet, Gone
    <3> QED BY <1>1, <1>2, <2>0, <3>1 DEF Wallet, Decides
  <2> QED BY <2>1, <2>2, <2>3, <2>4 DEF Wallet
<1>10. NothingStranded'
  <2>1. \A u \in Tokens : account'[u] \in 1..Amount => account[u] \in 1..Amount
    BY <1>6, <1>7
  <2> QED BY <1>1, <2>1 DEF WalletInv, NothingStranded, PoolsOf, Token
<1> QED BY <1>0, <1>1, <1>9, <1>10 DEF WalletInv, OnlyCloses

(* What follows the positions changes, the positions and the checks do not. *)
LEMMA AroundWallet ==
  ASSUME WalletInv, FitsInv', OnlyCloses', NothingStranded',
         UNCHANGED <<scene, pos, pc, job, close, landed>>, late \subseteq late',
         \A o \in Pools :
           /\ Gone(o)' /\ CloseLanded(o)' /\ NotBought(o)'
           /\ pos[o].closeSent /\ view[Token(o)] = None => view'[Token(o)] = None
  PROVE  WalletInv'
<1>1. ASSUME NEW o \in Pools PROVE Wallet(o)'
  <2>1. Wallet(o) /\ Token(o)' = Token(o) /\ (o \in late => o \in late')
    BY DEF WalletInv, Token
  <2>2. /\ Gone(o)' /\ CloseLanded(o)' /\ NotBought(o)'
        /\ pc[o] = "close" /\ view[Token(o)] = None /\ pos[o].closeSent => view'[Token(o)] = None
    OBVIOUS
  <2> QED BY <2>1, <2>2, StaysWallet
<1> QED BY <1>1 DEF WalletInv

(* The same, and the chain as it was. *)
LEMMA QuietWallet ==
  ASSUME WalletInv, FitsInv', NothingStranded',
         UNCHANGED <<scene, account, view, adrift, pos, pc, job, close, landed>>, late \subseteq late',
         \A o \in Pools : NotBought(o)'
  PROVE  WalletInv'
<1>1. \A o \in Pools : Token(o)' = Token(o)
  BY DEF Token
<1>2. \A o \in Pools : Gone(o)' /\ CloseLanded(o)'
  BY <1>1 DEF WalletInv, Wallet, Gone, CloseLanded
<1>3. OnlyCloses'
  BY DEF WalletInv, OnlyCloses
<1> QED BY <1>2, <1>3, AroundWallet

LEMMA AdriftLandsWallet ==
  ASSUME WalletInv, NEW t \in Tokens, AdriftLands(t)
  PROVE  WalletInv'
<1>0. TypeOK /\ FitsInv /\ FitsInv'
  BY AdriftLandsFits DEF WalletInv, FitsInv
<1>1. UNCHANGED <<scene, late, pos, pc, job, close, buy, told, unlisted>>
  BY DEF AdriftLands, checks
<1>2. PICK d \in adrift[t] :
        /\ adrift' = [adrift EXCEPT ![t] = @ \ {d}]
        /\ \/ account[t] = d.amount /\ NewAccount(t, None) /\ UNCHANGED landed
           \/ UNCHANGED <<account, view, landed>>
  BY DEF AdriftLands, WalletInv, OnlyCloses
<1>3. OnlyCloses' /\ d.amount \in Held /\ UNCHANGED landed
  BY <1>0, <1>2 DEF WalletInv, OnlyCloses, TypeOK, Drift
<1>4. CASE account[t] = d.amount /\ NewAccount(t, None)
  <2>1. \A o \in Pools : Gone(o)
    BY DEF WalletInv, Wallet
  <2>2. \A o \in Pools :
           /\ Gone(o)' /\ CloseLanded(o)' /\ NotBought(o)'
           /\ pos[o].closeSent /\ view[Token(o)] = None => view'[Token(o)] = None
    BY <1>1, <1>3, <1>4, <2>1, TakesWallet
  <2>3. NothingStranded'
    BY <1>1, <1>3, <1>4, TakesFollowed
  <2> QED BY <1>0, <1>1, <1>3, <2>2, <2>3, AroundWallet
<1>5. CASE UNCHANGED <<account, view>>
  <2>1. \A o \in Pools : Token(o)' = Token(o)
    BY <1>1 DEF Token
  <2>2. \A o \in Pools : Gone(o)' /\ CloseLanded(o)' /\ NotBought(o)'
    BY <1>1, <1>5, <2>1 DEF WalletInv, Wallet, Gone, CloseLanded, NotBought
  <2>3. NothingStranded'
    BY <1>1, <1>5, SameFollowed
  <2> QED BY <1>0, <1>1, <1>3, <1>5, <2>2, <2>3, AroundWallet
<1> QED BY <1>2, <1>4, <1>5

LEMMA CatchesUpWallet ==
  ASSUME WalletInv, NEW t \in Tokens, CatchesUp(t)
  PROVE  WalletInv'
<1>0. TypeOK /\ FitsInv'
  BY WorldFits DEF WalletInv, FitsInv, World
<1>1. /\ UNCHANGED <<scene, account, late, adrift, pos, pc, job, close, buy, landed, told, unlisted>>
      /\ \A u \in Tokens : view'[u] \in {view[u], account[u]}
  BY <1>0 DEF CatchesUp, checks, TypeOK
<1>2. \A o \in Pools : Token(o) \in Tokens /\ Token(o)' = Token(o)
  BY <1>0, <1>1, TokenType DEF Token
<1>3. \A o \in Pools : Gone(o)' /\ CloseLanded(o)' /\ NotBought(o)'
  BY <1>1, <1>2 DEF WalletInv, Wallet, Gone, CloseLanded, NotBought
<1>4. \A o \in Pools : pos[o].closeSent /\ view[Token(o)] = None => view'[Token(o)] = None
  BY <1>1, <1>2 DEF WalletInv, Wallet, Gone
<1>5. NothingStranded'
  BY <1>1, SameFollowed
<1>6. OnlyCloses'
  BY <1>1 DEF WalletInv, OnlyCloses
<1> QED BY <1>0, <1>1, <1>3, <1>4, <1>5, <1>6, AroundWallet

LEMMA TimesOutWallet ==
  ASSUME WalletInv, NEW p \in Pools, TimesOut(p)
  PROVE  WalletInv'
<1>1. /\ UNCHANGED <<scene, account, view, adrift, pos, pc, job, close, buy, landed, told, unlisted>>
      /\ late \subseteq late'
  BY DEF TimesOut, checks
<1>2. FitsInv'
  BY WorldFits DEF WalletInv, World
<1>3. NothingStranded'
  BY <1>1, SameFollowed
<1>4. \A o \in Pools : NotBought(o)'
  BY <1>1 DEF WalletInv, Wallet, NotBought, Token
<1> QED BY <1>1, <1>2, <1>3, <1>4, QuietWallet

(* A pool with the token of one that is taken has nothing of its own. *)
LEMMA Elsewhere ==
  ASSUME FitsInv, NEW p \in Pools, NEW o \in Pools, Token(p) = Token(o), Taken(p), o # p
  PROVE  Blank(pos[o]) /\ pc[o] = "idle" /\ close[o] = None /\ buy[o] = "none"
<1>1. ~Taken(o)
  BY Alone
<1> QED BY <1>1 DEF FitsInv, Fits, Taken

LEMMA BuyingIsBlank ==
  ASSUME FitsInv, NEW p \in Pools, buy[p] # "none"
  PROVE  Taken(p) /\ Blank(pos[p]) /\ pc[p] = "idle" /\ close[p] = None
BY DEF FitsInv, Fits, Taken

LEMMA BuyLandsWallet ==
  ASSUME WalletInv, NEW p \in Pools, BuyLands(p)
  PROVE  WalletInv'
<1>0. TypeOK /\ FitsInv /\ FitsInv' /\ Token(p) \in Tokens
  BY BuyLandsFits, TokenType DEF WalletInv, FitsInv
<1>1. buy[p] = "unseen" /\ UNCHANGED <<scene, late, pos, pc, job, close, landed, told, unlisted>>
  BY DEF BuyLands, checks
<1>2. \A o \in Pools : Token(o) \in Tokens /\ Token(o)' = Token(o)
  BY <1>0, <1>1, TokenType DEF Token
<1>3. OnlyCloses'
  BY <1>0 DEF BuyLands, WalletInv, OnlyCloses, TypeOK
<1>4. CASE NewAccount(Token(p), Amount) /\ buy' = [buy EXCEPT ![p] = "landed"]
  <2>1. /\ account'[Token(p)] = Amount /\ buy'[p] = "landed" /\ \A o \in Pools \ {p} : buy'[o] = buy[o]
        /\ \A u \in Tokens \ {Token(p)} : account'[u] = account[u] /\ view'[u] \in {view[u], account[u]}
    BY <1>0, <1>4, NewAccountSets DEF TypeOK
  <2>2. ASSUME NEW o \in Pools
        PROVE  /\ Gone(o)' /\ CloseLanded(o)' /\ NotBought(o)'
               /\ pos[o].closeSent /\ view[Token(o)] = None => view'[Token(o)] = None
    <3>0. Wallet(o)
      BY DEF WalletInv
    <3>1. CASE Token(o) # Token(p)
      BY <1>1, <1>2, <2>1, <3>0, <3>1 DEF Wallet, Gone, CloseLanded, NotBought
    <3>2. CASE Token(o) = Token(p)
      <4>1. ~pos[o].closeSent /\ pc[o] = "idle" /\ close[o] = None /\ (o # p => buy[o] = "none")
        BY <1>0, <1>1, <3>2, BuyingIsBlank, Elsewhere DEF Blank
      <4> QED BY <1>1, <2>1, <4>1 DEF Gone, CloseLanded, NotBought
    <3> QED BY <3>1, <3>2
  <2>3. NothingStranded'
    <3> SUFFICES ASSUME NEW t \in Tokens, account'[t] \in 1..Amount, t \notin told \cup unlisted
                 PROVE  (\E o \in PoolsOf(t) : pos[o].status \in {"active", "selling", "failed"} \/ buy[o] # "none")'
      BY <1>1 DEF NothingStranded
    <3>1. CASE t = Token(p)
      <4>1. p \in PoolsOf(t)'
        BY <1>2, <3>1 DEF PoolsOf
      <4> QED BY <2>1, <4>1
    <3>2. CASE t # Token(p)
      <4>1. account[t] \in 1..Amount
        BY <2>1, <3>2
      <4>2. PICK o \in PoolsOf(t) : pos[o].status \in {"active", "selling", "failed"} \/ buy[o] # "none"
        BY <4>1 DEF WalletInv, NothingStranded
      <4>3. o \in Pools /\ o \in PoolsOf(t)' /\ o # p
        BY <1>2, <3>2, <4>2 DEF PoolsOf
      <4> QED BY <1>1, <2>1, <4>2, <4>3
    <3> QED BY <3>1, <3>2
  <2> QED BY <1>0, <1>1, <1>3, <2>2, <2>3, AroundWallet
<1>5. CASE buy' = [buy EXCEPT ![p] = "failed"] /\ UNCHANGED <<account, view, adrift>>
  <2>1. buy'[p] = "failed" /\ \A o \in Pools \ {p} : buy'[o] = buy[o]
    BY <1>0, <1>5 DEF TypeOK
  <2>2. \A o \in Pools : NotBought(o)'
    BY <1>1, <1>2, <1>5, <2>1 DEF WalletInv, Wallet, NotBought
  <2>3. NothingStranded'
    BY <1>1, <1>5, <2>1, SameFollowed
  <2> QED BY <1>0, <1>1, <1>5, <2>2, <2>3, QuietWallet
<1> QED BY <1>4, <1>5 DEF BuyLands

LEMMA PastWallet ==
  ASSUME WalletInv, NEW p \in Pools, Past(p)
  PROVE  WalletInv'
<1>0. TypeOK /\ FitsInv /\ FitsInv'
  BY PastFits DEF WalletInv, FitsInv
<1>1. UNCHANGED <<scene, account, view, late, adrift, pc, job, landed, told, unlisted>>
  BY DEF Past, chain
<1>2. \A o \in Pools : Token(o)' = Token(o) /\ Wallet(o)
  BY <1>1 DEF Token, WalletInv
<1>3. OnlyCloses'
  BY <1>1 DEF WalletInv, OnlyCloses
<1>4. CASE /\ pos[p].pending # None /\ pos' = [pos EXCEPT ![p].pending.past = TRUE]
           /\ UNCHANGED <<buy, close>>
  <2>1. /\ \A o \in Pools \ {p} : pos'[o] = pos[o]
        /\ pos'[p] = [pos[p] EXCEPT !.pending = [fate |-> pos[p].pending.fate, past |-> TRUE]]
    BY <1>0, <1>4, PastUpdate
  <2>2. /\ pos[p] \in Position /\ [fate |-> pos[p].pending.fate, past |-> TRUE] \in Sent
    BY <1>0, <1>4 DEF TypeOK, Position, Sent
  <2>3. /\ pos'[p].status = pos[p].status /\ pos'[p].total = pos[p].total
        /\ pos'[p].closeSent = pos[p].closeSent
        /\ pos'[p].pending = [fate |-> pos[p].pending.fate, past |-> TRUE]
    BY <2>1, <2>2 DEF Position
  <2>4. Unread(pos'[p]) = Unread(pos[p])
    <3>1. pos'[p].pending # None
      BY <2>2, <2>3, Bounds
    <3>2. pos'[p].pending.fate = pos[p].pending.fate
      BY <2>3
    <3> QED BY <1>4, <3>1, <3>2 DEF Unread
  <2>5. \A o \in Pools : Counted(o)'
    BY <1>1, <1>2, <2>1, <2>3, <2>4 DEF Wallet, Counted
  <2>6. \A o \in Pools : Gone(o)' /\ CloseLanded(o)' /\ NotBought(o)'
    BY <1>1, <1>2, <1>4, <2>1, <2>3 DEF Wallet, Gone, CloseLanded, NotBought
  <2>7. ASSUME NEW o \in Pools PROVE Decides(o, pos[o], pc[o], job[o])'
    <3>1. CASE o = p
      <4>1. pc'[p] \notin {"sell", "close"}
        BY <1>0, <1>1, <1>4 DEF FitsInv, Fits
      <4> QED BY <3>1, <4>1 DEF Decides
    <3>2. CASE o # p
      BY <1>1, <1>2, <2>1, <3>2 DEF Wallet, Decides
    <3> QED BY <3>1, <3>2
  <2>8. NothingStranded'
    <3>1. \A o \in Pools : /\ pos'[o].status = pos[o].status
                           /\ buy[o] # "none" => buy'[o] # "none"
      BY <1>4, <2>1, <2>3
    <3> QED BY <1>1, <3>1, SameFollowed
  <2> QED BY <1>0, <1>3, <2>5, <2>6, <2>7, <2>8 DEF WalletInv, Wallet
<1>5. CASE Live(close[p]) /\ close' = [close EXCEPT ![p].past = TRUE] /\ UNCHANGED <<buy, pos>>
  <2>1. close[p] \in Sent /\ close' = [close EXCEPT ![p] = [close[p] EXCEPT !.past = TRUE]]
    BY <1>0, <1>5 DEF TypeOK, Live
  <2>2. /\ close'[p].fate = close[p].fate /\ \A o \in Pools \ {p} : close'[o] = close[o]
    BY <1>0, <2>1 DEF TypeOK, Sent
  <2>3. close[p] # None
    BY <1>5 DEF Live
  <2>4. \A o \in Pools : Counted(o)' /\ Gone(o)' /\ NotBought(o)' /\ Decides(o, pos[o], pc[o], job[o])'
    BY <1>1, <1>2, <1>5 DEF Wallet, Counted, Gone, NotBought, Decides, Unread
  <2>5. \A o \in Pools : CloseLanded(o)'
    BY <1>1, <1>2, <2>2, <2>3 DEF Wallet, CloseLanded
  <2>6. NothingStranded'
    BY <1>1, <1>5, SameFollowed
  <2> QED BY <1>0, <1>3, <2>4, <2>5, <2>6 DEF WalletInv, Wallet
<1>6. CASE buy[p] = "unseen" /\ buy' = [buy EXCEPT ![p] = "past"] /\ UNCHANGED <<pos, close>>
  <2>1. buy'[p] = "past" /\ \A o \in Pools \ {p} : buy'[o] = buy[o]
    BY <1>0, <1>6 DEF TypeOK
  <2>2. \A o \in Pools : NotBought(o)'
    BY <1>1, <1>2, <2>1 DEF Wallet, NotBought
  <2>3. NothingStranded'
    BY <1>1, <1>6, <2>1, SameFollowed
  <2> QED BY <1>0, <1>1, <1>6, <2>2, <2>3, QuietWallet
<1> QED BY <1>4, <1>5, <1>6 DEF Past

LEMMA WorldWallet ==
  ASSUME WalletInv, World
  PROVE  WalletInv'
  BY SellLandsWallet, CloseLandsWallet, BuyLandsWallet, PastWallet, TimesOutWallet,
     AdriftLandsWallet, CatchesUpWallet DEF World

-----------------------------------------------------------------------------
(* A buy, and the app itself. *)

LEMMA NewPoolWallet ==
  ASSUME WalletInv, NEW p \in Pools, NewPool(p)
  PROVE  WalletInv'
<1>0. TypeOK /\ FitsInv' /\ Token(p) \in Tokens
  BY NewPoolFits, TokenType DEF WalletInv, FitsInv
<1>1. /\ UNCHANGED <<scene, account, view, late, adrift, pos, pc, job, close, landed, told, unlisted>>
      /\ buy'[p] = "prepare" /\ \A o \in Pools \ {p} : buy'[o] = buy[o]
  BY <1>0 DEF NewPool, Buy, chain, checks, TypeOK
<1>2. \A o \in PoolsOf(Token(p)) : pos[o].status \in {"none", "closed"} /\ buy[o] = "none"
  BY DEF NewPool, TokenIsFree, PoolsOf
<1>3. account[Token(p)] \in 1..Amount => Token(p) \in told \cup unlisted
  BY <1>0, <1>2 DEF WalletInv, NothingStranded
<1>4. \A o \in Pools : NotBought(o)'
  BY <1>1, <1>3 DEF WalletInv, Wallet, NotBought, Token
<1>5. NothingStranded'
  BY <1>1, SameFollowed
<1> QED BY <1>0, <1>1, <1>4, <1>5, QuietWallet

(* A buy that goes on, or ends with nothing bought or the operator told. *)
LEMMA BuyGoesOnWallet ==
  ASSUME WalletInv, FitsInv', NEW p \in Pools, NEW b, buy[p] # "none", Buy(p, b),
         UNCHANGED <<chain, pos, seen, landed, unlisted>>, told \subseteq told',
         b = "none" => (account[Token(p)] \in 1..Amount => Token(p) \in (told \cup unlisted)'),
         b = "unseen" => buy[p] = "prepare", b \notin {"prepare", "failed"}
  PROVE  WalletInv'
<1>0. TypeOK
  BY DEF WalletInv, FitsInv
<1>1. /\ UNCHANGED <<scene, account, view, late, adrift, pos, pc, job, close, landed, unlisted>>
      /\ buy'[p] = b /\ \A o \in Pools \ {p} : buy'[o] = buy[o]
  BY <1>0 DEF Buy, chain, checks, TypeOK
<1>2. \A o \in Pools : Token(o)' = Token(o)
  BY <1>1 DEF Token
<1>3. \A o \in Pools : NotBought(o)'
  BY <1>1, <1>2 DEF WalletInv, Wallet, NotBought
<1>4. NothingStranded'
  <2> SUFFICES ASSUME NEW t \in Tokens, account[t] \in 1..Amount, t \notin (told \cup unlisted)'
               PROVE  (\E o \in PoolsOf(t) : pos[o].status \in {"active", "selling", "failed"} \/ buy[o] # "none")'
    BY <1>1 DEF NothingStranded
  <2>1. PICK o \in PoolsOf(t) : pos[o].status \in {"active", "selling", "failed"} \/ buy[o] # "none"
    BY DEF WalletInv, NothingStranded
  <2>2. o \in Pools /\ o \in PoolsOf(t)' /\ Token(o) = t
    BY <1>2, <2>1 DEF PoolsOf
  <2>3. o = p => b # "none"
    BY <2>2
  <2> QED BY <1>1, <2>1, <2>2, <2>3
<1> QED BY <1>1, <1>3, <1>4, QuietWallet

LEMMA OpenPositionWallet ==
  ASSUME WalletInv, NEW p \in Pools, OpenPosition(p)
  PROVE  WalletInv'
<1>0. TypeOK /\ FitsInv /\ FitsInv' /\ Token(p) \in Tokens
  BY BuyStepFits, TokenType DEF WalletInv, FitsInv, BuyStep
<1>1. PICK n \in Held, known \in BOOLEAN : Becomes(p, Opened(n, known, FALSE))
  BY SomeHeld, Bounds DEF OpenPosition
<1>2. /\ Opened(n, known, FALSE).status = "active" /\ Blank(Opened(n, known, FALSE))
  BY OpenedType
<1>3. /\ buy[p] = "open" /\ buy' = [buy EXCEPT ![p] = "none"] /\ told' = told \ {Token(p)}
      /\ unlisted' = unlisted \ {Token(p)}
      /\ UNCHANGED <<scene, account, view, late, adrift, pc, job, close, landed>>
  BY DEF OpenPosition, Buy, chain, checks
<1> HIDE DEF Opened
<1>4. /\ pos'[p] = Opened(n, known, FALSE) /\ \A o \in Pools \ {p} : pos'[o] = pos[o]
      /\ buy'[p] = "none" /\ \A o \in Pools \ {p} : buy'[o] = buy[o]
  BY <1>0, <1>1, <1>3 DEF Becomes, TypeOK
<1>5. Taken(p) /\ Blank(pos[p]) /\ pc[p] = "idle" /\ close[p] = None
  BY <1>0, <1>3, BuyingIsBlank
<1>6. \A o \in Pools : Token(o)' = Token(o) /\ Wallet(o)
  BY <1>3 DEF Token, WalletInv
<1>7. ASSUME NEW o \in Pools PROVE Wallet(o)'
  <2>1. CASE o = p
    <3>1. Counted(p)'
      <4>1. pos[p].status # "failed"
        BY <1>0, <1>3 DEF FitsInv, Fits
      <4> QED BY <1>2, <1>3, <1>4, <1>5, <1>6, <4>1 DEF Counted, Wallet, Blank, Unread
    <3>2. Gone(p)' /\ CloseLanded(p)' /\ NotBought(p)' /\ Decides(p, pos[p], pc[p], job[p])'
      BY <1>2, <1>3, <1>4, <1>5 DEF Gone, CloseLanded, NotBought, Decides, Blank
    <3> QED BY <2>1, <3>1, <3>2 DEF Wallet
  <2>2. CASE o # p
    <3>1. NotBought(o)'
      <4>1. Token(o) = Token(p) => buy[o] = "none"
        BY <1>0, <1>5, <2>2, Elsewhere
      <4> QED BY <1>3, <1>4, <1>6, <2>2, <4>1 DEF Wallet, NotBought
    <3>2. Counted(o)' /\ Gone(o)' /\ CloseLanded(o)' /\ Decides(o, pos[o], pc[o], job[o])'
      BY <1>3, <1>4, <1>6, <2>2 DEF Wallet, Counted, Gone, CloseLanded, Decides, Unread
    <3> QED BY <3>1, <3>2 DEF Wallet
  <2> QED BY <2>1, <2>2
<1>8. NothingStranded'
  <2> SUFFICES ASSUME NEW t \in Tokens, account[t] \in 1..Amount, t \notin (told \cup unlisted)'
               PROVE  (\E o \in PoolsOf(t) : pos[o].status \in {"active", "selling", "failed"} \/ buy[o] # "none")'
    BY <1>3 DEF NothingStranded
  <2>1. CASE t = Token(p)
    <3>1. p \in PoolsOf(t)'
      BY <1>6, <2>1 DEF PoolsOf
    <3> QED BY <1>2, <1>4, <3>1
  <2>2. CASE t # Token(p)
    <3>1. PICK o \in PoolsOf(t) : pos[o].status \in {"active", "selling", "failed"} \/ buy[o] # "none"
      BY <1>3, <2>2 DEF WalletInv, NothingStranded
    <3>2. o \in Pools /\ o \in PoolsOf(t)' /\ o # p
      BY <1>6, <2>2, <3>1 DEF PoolsOf
    <3> QED BY <1>4, <3>1, <3>2
  <2> QED BY <2>1, <2>2
<1>9. OnlyCloses'
  BY <1>3 DEF WalletInv, OnlyCloses
<1> QED BY <1>0, <1>7, <1>8, <1>9 DEF WalletInv

LEMMA BuyStepWallet ==
  ASSUME WalletInv, NEW p \in Pools, BuyStep(p)
  PROVE  WalletInv'
<1>0. FitsInv' /\ NotBought(p) /\ None \notin 1..Amount
  BY BuyStepFits, Bounds, SomeHeld DEF WalletInv, Wallet
<1>1. CASE SendBuy(p)
  <2>1. PICK b \in {"unseen", "none"} : Buy(p, b)
    BY <1>1 DEF SendBuy
  <2> QED BY <1>0, <1>1, <2>1, BuyGoesOnWallet DEF SendBuy, NotBought
<1>2. CASE SettleBuy(p)
  <2>1. PICK b \in {"open", "none", "wallet"} : Buy(p, b) /\ (b = "none" => buy[p] = "failed")
    BY <1>2 DEF SettleBuy
  <2> QED BY <1>0, <1>2, <2>1, BuyGoesOnWallet DEF SettleBuy, NotBought
<1>3. CASE ReadWallet(p)
  <2>1. PICK b \in {"open", "none"} :
          Buy(p, b) /\ told \subseteq told' /\ (b = "none" => Token(p) \in told')
    BY <1>3 DEF ReadWallet
  <2> QED BY <1>0, <1>3, <2>1, BuyGoesOnWallet DEF ReadWallet
<1> QED BY <1>1, <1>2, <1>3, OpenPositionWallet DEF BuyStep

LEMMA SwitchWallet ==
  ASSUME WalletInv, NEW w \in Wanted, Switch(w)
  PROVE  WalletInv'
<1>1. UNCHANGED <<scene, account, view, late, adrift, pos, pc, job, close, buy, landed, told, unlisted>>
  BY DEF Switch, chain, checks
<1>2. FitsInv'
  BY SwitchFits DEF WalletInv
<1>3. NothingStranded'
  BY <1>1, SameFollowed
<1>4. \A o \in Pools : NotBought(o)'
  BY <1>1 DEF WalletInv, Wallet, NotBought, Token
<1> QED BY <1>1, <1>2, <1>3, <1>4, QuietWallet

(* What was sent has landed or cannot, and the RPC shows it. *)
LEMMA RestartWallet ==
  ASSUME Races = {}, WalletInv, Restart
  PROVE  WalletInv'
<1>0. TypeOK /\ FitsInv' /\ view = account /\ None \notin 1..Amount
  BY RestartFits, Bounds, SomeHeld DEF WalletInv, FitsInv, Restart, Settled
<1>1. PICK P \in TakenUp :
        /\ pos' = [p \in Pools |-> IF p \in P THEN Opened(Holding(p), TRUE, TRUE) ELSE NoPosition]
        /\ unlisted' \subseteq Tokens
        /\ told' = HeldTokens \ ({Token(p) : p \in P} \cup unlisted')
  BY DEF Restart, HeldTokens
<1>2. /\ \A p \in Pools : pc'[p] = "idle" /\ close'[p] = None /\ buy'[p] = "none" /\ landed'[p] = 0
      /\ UNCHANGED <<scene, account, view>>
  BY DEF Restart
<1>3. OnlyCloses'
  BY DEF Restart, Settled, OnlyCloses
<1>4. /\ P \subseteq Pools /\ \A p \in Pools : Blank(pos'[p])
      /\ \A p \in P : pos'[p].status = "active"
  BY <1>0, <1>1, RestartPositions
<1>5. \A p \in Pools : Wallet(p)'
  BY <1>2, <1>4 DEF Wallet, Counted, Gone, CloseLanded, NotBought, Decides, Blank, Unread
<1>6. NothingStranded'
  <2> SUFFICES ASSUME NEW t \in Tokens, account[t] \in 1..Amount, t \notin (told \cup unlisted)'
               PROVE  (\E o \in PoolsOf(t) : pos[o].status \in {"active", "selling", "failed"} \/ buy[o] # "none")'
    BY <1>2 DEF NothingStranded
  <2>1. PICK p \in P : Token(p) = t
    BY <1>0, <1>1, <1>2 DEF HeldTokens
  <2>2. p \in PoolsOf(t)'
    BY <1>2, <1>4, <2>1 DEF PoolsOf, Token
  <2> QED BY <1>4, <2>2
<1> QED BY <1>0, <1>3, <1>5, <1>6 DEF WalletInv

LEMMA WalletAtFirst == Init => WalletInv
<1> SUFFICES ASSUME Init PROVE WalletInv
  OBVIOUS
<1>1. Blank(NoPosition) /\ NoPosition.status = "none"
  BY NoPositionType DEF NoPosition
<1> HIDE DEF NoPosition
<1>2. \A p \in Pools : Wallet(p)
  BY <1>1 DEF Init, Wallet, Counted, Gone, CloseLanded, NotBought, Decides, Blank, Unread
<1>3. NothingStranded
  BY Bounds, SomeHeld DEF Init, NothingStranded
<1> QED BY <1>2, <1>3, FitsAtFirst DEF WalletInv, OnlyCloses, Init

LEMMA WalletKept == ASSUME Races = {} PROVE WalletInv /\ [Next]_vars => WalletInv'
<1> SUFFICES ASSUME WalletInv, [Next]_vars PROVE WalletInv'
  OBVIOUS
<1>1. ASSUME NEW p \in Pools, Check(p) PROVE WalletInv'
  BY <1>1, CheckOutcome, OutcomeWallet DEF WalletInv, FitsInv
<1>2. CASE UNCHANGED vars
  <2>1. UNCHANGED <<scene, account, view, late, adrift, pos, pc, job, close, buy, landed, told, unlisted>>
    BY <1>2 DEF vars, chain, checks
  <2>2. FitsInv'
    BY <1>2, FitsKept DEF WalletInv
  <2>3. NothingStranded'
    BY <2>1, SameFollowed
  <2>4. \A o \in Pools : NotBought(o)'
    BY <2>1 DEF WalletInv, Wallet, NotBought, Token
  <2> QED BY <2>1, <2>2, <2>3, <2>4, QuietWallet
<1> QED BY <1>1, <1>2, NewPoolWallet, BuyStepWallet, SwitchWallet, WorldWallet, RestartWallet DEF Next

-----------------------------------------------------------------------------
(* README: "Nothing new is signed while an earlier sell can still land":    *)
(* of a token, however its checks, sends that fail and restarts interleave. *)
THEOREM OneSell == ASSUME Races = {} PROVE Spec => []OneSellAtATime
<1>1. WalletInv => OneSellAtATime
  <2> SUFFICES ASSUME WalletInv, NEW t \in Tokens
               PROVE  Cardinality({p \in PoolsOf(t) : Live(pos[p].pending)})
                        + Cardinality({d \in adrift[t] : d.kind = "sell"}) <= 1
    BY DEF OneSellAtATime
  <2>1. {d \in adrift[t] : d.kind = "sell"} = {}
    BY DEF WalletInv, OnlyCloses
  <2>2. \A p, o \in {p \in PoolsOf(t) : Live(pos[p].pending)} : p = o
    BY Alone, ClosesAreTaken DEF WalletInv, PoolsOf, Live
  <2>3. /\ Cardinality({p \in PoolsOf(t) : Live(pos[p].pending)}) \in Nat
        /\ Cardinality({p \in PoolsOf(t) : Live(pos[p].pending)}) <= 1
    BY <2>2, AtMostOne
  <2>4. Cardinality({d \in adrift[t] : d.kind = "sell"}) = 0
    BY <2>1, FS_EmptySet
  <2> QED BY <2>3, <2>4
<1> QED BY <1>1, WalletAtFirst, WalletKept, PTL DEF Spec

(* Tokens that were bought are in a position, in a buy, or the operator was *)
(* told of them (settle_buy, restore_positions_from_wallet), unless the last *)
(* start could not list the accounts they are in.                           *)
THEOREM NothingIsStranded == ASSUME Races = {} PROVE Spec => []NothingStranded
<1>1. WalletInv => NothingStranded
  BY DEF WalletInv
<1> QED BY <1>1, WalletAtFirst, WalletKept, PTL DEF Spec

(* Only a check closes a position. *)
LEMMA ClosedByACheck ==
  ASSUME WalletInv, NEW p \in Pools, [Next]_vars, Closes(p)
  PROVE  account[Token(p)] = None /\ pos[p].total = landed[p]
<1>0. TypeOK /\ FitsInv /\ NoPosition.status = "none"
  BY DEF WalletInv, FitsInv, NoPosition
<1>1. pos[p].status # "closed" /\ pos'[p].status = "closed"
  BY DEF Closes
<1>2. ASSUME NEW o \in Pools, Check(o) PROVE account[Token(p)] = None /\ pos[p].total = landed[p]
  <2>0. Outcome(o)
    BY <1>0, <1>2, CheckOutcome DEF FitsInv
  <2>1. PICK q \in Position, x \in Steps, j \in Jobs, k \in Sent \cup {None} :
          Moved(o, q, x, j, k) /\ After(o, q, x, j, k) /\ Counts(o, q)
    BY <2>0 DEF Outcome
  <2>2. p = o /\ q.status = "closed"
    BY <1>0, <1>1, <2>1 DEF Moved, TypeOK
  <2> QED BY <2>1, <2>2, ClosesWhenGone
<1>3. ASSUME NEW o \in Pools, SellLands(o) PROVE FALSE
  <2>1. PICK f \in Fates : pos' = [pos EXCEPT ![o].pending.fate = f]
    BY <1>3 DEF SellLands, Fates
  <2>2. pos[o] \in Position /\ pos[o].pending # None
    BY <1>0, <1>3 DEF SellLands, Live, TypeOK
  <2>3. /\ pos'[o] = [pos[o] EXCEPT !.pending = [fate |-> f, past |-> pos[o].pending.past]]
        /\ \A a \in Pools \ {o} : pos'[a] = pos[a]
    BY <1>0, <2>1, <2>2, FateUpdate
  <2>4. pos'[o].status = pos[o].status
    BY <2>2, <2>3 DEF Position
  <2> QED BY <1>1, <2>3, <2>4
<1>4. ASSUME NEW o \in Pools, pos[o].pending # None, pos' = [pos EXCEPT ![o].pending.past = TRUE] PROVE FALSE
  <2>1. /\ pos'[o] = [pos[o] EXCEPT !.pending = [fate |-> pos[o].pending.fate, past |-> TRUE]]
        /\ \A a \in Pools \ {o} : pos'[a] = pos[a]
    BY <1>0, <1>4, PastUpdate
  <2>2. pos'[o].status = pos[o].status
    BY <1>0, <2>1 DEF TypeOK, Position
  <2> QED BY <1>1, <2>1, <2>2
<1>5. CASE UNCHANGED pos
  BY <1>1, <1>5
<1>6. ASSUME NEW o \in Pools, NEW n \in Held, NEW known \in BOOLEAN, Becomes(o, Opened(n, known, FALSE))
      PROVE  FALSE
  <2>1. Opened(n, known, FALSE).status = "active"
    BY OpenedType
  <2> HIDE DEF Opened
  <2> QED BY <1>0, <1>1, <1>6, <2>1 DEF Becomes, TypeOK
<1>7. ASSUME NEW o \in Pools, OpenPosition(o) PROVE FALSE
  BY <1>6, <1>7, SomeHeld, Bounds DEF OpenPosition
<1>8. ASSUME Restart PROVE FALSE
  <2>1. PICK P \in TakenUp :
          pos' = [a \in Pools |-> IF a \in P THEN Opened(Holding(a), TRUE, TRUE) ELSE NoPosition]
    BY <1>8 DEF Restart
  <2> QED BY <1>0, <1>1, <2>1, RestartPositions
<1>9. CASE World
  BY <1>3, <1>4, <1>5, <1>9
     DEF World, CloseLands, BuyLands, Past, TimesOut, AdriftLands, CatchesUp
<1> QED BY <1>2, <1>5, <1>7, <1>8, <1>9
        DEF Next, BuyStep, SendBuy, SettleBuy, ReadWallet, NewPool, Switch, vars

(* A position is over only when the account of its token is gone            *)
(* (close_position, ata_looks_closed).                                      *)
THEOREM ClosedAccountsAreGone == ASSUME Races = {} PROVE Spec => ClosedIsGone
<1>1. WalletInv /\ [Next]_vars => \A p \in Pools : Closes(p) => account[Token(p)] = None
  BY ClosedByACheck
<1> QED BY <1>1, WalletAtFirst, WalletKept, PTL DEF Spec, ClosedIsGone

(* And with what every sell that landed brought in counted                  *)
(* (record_sell_proceeds, resolve_pending).                                 *)
THEOREM EveryProceedIsCounted == ASSUME Races = {} PROVE Spec => ProceedsAreCounted
<1>1. WalletInv /\ [Next]_vars => \A p \in Pools : Closes(p) => pos[p].total = landed[p]
  BY ClosedByACheck
<1> QED BY <1>1, WalletAtFirst, WalletKept, PTL DEF Spec, ProceedsAreCounted

(* README: "a position drains only after a sell of it landed": whatever is  *)
(* sold or burned of one below its target was forced out, or a sell of it   *)
(* landed before (plan_sell, should_close, close_position).                 *)
THEOREM TargetsAreKept == ASSUME Races = {} PROVE Spec => TargetIsKept
<1>1. ASSUME WalletInv, [Next]_vars, NEW p \in Pools,
             pc[p] \in {"sell", "close"}, pc'[p] \in {"confirm", "closing"}, pos[p].amount # 0
      PROVE  landed[p] > 0 \/ p \in late \/ job[p].level \in {"up", "thin", "dry"}
  <2>0. /\ TypeOK /\ Fits(p) /\ Wallet(p) /\ pos[p].total \in Nat
        /\ pos[p].status = "selling" /\ pos[p].pending = None
    BY <1>1 DEF WalletInv, FitsInv, Fits, TypeOK, Position
  <2>1. pos[p].draining => landed[p] > 0
    BY <2>0 DEF Wallet, Fits, Counted, Unread
  <2>2. CASE pc[p] = "sell"
    BY <2>0, <2>1, <2>2 DEF Wallet, Decides
  <2>3. CASE pc[p] = "close"
    <3>1. view[Token(p)] # None
      <4>1. ASSUME NEW o \in Pools, Check(o) PROVE view[Token(p)] # None
        <5>1. p = o
          <6>1. Outcome(o)
            BY <1>1, <2>0, <4>1, CheckOutcome DEF WalletInv, FitsInv
          <6>2. \A a \in Pools \ {o} : pc'[a] = pc[a]
            BY <2>0, <6>1 DEF Outcome, Moved, TypeOK
          <6> QED BY <1>1, <6>2
        <5>2. SendClose(p)
          BY <2>0, <2>3, <4>1, <5>1
             DEF Check, Selling, ClaimForSell, MaySell, ReadHeight, ReadStatus, ReadHolding, PlanBurnAgain,
                 SendSell, ConfirmSell, ReadLeft, ConfirmClose
        <5>3. CASE Holding(p) = job[p].burn
          BY <2>0, <5>3, Bounds DEF Holding, TypeOK
        <5>4. CASE Holding(p) # job[p].burn
          <6>1. CloseStart(p) # "proceed"
            BY <5>4 DEF CloseStart
          <6>2. Done(p)
            BY <5>2, <6>1 DEF SendClose, Ends, CloseFails, SellFails
          <6> QED BY <1>1, <2>0, <6>2 DEF Done, TypeOK
        <5> QED BY <5>3, <5>4
      <4>2. CASE UNCHANGED pc
        BY <1>1, <4>2
      <4>3. CASE pc' = [a \in Pools |-> "idle"]
        BY <1>1, <4>3
      <4> QED BY <1>1, <4>1, <4>2, <4>3
              DEF Next, BuyStep, SendBuy, SettleBuy, ReadWallet, OpenPosition, NewPool, Buy, Switch, vars,
                  checks, World, SellLands, CloseLands, BuyLands, Past, TimesOut, AdriftLands, CatchesUp,
                  Restart
    <3> QED BY <1>1, <2>0, <2>1, <2>3, <3>1 DEF Wallet, Decides
  <2> QED BY <1>1, <2>2, <2>3
<1>2. WalletInv /\ [Next]_vars =>
        \A p \in Pools :
          (pc[p] \in {"sell", "close"} /\ pc'[p] \in {"confirm", "closing"} /\ pos[p].amount # 0)
            => landed[p] > 0 \/ p \in late \/ job[p].level \in {"up", "thin", "dry"}
  BY <1>1
<1> QED BY <1>2, WalletAtFirst, WalletKept, PTL DEF Spec, TargetIsKept
=============================================================================
