--------------------------- MODULE HourlyAccount ---------------------------
(***************************************************************************)
(* The account's products billed by the hour, as erpc sees them through    *)
(* user-api (crates/erpc-ai/src/actions.rs, crates/erpc/src/worker_vps.rs).*)
(* user-api is not in the repository; it is modelled from how the code     *)
(* uses it.  What is charged shows in two places, each with a delay of its *)
(* own: the status list, and the credit snapshot, cached for a minute.     *)
(***************************************************************************)
EXTENDS Integers, FiniteSets

CONSTANTS Lines,     \* kinds of data lines
          MaxBought  \* how many products are ever bought

ASSUME AccountAssumption ==
  /\ "vps" \notin Lines /\ "none" \notin Lines
  /\ MaxBought \in Nat \ {0}

Ids == 1..MaxBought
Kinds == Lines \cup {"vps"}
Places == {"server", "home"}

VARIABLES
  kind,    \* what each id that was bought is
  lets,    \* which address it is for: a worker's server, or this machine's
  charged, \* the products that are charged for
  listed,  \* those the status list has, with an endpoint
  shown,   \* those the credit snapshot has
  ready    \* those that are active (a VPS: that is up)

account == <<kind, lets, charged, listed, shown, ready>>
views == <<listed, shown>>

InitAccount ==
  /\ kind = [i \in Ids |-> "none"] /\ lets = [i \in Ids |-> "server"]
  /\ charged = {} /\ listed = {} /\ shown = {} /\ ready = {}

Bought == {i \in Ids : kind[i] # "none"}

(* hourly::start, as the account takes it: ids are given in order. *)
Starts(i, k, where) ==
  /\ i = Cardinality(Bought) + 1 /\ i \in Ids
  /\ kind' = [kind EXCEPT ![i] = k] /\ lets' = [lets EXCEPT ![i] = where]
  /\ charged' = charged \cup {i}
  /\ UNCHANGED <<listed, shown, ready>>

(* end_hourly_product asks for nothing that the snapshot does not show. *)
CanEnd(i) == i \in shown /\ i \in charged

Ends(i) ==
  /\ CanEnd(i)
  /\ charged' = charged \ {i} /\ ready' = ready \ {i}
  /\ UNCHANGED <<kind, lets, listed, shown>>

(* An entry that is behind catches up. *)
CatchesUp(set) == {(set \cup {i}) : i \in charged \ set} \cup {(set \ {i}) : i \in set \ charged}

ListCatchesUp == listed' \in CatchesUp(listed) /\ UNCHANGED <<kind, lets, charged, shown, ready>>
SnapshotCatchesUp == shown' \in CatchesUp(shown) /\ UNCHANGED <<kind, lets, charged, listed, ready>>

GetsReady ==
  /\ \E i \in (charged \cap listed) \ ready : ready' = ready \cup {i}
  /\ UNCHANGED <<kind, lets, charged, views>>

(* The operator ends one in the dashboard. *)
EndedElsewhere ==
  /\ \E i \in charged : charged' = charged \ {i} /\ ready' = ready \ {i}
  /\ UNCHANGED <<kind, lets, views>>

AccountTyped ==
  /\ kind \in [Ids -> Kinds \cup {"none"}] /\ lets \in [Ids -> Places]
  /\ charged \subseteq Ids /\ listed \subseteq Ids /\ shown \subseteq Ids /\ ready \subseteq Ids
=============================================================================
