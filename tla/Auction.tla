------------------------------- MODULE Auction ------------------------------
(***************************************************************************)
(* The auction saga of the Game service with PostgreSQL: CreateWithKey     *)
(* moves the seller's item into escrow and opens the listing, Buy reserves *)
(* it, charges the buyer, pays the seller and marks it sold.  The steps of *)
(* one call are separate transactions on the listing row and on the roles  *)
(* of two players, so calls interleave, and a call can end after any step: *)
(* an error, a cancelled request, a crash.  Retries are new calls.         *)
(*                                                                         *)
(* A role is what AtomicRole promises (RoleActor implements it): a grant   *)
(* is atomic and takes effect once per source.  The balance is checked     *)
(* first, also for a grant that was already made.                          *)
(*                                                                         *)
(* A grant that commits although its caller sees an error is the grant     *)
(* followed by Abort; so is every other lost answer.                       *)
(***************************************************************************)
EXTENDS Integers, FiniteSets

CONSTANTS
    Roles,          \* players: each may sell and buy
    Listings,       \* listings, named by the request key that creates them
    Calls,          \* requests in progress at the same time
    Price, Qty,     \* of each listing
    Purse, Stock,   \* gold and items every role starts with
    Income,         \* gold of one dungeon pass
    MaxLevel,       \* bound on dungeon passes of a role
    None            \* no role, no listing

ASSUME ListingAssumption ==
    Price \in [Listings -> Nat \ {0}] /\ Qty \in [Listings -> Nat \ {0}]
ASSUME StartAssumption ==
    Purse \in Nat /\ Stock \in Nat /\ Income \in Nat /\ MaxLevel \in Nat
ASSUME NobodyAssumption == None \notin Roles /\ None \notin Listings

Assets == {"gold", "item"}

\* The three source keys of a listing: "auction:escrow:ID", "auction:buyer:ID" and
\* "auction:seller:ID", with the bundles CreateWithKey and Buy send with them.
Legs == {"escrow", "buyer", "seller"}
SagaBundle ==
    [s \in Legs \X Listings |->
        [x \in Assets |->
            IF x = "gold"
              THEN CASE s[1] = "escrow" -> 0
                     [] s[1] = "buyer"  -> -Price[s[2]]
                     [] s[1] = "seller" -> Price[s[2]]
              ELSE CASE s[1] = "escrow" -> -Qty[s[2]]
                     [] s[1] = "buyer"  -> Qty[s[2]]
                     [] s[1] = "seller" -> 0]]
DungeonReward == [x \in Assets |-> IF x = "gold" THEN Income ELSE 0]
StartBalance == [x \in Assets |-> IF x = "gold" THEN Purse ELSE Stock]

INSTANCE RoleData WITH
    Sources <- Legs \X Listings, Bundle <- SagaBundle,
    Reward <- DungeonReward, InitBal <- StartBalance

VARIABLES
    role,       \* snapshot of each role
    ledger,     \* economy_ledger of each role
    listing,    \* auction_listings: status, seller and buyer
    call,       \* per request: where it is, for whom and about what
    released    \* history: reservations given back by ReleaseReservation

vars == <<role, ledger, listing, call, released>>

NoRow == [status |-> "none", seller |-> None, buyer |-> None]
Idle == [pc |-> "idle", role |-> None, id |-> None]

Init ==
    /\ role = [r \in Roles |-> InitData]
    /\ ledger = [r \in Roles |-> {}]
    /\ listing = [l \in Listings |-> NoRow]
    /\ call = [c \in Calls |-> Idle]
    /\ released = {}

Goto(c, label) == call' = [call EXCEPT ![c].pc = label]
Return(c) == call' = [call EXCEPT ![c] = Idle]

\* Manager.ApplyGrant on a role that can afford it: at most once per source.
GrantAgain(r, s) ==
    /\ role' = [role EXCEPT ![r] = ApplyBundle(@, s)]
    /\ ledger' = [ledger EXCEPT ![r] = @ \cup {s}]

ApplyGrant(r, s) ==
    IF s \in ledger[r]
      THEN UNCHANGED <<role, ledger>>
      ELSE /\ role' = [role EXCEPT ![r] = ApplyBundle(@, s)]
           /\ ledger' = [ledger EXCEPT ![r] = @ \cup {s}]

-----------------------------------------------------------------------------
(* CreateWithKey.                                                          *)

\* GetOrCreatePending: the row of a known request key keeps its seller.  The call goes
\* on only for a Pending row with the same content.
Pending(c, r, l) ==
    /\ call[c] = Idle
    /\ \/ listing[l] = NoRow
       \/ listing[l].status = "pending" /\ listing[l].seller = r
    /\ listing' = [listing EXCEPT ![l] =
                      [status |-> "pending", seller |-> r, buyer |-> None]]
    /\ call' = [call EXCEPT ![c] = [pc |-> "escrow", role |-> r, id |-> l]]
    /\ UNCHANGED <<role, ledger, released>>

\* The item leaves the seller's bag, or ErrInsufficientItem ends the call.
EscrowIgnored(c) ==
    LET r == call[c].role
        s == <<"escrow", call[c].id>>
    IN
    /\ call[c].pc = "escrow"
    /\ IF Affordable(role[r], s) THEN ApplyGrant(r, s) ELSE UNCHANGED <<role, ledger>>
    /\ Goto(c, "activate")
    /\ UNCHANGED <<listing, released>>

Escrow(c) ==
    LET r == call[c].role
        s == <<"escrow", call[c].id>>
    IN
    /\ call[c].pc = "escrow"
    /\ IF Affordable(role[r], s)
         THEN ApplyGrant(r, s) /\ Goto(c, "activate")
         ELSE Return(c) /\ UNCHANGED <<role, ledger>>
    /\ UNCHANGED <<listing, released>>

ActivateAny(c) ==
    LET l == call[c].id IN
    /\ call[c].pc = "activate"
    /\ listing' = [listing EXCEPT ![l].status = "open"]
    /\ Return(c)
    /\ UNCHANGED <<role, ledger, released>>

\* UPDATE ... WHERE status IN (Pending, Open): an error changes nothing.
Activate(c) ==
    LET l == call[c].id IN
    /\ call[c].pc = "activate"
    /\ listing' = IF listing[l].status \in {"pending", "open"}
                    THEN [listing EXCEPT ![l].status = "open"] ELSE listing
    /\ Return(c)
    /\ UNCHANGED <<role, ledger, released>>

-----------------------------------------------------------------------------
(* Buy.                                                                    *)

\* The row lets this buyer in: Open, or already Reserved for it.
Available(l, b) ==
    \/ listing[l].status = "open"
    \/ listing[l].status = "reserved" /\ listing[l].buyer = b

\* Get and the checks on what it read.
Look(c, b, l) ==
    /\ call[c] = Idle
    /\ Available(l, b)
    /\ listing[l].seller # b
    /\ call' = [call EXCEPT ![c] = [pc |-> "reserve", role |-> b, id |-> l]]
    /\ UNCHANGED <<role, ledger, listing, released>>

\* The row may have changed since Get: the UPDATE checks it again.
ReserveUnchecked(c) ==
    LET b == call[c].role
        l == call[c].id
    IN
    /\ call[c].pc = "reserve"
    /\ listing' = [listing EXCEPT ![l].status = "reserved", ![l].buyer = b]
    /\ Goto(c, "charge")
    /\ UNCHANGED <<role, ledger, released>>

Reserve(c) ==
    LET b == call[c].role
        l == call[c].id
    IN
    /\ call[c].pc = "reserve"
    /\ IF Available(l, b)
         THEN /\ listing' = [listing EXCEPT ![l].status = "reserved", ![l].buyer = b]
              /\ Goto(c, "charge")
         ELSE Return(c) /\ UNCHANGED listing
    /\ UNCHANGED <<role, ledger, released>>

\* Gold out, item in, in one grant; ErrInsufficientGold leads to the release.
ChargeLater(c) ==
    /\ call[c].pc = "charge"
    /\ Goto(c, "payout")
    /\ UNCHANGED <<role, ledger, listing, released>>

Charge(c) ==
    LET b == call[c].role
        s == <<"buyer", call[c].id>>
    IN
    /\ call[c].pc = "charge"
    /\ IF Affordable(role[b], s)
         THEN ApplyGrant(b, s) /\ Goto(c, "payout")
         ELSE Goto(c, "release") /\ UNCHANGED <<role, ledger>>
    /\ UNCHANGED <<listing, released>>

\* UPDATE ... WHERE buyer_role_id = buyer AND status = Reserved; no row is no error.
ReleaseCancels(c) ==
    LET b == call[c].role
        l == call[c].id
    IN
    /\ call[c].pc = "release"
    /\ listing' = [listing EXCEPT ![l].status = "cancelled"]
    /\ released' = released \cup {<<b, l>>}
    /\ Return(c)
    /\ UNCHANGED <<role, ledger>>

Release(c) ==
    LET b == call[c].role
        l == call[c].id
    IN
    /\ call[c].pc = "release"
    /\ IF listing[l].status = "reserved" /\ listing[l].buyer = b
         THEN /\ listing' = [listing EXCEPT ![l].status = "open", ![l].buyer = None]
              /\ released' = released \cup {<<b, l>>}
         ELSE UNCHANGED <<listing, released>>
    /\ Return(c)
    /\ UNCHANGED <<role, ledger>>

\* The seller's gold, through the router when the seller is on another shard.
Payout(c) ==
    LET l == call[c].id IN
    /\ call[c].pc = "payout"
    /\ ApplyGrant(listing[l].seller, <<"seller", l>>)
    /\ Goto(c, "sold")
    /\ UNCHANGED <<listing, released>>

\* UPDATE ... WHERE status IN (Reserved, Sold) AND buyer_role_id = buyer.
MarkSoldAny(c) ==
    LET l == call[c].id IN
    /\ call[c].pc = "sold"
    /\ listing' = [listing EXCEPT ![l].status = "sold"]
    /\ Return(c)
    /\ UNCHANGED <<role, ledger, released>>

MarkSold(c) ==
    LET l == call[c].id IN
    /\ call[c].pc = "sold"
    /\ listing' = IF /\ listing[l].status \in {"reserved", "sold"}
                     /\ listing[l].buyer = call[c].role
                    THEN [listing EXCEPT ![l].status = "sold"] ELSE listing
    /\ Return(c)
    /\ UNCHANGED <<role, ledger, released>>

-----------------------------------------------------------------------------
\* A call ends early: an error from the step it is at, a cancelled context, a crash.
Abort(c) ==
    /\ call[c] # Idle
    /\ Return(c)
    /\ UNCHANGED <<role, ledger, listing, released>>

\* Meanwhile a role earns gold elsewhere.
Earn(r) ==
    /\ role[r].level < MaxLevel
    /\ role' = [role EXCEPT ![r] = Pass(@)]
    /\ UNCHANGED <<ledger, listing, call, released>>

CallStep(c) ==
    \/ \E r \in Roles, l \in Listings : Pending(c, r, l) \/ Look(c, r, l)
    \/ Escrow(c)
    \/ Activate(c)
    \/ Reserve(c)
    \/ Charge(c)
    \/ Release(c)
    \/ Payout(c)
    \/ MarkSold(c)
    \/ Abort(c)

Next ==
    \/ \E c \in Calls : CallStep(c)
    \/ \E r \in Roles : Earn(r)

Spec == Init /\ [][Next]_vars
-----------------------------------------------------------------------------
(* Properties.                                                             *)

Escrowed(l) == \E r \in Roles : r = listing[l].seller /\ <<"escrow", l>> \in ledger[r]
Charged(b, l) == <<"buyer", l>> \in ledger[b]
Paid(l) == \E r \in Roles : r = listing[l].seller /\ <<"seller", l>> \in ledger[r]

Statuses == {"none", "pending", "open", "reserved", "sold"}
Labels == {"idle", "escrow", "activate", "reserve", "charge", "release", "payout", "sold"}

\* Type invariant; a call in progress names a role and a listing.
TypeOK ==
    /\ role \in [Roles -> Data]
    /\ ledger \in [Roles -> SUBSET (Legs \X Listings)]
    /\ listing \in [Listings -> [status : Statuses, seller : Roles \cup {None},
                                 buyer : Roles \cup {None}]]
    /\ call \in [Calls -> [pc : Labels, role : Roles \cup {None},
                           id : Listings \cup {None}]]
    /\ \A c \in Calls : call[c] = Idle \/ (call[c].role # None /\ call[c].id # None)
    /\ released \subseteq Roles \X Listings

\* CreateWithKey: nobody can reserve an item that is not in escrow, however creates that
\* are retried, overtaken or cut short interleave with the buyers.
OfferedIsEscrowed ==
    \A l \in Listings : listing[l].status \notin {"none", "pending"} => Escrowed(l)

\* Buy: a listing marked sold has been settled on all three ledgers: the seller gave the
\* item and has the gold, the buyer it is marked for has paid.
SoldIsSettled ==
    \A l \in Listings : listing[l].status = "sold" =>
        /\ Escrowed(l)
        /\ Paid(l)
        /\ \E b \in Roles : b = listing[l].buyer /\ Charged(b, l)

\* Buy: a seller is paid only with gold that some buyer has given.
PaidIsCharged ==
    \A l \in Listings, r \in Roles :
        <<"seller", l>> \in ledger[r] => \E b \in Roles : Charged(b, l)

\* Reserve: as long as a buyer's reservation has never been given back, its charge makes
\* the listing its own, so two such buyers never pay for the same item.
ChargedOwns ==
    \A l \in Listings, b \in Roles :
        Charged(b, l) /\ <<b, l>> \notin released =>
            listing[l].status \in {"reserved", "sold"} /\ listing[l].buyer = b

\* What a call in progress relies on although other calls run between its steps: its
\* listing has a seller, the steps before its own have reached the ledgers, and a buyer
\* about to be charged holds the listing unless its reservation was given back.
InOrder(pc, r, l) ==
    /\ pc \in {"escrow", "activate"} => listing[l].seller = r
    /\ pc = "activate" => Escrowed(l)
    /\ pc \in {"reserve", "charge", "release", "payout", "sold"} =>
           listing[l].status \in {"open", "reserved", "sold"}
    /\ pc = "charge" =>
           \/ listing[l].status \in {"reserved", "sold"} /\ listing[l].buyer = r
           \/ <<r, l>> \in released
    /\ pc \in {"payout", "sold"} => Charged(r, l)
    /\ pc = "sold" => Paid(l)
CallsInOrder == \A c \in Calls : InOrder(call[c].pc, call[c].role, call[c].id)

\* Sold is the end: no late Activate, Release or MarkSold reopens a listing or gives it
\* to another buyer.
SoldIsFinal ==
    [][\A l \in Listings : listing[l].status = "sold" => listing'[l] = listing[l]]_vars

\* The comment on Reserve: "Reserve grants one buyer exclusive ownership of the
\* settlement saga."  One item in escrow is delivered to one buyer.
OneBuyerPerListing ==
    \A l \in Listings, b1, b2 \in Roles : Charged(b1, l) /\ Charged(b2, l) => b1 = b2
=============================================================================
