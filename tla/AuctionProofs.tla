---------------------------- MODULE AuctionProofs ---------------------------
(***************************************************************************)
(* The auction saga for every number of roles, listings and calls: what a  *)
(* sold listing means, and that a reservation never given back is          *)
(* exclusive.                                                              *)
(***************************************************************************)
EXTENDS MCAuction, TLAPS

USE ListingAssumption, StartAssumption, NobodyAssumption

Sources == Legs \X Listings

-----------------------------------------------------------------------------
(* The snapshot operators on the bundles of the saga.                      *)

\* A role that has just been created is a well-formed snapshot.
LEMMA InitDataType == InitData \in Data
  BY DEF InitData, Data, StartBalance

\* A saga grant keeps the snapshot well formed.
LEMMA ApplyBundleType ==
  ASSUME NEW d \in Data, NEW s \in Sources
  PROVE  ApplyBundle(d, s) \in Data
  <1>1. s[1] \in Legs /\ s[2] \in Listings
    BY DEF Sources
  <1>2. Price[s[2]] \in Int /\ Qty[s[2]] \in Int
    BY <1>1
  <1>3. \A x \in Assets : SagaBundle[s][x] \in Int
    <2>1. CASE s[1] = "escrow"
      BY <1>2, <2>1 DEF SagaBundle, Sources, Assets
    <2>2. CASE s[1] = "buyer"
      BY <1>2, <2>2 DEF SagaBundle, Sources, Assets
    <2>3. CASE s[1] = "seller"
      BY <1>2, <2>3 DEF SagaBundle, Sources, Assets
    <2> QED BY <1>1, <2>1, <2>2, <2>3 DEF Legs
  <1>4. AddBundle(d.bal, s) \in [Assets -> Int]
    BY <1>3 DEF AddBundle, Data
  <1>5. [d.applied EXCEPT ![s] = @ + 1] \in [Sources -> Nat]
    BY DEF Data, Sources
  <1> QED BY <1>4, <1>5 DEF ApplyBundle, Data, Sources

\* A dungeon pass keeps the snapshot well formed.
LEMMA PassType ==
  ASSUME NEW d \in Data
  PROVE  Pass(d) \in Data
  <1>1. AddReward(d.bal) \in [Assets -> Int]
    BY DEF AddReward, Data, DungeonReward
  <1>2. d.level + 1 \in Nat
    BY DEF Data
  <1> QED BY <1>1, <1>2 DEF Pass, Data

\* ApplyGrant keeps the types and only adds to the ledgers.
LEMMA GrantStep ==
  ASSUME TypeOK, NEW r \in Roles, NEW s \in Sources, ApplyGrant(r, s)
  PROVE  /\ role' \in [Roles -> Data]
         /\ ledger' \in [Roles -> SUBSET Sources]
         /\ \A q \in Roles : ledger[q] \subseteq ledger'[q]
         /\ s \in ledger'[r]
         /\ \A q \in Roles : \A t \in ledger'[q] : t \in ledger[q] \/ (q = r /\ t = s)
  BY SMTT(30), ApplyBundleType DEF ApplyGrant, TypeOK, Sources

-----------------------------------------------------------------------------
(* The inductive invariant.                                                *)

SagaInv ==
    TypeOK /\ OfferedIsEscrowed /\ SoldIsSettled /\ PaidIsCharged /\ ChargedOwns
           /\ CallsInOrder

\* The empty auction house satisfies it.
LEMMA SagaInit == Init => SagaInv
  <1> SUFFICES ASSUME Init PROVE SagaInv
    OBVIOUS
  <1>1. TypeOK
    BY InitDataType DEF Init, TypeOK, NoRow, Idle, Statuses, Labels
  <1>2. OfferedIsEscrowed /\ SoldIsSettled
    BY DEF Init, OfferedIsEscrowed, SoldIsSettled, NoRow
  <1>3. PaidIsCharged /\ ChargedOwns
    BY DEF Init, PaidIsCharged, ChargedOwns, Paid, Charged
  <1>4. CallsInOrder
    BY DEF Init, CallsInOrder, InOrder, Idle
  <1> QED BY <1>1, <1>2, <1>3, <1>4 DEF SagaInv

\* A call past its first step names a role and a listing.
LEMMA CallNames ==
  ASSUME TypeOK, NEW c \in Calls, call[c].pc # "idle"
  PROVE  call[c].role \in Roles /\ call[c].id \in Listings
  BY DEF TypeOK, Idle

\* A listing that has left Pending belongs to a seller.
LEMMA SellerKnown ==
  ASSUME OfferedIsEscrowed, NEW l \in Listings,
         listing[l].status \in {"open", "reserved", "sold"}
  PROVE  listing[l].seller \in Roles /\ Escrowed(l)
  BY DEF OfferedIsEscrowed, Escrowed

\* Every step of a call preserves the types.
LEMMA TypeCall ==
  ASSUME SagaInv, NEW c \in Calls, CallStep(c)
  PROVE  TypeOK'
  <1> USE DEF SagaInv
  <1> DEFINE r == call[c].role
             l == call[c].id
  <1>1. ASSUME NEW q \in Roles, NEW k \in Listings, Pending(c, q, k)
        PROVE  TypeOK'
    BY <1>1 DEF Pending, TypeOK, Statuses, Labels, Idle
  <1>2. ASSUME NEW q \in Roles, NEW k \in Listings, Look(c, q, k)
        PROVE  TypeOK'
    BY <1>2 DEF Look, TypeOK, Labels, Idle
  <1>3. CASE Escrow(c)
    <2>1. r \in Roles /\ l \in Listings /\ <<"escrow", l>> \in Sources
      BY <1>3, CallNames DEF Escrow, Sources, Legs
    <2>2. CASE ApplyGrant(r, <<"escrow", l>>) /\ Goto(c, "activate")
      BY <1>3, <2>1, <2>2, GrantStep DEF Escrow, Goto, TypeOK, Sources, Labels, Idle
    <2>3. CASE Return(c) /\ UNCHANGED <<role, ledger>>
      BY <1>3, <2>3 DEF Escrow, Return, TypeOK, Labels, Idle
    <2> QED BY <1>3, <2>2, <2>3 DEF Escrow
  <1>4. CASE Activate(c)
    BY SMTT(30), <1>4 DEF Activate, Return, TypeOK, Statuses, Labels, Idle
  <1>5. CASE Reserve(c)
    <2>1. r \in Roles /\ l \in Listings
      BY <1>5, CallNames DEF Reserve
    <2>2. CASE Available(l, r)
      <3>1. listing' = [listing EXCEPT ![l] =
                           [status |-> "reserved", seller |-> listing[l].seller, buyer |-> r]]
        BY <1>5, <2>1, <2>2 DEF Reserve, TypeOK
      <3>2. listing' \in [Listings -> [status : Statuses, seller : Roles \cup {None},
                                       buyer : Roles \cup {None}]]
        BY <2>1, <3>1 DEF TypeOK, Statuses
      <3>3. call' = [call EXCEPT ![c].pc = "charge"] /\ UNCHANGED <<role, ledger, released>>
        BY <1>5, <2>2 DEF Reserve, Goto
      <3> QED BY <2>1, <3>2, <3>3 DEF TypeOK, Labels, Idle
    <2>3. CASE ~Available(l, r)
      BY <1>5, <2>3 DEF Reserve, Return, TypeOK, Labels, Idle
    <2> QED BY <2>2, <2>3
  <1>6. CASE Charge(c)
    <2>1. r \in Roles /\ l \in Listings /\ <<"buyer", l>> \in Sources
      BY <1>6, CallNames DEF Charge, Sources, Legs
    <2>2. CASE ApplyGrant(r, <<"buyer", l>>) /\ Goto(c, "payout")
      BY <1>6, <2>1, <2>2, GrantStep DEF Charge, Goto, TypeOK, Sources, Labels, Idle
    <2>3. CASE Goto(c, "release") /\ UNCHANGED <<role, ledger>>
      BY <1>6, <2>1, <2>3 DEF Charge, Goto, TypeOK, Labels, Idle
    <2> QED BY <1>6, <2>2, <2>3 DEF Charge
  <1>7. CASE Release(c)
    <2>1. r \in Roles /\ l \in Listings
      BY <1>7, CallNames DEF Release
    <2> QED BY <1>7, <2>1 DEF Release, Return, TypeOK, Statuses, Labels, Idle
  <1>8. CASE Payout(c)
    <2>1. l \in Listings /\ <<"seller", l>> \in Sources
      BY <1>8, CallNames DEF Payout, Sources, Legs
    <2>2. listing[l].seller \in Roles
      BY <1>8, <2>1, SellerKnown DEF Payout, CallsInOrder, InOrder
    <2> QED BY <1>8, <2>1, <2>2, GrantStep, CallNames
            DEF Payout, Goto, TypeOK, Sources, Labels, Idle
  <1>9. CASE MarkSold(c)
    BY ZenonT(90), <1>9 DEF MarkSold, Return, TypeOK, Statuses, Labels, Idle
  <1>10. CASE Abort(c)
    BY <1>10 DEF Abort, Return, TypeOK, Labels, Idle
  <1> QED BY <1>1, <1>2, <1>3, <1>4, <1>5, <1>6, <1>7, <1>8, <1>9, <1>10 DEF CallStep

-----------------------------------------------------------------------------
(* What one step of a call may change.                                     *)

Holds(b, k) == listing[k].status \in {"reserved", "sold"} /\ listing[k].buyer = b

LedgersGrow == \A q \in Roles : ledger[q] \subseteq ledger'[q]
SellersStay ==
    \A k \in Listings : listing[k].seller # None => listing'[k].seller = listing[k].seller
OffersStay ==
    \A k \in Listings : listing[k].status \in {"open", "reserved", "sold"} =>
                            listing'[k].status \in {"open", "reserved", "sold"}
SalesStay == \A k \in Listings : listing[k].status = "sold" => listing'[k] = listing[k]
HoldersStay ==
    \A k \in Listings, b \in Roles :
        Holds(b, k) /\ <<b, k>> \notin released' => Holds(b, k)'
Progress ==
    LedgersGrow /\ SellersStay /\ OffersStay /\ SalesStay /\ HoldersStay
    /\ released \subseteq released'

\* No step takes back a grant, changes a seller, withdraws an offer, reopens a sale or
\* takes a listing from a buyer other than by ReleaseReservation.
LEMMA StepProgress ==
  ASSUME SagaInv, NEW c \in Calls, CallStep(c)
  PROVE  Progress
  <1> USE DEF SagaInv
  <1> DEFINE r == call[c].role
             l == call[c].id
  <1>b. ASSUME UNCHANGED <<listing, released>>, LedgersGrow PROVE Progress
    BY <1>b DEF Progress, SellersStay, OffersStay, SalesStay, HoldersStay, Holds
  <1>c. ASSUME UNCHANGED <<ledger, released>>, NEW k \in Listings, NEW row,
               listing' = [listing EXCEPT ![k] = row],
               listing[k].seller = None \/ row.seller = listing[k].seller,
               listing[k].status \in {"open", "reserved", "sold"} =>
                  row.status \in {"open", "reserved", "sold"},
               listing[k].status = "sold" => row = listing[k],
               listing[k].status = "reserved" =>
                  row.status \in {"reserved", "sold"} /\ row.buyer = listing[k].buyer
        PROVE  Progress
    <2>1. \A j \in Listings : listing'[j] = IF j = k THEN row ELSE listing[j]
      BY <1>c DEF TypeOK
    <2> QED BY <1>c, <2>1 DEF Progress, LedgersGrow, SellersStay, OffersStay, SalesStay,
                              HoldersStay, Holds
  <1>1. ASSUME NEW q \in Roles, NEW k \in Listings, Pending(c, q, k)
        PROVE  Progress
    <2>1. listing[k].seller = None \/ listing[k].seller = q
      BY <1>1 DEF Pending, NoRow
    <2>2. listing[k].status \in {"none", "pending"}
      BY <1>1 DEF Pending, NoRow
    <2>3. /\ listing' = [listing EXCEPT ![k] =
                            [status |-> "pending", seller |-> q, buyer |-> None]]
          /\ UNCHANGED <<ledger, released>>
      BY <1>1 DEF Pending
    <2> QED BY <1>c, <2>1, <2>2, <2>3
  <1>2. ASSUME NEW q \in Roles, NEW k \in Listings, Look(c, q, k)
        PROVE  Progress
    BY <1>2, <1>b DEF Look, LedgersGrow
  <1>3. CASE Escrow(c)
    <2>1. r \in Roles /\ l \in Listings /\ <<"escrow", l>> \in Sources
      BY <1>3, CallNames DEF Escrow, Sources, Legs
    <2>2. LedgersGrow
      BY <1>3, <2>1, GrantStep DEF Escrow, LedgersGrow
    <2> QED BY <1>3, <1>b, <2>2 DEF Escrow
  <1>4. CASE Activate(c)
    <2>1. l \in Listings
      BY <1>4, CallNames DEF Activate
    <2>2. CASE listing[l].status \in {"pending", "open"}
      <3>1. listing' = [listing EXCEPT ![l] = [listing[l] EXCEPT !.status = "open"]]
        BY <1>4, <2>2 DEF Activate
      <3>2. /\ [listing[l] EXCEPT !.status = "open"].status = "open"
            /\ [listing[l] EXCEPT !.status = "open"].seller = listing[l].seller
        BY <2>1 DEF TypeOK
      <3> QED BY <1>4, <1>c, <2>1, <2>2, <3>1, <3>2 DEF Activate
    <2>3. CASE listing[l].status \notin {"pending", "open"}
      BY <1>4, <1>b, <2>3 DEF Activate, LedgersGrow
    <2> QED BY <2>2, <2>3
  <1>5. CASE Reserve(c)
    <2>1. r \in Roles /\ l \in Listings
      BY <1>5, CallNames DEF Reserve
    <2>2. CASE Available(l, r)
      <3>1. listing' = [listing EXCEPT ![l] =
                           [status |-> "reserved", seller |-> listing[l].seller, buyer |-> r]]
        BY <1>5, <2>1, <2>2 DEF Reserve, TypeOK
      <3> QED BY <1>5, <1>c, <2>1, <2>2, <3>1 DEF Reserve, Available
    <2>3. CASE ~Available(l, r)
      BY <1>5, <1>b, <2>3 DEF Reserve, LedgersGrow
    <2> QED BY <2>2, <2>3
  <1>6. CASE Charge(c)
    <2>1. r \in Roles /\ l \in Listings /\ <<"buyer", l>> \in Sources
      BY <1>6, CallNames DEF Charge, Sources, Legs
    <2>2. LedgersGrow
      BY <1>6, <2>1, GrantStep DEF Charge, LedgersGrow
    <2> QED BY <1>6, <1>b, <2>2 DEF Charge
  <1>7. CASE Release(c)
    <2>1. r \in Roles /\ l \in Listings
      BY <1>7, CallNames DEF Release
    <2>2. CASE listing[l].status = "reserved" /\ listing[l].buyer = r
      <3>1. /\ listing' = [listing EXCEPT ![l] =
                  [status |-> "open", seller |-> listing[l].seller, buyer |-> None]]
            /\ released' = released \cup {<<r, l>>}
        BY <1>7, <2>1, <2>2 DEF Release, TypeOK
      <3>2. \A j \in Listings : listing'[j] =
               IF j = l THEN [status |-> "open", seller |-> listing[l].seller, buyer |-> None]
               ELSE listing[j]
        BY <3>1 DEF TypeOK
      <3>3. UNCHANGED ledger
        BY <1>7 DEF Release
      <3> QED BY <2>1, <2>2, <3>1, <3>2, <3>3
              DEF Progress, LedgersGrow, SellersStay, OffersStay, SalesStay, HoldersStay, Holds
    <2>3. CASE ~(listing[l].status = "reserved" /\ listing[l].buyer = r)
      BY <1>7, <1>b, <2>3 DEF Release, LedgersGrow
    <2> QED BY <2>2, <2>3
  <1>8. CASE Payout(c)
    <2>1. l \in Listings /\ <<"seller", l>> \in Sources
      BY <1>8, CallNames DEF Payout, Sources, Legs
    <2>2. listing[l].seller \in Roles
      BY <1>8, <2>1, SellerKnown DEF Payout, CallsInOrder, InOrder
    <2>3. LedgersGrow
      BY <1>8, <2>1, <2>2, GrantStep DEF Payout, LedgersGrow
    <2> QED BY <1>8, <1>b, <2>3 DEF Payout
  <1>9. CASE MarkSold(c)
    <2>1. l \in Listings
      BY <1>9, CallNames DEF MarkSold
    <2>2. CASE listing[l].status \in {"reserved", "sold"} /\ listing[l].buyer = r
      <3>1. listing' = [listing EXCEPT ![l] = [listing[l] EXCEPT !.status = "sold"]]
        BY <1>9, <2>2 DEF MarkSold
      <3>2. /\ [listing[l] EXCEPT !.status = "sold"].status = "sold"
            /\ [listing[l] EXCEPT !.status = "sold"].seller = listing[l].seller
            /\ [listing[l] EXCEPT !.status = "sold"].buyer = listing[l].buyer
            /\ listing[l].status = "sold" => [listing[l] EXCEPT !.status = "sold"] = listing[l]
        BY <2>1 DEF TypeOK
      <3> QED BY <1>9, <1>c, <2>1, <2>2, <3>1, <3>2 DEF MarkSold
    <2>3. CASE ~(listing[l].status \in {"reserved", "sold"} /\ listing[l].buyer = r)
      BY <1>9, <1>b, <2>3 DEF MarkSold, LedgersGrow
    <2> QED BY <2>2, <2>3
  <1>10. CASE Abort(c)
    BY <1>10, <1>b DEF Abort, LedgersGrow
  <1> QED BY <1>1, <1>2, <1>3, <1>4, <1>5, <1>6, <1>7, <1>8, <1>9, <1>10 DEF CallStep

-----------------------------------------------------------------------------
(* The invariant is inductive.                                             *)

\* What the ledgers say about a listing stays said.
LEMMA Kept ==
  ASSUME Progress, NEW k \in Listings
  PROVE  /\ Escrowed(k) => Escrowed(k)'
         /\ Paid(k) => Paid(k)'
         /\ \A b \in Roles : Charged(b, k) => Charged(b, k)'
  BY NobodyAssumption
     DEF Progress, LedgersGrow, SellersStay, Escrowed, Paid, Charged

\* Only Activate puts a listing on offer, and the item is in escrow by then.
LEMMA OfferedStep ==
  ASSUME SagaInv, NEW c \in Calls, CallStep(c), Progress
  PROVE  OfferedIsEscrowed'
  <1> SUFFICES ASSUME NEW k \in Listings, listing'[k].status \notin {"none", "pending"}
               PROVE  Escrowed(k)'
    BY DEF OfferedIsEscrowed
  <1>1. CASE listing[k].status \notin {"none", "pending"}
    BY <1>1, Kept DEF SagaInv, OfferedIsEscrowed
  <1>2. CASE listing[k].status \in {"none", "pending"}
    <2>1. Activate(c) /\ k = call[c].id
      <3>1. ASSUME NEW q \in Roles, NEW j \in Listings, Pending(c, q, j) PROVE FALSE
        BY <1>2, <3>1 DEF Pending, SagaInv, TypeOK
      <3>2. ASSUME NEW q \in Roles, NEW j \in Listings, Look(c, q, j) PROVE FALSE
        BY <1>2, <3>2 DEF Look
      <3>3. ~Escrow(c) /\ ~Charge(c) /\ ~Payout(c) /\ ~Abort(c)
        BY <1>2 DEF Escrow, Charge, Payout, Abort
      <3>4. ~Reserve(c)
        BY <1>2, CallNames DEF Reserve, Available, SagaInv, TypeOK
      <3>5. ~Release(c) /\ ~MarkSold(c)
        BY <1>2, CallNames DEF Release, MarkSold, SagaInv, TypeOK
      <3>6. Activate(c) => k = call[c].id
        BY <1>2, CallNames DEF Activate, SagaInv, TypeOK
      <3> QED BY <3>1, <3>2, <3>3, <3>4, <3>5, <3>6 DEF CallStep
    <2> QED BY <2>1, Kept DEF Activate, SagaInv, CallsInOrder, InOrder
  <1> QED BY <1>1, <1>2

\* Only MarkSold sells, and the buyer is charged and the seller paid by then.
LEMMA SoldStep ==
  ASSUME SagaInv, NEW c \in Calls, CallStep(c), Progress, OfferedIsEscrowed'
  PROVE  SoldIsSettled'
  <1> SUFFICES ASSUME NEW k \in Listings, listing'[k].status = "sold"
               PROVE  /\ Escrowed(k)'
                      /\ Paid(k)'
                      /\ \E b \in Roles : b = listing'[k].buyer /\ Charged(b, k)'
    BY DEF SoldIsSettled
  <1>0. Escrowed(k)'
    BY DEF OfferedIsEscrowed
  <1>1. CASE listing[k].status = "sold"
    BY <1>0, <1>1, Kept DEF SagaInv, SoldIsSettled, Progress, SalesStay
  <1>2. CASE listing[k].status # "sold"
    <2>1. MarkSold(c) /\ k = call[c].id /\ listing'[k].buyer = call[c].role
      <3>1. ASSUME NEW q \in Roles, NEW j \in Listings, Pending(c, q, j) PROVE FALSE
        BY <1>2, <3>1 DEF Pending, SagaInv, TypeOK
      <3>2. ASSUME NEW q \in Roles, NEW j \in Listings, Look(c, q, j) PROVE FALSE
        BY <1>2, <3>2 DEF Look
      <3>3. ~Escrow(c) /\ ~Charge(c) /\ ~Payout(c) /\ ~Abort(c)
        BY <1>2 DEF Escrow, Charge, Payout, Abort
      <3>4. ~Reserve(c)
        <4>1. CASE Available(call[c].id, call[c].role)
          BY <1>2, <4>1, CallNames DEF Reserve, SagaInv, TypeOK
        <4>2. CASE ~Available(call[c].id, call[c].role)
          BY <1>2, <4>2 DEF Reserve
        <4> QED BY <4>1, <4>2
      <3>6. ~Activate(c)
        BY <1>2, CallNames DEF Activate, SagaInv, TypeOK
      <3>7. ~Release(c)
        BY <1>2, CallNames DEF Release, SagaInv, TypeOK
      <3>5. MarkSold(c) => k = call[c].id /\ listing'[k].buyer = call[c].role
        BY <1>2, CallNames DEF MarkSold, SagaInv, TypeOK
      <3> QED BY <3>1, <3>2, <3>3, <3>4, <3>5, <3>6, <3>7 DEF CallStep
    <2>2. call[c].role \in Roles /\ Charged(call[c].role, k) /\ Paid(k)
      BY <2>1, CallNames DEF MarkSold, SagaInv, CallsInOrder, InOrder
    <2> QED BY <1>0, <2>1, <2>2, Kept
  <1> QED BY <1>1, <1>2

\* A grant that appears in a ledger comes from the call that is at that step.
LEMMA NewGrant ==
  ASSUME SagaInv, NEW c \in Calls, CallStep(c),
         NEW q \in Roles, NEW k \in Listings
  PROVE  /\ <<"seller", k>> \in ledger'[q] \ ledger[q] => call[c].pc = "payout" /\ k = call[c].id
         /\ <<"buyer", k>> \in ledger'[q] \ ledger[q] =>
               Charge(c) /\ k = call[c].id /\ q = call[c].role
  <1> USE DEF SagaInv
  <1> DEFINE r == call[c].role
             l == call[c].id
  <1>1. CASE Escrow(c)
    <2>1. r \in Roles /\ l \in Listings /\ <<"escrow", l>> \in Sources
      BY <1>1, CallNames DEF Escrow, Sources, Legs
    <2> QED BY <1>1, <2>1, GrantStep DEF Escrow
  <1>2. CASE Charge(c)
    <2>1. r \in Roles /\ l \in Listings /\ <<"buyer", l>> \in Sources
      BY <1>2, CallNames DEF Charge, Sources, Legs
    <2> QED BY <1>2, <2>1, GrantStep DEF Charge
  <1>3. CASE Payout(c)
    <2>1. l \in Listings /\ <<"seller", l>> \in Sources
      BY <1>3, CallNames DEF Payout, Sources, Legs
    <2>2. listing[l].seller \in Roles
      BY <1>3, <2>1, SellerKnown DEF Payout, CallsInOrder, InOrder
    <2> QED BY <1>3, <2>1, <2>2, GrantStep DEF Payout
  <1>4. CASE UNCHANGED ledger
    BY <1>4
  <1> QED BY <1>1, <1>2, <1>3, <1>4
          DEF CallStep, Pending, Look, Activate, Reserve, Release, MarkSold, Abort

\* The charge comes before the payout.
LEMMA PaidStep ==
  ASSUME SagaInv, NEW c \in Calls, CallStep(c), Progress
  PROVE  PaidIsCharged'
  <1> SUFFICES ASSUME NEW k \in Listings, NEW q \in Roles, <<"seller", k>> \in ledger'[q]
               PROVE  \E b \in Roles : Charged(b, k)'
    BY DEF PaidIsCharged
  <1>1. CASE <<"seller", k>> \in ledger[q]
    BY <1>1, Kept DEF SagaInv, PaidIsCharged
  <1>2. CASE <<"seller", k>> \notin ledger[q]
    <2>1. call[c].pc = "payout" /\ k = call[c].id
      BY <1>2, NewGrant
    <2>2. call[c].role \in Roles /\ Charged(call[c].role, k)
      BY <2>1, CallNames DEF SagaInv, CallsInOrder, InOrder
    <2> QED BY <2>2, Kept
  <1> QED BY <1>1, <1>2

\* The buyer being charged holds the listing, and keeps it.
LEMMA OwnsStep ==
  ASSUME SagaInv, NEW c \in Calls, CallStep(c), Progress
  PROVE  ChargedOwns'
  <1> SUFFICES ASSUME NEW k \in Listings, NEW b \in Roles, Charged(b, k)', <<b, k>> \notin released'
               PROVE  Holds(b, k)'
    BY DEF ChargedOwns, Holds
  <1>0. <<b, k>> \notin released
    BY DEF Progress
  <1>1. Holds(b, k)
    <2>1. CASE Charged(b, k)
      BY <1>0, <2>1 DEF SagaInv, ChargedOwns, Holds
    <2>2. CASE ~Charged(b, k)
      <3>1. Charge(c) /\ k = call[c].id /\ b = call[c].role
        BY <2>2, NewGrant DEF Charged
      <3> QED BY <1>0, <3>1 DEF Charge, SagaInv, CallsInOrder, InOrder, Holds
    <2> QED BY <2>1, <2>2
  <1> QED BY <1>1 DEF Progress, HoldersStay

\* What a waiting call relies on survives the steps of the others.
LEMMA InOrderKept ==
  ASSUME Progress, NEW CONSTANT pc, NEW CONSTANT r \in Roles, NEW CONSTANT k \in Listings,
         InOrder(pc, r, k)
  PROVE  InOrder(pc, r, k)'
  <1>1. pc \in {"escrow", "activate"} => listing'[k].seller = r
    BY DEF InOrder, Progress, SellersStay
  <1>2. /\ pc = "activate" => Escrowed(k)'
        /\ pc = "sold" => Paid(k)'
        /\ pc \in {"payout", "sold"} => Charged(r, k)'
    BY Kept DEF InOrder
  <1>3. pc \in {"reserve", "charge", "release", "payout", "sold"} =>
           listing'[k].status \in {"open", "reserved", "sold"}
    BY DEF InOrder, Progress, OffersStay
  <1>4. pc = "charge" =>
           \/ listing'[k].status \in {"reserved", "sold"} /\ listing'[k].buyer = r
           \/ <<r, k>> \in released'
    BY DEF InOrder, Progress, HoldersStay, Holds
  <1> QED BY <1>1, <1>2, <1>3, <1>4 DEF InOrder

\* A call that has returned relies on nothing.
LEMMA IdleInOrder ==
  ASSUME NEW CONSTANT c \in Calls, call'[c].pc = "idle"
  PROVE  InOrder(call[c].pc, call[c].role, call[c].id)'
  BY DEF InOrder

\* Every call finds at its next step what it relies on.
LEMMA OrderStep ==
  ASSUME SagaInv, NEW c \in Calls, CallStep(c), Progress, TypeOK', OfferedIsEscrowed'
  PROVE  CallsInOrder'
  <1> USE DEF SagaInv
  <1> SUFFICES ASSUME NEW d \in Calls
               PROVE  InOrder(call[d].pc, call[d].role, call[d].id)'
    BY DEF CallsInOrder
  <1>0. call \in [Calls -> [pc : Labels, role : Roles \cup {None}, id : Listings \cup {None}]]
    BY DEF TypeOK
  <1>a. CASE d # c
    <2>1. call'[d] = call[d]
      BY <1>0, <1>a DEF CallStep, Pending, Look, Escrow, Activate, Reserve, Charge, Release,
                        Payout, MarkSold, Abort, Goto, Return
    <2>2. CASE call[d].pc = "idle"
      BY <2>1, <2>2, IdleInOrder
    <2>3. CASE call[d].pc # "idle"
      <3>1. PICK pc \in Labels, r \in Roles, k \in Listings :
               call[d].pc = pc /\ call[d].role = r /\ call[d].id = k
        BY <1>0, <2>3, CallNames
      <3>2. InOrder(pc, r, k)
        BY <3>1 DEF CallsInOrder
      <3>3. InOrder(pc, r, k)'
        BY <3>2, InOrderKept
      <3> QED BY <2>1, <3>1, <3>3
    <2> QED BY <2>2, <2>3
  <1>b. CASE d = c
    <2>0. CASE call'[c].pc = "idle"
      BY <1>b, <2>0, IdleInOrder
    <2>1. ASSUME NEW q \in Roles, NEW k \in Listings, Pending(c, q, k)
          PROVE  InOrder(call[c].pc, call[c].role, call[c].id)'
      <3>1. call'[c] = [pc |-> "escrow", role |-> q, id |-> k] /\ listing'[k].seller = q
        BY <1>0, <2>1 DEF Pending, TypeOK
      <3> QED BY <3>1 DEF InOrder
    <2>2. ASSUME NEW q \in Roles, NEW k \in Listings, Look(c, q, k)
          PROVE  InOrder(call[c].pc, call[c].role, call[c].id)'
      <3>1. /\ call'[c] = [pc |-> "reserve", role |-> q, id |-> k]
            /\ listing'[k].status \in {"open", "reserved"}
        BY <1>0, <2>2 DEF Look, Available
      <3> QED BY <3>1 DEF InOrder
    <2>3. ASSUME call[c].pc # "idle", call'[c].pc # "idle"
          PROVE  InOrder(call[c].pc, call[c].role, call[c].id)'
      <3>1. PICK pc \in Labels, r \in Roles, k \in Listings :
               call[c].pc = pc /\ call[c].role = r /\ call[c].id = k
        BY <1>0, <2>3, CallNames
      <3>2. InOrder(pc, r, k)' /\ InOrder(pc, r, k)
        BY <3>1, InOrderKept DEF CallsInOrder
      <3>3. /\ \A q \in Roles, j \in Listings : ~Pending(c, q, j) /\ ~Look(c, q, j)
            /\ ~Activate(c) /\ ~Release(c) /\ ~MarkSold(c) /\ ~Abort(c)
        BY <1>0, <2>3 DEF Pending, Look, Activate, Release, MarkSold, Abort, Return, Idle
      <3>4. CASE Escrow(c)
        <4>1. /\ call'[c].pc = "activate" /\ call'[c].role = r /\ call'[c].id = k
              /\ ApplyGrant(r, <<"escrow", k>>)
              /\ pc = "escrow" /\ UNCHANGED listing
          BY <1>0, <2>3, <3>1, <3>4 DEF Escrow, Goto, Return, Idle
        <4>2. <<"escrow", k>> \in ledger'[r]
          BY <4>1, GrantStep DEF Sources, Legs
        <4> QED BY <3>2, <4>1, <4>2 DEF InOrder, Escrowed
      <3>5. CASE Reserve(c)
        <4>1. /\ call'[c].pc = "charge" /\ call'[c].role = r /\ call'[c].id = k
              /\ listing' = [listing EXCEPT ![k].status = "reserved", ![k].buyer = r]
          BY <1>0, <2>3, <3>1, <3>5 DEF Reserve, Goto, Return, Idle
        <4>2. listing'[k].status = "reserved" /\ listing'[k].buyer = r
          BY <4>1 DEF TypeOK
        <4> QED BY <4>1, <4>2 DEF InOrder
      <3>6. CASE Charge(c)
        <4>1. /\ call'[c].pc \in {"payout", "release"} /\ call'[c].role = r /\ call'[c].id = k
              /\ call'[c].pc = "payout" => ApplyGrant(r, <<"buyer", k>>)
              /\ pc = "charge"
          BY <1>0, <3>1, <3>6 DEF Charge, Goto
        <4>2. call'[c].pc = "payout" => <<"buyer", k>> \in ledger'[r]
          BY <4>1, GrantStep DEF Sources, Legs
        <4> QED BY <3>2, <4>1, <4>2 DEF InOrder, Charged
      <3>7. CASE Payout(c)
        <4>1. /\ call'[c].pc = "sold" /\ call'[c].role = r /\ call'[c].id = k
              /\ ApplyGrant(listing[k].seller, <<"seller", k>>)
              /\ pc = "payout" /\ UNCHANGED listing
          BY <1>0, <3>1, <3>7 DEF Payout, Goto
        <4>2. listing[k].seller \in Roles
          BY <3>2, <4>1, SellerKnown DEF InOrder
        <4>3. <<"seller", k>> \in ledger'[listing[k].seller]
          BY <4>1, <4>2, GrantStep DEF Sources, Legs
        <4> QED BY <3>2, <4>1, <4>2, <4>3 DEF InOrder, Paid
      <3> QED BY <3>3, <3>4, <3>5, <3>6, <3>7 DEF CallStep
    <2>4. CASE call[c].pc = "idle"
      <3>1. ~Escrow(c) /\ ~Activate(c) /\ ~Reserve(c) /\ ~Charge(c) /\ ~Release(c)
            /\ ~Payout(c) /\ ~MarkSold(c)
        BY <2>4 DEF Escrow, Activate, Reserve, Charge, Release, Payout, MarkSold
      <3>2. Abort(c) => call'[c].pc = "idle"
        BY <1>0 DEF Abort, Return, Idle
      <3> QED BY <1>b, <2>0, <2>1, <2>2, <3>1, <3>2 DEF CallStep
    <2> QED BY <1>b, <2>0, <2>3, <2>4
  <1> QED BY <1>a, <1>b

\* Gold earned elsewhere touches nothing of the saga.
LEMMA EarnStep ==
  ASSUME SagaInv, NEW r \in Roles, Earn(r)
  PROVE  SagaInv'
  <1>1. TypeOK'
    BY PassType DEF SagaInv, TypeOK, Earn
  <1>2. UNCHANGED <<ledger, listing, call, released>>
    BY DEF Earn
  <1> QED BY <1>1, <1>2 DEF SagaInv, OfferedIsEscrowed, SoldIsSettled, PaidIsCharged,
              ChargedOwns, CallsInOrder, InOrder, Escrowed, Paid, Charged

\* A step that changes nothing.
LEMMA StutterStep ==
  ASSUME SagaInv, UNCHANGED vars
  PROVE  SagaInv'
  BY DEF vars, SagaInv, TypeOK, OfferedIsEscrowed, SoldIsSettled, PaidIsCharged,
         ChargedOwns, CallsInOrder, InOrder, Escrowed, Paid, Charged

\* SagaInv is an inductive invariant of the auction.
THEOREM SagaInvariant == Spec => []SagaInv
  <1>1. SagaInv /\ [Next]_vars => SagaInv'
    <2> SUFFICES ASSUME SagaInv, [Next]_vars PROVE SagaInv'
      OBVIOUS
    <2>1. ASSUME NEW c \in Calls, CallStep(c) PROVE SagaInv'
      <3>1. Progress
        BY <2>1, StepProgress
      <3>2. TypeOK' /\ OfferedIsEscrowed'
        BY <2>1, <3>1, TypeCall, OfferedStep
      <3>3. SoldIsSettled' /\ PaidIsCharged' /\ ChargedOwns' /\ CallsInOrder'
        BY <2>1, <3>1, <3>2, SoldStep, PaidStep, OwnsStep, OrderStep
      <3> QED BY <3>2, <3>3 DEF SagaInv
    <2>2. ASSUME NEW r \in Roles, Earn(r) PROVE SagaInv'
      BY <2>2, EarnStep
    <2>3. CASE UNCHANGED vars
      BY <2>3, StutterStep
    <2> QED BY <2>1, <2>2, <2>3 DEF Next
  <1> QED BY SagaInit, <1>1, PTL DEF Spec

\* Every listing on offer is in escrow.
THEOREM OffersAreEscrowed == Spec => []OfferedIsEscrowed
  <1>1. SagaInv => OfferedIsEscrowed
    BY DEF SagaInv
  <1> QED BY SagaInvariant, <1>1, PTL

\* A sold listing is settled on all three ledgers, and sellers are paid from charges.
THEOREM SalesAreSettled == Spec => [](SoldIsSettled /\ PaidIsCharged)
  <1>1. SagaInv => SoldIsSettled /\ PaidIsCharged
    BY DEF SagaInv
  <1> QED BY SagaInvariant, <1>1, PTL

\* The house never pays a seller from its own pocket.
THEOREM PayoutsAreCharged == Spec => []PaidIsCharged
  <1>1. SagaInv => PaidIsCharged
    BY DEF SagaInv
  <1> QED BY SagaInvariant, <1>1, PTL

\* Calls take the steps of the saga in order, whatever other calls, failures and
\* retries do to the listing in between.
THEOREM SagaInOrder == Spec => []CallsInOrder
  <1>1. SagaInv => CallsInOrder
    BY DEF SagaInv
  <1> QED BY SagaInvariant, <1>1, PTL

\* The listings, the roles' ledgers and the calls keep their types.
THEOREM Types == Spec => []TypeOK
  <1>1. SagaInv => TypeOK
    BY DEF SagaInv
  <1> QED BY SagaInvariant, <1>1, PTL

\* A charged buyer whose reservation was never released owns the listing.
THEOREM ReservationIsExclusive == Spec => []ChargedOwns
  <1>1. SagaInv => ChargedOwns
    BY DEF SagaInv
  <1> QED BY SagaInvariant, <1>1, PTL

\* No step ever touches a sold listing.
THEOREM SalesAreFinal == Spec => SoldIsFinal
  <1>1. SagaInv /\ [Next]_vars =>
          [\A l \in Listings : listing[l].status = "sold" => listing'[l] = listing[l]]_vars
    <2> SUFFICES ASSUME SagaInv, Next
                 PROVE  SalesStay
      BY DEF SalesStay
    <2>1. ASSUME NEW c \in Calls, CallStep(c) PROVE SalesStay
      BY <2>1, StepProgress DEF Progress
    <2>2. ASSUME NEW r \in Roles, Earn(r) PROVE SalesStay
      BY <2>2 DEF Earn, SalesStay
    <2> QED BY <2>1, <2>2 DEF Next
  <1> QED BY SagaInvariant, <1>1, PTL DEF Spec, SoldIsFinal

-----------------------------------------------------------------------------
(* The auction uses every role as AtomicRole allows.                       *)

LevelsStart == \A r \in Roles : role[r].level >= 1

\* A role that is granted a bundle takes one atomic grant, or none when the
\* source was applied before.
LEMMA GrantIsAtomic ==
  ASSUME TypeOK, NEW q \in Roles, NEW s \in Sources, Affordable(role[q], s), ApplyGrant(q, s),
         NEW r \in Roles
  PROVE  UNCHANGED <<role[r], ledger[r]>> \/ Role(r)!AbsNext
  <1>1. CASE s \in ledger[q] \/ r # q
    BY <1>1 DEF ApplyGrant, TypeOK
  <1>2. CASE s \notin ledger[q] /\ r = q
    <2>1. /\ role[r]' = ApplyBundle(role[r], s)
          /\ ledger[r]' = ledger[r] \cup {s}
      BY <1>2 DEF ApplyGrant, TypeOK
    <2>2. role[r]'.level = role[r].level
      BY <2>1 DEF ApplyBundle, TypeOK, Data
    <2>3. Role(r)!AbsGrant(s)
      BY <1>2, <2>1, <2>2 DEF Role!AbsGrant, Role!Affordable, Affordable, Role!ApplyBundle, ApplyBundle, Role!AddBundle, AddBundle
    <2> QED BY <2>3 DEF Role!AbsNext, Sources
  <1> QED BY <1>1, <1>2

\* A dungeon pass is one atomic pass with its rank event.
LEMMA EarnIsAtomic ==
  ASSUME TypeOK, LevelsStart, NEW q \in Roles, Earn(q), NEW r \in Roles
  PROVE  UNCHANGED <<role[r], ledger[r]>> \/ Role(r)!AbsNext
  <1>1. CASE r # q
    BY <1>1 DEF Earn, TypeOK
  <1>2. CASE r = q
    <2>1. role[r]' = Pass(role[r]) /\ UNCHANGED ledger[r]
      BY <1>2 DEF Earn, TypeOK
    <2>2. role[r].level \in Nat /\ role[r].level >= 1 /\ role[r]'.level = role[r].level + 1
      BY <2>1 DEF Pass, TypeOK, Data, LevelsStart
    <2>3. 2 .. role[r]'.level = (2 .. role[r].level) \cup {role[r].level + 1}
      BY <2>2
    <2>4. Role(r)!AbsPass
      BY <2>1, <2>3 DEF Role!AbsPass, Role!Pass, Pass, Role!AddReward, AddReward
    <2> QED BY <2>4 DEF Role!AbsNext
  <1> QED BY <1>1, <1>2

\* Every step of a call is at most one atomic grant of one role.
LEMMA CallIsAtomic ==
  ASSUME SagaInv, NEW c \in Calls, CallStep(c), NEW r \in Roles
  PROVE  UNCHANGED <<role[r], ledger[r]>> \/ Role(r)!AbsNext
  <1> USE DEF SagaInv
  <1> DEFINE l == call[c].id
  <1>1. CASE Escrow(c)
    <2>1. call[c].role \in Roles /\ <<"escrow", l>> \in Sources
      BY <1>1, CallNames DEF Escrow, Sources, Legs
    <2> QED BY <1>1, <2>1, GrantIsAtomic DEF Escrow
  <1>2. CASE Charge(c)
    <2>1. call[c].role \in Roles /\ <<"buyer", l>> \in Sources
      BY <1>2, CallNames DEF Charge, Sources, Legs
    <2> QED BY <1>2, <2>1, GrantIsAtomic DEF Charge
  <1>3. CASE Payout(c)
    <2>1. l \in Listings /\ <<"seller", l>> \in Sources
      BY <1>3, CallNames DEF Payout, Sources, Legs
    <2>2. listing[l].seller \in Roles
      <3>1. listing[l].status \in {"open", "reserved", "sold"}
        BY <1>3 DEF Payout, CallsInOrder, InOrder
      <3> QED BY <2>1, <3>1, SellerKnown
    <2>3. \A x \in Assets : ~(SagaBundle[<<"seller", l>>][x] < 0)
      BY <2>1 DEF SagaBundle, Assets, Sources
    <2>4. Affordable(role[listing[l].seller], <<"seller", l>>)
      BY <2>3 DEF Affordable
    <2> QED BY <1>3, <2>1, <2>2, <2>4, GrantIsAtomic DEF Payout
  <1>4. CASE ~Escrow(c) /\ ~Charge(c) /\ ~Payout(c)
    BY <1>4 DEF CallStep, Pending, Look, Activate, Reserve, Release, MarkSold, Abort
  <1> QED BY <1>1, <1>2, <1>3, <1>4

\* Levels only grow.
LEMMA LevelsStay ==
  ASSUME SagaInv, LevelsStart, [Next]_vars
  PROVE  LevelsStart'
  <1> USE DEF SagaInv
  <1>1. ASSUME NEW q \in Roles, NEW s \in Sources, ApplyGrant(q, s)
        PROVE  LevelsStart'
    <2>1. CASE s \in ledger[q]
      BY <1>1, <2>1 DEF ApplyGrant, LevelsStart
    <2>2. CASE s \notin ledger[q]
      <3>1. role' = [role EXCEPT ![q] = ApplyBundle(role[q], s)] /\ role \in [Roles -> Data]
        BY <1>1, <2>2 DEF ApplyGrant, TypeOK
      <3>2. ApplyBundle(role[q], s).level = role[q].level
        BY <3>1 DEF ApplyBundle, Data
      <3> QED BY <3>1, <3>2 DEF LevelsStart
    <2> QED BY <2>1, <2>2
  <1>2. ASSUME NEW c \in Calls, CallStep(c)
        PROVE  LevelsStart'
    <2>1. CASE UNCHANGED role
      BY <2>1 DEF LevelsStart
    <2>2. CASE Escrow(c)
      <3>1. call[c].role \in Roles /\ <<"escrow", call[c].id>> \in Sources
        BY <2>2, CallNames DEF Escrow, Sources, Legs
      <3> QED BY <1>1, <2>1, <2>2, <3>1 DEF Escrow
    <2>3. CASE Charge(c)
      <3>1. call[c].role \in Roles /\ <<"buyer", call[c].id>> \in Sources
        BY <2>3, CallNames DEF Charge, Sources, Legs
      <3> QED BY <1>1, <2>1, <2>3, <3>1 DEF Charge
    <2>4. CASE Payout(c)
      <3>1. call[c].id \in Listings /\ <<"seller", call[c].id>> \in Sources
        BY <2>4, CallNames DEF Payout, Sources, Legs
      <3>2. listing[call[c].id].seller \in Roles
        BY <2>4, <3>1, SellerKnown DEF Payout, CallsInOrder, InOrder
      <3> QED BY <1>1, <2>4, <3>1, <3>2 DEF Payout
    <2>5. CASE ~Escrow(c) /\ ~Charge(c) /\ ~Payout(c)
      BY <1>2, <2>1, <2>5 DEF CallStep, Pending, Look, Activate, Reserve, Release, MarkSold, Abort
    <2> QED BY <2>2, <2>3, <2>4, <2>5
  <1>3. ASSUME NEW q \in Roles, Earn(q)
        PROVE  LevelsStart'
    <2>1. role' = [role EXCEPT ![q] = Pass(role[q])] /\ role \in [Roles -> Data]
      BY <1>3 DEF Earn, TypeOK
    <2>2. role[q].level \in Nat /\ Pass(role[q]).level = role[q].level + 1
      BY <2>1 DEF Pass, Data
    <2> QED BY <2>1, <2>2 DEF LevelsStart
  <1> QED BY <1>2, <1>3 DEF Next, LevelsStart, vars

\* Whatever calls are retried or run side by side, every role only takes steps
\* that AtomicRole allows, which are the ones RoleActor implements.
THEOREM RolesStayAtomic == Spec => RolesAreAtomic
  <1>1. Init => LevelsStart
    BY DEF Init, LevelsStart, InitData
  <1>2. Init => \A r \in Roles : Role(r)!AbsInit
    <2> SUFFICES ASSUME Init, NEW r \in Roles PROVE Role(r)!AbsInit
      OBVIOUS
    <2>1. role[r] = InitData /\ ledger[r] = {}
      BY DEF Init
    <2>2. 2 .. role[r].level = {}
      BY <2>1 DEF InitData
    <2> QED BY <2>1, <2>2 DEF Role!AbsInit, Role!InitData, InitData
  <1>3. SagaInv /\ LevelsStart /\ [Next]_vars =>
          [\A r \in Roles : UNCHANGED <<role[r], ledger[r]>> \/ Role(r)!AbsNext]_vars
    BY CallIsAtomic, EarnIsAtomic DEF Next, SagaInv
  <1>4. SagaInv /\ LevelsStart /\ [Next]_vars => LevelsStart'
    BY LevelsStay
  <1> QED BY <1>1, <1>2, <1>3, <1>4, SagaInvariant, PTL DEF Spec, RolesAreAtomic
=============================================================================
