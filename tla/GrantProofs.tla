----------------------------- MODULE GrantProofs ----------------------------
(***************************************************************************)
(* Pay, Mail and Activity for every number of orders, mails, events and    *)
(* calls: what is marked was granted, and what was granted was due.        *)
(***************************************************************************)
EXTENDS MCServices, FiniteSetTheorems, WellFoundedInduction, TLAPS

USE PayAssumption, MailAssumption, ActivityAssumption

-----------------------------------------------------------------------------
(* Pay.                                                                    *)

\* A call that has an order knows it; a notification has a transaction, and
\* only notifications mark orders paid.
Known(x) ==
    /\ x.pc \in {"lock", "mark", "get", "grant", "deliver"} => x.order \in Orders
    /\ x.pc = "lock" /\ ~x.retry => x.txn \in Txns
    /\ x.pc = "mark" => x.txn \in Txns
    /\ x.pc = "next" => x.retry
CallsKnown == \A c \in PayCalls : Known(pcall[c])

\* A paid order has a transaction that no other order has.
PaymentsDistinct ==
    \A o \in Orders :
        /\ order[o].status = "paid" => order[o].txn \in Txns
        /\ order[o].txn \in Txns => \A q \in Orders \ {o} : order[q].txn # order[o].txn

\* A call grants for a paid order and marks what it has granted.
CallsInStep ==
    \A c \in PayCalls :
        /\ pcall[c].pc \in {"grant", "deliver"} => order[pcall[c].order].status = "paid"
        /\ pcall[c].pc = "deliver" => PaySource(pcall[c].order) \in ledger

PaidFor == \A o \in Orders : PaySource(o) \in ledger => order[o].status = "paid"

PayInv ==
    /\ PayTypeOK /\ CallsKnown /\ PaymentsDistinct /\ CallsInStep /\ PaidFor
    /\ DeliveredIsGranted

\* Nothing is paid for at the start.
LEMMA PayStart ==
  ASSUME PayInit, ledger = {}
  PROVE  PayInv
  BY DEF PayInit, PayInv, PayTypeOK, CallsKnown, PaymentsDistinct, CallsInStep, PaidFor,
         DeliveredIsGranted, NoPayCall, Notices, Known

\* Other services add sources of their own.
LEMMA PayElsewhere ==
  ASSUME PayInv, UNCHANGED payVars, ledger \subseteq ledger',
         \A o \in Orders : PaySource(o) \in ledger' => PaySource(o) \in ledger
  PROVE  PayInv'
  BY DEF payVars, PayInv, PayTypeOK, CallsKnown, PaymentsDistinct, CallsInStep, PaidFor,
         DeliveredIsGranted, PaySource, Known

PCall == [pc : {"none", "next", "lock", "mark", "get", "grant", "deliver", "done"},
          order : Orders \cup {NoOrder}, txn : Txns \cup {NoTxn},
          notice : Notices, retry : BOOLEAN, todo : SUBSET Orders]
PRow == [status : {"none", "pending", "paid"}, txn : Txns \cup {NoTxn}, delivered : BOOLEAN]

\* A call that goes on keeps its order.
LEMMA GotoCall ==
  ASSUME PayTypeOK, NEW c \in PayCalls,
         NEW pc \in {"next", "lock", "mark", "get", "grant", "deliver", "done"}, Goto(c, pc)
  PROVE  /\ pcall' \in [PayCalls -> PCall]
         /\ \A d \in PayCalls \ {c} : pcall'[d] = pcall[d]
         /\ pcall'[c].pc = pc
         /\ pc # "done" => /\ pcall'[c].order = pcall[c].order /\ pcall'[c].txn = pcall[c].txn
                           /\ pcall'[c].retry = pcall[c].retry
  <1>1. pcall \in [PayCalls -> PCall]
    BY DEF PayTypeOK, PCall
  <1>2. CASE pc = "done"
    <2>1. [NoPayCall EXCEPT !.pc = "done"] \in PCall /\ [NoPayCall EXCEPT !.pc = "done"].pc = "done"
      BY DEF NoPayCall, PCall, Notices
    <2>2. pcall' = [pcall EXCEPT ![c] = [NoPayCall EXCEPT !.pc = "done"]]
      BY <1>2 DEF Goto
    <2> QED BY <1>1, <1>2, <2>1, <2>2
  <1>3. CASE pc # "done"
    <2>1. pcall' = [pcall EXCEPT ![c] = [pcall[c] EXCEPT !.pc = pc]]
      BY <1>3 DEF Goto
    <2>2. pcall[c] \in PCall
      BY <1>1
    <2>3. /\ [pcall[c] EXCEPT !.pc = pc] \in PCall
          /\ [pcall[c] EXCEPT !.pc = pc].pc = pc
          /\ [pcall[c] EXCEPT !.pc = pc].order = pcall[c].order
          /\ [pcall[c] EXCEPT !.pc = pc].txn = pcall[c].txn
          /\ [pcall[c] EXCEPT !.pc = pc].retry = pcall[c].retry
      BY <2>2 DEF PCall
    <2> QED BY <1>1, <1>3, <2>1, <2>3
  <1> QED BY <1>2, <1>3

\* A step that only moves one call, to where the rows and the ledger allow it.
LEMMA CallMoves ==
  ASSUME PayInv, NEW c \in PayCalls, UNCHANGED <<order, ledger>>, nonces' \subseteq Nonces,
         pcall' \in [PayCalls -> PCall], \A d \in PayCalls \ {c} : pcall'[d] = pcall[d],
         Known(pcall'[c]),
         pcall'[c].pc \in {"grant", "deliver"} => order[pcall'[c].order].status = "paid",
         pcall'[c].pc = "deliver" => PaySource(pcall'[c].order) \in ledger
  PROVE  PayInv'
  <1>1. PayTypeOK'
    BY DEF PayInv, PayTypeOK, PCall
  <1>2. CallsKnown'
    BY DEF PayInv, CallsKnown
  <1>3. CallsInStep'
    <2> SUFFICES ASSUME NEW d \in PayCalls
                 PROVE  /\ pcall'[d].pc \in {"grant", "deliver"} => order[pcall'[d].order].status = "paid"
                        /\ pcall'[d].pc = "deliver" => PaySource(pcall'[d].order) \in ledger
      BY DEF CallsInStep, PaySource
    <2>1. CASE d = c
      BY <2>1
    <2>2. CASE d # c
      BY <2>2 DEF PayInv, CallsInStep
    <2> QED BY <2>1, <2>2
  <1>4. PaymentsDistinct' /\ PaidFor' /\ DeliveredIsGranted'
    BY DEF PayInv, PaymentsDistinct, PaidFor, DeliveredIsGranted, PaySource
  <1> QED BY <1>1, <1>2, <1>3, <1>4 DEF PayInv

\* A new order has no payment and no reward.
LEMMA CreateKeeps ==
  ASSUME PayInv, NEW o \in Orders, CreateOrder(o)
  PROVE  PayInv'
  <1>1. /\ order \in [Orders -> PRow] /\ order' = [order EXCEPT ![o] = NewOrder]
        /\ order[o].status = "none" /\ UNCHANGED <<nonces, pcall, ledger>>
    BY DEF CreateOrder, PayInv, PayTypeOK, PRow
  <1>2. NewOrder \in PRow /\ NewOrder.status = "pending" /\ NewOrder.txn = NoTxn
        /\ NewOrder.delivered = FALSE
    BY DEF NewOrder, PRow
  <1>3. order' \in [Orders -> PRow] /\ order'[o] = NewOrder
        /\ \A q \in Orders \ {o} : order'[q] = order[q]
    BY <1>1, <1>2
  <1>4. PayTypeOK' /\ CallsKnown'
    BY <1>1, <1>3 DEF PayInv, PayTypeOK, PRow, CallsKnown, Known
  <1>5. PaymentsDistinct'
    BY <1>2, <1>3 DEF PayInv, PaymentsDistinct
  <1>6. PaidFor' /\ DeliveredIsGranted'
    BY <1>1, <1>2, <1>3 DEF PayInv, PaidFor, DeliveredIsGranted, PaySource
  <1>7. CallsInStep'
    BY <1>1, <1>3 DEF PayInv, CallsInStep, CallsKnown, Known, PaySource
  <1> QED BY <1>4, <1>5, <1>6, <1>7 DEF PayInv

\* A notification, a retry's list and the lock.
LEMMA CallBegins ==
  ASSUME PayInv, NEW c \in PayCalls,
         \/ \E n \in Nonces, o \in Orders, t \in Txns, m \in Notices : VerifyWebhook(c, n, o, t, m)
         \/ ListUndeliveredPaid(c) \/ RetryNext(c) \/ TakeLock(c)
  PROVE  PayInv'
  <1>0. PayTypeOK /\ pcall \in [PayCalls -> PCall] /\ pcall[c] \in PCall /\ Known(pcall[c])
        /\ nonces \subseteq Nonces
    BY DEF PayInv, PayTypeOK, PCall, CallsKnown
  <1>1. ASSUME NEW n \in Nonces, NEW o \in Orders, NEW t \in Txns, NEW m \in Notices,
               VerifyWebhook(c, n, o, t, m)
        PROVE  PayInv'
    <2>0. nonces' \subseteq Nonces /\ UNCHANGED <<order, ledger>>
      BY <1>0, <1>1 DEF VerifyWebhook
    <2>1. CASE Goto(c, "done")
      BY <1>0, <2>0, <2>1, GotoCall, CallMoves DEF Known
    <2>2. CASE pcall' = [pcall EXCEPT ![c] =
                [@ EXCEPT !.pc = "lock", !.order = o, !.txn = t, !.notice = m]]
      <3> DEFINE x == [pcall[c] EXCEPT !.pc = "lock", !.order = o, !.txn = t, !.notice = m]
      <3>1. x \in PCall /\ x.pc = "lock" /\ x.order = o /\ x.txn = t
        BY <1>0 DEF PCall
      <3>2. pcall' = [pcall EXCEPT ![c] = x]
        BY <2>2
      <3> HIDE DEF x
      <3>3. pcall' \in [PayCalls -> PCall] /\ pcall'[c] = x
            /\ \A d \in PayCalls \ {c} : pcall'[d] = pcall[d]
        BY <1>0, <3>1, <3>2
      <3>4. Known(pcall'[c])
        BY <3>1, <3>3 DEF Known
      <3> QED BY <2>0, <3>1, <3>3, <3>4, CallMoves
    <2> QED BY <1>1, <2>1, <2>2 DEF VerifyWebhook
  <1>2. CASE ListUndeliveredPaid(c)
    <2>0. UNCHANGED <<order, ledger, nonces>>
      BY <1>2 DEF ListUndeliveredPaid
    <2>1. PICK S \in SUBSET Undelivered : pcall' = [pcall EXCEPT ![c] =
                [@ EXCEPT !.pc = "next", !.retry = TRUE, !.todo = S]]
      BY <1>2 DEF ListUndeliveredPaid
    <2> DEFINE x == [pcall[c] EXCEPT !.pc = "next", !.retry = TRUE, !.todo = S]
    <2>2. x \in PCall /\ x.pc = "next" /\ x.retry
      BY <1>0 DEF PCall, Undelivered
    <2>3. pcall' = [pcall EXCEPT ![c] = x]
      BY <2>1
    <2> HIDE DEF x
    <2>4. pcall' \in [PayCalls -> PCall] /\ pcall'[c] = x
          /\ \A d \in PayCalls \ {c} : pcall'[d] = pcall[d]
      BY <1>0, <2>2, <2>3
    <2>5. Known(pcall'[c])
      BY <2>2, <2>4 DEF Known
    <2> QED BY <1>0, <2>0, <2>2, <2>4, <2>5, CallMoves
  <1>3. CASE RetryNext(c)
    <2>0. UNCHANGED <<order, ledger, nonces>>
      BY <1>3 DEF RetryNext
    <2>1. CASE Goto(c, "done")
      BY <1>0, <2>0, <2>1, GotoCall, CallMoves DEF Known
    <2>2. ASSUME NEW o \in pcall[c].todo,
                 pcall' = [pcall EXCEPT ![c] =
                   [@ EXCEPT !.pc = "lock", !.order = o, !.todo = pcall[c].todo \ {o}]]
          PROVE  PayInv'
      <3> DEFINE x == [pcall[c] EXCEPT !.pc = "lock", !.order = o, !.todo = pcall[c].todo \ {o}]
      <3>1. o \in Orders /\ x \in PCall /\ x.pc = "lock" /\ x.order = o /\ x.retry = pcall[c].retry
        BY <1>0 DEF PCall
      <3>2. pcall' = [pcall EXCEPT ![c] = x]
        BY <2>2
      <3> HIDE DEF x
      <3>3. pcall' \in [PayCalls -> PCall] /\ pcall'[c] = x
            /\ \A d \in PayCalls \ {c} : pcall'[d] = pcall[d]
        BY <1>0, <3>1, <3>2
      <3>4. Known(pcall'[c])
        BY <1>0, <1>3, <3>1, <3>3 DEF Known, RetryNext
      <3> QED BY <1>0, <2>0, <3>1, <3>3, <3>4, CallMoves
    <2> QED BY <1>3, <2>1, <2>2 DEF RetryNext
  <1>4. CASE TakeLock(c)
    <2>0. UNCHANGED <<order, ledger, nonces>> /\ pcall[c].pc = "lock"
      BY <1>4 DEF TakeLock
    <2>1. PICK l \in {"get", "mark"} : Goto(c, l) /\ (l = "mark" => ~pcall[c].retry)
      BY <1>4 DEF TakeLock
    <2>2. /\ pcall' \in [PayCalls -> PCall] /\ \A d \in PayCalls \ {c} : pcall'[d] = pcall[d]
          /\ pcall'[c].pc = l /\ pcall'[c].order = pcall[c].order /\ pcall'[c].txn = pcall[c].txn
      BY <1>0, <2>1, GotoCall
    <2>3. Known(pcall'[c])
      BY <1>0, <2>0, <2>1, <2>2 DEF Known
    <2> QED BY <1>0, <2>0, <2>2, <2>3, CallMoves
  <1> QED BY <1>1, <1>2, <1>3, <1>4

\* The transaction that marks an order paid gives it a payment that no other has.
LEMMA MarkPaidKeeps ==
  ASSUME PayInv, NEW c \in PayCalls, MarkPaidVerified(c)
  PROVE  PayInv'
  <1> DEFINE o == pcall[c].order
             t == pcall[c].txn
  <1>0. /\ PayTypeOK /\ pcall \in [PayCalls -> PCall] /\ pcall[c] \in PCall
        /\ nonces \subseteq Nonces /\ order \in [Orders -> PRow]
        /\ o \in Orders /\ t \in Txns /\ pcall[c].pc = "mark" /\ UNCHANGED <<nonces, ledger>>
    BY DEF PayInv, PayTypeOK, PCall, PRow, CallsKnown, Known, MarkPaidVerified
  <1>1. CASE UNCHANGED order /\ Goto(c, "done")
    BY <1>0, <1>1, GotoCall, CallMoves DEF Known
  <1>2. CASE /\ Binds(o, t)
             /\ order' = [order EXCEPT ![o] = [@ EXCEPT !.status = "paid", !.txn = t]]
             /\ \E l \in {"grant", "done"} : Goto(c, l)
    <2> DEFINE x == [order[o] EXCEPT !.status = "paid", !.txn = t]
    <2>1. x \in PRow /\ x.status = "paid" /\ x.txn = t /\ x.delivered = order[o].delivered
      BY ZenonT(30), <1>0 DEF PRow
    <2>2. order' = [order EXCEPT ![o] = x]
      BY <1>2
    <2>3. PICK l \in {"grant", "done"} : Goto(c, l)
      BY <1>2
    <2>4. \A p \in Orders \ {o} : order[p].txn # t
      BY <1>2 DEF Binds
    <2> HIDE DEF x
    <2>5. order' \in [Orders -> PRow] /\ order'[o] = x
          /\ \A q \in Orders \ {o} : order'[q] = order[q]
      BY <1>0, <2>1, <2>2
    <2>6. /\ pcall' \in [PayCalls -> PCall] /\ \A d \in PayCalls \ {c} : pcall'[d] = pcall[d]
          /\ pcall'[c].pc = l
          /\ l # "done" => pcall'[c].order = o
      BY <1>0, <2>3, GotoCall
    <2> HIDE DEF o, t
    <2>7. PayTypeOK'
      BY <1>0, <2>5, <2>6 DEF PayTypeOK, PCall, PRow
    <2>8. CallsKnown'
      BY <1>0, <2>6 DEF PayInv, CallsKnown, Known
    <2>9. PaymentsDistinct'
      BY <1>0, <2>1, <2>4, <2>5 DEF PayInv, PaymentsDistinct
    <2>10. PaidFor' /\ DeliveredIsGranted'
      BY <1>0, <2>1, <2>5 DEF PayInv, PaidFor, DeliveredIsGranted, PaySource
    <2>11. CallsInStep'
      <3> SUFFICES ASSUME NEW d \in PayCalls
                   PROVE  /\ pcall'[d].pc \in {"grant", "deliver"}
                               => order'[pcall'[d].order].status = "paid"
                          /\ pcall'[d].pc = "deliver" => PaySource(pcall'[d].order) \in ledger'
        BY DEF CallsInStep, PaySource
      <3>1. CASE d = c
        BY <1>0, <2>1, <2>5, <2>6, <3>1
      <3>2. CASE d # c
        BY <1>0, <2>1, <2>5, <2>6, <3>2 DEF PayInv, CallsInStep, CallsKnown, Known
      <3> QED BY <3>1, <3>2
    <2> QED BY <2>7, <2>8, <2>9, <2>10, <2>11 DEF PayInv
  <1> QED BY <1>1, <1>2 DEF MarkPaidVerified

\* The retry's second read, a crash, and the two steps of a delivery.
LEMMA GetKeeps ==
  ASSUME PayInv, NEW c \in PayCalls, GetOrder(c)
  PROVE  PayInv'
  <1>0. /\ PayTypeOK /\ pcall \in [PayCalls -> PCall] /\ pcall[c] \in PCall /\ Known(pcall[c])
        /\ pcall[c].pc = "get" /\ UNCHANGED <<order, nonces, ledger>> /\ nonces \subseteq Nonces
    BY DEF PayInv, PayTypeOK, PCall, CallsKnown, GetOrder
  <1>1. PICK l \in {"grant", "next", "done"} :
            /\ Goto(c, l)
            /\ l = "grant" => order[pcall[c].order].status = "paid"
            /\ l = "next" => pcall[c].retry
    BY DEF GetOrder, Undelivered, AfterOrder
  <1>2. /\ pcall' \in [PayCalls -> PCall] /\ \A d \in PayCalls \ {c} : pcall'[d] = pcall[d]
        /\ pcall'[c].pc = l
        /\ l # "done" => pcall'[c].order = pcall[c].order /\ pcall'[c].retry = pcall[c].retry
    BY <1>0, <1>1, GotoCall
  <1>3. Known(pcall'[c])
    BY <1>0, <1>1, <1>2 DEF Known
  <1> QED BY <1>0, <1>1, <1>2, <1>3, CallMoves

\* A crash keeps the rows.
LEMMA CrashKeeps ==
  ASSUME PayInv, NEW c \in PayCalls, PayCrash(c)
  PROVE  PayInv'
  <1> DEFINE x == [NoPayCall EXCEPT !.pc = "done"]
  <1>1. x \in PCall /\ x.pc = "done"
    BY DEF NoPayCall, PCall, Notices
  <1>2. /\ pcall \in [PayCalls -> PCall] /\ UNCHANGED <<order, nonces, ledger>>
        /\ \A d \in PayCalls : pcall[d] \in PCall
    BY DEF PayInv, PayTypeOK, PCall, PayCrash
  <1>3. pcall' = [d \in PayCalls |-> IF ReplicaOf[d] = ReplicaOf[c] /\ pcall[d].pc # "none"
                                     THEN x ELSE pcall[d]]
    BY DEF PayCrash
  <1> HIDE DEF x
  <1>4. pcall' \in [PayCalls -> PCall] /\ \A d \in PayCalls : pcall'[d] \in {x, pcall[d]}
    BY <1>1, <1>2, <1>3
  <1>5. PayTypeOK'
    BY <1>2, <1>4 DEF PayInv, PayTypeOK, PCall
  <1>6. CallsKnown'
    BY <1>1, <1>4 DEF PayInv, CallsKnown, Known
  <1>7. CallsInStep'
    <2> SUFFICES ASSUME NEW d \in PayCalls
                 PROVE  /\ pcall'[d].pc \in {"grant", "deliver"}
                             => order[pcall'[d].order].status = "paid"
                        /\ pcall'[d].pc = "deliver" => PaySource(pcall'[d].order) \in ledger
      BY <1>2 DEF CallsInStep, PaySource
    <2>1. CASE pcall'[d] = x
      BY <1>1, <2>1
    <2>2. CASE pcall'[d] = pcall[d]
      BY <2>2 DEF PayInv, CallsInStep
    <2> QED BY <1>4, <2>1, <2>2
  <1>8. PaymentsDistinct' /\ PaidFor' /\ DeliveredIsGranted'
    BY <1>2 DEF PayInv, PaymentsDistinct, PaidFor, DeliveredIsGranted, PaySource
  <1> QED BY <1>5, <1>6, <1>7, <1>8 DEF PayInv

\* A grant applies the source of an order that is paid, and says so when it did.
LEMMA GrantKeeps ==
  ASSUME PayInv, NEW c \in PayCalls, PayGrant(c)
  PROVE  PayInv'
  <1> DEFINE o == pcall[c].order
  <1>0. /\ PayTypeOK /\ pcall \in [PayCalls -> PCall] /\ pcall[c] \in PCall /\ Known(pcall[c])
        /\ pcall[c].pc = "grant" /\ UNCHANGED <<order, nonces>> /\ nonces \subseteq Nonces
        /\ o \in Orders /\ order[o].status = "paid"
    BY DEF PayInv, PayTypeOK, PCall, CallsKnown, Known, CallsInStep, PayGrant
  <1>1. PICK l \in {"deliver", "next", "done"} :
            /\ Goto(c, l)
            /\ ledger' \in {ledger, ledger \cup {PaySource(o)}}
            /\ l = "deliver" => ledger' = ledger \cup {PaySource(o)}
            /\ l = "next" => pcall[c].retry
    BY DEF PayGrant, GrantItems, Applied, AfterOrder
  <1>2. /\ pcall' \in [PayCalls -> PCall] /\ \A d \in PayCalls \ {c} : pcall'[d] = pcall[d]
        /\ pcall'[c].pc = l
        /\ l # "done" => pcall'[c].order = pcall[c].order /\ pcall'[c].retry = pcall[c].retry
    BY <1>0, <1>1, GotoCall
  <1> HIDE DEF o
  <1>3. PayTypeOK'
    BY <1>0, <1>2 DEF PayTypeOK, PCall
  <1>4. CallsKnown'
    BY <1>0, <1>1, <1>2 DEF PayInv, CallsKnown, Known, o
  <1>5. CallsInStep'
    <2> SUFFICES ASSUME NEW d \in PayCalls
                 PROVE  /\ pcall'[d].pc \in {"grant", "deliver"}
                             => order[pcall'[d].order].status = "paid"
                        /\ pcall'[d].pc = "deliver" => PaySource(pcall'[d].order) \in ledger'
      BY <1>0 DEF CallsInStep, PaySource
    <2>1. CASE d = c
      BY <1>0, <1>1, <1>2, <2>1 DEF o
    <2>2. CASE d # c
      BY <1>1, <1>2, <2>2 DEF PayInv, CallsInStep
    <2> QED BY <2>1, <2>2
  <1>6. PaidFor' /\ DeliveredIsGranted' /\ PaymentsDistinct'
    BY <1>0, <1>1 DEF PayInv, PaidFor, DeliveredIsGranted, PaymentsDistinct, PaySource
  <1> QED BY <1>3, <1>4, <1>5, <1>6 DEF PayInv

\* An order is marked by a call whose grant was applied.
LEMMA DeliverKeeps ==
  ASSUME PayInv, NEW c \in PayCalls, MarkDelivered(c)
  PROVE  PayInv'
  <1> DEFINE o == pcall[c].order
  <1>0. /\ PayTypeOK /\ pcall \in [PayCalls -> PCall] /\ pcall[c] \in PCall /\ Known(pcall[c])
        /\ pcall[c].pc = "deliver" /\ UNCHANGED <<ledger, nonces>> /\ nonces \subseteq Nonces
        /\ o \in Orders /\ PaySource(o) \in ledger /\ order \in [Orders -> PRow]
    BY DEF PayInv, PayTypeOK, PCall, PRow, CallsKnown, Known, CallsInStep, MarkDelivered
  <1>1. PICK l \in {"next", "done"} : Goto(c, l) /\ (l = "next" => pcall[c].retry)
    BY DEF MarkDelivered, AfterOrder
  <1>2. /\ pcall' \in [PayCalls -> PCall] /\ \A d \in PayCalls \ {c} : pcall'[d] = pcall[d]
        /\ pcall'[c].pc = l
        /\ l # "done" => pcall'[c].order = pcall[c].order /\ pcall'[c].retry = pcall[c].retry
    BY <1>0, <1>1, GotoCall
  <1>3. Known(pcall'[c])
    BY <1>0, <1>1, <1>2 DEF Known
  <1>4. CASE UNCHANGED order
    BY <1>0, <1>1, <1>2, <1>3, <1>4, CallMoves
  <1>5. CASE order' = [order EXCEPT ![o].delivered = TRUE]
    <2> DEFINE x == [order[o] EXCEPT !.delivered = TRUE]
    <2>1. x \in PRow /\ x.status = order[o].status /\ x.txn = order[o].txn
      BY ZenonT(30), <1>0 DEF PRow
    <2>2. order' = [order EXCEPT ![o] = x]
      BY <1>5
    <2> HIDE DEF x, o
    <2>3. order' \in [Orders -> PRow] /\ order'[o] = x
          /\ \A q \in Orders \ {o} : order'[q] = order[q]
      BY <1>0, <2>1, <2>2
    <2>4. \A q \in Orders : order'[q].status = order[q].status /\ order'[q].txn = order[q].txn
      BY <2>1, <2>3
    <2>5. PayTypeOK'
      BY <1>0, <1>2, <2>3 DEF PayTypeOK, PCall, PRow
    <2>6. CallsKnown'
      BY <1>2, <1>3 DEF PayInv, CallsKnown
    <2>7. CallsInStep'
      BY <1>0, <1>1, <1>2, <2>4 DEF PayInv, CallsInStep, CallsKnown, Known, PaySource
    <2>8. PaymentsDistinct' /\ PaidFor'
      BY <1>0, <2>4 DEF PayInv, PaymentsDistinct, PaidFor, PaySource
    <2>9. DeliveredIsGranted'
      BY <1>0, <2>3 DEF PayInv, DeliveredIsGranted, PaySource
    <2> QED BY <2>5, <2>6, <2>7, <2>8, <2>9 DEF PayInv
  <1> QED BY <1>4, <1>5 DEF MarkDelivered

\* Every step of Pay.
LEMMA PayKeeps ==
  ASSUME PayInv, PayNext
  PROVE  PayInv'
  <1>1. ASSUME NEW c \in PayCalls, PayStep(c)
        PROVE  PayInv'
    BY <1>1, CallBegins, MarkPaidKeeps, GetKeeps, GrantKeeps, DeliverKeeps, CrashKeeps DEF PayStep
  <1> QED BY <1>1, CreateKeeps DEF PayNext

\* What the invariant says of what was granted.
LEMMA PayConcludes == PayInv => DeliveredIsGranted /\ GrantedIsPaid
  BY DEF PayInv, PaidFor, PaymentsDistinct, GrantedIsPaid

-----------------------------------------------------------------------------
(* Mail.                                                                   *)

MRow == [items : Rewards, event : MailEvents \cup {NoEvent}, claimed : BOOLEAN, read : BOOLEAN]
MCall == [pc : {"none", "grant", "mark", "done"}, todo : SUBSET Nat, ids : SUBSET Nat]

MailShapes ==
    /\ mails \in Seq(MRow) /\ mailInbox \subseteq MailEvents
    /\ mcall \in [MailCalls -> MCall]

\* A call grants mails with items, and marks those whose items were applied.
Fits(x) ==
    /\ x.todo \cup x.ids \subseteq DOMAIN mails
    /\ x.pc = "grant" => x.todo # {}
    /\ \A i \in x.todo : mails[i].items # "none"
    /\ \A i \in x.ids : mails[i].items # "none" => MailSource(i) \in ledger
CallsFit == \A c \in MailCalls : Fits(mcall[c])

\* Nothing is applied for a mail that is not there or does not parse.
GrantedIsStored ==
    \A i \in Nat : MailSource(i) \in ledger => i \in DOMAIN mails /\ mails[i].items = "good"

\* An event is one mail.
EventsDistinct ==
    \A i \in DOMAIN mails : mails[i].event # NoEvent =>
        /\ mails[i].event \in mailInbox
        /\ \A j \in DOMAIN mails \ {i} : mails[j].event # mails[i].event

MailInv ==
    /\ MailShapes /\ CallsFit /\ GrantedIsStored /\ EventsDistinct /\ ClaimedIsGranted

\* No mail is stored at the start.
LEMMA MailStart ==
  ASSUME MailInit, ledger = {}
  PROVE  MailInv
  BY DEF MailInit, MailInv, MailShapes, CallsFit, Fits, GrantedIsStored, EventsDistinct,
         ClaimedIsGranted, NoMailCall, MCall

\* Other services add sources of their own.
LEMMA MailElsewhere ==
  ASSUME MailInv, UNCHANGED mailVars, ledger \subseteq ledger',
         \A i \in Nat : MailSource(i) \in ledger' => MailSource(i) \in ledger
  PROVE  MailInv'
  <1>1. MailShapes' /\ GrantedIsStored' /\ EventsDistinct'
    BY DEF mailVars, MailInv, MailShapes, GrantedIsStored, EventsDistinct, MailSource
  <1>2. CallsFit' /\ ClaimedIsGranted'
    BY DEF mailVars, MailInv, CallsFit, Fits, ClaimedIsGranted, MailSource
  <1> QED BY <1>1, <1>2 DEF MailInv

\* Every set of ids has a least one.
LEMMA LeastExists ==
  ASSUME NEW S \in SUBSET Nat, S # {}
  PROVE  \E k \in S : \A l \in S : k <= l
  <1>1. PICK k \in S : \A l \in S : ~(<<l, k>> \in OpToRel(<, Nat))
    BY NatLessThanWellFounded, WFMin
  <1>2. ASSUME NEW l \in S, l < k
        PROVE  FALSE
    <2>1. <<l, k>> \in Nat \X Nat /\ <<l, k>>[1] < <<l, k>>[2]
      BY <1>2
    <2>2. <<l, k>> \in OpToRel(<, Nat)
      BY <2>1, Zenon DEF OpToRel
    <2> QED BY <1>1, <2>2
  <1>3. \A l \in S : k <= l
    BY <1>2
  <1> QED BY <1>3

\* The next mail to grant is one of those to do.
LEMMA FirstIsOne ==
  ASSUME NEW S \in SUBSET Nat, S # {}
  PROVE  (CHOOSE k \in S : \A l \in S : k <= l) \in S
  BY LeastExists

\* A mail is added behind the others.
LEMMA StoreKeeps ==
  ASSUME MailInv, NEW items \in Rewards, NEW e \in MailEvents \cup {NoEvent},
         mails' = Stored(items, e), UNCHANGED <<mcall, ledger>>,
         e \notin mailInbox, mailInbox' \in {mailInbox, mailInbox \cup {e}},
         e # NoEvent => e \in mailInbox', mailInbox' \subseteq MailEvents
  PROVE  MailInv'
  <1> DEFINE x == [items |-> items, event |-> e, claimed |-> FALSE, read |-> FALSE]
             n == Len(mails) + 1
  <1>1. x \in MRow /\ x.event = e /\ ~x.claimed
    BY DEF MRow
  <1>2. mails \in Seq(MRow) /\ mails' = Append(mails, x)
    BY DEF MailInv, MailShapes, Stored
  <1> HIDE DEF x
  <1>3. /\ mails' \in Seq(MRow) /\ DOMAIN mails = 1 .. Len(mails) /\ Len(mails) \in Nat
        /\ DOMAIN mails' = 1 .. n /\ mails'[n] = x
        /\ \A i \in DOMAIN mails : mails'[i] = mails[i]
    BY <1>1, <1>2
  <1>4. /\ \A i \in DOMAIN mails : i \in DOMAIN mails' /\ i # n
        /\ \A i \in DOMAIN mails' : i = n \/ i \in DOMAIN mails
        /\ n \in DOMAIN mails'
    BY <1>3
  <1> HIDE DEF n
  <1>5. MailShapes'
    BY <1>3 DEF MailInv, MailShapes
  <1>6. CallsFit'
    <2> SUFFICES ASSUME NEW c \in MailCalls  PROVE Fits(mcall[c])'
      BY DEF CallsFit
    <2>1. Fits(mcall[c]) /\ UNCHANGED mcall
      BY DEF MailInv, CallsFit
    <2> QED BY <1>3, <1>4, <2>1 DEF Fits, MailSource
  <1>7. GrantedIsStored'
    BY <1>3, <1>4 DEF MailInv, GrantedIsStored, MailSource
  <1>8. EventsDistinct'
    <2>1. \A i \in DOMAIN mails : mails[i].event # NoEvent => mails[i].event # e
      BY DEF MailInv, EventsDistinct
    <2> SUFFICES ASSUME NEW i \in DOMAIN mails', mails'[i].event # NoEvent
                 PROVE  /\ mails'[i].event \in mailInbox'
                        /\ \A j \in DOMAIN mails' \ {i} : mails'[j].event # mails'[i].event
      BY DEF EventsDistinct
    <2>2. CASE i = n
      BY <1>1, <1>3, <1>4, <2>1, <2>2
    <2>3. CASE i # n
      BY <1>1, <1>3, <1>4, <2>1, <2>3 DEF MailInv, EventsDistinct
    <2> QED BY <2>2, <2>3
  <1>9. ClaimedIsGranted'
    BY <1>1, <1>3, <1>4 DEF MailInv, ClaimedIsGranted, MailSource
  <1> QED BY <1>5, <1>6, <1>7, <1>8, <1>9 DEF MailInv

\* A step that moves one call.
LEMMA ClaimMoves ==
  ASSUME MailInv, NEW c \in MailCalls, NEW x \in MCall, UNCHANGED <<mails, mailInbox>>,
         mcall' = [mcall EXCEPT ![c] = x], ledger \subseteq ledger',
         \A i \in Nat : MailSource(i) \in ledger' =>
            \/ MailSource(i) \in ledger
            \/ i \in DOMAIN mails /\ mails[i].items = "good",
         x.todo \cup x.ids \subseteq DOMAIN mails,
         x.pc = "grant" => x.todo # {},
         \A i \in x.todo : mails[i].items # "none",
         \A i \in x.ids : mails[i].items # "none" => MailSource(i) \in ledger'
  PROVE  MailInv'
  <1>1. MailShapes'
    BY DEF MailInv, MailShapes
  <1>2. /\ mcall'[c] = x /\ \A d \in MailCalls \ {c} : mcall'[d] = mcall[d]
    BY DEF MailInv, MailShapes
  <1>3. CallsFit'
    <2> SUFFICES ASSUME NEW d \in MailCalls  PROVE Fits(mcall[d])'
      BY DEF CallsFit
    <2>1. CASE d = c
      BY <1>2, <2>1 DEF Fits, MailSource
    <2>2. CASE d # c
      <3>1. mcall'[d] = mcall[d] /\ Fits(mcall[d])
        BY <1>2, <2>2 DEF MailInv, CallsFit
      <3> QED BY <3>1 DEF Fits, MailSource
    <2> QED BY <2>1, <2>2
  <1>4. GrantedIsStored' /\ EventsDistinct' /\ ClaimedIsGranted'
    BY DEF MailInv, GrantedIsStored, EventsDistinct, ClaimedIsGranted, MailSource
  <1> QED BY <1>1, <1>3, <1>4 DEF MailInv

\* A step that changes only the marks of the mails, and lets a call end.
LEMMA MarksChange ==
  ASSUME MailInv, mails' \in Seq(MRow), DOMAIN mails' = DOMAIN mails,
         UNCHANGED <<mailInbox, ledger>>, mcall' \in [MailCalls -> MCall],
         \A i \in DOMAIN mails :
            /\ mails'[i].items = mails[i].items /\ mails'[i].event = mails[i].event
            /\ mails'[i].claimed =>
                  mails[i].claimed \/ mails[i].items = "none" \/ MailSource(i) \in ledger,
         \A c \in MailCalls : mcall'[c] \in {mcall[c], Finished}
  PROVE  MailInv'
  <1>1. MailShapes'
    BY DEF MailInv, MailShapes
  <1>2. CallsFit'
    <2> SUFFICES ASSUME NEW d \in MailCalls  PROVE Fits(mcall[d])'
      BY DEF CallsFit
    <2>1. CASE mcall'[d] = Finished
      BY <2>1 DEF Fits, Finished, NoMailCall
    <2>2. CASE mcall'[d] = mcall[d]
      <3>1. Fits(mcall[d])
        BY DEF MailInv, CallsFit
      <3> QED BY <2>2, <3>1 DEF Fits, MailSource
    <2> QED BY <2>1, <2>2
  <1>3. GrantedIsStored' /\ EventsDistinct' /\ ClaimedIsGranted'
    BY DEF MailInv, GrantedIsStored, EventsDistinct, ClaimedIsGranted, MailSource
  <1> QED BY <1>1, <1>2, <1>3 DEF MailInv

\* Rewriting each row of the table gives a table.
LEMMA RowsRewritten ==
  ASSUME NEW s \in Seq(MRow), NEW f, \A i \in DOMAIN s : f[i] \in MRow,
         f = [i \in DOMAIN s |-> f[i]]
  PROVE  f \in Seq(MRow) /\ DOMAIN f = DOMAIN s
  <1>1. Len(s) \in Nat /\ DOMAIN s = 1 .. Len(s)
    OBVIOUS
  <1>2. f \in [1 .. Len(s) -> MRow]
    BY <1>1
  <1> QED BY <1>1, <1>2

\* The marks of a claim that granted, and those of a reader.
LEMMA MarkKeeps ==
  ASSUME MailInv, NEW S \in SUBSET Nat
  PROVE  /\ Marked(S) \in Seq(MRow) /\ DOMAIN Marked(S) = DOMAIN mails
         /\ Read(S) \in Seq(MRow) /\ DOMAIN Read(S) = DOMAIN mails
         /\ \A i \in DOMAIN mails :
               /\ Marked(S)[i].items = mails[i].items /\ Marked(S)[i].event = mails[i].event
               /\ Marked(S)[i].claimed => mails[i].claimed \/ i \in S
               /\ Read(S)[i].items = mails[i].items /\ Read(S)[i].event = mails[i].event
               /\ Read(S)[i].claimed = mails[i].claimed
  <1>1. mails \in Seq(MRow) /\ \A i \in DOMAIN mails : mails[i] \in MRow
    BY DEF MailInv, MailShapes
  <1>2. ASSUME NEW i \in DOMAIN mails
        PROVE  /\ Marked(S)[i] \in MRow /\ Read(S)[i] \in MRow
               /\ Marked(S)[i].items = mails[i].items /\ Marked(S)[i].event = mails[i].event
               /\ Marked(S)[i].claimed => mails[i].claimed \/ i \in S
               /\ Read(S)[i].items = mails[i].items /\ Read(S)[i].event = mails[i].event
               /\ Read(S)[i].claimed = mails[i].claimed
    <2>1. mails[i] \in MRow
      BY <1>1
    <2>2. /\ Marked(S)[i] = [mails[i] EXCEPT !.claimed = mails[i].claimed \/ i \in S]
          /\ Read(S)[i] = [mails[i] EXCEPT !.read = mails[i].read \/ i \in S]
      BY DEF Marked, Read
    <2> QED BY <2>1, <2>2 DEF MRow
  <1>3. /\ Marked(S) = [i \in DOMAIN mails |-> Marked(S)[i]]
        /\ Read(S) = [i \in DOMAIN mails |-> Read(S)[i]]
    BY DEF Marked, Read
  <1> DEFINE f == Marked(S)
             g == Read(S)
  <1>4. (\A i \in DOMAIN mails : f[i] \in MRow) /\ f = [i \in DOMAIN mails |-> f[i]]
    BY <1>2, <1>3
  <1>5. (\A i \in DOMAIN mails : g[i] \in MRow) /\ g = [i \in DOMAIN mails |-> g[i]]
    BY <1>2, <1>3
  <1> HIDE DEF f, g
  <1>6. f \in Seq(MRow) /\ DOMAIN f = DOMAIN mails /\ g \in Seq(MRow) /\ DOMAIN g = DOMAIN mails
    BY <1>1, <1>4, <1>5, RowsRewritten
  <1> QED BY <1>2, <1>6 DEF f, g

\* The grant of the next mail.
LEMMA GrantMailKeeps ==
  ASSUME MailInv, NEW c \in MailCalls, GrantMail(c)
  PROVE  MailInv'
  <1> DEFINE call == mcall[c]
             i == CHOOSE k \in call.todo : \A l \in call.todo : k <= l
             rest == call.todo \ {i}
  <1>1. /\ call \in MCall /\ call.pc = "grant" /\ call.todo \in SUBSET Nat /\ call.todo # {}
        /\ call.ids \in SUBSET Nat
        /\ call.todo \cup call.ids \subseteq DOMAIN mails
        /\ \A j \in call.todo : mails[j].items # "none"
        /\ \A j \in call.ids : mails[j].items # "none" => MailSource(j) \in ledger
    <2>1. call \in MCall /\ Fits(call) /\ call.pc = "grant"
      BY DEF MailInv, MailShapes, CallsFit, GrantMail
    <2> QED BY <2>1 DEF MCall, Fits
  <1>2. i \in call.todo
    BY <1>1, FirstIsOne
  <1>3. PICK ok \in BOOLEAN :
          /\ GrantItems(MailSource(i), mails[i].items, ok)
          /\ LET ids == IF ok THEN call.ids \cup {i} ELSE call.ids IN
             mcall' = [mcall EXCEPT ![c] =
                IF rest \cup ids = {} THEN Finished
                ELSE [pc |-> IF rest = {} THEN "mark" ELSE "grant", todo |-> rest, ids |-> ids]]
    BY DEF GrantMail
  <1>4. UNCHANGED <<mails, mailInbox>>
    BY DEF GrantMail
  <1>5. i \in DOMAIN mails /\ mails[i].items \in {"good", "bad"} /\ i \in Nat
    <2>1. i \in DOMAIN mails /\ mails[i] \in MRow /\ mails[i].items # "none"
      BY <1>1, <1>2 DEF MailInv, MailShapes
    <2> QED BY <1>1, <1>2, <2>1 DEF MRow, Rewards
  <1> DEFINE ids == IF ok THEN call.ids \cup {i} ELSE call.ids
             x == IF rest \cup ids = {} THEN Finished
                  ELSE [pc |-> IF rest = {} THEN "mark" ELSE "grant", todo |-> rest, ids |-> ids]
  <1>6. mcall' = [mcall EXCEPT ![c] = x]
    BY <1>3
  <1>7. /\ ledger' \in {ledger, ledger \cup {MailSource(i)}}
        /\ ok => ledger' = ledger \cup {MailSource(i)}
        /\ ledger' # ledger => mails[i].items = "good"
    BY <1>3, <1>5 DEF GrantItems, Applied, Parses
  <1> HIDE DEF i
  <1>8. \A j \in Nat : MailSource(j) \in ledger' =>
            MailSource(j) \in ledger \/ (j \in DOMAIN mails /\ mails[j].items = "good")
    BY <1>5, <1>7 DEF MailSource
  <1>9. ids \subseteq call.ids \cup {i} /\ (i \in ids => i \in call.ids \/ ok)
    OBVIOUS
  <1> HIDE DEF ids
  <1>10. rest \in SUBSET Nat /\ ids \in SUBSET Nat /\ rest \subseteq call.todo
    BY <1>1, <1>5, <1>9
  <1>11. /\ x \in MCall /\ x.todo \subseteq rest /\ x.ids \subseteq ids
         /\ x.pc = "grant" => x.todo # {}
    BY <1>10 DEF MCall, Finished, NoMailCall
  <1> HIDE DEF x
  <1>12. \A j \in x.ids : mails[j].items # "none" => MailSource(j) \in ledger'
    BY <1>1, <1>7, <1>9, <1>11 DEF MailSource
  <1>13. x.todo \cup x.ids \subseteq DOMAIN mails /\ \A j \in x.todo : mails[j].items # "none"
    BY <1>1, <1>5, <1>9, <1>10, <1>11
  <1> QED BY <1>4, <1>6, <1>7, <1>8, <1>11, <1>12, <1>13, ClaimMoves

\* Every step of Mail.
LEMMA MailKeeps ==
  ASSUME MailInv, MailNext
  PROVE  MailInv'
  <1>0. /\ mails \in Seq(MRow) /\ mcall \in [MailCalls -> MCall] /\ CallsFit
        /\ \A i \in DOMAIN mails : i \in Nat /\ mails[i] \in MRow
    BY DEF MailInv, MailShapes
  <1>1. ASSUME NEW items \in Rewards, Insert(items)
        PROVE  MailInv'
    BY <1>1, StoreKeeps DEF Insert, MailInv, MailShapes
  <1>2. ASSUME NEW items \in Rewards, NEW e \in MailEvents, InsertEvent(e, items)
        PROVE  MailInv'
    <2>1. mailInbox' \subseteq MailEvents
      BY <1>2 DEF InsertEvent, MailInv, MailShapes
    <2> QED BY <1>2, <2>1, StoreKeeps DEF InsertEvent
  <1>3. ASSUME NEW c \in MailCalls, NEW i \in DOMAIN mails, Claim(c, i)
        PROVE  MailInv'
    <2> DEFINE x == IF mails[i].items = "none" THEN [pc |-> "mark", todo |-> {}, ids |-> {i}]
                    ELSE [pc |-> "grant", todo |-> {i}, ids |-> {}]
    <2>1. /\ x \in MCall /\ x.todo \cup x.ids \subseteq DOMAIN mails
          /\ x.pc = "grant" => x.todo # {}
          /\ \A j \in x.todo : mails[j].items # "none"
          /\ \A j \in x.ids : mails[j].items = "none"
      BY <1>0 DEF MCall
    <2>2. mcall' = [mcall EXCEPT ![c] = x] /\ UNCHANGED <<mails, mailInbox, ledger>>
      BY <1>3 DEF Claim
    <2> HIDE DEF x
    <2> QED BY <2>1, <2>2, ClaimMoves
  <1>4. ASSUME NEW c \in MailCalls, ListUnclaimed(c)
        PROVE  MailInv'
    <2> DEFINE first == {i \in Due : Cardinality({j \in Due : j < i}) < ClaimLimit}
               x == [pc |-> "grant", todo |-> first, ids |-> {}]
    <2>1. mcall' = [mcall EXCEPT ![c] = x] /\ UNCHANGED <<mails, mailInbox, ledger>>
      BY <1>4 DEF ListUnclaimed
    <2>2. first \subseteq DOMAIN mails /\ \A j \in first : mails[j].items # "none"
      BY DEF Due
    <2>3. first # {}
      <3>1. Due \in SUBSET Nat /\ Due # {}
        BY <1>0, <1>4 DEF Due, ListUnclaimed
      <3>2. PICK m \in Due : \A l \in Due : m <= l
        BY <3>1, LeastExists
      <3>3. {j \in Due : j < m} = {}
        <4>1. \A j \in Due : j \in Nat /\ m \in Nat /\ m <= j
          BY <3>1, <3>2
        <4>2. \A j \in Due : ~(j < m)
          BY <4>1
        <4> QED BY <4>2
      <3>4. Cardinality({j \in Due : j < m}) = 0
        BY <3>3, FS_EmptySet
      <3> QED BY <3>2, <3>4
    <2> HIDE DEF first
    <2>4. x \in MCall /\ x.todo = first /\ x.ids = {}
      BY <1>0, <2>2 DEF MCall
    <2> HIDE DEF x
    <2> QED BY <2>1, <2>2, <2>3, <2>4, ClaimMoves
  <1>5. ASSUME NEW c \in MailCalls, MarkClaimed(c) \/ MailCrash(c)
        PROVE  MailInv'
    <2>1. Finished \in MCall
      BY DEF Finished, NoMailCall, MCall
    <2>2. mcall' = [mcall EXCEPT ![c] = Finished] /\ UNCHANGED <<mailInbox, ledger>>
          /\ (mails' = mails \/ mails' = Marked(mcall[c].ids))
      BY <1>5 DEF MarkClaimed, MailCrash
    <2>3. mcall' \in [MailCalls -> MCall] /\ \A d \in MailCalls : mcall'[d] \in {mcall[d], Finished}
      BY <1>0, <2>1, <2>2
    <2>4. CASE mails' = mails
      BY <1>0, <2>2, <2>3, <2>4, MarksChange
    <2>5. CASE mails' = Marked(mcall[c].ids)
      <3>1. mcall[c] \in MCall /\ Fits(mcall[c])
        BY <1>0 DEF CallsFit
      <3>2. /\ mcall[c].ids \in SUBSET Nat
            /\ \A i \in mcall[c].ids : mails[i].items # "none" => MailSource(i) \in ledger
        BY <3>1 DEF MCall, Fits
      <3> QED BY <2>2, <2>3, <2>5, <3>2, MarkKeeps, MarksChange
    <2> QED BY <2>2, <2>4, <2>5
  <1>6. ASSUME NEW S \in SUBSET DOMAIN mails, MarkRead(S)
        PROVE  MailInv'
    <2>1. S \in SUBSET Nat /\ mails' = Read(S) /\ UNCHANGED <<mailInbox, mcall, ledger>>
      BY <1>0, <1>6 DEF MarkRead
    <2> QED BY <1>0, <2>1, MarkKeeps, MarksChange
  <1> QED BY <1>1, <1>2, <1>3, <1>4, <1>5, <1>6, GrantMailKeeps DEF MailNext

\* What the invariant says of what was granted.
LEMMA MailConcludes == MailInv => ClaimedIsGranted /\ GrantedIsMailed
  BY DEF MailInv, MailShapes, GrantedIsStored, EventsDistinct, GrantedIsMailed

HIDE ActivityAssumption
HIDE MailAssumption
HIDE PayAssumption

-----------------------------------------------------------------------------
(* Sums.  SumFunction is a fold over the subsets of the domain; what it    *)
(* computes is proved by induction over the number of elements, with the   *)
(* set of counterexamples and its smallest element in place of an          *)
(* induction theorem.                                                      *)

Some(s) == CHOOSE x \in s : TRUE

\* g is the partial sums of f: the sum over a set is that over the set without
\* one element, and the value of that element.
Sums(f, g) ==
    g = [s \in SUBSET DOMAIN f |-> IF s = {} THEN 0 ELSE f[Some(s)] + g[s \ {Some(s)}]]

\* SumFunction takes the partial sums at the whole domain.
LEMMA SumIsPartialSum ==
  ASSUME NEW f
  PROVE  SumFunction(f) = (CHOOSE g : Sums(f, g))[DOMAIN f]
  BY DEF SumFunction, SumFunctionOnSet, FoldFunctionOnSet, MapThenFoldSet, Sums, Some

\* What holds of the empty set, and of a set when it holds of the set without
\* one element, holds of every subset of a finite set.
LEMMA BySubsets ==
  ASSUME NEW D, IsFiniteSet(D), NEW H \in SUBSET SUBSET D, {} \in H,
         \A s \in SUBSET D : s # {} /\ s \ {Some(s)} \in H => s \in H
  PROVE  H = SUBSET D
  <1> SUFFICES ASSUME H # SUBSET D  PROVE FALSE
    OBVIOUS
  <1> DEFINE Bad == {s \in SUBSET D : s \notin H}
             N == {Cardinality(s) : s \in Bad}
  <1>1. \A s \in SUBSET D : IsFiniteSet(s) /\ Cardinality(s) \in Nat
    BY FS_Subset, FS_CardinalityType
  <1>2. N \in SUBSET Nat /\ N # {}
    BY <1>1
  <1>3. PICK k \in N : \A l \in N : k <= l
    BY <1>2, LeastExists
  <1>4. PICK s \in Bad : Cardinality(s) = k
    OBVIOUS
  <1> DEFINE x == Some(s)
             t == s \ {x}
  <1>5. s # {} /\ x \in s
    <2>1. s \notin H
      OBVIOUS
    <2>2. s # {}
      BY <2>1
    <2> HIDE DEF Bad, N
    <2>3. \E y : y \in s
      BY <2>2
    <2> QED BY <2>2, <2>3 DEF Some
  <1>6. t \in SUBSET D /\ Cardinality(t) = Cardinality(s) - 1
    BY <1>1, <1>5, FS_RemoveElement
  <1>7. t \in Bad
    BY <1>5, <1>6
  <1>8. Cardinality(t) \in N
    BY <1>7
  <1>9. k \in Nat /\ Cardinality(t) = k - 1 /\ k <= Cardinality(t)
    BY <1>2, <1>3, <1>4, <1>6, <1>8
  <1> QED BY <1>9

\* The partial sums over the sets of at most n elements.
SumsTo(f, g, n) ==
    \A s \in SUBSET DOMAIN f : Cardinality(s) <= n =>
        g[s] = IF s = {} THEN 0 ELSE f[Some(s)] + g[s \ {Some(s)}]

\* A function with a finite domain has partial sums.
LEMMA SumsExist ==
  ASSUME NEW f, IsFiniteSet(DOMAIN f)
  PROVE  \E g : Sums(f, g)
  <1> DEFINE D == DOMAIN f
             Has(n) == \E g : g = [s \in SUBSET D |-> g[s]] /\ SumsTo(f, g, n)
             Bad == {n \in Nat : ~Has(n)}
  <1>0. \A s \in SUBSET D : IsFiniteSet(s) /\ Cardinality(s) \in Nat
    BY FS_Subset, FS_CardinalityType
  <1>a. \A s \in SUBSET D : s # {} =>
            Some(s) \in s /\ s \ {Some(s)} \in SUBSET D
            /\ Cardinality(s \ {Some(s)}) = Cardinality(s) - 1
    <2> SUFFICES ASSUME NEW s \in SUBSET D, s # {}
                 PROVE  Some(s) \in s /\ s \ {Some(s)} \in SUBSET D
                        /\ Cardinality(s \ {Some(s)}) = Cardinality(s) - 1
      OBVIOUS
    <2>1. Some(s) \in s
      BY DEF Some
    <2> QED BY <1>0, <2>1, FS_RemoveElement
  <1>1. Bad = {}
    <2> SUFFICES ASSUME Bad # {}  PROVE FALSE
      OBVIOUS
    <2>1. PICK n \in Bad : \A l \in Bad : n <= l
      BY LeastExists
    <2>2. n # 0
      <3> DEFINE z == [s \in SUBSET D |-> 0]
      <3>1. z = [s \in SUBSET D |-> z[s]]
        OBVIOUS
      <3>2. SumsTo(f, z, 0)
        <4> SUFFICES ASSUME NEW s \in SUBSET D, Cardinality(s) <= 0
                     PROVE  s = {} /\ z[s] = 0
          BY DEF SumsTo
        <4>1. Cardinality(s) = 0
          BY <1>0
        <4> QED BY <1>0, <4>1, FS_EmptySet
      <3> HIDE DEF z
      <3>3. Has(0)
        BY <3>1, <3>2
      <3> QED BY <3>3
    <2>3. n \in Nat /\ n - 1 \in Nat /\ n - 1 \notin Bad
      <3>1. n \in Nat /\ n - 1 \in Nat /\ ~(n <= n - 1)
        BY <2>2
      <3> QED BY <2>1, <3>1
    <2>4. PICK g : g = [s \in SUBSET D |-> g[s]] /\ SumsTo(f, g, n - 1)
      BY <2>3
    <2> DEFINE h == [s \in SUBSET D |-> IF s = {} THEN 0 ELSE f[Some(s)] + g[s \ {Some(s)}]]
    <2>5. ASSUME NEW s \in SUBSET D, Cardinality(s) <= n - 1
          PROVE  h[s] = g[s]
      BY <2>4, <2>5 DEF SumsTo
    <2>6. SumsTo(f, h, n)
      <3> SUFFICES ASSUME NEW s \in SUBSET D, Cardinality(s) <= n, s # {}
                   PROVE  h[s] = f[Some(s)] + h[s \ {Some(s)}]
        BY DEF SumsTo
      <3>1. s \ {Some(s)} \in SUBSET D /\ Cardinality(s \ {Some(s)}) <= n - 1
        BY <1>0, <1>a, <2>3
      <3>2. h[s \ {Some(s)}] = g[s \ {Some(s)}]
        BY <2>5, <3>1
      <3>3. h[s] = f[Some(s)] + g[s \ {Some(s)}]
        OBVIOUS
      <3> QED BY <3>2, <3>3
    <2>7. h = [s \in SUBSET D |-> h[s]]
      OBVIOUS
    <2> HIDE DEF h
    <2>8. Has(n)
      BY <2>6, <2>7
    <2> QED BY <2>8
  <1>2. D \in SUBSET D /\ Cardinality(D) \in Nat
    BY <1>0
  <1>3. PICK g : g = [s \in SUBSET D |-> g[s]] /\ SumsTo(f, g, Cardinality(D))
    BY <1>1, <1>2
  <1>4. \A s \in SUBSET D : Cardinality(s) <= Cardinality(D)
    BY FS_Subset
  <1>5. \A s \in SUBSET D : g[s] = IF s = {} THEN 0 ELSE f[Some(s)] + g[s \ {Some(s)}]
    BY <1>3, <1>4 DEF SumsTo
  <1>6. g = [s \in SUBSET D |-> IF s = {} THEN 0 ELSE f[Some(s)] + g[s \ {Some(s)}]]
    BY <1>3, <1>5
  <1> QED BY <1>6 DEF Sums

\* The sum of f with the partial sums that lead to it.
SumBy(f, D, g) ==
    /\ SumFunction(f) = g[D] /\ g[{}] = 0
    /\ \A s \in SUBSET D : s # {} =>
          /\ Some(s) \in s /\ s \ {Some(s)} \in SUBSET D
          /\ g[s] = f[Some(s)] + g[s \ {Some(s)}]

\* The partial sums that SumFunction chooses.
LEMMA SumOf ==
  ASSUME NEW D, IsFiniteSet(D), NEW f, DOMAIN f = D
  PROVE  \E g : SumBy(f, D, g)
  <1> DEFINE g == CHOOSE g : Sums(f, g)
  <1>1. Sums(f, g)
    BY SumsExist
  <1>2. SumFunction(f) = g[D]
    BY SumIsPartialSum
  <1> HIDE DEF g
  <1>3. \A s \in SUBSET D : g[s] = IF s = {} THEN 0 ELSE f[Some(s)] + g[s \ {Some(s)}]
    BY <1>1 DEF Sums
  <1>4. g[{}] = 0
    BY <1>3
  <1>5. \A s \in SUBSET D : s # {} => Some(s) \in s
    BY DEF Some
  <1> QED BY <1>2, <1>3, <1>4, <1>5 DEF SumBy

\* Sums of natural numbers are natural numbers, and sums of zeros are 0.
LEMMA SumType ==
  ASSUME NEW D, IsFiniteSet(D), NEW f \in [D -> Nat]
  PROVE  SumFunction(f) \in Nat /\ ((\A x \in D : f[x] = 0) => SumFunction(f) = 0)
  <1>0. DOMAIN f = D
    OBVIOUS
  <1>1. PICK g : SumBy(f, D, g)
    BY <1>0, SumOf
  <1> DEFINE H == {s \in SUBSET D : g[s] \in Nat /\ ((\A x \in D : f[x] = 0) => g[s] = 0)}
  <1>2. {} \in H
    BY <1>1 DEF SumBy
  <1>3. ASSUME NEW s \in SUBSET D, s # {}, s \ {Some(s)} \in H
        PROVE  s \in H
    <2>1. /\ g[s] = f[Some(s)] + g[s \ {Some(s)}] /\ Some(s) \in D /\ f[Some(s)] \in Nat
          /\ g[s \ {Some(s)}] \in Nat
          /\ (\A x \in D : f[x] = 0) => f[Some(s)] = 0 /\ g[s \ {Some(s)}] = 0
      BY <1>1, <1>3 DEF SumBy
    <2> QED BY <2>1
  <1>4. H \in SUBSET SUBSET D
    OBVIOUS
  <1> HIDE DEF H
  <1>5. H = SUBSET D
    BY <1>2, <1>3, <1>4, BySubsets
  <1>6. D \in H
    BY <1>5
  <1> QED BY <1>1, <1>6 DEF H, SumBy

\* Adding to one value adds as much to the sum.
LEMMA SumAdds ==
  ASSUME NEW D, IsFiniteSet(D), NEW f \in [D -> Int], NEW r \in D, NEW d \in Int,
         NEW h \in [D -> Int], h[r] = f[r] + d, \A x \in D \ {r} : h[x] = f[x]
  PROVE  SumFunction(h) = SumFunction(f) + d
  <1>0. DOMAIN f = D /\ DOMAIN h = D
    OBVIOUS
  <1>1. PICK g : SumBy(f, D, g)
    BY <1>0, SumOf
  <1>2. PICK k : SumBy(h, D, k)
    BY <1>0, SumOf
  <1> DEFINE H == {s \in SUBSET D : g[s] \in Int /\ k[s] = g[s] + (IF r \in s THEN d ELSE 0)}
  <1>3. {} \in H
    BY <1>1, <1>2 DEF SumBy
  <1>4. ASSUME NEW s \in SUBSET D, s # {}, s \ {Some(s)} \in H
        PROVE  s \in H
    <2> DEFINE x == Some(s)
               t == s \ {x}
    <2>1. /\ g[s] = f[x] + g[t] /\ k[s] = h[x] + k[t] /\ x \in D /\ x \in s
          /\ f[x] \in Int /\ h[x] \in Int
          /\ g[t] \in Int /\ k[t] = g[t] + (IF r \in t THEN d ELSE 0)
      BY <1>1, <1>2, <1>4 DEF SumBy
    <2>2. (r \in t <=> r \in s /\ r # x)
      OBVIOUS
    <2> HIDE DEF x, t
    <2>3. CASE x = r
      BY <1>0, <2>1, <2>2, <2>3
    <2>4. CASE x # r
      BY <1>0, <2>1, <2>2, <2>4
    <2> QED BY <2>3, <2>4
  <1>5. H \in SUBSET SUBSET D
    OBVIOUS
  <1> HIDE DEF H
  <1>6. H = SUBSET D
    BY <1>3, <1>4, <1>5, BySubsets
  <1>7. D \in H
    BY <1>6
  <1> QED BY <1>1, <1>2, <1>7 DEF H, SumBy

USE PayAssumption, MailAssumption, ActivityAssumption

-----------------------------------------------------------------------------
(* Activity.                                                               *)

\* Different events that were stored add up to what the reward takes.
Enough == \E S \in SUBSET actInbox : Gained(S) >= Need

\* What a call relies on at its next step.
ActCallsInStep ==
    \A c \in ActCalls :
        /\ acall[c] = "grant" => Enough
        /\ acall[c] = "claim" => ActSource \in ledger
        /\ acall[c] = "set" => late \/ ActSource \in ledger

\* The progress is what the stored events add, and a reward is granted and marked
\* only by calls that may do so.
ActInv ==
    /\ ActTypeOK /\ ActCallsInStep
    /\ progress = Gained(actInbox)
    /\ ActSource \in ledger => Enough
    /\ claimed => late \/ ActSource \in ledger

\* No events add nothing.
LEMMA NothingGained == Gained({}) = 0
  <1> DEFINE f == [e \in ActEvents |-> IF e \in {} THEN Delta[e] ELSE 0]
  <1>1. f \in [ActEvents -> Nat] /\ \A e \in ActEvents : f[e] = 0
    OBVIOUS
  <1> HIDE DEF f
  <1>2. SumFunction(f) = 0
    BY <1>1, SumType
  <1> QED BY <1>2 DEF Gained, f

\* One more event adds its own delta.
LEMMA OneMoreGained ==
  ASSUME NEW S \in SUBSET ActEvents, NEW e \in ActEvents, e \notin S
  PROVE  Gained(S \cup {e}) = Gained(S) + Delta[e]
  <1> DEFINE T == S \cup {e}
             f == [x \in ActEvents |-> IF x \in S THEN Delta[x] ELSE 0]
             h == [x \in ActEvents |-> IF x \in T THEN Delta[x] ELSE 0]
  <1>1. Delta[e] \in Int /\ f \in [ActEvents -> Int] /\ h \in [ActEvents -> Int]
    OBVIOUS
  <1>2. h[e] = Delta[e] /\ f[e] = 0 /\ \A x \in ActEvents \ {e} : h[x] = f[x]
    OBVIOUS
  <1>3. Gained(S) = SumFunction(f) /\ Gained(T) = SumFunction(h)
    BY DEF Gained
  <1> HIDE DEF f, h, T
  <1>4. h[e] = f[e] + Delta[e]
    BY <1>1, <1>2
  <1>5. SumFunction(h) = SumFunction(f) + Delta[e]
    BY <1>1, <1>2, <1>4, SumAdds
  <1> QED BY <1>3, <1>5 DEF T

\* No event is stored at the start.
LEMMA ActStart ==
  ASSUME ActInit, ledger = {}
  PROVE  ActInv
  <1>1. 0 \in Int32
    BY DEF Int32
  <1> QED BY <1>1, NothingGained DEF ActInit, ActInv, ActCallsInStep, ActTypeOK

\* Other services add sources of their own.
LEMMA ActElsewhere ==
  ASSUME ActInv, UNCHANGED actVars, ledger \subseteq ledger',
         ActSource \in ledger' => ActSource \in ledger
  PROVE  ActInv'
  <1>1. Enough' <=> Enough
    BY DEF Enough, Gained, actVars
  <1>2. Gained(actInbox)' = Gained(actInbox)
    BY DEF Gained, actVars
  <1>3. ActTypeOK'
    BY DEF ActInv, ActTypeOK, actVars, Int32
  <1>4. ActCallsInStep'
    BY <1>1 DEF ActInv, ActCallsInStep, actVars, ActSource
  <1> QED BY <1>1, <1>2, <1>3, <1>4 DEF actVars, ActInv, ActSource

\* Every step of Activity.
LEMMA ActKeeps ==
  ASSUME ActInv, ActNext
  PROVE  ActInv'
  <1>0. /\ ActTypeOK /\ ActCallsInStep /\ progress = Gained(actInbox)
        /\ ActSource \in ledger => Enough
        /\ claimed => late \/ ActSource \in ledger
    BY DEF ActInv
  <1>1. ASSUME NEW e \in ActEvents, AddProgressEvent(e)
        PROVE  ActInv'
    <2>1. /\ e \notin actInbox /\ actInbox' = actInbox \cup {e} /\ progress' = progress + Delta[e]
          /\ progress' \in Int32 /\ UNCHANGED <<claimed, acall, late, ledger>>
          /\ actInbox \in SUBSET ActEvents
      BY <1>0, <1>1 DEF AddProgressEvent, ActTypeOK
    <2>2. ActTypeOK'
      BY <1>0, <2>1 DEF ActTypeOK, Int32
    <2>3. progress' = Gained(actInbox')
      BY <1>0, <2>1, OneMoreGained
    <2>4. Enough => Enough'
      BY <2>1 DEF Enough, Gained
    <2>5. ActCallsInStep'
      BY <1>0, <2>1, <2>4 DEF ActCallsInStep, ActSource
    <2> QED BY <1>0, <2>1, <2>2, <2>3, <2>4, <2>5 DEF ActInv, ActSource, Gained
  <1>2. ASSUME NEW c \in ActCalls,
               GetState(c) \/ GrantActivity(c) \/ ClaimGet(c) \/ ClaimSet(c) \/ ActCrash(c)
        PROVE  ActInv'
    <2>0. Reached => Enough
      BY <1>0 DEF Reached, Enough
    <2>1. UNCHANGED <<progress, actInbox>>
      BY <1>2 DEF GetState, GrantActivity, ClaimGet, ClaimSet, ActCrash
    <2>2. /\ late' \in BOOLEAN /\ (late => late') /\ ledger \subseteq ledger'
          /\ ActSource \in ledger' => ActSource \in ledger \/ acall[c] = "grant"
      BY <1>0, <1>2 DEF GetState, GrantActivity, ClaimGet, ClaimSet, ActCrash, GrantItems, Applied,
                        ActTypeOK
    <2>3. claimed' \in BOOLEAN /\ (claimed' => claimed \/ acall[c] = "set")
      <3>1. claimed \in BOOLEAN
        BY <1>0 DEF ActTypeOK
      <3>2. CASE ClaimSet(c)
        BY <3>1, <3>2 DEF ClaimSet
      <3>3. CASE GetState(c) \/ GrantActivity(c) \/ ClaimGet(c) \/ ActCrash(c)
        BY <3>1, <3>3 DEF GetState, GrantActivity, ClaimGet, ActCrash
      <3> QED BY <1>2, <3>2, <3>3
    <2>4. PICK l \in {"grant", "claim", "skip", "set", "done"} :
            /\ acall' = [acall EXCEPT ![c] = l]
            /\ l = "grant" => Enough
            /\ l = "claim" => ActSource \in ledger'
            /\ l = "set" => late' \/ acall[c] = "claim"
      BY <1>0, <1>2, <2>0 DEF GetState, GrantActivity, ClaimGet, ClaimSet, ActCrash, GrantItems,
                              Applied, ActTypeOK
    <2>5. /\ acall[c] = "grant" => Enough
          /\ acall[c] = "claim" => ActSource \in ledger
          /\ acall[c] = "set" => late \/ ActSource \in ledger
      BY <1>0 DEF ActCallsInStep
    <2>6. Enough' <=> Enough
      BY <2>1 DEF Enough, Gained
    <2>7. ActTypeOK'
      BY <1>0, <2>1, <2>2, <2>3, <2>4 DEF ActTypeOK, Int32
    <2>8. ActCallsInStep'
      <3> SUFFICES ASSUME NEW d \in ActCalls
                   PROVE  /\ acall'[d] = "grant" => Enough
                          /\ acall'[d] = "claim" => ActSource \in ledger'
                          /\ acall'[d] = "set" => late' \/ ActSource \in ledger'
        BY <2>6 DEF ActCallsInStep, ActSource
      <3>1. CASE d = c
        <4>1. acall'[d] = l
          BY <1>0, <2>4, <3>1 DEF ActTypeOK
        <4> QED BY <2>2, <2>4, <2>5, <4>1
      <3>2. CASE d # c
        <4>1. acall'[d] = acall[d]
          BY <1>0, <2>4, <3>2 DEF ActTypeOK
        <4> QED BY <1>0, <2>2, <4>1 DEF ActCallsInStep
      <3> QED BY <3>1, <3>2
    <2>9. claimed' => late' \/ ActSource \in ledger'
      BY <1>0, <2>2, <2>3, <2>5
    <2> QED BY <1>0, <2>1, <2>2, <2>5, <2>6, <2>7, <2>8, <2>9 DEF ActInv, ActSource, Gained
  <1> QED BY <1>1, <1>2 DEF ActNext

\* What the invariant says of what was granted and marked.
LEMMA ActConcludes == ActInv => GrantedIsReached /\ ClaimedIsRewarded
  BY DEF ActInv, GrantedIsReached, ClaimedIsRewarded, Enough

-----------------------------------------------------------------------------
(* The services together.                                                  *)

\* Each service writes only sources of its own kind.
LEMMA OwnSources ==
  /\ PayNext => \/ ledger' = ledger
                \/ \E o : ledger' = ledger \cup {PaySource(o)}
  /\ MailNext => \/ ledger' = ledger
                 \/ \E i : ledger' = ledger \cup {MailSource(i)}
  /\ ActNext => ledger' \in {ledger, ledger \cup {ActSource}}
  <1>1. ASSUME PayNext
        PROVE  ledger' = ledger \/ \E o : ledger' = ledger \cup {PaySource(o)}
    <2>1. CASE \E o \in Orders : CreateOrder(o)
      BY <2>1 DEF CreateOrder
    <2>2. ASSUME NEW c \in PayCalls, PayGrant(c)
          PROVE  ledger' = ledger \/ \E o : ledger' = ledger \cup {PaySource(o)}
      BY <2>2 DEF PayGrant, GrantItems, Applied
    <2>3. ASSUME NEW c \in PayCalls, PayStep(c), ~PayGrant(c)
          PROVE  ledger' = ledger
      BY <2>3 DEF PayStep, VerifyWebhook, ListUndeliveredPaid, RetryNext, TakeLock,
                  MarkPaidVerified, GetOrder, MarkDelivered, PayCrash
    <2> QED BY <1>1, <2>1, <2>2, <2>3 DEF PayNext
  <1>2. ASSUME MailNext
        PROVE  ledger' = ledger \/ \E i : ledger' = ledger \cup {MailSource(i)}
    <2>1. ASSUME NEW c \in MailCalls, GrantMail(c)
          PROVE  ledger' = ledger \/ \E i : ledger' = ledger \cup {MailSource(i)}
      BY <2>1 DEF GrantMail, GrantItems, Applied
    <2>2. ASSUME ~(\E c \in MailCalls : GrantMail(c))
          PROVE  ledger' = ledger
      BY <1>2, <2>2 DEF MailNext, Insert, InsertEvent, Claim, ListUnclaimed, MarkClaimed,
                        MailCrash, MarkRead
    <2> QED BY <2>1, <2>2
  <1>3. ActNext => ledger' \in {ledger, ledger \cup {ActSource}}
    BY DEF ActNext, AddProgressEvent, GetState, GrantActivity, ClaimGet, ClaimSet, ActCrash,
           GrantItems, Applied
  <1> QED BY <1>1, <1>2, <1>3

\* Sources of different services are different.
LEMMA SourcesDiffer ==
  ASSUME NEW o, NEW i
  PROVE  PaySource(o) # MailSource(i) /\ PaySource(o) # ActSource /\ MailSource(i) # ActSource
  BY DEF PaySource, MailSource, ActSource

GrantInv == PayInv /\ MailInv /\ ActInv

\* The invariants of the three services hold together, whichever service runs.
THEOREM GrantInvariant == Spec => []GrantInv
  <1>1. Init => GrantInv
    BY PayStart, MailStart, ActStart DEF Init, GrantInv
  <1>2. ASSUME GrantInv, [Next]_vars
        PROVE  GrantInv'
    <2>0. PayInv /\ MailInv /\ ActInv
      BY <1>2 DEF GrantInv
    <2>1. CASE PayService
      <3>1. PayNext /\ UNCHANGED <<mailVars, actVars>>
        BY <2>1 DEF PayService
      <3>2. ledger \subseteq ledger' /\ \A i : MailSource(i) \in ledger' => MailSource(i) \in ledger
        BY <3>1, OwnSources, SourcesDiffer
      <3>3. ActSource \in ledger' => ActSource \in ledger
        BY <3>1, OwnSources, SourcesDiffer
      <3> QED BY <2>0, <3>1, <3>2, <3>3, PayKeeps, MailElsewhere, ActElsewhere DEF GrantInv
    <2>2. CASE MailService
      <3>1. MailNext /\ UNCHANGED <<payVars, actVars>>
        BY <2>2 DEF MailService
      <3>2. ledger \subseteq ledger' /\ \A o : PaySource(o) \in ledger' => PaySource(o) \in ledger
        BY <3>1, OwnSources, SourcesDiffer
      <3>3. ActSource \in ledger' => ActSource \in ledger
        BY <3>1, OwnSources, SourcesDiffer
      <3> QED BY <2>0, <3>1, <3>2, <3>3, MailKeeps, PayElsewhere, ActElsewhere DEF GrantInv
    <2>3. CASE ActivityService
      <3>1. ActNext /\ UNCHANGED <<payVars, mailVars>>
        BY <2>3 DEF ActivityService
      <3>2. ledger \subseteq ledger' /\ \A o : PaySource(o) \in ledger' => PaySource(o) \in ledger
        BY <3>1, OwnSources, SourcesDiffer
      <3>3. \A i : MailSource(i) \in ledger' => MailSource(i) \in ledger
        BY <3>1, OwnSources, SourcesDiffer
      <3> QED BY <2>0, <3>1, <3>2, <3>3, ActKeeps, PayElsewhere, MailElsewhere DEF GrantInv
    <2>4. ASSUME UNCHANGED <<ledger, payVars, mailVars, actVars>>
          PROVE  GrantInv'
      BY <2>0, <2>4, PayElsewhere, MailElsewhere, ActElsewhere DEF GrantInv, PaySource, MailSource, ActSource
    <2>5. CASE LoginService \/ MatchService \/ WorldService \/ ReshardTool \/ MigrateTool
      BY <2>4, <2>5 DEF LoginService, MatchService, WorldService, ReshardTool, MigrateTool
    <2>6. CASE UNCHANGED vars
      BY <2>4, <2>6 DEF vars
    <2> QED BY <1>2, <2>1, <2>2, <2>3, <2>5, <2>6 DEF Next
  <1> QED BY <1>1, <1>2, PTL DEF Spec

\* An order that Pay marked delivered and a mail or an activity marked claimed have
\* had their reward applied by Game, for any number of orders, mails, calls and
\* processes, and wherever a call fails or a process dies; for an activity, unless
\* its progress came between the two reads of one claim.
THEOREM MarksAreGranted == Spec => []MarkedIsGranted
  <1>1. GrantInv => MarkedIsGranted
    BY PayConcludes, MailConcludes, ActConcludes DEF GrantInv, MarkedIsGranted
  <1> QED BY <1>1, GrantInvariant, PTL

\* Every reward that Game applied was due: a paid order with a payment of its
\* own, a mail of an event stored once, an activity for which different events add
\* up to what it needs, whatever their deltas and however often each is delivered.
THEOREM GrantsAreDue == Spec => []GrantedIsDue
  <1>1. GrantInv => GrantedIsDue
    BY PayConcludes, MailConcludes, ActConcludes DEF GrantInv, GrantedIsDue
  <1> QED BY <1>1, GrantInvariant, PTL

=============================================================================
