--------------------------------- MODULE Pay --------------------------------
(***************************************************************************)
(* The Pay service: orders in PostgreSQL, the provider's signed webhook    *)
(* and the retry of paid orders that were not delivered.  A call is a      *)
(* webhook or a retry in one of the Pay processes; it marks the order      *)
(* paid, grants the reward and marks the order delivered in three steps,   *)
(* any of which can fail, lose its answer, or be cut off by a crash.       *)
(***************************************************************************)
EXTENDS Naturals, FiniteSets, GrantClient

CONSTANTS
    Orders, Txns, Nonces,
    PayCalls, ReplicaOf,    \* requests, and the Pay process that serves each
    RetryLimit,             \* orders one retry takes (50 in the code)
    NoTxn, NoOrder

ASSUME PayAssumption ==
    /\ RetryLimit \in Nat \ {0}
    /\ NoTxn \notin Txns /\ NoOrder \notin Orders

VARIABLES
    order,      \* the orders table
    nonces,     \* nonces seen, in Redis
    pcall       \* progress of each call

payVars == <<order, nonces, pcall>>

\* What a notification says: not paid, attributes that are not the order's, a
\* role that is not the order's, or a payment of the order as it stands.
Notices == {"unpaid", "attrs", "role", "paid"}
PaySource(o) == <<"pay", o>>
NoPayCall == [pc |-> "none", order |-> NoOrder, txn |-> NoTxn,
              notice |-> "paid", retry |-> FALSE, todo |-> {}]

PayInit ==
    /\ order = [o \in Orders |-> [status |-> "none", txn |-> NoTxn, delivered |-> FALSE]]
    /\ nonces = {}
    /\ pcall = [c \in PayCalls |-> NoPayCall]

\* A call that is done keeps nothing.
Goto(c, pc) ==
    pcall' = [pcall EXCEPT ![c] = IF pc = "done" THEN [NoPayCall EXCEPT !.pc = "done"]
                                  ELSE [@ EXCEPT !.pc = pc]]

\* Where a call goes when it is through with an order.
AfterOrder(c) == IF pcall[c].retry THEN "next" ELSE "done"

\* deliveryLock: one call at a time per order in one process.
LockFree(c) ==
    \A d \in PayCalls \ {c} :
        ~ /\ ReplicaOf[d] = ReplicaOf[c]
          /\ pcall[d].order = pcall[c].order
          /\ pcall[d].pc \in {"mark", "get", "grant", "deliver"}

-----------------------------------------------------------------------------
NewOrder == [status |-> "pending", txn |-> NoTxn, delivered |-> FALSE]

CreateOrder(o) ==
    /\ order[o].status = "none"
    /\ order' = [order EXCEPT ![o] = NewOrder]
    /\ UNCHANGED <<nonces, pcall, ledger>>

\* A webhook with a nonce that was not seen yet.  The nonce is spent whatever
\* becomes of the call; one that does not say "paid" ends here.
VerifyWebhook(c, n, o, t, notice) ==
    /\ pcall[c].pc = "none"
    /\ n \notin nonces
    /\ nonces' = nonces \cup {n}
    /\ \/ notice = "unpaid" /\ Goto(c, "done")
       \/ /\ notice # "unpaid"
          /\ pcall' = [pcall EXCEPT ![c] =
                [@ EXCEPT !.pc = "lock", !.order = o, !.txn = t, !.notice = notice]]
    /\ UNCHANGED <<order, ledger>>

Undelivered == {o \in Orders : order[o].status = "paid" /\ ~order[o].delivered}

\* handleRetry: up to RetryLimit orders that are paid and not delivered.
ListUndeliveredPaid(c) ==
    LET due == Undelivered IN
    /\ pcall[c].pc = "none"
    /\ \E S \in SUBSET due :
          /\ Cardinality(S) = IF Cardinality(due) < RetryLimit
                              THEN Cardinality(due) ELSE RetryLimit
          /\ pcall' = [pcall EXCEPT ![c] =
                [@ EXCEPT !.pc = "next", !.retry = TRUE, !.todo = S]]
    /\ UNCHANGED <<order, nonces, ledger>>

RetryNext(c) ==
    /\ pcall[c].pc = "next"
    /\ \/ /\ pcall[c].todo = {}
          /\ Goto(c, "done")
       \/ \E o \in pcall[c].todo :
             pcall' = [pcall EXCEPT ![c] =
                [@ EXCEPT !.pc = "lock", !.order = o, !.todo = pcall[c].todo \ {o}]]
    /\ UNCHANGED <<order, nonces, ledger>>

TakeLock(c) ==
    /\ pcall[c].pc = "lock"
    /\ LockFree(c)
    /\ Goto(c, IF pcall[c].retry THEN "get" ELSE "mark")
    /\ UNCHANGED <<order, nonces, ledger>>

\* The transaction binds the provider's transaction to the order; the index on
\* provider_transaction_id refuses one that another order has.  The order that
\* handleNotify goes on with is the row as the transaction read it.
BindsUnchecked(o, t) == order[o].txn \in {NoTxn, t}
Binds(o, t) ==
    /\ order[o].txn \in {NoTxn, t}
    /\ \A p \in Orders \ {o} : order[p].txn # t

MarkPaidVerified(c) ==
    LET o == pcall[c].order  t == pcall[c].txn IN
    /\ pcall[c].pc = "mark"
    /\ \/ /\ order[o].status # "none"
          /\ pcall[c].notice # "attrs"
          /\ Binds(o, t)
          /\ order' = [order EXCEPT ![o] = [@ EXCEPT !.status = "paid", !.txn = t]]
          /\ \/ Goto(c, IF order[o].delivered \/ pcall[c].notice = "role"
                        THEN "done" ELSE "grant")
             \/ Goto(c, "done")         \* committed, the answer lost
       \/ /\ Goto(c, "done")            \* refused or failed
          /\ UNCHANGED order
    /\ UNCHANGED <<nonces, ledger>>

\* The retry reads the order again under the lock.
GetOrder(c) ==
    LET o == pcall[c].order IN
    /\ pcall[c].pc = "get"
    /\ \/ o \in Undelivered /\ Goto(c, "grant")
       \/ Goto(c, AfterOrder(c))
    /\ UNCHANGED <<order, nonces, ledger>>

\* Variant for mutation: an error of the grant does not stop the delivery.
PayGrantRegardless(c) ==
    /\ pcall[c].pc = "grant"
    /\ \E ok \in BOOLEAN : GrantItems(PaySource(pcall[c].order), "good", ok)
    /\ Goto(c, "deliver")
    /\ UNCHANGED <<order, nonces>>

\* deliver: every product has a reward that parses.
PayGrant(c) ==
    /\ pcall[c].pc = "grant"
    /\ \E ok \in BOOLEAN :
          /\ GrantItems(PaySource(pcall[c].order), "good", ok)
          /\ Goto(c, IF ok THEN "deliver" ELSE AfterOrder(c))
    /\ UNCHANGED <<order, nonces>>

MarkDelivered(c) ==
    LET o == pcall[c].order IN
    /\ pcall[c].pc = "deliver"
    /\ \/ /\ order[o].status = "paid"
          /\ order' = [order EXCEPT ![o].delivered = TRUE]
       \/ UNCHANGED order               \* the statement failed
    /\ Goto(c, AfterOrder(c))
    /\ UNCHANGED <<nonces, ledger>>

\* A Pay process dies with the calls it serves.
PayCrash(c) ==
    /\ pcall[c].pc \notin {"none", "done"}
    /\ pcall' = [d \in PayCalls |->
            IF ReplicaOf[d] = ReplicaOf[c] /\ pcall[d].pc # "none"
            THEN [NoPayCall EXCEPT !.pc = "done"] ELSE pcall[d]]
    /\ UNCHANGED <<order, nonces, ledger>>

PayStep(c) ==
    \/ \E n \in Nonces, o \in Orders, t \in Txns, m \in Notices : VerifyWebhook(c, n, o, t, m)
    \/ ListUndeliveredPaid(c) \/ RetryNext(c) \/ TakeLock(c)
    \/ MarkPaidVerified(c) \/ GetOrder(c) \/ PayGrant(c) \/ MarkDelivered(c)
    \/ PayCrash(c)

PayNext ==
    \/ \E o \in Orders : CreateOrder(o)
    \/ \E c \in PayCalls : PayStep(c)

-----------------------------------------------------------------------------
PayTypeOK ==
    /\ order \in [Orders -> [status : {"none", "pending", "paid"},
                             txn : Txns \cup {NoTxn}, delivered : BOOLEAN]]
    /\ nonces \subseteq Nonces
    /\ pcall \in [PayCalls ->
          [pc : {"none", "next", "lock", "mark", "get", "grant", "deliver", "done"},
           order : Orders \cup {NoOrder}, txn : Txns \cup {NoTxn},
           notice : Notices, retry : BOOLEAN, todo : SUBSET Orders]]

\* An order is marked delivered only after its reward was applied, whichever of
\* the webhooks, retries and processes got how far: nothing sends it afterwards.
DeliveredIsGranted ==
    \A o \in Orders : order[o].delivered => PaySource(o) \in ledger

\* A reward was applied only for a paid order, and no two rewards rest on one
\* payment of the provider.
GrantedIsPaid ==
    \A o \in Orders : PaySource(o) \in ledger =>
        /\ order[o].status = "paid"
        /\ \A p \in Orders \ {o} : PaySource(p) \in ledger => order[p].txn # order[o].txn
=============================================================================
