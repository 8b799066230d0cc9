------------------------------ MODULE Activity ------------------------------
(***************************************************************************)
(* The Activity service for one role and one activity: progress events     *)
(* from a durable consumer, and claims of the reward.  A claim reads the   *)
(* state, grants, reads the state again and marks it claimed.              *)
(***************************************************************************)
EXTENDS Integers, FiniteSets, Functions, GrantClient

CONSTANTS
    ActEvents,      \* event ids
    Delta,          \* per event: what it adds, of either sign
    ActCalls,
    Need,           \* progress the reward takes (7 in the code)
    MaxProgress     \* largest value of the column progress (2^31 - 1)

ASSUME ActivityAssumption ==
    /\ Need \in Nat \ {0} /\ MaxProgress \in Nat
    /\ IsFiniteSet(ActEvents) /\ Delta \in [ActEvents -> Int]

VARIABLES
    progress, claimed,  \* the activity_progress row
    actInbox,           \* event_inbox rows of consumer "activity"
    acall,              \* next step of each claim
    late                \* history: a claim that did not grant found the reward due

actVars == <<progress, claimed, actInbox, acall, late>>

ActSource == <<"activity">>

ActInit ==
    /\ progress = 0
    /\ claimed = FALSE
    /\ actInbox = {}
    /\ acall = [c \in ActCalls |-> "none"]
    /\ late = FALSE

\* The values of the column; a sum outside them is an error of the statement.
Int32 == (-MaxProgress - 1)..MaxProgress

\* Variant for mutation: the event's inbox row is not asked for.
AddProgressAgain(e) ==
    /\ progress + Delta[e] \in Int32
    /\ actInbox' = actInbox \cup {e}
    /\ progress' = progress + Delta[e]
    /\ UNCHANGED <<claimed, acall, late, ledger>>

\* One transaction for the inbox row and the progress.  A delivery of an event
\* that has its row, or whose sum overflows, changes nothing.
AddProgressEvent(e) ==
    /\ e \notin actInbox
    /\ progress + Delta[e] \in Int32
    /\ actInbox' = actInbox \cup {e}
    /\ progress' = progress + Delta[e]
    /\ UNCHANGED <<claimed, acall, late, ledger>>

Reached == ~claimed /\ progress >= Need

\* handleClaim decides from this state whether it grants; it goes on to claim
\* either way.
GetState(c) ==
    /\ acall[c] = "none"
    /\ acall' = [acall EXCEPT ![c] = IF Reached THEN "grant" ELSE "skip"]
    /\ UNCHANGED <<progress, claimed, actInbox, late, ledger>>

\* Variant for mutation: an error of the grant does not end the claim.
GrantRegardless(c) ==
    /\ acall[c] = "grant"
    /\ \E ok \in BOOLEAN : GrantItems(ActSource, "good", ok)
    /\ acall' = [acall EXCEPT ![c] = "claim"]
    /\ UNCHANGED <<progress, claimed, actInbox, late>>

GrantActivity(c) ==
    /\ acall[c] = "grant"
    /\ \E ok \in BOOLEAN :
          /\ GrantItems(ActSource, "good", ok)
          /\ acall' = [acall EXCEPT ![c] = IF ok THEN "claim" ELSE "done"]
    /\ UNCHANGED <<progress, claimed, actInbox, late>>

\* ActivityRepo.Claim: read, then write if the reward is due.
ClaimGet(c) ==
    /\ acall[c] \in {"claim", "skip"}
    /\ acall' = [acall EXCEPT ![c] = IF Reached THEN "set" ELSE "done"]
    /\ late' = (late \/ (acall[c] = "skip" /\ Reached))
    /\ UNCHANGED <<progress, claimed, actInbox, ledger>>

ClaimSet(c) ==
    /\ acall[c] = "set"
    /\ claimed' \in {TRUE, claimed}     \* claimed: the statement failed
    /\ acall' = [acall EXCEPT ![c] = "done"]
    /\ UNCHANGED <<progress, actInbox, late, ledger>>

ActCrash(c) ==
    /\ acall[c] \notin {"none", "done"}
    /\ acall' = [acall EXCEPT ![c] = "done"]
    /\ UNCHANGED <<progress, claimed, actInbox, late, ledger>>

ActNext ==
    \/ \E e \in ActEvents : AddProgressEvent(e)
    \/ \E c \in ActCalls : GetState(c) \/ GrantActivity(c) \/ ClaimGet(c)
                              \/ ClaimSet(c) \/ ActCrash(c)

-----------------------------------------------------------------------------
ActTypeOK ==
    /\ progress \in Int32
    /\ claimed \in BOOLEAN
    /\ actInbox \subseteq ActEvents
    /\ acall \in [ActCalls -> {"none", "grant", "claim", "skip", "set", "done"}]
    /\ late \in BOOLEAN

\* The activity is marked claimed only after Game applied its reward, whichever
\* calls fail or overlap, except when the progress came between the two reads of
\* one handleClaim: that call marks without a grant.
ClaimedIsRewarded == claimed /\ ~late => ActSource \in ledger

\* What a set of events adds, each of them once.
Gained(S) == SumFunction([e \in ActEvents |-> IF e \in S THEN Delta[e] ELSE 0])

\* AddProgressEvent counts every event of the inbox once, however often it is
\* delivered, and handleClaim grants the reward only if events that the inbox
\* had at some moment add up to it; events that take progress away may follow.
GrantedIsReached ==
    /\ progress = Gained(actInbox)
    /\ ActSource \in ledger => \E S \in SUBSET actInbox : Gained(S) >= Need
=============================================================================
