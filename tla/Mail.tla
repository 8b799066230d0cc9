-------------------------------- MODULE Mail --------------------------------
(***************************************************************************)
(* The Mail service for one role, with its storage in PostgreSQL: mails    *)
(* that arrive as events of a durable consumer or over HTTP, and calls     *)
(* that claim one mail or all of them.  A claim reads the mail, grants its *)
(* items and marks it claimed in separate steps that other calls, in the   *)
(* same or another Mail process, interleave with.                          *)
(***************************************************************************)
EXTENDS Naturals, Sequences, FiniteSets, GrantClient

CONSTANTS
    MailEvents,     \* event ids of mail.send
    MailCalls,
    ClaimLimit,     \* mails one claim-all takes (50 in the code)
    MaxMails,       \* bound on the mails stored
    NoEvent         \* a mail that came over HTTP

ASSUME MailAssumption ==
    ClaimLimit \in Nat \ {0} /\ MaxMails \in Nat /\ NoEvent \notin MailEvents

VARIABLES
    mails,      \* the mails table in id order
    mailInbox,  \* event_inbox rows of consumer "mail"
    mcall       \* per call: next step, mails still to grant, ids to mark

mailVars == <<mails, mailInbox, mcall>>

MailSource(i) == <<"mail", i>>
NoMailCall == [pc |-> "none", todo |-> {}, ids |-> {}]
Finished == [NoMailCall EXCEPT !.pc = "done"]

MailInit ==
    /\ mails = <<>>
    /\ mailInbox = {}
    /\ mcall = [c \in MailCalls |-> NoMailCall]

Stored(items, event) ==
    Append(mails, [items |-> items, event |-> event, claimed |-> FALSE, read |-> FALSE])
Due == {i \in DOMAIN mails : ~mails[i].claimed /\ mails[i].items # "none"}
Marked(ids) == [i \in DOMAIN mails |-> [mails[i] EXCEPT !.claimed = @ \/ i \in ids]]
Read(ids) == [i \in DOMAIN mails |-> [mails[i] EXCEPT !.read = @ \/ i \in ids]]

-----------------------------------------------------------------------------
\* One transaction for the inbox row and the mail; an event that is delivered
\* again changes nothing.
InsertEvent(e, items) ==
    /\ Len(mails) < MaxMails
    /\ e \notin mailInbox
    /\ mailInbox' = mailInbox \cup {e}
    /\ mails' = Stored(items, e)
    /\ UNCHANGED <<mcall, ledger>>

\* handleSend keeps no key: a repeated request is a second mail.
Insert(items) ==
    /\ Len(mails) < MaxMails
    /\ mails' = Stored(items, NoEvent)
    /\ UNCHANGED <<mailInbox, mcall, ledger>>

\* handleClaim has read mail i.
Claim(c, i) ==
    /\ mcall[c].pc = "none"
    /\ ~mails[i].claimed
    /\ mcall' = [mcall EXCEPT ![c] =
            IF mails[i].items = "none"
            THEN [pc |-> "mark", todo |-> {}, ids |-> {i}]
            ELSE [pc |-> "grant", todo |-> {i}, ids |-> {}]]
    /\ UNCHANGED <<mails, mailInbox, ledger>>

\* claimAll has read the first ClaimLimit unclaimed mails with items.
ListUnclaimed(c) ==
    LET first == {i \in Due : Cardinality({j \in Due : j < i}) < ClaimLimit} IN
    /\ mcall[c].pc = "none"
    /\ Due # {}
    /\ mcall' = [mcall EXCEPT ![c] = [pc |-> "grant", todo |-> first, ids |-> {}]]
    /\ UNCHANGED <<mails, mailInbox, ledger>>

\* The next mail in id order; one whose grant fails is left unclaimed.
GrantMail(c) ==
    LET call == mcall[c]
        i == CHOOSE k \in call.todo : \A l \in call.todo : k <= l
        rest == call.todo \ {i} IN
    /\ call.pc = "grant"
    /\ \E ok \in BOOLEAN :
          LET ids == IF ok THEN call.ids \cup {i} ELSE call.ids IN
          /\ GrantItems(MailSource(i), mails[i].items, ok)
          /\ mcall' = [mcall EXCEPT ![c] =
                IF rest \cup ids = {} THEN Finished
                ELSE [pc |-> IF rest = {} THEN "mark" ELSE "grant", todo |-> rest, ids |-> ids]]
    /\ UNCHANGED <<mails, mailInbox>>

\* MarkClaimed and MarkClaimedBatch, with or without effect when they fail.
MarkClaimed(c) ==
    /\ mcall[c].pc = "mark"
    /\ mails' \in {mails, Marked(mcall[c].ids)}
    /\ mcall' = [mcall EXCEPT ![c] = Finished]
    /\ UNCHANGED <<mailInbox, ledger>>

MarkRead(S) ==
    /\ \E i \in S : ~mails[i].read
    /\ mails' = Read(S)
    /\ UNCHANGED <<mailInbox, mcall, ledger>>

\* A Mail process dies: what a call granted but did not mark stays unclaimed.
MailCrash(c) ==
    /\ mcall[c].pc \in {"grant", "mark"}
    /\ mcall' = [mcall EXCEPT ![c] = Finished]
    /\ UNCHANGED <<mails, mailInbox, ledger>>

MailNext ==
    \/ \E items \in Rewards : Insert(items) \/ \E e \in MailEvents : InsertEvent(e, items)
    \/ \E c \in MailCalls, i \in DOMAIN mails : Claim(c, i)
    \/ \E c \in MailCalls : ListUnclaimed(c) \/ GrantMail(c) \/ MarkClaimed(c) \/ MailCrash(c)
    \/ \E i \in DOMAIN mails : MarkRead({i})
    \/ MarkRead(DOMAIN mails)

-----------------------------------------------------------------------------
MailTypeOK ==
    /\ \A i \in DOMAIN mails :
          mails[i] \in [items : Rewards, event : MailEvents \cup {NoEvent},
                        claimed : BOOLEAN, read : BOOLEAN]
    /\ mailInbox \subseteq MailEvents
    /\ \A c \in MailCalls :
          /\ mcall[c].pc \in {"none", "grant", "mark", "done"}
          /\ mcall[c].todo \cup mcall[c].ids \subseteq DOMAIN mails

\* A mail with items is marked claimed only after they were applied.  Two
\* claims of one mail, a claim against a claim-all and a claim-all of which
\* some grants fail must all keep to it: a claimed mail is never granted again.
ClaimedIsGranted ==
    \A i \in DOMAIN mails :
        mails[i].claimed /\ mails[i].items # "none" => MailSource(i) \in ledger

\* Nothing was applied for a mail whose items do not parse, and an event that
\* was delivered several times was granted once.
GrantedIsMailed ==
    \A i \in DOMAIN mails : MailSource(i) \in ledger =>
        /\ mails[i].items = "good"
        /\ mails[i].event # NoEvent =>
              \A j \in DOMAIN mails \ {i} : mails[j].event # mails[i].event
=============================================================================
