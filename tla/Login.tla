-------------------------------- MODULE Login -------------------------------
(***************************************************************************)
(* The Login service: POST /api/login registers or authenticates an        *)
(* account, gets or creates its role in the zone, makes sure the role's    *)
(* row exists on its shard and issues a token for the role.  Each          *)
(* statement is a step; calls for one name, one account or one role name   *)
(* interleave, in one or several Login processes.                          *)
(*                                                                         *)
(* Tokens expire after a day and are only read afterwards, so a token that *)
(* was issued stays in the model.                                          *)
(***************************************************************************)
EXTENDS Naturals, FiniteSets

CONSTANTS
    Names, Passwords, LoginCalls,
    Zones,          \* zone ids a request may carry; the code checks no upper bound
    Stride,         \* role id = account id * Stride + zone id (10000 in the code)
    ShortName,      \* a user name cut to 32 bytes: the role's name
    RateKey,        \* the rate limiter's key: trimmed, in lower case, hashed
    MaxAttempts,    \* attempts a key has in a window (10 in the code)
    NoAccount       \* a name that is not registered

ASSUME LoginAssumption ==
    /\ Zones \subseteq Nat /\ Stride \in Nat \ {0} /\ MaxAttempts \in Nat
    /\ DOMAIN ShortName = Names /\ DOMAIN RateKey = Names
    /\ NoAccount \notin [id : Nat, pw : Passwords]

VARIABLES
    accounts,       \* the accounts table: id and password of a name
    accountSeq,     \* its id sequence
    directory,      \* role_directory
    roleRows,       \* ids with a row in roles
    tokens,         \* sessions in Redis: the call that got it, its role and zone
    attempts,       \* login attempts per key in this window
    lcall

loginVars == <<accounts, accountSeq, directory, roleRows, tokens, attempts, lcall>>

Keys == {RateKey[n] : n \in Names}

LoginInit ==
    /\ accounts = [n \in Names |-> NoAccount]
    /\ accountSeq = 1
    /\ directory = {}
    /\ roleRows = {}
    /\ tokens = {}
    /\ attempts = [k \in Keys |-> 0]
    /\ lcall = [c \in LoginCalls |-> [pc |-> "none"]]

At(c, pc) == lcall[c].pc = pc
To(c, pc) == lcall' = [lcall EXCEPT ![c].pc = pc]
Fail(c) == lcall' = [lcall EXCEPT ![c] = [pc |-> "failed"]]

-----------------------------------------------------------------------------
Limited(k) == attempts[k] + 1 > MaxAttempts

\* The rate limiter counts every attempt, also the ones it refuses.
Attempt(c, n, p, z) ==
    LET k == RateKey[n] IN
    /\ At(c, "none")
    /\ attempts' = [attempts EXCEPT ![k] = @ + 1]
    /\ IF Limited(k)
       THEN Fail(c)
       ELSE lcall' = [lcall EXCEPT ![c] =
                [pc |-> "lookup", name |-> n, pw |-> p, zone |-> z,
                 account |-> 0, role |-> 0, lost |-> FALSE]]
    /\ UNCHANGED <<accounts, accountSeq, directory, roleRows, tokens>>

WindowEnds(k) ==
    /\ attempts[k] > 0
    /\ attempts' = [attempts EXCEPT ![k] = 0]
    /\ UNCHANGED <<accounts, accountSeq, directory, roleRows, tokens, lcall>>

\* Authenticate: the password of a known account is checked.
LookupAccount(c) ==
    LET a == accounts[lcall[c].name] IN
    /\ At(c, "lookup")
    /\ lcall' = [lcall EXCEPT ![c] =
            IF a = NoAccount THEN [@ EXCEPT !.pc = "register"]
            ELSE IF a.pw = lcall[c].pw THEN [@ EXCEPT !.pc = "role", !.account = a.id]
            ELSE [@ EXCEPT !.pc = "refused"]]
    /\ UNCHANGED <<accounts, accountSeq, directory, roleRows, tokens, attempts>>

\* INSERT ... ON CONFLICT DO NOTHING takes an id of the sequence either way.
InsertAccount(c) ==
    LET n == lcall[c].name IN
    /\ At(c, "register")
    /\ accountSeq' = accountSeq + 1
    /\ \/ /\ accounts[n] = NoAccount
          /\ accounts' = [accounts EXCEPT ![n] = [id |-> accountSeq, pw |-> lcall[c].pw]]
          /\ \/ lcall' = [lcall EXCEPT ![c] = [@ EXCEPT !.pc = "role", !.account = accountSeq]]
             \/ Fail(c)         \* inserted, the answer lost
       \/ /\ accounts[n] # NoAccount
          /\ lcall' = [lcall EXCEPT ![c] = [@ EXCEPT !.pc = "reread", !.lost = TRUE]]
          /\ UNCHANGED accounts
    /\ UNCHANGED <<directory, roleRows, tokens, attempts>>

\* The loser of the race reads the account, but into an err that is local to
\* the block: the outer err is still ErrNoRows and is returned.
RereadAccount(c) ==
    /\ At(c, "reread")
    /\ To(c, "refused")
    /\ UNCHANGED <<accounts, accountSeq, directory, roleRows, tokens, attempts>>

\* GetOrCreateRole.
RolesOf(c) == {d \in directory : d.account = lcall[c].account /\ d.zone = lcall[c].zone}
UseRole(c, d) == lcall' = [lcall EXCEPT ![c] = [@ EXCEPT !.pc = "ensure", !.role = d.id]]

LookupRole(c) ==
    /\ At(c, "role")
    /\ \/ \E d \in RolesOf(c) : UseRole(c, d)
       \/ RolesOf(c) = {} /\ To(c, "create")
    /\ UNCHANGED <<accounts, accountSeq, directory, roleRows, tokens, attempts>>

\* A row that conflicts has the role's id, its account and zone, or its zone
\* and name.
InsertRole(c) ==
    LET call == lcall[c]
        row == [id |-> call.account * Stride + call.zone, account |-> call.account,
                zone |-> call.zone, name |-> ShortName[call.name]]
        conflict == \E d \in directory :
            \/ d.id = row.id
            \/ d.zone = row.zone /\ (d.account = row.account \/ d.name = row.name) IN
    /\ At(c, "create")
    /\ \/ /\ ~conflict
          /\ directory' = directory \cup {row}
          /\ UseRole(c, row) \/ Fail(c)
       \/ /\ conflict
          /\ To(c, "again")
          /\ UNCHANGED directory
    /\ UNCHANGED <<accounts, accountSeq, roleRows, tokens, attempts>>

\* Variant for mutation: the role that took the name in the zone is used.
RereadRoleByName(c) ==
    /\ At(c, "again")
    /\ \/ \E d \in directory :
             d.zone = lcall[c].zone /\ d.name = ShortName[lcall[c].name] /\ UseRole(c, d)
       \/ RolesOf(c) = {} /\ To(c, "refused")
    /\ UNCHANGED <<accounts, accountSeq, directory, roleRows, tokens, attempts>>

RereadRole(c) ==
    /\ At(c, "again")
    /\ \/ \E d \in RolesOf(c) : UseRole(c, d)
       \/ RolesOf(c) = {} /\ To(c, "refused")
    /\ UNCHANGED <<accounts, accountSeq, directory, roleRows, tokens, attempts>>

Ensure(c) ==
    /\ At(c, "ensure")
    /\ roleRows' = roleRows \cup {lcall[c].role}
    /\ To(c, "gate") \/ Fail(c)
    /\ UNCHANGED <<accounts, accountSeq, directory, tokens, attempts>>

\* gateAddr: without a gate for the zone the login fails in production.
FindGate(c) ==
    /\ At(c, "gate")
    /\ To(c, "token") \/ Fail(c)
    /\ UNCHANGED <<accounts, accountSeq, directory, roleRows, tokens, attempts>>

\* session.Save under a new random token.
IssueToken(c) ==
    /\ At(c, "token")
    /\ tokens' = tokens \cup {[call |-> c, role |-> lcall[c].role, zone |-> lcall[c].zone]}
    /\ To(c, "done")
    /\ UNCHANGED <<accounts, accountSeq, directory, roleRows, attempts>>

\* A statement fails, or the process dies.
LoginFails(c) ==
    /\ lcall[c].pc \notin {"none", "refused", "failed", "done"}
    /\ Fail(c)
    /\ UNCHANGED <<accounts, accountSeq, directory, roleRows, tokens, attempts>>

LoginNext ==
    \/ \E c \in LoginCalls :
          \/ \E n \in Names, p \in Passwords, z \in Zones : Attempt(c, n, p, z)
          \/ LookupAccount(c) \/ InsertAccount(c) \/ RereadAccount(c)
          \/ LookupRole(c) \/ InsertRole(c) \/ RereadRole(c)
          \/ Ensure(c) \/ FindGate(c) \/ IssueToken(c) \/ LoginFails(c)
    \/ \E k \in Keys : WindowEnds(k)

-----------------------------------------------------------------------------
LoginTypeOK ==
    /\ \A n \in Names : accounts[n] # NoAccount => accounts[n] \in [id : Nat, pw : Passwords]
    /\ accountSeq \in Nat
    /\ directory \subseteq [id : Nat, account : Nat, zone : Zones, name : {ShortName[n] : n \in Names}]
    /\ roleRows \subseteq {d.id : d \in directory}
    /\ tokens \subseteq [call : LoginCalls, role : Nat, zone : Zones]
    /\ attempts \in [Keys -> Nat]
    /\ \A c \in LoginCalls :
          \/ lcall[c].pc \in {"none", "failed"}
          \/ lcall[c] \in [pc : {"lookup", "register", "reread", "role", "create", "again",
                                "ensure", "gate", "token", "refused", "done"},
                           name : Names, pw : Passwords, zone : Zones,
                           account : Nat, role : Nat, lost : BOOLEAN]

\* A token opens the role that the caller's own account has in the zone the
\* caller asked for, the caller gave that account's password, and the role has
\* its row on the shard.  Calls that race for a name, names that are cut to the
\* same role name and zone ids past the stride must not hand out a role of
\* another account.
TokenIsOwned ==
    \A t \in tokens :
        LET call == lcall[t.call]
            a == accounts[call.name] IN
        /\ a # NoAccount
        /\ a.pw = call.pw
        /\ \E d \in directory :
              d.id = t.role /\ d.account = a.id /\ d.zone = call.zone /\ t.zone = call.zone
        /\ t.role \in roleRows

\* What the comment in Authenticate says of the call that loses the race for a
\* new name: it is verified against the account that won, so that without any
\* failure it is refused only for a wrong password.
LoserIsVerified ==
    \A c \in LoginCalls :
        At(c, "refused") /\ lcall[c].lost => accounts[lcall[c].name].pw # lcall[c].pw
=============================================================================
