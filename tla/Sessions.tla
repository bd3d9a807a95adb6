------------------------------ MODULE Sessions ------------------------------
(***************************************************************************)
(* Package internal/identity: accounts, sessions and MCP credentials in    *)
(* the Station database, and the requests that work on them in parallel.   *)
(*                                                                         *)
(* A request is a transaction of two steps: the SELECT that takes its row  *)
(* locks and reads, and everything up to COMMIT.  A SELECT that waits for  *)
(* a lock reads the row as it is when it gets the lock (READ COMMITTED),   *)
(* and finds none when the token was replaced meanwhile.  Tokens are       *)
(* numbers given out in order, because only their equality matters.        *)
(* An account's status, and the membership and organization it works for,  *)
(* are changed by operators, outside this package.                         *)
(***************************************************************************)
EXTENDS Integers, FiniteSets

CONSTANTS User, Request,
          SessionID,      \* session ids, given out in order
          Enrolled,       \* tokens that an operator may bind as MCP credentials
          Accounts,       \* the accounts that exist at the start
          SessionTTL,     \* Service.SessionTTL in ticks
          LockTime,       \* 15 minutes in ticks
          MaxFailures,    \* 5 failed logins lock an account
          MaxToken, MaxClock, MaxVersion,   \* named bounds of the instance
          None

Token == 1..MaxToken
Generated == Token \ Enrolled

(***************************************************************************)
(* A row of each table, and the transaction of a request with what its     *)
(* SELECT read.                                                            *)
(***************************************************************************)
Account == [status: {"active", "disabled"}, member: BOOLEAN, version: Nat,
            failed: Nat, lockedUntil: Nat]
Session == [user: User, token: Nat, version: Nat, kind: {"session", "mcp"},
            expires: Nat, revoked: BOOLEAN]

BootstrapTx == [kind: {"bootstrap"}, user: User, exists: BOOLEAN]
LoginTx     == [kind: {"login"}, user: User, row: Account]
SessionTx   == [kind: {"session"}, action: {"me", "refresh", "logout"}, id: SessionID,
                user: User, row: Session, account: Account]
DelegateTx  == [kind: {"delegate"}, user: User]
Transaction == BootstrapTx \cup LoginTx \cup SessionTx \cup DelegateTx

ASSUME SessionsAssumption ==
  /\ SessionID \subseteq Nat /\ Enrolled \subseteq Nat /\ Accounts \subseteq User
  /\ SessionTTL \in Nat \ {0} /\ LockTime \in Nat \ {0} /\ MaxFailures \in Nat \ {0}
  /\ MaxToken \in Nat /\ MaxClock \in Nat /\ MaxVersion \in Nat
  /\ None \notin Account \cup Session \cup Transaction

VARIABLES
  clock,
  account,    \* station.users with the membership; None where there is none
  session,    \* station.sessions; None where there is none
  tokens,     \* number of tokens generated so far
  request,    \* the transaction of each request, with what it read
  guesses,    \* history: wrong passwords compared since the count started
  heirs,      \* history: successful refreshes made with each token
  ended       \* history: sessions whose logout was answered with success

tables  == <<account, session, tokens>>
history == <<guesses, heirs, ended>>
vars    == <<clock, tables, request, history>>

NewAccount == [status |-> "active", member |-> TRUE, version |-> 0, failed |-> 0, lockedUntil |-> 0]

Start ==
  /\ clock = 0
  /\ account = [u \in User |-> IF u \in Accounts THEN NewAccount ELSE None]
  /\ session = [s \in SessionID |-> None]
  /\ tokens = 0
  /\ request = [r \in Request |-> None]
  /\ guesses = [u \in User |-> 0]
  /\ heirs = [t \in Token |-> 0]
  /\ ended = {}

Known == {u \in User : account[u] # None}
Live  == {s \in SessionID : session[s] # None}
Fresh(s) == session[s] = None /\ \A q \in SessionID : q < s => session[q] # None

(***************************************************************************)
(* newToken, newID: values no one has used.                                *)
(***************************************************************************)
newToken(t) == t \in Generated /\ tokens < t /\ \A q \in Generated : tokens < q => t <= q

Holding(kind) == {r \in Request : request[r] # None /\ request[r].kind = kind}

(***************************************************************************)
(* Row locks.  withSession holds its session FOR UPDATE and the account    *)
(* FOR SHARE, withDelegatedMember the account FOR SHARE, Login the account *)
(* FOR UPDATE; an operator's UPDATE of the account waits for all of them.  *)
(***************************************************************************)
RowFreeSlip(s) == s \in SessionID
RowFree(s) == \A r \in Holding("session") : request[r].id # s

Shareable(u) == \A r \in Holding("login") : request[r].user # u

AccountFreeSlip(u) == u \in User
AccountFree(u) ==
  Shareable(u) /\ \A r \in Holding("session") \cup Holding("delegate") : request[r].user # u

Done(r) == request' = [request EXCEPT ![r] = None]

NewSession(s, u, t, version, kind, expires) ==
  session' = [session EXCEPT ![s] =
    [user |-> u, token |-> t, version |-> version, kind |-> kind,
     expires |-> expires, revoked |-> FALSE]]

-----------------------------------------------------------------------------
(***************************************************************************)
(* Bootstrap: under an advisory lock, the first account with its first     *)
(* session; refused once any account exists.                               *)
(***************************************************************************)
BootstrapLockSlip == TRUE
BootstrapLock == Holding("bootstrap") = {}

BootstrapRead(r, u) ==
  /\ request[r] = None /\ BootstrapLock
  /\ request' = [request EXCEPT ![r] = [kind |-> "bootstrap", user |-> u, exists |-> Known # {}]]
  /\ UNCHANGED <<clock, tables, history>>

BootstrapCommit(r) ==
  LET u == request[r].user IN
  /\ r \in Holding("bootstrap")
  /\ IF request[r].exists \/ u \in Known
       THEN UNCHANGED tables
       ELSE \E s \in SessionID, t \in Token :
              /\ Fresh(s) /\ newToken(t) /\ tokens' = t
              /\ account' = [account EXCEPT ![u] = NewAccount]
              /\ NewSession(s, u, t, 0, "session", clock + SessionTTL)
  /\ Done(r)
  /\ UNCHANGED <<clock, history>>

(***************************************************************************)
(* Login: the account row, then the password.  A lock that has run out     *)
(* starts the count again; the last failure that is allowed locks.         *)
(***************************************************************************)
LoginRead(r, u) ==
  /\ request[r] = None /\ u \in Known /\ AccountFree(u)
  /\ request' = [request EXCEPT ![r] = [kind |-> "login", user |-> u, row |-> account[u]]]
  /\ UNCHANGED <<clock, tables, history>>

LockedOut(row) == row.lockedUntil > clock

LoginDenied(r) ==
  /\ r \in Holding("login")
  /\ request[r].row.status # "active" \/ LockedOut(request[r].row)
  /\ Done(r) /\ UNCHANGED <<clock, tables, history>>

Unlocked(row) == IF row.lockedUntil # 0 THEN [row EXCEPT !.failed = 0, !.lockedUntil = 0] ELSE row
Compares(r) == /\ r \in Holding("login")
               /\ request[r].row.status = "active" /\ ~LockedOut(request[r].row)

LoginFailed(r) ==
  LET u == request[r].user
      row == Unlocked(request[r].row)
      failed == row.failed + 1
  IN /\ Compares(r)
     /\ account' = [account EXCEPT ![u].failed = failed,
          ![u].lockedUntil = IF failed >= MaxFailures THEN clock + LockTime ELSE 0]
     /\ guesses' = [guesses EXCEPT ![u] = IF request[r].row.lockedUntil # 0 THEN 1 ELSE @ + 1]
     /\ Done(r) /\ UNCHANGED <<clock, session, tokens, heirs, ended>>

LoginSucceeded(r) ==
  LET u == request[r].user
      row == request[r].row
  IN /\ Compares(r)
     /\ IF account[u].member
          THEN \E s \in SessionID, t \in Token :
                 /\ Fresh(s) /\ newToken(t) /\ tokens' = t
                 /\ account' = [account EXCEPT ![u].failed = 0, ![u].lockedUntil = 0]
                 /\ NewSession(s, u, t, row.version, "session", clock + SessionTTL)
                 /\ guesses' = [guesses EXCEPT ![u] = 0]
          ELSE /\ account' = [account EXCEPT ![u].failed = Unlocked(row).failed,
                                             ![u].lockedUntil = Unlocked(row).lockedUntil]
               /\ guesses' = [guesses EXCEPT ![u] = IF row.lockedUntil # 0 THEN 0 ELSE @]
               /\ UNCHANGED <<session, tokens>>
     /\ Done(r) /\ UNCHANGED <<clock, heirs, ended>>

(***************************************************************************)
(* withSession for me, refresh and logout: the row that has the token, and *)
(* the account as it is now.  A token that no row has is answered at once. *)
(***************************************************************************)
SessionRead(r, t, action) ==
  /\ request[r] = None
  /\ \E s \in Live :
       /\ session[s].token = t
       /\ RowFree(s) /\ Shareable(session[s].user)
       /\ request' = [request EXCEPT ![r] =
            [kind |-> "session", action |-> action, id |-> s, user |-> session[s].user,
             row |-> session[s], account |-> account[session[s].user]]]
  /\ UNCHANGED <<clock, tables, history>>

Verdict(row, acct, action) ==
  IF row.revoked /\ action = "logout" THEN "again"
  ELSE IF row.revoked \/ row.version # acct.version THEN "denied"
  ELSE IF row.expires <= clock \/ acct.status # "active" \/ ~acct.member \/ LockedOut(acct)
          \/ (action = "refresh" /\ row.kind = "mcp") THEN "denied"
  ELSE "allowed"

SessionCommit(r) ==
  LET q == request[r]
      verdict == Verdict(q.row, q.account, q.action)
  IN /\ r \in Holding("session")
     /\ IF verdict # "allowed" \/ q.action = "me"
          THEN /\ ended' = IF verdict = "again" THEN ended \cup {q.id} ELSE ended
               /\ UNCHANGED <<tables, heirs>>
        ELSE IF q.action = "logout"
          THEN /\ session' = [session EXCEPT ![q.id].revoked = TRUE]
               /\ ended' = ended \cup {q.id}
               /\ UNCHANGED <<account, tokens, heirs>>
        ELSE \E t \in Token :
               /\ newToken(t) /\ tokens' = t
               /\ session' = [session EXCEPT ![q.id].token = t, ![q.id].expires = clock + SessionTTL]
               /\ heirs' = [heirs EXCEPT ![q.row.token] = @ + 1]
               /\ UNCHANGED <<account, ended>>
     /\ Done(r) /\ UNCHANGED <<clock, guesses>>

(***************************************************************************)
(* BindMCPToken, one transaction under its own advisory lock: an existing  *)
(* credential must agree in everything and still count; nothing about it   *)
(* is changed.                                                             *)
(***************************************************************************)
Bound(t) == {s \in Live : session[s].token = t}

BindMCPToken(t, u, expires) ==
  /\ t \in Enrolled /\ expires > clock /\ u \in Known /\ Shareable(u)
  /\ Bound(t) = {}
  /\ account[u].status = "active" /\ account[u].member /\ ~LockedOut(account[u])
  /\ \E s \in SessionID : Fresh(s) /\ NewSession(s, u, t, account[u].version, "mcp", expires)
  /\ UNCHANGED <<clock, account, tokens, request, history>>

(***************************************************************************)
(* withDelegatedMember: the permission is read with share locks, and the   *)
(* effect runs before they are released.                                   *)
(***************************************************************************)
DelegateRead(r, u) ==
  /\ request[r] = None /\ u \in Known /\ Shareable(u)
  /\ account[u].status = "active" /\ account[u].member /\ ~LockedOut(account[u])
  /\ request' = [request EXCEPT ![r] = [kind |-> "delegate", user |-> u]]
  /\ UNCHANGED <<clock, tables, history>>

DelegateCommit(r) ==
  r \in Holding("delegate") /\ Done(r) /\ UNCHANGED <<clock, tables, history>>

(***************************************************************************)
(* An operator disables an account, ends a membership, restores either, or *)
(* revokes all sessions of the account by its version.                     *)
(***************************************************************************)
Operator(u) ==
  /\ u \in Known /\ AccountFree(u)
  /\ \/ \E status \in {"active", "disabled"}, member \in BOOLEAN :
          account' = [account EXCEPT ![u].status = status, ![u].member = member]
     \/ /\ account[u].version < MaxVersion
        /\ account' = [account EXCEPT ![u].version = @ + 1]
  /\ UNCHANGED <<clock, session, tokens, request, history>>

Tick == clock < MaxClock /\ clock' = clock + 1 /\ UNCHANGED <<tables, request, history>>

(***************************************************************************)
(* A transaction may fail at any point and leaves nothing behind.          *)
(***************************************************************************)
Rollback(r) == request[r] # None /\ Done(r) /\ UNCHANGED <<clock, tables, history>>

Credentials(r) ==
  \/ \E t \in Token, action \in {"me", "refresh", "logout"} : SessionRead(r, t, action)
  \/ SessionCommit(r)

Logins(r) ==
  \/ \E u \in User : BootstrapRead(r, u) \/ LoginRead(r, u)
  \/ BootstrapCommit(r) \/ LoginDenied(r) \/ LoginFailed(r) \/ LoginSucceeded(r)

Delegations(r) == DelegateCommit(r) \/ \E u \in User : DelegateRead(r, u)

Next ==
  \/ \E r \in Request : Credentials(r) \/ Logins(r) \/ Delegations(r) \/ Rollback(r)
  \/ \E t \in Enrolled, u \in User, expires \in 1..MaxClock : BindMCPToken(t, u, expires)
  \/ \E u \in User : Operator(u)
  \/ Tick

Spec == Start /\ [][Next]_vars

-----------------------------------------------------------------------------
(***************************************************************************)
(* Between two starts of the count at most MaxFailures wrong passwords are *)
(* compared, however many logins run at once (Login, FOR UPDATE).          *)
(***************************************************************************)
GuessesBounded == \A u \in User : guesses[u] <= MaxFailures

(***************************************************************************)
(* A token is refreshed at most once, so no client is handed a token that  *)
(* another refresh of the same token already replaced (withSession).       *)
(***************************************************************************)
OneHeir == \A t \in Token : heirs[t] <= 1

(***************************************************************************)
(* After a logout was answered, no request on the session is, not even one *)
(* that read the session before (withSession).                             *)
(***************************************************************************)
LogoutIsFinal ==
  \A r \in Holding("session") :
    request[r].id \in ended /\ request[r].action # "logout" =>
      Verdict(request[r].row, request[r].account, request[r].action) = "denied"

(***************************************************************************)
(* While a delegated effect runs its member is permitted: revocation, a    *)
(* lockout included, waits for the effect or comes before it               *)
(* (withDelegatedMember).                                                  *)
(***************************************************************************)
EffectIsPermitted ==
  \A r \in Holding("delegate") :
    LET a == account[request[r].user] IN
    a.status = "active" /\ a.member /\ a.lockedUntil <= clock

(***************************************************************************)
(* Of several bootstraps at once one creates an account, the others find   *)
(* it (Bootstrap's advisory lock).                                         *)
(***************************************************************************)
OneBootstrap == Accounts = {} => Cardinality(Known) <= 1
=============================================================================
