--------------------------- MODULE SessionsProofs ---------------------------
(***************************************************************************)
(* Proofs about Sessions, for any number of accounts, sessions, requests   *)
(* and tokens, any lifetimes and any number of allowed failures.           *)
(***************************************************************************)
EXTENDS Sessions, TLAPS, FiniteSetTheorems

TypeOK ==
  /\ clock \in Nat
  /\ account \in [User -> Account \cup {None}]
  /\ session \in [SessionID -> Session \cup {None}]
  /\ tokens \in Nat
  /\ request \in [Request -> Transaction \cup {None}]
  /\ guesses \in [User -> Nat]
  /\ heirs \in [Token -> Nat]
  /\ ended \in SUBSET SessionID

(***************************************************************************)
(* The account of a login is locked FOR UPDATE: nothing else holds it, and *)
(* what the login read is what the table has.                              *)
(***************************************************************************)
LoginHolds ==
  \A r \in Holding("login") :
    /\ request[r].user \in Known
    /\ request[r].row = account[request[r].user]
    /\ \A q \in Holding("login") \cup Holding("session") \cup Holding("delegate") :
         q # r => request[q].user # request[r].user

(***************************************************************************)
(* The session of a request is locked FOR UPDATE and its account FOR SHARE.*)
(***************************************************************************)
SessionHolds ==
  \A r \in Holding("session") :
    /\ request[r].id \in Live
    /\ request[r].row = session[request[r].id]
    /\ request[r].user = session[request[r].id].user
    /\ request[r].account = account[request[r].user]
    /\ \A q \in Holding("session") : q # r => request[q].id # request[r].id

DelegateHolds == \A r \in Holding("delegate") : request[r].user \in Known

(***************************************************************************)
(* One bootstrap at a time, and what it read about the accounts stands.    *)
(***************************************************************************)
BootstrapHolds ==
  /\ \A r, q \in Holding("bootstrap") : r = q
  /\ \A r \in Holding("bootstrap") : request[r].exists \/ Known = {}

(***************************************************************************)
(* A session belongs to an account; a credential keeps the token it was    *)
(* bound to, and the generated tokens are each of one session.             *)
(***************************************************************************)
TokensOwned ==
  \A s \in Live :
    /\ session[s].user \in Known
    /\ session[s].kind = "mcp" => session[s].token \in Enrolled
    /\ session[s].kind = "session" =>
         /\ session[s].token \in Generated /\ session[s].token <= tokens
         /\ \A q \in Live : session[q].token = session[s].token => q = s

(***************************************************************************)
(* A token that was refreshed is of no session any more, and too low to be *)
(* generated again.                                                        *)
(***************************************************************************)
SpentIsGone ==
  \A t \in Token : heirs[t] # 0 =>
    /\ heirs[t] = 1 /\ t \in Generated /\ t <= tokens
    /\ \A s \in Live : session[s].token # t

EndedIsRevoked == \A s \in ended : s \in Live /\ session[s].revoked

(***************************************************************************)
(* The count in the row is the number of guesses since it started, and the *)
(* row that reached the limit is locked.                                   *)
(***************************************************************************)
Counted ==
  /\ \A u \in User \ Known : guesses[u] = 0
  /\ \A u \in Known : /\ guesses[u] = account[u].failed
                      /\ account[u].failed <= MaxFailures
                      /\ account[u].failed = MaxFailures => account[u].lockedUntil # 0

FirstAlone == Accounts = {} => \A u, v \in Known : u = v

IInv ==
  /\ TypeOK
  /\ LoginHolds /\ SessionHolds /\ DelegateHolds /\ EffectIsPermitted /\ BootstrapHolds
  /\ TokensOwned /\ SpentIsGone /\ EndedIsRevoked /\ Counted /\ FirstAlone

-----------------------------------------------------------------------------
(***************************************************************************)
(* The numbers among the constants, and what the marker is not.            *)
(***************************************************************************)
LEMMA Numbers ==
  /\ SessionID \subseteq Nat /\ Enrolled \subseteq Nat /\ Token \subseteq Nat
  /\ Generated \subseteq Token /\ Generated \cap Enrolled = {}
  /\ SessionTTL \in Nat /\ LockTime \in Nat /\ LockTime > 0
  /\ MaxFailures \in Nat /\ MaxFailures > 0
  /\ MaxToken \in Nat /\ MaxClock \in Nat /\ MaxVersion \in Nat
  BY SessionsAssumption DEF Token, Generated

LEMMA Marker ==
  /\ \A a \in Account : a # None
  /\ \A s \in Session : s # None
  /\ \A q \in Transaction : q # None
  BY SessionsAssumption

LEMMA NewAccountTyped ==
  /\ NewAccount \in Account
  /\ NewAccount.failed = 0 /\ NewAccount.lockedUntil = 0
  BY DEF NewAccount, Account

(***************************************************************************)
(* The transaction of each kind has the fields of its kind.                *)
(***************************************************************************)
LEMMA Kinds ==
  ASSUME TypeOK, NEW r \in Request, request[r] # None
  PROVE  /\ request[r].kind = "bootstrap" => request[r] \in BootstrapTx
         /\ request[r].kind = "login" => request[r] \in LoginTx
         /\ request[r].kind = "session" => request[r] \in SessionTx
         /\ request[r].kind = "delegate" => request[r] \in DelegateTx
<1>1. request[r] \in Transaction
  BY DEF TypeOK
<1>2. CASE request[r] \in BootstrapTx
  BY <1>2 DEF BootstrapTx
<1>3. CASE request[r] \in LoginTx
  BY <1>3 DEF LoginTx
<1>4. CASE request[r] \in SessionTx
  BY <1>4 DEF SessionTx
<1>5. CASE request[r] \in DelegateTx
  BY <1>5 DEF DelegateTx
<1>6. QED
  BY <1>1, <1>2, <1>3, <1>4, <1>5 DEF Transaction

LEMMA LoginHeld ==
  ASSUME TypeOK, NEW r \in Holding("login")
  PROVE  /\ r \in Request /\ request[r] # None /\ request[r].kind = "login"
         /\ request[r].user \in User /\ request[r].row \in Account
<1>1. r \in Request /\ request[r] # None /\ request[r].kind = "login"
  BY DEF Holding
<1>2. QED
  BY <1>1, Kinds DEF LoginTx

LEMMA SessionHeld ==
  ASSUME TypeOK, NEW r \in Holding("session")
  PROVE  /\ r \in Request /\ request[r] # None /\ request[r].kind = "session"
         /\ request[r].action \in {"me", "refresh", "logout"}
         /\ request[r].id \in SessionID /\ request[r].user \in User
         /\ request[r].row \in Session /\ request[r].account \in Account
<1>1. r \in Request /\ request[r] # None /\ request[r].kind = "session"
  BY DEF Holding
<1>2. QED
  BY <1>1, Kinds DEF SessionTx

LEMMA DelegateHeld ==
  ASSUME TypeOK, NEW r \in Holding("delegate")
  PROVE  /\ r \in Request /\ request[r] # None /\ request[r].kind = "delegate"
         /\ request[r].user \in User
<1>1. r \in Request /\ request[r] # None /\ request[r].kind = "delegate"
  BY DEF Holding
<1>2. QED
  BY <1>1, Kinds DEF DelegateTx

LEMMA BootstrapHeld ==
  ASSUME TypeOK, NEW r \in Holding("bootstrap")
  PROVE  /\ r \in Request /\ request[r] # None /\ request[r].kind = "bootstrap"
         /\ request[r].user \in User /\ request[r].exists \in BOOLEAN
<1>1. r \in Request /\ request[r] # None /\ request[r].kind = "bootstrap"
  BY DEF Holding
<1>2. QED
  BY <1>1, Kinds DEF BootstrapTx

(***************************************************************************)
(* The rows that are there are typed.                                      *)
(***************************************************************************)
LEMMA KnownRow ==
  ASSUME TypeOK, NEW u \in Known
  PROVE  /\ u \in User /\ account[u] \in Account /\ account[u] # None
         /\ account[u].status \in {"active", "disabled"} /\ account[u].member \in BOOLEAN
         /\ account[u].version \in Nat /\ account[u].failed \in Nat
         /\ account[u].lockedUntil \in Nat
<1>1. u \in User /\ account[u] \in Account /\ account[u] # None
  BY DEF TypeOK, Known
<1>2. QED
  BY <1>1 DEF Account

LEMMA LiveRow ==
  ASSUME TypeOK, NEW s \in Live
  PROVE  /\ s \in SessionID /\ session[s] \in Session /\ session[s] # None
         /\ session[s].user \in User /\ session[s].token \in Nat
         /\ session[s].kind \in {"session", "mcp"} /\ session[s].revoked \in BOOLEAN
<1>1. s \in SessionID /\ session[s] \in Session /\ session[s] # None
  BY DEF TypeOK, Live
<1>2. QED
  BY <1>1 DEF Session

-----------------------------------------------------------------------------
(***************************************************************************)
(* What the start and the end of a transaction do to who holds what.       *)
(***************************************************************************)
LEMMA Released ==
  ASSUME TypeOK, NEW r \in Request, Done(r)
  PROVE  /\ request' \in [Request -> Transaction \cup {None}]
         /\ \A q \in Request : q # r => request'[q] = request[q]
         /\ \A k : Holding(k)' = Holding(k) \ {r}
<1>1. request' \in [Request -> Transaction \cup {None}]
  BY DEF TypeOK, Done
<1>2. request'[r] = None /\ \A q \in Request : q # r => request'[q] = request[q]
  BY DEF TypeOK, Done
<1>3. ASSUME NEW k PROVE Holding(k)' = Holding(k) \ {r}
  BY <1>2 DEF Holding
<1>4. QED
  BY <1>1, <1>2, <1>3

LEMMA Began ==
  ASSUME TypeOK, NEW r \in Request, request[r] = None, NEW x \in Transaction,
         request' = [request EXCEPT ![r] = x]
  PROVE  /\ request' \in [Request -> Transaction \cup {None}]
         /\ request'[r] = x
         /\ \A q \in Request : q # r => request'[q] = request[q]
         /\ \A k : r \notin Holding(k)
         /\ \A k : x.kind = k => Holding(k)' = Holding(k) \cup {r}
         /\ \A k : x.kind # k => Holding(k)' = Holding(k)
<1>1. request' \in [Request -> Transaction \cup {None}]
  BY DEF TypeOK
<1>2. request'[r] = x /\ \A q \in Request : q # r => request'[q] = request[q]
  BY DEF TypeOK
<1>3. x # None
  BY Marker
<1>4. ASSUME NEW k PROVE r \notin Holding(k)
  BY DEF Holding
<1>5. ASSUME NEW k, x.kind = k PROVE Holding(k)' = Holding(k) \cup {r}
  BY <1>2, <1>3, <1>5 DEF Holding
<1>6. ASSUME NEW k, x.kind # k PROVE Holding(k)' = Holding(k)
  BY <1>2, <1>6 DEF Holding
<1>7. QED
  BY <1>1, <1>2, <1>4, <1>5, <1>6

(***************************************************************************)
(* What depends on the tables alone.                                       *)
(***************************************************************************)
Tables == TokensOwned /\ SpentIsGone /\ EndedIsRevoked /\ Counted /\ FirstAlone

Locks == LoginHolds /\ SessionHolds /\ DelegateHolds /\ EffectIsPermitted /\ BootstrapHolds

LEMMA TablesKept ==
  ASSUME Tables, UNCHANGED <<tables, history>>
  PROVE  Tables'
  BY DEF Tables, TokensOwned, SpentIsGone, EndedIsRevoked, Counted, FirstAlone, Known, Live,
         tables, history

(***************************************************************************)
(* A transaction that ends keeps every lock of the others, whatever it did *)
(* to what only it could change.                                           *)
(***************************************************************************)
LEMMA LocksReleased ==
  ASSUME IInv, NEW r \in Request, Done(r), clock' \in Nat, clock <= clock', 
         Known \subseteq Known',
         \A q \in Request \ {r} :
           /\ q \in Holding("login") \cup Holding("session") \cup Holding("delegate") =>
                account'[request[q].user] = account[request[q].user]
           /\ q \in Holding("session") =>
                request[q].id \in Live' /\ session'[request[q].id] = session[request[q].id]
           /\ q \in Holding("bootstrap") => request[q].exists \/ Known' = {}
  PROVE  Locks'
<1> USE Released
<1>1. \A q \in Request : q # r => request'[q] = request[q]
  BY DEF IInv
<1>2. \A k : Holding(k)' = Holding(k) \ {r}
  BY DEF IInv
<1>3. \A k : Holding(k) \subseteq Request
  BY DEF Holding
<1>4. LoginHolds'
  BY <1>1, <1>2, <1>3 DEF IInv, LoginHolds
<1>5. SessionHolds'
  BY <1>1, <1>2, <1>3 DEF IInv, SessionHolds
<1>6. DelegateHolds'
  BY <1>1, <1>2, <1>3 DEF IInv, DelegateHolds
<1>7. EffectIsPermitted'
  <2> SUFFICES ASSUME NEW q \in Holding("delegate")'
               PROVE  /\ account'[request'[q].user].status = "active"
                      /\ account'[request'[q].user].member
                      /\ account'[request'[q].user].lockedUntil <= clock'
    BY DEF EffectIsPermitted
  <2>1. q \in Holding("delegate") /\ q \in Request \ {r} /\ request'[q] = request[q]
    BY <1>1, <1>2, <1>3
  <2>2. account'[request'[q].user] = account[request[q].user]
    BY <2>1
  <2>3. request[q].user \in Known
    BY <2>1 DEF IInv, DelegateHolds
  <2>4. account[request[q].user].lockedUntil \in Nat
    BY <2>3, KnownRow DEF IInv
  <2>5. /\ account[request[q].user].status = "active"
        /\ account[request[q].user].member
        /\ account[request[q].user].lockedUntil <= clock
    BY <2>1 DEF IInv, EffectIsPermitted
  <2>6. account[request[q].user].lockedUntil <= clock'
    BY <2>4, <2>5 DEF IInv, TypeOK
  <2>7. QED
    BY <2>2, <2>5, <2>6
<1>8. BootstrapHolds'
  BY <1>1, <1>2, <1>3 DEF IInv, BootstrapHolds
<1>9. QED
  BY <1>4, <1>5, <1>6, <1>7, <1>8 DEF Locks

-----------------------------------------------------------------------------
(***************************************************************************)
(* A transaction that ends without effect, and the clock.                  *)
(***************************************************************************)
LEMMA AbandonKeeps ==
  ASSUME IInv, NEW r \in Request, Done(r), UNCHANGED <<clock, tables, history>>
  PROVE  IInv'
<1>1. TypeOK'
  BY Released DEF IInv, TypeOK, tables, history
<1>2. Tables'
  BY TablesKept DEF IInv, Tables
<1>3. Known' = Known /\ Live' = Live
  BY DEF Known, Live, tables
<1>4. clock' \in Nat /\ clock <= clock'
  BY DEF IInv, TypeOK
<1>5. \A q \in Holding("session") : request[q].id \in Live
  BY DEF IInv, SessionHolds
<1>6. \A q \in Holding("bootstrap") : request[q].exists \/ Known = {}
  BY DEF IInv, BootstrapHolds
<1>7. Locks'
  BY <1>3, <1>4, <1>5, <1>6, LocksReleased DEF tables
<1>8. QED
  BY <1>1, <1>2, <1>7 DEF IInv, Tables, Locks

LEMMA TickKeeps ==
  ASSUME IInv, Tick
  PROVE  IInv'
<1>1. UNCHANGED <<account, session, tokens, request, guesses, heirs, ended>> /\ clock' = clock + 1
  BY DEF Tick, tables, history
<1>2. clock \in Nat
  BY DEF IInv, TypeOK
<1>3. TypeOK'
  BY <1>1, <1>2 DEF IInv, TypeOK
<1>4. Tables'
  BY TablesKept DEF IInv, Tables, Tick
<1>5. Known' = Known /\ Live' = Live /\ \A k : Holding(k)' = Holding(k)
  BY <1>1 DEF Known, Live, Holding
<1>6. LoginHolds' /\ SessionHolds' /\ DelegateHolds' /\ BootstrapHolds'
  BY <1>1, <1>5 DEF IInv, LoginHolds, SessionHolds, DelegateHolds, BootstrapHolds
<1>7. EffectIsPermitted'
  <2>1. \A r \in Holding("delegate") : account[request[r].user].lockedUntil \in Nat
    BY KnownRow DEF IInv, DelegateHolds
  <2>2. QED
    BY <1>1, <1>2, <1>5, <2>1 DEF IInv, EffectIsPermitted
<1>8. QED
  BY <1>3, <1>4, <1>6, <1>7 DEF IInv, Tables

(***************************************************************************)
(* The SELECT of a transaction takes locks no one excludes.                *)
(***************************************************************************)
LEMMA BootstrapReadKeeps ==
  ASSUME IInv, NEW r \in Request, NEW u \in User, BootstrapRead(r, u)
  PROVE  IInv'
<1> DEFINE x == [kind |-> "bootstrap", user |-> u, exists |-> Known # {}]
<1>1. x \in BootstrapTx
  BY DEF BootstrapTx
<1>2. x \in Transaction /\ x.kind = "bootstrap" /\ (x.exists \/ Known = {})
  BY <1>1 DEF Transaction
<1>3. request[r] = None /\ request' = [request EXCEPT ![r] = x] /\ UNCHANGED <<clock, tables, history>>
  BY DEF BootstrapRead
<1> HIDE DEF x
<1>4. /\ request' \in [Request -> Transaction \cup {None}] /\ request'[r] = x
      /\ \A q \in Request : q # r => request'[q] = request[q]
      /\ Holding("bootstrap")' = Holding("bootstrap") \cup {r}
      /\ \A k : k # "bootstrap" => Holding(k)' = Holding(k)
      /\ \A k : r \notin Holding(k)
  <2>1. TypeOK
    BY DEF IInv
  <2>2. /\ request' \in [Request -> Transaction \cup {None}] /\ request'[r] = x
        /\ \A q \in Request : q # r => request'[q] = request[q]
        /\ \A k : r \notin Holding(k)
        /\ \A k : x.kind = k => Holding(k)' = Holding(k) \cup {r}
        /\ \A k : x.kind # k => Holding(k)' = Holding(k)
    BY <1>2, <1>3, <2>1, Began, Zenon
  <2>3. QED
    BY <1>2, <1>3, <2>2
<1>5. TypeOK'
  BY <1>3, <1>4 DEF IInv, TypeOK, tables, history
<1>6. Tables'
  BY <1>3, TablesKept DEF IInv, Tables
<1>7. Known' = Known /\ Live' = Live /\ \A k : Holding(k) \subseteq Request
  BY <1>3 DEF Known, Live, Holding, tables
<1>8. LoginHolds' /\ SessionHolds' /\ DelegateHolds' /\ EffectIsPermitted'
  BY <1>3, <1>4, <1>7
     DEF IInv, LoginHolds, SessionHolds, DelegateHolds, EffectIsPermitted, tables
<1>9. Holding("bootstrap") = {}
  BY DEF BootstrapRead, BootstrapLock
<1>10. BootstrapHolds'
  BY <1>2, <1>4, <1>7, <1>9 DEF BootstrapHolds
<1>11. QED
  BY <1>5, <1>6, <1>8, <1>10 DEF IInv, Tables

LEMMA LoginReadKeeps ==
  ASSUME IInv, NEW r \in Request, NEW u \in User, LoginRead(r, u)
  PROVE  IInv'
<1> DEFINE x == [kind |-> "login", user |-> u, row |-> account[u]]
<1>1. u \in Known /\ account[u] \in Account
  BY KnownRow DEF LoginRead, IInv
<1>2. x \in LoginTx
  BY <1>1 DEF LoginTx
<1>3. x \in Transaction /\ x.kind = "login" /\ x.user = u /\ x.row = account[u]
  BY <1>2 DEF Transaction
<1>4. request[r] = None /\ request' = [request EXCEPT ![r] = x] /\ UNCHANGED <<clock, tables, history>>
  BY DEF LoginRead
<1> HIDE DEF x
<1>5. /\ request' \in [Request -> Transaction \cup {None}] /\ request'[r] = x
      /\ \A q \in Request : q # r => request'[q] = request[q]
      /\ Holding("login")' = Holding("login") \cup {r}
      /\ \A k : k # "login" => Holding(k)' = Holding(k)
      /\ \A k : r \notin Holding(k)
  <2>1. TypeOK
    BY DEF IInv
  <2>2. /\ request' \in [Request -> Transaction \cup {None}] /\ request'[r] = x
        /\ \A q \in Request : q # r => request'[q] = request[q]
        /\ \A k : r \notin Holding(k)
        /\ \A k : x.kind = k => Holding(k)' = Holding(k) \cup {r}
        /\ \A k : x.kind # k => Holding(k)' = Holding(k)
    BY <1>3, <1>4, <2>1, Began, Zenon
  <2>3. QED
    BY <1>3, <1>4, <2>2
<1>6. TypeOK'
  BY <1>4, <1>5 DEF IInv, TypeOK, tables, history
<1>7. Tables'
  BY <1>4, TablesKept DEF IInv, Tables
<1>8. Known' = Known /\ Live' = Live /\ \A k : Holding(k) \subseteq Request
  BY <1>4 DEF Known, Live, Holding, tables
<1>9. SessionHolds' /\ DelegateHolds' /\ EffectIsPermitted' /\ BootstrapHolds'
  BY <1>4, <1>5, <1>8
     DEF IInv, SessionHolds, DelegateHolds, EffectIsPermitted, BootstrapHolds, tables
<1>10. \A q \in Holding("login") \cup Holding("session") \cup Holding("delegate") :
         request[q].user # u
  BY DEF LoginRead, AccountFree, Shareable
<1>11. LoginHolds'
  BY <1>1, <1>3, <1>4, <1>5, <1>8, <1>10 DEF IInv, LoginHolds, tables
<1>12. QED
  BY <1>6, <1>7, <1>9, <1>11 DEF IInv, Tables

LEMMA SessionReadKeeps ==
  ASSUME IInv, NEW r \in Request, NEW t \in Token, NEW action \in {"me", "refresh", "logout"},
         SessionRead(r, t, action)
  PROVE  IInv'
<1>1. PICK s \in Live :
        /\ RowFree(s) /\ Shareable(session[s].user)
        /\ request' = [request EXCEPT ![r] =
             [kind |-> "session", action |-> action, id |-> s, user |-> session[s].user,
              row |-> session[s], account |-> account[session[s].user]]]
  BY DEF SessionRead
<1> DEFINE u == session[s].user
           x == [kind |-> "session", action |-> action, id |-> s, user |-> u,
                 row |-> session[s], account |-> account[u]]
<1>2. s \in SessionID /\ session[s] \in Session /\ u \in Known
  BY LiveRow DEF IInv, TokensOwned
<1>3. u \in User /\ account[u] \in Account
  BY <1>2, KnownRow DEF IInv
<1>4. x \in SessionTx
  BY <1>2, <1>3 DEF SessionTx
<1>5. /\ x \in Transaction /\ x.kind = "session" /\ x.id = s /\ x.user = session[s].user
      /\ x.row = session[s] /\ x.account = account[session[s].user]
  BY <1>4 DEF Transaction
<1>6. request[r] = None /\ request' = [request EXCEPT ![r] = x] /\ UNCHANGED <<clock, tables, history>>
  BY <1>1 DEF SessionRead
<1> HIDE DEF x, u
<1>7. /\ request' \in [Request -> Transaction \cup {None}] /\ request'[r] = x
      /\ \A q \in Request : q # r => request'[q] = request[q]
      /\ Holding("session")' = Holding("session") \cup {r}
      /\ \A k : k # "session" => Holding(k)' = Holding(k)
      /\ \A k : r \notin Holding(k)
  <2>1. TypeOK
    BY DEF IInv
  <2>2. /\ request' \in [Request -> Transaction \cup {None}] /\ request'[r] = x
        /\ \A q \in Request : q # r => request'[q] = request[q]
        /\ \A k : r \notin Holding(k)
        /\ \A k : x.kind = k => Holding(k)' = Holding(k) \cup {r}
        /\ \A k : x.kind # k => Holding(k)' = Holding(k)
    BY <1>5, <1>6, <2>1, Began, Zenon
  <2>3. QED
    BY <1>5, <1>6, <2>2
<1>8. TypeOK'
  BY <1>6, <1>7 DEF IInv, TypeOK, tables, history
<1>9. Tables'
  BY <1>6, TablesKept DEF IInv, Tables
<1>10. Known' = Known /\ Live' = Live /\ \A k : Holding(k) \subseteq Request
  BY <1>6 DEF Known, Live, Holding, tables
<1>11. DelegateHolds' /\ EffectIsPermitted' /\ BootstrapHolds'
  BY <1>6, <1>7, <1>10 DEF IInv, DelegateHolds, EffectIsPermitted, BootstrapHolds, tables
<1>12. LoginHolds'
  <2>1. \A q \in Holding("login") : request[q].user # session[s].user
    BY <1>1 DEF Shareable
  <2>2. QED
    BY <1>5, <1>6, <1>7, <1>10, <2>1 DEF IInv, LoginHolds, tables
<1>13. SessionHolds'
  <2>1. \A q \in Holding("session") : request[q].id # s
    BY <1>1 DEF RowFree
  <2>2. QED
    BY <1>5, <1>6, <1>7, <1>10, <2>1 DEF IInv, SessionHolds, tables
<1>14. QED
  BY <1>8, <1>9, <1>11, <1>12, <1>13 DEF IInv, Tables

LEMMA DelegateReadKeeps ==
  ASSUME IInv, NEW r \in Request, NEW u \in User, DelegateRead(r, u)
  PROVE  IInv'
<1> DEFINE x == [kind |-> "delegate", user |-> u]
<1>1. x \in DelegateTx
  BY DEF DelegateTx
<1>2. x \in Transaction /\ x.kind = "delegate" /\ x.user = u
  BY <1>1 DEF Transaction
<1>3. request[r] = None /\ request' = [request EXCEPT ![r] = x] /\ UNCHANGED <<clock, tables, history>>
  BY DEF DelegateRead
<1> HIDE DEF x
<1>4. /\ request' \in [Request -> Transaction \cup {None}] /\ request'[r] = x
      /\ \A q \in Request : q # r => request'[q] = request[q]
      /\ Holding("delegate")' = Holding("delegate") \cup {r}
      /\ \A k : k # "delegate" => Holding(k)' = Holding(k)
      /\ \A k : r \notin Holding(k)
  <2>1. TypeOK
    BY DEF IInv
  <2>2. /\ request' \in [Request -> Transaction \cup {None}] /\ request'[r] = x
        /\ \A q \in Request : q # r => request'[q] = request[q]
        /\ \A k : r \notin Holding(k)
        /\ \A k : x.kind = k => Holding(k)' = Holding(k) \cup {r}
        /\ \A k : x.kind # k => Holding(k)' = Holding(k)
    BY <1>2, <1>3, <2>1, Began, Zenon
  <2>3. QED
    BY <1>2, <1>3, <2>2
<1>5. TypeOK'
  BY <1>3, <1>4 DEF IInv, TypeOK, tables, history
<1>6. Tables'
  BY <1>3, TablesKept DEF IInv, Tables
<1>7. Known' = Known /\ Live' = Live /\ \A k : Holding(k) \subseteq Request
  BY <1>3 DEF Known, Live, Holding, tables
<1>8. SessionHolds' /\ BootstrapHolds'
  BY <1>3, <1>4, <1>7 DEF IInv, SessionHolds, BootstrapHolds, tables
<1>9. LoginHolds'
  <2>1. \A q \in Holding("login") : request[q].user # u
    BY DEF DelegateRead, Shareable
  <2>2. QED
    BY <1>2, <1>3, <1>4, <1>7, <2>1 DEF IInv, LoginHolds, tables
<1>10. DelegateHolds'
  BY <1>2, <1>3, <1>4, <1>7 DEF IInv, DelegateHolds, DelegateRead
<1>11. EffectIsPermitted'
  <2>1. u \in Known /\ account[u].status = "active" /\ account[u].member
    BY DEF DelegateRead
  <2>2. account[u].lockedUntil <= clock
    BY <2>1, KnownRow DEF IInv, TypeOK, DelegateRead, LockedOut
  <2>3. QED
    BY <1>2, <1>3, <1>4, <1>7, <2>1, <2>2 DEF IInv, EffectIsPermitted, tables
<1>12. QED
  BY <1>5, <1>6, <1>8, <1>9, <1>10, <1>11 DEF IInv, Tables

-----------------------------------------------------------------------------
(***************************************************************************)
(* A new row in station.sessions.                                          *)
(***************************************************************************)
LEMMA SessionCreated ==
  ASSUME TypeOK, NEW s \in SessionID, Fresh(s), NEW u \in User, NEW t \in Nat, NEW v \in Nat,
         NEW k \in {"session", "mcp"}, NEW e \in Nat, NewSession(s, u, t, v, k, e)
  PROVE  /\ session' \in [SessionID -> Session \cup {None}]
         /\ s \notin Live /\ Live' = Live \cup {s}
         /\ \A q \in Live : session'[q] = session[q]
         /\ session'[s].user = u /\ session'[s].token = t /\ session'[s].kind = k
         /\ session'[s].revoked = FALSE
<1> DEFINE row == [user |-> u, token |-> t, version |-> v, kind |-> k, expires |-> e,
                   revoked |-> FALSE]
<1>1. row \in Session
  BY DEF Session
<1>2. row # None
  BY <1>1, Marker
<1>3. /\ row.user = u /\ row.token = t /\ row.kind = k /\ row.revoked = FALSE
  OBVIOUS
<1>4. session' = [session EXCEPT ![s] = row]
  BY DEF NewSession
<1> HIDE DEF row
<1>5. session' \in [SessionID -> Session \cup {None}]
  BY <1>1, <1>4 DEF TypeOK
<1>6. s \notin Live
  BY DEF Fresh, Live
<1>7. session'[s] = row /\ \A q \in SessionID : q # s => session'[q] = session[q]
  BY <1>4 DEF TypeOK
<1>8. Live' = Live \cup {s}
  BY <1>2, <1>7 DEF Live
<1>9. \A q \in Live : session'[q] = session[q]
  BY <1>6, <1>7 DEF Live
<1>10. QED
  BY <1>3, <1>5, <1>6, <1>7, <1>8, <1>9

(***************************************************************************)
(* A generated token is above every token any session has or had.          *)
(***************************************************************************)
LEMMA TokenIsNew ==
  ASSUME IInv, NEW t \in Token, newToken(t)
  PROVE  /\ t \in Generated /\ t \in Nat /\ tokens < t /\ tokens \in Nat
         /\ \A q \in Live : session[q].token # t
         /\ heirs[t] = 0
<1>1. t \in Generated /\ tokens < t /\ t \in Nat /\ tokens \in Nat
  BY Numbers DEF newToken, IInv, TypeOK
<1>2. ASSUME NEW q \in Live PROVE session[q].token # t
  <2>1. CASE session[q].kind = "mcp"
    BY <1>1, <2>1, Numbers DEF IInv, TokensOwned
  <2>2. CASE session[q].kind = "session"
    <3>1. session[q].token <= tokens /\ session[q].token \in Nat
      BY <2>2, LiveRow DEF IInv, TokensOwned
    <3>2. QED
      BY <1>1, <3>1
  <2>3. QED
    BY <2>1, <2>2, LiveRow DEF IInv
<1>3. heirs[t] = 0
  BY <1>1 DEF IInv, SpentIsGone
<1>4. QED
  BY <1>1, <1>2, <1>3

LEMMA GeneratedSession ==
  ASSUME IInv, Known \subseteq Known', NEW s \in SessionID, Fresh(s), NEW u \in User, u \in Known',
         NEW t \in Token, newToken(t), tokens' = t, NEW v \in Nat, NEW e \in Nat,
         NewSession(s, u, t, v, "session", e), UNCHANGED <<heirs, ended>>
  PROVE  /\ session' \in [SessionID -> Session \cup {None}] /\ tokens' \in Nat
         /\ Live \subseteq Live' /\ \A q \in Live : session'[q] = session[q]
         /\ TokensOwned' /\ SpentIsGone' /\ EndedIsRevoked'
<1>1. /\ t \in Generated /\ t \in Nat /\ tokens < t /\ tokens \in Nat
      /\ \A q \in Live : session[q].token # t
      /\ heirs[t] = 0
  BY TokenIsNew
<1>2. /\ session' \in [SessionID -> Session \cup {None}]
      /\ s \notin Live /\ Live' = Live \cup {s}
      /\ \A q \in Live : session'[q] = session[q]
      /\ session'[s].user = u /\ session'[s].token = t /\ session'[s].kind = "session"
      /\ session'[s].revoked = FALSE
  BY <1>1, SessionCreated DEF IInv
<1>3. TokensOwned'
  <2> SUFFICES ASSUME NEW q \in Live'
               PROVE  /\ session'[q].user \in Known'
                      /\ session'[q].kind = "mcp" => session'[q].token \in Enrolled
                      /\ session'[q].kind = "session" =>
                           /\ session'[q].token \in Generated /\ session'[q].token <= tokens'
                           /\ \A p \in Live' : session'[p].token = session'[q].token => p = q
    BY DEF TokensOwned, Generated, Token
  <2>1. CASE q = s
    BY <1>1, <1>2, <2>1
  <2>2. CASE q \in Live
    <3>1. session'[q] = session[q] /\ session[q].token \in Nat
      BY <1>2, <2>2, LiveRow DEF IInv
    <3>2. /\ session[q].user \in Known
          /\ session[q].kind = "mcp" => session[q].token \in Enrolled
          /\ session[q].kind = "session" =>
               /\ session[q].token \in Generated /\ session[q].token <= tokens
               /\ \A p \in Live : session[p].token = session[q].token => p = q
      BY <2>2 DEF IInv, TokensOwned
    <3>3. session[q].kind = "session" => session[q].token <= tokens'
      BY <1>1, <3>1, <3>2
    <3>4. QED
      BY <1>1, <1>2, <2>2, <3>1, <3>2, <3>3
  <2>3. QED
    BY <1>2, <2>1, <2>2
<1>4. SpentIsGone'
  <2> SUFFICES ASSUME NEW x \in Token, heirs[x] # 0
               PROVE  /\ heirs[x] = 1 /\ x \in Generated /\ x <= tokens'
                      /\ \A q \in Live' : session'[q].token # x
    BY DEF SpentIsGone, Generated, Token
  <2>1. /\ heirs[x] = 1 /\ x \in Generated /\ x <= tokens /\ x \in Nat
        /\ \A q \in Live : session[q].token # x
    BY Numbers DEF IInv, SpentIsGone
  <2>2. x <= tokens'
    BY <1>1, <2>1
  <2>3. QED
    BY <1>1, <1>2, <2>1, <2>2
<1>5. EndedIsRevoked'
  BY <1>2 DEF IInv, EndedIsRevoked
<1>6. QED
  BY <1>1, <1>2, <1>3, <1>4, <1>5

-----------------------------------------------------------------------------
(***************************************************************************)
(* Bootstrap's commit: the first account, or nothing.                      *)
(***************************************************************************)
LEMMA BootstrapCommitKeeps ==
  ASSUME IInv, NEW r \in Request, BootstrapCommit(r)
  PROVE  IInv'
<1> DEFINE u == request[r].user
<1>1. r \in Holding("bootstrap") /\ u \in User /\ Done(r) /\ UNCHANGED <<clock, history>>
  BY BootstrapHeld DEF BootstrapCommit, IInv
<1>2. CASE UNCHANGED tables
  BY <1>1, <1>2, AbandonKeeps
<1>3. CASE ~request[r].exists /\ u \notin Known /\
           \E s \in SessionID, t \in Token :
              /\ Fresh(s) /\ newToken(t) /\ tokens' = t
              /\ account' = [account EXCEPT ![u] = NewAccount]
              /\ NewSession(s, u, t, 0, "session", clock + SessionTTL)
  <2>1. PICK s \in SessionID, t \in Token :
              /\ Fresh(s) /\ newToken(t) /\ tokens' = t
              /\ account' = [account EXCEPT ![u] = NewAccount]
              /\ NewSession(s, u, t, 0, "session", clock + SessionTTL)
    BY <1>3
  <2> HIDE DEF u
  <2>2. Known = {}
    BY <1>1, <1>3 DEF IInv, BootstrapHolds
  <2>3. /\ account' \in [User -> Account \cup {None}]
        /\ account'[u] = NewAccount /\ \A v \in User : v # u => account'[v] = account[v]
    BY <1>1, <2>1, NewAccountTyped DEF IInv, TypeOK
  <2>4. Known' = {u} /\ Known \subseteq Known'
    BY <1>1, <2>2, <2>3, NewAccountTyped, Marker DEF Known
  <2>5. clock + SessionTTL \in Nat /\ clock' \in Nat /\ clock <= clock'
    BY <1>1, Numbers DEF IInv, TypeOK
  <2>6. UNCHANGED <<guesses, heirs, ended>>
    BY <1>1 DEF history
  <2>7. /\ session' \in [SessionID -> Session \cup {None}] /\ tokens' \in Nat
        /\ Live \subseteq Live' /\ \A q \in Live : session'[q] = session[q]
        /\ TokensOwned' /\ SpentIsGone' /\ EndedIsRevoked'
    BY <1>1, <2>1, <2>4, <2>5, <2>6, GeneratedSession
  <2>8. TypeOK'
    BY <1>1, <2>3, <2>5, <2>6, <2>7, Released DEF IInv, TypeOK
  <2>9. Counted'
    BY <1>1, <2>2, <2>3, <2>4, <2>6, NewAccountTyped, Numbers DEF IInv, Counted
  <2>10. FirstAlone'
    BY <2>4 DEF FirstAlone
  <2>11. Locks'
    <3>1. Holding("login") = {} /\ Holding("session") = {} /\ Holding("delegate") = {}
      BY <2>2 DEF IInv, LoginHolds, SessionHolds, DelegateHolds, TokensOwned
    <3>2. Holding("bootstrap") = {r}
      BY <1>1 DEF IInv, BootstrapHolds
    <3>3. QED
      BY <1>1, <2>4, <2>5, <3>1, <3>2, LocksReleased
  <2>12. QED
    BY <2>7, <2>8, <2>9, <2>10, <2>11 DEF IInv, Locks
<1>4. QED
  BY <1>2, <1>3 DEF BootstrapCommit

(***************************************************************************)
(* A login changes the account it holds, and no one else reads that row.   *)
(***************************************************************************)
LEMMA AccountSet ==
  ASSUME TypeOK, NEW u \in Known, NEW a \in Account, account' = [account EXCEPT ![u] = a]
  PROVE  /\ account' \in [User -> Account \cup {None}] /\ Known' = Known
         /\ account'[u] = a /\ \A v \in User : v # u => account'[v] = account[v]
<1>1. u \in User
  BY DEF Known
<1>2. /\ account' \in [User -> Account \cup {None}]
      /\ account'[u] = a /\ \A v \in User : v # u => account'[v] = account[v]
  BY <1>1 DEF TypeOK
<1>3. Known' = Known
  BY <1>2, Marker DEF Known
<1>4. QED
  BY <1>2, <1>3

Recounted(row, n, until) == [row EXCEPT !.failed = n, !.lockedUntil = until]

LEMMA CountTyped ==
  ASSUME NEW row \in Account, NEW n \in Nat, NEW until \in Nat
  PROVE  /\ Recounted(row, n, until) \in Account
         /\ Recounted(row, n, until).failed = n /\ Recounted(row, n, until).lockedUntil = until
  BY DEF Account, Recounted

LEMMA LoginSets ==
  ASSUME IInv, NEW r \in Holding("login"), NEW a \in Account,
         account' = [account EXCEPT ![request[r].user] = a],
         Done(r), UNCHANGED clock,
         Live \subseteq Live', \A s \in Live : session'[s] = session[s]
  PROVE  Locks'
<1> DEFINE u == request[r].user
<1>1. r \in Request /\ u \in Known
  BY LoginHeld DEF IInv, LoginHolds
<1>2. Known' = Known /\ \A v \in User : v # u => account'[v] = account[v]
  BY <1>1, AccountSet DEF IInv
<1>3. \A q \in Holding("login") \cup Holding("session") \cup Holding("delegate") :
        q # r => request[q].user # u
  BY DEF IInv, LoginHolds
<1>4. \A q \in Holding("login") \cup Holding("session") \cup Holding("delegate") :
        request[q].user \in User
  BY LoginHeld, SessionHeld, DelegateHeld DEF IInv
<1>5. \A q \in Holding("session") : request[q].id \in Live
  BY DEF IInv, SessionHolds
<1>6. \A q \in Holding("bootstrap") : request[q].exists \/ Known = {}
  BY DEF IInv, BootstrapHolds
<1>7. clock' \in Nat /\ clock <= clock'
  BY DEF IInv, TypeOK
<1>8. QED
  BY <1>1, <1>2, <1>3, <1>4, <1>5, <1>6, <1>7, LocksReleased

LEMMA LoginFailedKeeps ==
  ASSUME IInv, NEW r \in Request, LoginFailed(r)
  PROVE  IInv'
<1> DEFINE u == request[r].user
           row == Unlocked(request[r].row)
           n == row.failed + 1
           until == IF n >= MaxFailures THEN clock + LockTime ELSE 0
           a == [account[u] EXCEPT !.failed = n, !.lockedUntil = until]
<1>1. r \in Holding("login") /\ Done(r)
  BY DEF LoginFailed, Compares
<1>2. u \in Known /\ request[r].row = account[u]
  BY <1>1 DEF IInv, LoginHolds
<1>3. /\ u \in User /\ account[u] \in Account
      /\ account[u].failed \in Nat /\ account[u].lockedUntil \in Nat
  BY <1>2, KnownRow DEF IInv
<1>4. n = IF account[u].lockedUntil # 0 THEN 1 ELSE account[u].failed + 1
  BY <1>2, <1>3 DEF Unlocked, Account
<1>5. account[u].failed <= MaxFailures
      /\ (account[u].failed = MaxFailures => account[u].lockedUntil # 0)
      /\ guesses[u] = account[u].failed
  BY <1>2 DEF IInv, Counted
<1>6. n \in Nat /\ n <= MaxFailures
  BY <1>3, <1>4, <1>5, Numbers
<1>7. until \in Nat /\ (n = MaxFailures => until # 0)
  BY <1>6, Numbers DEF IInv, TypeOK
<1>8. account' = [account EXCEPT ![u] = a]
  BY <1>2, <1>3 DEF LoginFailed, IInv, TypeOK
<1>9. guesses' = [guesses EXCEPT ![u] = n]
  BY <1>2, <1>4, <1>5 DEF LoginFailed, IInv, TypeOK
<1>10. UNCHANGED <<clock, session, tokens, heirs, ended>>
  BY DEF LoginFailed
<1> HIDE DEF n, until
<1>11. a \in Account /\ a.failed = n /\ a.lockedUntil = until
  BY <1>3, <1>6, <1>7 DEF Account
<1> HIDE DEF a, u, row
<1>12. /\ account' \in [User -> Account \cup {None}] /\ Known' = Known
       /\ account'[u] = a /\ \A v \in User : v # u => account'[v] = account[v]
  BY <1>2, <1>8, <1>11, AccountSet DEF IInv
<1>13. Live' = Live
  BY <1>10 DEF Live
<1>14. Locks'
  BY <1>1, <1>8, <1>10, <1>11, <1>13, LoginSets DEF u
<1>15. TypeOK'
  BY <1>1, <1>3, <1>6, <1>9, <1>10, <1>12, Released DEF IInv, TypeOK
<1>16. TokensOwned' /\ SpentIsGone' /\ EndedIsRevoked' /\ FirstAlone'
  BY <1>10, <1>12, <1>13 DEF IInv, TokensOwned, SpentIsGone, EndedIsRevoked, FirstAlone
<1>17. Counted'
  <2>1. /\ guesses'[u] = n /\ \A v \in User : v # u => guesses'[v] = guesses[v]
    BY <1>3, <1>9 DEF IInv, TypeOK
  <2>2. \A v \in User \ Known' : guesses'[v] = 0
    BY <1>2, <1>12, <2>1 DEF IInv, Counted
  <2>3. \A v \in Known' : /\ guesses'[v] = account'[v].failed
                          /\ account'[v].failed <= MaxFailures
                          /\ account'[v].failed = MaxFailures => account'[v].lockedUntil # 0
    <3> TAKE v \in Known'
    <3>1. CASE v = u
      BY <1>6, <1>7, <1>11, <1>12, <2>1, <3>1
    <3>2. CASE v # u
      BY <1>12, <2>1, <3>2 DEF IInv, Counted, Known
    <3>3. QED
      BY <3>1, <3>2
  <2>4. QED
    BY <2>2, <2>3 DEF Counted
<1>18. QED
  BY <1>14, <1>15, <1>16, <1>17 DEF IInv, Locks

LEMMA LoginSucceededKeeps ==
  ASSUME IInv, NEW r \in Request, LoginSucceeded(r)
  PROVE  IInv'
<1> DEFINE u == request[r].user
           row == request[r].row
<1>1. r \in Holding("login") /\ Done(r) /\ UNCHANGED <<clock, heirs, ended>>
  BY DEF LoginSucceeded, Compares
<1>2. u \in Known /\ row = account[u]
  BY <1>1 DEF IInv, LoginHolds
<1>3. /\ u \in User /\ account[u] \in Account /\ account[u].version \in Nat
      /\ account[u].failed \in Nat /\ account[u].lockedUntil \in Nat
  BY <1>2, KnownRow DEF IInv
<1>4. account[u].failed <= MaxFailures
      /\ (account[u].failed = MaxFailures => account[u].lockedUntil # 0)
      /\ guesses[u] = account[u].failed
  BY <1>2 DEF IInv, Counted
<1>5. ASSUME NEW a \in Account, account' = [account EXCEPT ![u] = a],
             guesses' = [guesses EXCEPT ![u] = a.failed],
             a.failed < MaxFailures \/ a.lockedUntil # 0, a.failed <= MaxFailures, a.failed \in Nat,
             Live \subseteq Live', \A s \in Live : session'[s] = session[s],
             session' \in [SessionID -> Session \cup {None}], tokens' \in Nat,
             TokensOwned' /\ SpentIsGone' /\ EndedIsRevoked'
      PROVE  IInv'
  <2> HIDE DEF u
  <2>1. /\ account' \in [User -> Account \cup {None}] /\ Known' = Known
        /\ account'[u] = a /\ \A v \in User : v # u => account'[v] = account[v]
    BY <1>2, <1>5, AccountSet DEF IInv
  <2>2. Locks'
    BY <1>1, <1>5, LoginSets DEF u
  <2>3. TypeOK'
    BY <1>1, <1>3, <1>5, <2>1, Released DEF IInv, TypeOK
  <2>4. FirstAlone'
    BY <2>1 DEF IInv, FirstAlone
  <2>5. /\ guesses'[u] = a.failed /\ \A v \in User : v # u => guesses'[v] = guesses[v]
    BY <1>3, <1>5 DEF IInv, TypeOK
  <2>6. \A v \in User \ Known' : guesses'[v] = 0
    BY <1>2, <2>1, <2>5 DEF IInv, Counted
  <2>7. \A v \in Known' : /\ guesses'[v] = account'[v].failed
                          /\ account'[v].failed <= MaxFailures
                          /\ account'[v].failed = MaxFailures => account'[v].lockedUntil # 0
    <3> TAKE v \in Known'
    <3>1. CASE v = u
      BY <1>5, <2>1, <2>5, <3>1, Numbers
    <3>2. CASE v # u
      BY <2>1, <2>5, <3>2 DEF IInv, Counted, Known
    <3>3. QED
      BY <3>1, <3>2
  <2>8. Counted'
    BY <2>6, <2>7 DEF Counted
  <2>9. QED
    BY <1>5, <2>2, <2>3, <2>4, <2>8 DEF IInv, Locks
<1>6. CASE account[u].member
  <2>1. PICK s \in SessionID, t \in Token :
                 /\ Fresh(s) /\ newToken(t) /\ tokens' = t
                 /\ account' = [account EXCEPT ![u].failed = 0, ![u].lockedUntil = 0]
                 /\ NewSession(s, u, t, row.version, "session", clock + SessionTTL)
                 /\ guesses' = [guesses EXCEPT ![u] = 0]
    BY <1>6 DEF LoginSucceeded
  <2> DEFINE a == [account[u] EXCEPT !.failed = 0, !.lockedUntil = 0]
  <2>2. a \in Account /\ a.failed = 0
    BY <1>3 DEF Account
  <2>3. account' = [account EXCEPT ![u] = a]
    BY <1>3, <2>1 DEF IInv, TypeOK
  <2> HIDE DEF a
  <2>4. clock + SessionTTL \in Nat /\ row.version \in Nat
    BY <1>2, <1>3, Numbers DEF IInv, TypeOK
  <2>5. Known' = Known
    BY <1>2, <2>2, <2>3, AccountSet DEF IInv
  <2>6. /\ session' \in [SessionID -> Session \cup {None}] /\ tokens' \in Nat
        /\ Live \subseteq Live' /\ \A q \in Live : session'[q] = session[q]
        /\ TokensOwned' /\ SpentIsGone' /\ EndedIsRevoked'
    <3> HIDE DEF u, row
    <3> QED
      BY <1>1, <1>2, <1>3, <2>1, <2>4, <2>5, GeneratedSession
  <2>7. /\ guesses' = [guesses EXCEPT ![u] = a.failed] /\ a.failed \in Nat
        /\ a.failed < MaxFailures /\ a.failed <= MaxFailures
    BY <2>1, <2>2, Numbers
  <2>8. QED
    BY <1>5, <2>2, <2>3, <2>6, <2>7, Zenon
<1>7. CASE ~account[u].member
  <2> DEFINE a == [account[u] EXCEPT !.failed = Unlocked(row).failed,
                                     !.lockedUntil = Unlocked(row).lockedUntil]
  <2>1. /\ account' = [account EXCEPT ![u].failed = Unlocked(row).failed,
                                      ![u].lockedUntil = Unlocked(row).lockedUntil]
        /\ guesses' = [guesses EXCEPT ![u] = IF row.lockedUntil # 0 THEN 0 ELSE @]
        /\ UNCHANGED <<session, tokens>>
    BY <1>7 DEF LoginSucceeded
  <2>2. /\ Unlocked(row).failed = IF row.lockedUntil # 0 THEN 0 ELSE account[u].failed
        /\ Unlocked(row).lockedUntil = 0
    BY <1>2, <1>3 DEF Unlocked, Account
  <2>3. a \in Account /\ a.failed = Unlocked(row).failed /\ a.lockedUntil = 0
    <3>1. Unlocked(row).failed \in Nat
      BY <1>3, <2>2
    <3>2. QED
      <4> HIDE DEF u, row
      <4>1. Unlocked(row).lockedUntil \in Nat
        BY <2>2
      <4>2. a = Recounted(account[u], Unlocked(row).failed, Unlocked(row).lockedUntil)
        BY DEF Recounted
      <4> HIDE DEF a
      <4>3. QED
        BY <1>3, <2>2, <3>1, <4>1, <4>2, CountTyped
  <2>4. account' = [account EXCEPT ![u] = a]
    BY <1>3, <2>1 DEF IInv, TypeOK
  <2>5. a.failed \in Nat /\ a.failed < MaxFailures /\ a.failed <= MaxFailures
    BY <1>2, <1>3, <1>4, <2>2, <2>3, Numbers
  <2>6. guesses' = [guesses EXCEPT ![u] = a.failed]
    BY <1>2, <1>4, <2>1, <2>2, <2>3 DEF IInv, TypeOK
  <2> HIDE DEF a
  <2>7. Live' = Live /\ Known' = Known
    <3>1. Known' = Known
      BY <1>2, <2>3, <2>4, AccountSet DEF IInv
    <3>2. QED
      BY <2>1, <3>1 DEF Live
  <2>8. TokensOwned' /\ SpentIsGone' /\ EndedIsRevoked'
    BY <1>1, <2>1, <2>7 DEF IInv, TokensOwned, SpentIsGone, EndedIsRevoked
  <2>9. session' \in [SessionID -> Session \cup {None}] /\ tokens' \in Nat
    BY <2>1 DEF IInv, TypeOK
  <2>10. Live \subseteq Live' /\ \A s \in Live : session'[s] = session[s]
    BY <2>1, <2>7
  <2>11. QED
    BY <1>5, <2>3, <2>4, <2>5, <2>6, <2>8, <2>9, <2>10, Zenon
<1>8. QED
  BY <1>6, <1>7

-----------------------------------------------------------------------------
(***************************************************************************)
(* A request changes the session it holds, and no one else reads that row. *)
(***************************************************************************)
Refreshed(row, t, e) == [row EXCEPT !.token = t, !.expires = e]

LEMMA RefreshTyped ==
  ASSUME NEW row \in Session, NEW t \in Nat, NEW e \in Nat
  PROVE  /\ Refreshed(row, t, e) \in Session
         /\ Refreshed(row, t, e).token = t /\ Refreshed(row, t, e).user = row.user
         /\ Refreshed(row, t, e).kind = row.kind /\ Refreshed(row, t, e).revoked = row.revoked
  BY DEF Session, Refreshed

LEMMA RevokeTyped ==
  ASSUME NEW row \in Session
  PROVE  /\ [row EXCEPT !.revoked = TRUE] \in Session
         /\ [row EXCEPT !.revoked = TRUE].revoked
         /\ [row EXCEPT !.revoked = TRUE].token = row.token
         /\ [row EXCEPT !.revoked = TRUE].user = row.user
         /\ [row EXCEPT !.revoked = TRUE].kind = row.kind
  BY DEF Session

LEMMA SessionSet ==
  ASSUME TypeOK, NEW s \in Live, NEW x \in Session, session' = [session EXCEPT ![s] = x]
  PROVE  /\ session' \in [SessionID -> Session \cup {None}] /\ Live' = Live
         /\ session'[s] = x /\ \A q \in SessionID : q # s => session'[q] = session[q]
<1>1. s \in SessionID
  BY DEF Live
<1>2. /\ session' \in [SessionID -> Session \cup {None}]
      /\ session'[s] = x /\ \A q \in SessionID : q # s => session'[q] = session[q]
  BY <1>1 DEF TypeOK
<1>3. Live' = Live
  BY <1>2, Marker DEF Live
<1>4. QED
  BY <1>2, <1>3

LEMMA SessionSets ==
  ASSUME IInv, NEW r \in Holding("session"), Done(r), UNCHANGED <<clock, account>>,
         Live' = Live,
         \A s \in SessionID : s # request[r].id => session'[s] = session[s]
  PROVE  Locks'
<1>1. r \in Request /\ Known' = Known
  BY SessionHeld DEF IInv, Known
<1>2. \A q \in Holding("session") : /\ request[q].id \in Live /\ request[q].id \in SessionID
                                    /\ q # r => request[q].id # request[r].id
  BY SessionHeld DEF IInv, SessionHolds
<1>3. \A q \in Holding("bootstrap") : request[q].exists \/ Known = {}
  BY DEF IInv, BootstrapHolds
<1>4. clock' \in Nat /\ clock <= clock'
  BY DEF IInv, TypeOK
<1>5. QED
  BY <1>1, <1>2, <1>3, <1>4, LocksReleased

(***************************************************************************)
(* me, refresh and logout.                                                 *)
(***************************************************************************)
LEMMA SessionCommitKeeps ==
  ASSUME IInv, NEW r \in Request, SessionCommit(r)
  PROVE  IInv'
<1> DEFINE q == request[r]
           id == request[r].id
           verdict == Verdict(q.row, q.account, q.action)
<1>1. r \in Holding("session") /\ Done(r) /\ UNCHANGED <<clock, guesses>>
  BY DEF SessionCommit
<1>2. id \in Live /\ q.row = session[id]
  BY <1>1 DEF IInv, SessionHolds
<1>3. /\ id \in SessionID /\ session[id] \in Session /\ session[id].user \in User
      /\ session[id].token \in Nat /\ session[id].kind \in {"session", "mcp"}
  BY <1>2, LiveRow DEF IInv
<1>4. q.action \in {"me", "refresh", "logout"}
  BY <1>1, SessionHeld DEF IInv
<1>5. request' \in [Request -> Transaction \cup {None}]
  BY <1>1, Released DEF IInv
<1>6. CASE verdict # "allowed" \/ q.action = "me"
  <2>1. /\ ended' = IF verdict = "again" THEN ended \cup {id} ELSE ended
        /\ UNCHANGED <<account, session, tokens, heirs>>
    BY <1>6 DEF SessionCommit, tables
  <2>2. verdict = "again" => session[id].revoked
    BY <1>2 DEF Verdict
  <2> HIDE DEF verdict, q, id
  <2>3. Live' = Live /\ Known' = Known
    BY <2>1 DEF Live, Known
  <2>4. TypeOK'
    BY <1>1, <1>3, <1>5, <2>1 DEF IInv, TypeOK
  <2>5. EndedIsRevoked'
    BY <1>2, <2>1, <2>2, <2>3 DEF IInv, EndedIsRevoked
  <2>6. TokensOwned' /\ SpentIsGone' /\ Counted' /\ FirstAlone'
    BY <1>1, <2>1, <2>3 DEF IInv, TokensOwned, SpentIsGone, Counted, FirstAlone
  <2>7. Locks'
    BY <1>1, <2>1, <2>3, SessionSets
  <2>8. QED
    BY <2>4, <2>5, <2>6, <2>7 DEF IInv, Locks
<1>7. CASE verdict = "allowed" /\ q.action = "logout"
  <2> DEFINE x == [session[id] EXCEPT !.revoked = TRUE]
  <2>1. /\ session' = [session EXCEPT ![id].revoked = TRUE] /\ ended' = ended \cup {id}
        /\ UNCHANGED <<account, tokens, heirs>>
    BY <1>7 DEF SessionCommit
  <2>2. session' = [session EXCEPT ![id] = x]
    BY <1>3, <2>1 DEF IInv, TypeOK
  <2>3. /\ x \in Session /\ x.revoked /\ x.token = session[id].token
        /\ x.user = session[id].user /\ x.kind = session[id].kind
    BY <1>3, RevokeTyped
  <2> HIDE DEF x, verdict, q, id
  <2>4. /\ session' \in [SessionID -> Session \cup {None}] /\ Live' = Live
        /\ session'[id] = x /\ \A s \in SessionID : s # id => session'[s] = session[s]
    BY <1>2, <2>2, <2>3, SessionSet DEF IInv
  <2>5. Known' = Known /\ Live \subseteq SessionID
    BY <2>1 DEF Known, Live
  <2>6. TypeOK'
    BY <1>1, <1>3, <1>5, <2>1, <2>4 DEF IInv, TypeOK
  <2>7. EndedIsRevoked'
    BY <1>2, <2>1, <2>3, <2>4, <2>5 DEF IInv, EndedIsRevoked
  <2>8. \A s \in Live : /\ session'[s].token = session[s].token
                        /\ session'[s].user = session[s].user
                        /\ session'[s].kind = session[s].kind
    BY <2>3, <2>4, <2>5
  <2>9. TokensOwned' /\ SpentIsGone'
    BY <2>1, <2>4, <2>5, <2>8 DEF IInv, TokensOwned, SpentIsGone
  <2>10. Counted' /\ FirstAlone'
    BY <1>1, <2>1, <2>5 DEF IInv, Counted, FirstAlone
  <2>11. Locks'
    BY <1>1, <2>1, <2>4, SessionSets DEF id
  <2>12. QED
    BY <2>6, <2>7, <2>9, <2>10, <2>11 DEF IInv, Locks
<1>8. CASE verdict = "allowed" /\ q.action = "refresh"
  <2>1. PICK t \in Token :
               /\ newToken(t) /\ tokens' = t
               /\ session' = [session EXCEPT ![id].token = t, ![id].expires = clock + SessionTTL]
               /\ heirs' = [heirs EXCEPT ![q.row.token] = @ + 1]
               /\ UNCHANGED <<account, ended>>
    BY <1>8 DEF SessionCommit
  <2> DEFINE x == Refreshed(session[id], t, clock + SessionTTL)
             old == session[id].token
  <2>2. session' = [session EXCEPT ![id] = x]
    BY <1>3, <2>1 DEF IInv, TypeOK, Refreshed
  <2>3. clock + SessionTTL \in Nat /\ t \in Nat
    BY Numbers DEF IInv, TypeOK
  <2>4. /\ x \in Session /\ x.token = t /\ x.user = session[id].user
        /\ x.kind = session[id].kind /\ x.revoked = session[id].revoked
    <3> HIDE DEF q, id, verdict
    <3>1. session[id] \in Session
      BY <1>3
    <3> DEFINE row == session[id]
               e == clock + SessionTTL
    <3>2. row \in Session /\ e \in Nat
      BY <2>3, <3>1
    <3> HIDE DEF row, e
    <3>3. /\ Refreshed(row, t, e) \in Session
          /\ Refreshed(row, t, e).token = t /\ Refreshed(row, t, e).user = row.user
          /\ Refreshed(row, t, e).kind = row.kind /\ Refreshed(row, t, e).revoked = row.revoked
      BY <2>3, <3>2, RefreshTyped, Zenon
    <3> USE DEF row, e
    <3>4. QED
      BY <3>3
  <2>5. session[id].kind = "session"
    BY <1>2, <1>3, <1>8 DEF Verdict
  <2>6. heirs' = [heirs EXCEPT ![old] = @ + 1]
    BY <1>2, <2>1
  <2> HIDE DEF x, verdict, q, id
  <2>7. /\ session' \in [SessionID -> Session \cup {None}] /\ Live' = Live
        /\ session'[id] = x /\ \A s \in SessionID : s # id => session'[s] = session[s]
    BY <1>2, <2>2, <2>4, SessionSet DEF IInv
  <2>8. Known' = Known /\ Live \subseteq SessionID
    BY <2>1 DEF Known, Live
  <2>9. /\ t \in Generated /\ tokens < t /\ tokens \in Nat
        /\ \A s \in Live : session[s].token # t
        /\ heirs[t] = 0
    BY <2>1, TokenIsNew
  <2>10. /\ old \in Generated /\ old \in Token /\ old <= tokens
         /\ \A s \in Live : session[s].token = old => s = id
    BY <1>2, <2>5, Numbers DEF IInv, TokensOwned
  <2>11. heirs[old] = 0
    BY <1>2, <2>10 DEF IInv, SpentIsGone
  <2>12. heirs' \in [Token -> Nat] /\ heirs'[old] = 1
         /\ \A y \in Token : y # old => heirs'[y] = heirs[y]
    BY <2>6, <2>10, <2>11 DEF IInv, TypeOK
  <2>13. TypeOK'
    BY <1>1, <1>5, <2>1, <2>3, <2>7, <2>12 DEF IInv, TypeOK
  <2>14. EndedIsRevoked'
    BY <2>1, <2>4, <2>7, <2>8 DEF IInv, EndedIsRevoked
  <2>15. TokensOwned'
    <3> SUFFICES ASSUME NEW s \in Live
                 PROVE  /\ session'[s].user \in Known
                        /\ session'[s].kind = "mcp" => session'[s].token \in Enrolled
                        /\ session'[s].kind = "session" =>
                             /\ session'[s].token \in Generated /\ session'[s].token <= t
                             /\ \A p \in Live : session'[p].token = session'[s].token => p = s
      BY <2>1, <2>7, <2>8 DEF TokensOwned
    <3>1. CASE s = id
      BY <1>2, <2>3, <2>4, <2>5, <2>7, <2>8, <2>9, <3>1 DEF IInv, TokensOwned
    <3>2. CASE s # id
      <4>1. session'[s] = session[s] /\ session[s].token \in Nat
        BY <2>7, <2>8, <3>2, LiveRow DEF IInv
      <4>2. /\ session[s].user \in Known
            /\ session[s].kind = "mcp" => session[s].token \in Enrolled
            /\ session[s].kind = "session" =>
                 /\ session[s].token \in Generated /\ session[s].token <= tokens
                 /\ \A p \in Live : session[p].token = session[s].token => p = s
        BY DEF IInv, TokensOwned
      <4>3. session[s].kind = "session" => session[s].token <= t
        BY <2>3, <2>9, <4>1, <4>2
      <4>4. \A p \in Live : session'[p].token = IF p = id THEN t ELSE session[p].token
        BY <2>4, <2>7, <2>8
      <4>5. QED
        BY <2>9, <4>1, <4>2, <4>3, <4>4
    <3>3. QED
      BY <3>1, <3>2
  <2>16. SpentIsGone'
    <3>1. \A p \in Live : session'[p].token = IF p = id THEN t ELSE session[p].token
      BY <2>4, <2>7, <2>8
    <3> SUFFICES ASSUME NEW y \in Token, heirs'[y] # 0
                 PROVE  /\ heirs'[y] = 1 /\ y \in Generated /\ y <= t
                        /\ \A s \in Live : session'[s].token # y
      BY <2>1, <2>7 DEF SpentIsGone
    <3>2. CASE y = old
      <4>1. y <= t
        BY <2>3, <2>9, <2>10, <3>2, Numbers
      <4>2. \A s \in Live : session'[s].token # y
        BY <2>9, <2>10, <3>1, <3>2, <1>2
      <4>3. QED
        BY <2>10, <2>12, <3>2, <4>1, <4>2
    <3>3. CASE y # old
      <4>1. /\ heirs[y] = 1 /\ y \in Generated /\ y <= tokens /\ y \in Nat
            /\ \A s \in Live : session[s].token # y
        BY <2>12, <3>3, Numbers DEF IInv, SpentIsGone
      <4>2. y <= t
        BY <2>3, <2>9, <4>1
      <4>3. y # t
        BY <2>9, <4>1
      <4>4. QED
        BY <2>12, <3>1, <3>3, <4>1, <4>2, <4>3
    <3>4. QED
      BY <3>2, <3>3
  <2>17. Counted' /\ FirstAlone'
    BY <1>1, <2>1, <2>8 DEF IInv, Counted, FirstAlone
  <2>18. Locks'
    BY <1>1, <2>1, <2>7, SessionSets DEF id
  <2>19. QED
    BY <2>13, <2>14, <2>15, <2>16, <2>17, <2>18 DEF IInv, Locks
<1>9. QED
  BY <1>4, <1>6, <1>7, <1>8

(***************************************************************************)
(* BindMCPToken adds a credential with a token that was enrolled.          *)
(***************************************************************************)
LEMMA BindKeeps ==
  ASSUME IInv, NEW t \in Enrolled, NEW u \in User, NEW expires \in 1..MaxClock,
         BindMCPToken(t, u, expires)
  PROVE  IInv'
<1>1. PICK s \in SessionID : Fresh(s) /\ NewSession(s, u, t, account[u].version, "mcp", expires)
  BY DEF BindMCPToken
<1>2. UNCHANGED <<clock, account, tokens, request, guesses, heirs, ended>>
  BY DEF BindMCPToken, history
<1>3. u \in Known /\ Bound(t) = {}
  BY DEF BindMCPToken
<1>4. t \in Nat /\ expires \in Nat /\ account[u].version \in Nat /\ t \notin Generated
  BY <1>3, Numbers, KnownRow DEF IInv
<1>5. /\ session' \in [SessionID -> Session \cup {None}]
      /\ s \notin Live /\ Live' = Live \cup {s}
      /\ \A q \in Live : session'[q] = session[q]
      /\ session'[s].user = u /\ session'[s].token = t /\ session'[s].kind = "mcp"
  BY <1>1, <1>4, SessionCreated DEF IInv
<1>6. Known' = Known /\ \A k : Holding(k)' = Holding(k)
  BY <1>2 DEF Known, Holding
<1>7. TypeOK'
  BY <1>2, <1>5 DEF IInv, TypeOK
<1>8. TokensOwned'
  <2> SUFFICES ASSUME NEW q \in Live'
               PROVE  /\ session'[q].user \in Known
                      /\ session'[q].kind = "mcp" => session'[q].token \in Enrolled
                      /\ session'[q].kind = "session" =>
                           /\ session'[q].token \in Generated /\ session'[q].token <= tokens
                           /\ \A p \in Live' : session'[p].token = session'[q].token => p = q
    BY <1>2, <1>6 DEF TokensOwned
  <2>1. CASE q = s
    BY <1>3, <1>5, <2>1
  <2>2. CASE q \in Live
    BY <1>4, <1>5, <2>2 DEF IInv, TokensOwned
  <2>3. QED
    BY <1>5, <2>1, <2>2
<1>9. SpentIsGone'
  BY <1>2, <1>4, <1>5 DEF IInv, SpentIsGone
<1>10. EndedIsRevoked'
  BY <1>2, <1>5 DEF IInv, EndedIsRevoked
<1>11. Counted' /\ FirstAlone'
  BY <1>2, <1>6 DEF IInv, Counted, FirstAlone
<1>12. LoginHolds' /\ DelegateHolds' /\ EffectIsPermitted' /\ BootstrapHolds'
  BY <1>2, <1>6 DEF IInv, LoginHolds, DelegateHolds, EffectIsPermitted, BootstrapHolds
<1>13. SessionHolds'
  BY <1>2, <1>5, <1>6 DEF IInv, SessionHolds
<1>14. QED
  BY <1>7, <1>8, <1>9, <1>10, <1>11, <1>12, <1>13 DEF IInv

(***************************************************************************)
(* An operator changes an account that no transaction holds.               *)
(***************************************************************************)
LEMMA OperatorKeeps ==
  ASSUME IInv, NEW u \in User, Operator(u)
  PROVE  IInv'
<1>1. u \in Known /\ AccountFree(u) /\ UNCHANGED <<clock, session, tokens, request, guesses, heirs, ended>>
  BY DEF Operator, history
<1>2. account[u] \in Account /\ account[u].version \in Nat
  BY <1>1, KnownRow DEF IInv
<1>3. \E a \in Account : /\ account' = [account EXCEPT ![u] = a]
                         /\ a.failed = account[u].failed /\ a.lockedUntil = account[u].lockedUntil
  <2>1. ASSUME NEW status \in {"active", "disabled"}, NEW member \in BOOLEAN,
               account' = [account EXCEPT ![u].status = status, ![u].member = member]
        PROVE  \E a \in Account :
                 /\ account' = [account EXCEPT ![u] = a]
                 /\ a.failed = account[u].failed /\ a.lockedUntil = account[u].lockedUntil
    <3> DEFINE a == [account[u] EXCEPT !.status = status, !.member = member]
    <3>1. account' = [account EXCEPT ![u] = a]
      BY <1>1, <2>1 DEF IInv, TypeOK
    <3>2. a \in Account /\ a.failed = account[u].failed /\ a.lockedUntil = account[u].lockedUntil
      BY <1>2 DEF Account
    <3> HIDE DEF a
    <3>3. QED
      BY <3>1, <3>2
  <2>2. ASSUME account' = [account EXCEPT ![u].version = @ + 1]
        PROVE  \E a \in Account :
                 /\ account' = [account EXCEPT ![u] = a]
                 /\ a.failed = account[u].failed /\ a.lockedUntil = account[u].lockedUntil
    <3> DEFINE a == [account[u] EXCEPT !.version = account[u].version + 1]
    <3>1. account' = [account EXCEPT ![u] = a]
      BY <1>1, <2>2 DEF IInv, TypeOK
    <3>2. a \in Account /\ a.failed = account[u].failed /\ a.lockedUntil = account[u].lockedUntil
      BY <1>2 DEF Account
    <3> HIDE DEF a
    <3>3. QED
      BY <3>1, <3>2
  <2>3. QED
    BY <2>1, <2>2 DEF Operator
<1>4. PICK a \in Account : /\ account' = [account EXCEPT ![u] = a]
                           /\ a.failed = account[u].failed
                           /\ a.lockedUntil = account[u].lockedUntil
  BY <1>3
<1>5. /\ account' \in [User -> Account \cup {None}] /\ Known' = Known
      /\ account'[u] = a /\ \A v \in User : v # u => account'[v] = account[v]
  BY <1>1, <1>4, AccountSet DEF IInv
<1>6. Live' = Live /\ \A k : Holding(k)' = Holding(k)
  BY <1>1 DEF Live, Holding
<1>7. TypeOK'
  BY <1>1, <1>5 DEF IInv, TypeOK
<1>8. TokensOwned' /\ SpentIsGone' /\ EndedIsRevoked' /\ FirstAlone'
  BY <1>1, <1>5, <1>6 DEF IInv, TokensOwned, SpentIsGone, EndedIsRevoked, FirstAlone
<1>9. Counted'
  <2>1. \A v \in Known : /\ account'[v].failed = account[v].failed
                         /\ account'[v].lockedUntil = account[v].lockedUntil
    BY <1>4, <1>5 DEF Known
  <2>2. QED
    BY <1>1, <1>5, <2>1 DEF IInv, Counted
<1>10. \A q \in Holding("login") \cup Holding("session") \cup Holding("delegate") :
         request[q].user # u /\ request[q].user \in User
  BY <1>1, LoginHeld, SessionHeld, DelegateHeld DEF AccountFree, Shareable, IInv
<1>11. \A q \in Holding("login") \cup Holding("session") \cup Holding("delegate") :
         account'[request[q].user] = account[request[q].user]
  BY <1>5, <1>10
<1>12. LoginHolds' /\ SessionHolds' /\ DelegateHolds' /\ EffectIsPermitted'
  BY <1>1, <1>5, <1>6, <1>11
     DEF IInv, LoginHolds, SessionHolds, DelegateHolds, EffectIsPermitted
<1>13. BootstrapHolds'
  BY <1>1, <1>5, <1>6 DEF IInv, BootstrapHolds
<1>14. QED
  BY <1>7, <1>8, <1>9, <1>12, <1>13 DEF IInv

-----------------------------------------------------------------------------
LEMMA StartHolds ==
  ASSUME Start
  PROVE  IInv
<1>1. TypeOK
  BY NewAccountTyped DEF Start, TypeOK
<1>2. Live = {} /\ \A k : Holding(k) = {}
  BY DEF Start, Live, Holding
<1>3. Locks
  BY <1>2 DEF Locks, LoginHolds, SessionHolds, DelegateHolds, EffectIsPermitted, BootstrapHolds
<1>4. TokensOwned /\ SpentIsGone /\ EndedIsRevoked
  BY <1>2 DEF Start, TokensOwned, SpentIsGone, EndedIsRevoked
<1>5. Known = Accounts
  BY NewAccountTyped, Marker, SessionsAssumption DEF Start, Known
<1>6. \A u \in Known : account[u] = NewAccount
  BY <1>5 DEF Start, Known
<1>7. Counted
  BY <1>6, NewAccountTyped, Numbers DEF Start, Counted, Known
<1>8. FirstAlone
  BY <1>5 DEF FirstAlone
<1>9. QED
  BY <1>1, <1>3, <1>4, <1>7, <1>8 DEF IInv, Locks

LEMMA NextKeeps ==
  ASSUME IInv, [Next]_vars
  PROVE  IInv'
<1>1. CASE UNCHANGED vars
  BY <1>1 DEF IInv, TypeOK, LoginHolds, SessionHolds, DelegateHolds, EffectIsPermitted,
     BootstrapHolds, TokensOwned, SpentIsGone, EndedIsRevoked, Counted, FirstAlone,
     Known, Live, Holding, vars, tables, history
<1>2. ASSUME NEW r \in Request, Credentials(r) PROVE IInv'
  BY <1>2, SessionReadKeeps, SessionCommitKeeps DEF Credentials
<1>3. ASSUME NEW r \in Request, Logins(r) PROVE IInv'
  <2>1. CASE \E u \in User : BootstrapRead(r, u) \/ LoginRead(r, u)
    BY <2>1, BootstrapReadKeeps, LoginReadKeeps
  <2>2. CASE LoginDenied(r)
    BY <2>2, AbandonKeeps DEF LoginDenied
  <2>3. QED
    BY <1>3, <2>1, <2>2, BootstrapCommitKeeps, LoginFailedKeeps, LoginSucceededKeeps DEF Logins
<1>4. ASSUME NEW r \in Request, Delegations(r) \/ Rollback(r) PROVE IInv'
  BY <1>4, DelegateReadKeeps, AbandonKeeps DEF Delegations, DelegateCommit, Rollback
<1>5. ASSUME NEW t \in Enrolled, NEW u \in User, NEW expires \in 1..MaxClock,
             BindMCPToken(t, u, expires)
      PROVE  IInv'
  BY <1>5, BindKeeps
<1>6. ASSUME NEW u \in User, Operator(u) PROVE IInv'
  BY <1>6, OperatorKeeps
<1>7. QED
  BY <1>1, <1>2, <1>3, <1>4, <1>5, <1>6, TickKeeps DEF Next

(***************************************************************************)
(* The inductive invariant of the theorems below: row locks have one       *)
(* holder, what a request read under its lock is still in the table when   *)
(* it commits (withSession, withDelegatedMember, Login), and a replaced    *)
(* token is nowhere in it.                                                 *)
(***************************************************************************)
THEOREM SessionsInvariant == Spec => []IInv
<1>1. Start => IInv
  BY StartHolds
<1>2. IInv /\ [Next]_vars => IInv'
  BY NextKeeps
<1>3. QED
  BY <1>1, <1>2, PTL DEF Spec

(***************************************************************************)
(* However many logins run at once, at most MaxFailures wrong passwords    *)
(* are compared before the account is locked (Login, FOR UPDATE): the      *)
(* history counts what the row counts, and the row stops at the limit.     *)
(***************************************************************************)
THEOREM GuessesAreBounded == Spec => []GuessesBounded
<1>1. IInv => GuessesBounded
  BY Numbers DEF IInv, Counted, GuessesBounded
<1>2. QED
  BY <1>1, SessionsInvariant, PTL

(***************************************************************************)
(* A token is refreshed at most once, however many requests carry it       *)
(* (withSession): the row that has the token is held by one of them, and a *)
(* replaced token is never generated again.                                *)
(***************************************************************************)
THEOREM TokensHaveOneHeir == Spec => []OneHeir
<1>1. IInv => OneHeir
  BY DEF IInv, TypeOK, SpentIsGone, OneHeir
<1>2. QED
  BY <1>1, SessionsInvariant, PTL

(***************************************************************************)
(* Once a logout was answered, every request on the session is denied,     *)
(* whatever it read before (withSession).                                  *)
(***************************************************************************)
THEOREM LogoutsAreFinal == Spec => []LogoutIsFinal
<1>1. IInv => LogoutIsFinal
  BY DEF IInv, SessionHolds, EndedIsRevoked, LogoutIsFinal, Verdict
<1>2. QED
  BY <1>1, SessionsInvariant, PTL

(***************************************************************************)
(* A delegated effect runs only while its member is active, a member and   *)
(* not locked out (withDelegatedMember): whoever would take the permission *)
(* away waits for the share lock.                                          *)
(***************************************************************************)
THEOREM EffectsArePermitted == Spec => []EffectIsPermitted
<1>1. IInv => EffectIsPermitted
  BY DEF IInv
<1>2. QED
  BY <1>1, SessionsInvariant, PTL

(***************************************************************************)
(* A station that starts without accounts gets one by Bootstrap, however   *)
(* many bootstraps run at once (the advisory lock).                        *)
(***************************************************************************)
THEOREM BootstrapHappensOnce == Spec => []OneBootstrap
<1>1. ASSUME IInv, Accounts = {} PROVE Cardinality(Known) <= 1
  <2>1. \A u, v \in Known : u = v
    BY <1>1 DEF IInv, FirstAlone
  <2>2. CASE Known = {}
    BY <2>2, FS_EmptySet
  <2>3. CASE Known # {}
    <3>1. PICK u \in Known : Known = {u}
      BY <2>1, <2>3
    <3>2. Cardinality({u}) = 1
      BY FS_Singleton
    <3>3. QED
      BY <3>1, <3>2
  <2>4. QED
    BY <2>2, <2>3
<1>2. IInv => OneBootstrap
  BY <1>1 DEF OneBootstrap
<1>3. QED
  BY <1>2, SessionsInvariant, PTL
=============================================================================
