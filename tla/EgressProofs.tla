----------------------------- MODULE EgressProofs -----------------------------
(***************************************************************************)
(* Proofs about EgressProxies, for any number of proxies, requests and     *)
(* processes, any lease longer than the deadline and any bounds.           *)
(***************************************************************************)
EXTENDS EgressProxies, TLAPS

(***************************************************************************)
(* What a marker is not.                                                   *)
(***************************************************************************)
LEMMA Markers ==
  /\ None # Gone
  /\ \A r \in Row : r # None /\ r # Gone
  /\ \A c \in Cards : c # None /\ c # Gone
  /\ \A r \in Request : r # None
  /\ \A t \in Tester : t # None
  BY EgressAssumption

(***************************************************************************)
(* The numbers among the constants.                                        *)
(***************************************************************************)
LEMMA Numbers ==
  /\ Deadline \in Nat /\ Lease \in Nat /\ Deadline < Lease
  /\ MaxRevision \in Nat /\ MaxClock \in Nat
  BY EgressAssumption

LEMMA ExpiresTyped == {0, MaxClock} \subseteq Nat
  BY Numbers

(***************************************************************************)
(* The rows and the requests that are there are typed.                     *)
(***************************************************************************)
LEMMA SavedRow ==
  ASSUME TypeOK, NEW p \in Saved
  PROVE  /\ p \in Proxy /\ proxy[p] \in Row
         /\ proxy[p].revision \in Nat /\ proxy[p].until \in Nat
<1>1. p \in Proxy /\ proxy[p] \in Row
  BY DEF TypeOK, Saved
<1>2. QED
  BY <1>1 DEF Row

LEMMA BusyRequest ==
  ASSUME TypeOK, NEW pc, NEW t \in InState(pc)
  PROVE  t \in Tester /\ tester[t] \in Request /\ tester[t].pc = pc
  BY DEF TypeOK, InState, Busy

-----------------------------------------------------------------------------
(***************************************************************************)
(* What each action does to the row or to the request it is about.         *)
(***************************************************************************)
LEMMA RowTyped ==
  ASSUME TypeOK, NEW p \in Proxy, NEW row \in Row \cup {None, Gone},
         proxy' = [proxy EXCEPT ![p] = row]
  PROVE  proxy' \in [Proxy -> Row \cup {None, Gone}]
  BY DEF TypeOK

LEMMA RequestTyped ==
  ASSUME TypeOK, NEW t \in Tester, NEW r \in Request \cup {None},
         tester' = [tester EXCEPT ![t] = r]
  PROVE  tester' \in [Tester -> Request \cup {None}]
  BY DEF TypeOK

LEMMA CreateTyped ==
  ASSUME TypeOK, NEW p \in Proxy, NEW e \in Endpoint, NEW status \in {"unset", "pending", "off"},
         NEW expires \in {0, MaxClock}, Create(p, e, status, expires)
  PROVE  TypeOK'
<1> DEFINE s == IF status = "unset" THEN "pending" ELSE status
           row == [endpoint |-> e, status |-> s,
                   revision |-> 1, expires |-> expires, probe |-> None, token |-> None,
                   until |-> 0, assigned |-> FALSE]
<1>1. s \in Status
  BY DEF Status
<1>2. expires \in Nat
  BY ExpiresTyped, Zenon
<1>3. proxy' = [proxy EXCEPT ![p] = row]
  BY DEF Create
<1> HIDE DEF s
<1>4. row \in Row
  BY <1>1, <1>2 DEF Row
<1> HIDE DEF row
<1>5. QED
  BY <1>3, <1>4, RowTyped DEF Create, TypeOK

(***************************************************************************)
(* The row an edit leaves: the next revision, of which nothing is known.   *)
(***************************************************************************)
Edited(row, e, expires, n, s) ==
  [row EXCEPT !.endpoint = e, !.expires = expires, !.revision = n, !.status = s,
              !.probe = None, !.token = None, !.until = 0]

LEMMA EditedTyped ==
  ASSUME NEW row \in Row, NEW e \in Endpoint, NEW x \in Nat, NEW n \in Nat, NEW s \in Status
  PROVE  /\ Edited(row, e, x, n, s) \in Row
         /\ Edited(row, e, x, n, s).revision = n /\ Edited(row, e, x, n, s).status = s
         /\ Edited(row, e, x, n, s).probe = None
  BY DEF Row, Edited

LEMMA EditedRow ==
  ASSUME TypeOK, NEW p \in Proxy, NEW e \in Endpoint,
         NEW status \in {"unset", "pending", "off"}, NEW expires \in {0, MaxClock},
         Update(p, e, status, expires)
  PROVE  /\ p \in Saved
         /\ \E row \in Row : /\ proxy' = [proxy EXCEPT ![p] = row]
                             /\ row.revision = proxy[p].revision + 1
                             /\ row.status \in {"pending", "off"} /\ row.probe = None
<1> DEFINE n == proxy[p].revision + 1
           s == Switched(proxy[p].status, status)
<1>1. p \in Saved /\ proxy' = [proxy EXCEPT ![p] = Edited(proxy[p], e, expires, n, s)]
  BY DEF Update, Edited
<1>2. proxy[p] \in Row /\ n \in Nat
  BY <1>1, SavedRow
<1>3. expires \in Nat
  BY ExpiresTyped
<1>4. s \in {"pending", "off"} /\ s \in Status
  BY DEF Switched, Status
<1> HIDE DEF s
<1>5. Edited(proxy[p], e, expires, n, s) \in Row
      /\ Edited(proxy[p], e, expires, n, s).revision = n
      /\ Edited(proxy[p], e, expires, n, s).status = s
      /\ Edited(proxy[p], e, expires, n, s).probe = None
  <2> HIDE DEF n
  <2>1. QED
    BY <1>2, <1>3, <1>4, EditedTyped
<1>6. QED
  BY <1>1, <1>4, <1>5

(***************************************************************************)
(* The row a lease leaves: the same card, held until after the deadline.   *)
(***************************************************************************)
Leased(p, who) == [proxy[p] EXCEPT !.token = who, !.until = clock + Lease]

LEMMA LeasedRow ==
  ASSUME TypeOK, NEW p \in Saved, NEW who \in Tester \cup {None}
  PROVE  /\ Leased(p, who) \in Row
         /\ Leased(p, who).revision = proxy[p].revision
         /\ Leased(p, who).status = proxy[p].status
         /\ Leased(p, who).probe = proxy[p].probe
         /\ Leased(p, who).token = who /\ Leased(p, who).until = clock + Lease
<1>1. proxy[p] \in Row
  BY SavedRow
<1>2. clock + Lease \in Nat
  BY Numbers DEF TypeOK
<1>3. QED
  BY <1>1, <1>2 DEF Leased, Row

(***************************************************************************)
(* A lease that ends, and a token that is forgotten.                       *)
(***************************************************************************)
Freed(p) == [proxy[p] EXCEPT !.token = None, !.until = 0]

Forgotten(p) == [proxy[p] EXCEPT !.token = None]

LEMMA FreedRow ==
  ASSUME TypeOK, NEW p \in Saved
  PROVE  /\ Freed(p) \in Row /\ Forgotten(p) \in Row
         /\ Freed(p).revision = proxy[p].revision /\ Forgotten(p).revision = proxy[p].revision
         /\ Freed(p).status = proxy[p].status /\ Forgotten(p).status = proxy[p].status
         /\ Freed(p).probe = proxy[p].probe /\ Forgotten(p).probe = proxy[p].probe
<1>1. proxy[p] \in Row
  BY SavedRow
<1>2. QED
  BY <1>1 DEF Freed, Forgotten, Row

(***************************************************************************)
(* The row a stored result leaves.                                         *)
(***************************************************************************)
Judged(p, revision, passed) ==
  [proxy[p] EXCEPT !.probe = [of |-> revision, passed |-> passed],
                   !.status = IF passed THEN "active" ELSE "pending",
                   !.token = None, !.until = 0]

LEMMA JudgedRow ==
  ASSUME TypeOK, NEW p \in Saved, NEW revision \in Nat, NEW passed \in BOOLEAN
  PROVE  /\ Judged(p, revision, passed) \in Row
         /\ Judged(p, revision, passed).revision = proxy[p].revision
         /\ Judged(p, revision, passed).status = IF passed THEN "active" ELSE "pending"
         /\ Judged(p, revision, passed).probe = [of |-> revision, passed |-> passed]
<1>1. proxy[p] \in Row
  BY SavedRow
<1>2. [of |-> revision, passed |-> passed] \in Result
  BY DEF Result
<1>3. QED
  BY <1>1, <1>2 DEF Judged, Row, Status

(***************************************************************************)
(* A request that moves on keeps what it read.                             *)
(***************************************************************************)
At(t, pc) == [tester[t] EXCEPT !.pc = pc]

LEMMA MovedRequest ==
  ASSUME TypeOK, NEW t \in Tester, tester[t] \in Request,
         NEW pc \in {"read", "slot", "running", "done"}
  PROVE  /\ At(t, pc) \in Request /\ At(t, pc).pc = pc
         /\ At(t, pc).proxy = tester[t].proxy /\ At(t, pc).revision = tester[t].revision
         /\ At(t, pc).started = tester[t].started
  BY DEF At, Request

-----------------------------------------------------------------------------
(***************************************************************************)
(* What the steps of a request do, in the terms above.                     *)
(***************************************************************************)
LEMMA TakeLeaseStep ==
  ASSUME TypeOK, NEW t \in Tester, TakeLease(t)
  PROVE  /\ clock' = clock /\ tester[t] \in Request
         /\ \/ /\ Leasable(tester[t].proxy, tester[t].revision) /\ InTime(t)
               /\ proxy' = [proxy EXCEPT ![tester[t].proxy] = Leased(tester[t].proxy, t)]
               /\ tester' = [tester EXCEPT ![t] = At(t, "running")]
            \/ proxy' = proxy /\ tester' = [tester EXCEPT ![t] = None]
  BY BusyRequest DEF TakeLease, Leased, At

LEMMA LoseLeaseStep ==
  ASSUME TypeOK, NEW t \in Tester, LoseLease(t)
  PROVE  /\ clock' = clock /\ tester[t] \in Request
         /\ Leasable(tester[t].proxy, tester[t].revision)
         /\ proxy' = [proxy EXCEPT ![tester[t].proxy] = Leased(tester[t].proxy, None)]
         /\ tester' = [tester EXCEPT ![t] = None]
  BY BusyRequest DEF LoseLease, Leased

LEMMA StoreResultStep ==
  ASSUME TypeOK, NEW t \in Tester, NEW passed \in BOOLEAN, StoreResult(t, passed)
  PROVE  /\ clock' = clock /\ tester[t] \in Request /\ t \in InState("running")
         /\ tester' = [tester EXCEPT ![t] = At(t, "done")]
         /\ \/ /\ Storable(t, tester[t].proxy)
               /\ proxy' = [proxy EXCEPT ![tester[t].proxy] =
                              Judged(tester[t].proxy, tester[t].revision, passed)]
            \/ proxy' = proxy
  BY BusyRequest DEF StoreResult, Judged, At

LEMMA CleanupStep ==
  ASSUME TypeOK, NEW t \in Tester, Cleanup(t)
  PROVE  /\ clock' = clock /\ tester[t] \in Request /\ t \in InState("done")
         /\ tester' = [tester EXCEPT ![t] = None]
         /\ \/ /\ Owned(t, tester[t].proxy)
               /\ proxy' = [proxy EXCEPT ![tester[t].proxy] = Freed(tester[t].proxy)]
            \/ proxy' = proxy
  BY BusyRequest DEF Cleanup, Freed

LEMMA TakeSlotStep ==
  ASSUME TypeOK, NEW t \in Tester, TakeSlot(t)
  PROVE  /\ clock' = clock /\ proxy' = proxy /\ tester[t] \in Request
         /\ \/ tester' = [tester EXCEPT ![t] = At(t, "slot")]
            \/ tester' = [tester EXCEPT ![t] = None]
  BY BusyRequest DEF TakeSlot, At

LEMMA InterruptStep ==
  ASSUME TypeOK, NEW t \in Tester, Interrupt(t)
  PROVE  /\ clock' = clock /\ proxy' = proxy /\ tester[t] \in Request
         /\ tester' = [tester EXCEPT ![t] = At(t, "done")]
  BY BusyRequest DEF Interrupt, At

LEMMA AssignStep ==
  ASSUME TypeOK, NEW p \in Proxy, Assign(p)
  PROVE  /\ p \in Saved /\ UNCHANGED <<clock, tester>>
         /\ \E row \in Row :
              /\ proxy' = [proxy EXCEPT ![p] = row]
              /\ row.revision = proxy[p].revision /\ row.status = proxy[p].status
              /\ row.probe = proxy[p].probe /\ row.token = proxy[p].token
              /\ row.until = proxy[p].until
<1> DEFINE a == ~proxy[p].assigned
           row == [proxy[p] EXCEPT !.assigned = a]
<1>1. p \in Saved /\ proxy[p] \in Row /\ a \in BOOLEAN
  BY SavedRow DEF Assign
<1>2. proxy' = [proxy EXCEPT ![p] = row] /\ UNCHANGED <<clock, tester>>
  BY DEF Assign
<1> HIDE DEF a
<1>3. row \in Row /\ row.revision = proxy[p].revision /\ row.status = proxy[p].status
      /\ row.probe = proxy[p].probe /\ row.token = proxy[p].token
      /\ row.until = proxy[p].until
  BY <1>1 DEF Row
<1> HIDE DEF row
<1>4. QED
  BY <1>1, <1>2, <1>3

LEMMA AbandonStep ==
  ASSUME TypeOK, NEW gone, Abandon(gone)
  PROVE  /\ clock' = clock
         /\ tester' = [t \in Tester |-> IF t \in gone THEN None ELSE tester[t]]
         /\ proxy' = [p \in Proxy |-> IF p \in Saved /\ proxy[p].token \in gone
                                         THEN Forgotten(p) ELSE proxy[p]]
  BY DEF Abandon, Forgotten

LEMMA TestNext ==
  ASSUME NEW t \in Tester, Test(t)
  PROVE  \/ \E p \in Proxy : Get(t, p)
         \/ TakeSlot(t) \/ TakeLease(t) \/ LoseLease(t)
         \/ \E passed \in BOOLEAN : StoreResult(t, passed)
         \/ Interrupt(t) \/ Cleanup(t) \/ \E gone : Abandon(gone)
  BY DEF Test, CleanupFails

-----------------------------------------------------------------------------
(***************************************************************************)
(* Type correctness.                                                       *)
(***************************************************************************)
LEMMA TypedTest ==
  ASSUME TypeOK, NEW t \in Tester, Test(t)
  PROVE  TypeOK'
<1>1. ASSUME NEW p \in Proxy, Get(t, p)
      PROVE  TypeOK'
  <2> DEFINE r == [pc |-> "read", proxy |-> p, revision |-> proxy[p].revision, started |-> clock]
  <2>1. r \in Request
    BY <1>1, SavedRow DEF Get, Testable, Request, TypeOK
  <2>2. tester' = [tester EXCEPT ![t] = r] /\ UNCHANGED <<clock, proxy>>
    BY <1>1 DEF Get
  <2> HIDE DEF r
  <2>3. QED
    BY <2>1, <2>2, RequestTyped DEF TypeOK
<1>2. CASE TakeSlot(t)
  BY <1>2, TakeSlotStep, MovedRequest, RequestTyped DEF TypeOK
<1>3. CASE TakeLease(t)
  <2>1. tester' \in [Tester -> Request \cup {None}] /\ clock' = clock
    BY <1>3, TakeLeaseStep, MovedRequest, RequestTyped
  <2>2. proxy' \in [Proxy -> Row \cup {None, Gone}]
    <3>1. CASE proxy' = proxy
      BY <3>1 DEF TypeOK
    <3>2. CASE /\ Leasable(tester[t].proxy, tester[t].revision)
               /\ proxy' = [proxy EXCEPT ![tester[t].proxy] = Leased(tester[t].proxy, t)]
      BY <3>2, SavedRow, LeasedRow, RowTyped DEF Leasable
    <3>3. QED
      BY <1>3, <3>1, <3>2, TakeLeaseStep
  <2>3. QED
    BY <2>1, <2>2 DEF TypeOK
<1>4. CASE LoseLease(t)
  <2>1. tester' \in [Tester -> Request \cup {None}] /\ clock' = clock
    BY <1>4, LoseLeaseStep, RequestTyped
  <2>2. proxy' \in [Proxy -> Row \cup {None, Gone}]
    BY <1>4, LoseLeaseStep, SavedRow, LeasedRow, RowTyped DEF Leasable
  <2>3. QED
    BY <2>1, <2>2 DEF TypeOK
<1>5. ASSUME NEW passed \in BOOLEAN, StoreResult(t, passed)
      PROVE  TypeOK'
  <2>1. tester' \in [Tester -> Request \cup {None}] /\ clock' = clock
    BY <1>5, StoreResultStep, MovedRequest, RequestTyped
  <2>2. proxy' \in [Proxy -> Row \cup {None, Gone}]
    <3>1. CASE proxy' = proxy
      BY <3>1 DEF TypeOK
    <3>2. CASE /\ Storable(t, tester[t].proxy)
               /\ proxy' = [proxy EXCEPT ![tester[t].proxy] =
                              Judged(tester[t].proxy, tester[t].revision, passed)]
      <4>1. tester[t].revision \in Nat
        BY <1>5, StoreResultStep DEF Request
      <4>2. QED
        BY <3>2, <4>1, SavedRow, JudgedRow, RowTyped DEF Storable
    <3>3. QED
      BY <1>5, <3>1, <3>2, StoreResultStep
  <2>3. QED
    BY <2>1, <2>2 DEF TypeOK
<1>6. CASE Interrupt(t)
  BY <1>6, InterruptStep, MovedRequest, RequestTyped DEF TypeOK
<1>7. CASE Cleanup(t)
  <2>1. tester' \in [Tester -> Request \cup {None}] /\ clock' = clock
    BY <1>7, CleanupStep, RequestTyped
  <2>2. proxy' \in [Proxy -> Row \cup {None, Gone}]
    <3>1. CASE proxy' = proxy
      BY <3>1 DEF TypeOK
    <3>2. CASE /\ Owned(t, tester[t].proxy)
               /\ proxy' = [proxy EXCEPT ![tester[t].proxy] = Freed(tester[t].proxy)]
      BY <3>2, SavedRow, FreedRow, RowTyped DEF Owned
    <3>3. QED
      BY <1>7, <3>1, <3>2, CleanupStep
  <2>3. QED
    BY <2>1, <2>2 DEF TypeOK
<1>8. ASSUME NEW gone, Abandon(gone)
      PROVE  TypeOK'
  BY <1>8, AbandonStep, FreedRow DEF TypeOK
<1>9. QED
  BY <1>1, <1>2, <1>3, <1>4, <1>5, <1>6, <1>7, <1>8, TestNext

LEMMA TypedStep ==
  ASSUME TypeOK, [Next]_vars
  PROVE  TypeOK'
<1>1. ASSUME NEW p \in Proxy, Save(p)
      PROVE  TypeOK'
  <2>1. PICK e \in Endpoint, status \in {"unset", "pending", "off"}, expires \in {0, MaxClock} :
          Create(p, e, status, expires) \/ Update(p, e, status, expires)
    BY <1>1 DEF Save
  <2>2. CASE Create(p, e, status, expires)
    BY <2>2, CreateTyped
  <2>3. CASE Update(p, e, status, expires)
    BY <2>3, EditedRow, RowTyped DEF Update, TypeOK
  <2>4. QED
    BY <2>1, <2>2, <2>3
<1>2. ASSUME NEW p \in Proxy, Delete(p)
      PROVE  TypeOK'
  BY <1>2, RowTyped DEF Delete, TypeOK
<1>3. ASSUME NEW p \in Proxy, Assign(p)
      PROVE  TypeOK'
  BY <1>3, AssignStep, RowTyped DEF TypeOK
<1>4. ASSUME NEW t \in Tester, Crash(ProcessOf[t])
      PROVE  TypeOK'
  <2>1. PICK gone : Abandon(gone)
    BY <1>4 DEF Crash
  <2>2. QED
    BY <2>1, AbandonStep, FreedRow DEF TypeOK
<1>5. CASE Tick
  BY <1>5 DEF Tick, TypeOK
<1>6. CASE UNCHANGED vars
  BY <1>6 DEF vars, TypeOK
<1>7. QED
  BY <1>1, <1>2, <1>3, <1>4, <1>5, <1>6, TypedTest DEF Next

(***************************************************************************)
(* Every reachable state of the table and of the requests is well typed.   *)
(***************************************************************************)
THEOREM EgressTypeCorrect == Spec => []TypeOK
<1>1. Empty => TypeOK
  BY DEF Empty, TypeOK
<1>2. TypeOK /\ [Next]_vars => TypeOK'
  BY TypedStep
<1>3. QED
  BY <1>1, <1>2, PTL DEF Spec

-----------------------------------------------------------------------------
(***************************************************************************)
(* Refinement: the cards the table shows, and how a step moves them.       *)
(***************************************************************************)
Face(row) == [revision |-> row.revision, status |-> row.status, result |-> row.probe]

cards == [p \in Proxy |-> Card(p)]

LEMMA FaceTyped ==
  ASSUME NEW row \in Row
  PROVE  Face(row) \in Cards /\ Face(row) # None /\ Face(row) # Gone
<1>1. Face(row) \in Cards
  BY DEF Row, Face, Cards
<1>2. QED
  BY <1>1, Markers

LEMMA CardOf ==
  ASSUME NEW p \in Proxy
  PROVE  /\ p \in Saved => cards[p] = Face(proxy[p])
         /\ p \notin Saved => cards[p] = proxy[p]
  BY DEF cards, Card, Face

LEMMA ShownIsSaved ==
  ASSUME TypeOK, NEW p \in Saved
  PROVE  p \in Register!Shown /\ cards[p] = Face(proxy[p])
  BY SavedRow, CardOf, FaceTyped DEF Register!Shown, cards

(***************************************************************************)
(* A row written is a card shown; nobody else's card moves.                *)
(***************************************************************************)
LEMMA CardWritten ==
  ASSUME TypeOK, NEW p \in Proxy, NEW row \in Row, proxy' = [proxy EXCEPT ![p] = row]
  PROVE  cards' = [cards EXCEPT ![p] = Face(row)]
<1>1. \A q \in Proxy : proxy'[q] = IF q = p THEN row ELSE proxy[q]
  BY DEF TypeOK
<1>2. row # None /\ row # Gone
  BY Markers
<1>3. Saved' = Saved \cup {p}
  BY <1>1, <1>2 DEF Saved
<1>4. \A q \in Proxy : Card(q)' = IF q = p THEN Face(row) ELSE Card(q)
  BY <1>1, <1>3 DEF Card, Face
<1>5. QED
  BY <1>4 DEF cards

LEMMA CardKept ==
  ASSUME TypeOK, NEW p \in Saved, NEW row \in Row, proxy' = [proxy EXCEPT ![p] = row],
         row.revision = proxy[p].revision, row.status = proxy[p].status,
         row.probe = proxy[p].probe
  PROVE  cards' = cards
<1>1. p \in Proxy /\ cards[p] = Face(proxy[p])
  BY SavedRow, CardOf
<1>2. Face(row) = cards[p]
  BY <1>1 DEF Face
<1>3. QED
  BY <1>1, <1>2, CardWritten DEF cards

LEMMA CardsKept ==
  ASSUME proxy' = proxy
  PROVE  cards' = cards
  BY DEF cards, Card, Saved

LEMMA CardsAbandoned ==
  ASSUME TypeOK, NEW gone, Abandon(gone)
  PROVE  cards' = cards
<1>1. \A p \in Proxy : \/ proxy'[p] = proxy[p]
                       \/ p \in Saved /\ proxy'[p] = Forgotten(p)
  BY AbandonStep
<1>2. \A p \in Proxy : p \in Saved' <=> p \in Saved
  BY <1>1, FreedRow, Markers DEF Saved
<1>3. \A p \in Proxy : Card(p)' = Card(p)
  BY <1>1, <1>2, FreedRow DEF Card
<1>4. QED
  BY <1>3 DEF cards

LEMMA TestRefines ==
  ASSUME TypeOK, NEW t \in Tester, Test(t)
  PROVE  cards' = cards \/ \E p \in Proxy, passed \in BOOLEAN : Register!Judge(p, passed)
<1>1. ASSUME NEW p \in Proxy, Get(t, p)
      PROVE  cards' = cards
  BY <1>1, CardsKept DEF Get
<1>2. CASE TakeSlot(t)
  BY <1>2, TakeSlotStep, CardsKept
<1>3. CASE TakeLease(t)
  BY <1>3, TakeLeaseStep, LeasedRow, CardKept, CardsKept DEF Leasable
<1>4. CASE LoseLease(t)
  BY <1>4, LoseLeaseStep, LeasedRow, CardKept DEF Leasable
<1>5. ASSUME NEW passed \in BOOLEAN, StoreResult(t, passed)
      PROVE  cards' = cards \/ \E p \in Proxy : Register!Judge(p, passed)
  <2> DEFINE p == tester[t].proxy
             row == Judged(p, tester[t].revision, passed)
  <2>1. CASE proxy' = proxy
    BY <2>1, CardsKept
  <2>2. CASE Storable(t, p) /\ proxy' = [proxy EXCEPT ![p] = row]
    <3>1. p \in Saved /\ p \in Proxy /\ proxy[p].status # "off"
          /\ proxy[p].revision = tester[t].revision /\ tester[t].revision \in Nat
      BY <2>2, SavedRow DEF Storable
    <3>2. row \in Row /\ row.revision = proxy[p].revision
          /\ row.status = (IF passed THEN "active" ELSE "pending")
          /\ row.probe = [of |-> proxy[p].revision, passed |-> passed]
      BY <3>1, JudgedRow
    <3> HIDE DEF p, row
    <3>3. cards' = [cards EXCEPT ![p] = Face(row)]
      BY <2>2, <3>1, <3>2, CardWritten
    <3>4. p \in Register!Shown /\ cards[p] = Face(proxy[p])
      BY <3>1, ShownIsSaved
    <3>5. cards[p].status # "off" /\ cards[p].revision = proxy[p].revision
      BY <3>1, <3>4 DEF Face
    <3>6. Face(row) = [revision |-> cards[p].revision,
                       status |-> IF passed THEN "active" ELSE "pending",
                       result |-> [of |-> cards[p].revision, passed |-> passed]]
      BY <3>2, <3>5 DEF Face
    <3>7. Register!Judge(p, passed)
      BY <3>3, <3>4, <3>5, <3>6 DEF Register!Judge, cards
    <3>8. QED
      BY <3>1, <3>7
  <2>3. QED
    BY <1>5, <2>1, <2>2, StoreResultStep
<1>6. CASE Interrupt(t)
  BY <1>6, InterruptStep, CardsKept
<1>7. CASE Cleanup(t)
  BY <1>7, CleanupStep, FreedRow, CardKept, CardsKept DEF Owned
<1>8. ASSUME NEW gone, Abandon(gone)
      PROVE  cards' = cards
  BY <1>8, CardsAbandoned
<1>9. QED
  BY <1>1, <1>2, <1>3, <1>4, <1>5, <1>6, <1>7, <1>8, TestNext

LEMMA SaveRefines ==
  ASSUME TypeOK, NEW p \in Proxy, Save(p)
  PROVE  \E status \in {"pending", "off"} : Register!Create(p, status) \/ Register!Edit(p, status)
<1>1. PICK e \in Endpoint, status \in {"unset", "pending", "off"}, expires \in {0, MaxClock} :
        Create(p, e, status, expires) \/ Update(p, e, status, expires)
  BY DEF Save
<1>2. CASE Create(p, e, status, expires)
  <2> DEFINE s == IF status = "unset" THEN "pending" ELSE status
             row == [endpoint |-> e, status |-> s, revision |-> 1, expires |-> expires,
                     probe |-> None, token |-> None, until |-> 0, assigned |-> FALSE]
  <2>1. proxy[p] = None /\ proxy' = [proxy EXCEPT ![p] = row]
    BY <1>2 DEF Create
  <2>2. s \in {"pending", "off"} /\ s \in Status
    BY DEF Status
  <2>3. expires \in Nat
    BY ExpiresTyped
  <2> HIDE DEF s
  <2>4. row \in Row
    BY <2>2, <2>3 DEF Row
  <2>5. Face(row) = [revision |-> 1, status |-> s, result |-> None]
    BY DEF Face
  <2> HIDE DEF row
  <2>6. cards' = [cards EXCEPT ![p] = Face(row)]
    BY <2>1, <2>4, CardWritten
  <2>7. cards[p] = None
    BY <2>1, CardOf DEF Saved
  <2>8. Register!Create(p, s)
    BY <2>5, <2>6, <2>7 DEF Register!Create, cards
  <2>9. QED
    BY <2>2, <2>8
<1>3. CASE Update(p, e, status, expires)
  <2>1. PICK row \in Row : /\ proxy' = [proxy EXCEPT ![p] = row]
                          /\ row.revision = proxy[p].revision + 1
                          /\ row.status \in {"pending", "off"} /\ row.probe = None
    BY <1>3, EditedRow
  <2>2. p \in Saved
    BY <1>3, EditedRow
  <2>3. p \in Register!Shown /\ cards[p] = Face(proxy[p])
    BY <2>2, ShownIsSaved
  <2>4. cards' = [cards EXCEPT ![p] = Face(row)]
    BY <2>1, CardWritten
  <2>5. Face(row) = [revision |-> cards[p].revision + 1, status |-> row.status, result |-> None]
    BY <2>1, <2>3 DEF Face
  <2>6. Register!Edit(p, row.status)
    BY <2>3, <2>4, <2>5 DEF Register!Edit, cards
  <2>7. QED
    BY <2>1, <2>6
<1>4. QED
  BY <1>1, <1>2, <1>3

LEMMA DeleteRefines ==
  ASSUME TypeOK, NEW p \in Proxy, Delete(p)
  PROVE  Register!Remove(p)
<1>1. p \in Saved /\ proxy' = [proxy EXCEPT ![p] = Gone]
  BY DEF Delete
<1>2. p \in Register!Shown
  BY <1>1, ShownIsSaved
<1>3. \A q \in Proxy : proxy'[q] = IF q = p THEN Gone ELSE proxy[q]
  BY <1>1 DEF TypeOK
<1>4. Saved' = Saved \ {p}
  BY <1>3 DEF Saved
<1>5. \A q \in Proxy : Card(q)' = IF q = p THEN Gone ELSE Card(q)
  BY <1>3, <1>4 DEF Card
<1>6. cards' = [cards EXCEPT ![p] = Gone]
  BY <1>5 DEF cards
<1>7. QED
  BY <1>2, <1>6 DEF Register!Remove, cards

LEMMA StepRefines ==
  ASSUME TypeOK, [Next]_vars
  PROVE  Register!Next \/ cards' = cards
<1>1. ASSUME NEW p \in Proxy, Save(p)
      PROVE  Register!Next
  BY <1>1, SaveRefines DEF Register!Next
<1>2. ASSUME NEW p \in Proxy, Delete(p)
      PROVE  Register!Next
  BY <1>2, DeleteRefines DEF Register!Next
<1>3. ASSUME NEW p \in Proxy, Assign(p)
      PROVE  cards' = cards
  BY <1>3, AssignStep, CardKept
<1>4. ASSUME NEW t \in Tester, Test(t)
      PROVE  Register!Next \/ cards' = cards
  BY <1>4, TestRefines DEF Register!Next
<1>5. ASSUME NEW t \in Tester, Crash(ProcessOf[t])
      PROVE  cards' = cards
  BY <1>5, CardsAbandoned DEF Crash
<1>6. CASE Tick \/ UNCHANGED vars
  BY <1>6, CardsKept DEF Tick, vars
<1>7. QED
  BY <1>1, <1>2, <1>3, <1>4, <1>5, <1>6 DEF Next

(***************************************************************************)
(* The table, with its leases, slots and clocks, implements the register   *)
(* in which a probe is one step on the revision shown.                     *)
(***************************************************************************)
THEOREM TableIsRegister == Spec => ImplementsRegister
<1>1. Empty => Register!Blank
  BY DEF Empty, Register!Blank, Card, Saved
<1>2. TypeOK /\ [Next]_vars => [Register!Next]_cards
  BY StepRefines
<1>3. Spec => Register!Blank /\ [][Register!Next]_cards
  BY <1>1, <1>2, EgressTypeCorrect, PTL DEF Spec
<1>4. QED
  BY <1>3, PTL DEF ImplementsRegister, Register!Spec, cards

-----------------------------------------------------------------------------
(***************************************************************************)
(* Why two probes of one revision never run at once.  A request never      *)
(* knows more than the table; and while a probe runs in time and the       *)
(* revision it read is the present one, the lease carries its token and    *)
(* outlives its deadline.                                                  *)
(***************************************************************************)
Old(t) ==
  tester[t] # None =>
    /\ tester[t].started <= clock /\ proxy[tester[t].proxy] # None
    /\ tester[t].proxy \in Saved => tester[t].revision <= proxy[tester[t].proxy].revision

Current(t) == tester[t].proxy \in Saved /\ proxy[tester[t].proxy].revision = tester[t].revision

Held(t) ==
  Running(t) /\ Current(t) =>
    /\ proxy[tester[t].proxy].token = t
    /\ proxy[tester[t].proxy].until >= tester[t].started + Deadline

Sound == (\A t \in Tester : Old(t) /\ Held(t)) /\ OneProbePerRevision

(***************************************************************************)
(* What a step does to a request: it ends, moves on without a lease,       *)
(* begins, or takes the lease.                                             *)
(***************************************************************************)
Same(t) ==
  /\ tester[t] # None /\ tester'[t] # None
  /\ tester'[t].proxy = tester[t].proxy /\ tester'[t].revision = tester[t].revision
  /\ tester'[t].started = tester[t].started

Kept(t) == Same(t) /\ (tester'[t].pc = "running" => tester[t].pc = "running")

Begun(t) ==
  /\ tester'[t].pc = "read" /\ tester'[t].proxy \in Saved
  /\ tester'[t].revision = proxy[tester'[t].proxy].revision /\ tester'[t].started = clock

Leases(t) ==
  /\ Same(t) /\ Current(t) /\ proxy[tester[t].proxy].until < clock
  /\ proxy'[tester[t].proxy].token = t
  /\ proxy'[tester[t].proxy].until = clock + Lease

RequestStep(t) == tester'[t] = None \/ Kept(t) \/ Begun(t) \/ Leases(t)

(***************************************************************************)
(* What a step does to a row: nothing, a creation, a deletion after the    *)
(* lease, a new revision, or a change of a lease no running probe holds.   *)
(***************************************************************************)
RowStep(p) ==
  \/ proxy'[p] = proxy[p]
  \/ proxy[p] = None
  \/ proxy'[p] = Gone /\ proxy[p].until <= clock
  \/ /\ p \in Saved /\ p \in Saved'
     /\ \/ proxy'[p].revision > proxy[p].revision
        \/ /\ proxy'[p].revision = proxy[p].revision
           /\ \/ proxy'[p].token = proxy[p].token /\ proxy'[p].until = proxy[p].until
              \/ \E t \in Tester : proxy[p].token = t /\ ~Running(t)'
              \/ proxy[p].until < clock

LEMMA RequestFields ==
  ASSUME TypeOK, NEW t \in Tester, tester[t] # None
  PROVE  /\ tester[t] \in Request /\ tester[t].proxy \in Proxy
         /\ tester[t].revision \in Nat /\ tester[t].started \in Nat
<1>1. tester[t] \in Request
  BY DEF TypeOK
<1>2. QED
  BY <1>1 DEF Request

LEMMA RunningIs ==
  ASSUME NEW t \in Tester
  PROVE  Running(t) <=> /\ tester[t] # None /\ tester[t].pc = "running"
                        /\ clock < tester[t].started + Deadline
  BY DEF Running, InState, Busy, InTime

LEMMA NextRow ==
  ASSUME TypeOK', NEW p \in Saved'
  PROVE  /\ p \in Proxy /\ proxy'[p] \in Row
         /\ proxy'[p].revision \in Nat /\ proxy'[p].until \in Nat
<1>1. p \in Proxy /\ proxy'[p] \in Row
  BY DEF TypeOK, Saved
<1>2. QED
  BY <1>1 DEF Row

(***************************************************************************)
(* Rows a request names stay, and their revisions only grow.               *)
(***************************************************************************)
LEMMA RowsGrow ==
  ASSUME TypeOK, TypeOK', NEW p \in Proxy, RowStep(p), proxy[p] # None
  PROVE  /\ proxy'[p] # None
         /\ p \in Saved' => p \in Saved /\ proxy[p].revision <= proxy'[p].revision
<1>1. p \in Saved => proxy[p].revision \in Nat
  BY SavedRow
<1>2. CASE proxy'[p] = proxy[p]
  BY <1>1, <1>2 DEF Saved
<1>3. CASE proxy'[p] = Gone
  BY <1>3, Markers DEF Saved
<1>4. CASE p \in Saved /\ p \in Saved'
  <2>1. proxy'[p].revision \in Nat /\ proxy[p].revision <= proxy'[p].revision
    <3>1. CASE proxy'[p] = proxy[p]
      BY <1>1, <1>4, <3>1
    <3>2. CASE proxy'[p].revision = proxy[p].revision
      BY <1>1, <1>4, <3>2
    <3>3. CASE proxy'[p].revision > proxy[p].revision
      BY <1>1, <1>4, <3>3, NextRow
    <3>4. CASE proxy'[p] = Gone
      BY <1>4, <3>4 DEF Saved
    <3>5. QED
      BY <3>1, <3>2, <3>3, <3>4 DEF RowStep
  <2>2. QED
    BY <1>4, <2>1 DEF Saved
<1>5. QED
  BY <1>2, <1>3, <1>4 DEF RowStep

LEMMA SoundStep ==
  ASSUME TypeOK, TypeOK', Sound, clock <= clock',
         \A t \in Tester : RequestStep(t), \A p \in Proxy : RowStep(p)
  PROVE  Sound'
<1>1. clock \in Nat /\ clock' \in Nat
  BY DEF TypeOK
<1>2. ASSUME NEW t \in Tester
      PROVE  Old(t)'
  <2> SUFFICES ASSUME tester'[t] # None
               PROVE  /\ tester'[t].started <= clock' /\ proxy'[tester'[t].proxy] # None
                      /\ tester'[t].proxy \in Saved' =>
                           tester'[t].revision <= proxy'[tester'[t].proxy].revision
    BY DEF Old
  <2> DEFINE p == tester'[t].proxy
  <2>1. p \in Proxy /\ tester'[t].revision \in Nat /\ tester'[t].started \in Nat
    <3>1. tester'[t] \in Request
      BY DEF TypeOK
    <3>2. QED
      BY <3>1 DEF Request
  <2>2. /\ tester'[t].started <= clock /\ proxy[p] # None
        /\ p \in Saved => tester'[t].revision <= proxy[p].revision
    <3>1. CASE Same(t)
      BY <1>2, <3>1 DEF Same, Sound, Old
    <3>2. CASE Begun(t)
      BY <1>1, <2>1, <3>2, SavedRow DEF Begun, Saved
    <3>3. QED
      BY <1>2, <3>1, <3>2 DEF RequestStep, Kept, Leases
  <2>3. /\ proxy'[p] # None
        /\ p \in Saved' => p \in Saved /\ proxy[p].revision <= proxy'[p].revision
    BY <2>1, <2>2, RowsGrow
  <2>4. p \in Saved' => proxy[p].revision \in Nat /\ proxy'[p].revision \in Nat
    BY <2>3, SavedRow, NextRow
  <2>5. QED
    BY <1>1, <2>1, <2>2, <2>3, <2>4
<1>3. ASSUME NEW t \in Tester, Running(t)', ~Leases(t)
      PROVE  Kept(t) /\ Running(t)
  <2>1. tester'[t] # None /\ tester'[t].pc = "running" /\ clock' < tester'[t].started + Deadline
    BY <1>3 DEF Running, InState, Busy, InTime
  <2>2. Kept(t)
    BY <1>3, <2>1 DEF RequestStep, Begun
  <2>3. tester[t].started \in Nat /\ Deadline \in Nat
    BY <2>2, RequestFields, Numbers DEF Kept, Same
  <2>4. clock < tester[t].started + Deadline
    BY <1>1, <2>1, <2>2, <2>3 DEF Kept, Same
  <2>5. QED
    BY <2>1, <2>2, <2>4, RunningIs DEF Kept, Same
<1>4. ASSUME NEW t \in Tester
      PROVE  Held(t)'
  <2> SUFFICES ASSUME Running(t)', Current(t)'
               PROVE  /\ proxy'[tester'[t].proxy].token = t
                      /\ proxy'[tester'[t].proxy].until >= tester'[t].started + Deadline
    BY DEF Held
  <2> DEFINE p == tester[t].proxy
  <2>1. CASE Leases(t)
    <3>1. tester'[t].proxy = p /\ tester'[t].started = tester[t].started
          /\ tester[t].started \in Nat /\ tester[t].started <= clock
      BY <2>1, RequestFields DEF Leases, Same, Sound, Old
    <3>2. proxy'[p].token = t /\ proxy'[p].until = clock + Lease
      BY <2>1 DEF Leases
    <3> HIDE DEF p
    <3>3. QED
      BY <1>1, <3>1, <3>2, Numbers
  <2>2. CASE ~Leases(t)
    <3>1. Kept(t) /\ Running(t)
      BY <1>3, <2>2
    <3>2. tester'[t].proxy = p /\ tester'[t].started = tester[t].started
          /\ tester'[t].revision = tester[t].revision
          /\ p \in Proxy /\ tester[t].started \in Nat /\ tester[t].revision \in Nat
      BY <3>1, RequestFields DEF Kept, Same
    <3>3. p \in Saved' /\ proxy'[p].revision = tester[t].revision
      BY <3>2 DEF Current
    <3>4. proxy[p] # None /\ (p \in Saved => tester[t].revision <= proxy[p].revision)
      BY <3>1 DEF Sound, Old, Kept, Same
    <3>5. p \in Saved /\ proxy[p].revision <= proxy'[p].revision
      BY <3>2, <3>3, <3>4, RowsGrow
    <3>6. proxy[p].revision = tester[t].revision
      BY <3>2, <3>3, <3>4, <3>5, SavedRow
    <3>7. proxy[p].token = t /\ proxy[p].until >= tester[t].started + Deadline
      BY <3>1, <3>5, <3>6 DEF Sound, Held, Current
    <3>8. proxy'[p].token = proxy[p].token /\ proxy'[p].until = proxy[p].until
      <4>1. ~(proxy[p].until < clock)
        <5>1. clock < tester[t].started + Deadline
          BY <3>1, RunningIs
        <5>2. QED
          BY <1>1, <3>2, <3>5, <3>7, <5>1, SavedRow, Numbers
      <4>2. ~(proxy'[p].revision > proxy[p].revision)
        BY <3>2, <3>3, <3>6
      <4>3. proxy'[p] # Gone
        BY <3>3 DEF Saved
      <4>4. ~\E u \in Tester : proxy[p].token = u /\ ~Running(u)'
        BY <3>7
      <4>5. QED
        BY <3>2, <3>4, <4>1, <4>2, <4>3, <4>4 DEF RowStep
    <3>9. QED
      BY <3>2, <3>7, <3>8
  <2>3. QED
    BY <2>1, <2>2
<1>5. OneProbePerRevision'
  <2> SUFFICES ASSUME NEW t \in Tester, NEW u \in Tester, Running(t)', Running(u)',
                      tester'[t].proxy = tester'[u].proxy,
                      tester'[t].revision = tester'[u].revision
               PROVE  t = u
    BY DEF OneProbePerRevision
  <2>1. ASSUME NEW a \in Tester, NEW b \in Tester, Leases(a), ~Leases(b), Running(b)',
               tester'[a].proxy = tester'[b].proxy, tester'[a].revision = tester'[b].revision
        PROVE  FALSE
    <3> DEFINE p == tester[b].proxy
    <3>1. Kept(b) /\ Running(b)
      BY <1>3, <2>1
    <3>2. tester[a].proxy = p /\ tester[a].revision = tester[b].revision
      BY <2>1, <3>1 DEF Leases, Kept, Same
    <3>3. p \in Saved /\ proxy[p].until < clock /\ Current(b)
      BY <2>1, <3>2 DEF Leases, Current
    <3>4. proxy[p].until >= tester[b].started + Deadline
      BY <3>1, <3>3 DEF Sound, Held
    <3>5. clock < tester[b].started + Deadline /\ tester[b].started \in Nat
      BY <3>1, RunningIs, RequestFields DEF Kept, Same
    <3>6. QED
      BY <1>1, <3>3, <3>4, <3>5, SavedRow, Numbers
  <2>2. CASE Leases(t) /\ Leases(u)
    BY <2>2 DEF Leases, Same
  <2>3. CASE ~Leases(t) /\ ~Leases(u)
    <3>1. Kept(t) /\ Running(t) /\ Kept(u) /\ Running(u)
      BY <1>3, <2>3
    <3>2. tester[t].proxy = tester[u].proxy /\ tester[t].revision = tester[u].revision
      BY <3>1 DEF Kept, Same
    <3>3. QED
      BY <3>1, <3>2 DEF Sound, OneProbePerRevision
  <2>4. QED
    BY <2>1, <2>2, <2>3
<1>6. QED
  BY <1>2, <1>4, <1>5 DEF Sound

(***************************************************************************)
(* One row or one request at a time.                                       *)
(***************************************************************************)
LEMMA RequestsIdle ==
  ASSUME tester' = tester
  PROVE  \A t \in Tester : RequestStep(t)
  BY DEF RequestStep, Kept, Same

LEMMA OneRequest ==
  ASSUME TypeOK, NEW t \in Tester, NEW r, tester' = [tester EXCEPT ![t] = r], RequestStep(t)
  PROVE  \A u \in Tester : RequestStep(u)
  BY DEF TypeOK, RequestStep, Kept, Same

LEMMA RequestEnds ==
  ASSUME TypeOK, NEW t \in Tester, tester' = [tester EXCEPT ![t] = None]
  PROVE  ~Running(t)' /\ \A u \in Tester : RequestStep(u)
<1>1. tester'[t] = None
  BY DEF TypeOK
<1>2. QED
  BY <1>1, OneRequest DEF RequestStep, Running, InState, Busy

LEMMA RequestMoves ==
  ASSUME TypeOK, NEW t \in Tester, tester[t] \in Request, NEW pc \in {"slot", "done"},
         tester' = [tester EXCEPT ![t] = At(t, pc)]
  PROVE  ~Running(t)' /\ \A u \in Tester : RequestStep(u)
<1>1. tester'[t] = At(t, pc)
  BY DEF TypeOK
<1>2. At(t, pc) \in Request /\ At(t, pc) # None /\ At(t, pc).pc # "running" /\ tester[t] # None
  BY MovedRequest, Markers
<1>3. Kept(t)
  BY <1>1, <1>2, MovedRequest DEF Kept, Same
<1>4. ~Running(t)'
  BY <1>1, <1>2 DEF Running, InState, Busy
<1>5. QED
  BY <1>3, <1>4, OneRequest DEF RequestStep

LEMMA RowsIdle ==
  ASSUME proxy' = proxy
  PROVE  \A p \in Proxy : RowStep(p)
  BY DEF RowStep

LEMMA OneRow ==
  ASSUME TypeOK, NEW p \in Proxy, NEW row, proxy' = [proxy EXCEPT ![p] = row], RowStep(p)
  PROVE  \A q \in Proxy : RowStep(q)
  BY DEF TypeOK, RowStep

(***************************************************************************)
(* A saved row that stays at its revision.                                 *)
(***************************************************************************)
LEMMA SavedStep ==
  ASSUME TypeOK, NEW p \in Saved, NEW row \in Row, proxy' = [proxy EXCEPT ![p] = row],
         row.revision = proxy[p].revision,
         \/ row.token = proxy[p].token /\ row.until = proxy[p].until
         \/ \E t \in Tester : proxy[p].token = t /\ ~Running(t)'
         \/ proxy[p].until < clock
  PROVE  \A q \in Proxy : RowStep(q)
<1>1. p \in Proxy /\ proxy'[p] = row
  BY SavedRow DEF TypeOK
<1>2. p \in Saved'
  BY <1>1, Markers DEF Saved
<1>3. RowStep(p)
  BY <1>1, <1>2 DEF RowStep
<1>4. QED
  BY <1>1, <1>3, OneRow

Quiet == /\ clock <= clock'
         /\ \A t \in Tester : RequestStep(t)
         /\ \A p \in Proxy : RowStep(p)

LEMMA AbandonQuiet ==
  ASSUME TypeOK, NEW gone, Abandon(gone)
  PROVE  Quiet
<1>1. clock <= clock'
  BY AbandonStep DEF TypeOK
<1>2. \A t \in Tester : tester'[t] = None \/ tester'[t] = tester[t]
  BY AbandonStep
<1>3. \A t \in Tester : t \in gone => ~Running(t)'
  BY AbandonStep DEF Running, InState, Busy
<1>4. \A t \in Tester : RequestStep(t)
  BY <1>2 DEF RequestStep, Kept, Same
<1>5. ASSUME NEW p \in Proxy
      PROVE  RowStep(p)
  <2>1. CASE proxy'[p] = proxy[p]
    BY <2>1 DEF RowStep
  <2>2. CASE p \in Saved /\ proxy[p].token \in gone /\ proxy'[p] = Forgotten(p)
    <3>1. Forgotten(p) \in Row /\ Forgotten(p).revision = proxy[p].revision
      BY <2>2, FreedRow
    <3>2. p \in Saved'
      BY <2>2, <3>1, Markers DEF Saved
    <3>3. proxy[p].token \in Tester \cup {None}
      <4>1. proxy[p] \in Row
        BY <2>2, SavedRow
      <4>2. QED
        BY <4>1 DEF Row
    <3>4. CASE proxy[p].token \in Tester
      BY <1>3, <2>2, <3>1, <3>2, <3>4 DEF RowStep
    <3>5. CASE proxy[p].token = None
      <4>1. Forgotten(p) = proxy[p]
        <5>1. proxy[p] \in Row
          BY <2>2, SavedRow
        <5>2. QED
          BY <3>5, <5>1 DEF Forgotten, Row
      <4>2. QED
        BY <2>2, <4>1 DEF RowStep
    <3>6. QED
      BY <3>3, <3>4, <3>5
  <2>3. QED
    BY <1>5, <2>1, <2>2, AbandonStep
<1>6. QED
  BY <1>1, <1>4, <1>5 DEF Quiet

LEMMA TestQuiet ==
  ASSUME TypeOK, NEW t \in Tester, Test(t)
  PROVE  Quiet
<1>1. ASSUME NEW p \in Proxy, Get(t, p)
      PROVE  Quiet
  <2> DEFINE r == [pc |-> "read", proxy |-> p, revision |-> proxy[p].revision, started |-> clock]
  <2>1. tester' = [tester EXCEPT ![t] = r] /\ UNCHANGED <<clock, proxy>> /\ p \in Saved
    BY <1>1 DEF Get, Testable
  <2>2. tester'[t] = r
    BY <2>1 DEF TypeOK
  <2>3. Begun(t)
    BY <2>1, <2>2 DEF Begun
  <2> HIDE DEF r
  <2>4. \A u \in Tester : RequestStep(u)
    BY <2>1, <2>3, OneRequest DEF RequestStep
  <2>5. clock <= clock' /\ \A q \in Proxy : RowStep(q)
    BY <2>1, RowsIdle DEF TypeOK
  <2>6. QED
    BY <2>4, <2>5 DEF Quiet
<1>2. CASE TakeSlot(t)
  BY <1>2, TakeSlotStep, RequestMoves, RequestEnds, RowsIdle DEF Quiet, TypeOK
<1>3. CASE TakeLease(t)
  <2> DEFINE p == tester[t].proxy
  <2>1. CASE proxy' = proxy /\ tester' = [tester EXCEPT ![t] = None]
    <3>1. clock <= clock'
      BY <1>3, TakeLeaseStep DEF TypeOK
    <3>2. QED
      BY <2>1, <3>1, RequestEnds, RowsIdle DEF Quiet
  <2>2. CASE /\ Leasable(p, tester[t].revision)
             /\ proxy' = [proxy EXCEPT ![p] = Leased(p, t)]
             /\ tester' = [tester EXCEPT ![t] = At(t, "running")]
    <3>1. tester[t] \in Request /\ tester[t] # None /\ clock' = clock
      BY <1>3, TakeLeaseStep, Markers
    <3>2. p \in Saved /\ p \in Proxy /\ proxy[p].revision = tester[t].revision
          /\ proxy[p].until < clock
      BY <2>2, SavedRow DEF Leasable
    <3>3. \A q \in Proxy : RowStep(q)
      BY <2>2, <3>2, LeasedRow, SavedStep
    <3>4. tester'[t] = At(t, "running") /\ proxy'[p] = Leased(p, t)
      BY <2>2, <3>2 DEF TypeOK
    <3>5. Same(t)
      BY <3>1, <3>4, MovedRequest, Markers DEF Same
    <3>6. Leases(t)
      BY <3>2, <3>4, <3>5, LeasedRow DEF Leases, Current
    <3>7. \A u \in Tester : RequestStep(u)
      BY <2>2, <3>6, OneRequest DEF RequestStep
    <3>8. QED
      BY <3>1, <3>3, <3>7 DEF Quiet, TypeOK
  <2>3. QED
    BY <1>3, <2>1, <2>2, TakeLeaseStep
<1>4. CASE LoseLease(t)
  <2> DEFINE p == tester[t].proxy
  <2>1. p \in Saved /\ proxy[p].until < clock
    BY <1>4, LoseLeaseStep DEF Leasable
  <2>2. \A q \in Proxy : RowStep(q)
    BY <1>4, <2>1, LoseLeaseStep, LeasedRow, SavedStep
  <2>3. QED
    BY <1>4, <2>2, LoseLeaseStep, RequestEnds DEF Quiet, TypeOK
<1>5. ASSUME NEW passed \in BOOLEAN, StoreResult(t, passed)
      PROVE  Quiet
  <2> DEFINE p == tester[t].proxy
  <2>1. clock' = clock /\ ~Running(t)' /\ \A u \in Tester : RequestStep(u)
    BY <1>5, StoreResultStep, RequestMoves
  <2>2. CASE proxy' = proxy
    BY <2>1, <2>2, RowsIdle DEF Quiet, TypeOK
  <2>3. CASE /\ Storable(t, p)
             /\ proxy' = [proxy EXCEPT ![p] = Judged(p, tester[t].revision, passed)]
    <3>1. p \in Saved /\ proxy[p].token = t /\ tester[t].revision \in Nat
      BY <2>3, SavedRow DEF Storable
    <3>2. \A q \in Proxy : RowStep(q)
      BY <2>1, <2>3, <3>1, JudgedRow, SavedStep
    <3>3. QED
      BY <2>1, <3>2 DEF Quiet, TypeOK
  <2>4. QED
    BY <1>5, <2>2, <2>3, StoreResultStep
<1>6. CASE Interrupt(t)
  BY <1>6, InterruptStep, RequestMoves, RowsIdle DEF Quiet, TypeOK
<1>7. CASE Cleanup(t)
  <2> DEFINE p == tester[t].proxy
  <2>1. clock' = clock /\ ~Running(t)' /\ \A u \in Tester : RequestStep(u)
    BY <1>7, CleanupStep, RequestEnds
  <2>2. CASE proxy' = proxy
    BY <2>1, <2>2, RowsIdle DEF Quiet, TypeOK
  <2>3. CASE Owned(t, p) /\ proxy' = [proxy EXCEPT ![p] = Freed(p)]
    <3>1. p \in Saved /\ proxy[p].token = t
      BY <2>3 DEF Owned
    <3>2. \A q \in Proxy : RowStep(q)
      BY <2>1, <2>3, <3>1, FreedRow, SavedStep
    <3>3. QED
      BY <2>1, <3>2 DEF Quiet, TypeOK
  <2>4. QED
    BY <1>7, <2>2, <2>3, CleanupStep
<1>8. ASSUME NEW gone, Abandon(gone)
      PROVE  Quiet
  BY <1>8, AbandonQuiet
<1>9. QED
  BY <1>1, <1>2, <1>3, <1>4, <1>5, <1>6, <1>7, <1>8, TestNext

LEMMA StepQuiet ==
  ASSUME TypeOK, [Next]_vars
  PROVE  Quiet
<1>1. ASSUME NEW p \in Proxy, Save(p)
      PROVE  Quiet
  <2>1. PICK e \in Endpoint, status \in {"unset", "pending", "off"}, expires \in {0, MaxClock} :
          Create(p, e, status, expires) \/ Update(p, e, status, expires)
    BY <1>1 DEF Save
  <2>2. UNCHANGED <<clock, tester>>
    BY <2>1 DEF Create, Update
  <2>3. \A q \in Proxy : RowStep(q)
    <3>1. CASE Create(p, e, status, expires)
      <4>1. RowStep(p)
        BY <3>1 DEF Create, RowStep
      <4>2. QED
        BY <3>1, <4>1, OneRow DEF Create
    <3>2. CASE Update(p, e, status, expires)
      <4>1. PICK row \in Row : /\ proxy' = [proxy EXCEPT ![p] = row]
                              /\ row.revision = proxy[p].revision + 1
        BY <3>2, EditedRow
      <4>2. p \in Saved /\ proxy'[p] = row
        BY <3>2, <4>1, EditedRow DEF TypeOK
      <4>3. p \in Saved'
        BY <4>2, Markers DEF Saved
      <4>4. row.revision > proxy[p].revision
        BY <4>1, <4>2, SavedRow
      <4>5. RowStep(p)
        BY <4>2, <4>3, <4>4 DEF RowStep
      <4>6. QED
        BY <4>1, <4>5, OneRow
    <3>3. QED
      BY <2>1, <3>1, <3>2
  <2>4. QED
    BY <2>2, <2>3, RequestsIdle DEF Quiet, TypeOK
<1>2. ASSUME NEW p \in Proxy, Delete(p)
      PROVE  Quiet
  <2>1. proxy' = [proxy EXCEPT ![p] = Gone] /\ UNCHANGED <<clock, tester>>
    BY <1>2 DEF Delete
  <2>2. RowStep(p)
    BY <1>2, <2>1 DEF Delete, RowStep, TypeOK
  <2>3. \A q \in Proxy : RowStep(q)
    BY <2>1, <2>2, OneRow
  <2>4. clock <= clock'
    BY <2>1 DEF TypeOK
  <2>5. QED
    BY <2>1, <2>3, <2>4, RequestsIdle DEF Quiet
<1>3. ASSUME NEW p \in Proxy, Assign(p)
      PROVE  Quiet
  <2>1. p \in Saved /\ UNCHANGED <<clock, tester>>
    BY <1>3, AssignStep
  <2>2. \A q \in Proxy : RowStep(q)
    BY <1>3, <2>1, AssignStep, SavedStep
  <2>3. QED
    BY <2>1, <2>2, RequestsIdle DEF Quiet, TypeOK
<1>4. ASSUME NEW t \in Tester, Crash(ProcessOf[t])
      PROVE  Quiet
  BY <1>4, AbandonQuiet DEF Crash
<1>5. CASE Tick
  BY <1>5, RequestsIdle, RowsIdle DEF Tick, Quiet, TypeOK
<1>6. CASE UNCHANGED vars
  BY <1>6, RequestsIdle, RowsIdle DEF vars, Quiet, TypeOK
<1>7. QED
  BY <1>1, <1>2, <1>3, <1>4, <1>5, <1>6, TestQuiet DEF Next

(***************************************************************************)
(* The inductive invariant.                                                *)
(***************************************************************************)
LEMMA ProbesSound == Spec => [](TypeOK /\ Sound)
<1>1. Empty => TypeOK /\ Sound
  BY DEF Empty, TypeOK, Sound, Old, Held, OneProbePerRevision, Running, InState, Busy
<1>2. TypeOK /\ Sound /\ [Next]_vars => TypeOK' /\ Sound'
  BY TypedStep, StepQuiet, SoundStep DEF Quiet
<1>3. QED
  BY <1>1, <1>2, PTL DEF Spec

(***************************************************************************)
(* Two probes of one revision never run at once, whatever process they are *)
(* in and however many leases were given back, lost or abandoned.          *)
(***************************************************************************)
THEOREM ProbesAreExclusive == Spec => []OneProbePerRevision
<1>1. TypeOK /\ Sound => OneProbePerRevision
  BY DEF Sound
<1>2. QED
  BY <1>1, ProbesSound, PTL

(***************************************************************************)
(* A proxy is not deleted under a probe of its present revision.           *)
(***************************************************************************)
THEOREM DeletionWaits == Spec => DeleteWaits
<1> DEFINE Waits == \A p \in Saved : proxy'[p] = Gone =>
                      ~\E t \in Tester : /\ Running(t) /\ tester[t].proxy = p
                                         /\ tester[t].revision = proxy[p].revision
<1>1. TypeOK /\ Sound /\ [Next]_vars => [Waits]_vars
  <2> SUFFICES ASSUME TypeOK, Sound, Next, NEW p \in Saved, proxy'[p] = Gone,
                      NEW t \in Tester, Running(t), tester[t].proxy = p,
                      tester[t].revision = proxy[p].revision
               PROVE  FALSE
    OBVIOUS
  <2>1. clock < tester[t].started + Deadline /\ tester[t].started \in Nat /\ clock \in Nat
    BY RunningIs, RequestFields DEF TypeOK
  <2>2. proxy[p].until >= tester[t].started + Deadline /\ proxy[p].until \in Nat
    BY SavedRow DEF Sound, Held, Current
  <2>3. proxy[p].until > clock
    BY <2>1, <2>2, Numbers
  <2>4. RowStep(p) /\ p \in Proxy
    BY StepQuiet, SavedRow DEF Quiet
  <2>5. proxy[p].until <= clock
    BY <2>4 DEF RowStep, Saved
  <2>6. QED
    BY <2>1, <2>2, <2>3, <2>5
<1>2. QED
  BY <1>1, ProbesSound, PTL DEF Spec, DeleteWaits
=============================================================================
