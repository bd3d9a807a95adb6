-------------------------- MODULE AppCenterProofs ---------------------------
(***************************************************************************)
(* Proofs about AppCenter's cards and admissions, for any number of        *)
(* clients, versions, policies and workload identities.                    *)
(***************************************************************************)
EXTENDS AppCenter, SequenceTheorems, TLAPS

Action == {"install", "start", "stop", "restart", "delete", "upgrade"}

Row ==
  [owner : {"own", "other"}, revision : Nat, version : Version,
   state : {"pending", "installed", "failed"}]

View == [state : {"absent", "running", "stopped"}, uid : Uid \cup {None}]

Offer == [action : Action, version : Version]

(***************************************************************************)
(* The policy revisions that resolve computes.                             *)
(***************************************************************************)
Token ==
  {<<"market", v, w>> : v \in Version \cup {None}, w \in Version \cup {None}}
    \cup {<<"registry", v, Policy[v]>> : v \in DOMAIN Policy}

(***************************************************************************)
(* A request that has read the rows, one that has a card or puts it        *)
(* together, and one that is being admitted.                               *)
(***************************************************************************)
RowsRecord == [phase : {"rows"}, quiet : BOOLEAN, busy : BOOLEAN, row : Row \cup {None}]

Carded == {"facts", "projecting", "offered"}

CardRecord ==
  [phase : Carded, quiet : BOOLEAN, row : Row \cup {None},
   entry : Version \cup {None}, view : View \cup {None}, left : Seq(Action),
   offers : SUBSET Offer, policy : Token \cup {None},
   found : {"market", "registry", "none"} \cup {None}]

Decider == {"entered", "resolved", "revised", "granted"}

AdmissionRecord ==
  [phase : Decider, action : Action, version : Version,
   policy : Token \cup {None}, revised : Token \cup {None}, uid : Uid \cup {None},
   market : BOOLEAN, grants : SUBSET Version]

ClientRecord == {Idle} \cup RowsRecord \cup CardRecord \cup AdmissionRecord

Operation ==
  [by : {"plain", "appcenter"}, action : Action \cup {"adopt"}, version : Version,
   bound : BOOLEAN, market : BOOLEAN, grants : SUBSET Version]

TypeOK ==
  /\ listed \in Version \cup {None}
  /\ lookup \subseteq Version /\ grant \subseteq Version
  /\ installation \in Row \cup {None}
  /\ operation \in Operation \cup {None}
  /\ workload \in View /\ seen \in View \cup {None}
  /\ client \in [Client -> ClientRecord]
  /\ operation # None /\ operation.bound => installation \in Row

(***************************************************************************)
(* An admission is alone with the installation's row: what it checked on   *)
(* entering still holds, and it has seen every grant since.                *)
(***************************************************************************)
Alone == \A c, d \in Client : Deciding(c) /\ Deciding(d) => c = d

AdmissionFits(q) ==
  /\ grant \subseteq q.grants
  /\ q.action = "upgrade" => installation # None /\ q.version > installation.version
  /\ q.phase = "entered" => ~q.market
  /\ q.phase = "granted" /\ q.market /\ q.action \in {"install", "upgrade"} =>
       q.version \in q.grants

(***************************************************************************)
(* What a card's row, catalog entry and observation say of an action that  *)
(* is still to be projected, or is offered.                                *)
(***************************************************************************)
Eligible(row, entry, view, action) ==
  /\ action \in Action /\ view \in View
  /\ action = "install" => row = None /\ entry # None /\ view.state = "absent"
  /\ action # "install" =>
       /\ row # None /\ row.owner = "own" /\ row.state = "installed"
       /\ view.state \in {"running", "stopped"}
  /\ action = "start" => view.state = "stopped"
  /\ action = "stop" => view.state = "running"
  /\ action = "upgrade" => entry # None /\ entry > row.version

PolicyOf(v) ==
  IF ResolveHelm(v) THEN MarketPolicy(v, installation, listed) ELSE LocalPolicy(v)

Shown(entry, view, action) == entry # None /\ ((action = "install") <=> (view.uid = None))

(***************************************************************************)
(* Whatever changes around it, what is left to project is what the card's  *)
(* row, entry and observation allow.                                       *)
(***************************************************************************)
CardSound(q) ==
  /\ \A k \in 1..Len(q.left) : Eligible(q.row, q.entry, q.view, q.left[k])
  /\ q.phase = "projecting" => q.left # <<>> /\ q.found \in {"market", "registry", "none"}
  /\ q.phase = "projecting" /\ q.found = "registry" =>
       Target(Head(q.left), q.row, q.entry) \in DOMAIN Policy

(***************************************************************************)
(* While nothing changes around it, a card is about what is there, its     *)
(* offers are those of its row and entry, and it carries the policy        *)
(* revision of one of them.                                                *)
(***************************************************************************)
CardFits(q) ==
  /\ q.row = installation /\ q.entry = listed
  /\ q.phase = "projecting" =>
       /\ q.found \in {"market", "registry"} =>
            Bound(Head(q.left), Target(Head(q.left), q.row, q.entry), installation, listed)
       /\ q.found = "market" => ResolveHelm(Target(Head(q.left), q.row, q.entry))
       /\ q.found = "registry" => ~ResolveHelm(Target(Head(q.left), q.row, q.entry))
  /\ \A o \in q.offers :
       /\ Eligible(q.row, q.entry, q.view, o.action) /\ Shown(q.entry, q.view, o.action)
       /\ o.version = Target(o.action, q.row, q.entry)
       /\ Bound(o.action, o.version, installation, listed)
  /\ q.offers # {} => \E o \in q.offers : q.policy = PolicyOf(o.version)

RowsFit(q) == q.row = installation /\ q.busy = (operation # None)

Fits(q) ==
  /\ q.phase \in Decider => AdmissionFits(q)
  /\ q.phase = "rows" /\ q.quiet => RowsFit(q)
  /\ q.phase \in Carded => CardSound(q)
  /\ q.phase \in Carded /\ q.quiet => CardFits(q)

AppCenterInv ==
  /\ TypeOK /\ Alone
  /\ \A c \in Client : Fits(client[c])
  /\ UpgradeRises /\ GrantIsFresh

-----------------------------------------------------------------------------
LEMMA RecordOfPhase ==
  ASSUME NEW q \in ClientRecord
  PROVE  /\ q.phase \in {"idle", "rows"} \cup Carded \cup Decider
         /\ q.phase = "rows" => q \in RowsRecord
         /\ q.phase \in Carded => q \in CardRecord
         /\ q.phase \in Decider => q \in AdmissionRecord
<1>1. /\ Idle.phase = "idle"
      /\ \A r \in RowsRecord : r.phase = "rows"
      /\ \A r \in CardRecord : r.phase \in Carded
      /\ \A r \in AdmissionRecord : r.phase \in Decider
  BY DEF Idle, RowsRecord, CardRecord, AdmissionRecord
<1>2. q = Idle \/ q \in RowsRecord \/ q \in CardRecord \/ q \in AdmissionRecord
  BY DEF ClientRecord
<1>3. QED
  BY <1>1, <1>2 DEF Carded, Decider

LEMMA DecidingPhase == \A c \in Client : Deciding(c) <=> client[c].phase \in Decider
  BY DEF Deciding, Decider

(***************************************************************************)
(* What a request holds depends on what is around it only.                 *)
(***************************************************************************)
LEMMA SameOutside ==
  ASSUME UNCHANGED outside, NEW q, Fits(q)
  PROVE  Fits(q)'
<1>1. UNCHANGED <<listed, lookup, grant, installation, operation, workload, seen>>
  BY DEF outside
<1>2. AdmissionFits(q) => AdmissionFits(q)'
  BY <1>1 DEF AdmissionFits
<1>3. RowsFit(q) => RowsFit(q)'
  BY <1>1 DEF RowsFit
<1>4. CardFits(q) => CardFits(q)'
  <2>1. \A v : ResolveHelm(v)' <=> ResolveHelm(v)
    BY <1>1 DEF ResolveHelm
  <2>2. \A v : PolicyOf(v)' = PolicyOf(v)
    BY <1>1, <2>1 DEF PolicyOf, MarketPolicy, LocalPolicy
  <2>3. QED
    BY <1>1, <2>1, <2>2 DEF CardFits, Bound, Target, Shown, Eligible
<1>5. CardSound(q) => CardSound(q)'
  BY DEF CardSound, Eligible, Target
<1>6. QED
  BY <1>2, <1>3, <1>4, <1>5 DEF Fits

(***************************************************************************)
(* A step of one request that changes nothing around it.                   *)
(***************************************************************************)
LEMMA RequestStep ==
  ASSUME AppCenterInv, UNCHANGED outside, NEW c \in Client, NEW q \in ClientRecord,
         client' = [client EXCEPT ![c] = q], Fits(q),
         q.phase \in Decider => Deciding(c) \/ \A d \in Client : ~Deciding(d)
  PROVE  AppCenterInv'
<1>1. UNCHANGED <<listed, lookup, grant, installation, operation, workload, seen>>
  BY DEF outside
<1>2. client \in [Client -> ClientRecord]
  BY DEF AppCenterInv, TypeOK
<1>3. client'[c] = q /\ \A d \in Client : d # c => client'[d] = client[d]
  BY <1>2
<1>4. TypeOK'
  BY <1>1, <1>2 DEF AppCenterInv, TypeOK
<1>5. Alone'
  <2>1. \A d \in Client : Deciding(d)' <=> client'[d].phase \in Decider
    BY DEF Deciding, Decider
  <2>2. \A d \in Client : d # c => (Deciding(d)' <=> Deciding(d))
    BY <1>3, <2>1, DecidingPhase
  <2>3. Deciding(c)' => Deciding(c) \/ \A d \in Client : ~Deciding(d)
    BY <1>3, <2>1
  <2>4. QED
    BY <2>2, <2>3 DEF AppCenterInv, Alone
<1>6. \A d \in Client : Fits(client[d])'
  <2>1. Fits(q)'
    BY SameOutside
  <2>2. ASSUME NEW d \in Client PROVE Fits(client'[d])
    <3>1. PICK e : e = client'[d]
      OBVIOUS
    <3>2. Fits(e)
      BY <1>3, <3>1 DEF AppCenterInv
    <3>3. QED
      BY <3>1, <3>2
  <2>3. ASSUME NEW d \in Client PROVE Fits(client[d])'
    <3>1. PICK e : e = client'[d]
      OBVIOUS
    <3>2. Fits(e)'
      BY <2>2, <3>1, SameOutside
    <3>3. QED
      BY <3>1, <3>2
  <2>4. QED
    BY <2>3
<1>7. UpgradeRises' /\ GrantIsFresh'
  BY <1>1 DEF AppCenterInv, UpgradeRises, GrantIsFresh, ByAppCenter
<1>8. QED
  BY <1>4, <1>5, <1>6, <1>7 DEF AppCenterInv

-----------------------------------------------------------------------------
(***************************************************************************)
(* What changes around the requests disturbs every one that reads, and     *)
(* tells those being admitted of the grants.                               *)
(***************************************************************************)
LEMMA DisturbedClients ==
  ASSUME TypeOK, NEW g \in SUBSET Version, Disturbed(g), NEW c \in Client
  PROVE  /\ client'[c] \in ClientRecord /\ client'[c].phase = client[c].phase
         /\ client[c].phase \in {"rows"} \cup Carded => ~client'[c].quiet
         /\ client[c].phase \in Carded => client'[c] = [client[c] EXCEPT !.quiet = FALSE]
         /\ client[c].phase \in Decider =>
              /\ client'[c].action = client[c].action /\ client'[c].version = client[c].version
              /\ client'[c].market = client[c].market
              /\ client'[c].grants = client[c].grants \cup g
<1>1. client[c] \in ClientRecord
  BY DEF TypeOK
<1>2. client'[c] = CASE Deciding(c) -> [client[c] EXCEPT !.grants = @ \cup g]
                     [] client[c].phase \in Reading -> [client[c] EXCEPT !.quiet = FALSE]
                     [] OTHER -> client[c]
  BY DEF Disturbed
<1>3. CASE client[c].phase \in Decider
  <2>1. client'[c] = [client[c] EXCEPT !.grants = @ \cup g] /\ client[c] \in AdmissionRecord
    BY <1>1, <1>2, <1>3, RecordOfPhase DEF Decider, Reading, Deciding
  <2>2. client'[c] \in AdmissionRecord
    BY <2>1 DEF AdmissionRecord
  <2>3. QED
    BY <1>3, <2>1, <2>2 DEF AdmissionRecord, ClientRecord, Decider, Carded
<1>4. CASE client[c].phase \in {"rows"} \cup Carded
  <2>1. /\ client'[c] = [client[c] EXCEPT !.quiet = FALSE]
        /\ client[c] \in RowsRecord \/ client[c] \in CardRecord
    BY <1>1, <1>2, <1>4, RecordOfPhase DEF Decider, Reading, Deciding, Carded
  <2>2. CASE client[c] \in RowsRecord
    <3>1. client'[c] \in RowsRecord
      BY <2>1, <2>2 DEF RowsRecord
    <3>2. QED
      BY <1>4, <2>1, <2>2, <3>1 DEF RowsRecord, ClientRecord, Decider, Carded
  <2>3. CASE client[c] \in CardRecord
    <3>1. client'[c] \in CardRecord
      BY <2>1, <2>3 DEF CardRecord
    <3>2. QED
      BY <1>4, <2>1, <2>3, <3>1 DEF CardRecord, ClientRecord, Decider, Carded
  <2>4. QED
    BY <2>1, <2>2, <2>3
<1>5. CASE client[c].phase = "idle"
  BY <1>1, <1>2, <1>5 DEF Deciding, Reading, Carded, Decider
<1>6. QED
  BY <1>1, <1>3, <1>4, <1>5, RecordOfPhase

LEMMA DisturbedKeeps ==
  ASSUME AppCenterInv, NEW g \in SUBSET Version, Disturbed(g),
         /\ listed' \in Version \cup {None} /\ lookup' \subseteq Version
         /\ grant' \subseteq Version /\ grant' \subseteq grant \cup g
         /\ installation' \in Row \cup {None} /\ operation' \in Operation \cup {None}
         /\ workload' \in View /\ seen' \in View \cup {None}
         /\ operation' # None /\ operation'.bound => installation' \in Row,
         installation' = installation \/ \A c \in Client : ~Deciding(c),
         UpgradeRises', GrantIsFresh'
  PROVE  AppCenterInv'
<1>1. TypeOK /\ \A c \in Client : Fits(client[c])
  BY DEF AppCenterInv
<1>2. \A c \in Client :
         /\ client'[c] \in ClientRecord /\ client'[c].phase = client[c].phase
         /\ client[c].phase \in {"rows"} \cup Carded => ~client'[c].quiet
         /\ client[c].phase \in Carded => client'[c] = [client[c] EXCEPT !.quiet = FALSE]
         /\ client[c].phase \in Decider =>
              /\ client'[c].action = client[c].action /\ client'[c].version = client[c].version
              /\ client'[c].market = client[c].market
              /\ client'[c].grants = client[c].grants \cup g
  BY <1>1, DisturbedClients
<1>3. client' \in [Client -> ClientRecord]
  <2>1. client' = [c \in Client |-> client'[c]]
    BY DEF Disturbed
  <2>2. QED
    BY <1>2, <2>1
<1>4. TypeOK'
  BY <1>3 DEF TypeOK
<1>5. Alone'
  BY <1>2 DEF AppCenterInv, Alone, Deciding
<1>6. ASSUME NEW c \in Client PROVE Fits(client[c])'
  <2>1. CASE client[c].phase \in Decider
    <3>1. /\ AdmissionFits(client[c]) /\ client[c] \in AdmissionRecord
          /\ installation' = installation
      BY <1>1, <2>1, RecordOfPhase, DecidingPhase DEF Fits, TypeOK
    <3>2. AdmissionFits(client[c])'
      BY <1>2, <2>1, <3>1 DEF AdmissionFits
    <3>3. QED
      BY <1>2, <2>1, <3>2 DEF Fits, Decider, Carded
  <2>2. CASE client[c].phase \notin Decider
    <3>1. client[c].phase \in Carded => client[c] \in CardRecord /\ CardSound(client[c])
      BY <1>1, RecordOfPhase DEF Fits, TypeOK
    <3>2. client[c].phase \in Carded => CardSound(client[c])'
      BY <1>2, <3>1 DEF CardSound, CardRecord
    <3>3. QED
      BY <1>2, <2>2, <3>2 DEF Fits, Carded
  <2>3. QED
    BY <2>1, <2>2
<1>7. QED
  BY <1>4, <1>5, <1>6 DEF AppCenterInv

LEMMA AroundKeeps ==
  ASSUME AppCenterInv,
         \/ \E v \in Version \cup {None} : Relist(v)
         \/ \E v \in Version : Learn(v)
         \/ \E g \in {{}, Version} : Regrant(g)
         \/ \E w \in [state : {"running", "stopped"}, uid : Uid] : Switch(w)
         \/ Observe \/ Stale
  PROVE  AppCenterInv'
<1>1. TypeOK /\ UpgradeRises /\ GrantIsFresh
  BY DEF AppCenterInv
<1>2. UNCHANGED <<installation, operation>>
  BY DEF Relist, Learn, Regrant, Switch, Observe, Stale
<1>3. UpgradeRises' /\ GrantIsFresh'
  BY <1>1, <1>2 DEF UpgradeRises, GrantIsFresh, ByAppCenter
<1>4. /\ listed' \in Version \cup {None} /\ lookup' \subseteq Version /\ grant' \subseteq Version
      /\ workload' \in View /\ seen' \in View \cup {None}
  BY <1>1 DEF TypeOK, View, Relist, Learn, Regrant, Switch, Observe, Stale
<1>5. \E g \in SUBSET Version : Disturbed(g) /\ grant' \subseteq grant \cup g
  BY DEF Relist, Learn, Regrant, Switch, Observe, Stale
<1>6. QED
  BY <1>1, <1>2, <1>3, <1>4, <1>5, DisturbedKeeps DEF TypeOK

(***************************************************************************)
(* The row an operation leaves, and the workload.                          *)
(***************************************************************************)
LEMMA RowChanges ==
  ASSUME NEW row \in Row
  PROVE  /\ [row EXCEPT !.revision = @ + 1] \in Row
         /\ [row EXCEPT !.revision = @ + 1, !.state = "failed"] \in Row
         /\ \A v \in Version :
              [row EXCEPT !.revision = @ + 1, !.version = v, !.state = "installed"] \in Row
<1>1. row.revision + 1 \in Nat
  BY DEF Row
<1>2. ASSUME NEW n \in Nat
      PROVE  [row EXCEPT !.revision = n] \in Row /\ [row EXCEPT !.revision = n, !.state = "failed"] \in Row
  BY <1>2, Zenon DEF Row
<1>3. ASSUME NEW n \in Nat, NEW v \in Version
      PROVE  [row EXCEPT !.revision = n, !.version = v, !.state = "installed"] \in Row
  BY <1>3, Zenon DEF Row
<1>4. QED
  BY <1>1, <1>2, <1>3

LEMMA ProgressTyped ==
  ASSUME NEW row \in Row, NEW o \in Operation, NEW result \in {"succeeded", "failed"}
  PROVE  recordInstallationProgress(row, o, result) \in Row \cup {None}
<1>1. o.version \in Version
  BY DEF Operation
<1>2. CASE result = "succeeded"
  BY <1>1, <1>2, RowChanges DEF recordInstallationProgress
<1>3. CASE result = "failed"
  BY <1>3, RowChanges DEF recordInstallationProgress
<1>4. QED
  BY <1>2, <1>3

LEMMA ExecutedTyped ==
  ASSUME NEW w \in View, NEW action, NEW u \in Uid
  PROVE  Executed(w, action, u) \in View
<1>1. /\ Absent \in View /\ w \in View /\ w.uid \in Uid \cup {None}
      /\ [w EXCEPT !.state = "stopped"] \in View
      /\ \A id \in Uid \cup {None} : [state |-> "running", uid |-> id] \in View
  BY DEF View, Absent
<1>2. QED
  BY <1>1 DEF Executed

LEMMA FinishKeeps ==
  ASSUME AppCenterInv, NEW u \in Uid, NEW result \in {"succeeded", "failed"}, Finish(u, result)
  PROVE  AppCenterInv'
<1>1. TypeOK
  BY DEF AppCenterInv
<1>2. /\ operation # None /\ operation' = None
      /\ Disturbed({}) /\ UNCHANGED <<listed, lookup, grant, seen>>
      /\ operation.bound => \A c \in Client : ~Deciding(c)
      /\ installation' = IF operation.bound
           THEN recordInstallationProgress(installation, operation, result) ELSE installation
      /\ workload' = workload \/ workload' = Executed(workload, operation.action, u)
  BY DEF Finish
<1>3. operation \in Operation /\ operation.bound \in BOOLEAN
  BY <1>1, <1>2 DEF TypeOK, Operation
<1>4. installation' \in Row \cup {None}
  BY <1>1, <1>2, <1>3, ProgressTyped DEF TypeOK
<1>5. workload' \in View
  BY <1>1, <1>2, ExecutedTyped DEF TypeOK
<1>6. installation' = installation \/ \A c \in Client : ~Deciding(c)
  BY <1>2
<1>7. UpgradeRises' /\ GrantIsFresh'
  BY <1>2 DEF UpgradeRises, GrantIsFresh, ByAppCenter
<1>8. {} \in SUBSET Version
  OBVIOUS
<1>9. QED
  BY <1>1, <1>2, <1>4, <1>5, <1>6, <1>7, <1>8, DisturbedKeeps DEF TypeOK

LEMMA SubmitKeeps ==
  ASSUME AppCenterInv, NEW command \in Plain, Submit(command[1], command[2])
  PROVE  AppCenterInv'
<1>1. TypeOK
  BY DEF AppCenterInv
<1>2. PICK org, action : org = command[1] /\ action = command[2]
  OBVIOUS
<1>3. org \in {"own", "other"} /\ action \in Action \cup {"adopt"}
  BY <1>2, AppCenterAssumption DEF Action
<1>4. PICK bound : bound = (installation # None \/ action \in {"install", "start", "adopt"})
  OBVIOUS
<1>5. /\ \A c \in Client : ~Deciding(c)
      /\ listed # None /\ Disturbed({}) /\ UNCHANGED <<listed, lookup, grant, workload, seen>>
      /\ operation' = [by |-> "plain", action |-> action, version |-> listed, bound |-> bound,
                       market |-> FALSE, grants |-> {}]
      /\ installation' =
           IF installation # None THEN [installation EXCEPT !.revision = @ + 1]
           ELSE IF bound
           THEN [owner |-> org, revision |-> 2, version |-> listed, state |-> "pending"]
           ELSE None
  BY <1>2, <1>4 DEF Submit
<1>6. listed \in Version /\ bound \in BOOLEAN
  BY <1>1, <1>4, <1>5 DEF TypeOK
<1>7. operation' \in Operation /\ operation'.by = "plain" /\ operation'.bound = bound
  BY <1>3, <1>5, <1>6 DEF Operation
<1>8. installation' \in Row \cup {None} /\ (bound => installation' \in Row)
  <2>1. [owner |-> org, revision |-> 2, version |-> listed, state |-> "pending"] \in Row
    BY <1>3, <1>6 DEF Row
  <2>2. installation # None => [installation EXCEPT !.revision = @ + 1] \in Row
    BY <1>1, RowChanges DEF TypeOK
  <2>3. QED
    BY <1>5, <2>1, <2>2
<1>9. UpgradeRises' /\ GrantIsFresh'
  BY <1>7 DEF UpgradeRises, GrantIsFresh, ByAppCenter
<1>10. {} \in SUBSET Version
  OBVIOUS
<1>11. QED
  BY <1>1, <1>5, <1>7, <1>8, <1>9, <1>10, DisturbedKeeps DEF TypeOK

-----------------------------------------------------------------------------
(***************************************************************************)
(* The card: what buildFacts puts on it is what its row, entry and         *)
(* observation allow.                                                      *)
(***************************************************************************)
LEMMA KindsEligible ==
  ASSUME NEW row \in Row \cup {None}, NEW entry \in Version \cup {None},
         NEW view \in View \cup {None}, NEW busy \in BOOLEAN
  PROVE  /\ Kinds(row, entry, view, busy) \in Seq(Action)
         /\ \A k \in 1..Len(Kinds(row, entry, view, busy)) :
              Eligible(row, entry, view, Kinds(row, entry, view, busy)[k])
<1> DEFINE upgrade == IF entry # None /\ entry > row.version THEN <<"upgrade">> ELSE <<>>
<1>1. /\ <<"start", "delete">> \in Seq(Action) /\ <<"stop", "restart", "delete">> \in Seq(Action)
      /\ <<"install">> \in Seq(Action) /\ <<"upgrade">> \in Seq(Action) /\ <<>> \in Seq(Action)
  <2>1. <<>> \in Seq(Action) /\ <<"upgrade">> \in Seq(Action) /\ <<"install">> \in Seq(Action)
    BY DEF Action
  <2>2. <<"start", "delete">> \in Seq(Action)
    BY DEF Action
  <2>3. <<"stop", "restart", "delete">> \in Seq(Action)
    BY DEF Action
  <2>4. QED
    BY <2>1, <2>2, <2>3
<1>2. ASSUME NEW s \in Seq(Action), \A k \in 1..Len(s) : Eligible(row, entry, view, s[k]),
             row # None, row.owner = "own", row.state = "installed", view \in View,
             view.state \in {"running", "stopped"}
      PROVE  /\ s \o upgrade \in Seq(Action)
             /\ \A k \in 1..Len(s \o upgrade) : Eligible(row, entry, view, (s \o upgrade)[k])
  <2>1. CASE entry # None /\ entry > row.version
    <3>1. upgrade = <<"upgrade">>
      BY <2>1
    <3>2. Eligible(row, entry, view, "upgrade")
      BY <1>2, <2>1 DEF Eligible, Action
    <3>3. QED
      BY <1>1, <1>2, <3>1, <3>2
  <2>2. CASE ~(entry # None /\ entry > row.version)
    <3>1. upgrade = <<>>
      BY <2>2
    <3>2. s \o <<>> = s
      BY <1>2
    <3>3. QED
      BY <1>2, <3>1, <3>2
  <2>3. QED
    BY <2>1, <2>2
<1>3. Foreign(row) \/ row = None \/ row.owner = "own"
  BY DEF Foreign
<1>4. CASE busy \/ Foreign(row) \/ view = None
  <2>1. Kinds(row, entry, view, busy) = <<>>
    BY <1>4 DEF Kinds
  <2>2. QED
    BY <1>1, <2>1
<1>5. CASE /\ ~(busy \/ Foreign(row) \/ view = None)
           /\ row # None /\ row.state = "installed" /\ view.state = "stopped"
  <2>1. Kinds(row, entry, view, busy) = <<"start", "delete">> \o upgrade
    BY <1>5 DEF Kinds
  <2>2. \A k \in 1..2 : Eligible(row, entry, view, <<"start", "delete">>[k])
    BY <1>3, <1>5 DEF Eligible, Action
  <2>3. QED
    BY <1>1, <1>2, <1>3, <1>5, <2>1, <2>2
<1>6. CASE /\ ~(busy \/ Foreign(row) \/ view = None)
           /\ row # None /\ row.state = "installed" /\ view.state = "running"
  <2>1. Kinds(row, entry, view, busy) = <<"stop", "restart", "delete">> \o upgrade
    BY <1>6 DEF Kinds
  <2>2. \A k \in 1..3 : Eligible(row, entry, view, <<"stop", "restart", "delete">>[k])
    BY <1>3, <1>6 DEF Eligible, Action
  <2>3. QED
    BY <1>1, <1>2, <1>3, <1>6, <2>1, <2>2
<1>7. CASE /\ ~(busy \/ Foreign(row) \/ view = None)
           /\ row = None /\ entry # None /\ view.state = "absent"
  <2>1. Kinds(row, entry, view, busy) = <<"install">>
    BY <1>7 DEF Kinds
  <2>2. Eligible(row, entry, view, "install")
    BY <1>7 DEF Eligible, Action
  <2>3. QED
    BY <1>1, <2>1, <2>2
<1>8. CASE /\ ~(busy \/ Foreign(row) \/ view = None)
           /\ ~(row # None /\ row.state = "installed" /\ view.state = "stopped")
           /\ ~(row # None /\ row.state = "installed" /\ view.state = "running")
           /\ ~(row = None /\ entry # None /\ view.state = "absent")
  <2>1. Kinds(row, entry, view, busy) = <<>>
    BY <1>8 DEF Kinds
  <2>2. QED
    BY <1>1, <2>1
<1>9. QED
  BY <1>4, <1>5, <1>6, <1>7, <1>8

LEMMA DropKeeps ==
  ASSUME AppCenterInv, NEW c \in Client, Drop(c)
  PROVE  AppCenterInv'
<1>1. Idle \in ClientRecord /\ Idle.phase = "idle"
  BY DEF Idle, ClientRecord
<1>2. Fits(Idle) /\ Idle.phase \notin Decider
  BY <1>1 DEF Fits, Decider, Carded
<1>3. UNCHANGED outside /\ client' = [client EXCEPT ![c] = Idle]
  BY DEF Drop
<1>4. QED
  BY <1>1, <1>2, <1>3, RequestStep

LEMMA ReadRowsKeeps ==
  ASSUME AppCenterInv, NEW c \in Client, ReadRows(c)
  PROVE  AppCenterInv'
<1> DEFINE q == [phase |-> "rows", quiet |-> TRUE, busy |-> operation # None, row |-> installation]
<1>1. TypeOK
  BY DEF AppCenterInv
<1>2. q \in RowsRecord
  BY <1>1 DEF TypeOK, RowsRecord
<1>3. q \in ClientRecord /\ Fits(q) /\ q.phase \notin Decider
  BY <1>2 DEF ClientRecord, Fits, RowsFit, Decider, Carded
<1>4. UNCHANGED outside /\ client' = [client EXCEPT ![c] = q]
  BY DEF ReadRows
<1>5. QED
  BY <1>3, <1>4, RequestStep

LEMMA ReadCatalogKeeps ==
  ASSUME AppCenterInv, NEW c \in Client, ReadCatalog(c)
  PROVE  AppCenterInv'
<1>1. TypeOK /\ client[c].phase = "rows"
  BY DEF AppCenterInv, ReadCatalog
<1>2. client[c] \in RowsRecord /\ Fits(client[c])
  BY <1>1, RecordOfPhase DEF AppCenterInv, TypeOK
<1>3. PICK kinds : kinds = Kinds(client[c].row, listed, seen, client[c].busy)
  OBVIOUS
<1>4. /\ kinds \in Seq(Action)
      /\ \A k \in 1..Len(kinds) : Eligible(client[c].row, listed, seen, kinds[k])
  <2>1. /\ client[c].row \in Row \cup {None} /\ listed \in Version \cup {None}
        /\ seen \in View \cup {None} /\ client[c].busy \in BOOLEAN
    BY <1>1, <1>2 DEF RowsRecord, TypeOK
  <2>2. QED
    BY <1>3, <2>1, KindsEligible
<1>5. PICK q : q = [phase |-> "facts", quiet |-> client[c].quiet, row |-> client[c].row,
                    entry |-> listed, view |-> seen, left |-> kinds, offers |-> {},
                    policy |-> None, found |-> None]
  OBVIOUS
<1>6. q \in CardRecord
  BY <1>1, <1>2, <1>4, <1>5 DEF RowsRecord, CardRecord, TypeOK, Carded
<1>7. CardSound(q)
  BY <1>4, <1>5 DEF CardSound
<1>8. q.quiet => CardFits(q)
  BY <1>1, <1>2, <1>5 DEF Fits, RowsFit, CardFits
<1>9. q \in ClientRecord /\ Fits(q) /\ q.phase \notin Decider
  BY <1>5, <1>6, <1>7, <1>8 DEF ClientRecord, Fits, Decider, Carded
<1>10. UNCHANGED outside /\ client' = [client EXCEPT ![c] = q]
  BY <1>3, <1>5 DEF ReadCatalog
<1>11. QED
  BY <1>9, <1>10, RequestStep

(***************************************************************************)
(* A step that goes on with a card of the same row, entry and observation. *)
(***************************************************************************)
LEMMA CardStep ==
  ASSUME AppCenterInv, NEW c \in Client, client[c].phase \in Carded, UNCHANGED outside,
         NEW q \in CardRecord, client' = [client EXCEPT ![c] = q],
         CardSound(q), q.quiet => CardFits(q)
  PROVE  AppCenterInv'
<1>1. q.phase \in Carded
  BY DEF CardRecord
<1>2. q \in ClientRecord /\ Fits(q) /\ q.phase \notin Decider
  BY <1>1 DEF ClientRecord, Fits, Decider, Carded
<1>3. QED
  BY <1>2, RequestStep

LEMMA OfferedKeeps ==
  ASSUME AppCenterInv, NEW c \in Client, Offered(c)
  PROVE  AppCenterInv'
<1>1. TypeOK /\ client[c].phase = "facts" /\ Fits(client[c])
  BY DEF AppCenterInv, Offered
<1>2. client[c] \in CardRecord /\ CardSound(client[c]) /\ (client[c].quiet => CardFits(client[c]))
  BY <1>1, RecordOfPhase DEF TypeOK, Carded, Fits
<1>3. PICK q : q = [client[c] EXCEPT !.phase = "offered"]
  OBVIOUS
<1>4. q \in CardRecord
  BY <1>2, <1>3 DEF CardRecord, Carded
<1>5. CardSound(q)
  BY <1>2, <1>3 DEF CardSound, CardRecord
<1>6. q.quiet => CardFits(q)
  BY <1>2, <1>3 DEF CardFits, CardRecord
<1>7. UNCHANGED outside /\ client' = [client EXCEPT ![c] = q]
  BY <1>3 DEF Offered
<1>8. QED
  BY <1>1, <1>4, <1>5, <1>6, <1>7, CardStep DEF Carded

LEMMA ProjectResolveKeeps ==
  ASSUME AppCenterInv, NEW c \in Client, ProjectResolve(c)
  PROVE  AppCenterInv'
<1>1. TypeOK /\ client[c].phase = "facts" /\ client[c].left # <<>> /\ Fits(client[c])
  BY DEF AppCenterInv, ProjectResolve
<1>2. client[c] \in CardRecord /\ CardSound(client[c]) /\ (client[c].quiet => CardFits(client[c]))
  BY <1>1, RecordOfPhase DEF TypeOK, Carded, Fits
<1>3. PICK action, version :
        action = Head(client[c].left) /\ version = Target(action, client[c].row, client[c].entry)
  OBVIOUS
<1>4. PICK found :
        found = CASE Bound(action, version, client[c].row, listed) /\ ResolveHelm(version) -> "market"
                  [] /\ Bound(action, version, client[c].row, listed) /\ ~ResolveHelm(version)
                     /\ Permitted(action, version) -> "registry"
                  [] OTHER -> "none"
  OBVIOUS
<1>5. /\ found \in {"market", "registry", "none"}
      /\ found \in {"market", "registry"} => Bound(action, version, client[c].row, listed)
      /\ found = "market" => ResolveHelm(version)
      /\ found = "registry" => ~ResolveHelm(version) /\ Permitted(action, version)
  BY <1>4
<1>6. PICK q : q = [client[c] EXCEPT !.phase = "projecting", !.found = found]
  OBVIOUS
<1>7. q \in CardRecord
  BY <1>2, <1>5, <1>6 DEF CardRecord, Carded
<1>8. /\ q.phase = "projecting" /\ q.found = found /\ q.left = client[c].left
      /\ q.row = client[c].row /\ q.entry = client[c].entry /\ q.view = client[c].view
      /\ q.quiet = client[c].quiet /\ q.offers = client[c].offers /\ q.policy = client[c].policy
  BY <1>2, <1>6 DEF CardRecord
<1>9. CardSound(q)
  BY <1>1, <1>2, <1>3, <1>5, <1>8 DEF CardSound, Permitted
<1>10. q.quiet => CardFits(q)
  BY <1>2, <1>3, <1>5, <1>8 DEF CardFits
<1>11. client' = [client EXCEPT ![c] = q]
  BY <1>3, <1>4, <1>6 DEF ProjectResolve
<1>12. UNCHANGED outside
  BY DEF ProjectResolve
<1>13. QED
  BY <1>1, <1>7, <1>9, <1>10, <1>11, <1>12, CardStep DEF Carded

(***************************************************************************)
(* The candidates of one card are all installs or none is.                 *)
(***************************************************************************)
LEMMA ShownAlike ==
  ASSUME NEW row, NEW entry, NEW view, NEW a, NEW b,
         Eligible(row, entry, view, a), Eligible(row, entry, view, b), Shown(entry, view, a)
  PROVE  Shown(entry, view, b)
  BY DEF Eligible, Shown

LEMMA TargetTyped ==
  ASSUME NEW row \in Row \cup {None}, NEW entry \in Version \cup {None}, NEW view, NEW action,
         Eligible(row, entry, view, action)
  PROVE  Target(action, row, entry) \in Version
<1>1. CASE action \in {"install", "upgrade"}
  BY <1>1 DEF Target, Eligible
<1>2. CASE action \notin {"install", "upgrade"}
  BY <1>2 DEF Target, Eligible, Row
<1>3. QED
  BY <1>1, <1>2

LEMMA PolicyTyped ==
  /\ \A version \in Version, row \in Row \cup {None}, entry \in Version \cup {None} :
       MarketPolicy(version, row, entry) \in Token
  /\ \A version \in DOMAIN Policy : LocalPolicy(version) \in Token
<1>1. ASSUME NEW version \in Version, NEW row \in Row \cup {None}, NEW entry \in Version \cup {None}
      PROVE  MarketPolicy(version, row, entry) \in Token
  <2>1. PICK v \in Version \cup {None}, w \in Version \cup {None} :
          /\ v = (IF entry = None THEN version ELSE entry)
          /\ w = (IF row = None THEN None ELSE row.version)
    BY DEF Row
  <2>2. MarketPolicy(version, row, entry) = <<"market", v, w>>
    BY <2>1 DEF MarketPolicy
  <2>3. QED
    BY <2>2 DEF Token
<1>2. \A version \in DOMAIN Policy : LocalPolicy(version) \in Token
  BY DEF LocalPolicy, Token
<1>3. QED
  BY <1>1, <1>2

LEMMA projectCandidateKeeps ==
  ASSUME AppCenterInv, NEW c \in Client, projectCandidate(c)
  PROVE  AppCenterInv'
<1>1. TypeOK /\ client[c].phase = "projecting" /\ Fits(client[c])
  BY DEF AppCenterInv, projectCandidate
<1>2. PICK q : q = client[c]
  OBVIOUS
<1>3. q \in CardRecord /\ CardSound(q) /\ (q.quiet => CardFits(q))
  BY <1>1, <1>2, RecordOfPhase DEF TypeOK, Carded, Fits
<1>4. PICK action, version :
        action = Head(q.left) /\ version = Target(action, q.row, q.entry)
  OBVIOUS
<1>5. /\ q.left \in Seq(Action) /\ q.left # <<>> /\ q.found \in {"market", "registry", "none"}
      /\ q.found = "registry" => version \in DOMAIN Policy
      /\ q.row \in Row \cup {None} /\ q.entry \in Version \cup {None}
      /\ q.offers \in SUBSET Offer /\ q.policy \in Token \cup {None}
      /\ \A k \in 1..Len(q.left) : Eligible(q.row, q.entry, q.view, q.left[k])
  BY <1>1, <1>2, <1>3, <1>4 DEF CardSound, CardRecord
<1>6. Eligible(q.row, q.entry, q.view, action)
  BY <1>4, <1>5
<1>7. version \in Version /\ action \in Action
  BY <1>4, <1>5, <1>6, TargetTyped DEF Eligible
<1>8. PICK left, offers, policy :
        /\ left = Tail(q.left)
        /\ offers = IF q.found # "none" /\ Shown(q.entry, q.view, action)
                    THEN q.offers \cup {[action |-> action, version |-> version]} ELSE q.offers
        /\ policy = CASE q.found = "market" -> MarketPolicy(version, q.row, listed)
                      [] q.found = "registry" -> LocalPolicy(version)
                      [] OTHER -> q.policy
  OBVIOUS
<1>9. left \in Seq(Action) /\ \A k \in 1..Len(left) : Eligible(q.row, q.entry, q.view, left[k])
  BY <1>5, <1>8
<1>10. offers \in SUBSET Offer
  BY <1>5, <1>7, <1>8 DEF Offer
<1>11. policy \in Token \cup {None}
  BY <1>1, <1>5, <1>7, <1>8, PolicyTyped DEF TypeOK
<1>12. PICK r : r = [q EXCEPT !.phase = "facts", !.left = left, !.offers = offers, !.policy = policy]
  OBVIOUS
<1>13. /\ r.phase = "facts" /\ r.left = left /\ r.offers = offers /\ r.policy = policy
       /\ r.row = q.row /\ r.entry = q.entry /\ r.view = q.view /\ r.quiet = q.quiet
       /\ r \in CardRecord
  BY <1>3, <1>9, <1>10, <1>11, <1>12 DEF CardRecord, Carded
<1>14. CardSound(r)
  BY <1>9, <1>13 DEF CardSound
<1>15. ASSUME q.quiet PROVE CardFits(r)
  <2>1. /\ CardFits(q) /\ q.phase = "projecting"
        /\ q.row = installation /\ q.entry = listed
    BY <1>1, <1>2, <1>3, <1>15 DEF CardFits
  <2>2. /\ q.found \in {"market", "registry"} => Bound(action, version, installation, listed)
        /\ q.found = "market" => ResolveHelm(version)
        /\ q.found = "registry" => ~ResolveHelm(version)
    BY <1>4, <2>1 DEF CardFits
  <2>3. \A o \in q.offers :
          /\ Eligible(q.row, q.entry, q.view, o.action) /\ Shown(q.entry, q.view, o.action)
          /\ o.version = Target(o.action, q.row, q.entry)
          /\ Bound(o.action, o.version, installation, listed)
    BY <2>1 DEF CardFits
  <2>4. q.found # "none" => policy = PolicyOf(version)
    BY <1>5, <1>8, <2>1, <2>2 DEF PolicyOf
  <2>5. CASE q.found # "none" /\ Shown(q.entry, q.view, action)
    <3>1. offers = q.offers \cup {[action |-> action, version |-> version]}
      BY <1>8, <2>5
    <3>2. \A o \in offers :
            /\ Eligible(q.row, q.entry, q.view, o.action) /\ Shown(q.entry, q.view, o.action)
            /\ o.version = Target(o.action, q.row, q.entry)
            /\ Bound(o.action, o.version, installation, listed)
      BY <1>4, <1>5, <1>6, <2>2, <2>3, <2>5, <3>1
    <3>3. \E o \in offers : policy = PolicyOf(o.version)
      <4>1. PICK o \in offers : o = [action |-> action, version |-> version]
        BY <3>1
      <4>2. PolicyOf(o.version) = PolicyOf(version)
        BY <4>1
      <4>3. QED
        BY <2>4, <2>5, <4>2
    <3>4. QED
      BY <1>13, <2>1, <3>2, <3>3 DEF CardFits
  <2>6. CASE ~(q.found # "none" /\ Shown(q.entry, q.view, action))
    <3>1. offers = q.offers
      BY <1>8, <2>6
    <3>2. q.offers # {} => q.found = "none"
      BY <1>6, <2>3, <2>6, ShownAlike
    <3>3. q.offers # {} => policy = q.policy
      BY <1>8, <3>2
    <3>4. QED
      BY <1>13, <2>1, <2>3, <3>1, <3>3 DEF CardFits
  <2>7. QED
    BY <2>5, <2>6
<1>16. client' = [client EXCEPT ![c] = r]
  BY <1>2, <1>4, <1>8, <1>12 DEF projectCandidate, Shown
<1>17. UNCHANGED outside
  BY DEF projectCandidate
<1>18. QED
  BY <1>1, <1>13, <1>14, <1>15, <1>16, <1>17, CardStep DEF Carded

-----------------------------------------------------------------------------
(***************************************************************************)
(* The admission.                                                          *)
(***************************************************************************)
LEMMA EnterKeeps ==
  ASSUME AppCenterInv, NEW c \in Client, NEW action \in Action, NEW version \in Version,
         Enter(c, action, version)
  PROVE  AppCenterInv'
<1>1. /\ TypeOK /\ client[c].phase = "offered" /\ UNCHANGED outside
      /\ \A d \in Client : ~Deciding(d)
  BY DEF AppCenterInv, Enter
<1>2. client[c] \in CardRecord
  BY <1>1, RecordOfPhase DEF TypeOK, Carded
<1>3. CASE /\ validateAppCenterInstallation(action, version, client[c].row)
           /\ Bound(action, version, installation, listed)
  <2>1. PICK uid : uid = IF action = "install" \/ client[c].view = None THEN None
                         ELSE client[c].view.uid
    OBVIOUS
  <2>2. PICK q : q = [phase |-> "entered", action |-> action, version |-> version,
                      policy |-> client[c].policy, revised |-> None, uid |-> uid,
                      market |-> FALSE, grants |-> grant]
    OBVIOUS
  <2>3. client' = [client EXCEPT ![c] = q]
    BY <1>3, <2>1, <2>2 DEF Enter
  <2>4. uid \in Uid \cup {None}
    BY <1>2, <2>1 DEF CardRecord, View
  <2>5. q \in AdmissionRecord
    BY <1>1, <1>2, <2>2, <2>4 DEF AdmissionRecord, CardRecord, TypeOK, Decider
  <2>6. action = "upgrade" => installation # None /\ version > installation.version
    BY <1>1, <1>3 DEF Bound, TypeOK
  <2>7. AdmissionFits(q)
    BY <2>2, <2>6 DEF AdmissionFits
  <2>8. q \in ClientRecord /\ Fits(q)
    BY <2>2, <2>5, <2>7 DEF ClientRecord, Fits, Carded
  <2>9. QED
    BY <1>1, <2>3, <2>8, RequestStep
<1>4. CASE ~(/\ validateAppCenterInstallation(action, version, client[c].row)
             /\ Bound(action, version, installation, listed))
  <2>1. Drop(c)
    BY <1>4 DEF Enter, Drop
  <2>2. QED
    BY <2>1, DropKeeps
<1>5. QED
  BY <1>3, <1>4

LEMMA AdmissionStep ==
  ASSUME AppCenterInv, NEW c \in Client, client[c].phase \in Decider, UNCHANGED outside,
         NEW q \in AdmissionRecord, client' = [client EXCEPT ![c] = q], AdmissionFits(q)
  PROVE  AppCenterInv'
<1>1. q.phase \in Decider
  BY DEF AdmissionRecord
<1>2. q \in ClientRecord /\ Fits(q) /\ Deciding(c)
  BY <1>1, DecidingPhase DEF ClientRecord, Fits, Decider, Carded
<1>3. QED
  BY <1>2, RequestStep

LEMMA AdmittedRecord ==
  ASSUME AppCenterInv, NEW c \in Client, client[c].phase \in Decider
  PROVE  TypeOK /\ client[c] \in AdmissionRecord /\ AdmissionFits(client[c])
  BY RecordOfPhase DEF AppCenterInv, TypeOK, Fits

LEMMA ResolveKeeps ==
  ASSUME AppCenterInv, NEW c \in Client, Resolve(c)
  PROVE  AppCenterInv'
<1>1. client[c].phase = "entered" /\ client[c].phase \in Decider
  BY DEF Resolve, Decider
<1>2. TypeOK /\ client[c] \in AdmissionRecord /\ AdmissionFits(client[c])
  BY <1>1, AdmittedRecord
<1>3. CASE ResolveHelm(client[c].version)
  <2>1. PICK q : q = [client[c] EXCEPT !.phase = "resolved", !.market = TRUE]
    OBVIOUS
  <2>2. client' = [client EXCEPT ![c] = q] /\ UNCHANGED outside
    BY <1>3, <2>1 DEF Resolve
  <2>3. q \in AdmissionRecord
    BY <1>2, <2>1 DEF AdmissionRecord, Decider
  <2>4. AdmissionFits(q)
    BY <1>2, <2>1 DEF AdmissionFits, AdmissionRecord
  <2>5. QED
    BY <1>1, <2>2, <2>3, <2>4, AdmissionStep
<1>4. CASE ~ResolveHelm(client[c].version) /\ Permitted(client[c].action, client[c].version)
  <2>1. PICK token : token = LocalPolicy(client[c].version)
    OBVIOUS
  <2>2. token \in Token
    BY <1>4, <2>1, PolicyTyped DEF Permitted
  <2>3. PICK q : q = [client[c] EXCEPT !.phase = "granted", !.revised = token]
    OBVIOUS
  <2>4. client' = [client EXCEPT ![c] = q] /\ UNCHANGED outside
    BY <1>4, <2>1, <2>3 DEF Resolve
  <2>5. q \in AdmissionRecord
    BY <1>2, <2>2, <2>3 DEF AdmissionRecord, Decider
  <2>6. AdmissionFits(q)
    BY <1>1, <1>2, <2>3 DEF AdmissionFits, AdmissionRecord
  <2>7. QED
    BY <1>1, <2>4, <2>5, <2>6, AdmissionStep
<1>5. CASE ~ResolveHelm(client[c].version) /\ ~Permitted(client[c].action, client[c].version)
  <2>1. Drop(c)
    BY <1>5 DEF Resolve
  <2>2. QED
    BY <2>1, DropKeeps
<1>6. QED
  BY <1>3, <1>4, <1>5

LEMMA ReviseKeeps ==
  ASSUME AppCenterInv, NEW c \in Client, Revise(c)
  PROVE  AppCenterInv'
<1>1. client[c].phase = "resolved" /\ client[c].phase \in Decider
  BY DEF Revise, Decider
<1>2. TypeOK /\ client[c] \in AdmissionRecord /\ AdmissionFits(client[c])
  BY <1>1, AdmittedRecord
<1>3. PICK token : token = MarketPolicy(client[c].version, installation, listed)
  OBVIOUS
<1>4. token \in Token
  BY <1>2, <1>3, PolicyTyped DEF TypeOK, AdmissionRecord
<1>5. PICK q : q = [client[c] EXCEPT !.phase = "revised", !.revised = token]
  OBVIOUS
<1>6. client' = [client EXCEPT ![c] = q] /\ UNCHANGED outside
  BY <1>3, <1>5 DEF Revise
<1>7. q \in AdmissionRecord
  BY <1>2, <1>4, <1>5 DEF AdmissionRecord, Decider
<1>8. AdmissionFits(q)
  BY <1>2, <1>5 DEF AdmissionFits, AdmissionRecord
<1>9. QED
  BY <1>1, <1>6, <1>7, <1>8, AdmissionStep

LEMMA CheckInstallGrantKeeps ==
  ASSUME AppCenterInv, NEW c \in Client, CheckInstallGrant(c)
  PROVE  AppCenterInv'
<1>1. client[c].phase = "revised" /\ client[c].phase \in Decider
  BY DEF CheckInstallGrant, Decider
<1>2. TypeOK /\ client[c] \in AdmissionRecord /\ AdmissionFits(client[c])
  BY <1>1, AdmittedRecord
<1>3. CASE client[c].action \notin {"install", "upgrade"} \/ client[c].version \in grant
  <2>1. PICK q : q = [client[c] EXCEPT !.phase = "granted"]
    OBVIOUS
  <2>2. client' = [client EXCEPT ![c] = q] /\ UNCHANGED outside
    BY <1>3, <2>1 DEF CheckInstallGrant
  <2>3. q \in AdmissionRecord
    BY <1>2, <2>1 DEF AdmissionRecord, Decider
  <2>4. AdmissionFits(q)
    BY <1>2, <1>3, <2>1 DEF AdmissionFits, AdmissionRecord
  <2>5. QED
    BY <1>1, <2>2, <2>3, <2>4, AdmissionStep
<1>4. CASE ~(client[c].action \notin {"install", "upgrade"} \/ client[c].version \in grant)
  <2>1. Drop(c)
    BY <1>4 DEF CheckInstallGrant
  <2>2. QED
    BY <2>1, DropKeeps
<1>5. QED
  BY <1>3, <1>4

(***************************************************************************)
(* A request that reads while something is committed is no longer quiet.   *)
(***************************************************************************)
LEMMA QuietEnds ==
  ASSUME NEW r \in ClientRecord, r.phase \in Reading, Fits(r), NEW s,
         s = [r EXCEPT !.quiet = FALSE]
  PROVE  s \in ClientRecord /\ s.phase \notin Decider /\ Fits(s)'
<1>1. r \in RowsRecord \/ (r \in CardRecord /\ CardSound(r))
  BY RecordOfPhase DEF Reading, Carded, Fits
<1>2. CASE r \in RowsRecord
  <2>1. s \in RowsRecord /\ s.phase = "rows" /\ ~s.quiet
    BY <1>2 DEF RowsRecord
  <2>2. QED
    BY <2>1 DEF ClientRecord, Fits, Decider, Carded
<1>3. CASE r \in CardRecord /\ CardSound(r)
  <2>1. s \in CardRecord /\ s.phase \in Carded /\ ~s.quiet
    BY <1>3 DEF CardRecord, Carded
  <2>2. CardSound(s)
    BY <1>3 DEF CardSound, CardRecord
  <2>3. CardSound(s)'
    BY <2>2 DEF CardSound, Eligible, Target
  <2>4. QED
    BY <2>1, <2>3 DEF ClientRecord, Fits, Decider, Carded
<1>4. QED
  BY <1>1, <1>2, <1>3

LEMMA AdmitKeeps ==
  ASSUME AppCenterInv, NEW c \in Client, Admit(c)
  PROVE  AppCenterInv'
<1>1. client[c].phase = "granted" /\ client[c].phase \in Decider
  BY DEF Admit, Decider
<1>2. TypeOK /\ client[c] \in AdmissionRecord /\ AdmissionFits(client[c])
  BY <1>1, AdmittedRecord
<1>3. CASE ~(/\ Inspected(client[c].action, workload) /\ validateAppCenterExecution(client[c])
             /\ operation = None)
  <2>1. Drop(c)
    BY <1>3 DEF Admit
  <2>2. QED
    BY <2>1, DropKeeps
<1>4. CASE /\ Inspected(client[c].action, workload) /\ validateAppCenterExecution(client[c])
           /\ operation = None
  <2>1. /\ operation' = [by |-> "appcenter", action |-> client[c].action,
                         version |-> client[c].version, bound |-> TRUE,
                         market |-> client[c].market, grants |-> client[c].grants]
        /\ installation' = IF installation = None
             THEN [owner |-> "own", revision |-> 2, version |-> client[c].version,
                   state |-> "pending"]
             ELSE [installation EXCEPT !.revision = @ + 1]
        /\ client' = [d \in Client |->
             IF d = c THEN Idle
             ELSE IF client[d].phase \in Reading
             THEN [client[d] EXCEPT !.quiet = FALSE] ELSE client[d]]
        /\ UNCHANGED <<listed, lookup, grant, workload, seen>>
    BY <1>4 DEF Admit
  <2>2. operation' \in Operation
    BY <1>2, <2>1 DEF Operation, AdmissionRecord
  <2>3. /\ installation' \in Row
        /\ installation # None => installation'.version = installation.version
    <3>1. CASE installation = None
      <4>1. installation' = [owner |-> "own", revision |-> 2, version |-> client[c].version,
                             state |-> "pending"]
        BY <2>1, <3>1
      <4>2. client[c].version \in Version
        BY <1>2 DEF AdmissionRecord
      <4>3. installation' \in Row
        BY <4>1, <4>2 DEF Row
      <4>4. QED
        BY <4>3, <3>1, <2>1
    <3>2. CASE installation # None
      <4>1. installation \in Row /\ installation' = [installation EXCEPT !.revision = @ + 1]
        BY <1>2, <2>1, <3>2 DEF TypeOK
      <4>2. QED
        BY <4>1 DEF Row
    <3>3. QED
      BY <3>1, <3>2
  <2>4. ASSUME NEW d \in Client
        PROVE  client'[d] \in ClientRecord /\ client'[d].phase \notin Decider /\ Fits(client[d])'
    <3>1. CASE d = c
      <4>1. client'[d] = Idle /\ Idle \in ClientRecord /\ Idle.phase = "idle"
        BY <2>1, <3>1 DEF Idle, ClientRecord
      <4>2. QED
        BY <4>1 DEF Fits, Decider, Carded
    <3>2. CASE d # c /\ client[d].phase \in Reading
      <4>1. PICK s : s = [client[d] EXCEPT !.quiet = FALSE]
        OBVIOUS
      <4>2. client[d] \in ClientRecord /\ Fits(client[d]) /\ client'[d] = s
        BY <1>2, <2>1, <3>2, <4>1 DEF TypeOK, AppCenterInv
      <4>3. PICK r : r = client[d]
        OBVIOUS
      <4>4. s \in ClientRecord /\ s.phase \notin Decider /\ Fits(s)'
        BY <3>2, <4>1, <4>2, <4>3, QuietEnds
      <4>5. QED
        BY <4>2, <4>4
    <3>3. CASE d # c /\ client[d].phase \notin Reading
      <4>1. client'[d] = client[d] /\ client[d] \in ClientRecord
        BY <1>2, <2>1, <3>3 DEF TypeOK
      <4>2. client[d].phase \notin Decider
        BY <1>1, <3>3, DecidingPhase DEF AppCenterInv, Alone
      <4>3. client[d].phase = "idle"
        BY <3>3, <4>1, <4>2, RecordOfPhase DEF Reading, Carded
      <4>4. QED
        BY <4>1, <4>3 DEF Fits, Decider, Carded
    <3>4. QED
      BY <3>1, <3>2, <3>3
  <2>5. client' \in [Client -> ClientRecord]
    <3>1. client' = [d \in Client |-> client'[d]]
      BY <2>1
    <3>2. QED
      BY <2>4, <3>1
  <2>6. TypeOK'
    BY <1>2, <2>1, <2>2, <2>3, <2>5 DEF TypeOK
  <2>7. Alone'
    BY <2>4 DEF Alone, Deciding, Decider
  <2>8. UpgradeRises'
    BY <1>2, <2>1, <2>3 DEF UpgradeRises, ByAppCenter, AdmissionFits
  <2>9. GrantIsFresh'
    BY <1>1, <1>2, <2>1 DEF GrantIsFresh, ByAppCenter, AdmissionFits
  <2>10. QED
    BY <2>4, <2>6, <2>7, <2>8, <2>9 DEF AppCenterInv
<1>5. QED
  BY <1>3, <1>4

-----------------------------------------------------------------------------
LEMMA InitHolds == ASSUME Init PROVE AppCenterInv
<1>1. /\ listed \in Version /\ lookup = {listed} /\ grant \in {{}, Version}
      /\ operation = None /\ seen = None /\ client = [c \in Client |-> Idle]
  BY DEF Init, Start
<1>2. installation \in Row \cup {None} /\ workload \in View
  BY DEF Init, Start, Row, View, Absent
<1>3. Idle \in ClientRecord /\ Idle.phase = "idle"
  BY DEF ClientRecord, Idle
<1>4. TypeOK
  BY <1>1, <1>2, <1>3 DEF TypeOK
<1>5. Alone /\ \A c \in Client : Fits(client[c])
  BY <1>1, <1>3 DEF Alone, Deciding, Fits, Decider, Carded
<1>6. QED
  BY <1>1, <1>4, <1>5 DEF AppCenterInv, UpgradeRises, GrantIsFresh, ByAppCenter

LEMMA StepKeeps == ASSUME AppCenterInv, [Next]_vars PROVE AppCenterInv'
<1>0. ASSUME NEW command \in Plain, Submit(command[1], command[2]) PROVE AppCenterInv'
  BY <1>0, SubmitKeeps
<1>1. ASSUME NEW u \in Uid, NEW result \in {"succeeded", "failed"}, Finish(u, result)
      PROVE  AppCenterInv'
  BY <1>1, FinishKeeps
<1>2. ASSUME NEW c \in Client, ReadRows(c) PROVE AppCenterInv'
  BY <1>2, ReadRowsKeeps
<1>3. ASSUME NEW c \in Client, ReadCatalog(c) PROVE AppCenterInv'
  BY <1>3, ReadCatalogKeeps
<1>4. ASSUME NEW c \in Client, Offered(c) PROVE AppCenterInv'
  BY <1>4, OfferedKeeps
<1>5. ASSUME NEW c \in Client, Abandon(c) PROVE AppCenterInv'
  BY <1>5, DropKeeps DEF Abandon
<1>6. ASSUME NEW c \in Client, ProjectResolve(c) PROVE AppCenterInv'
  BY <1>6, ProjectResolveKeeps
<1>7. ASSUME NEW c \in Client, projectCandidate(c) PROVE AppCenterInv'
  BY <1>7, projectCandidateKeeps
<1>8. ASSUME NEW c \in Client, NEW v \in Version, NEW a \in Action, Enter(c, a, v)
      PROVE  AppCenterInv'
  BY <1>8, EnterKeeps
<1>9. ASSUME NEW c \in Client, Resolve(c) PROVE AppCenterInv'
  BY <1>9, ResolveKeeps
<1>10. ASSUME NEW c \in Client, Revise(c) PROVE AppCenterInv'
  BY <1>10, ReviseKeeps
<1>11. ASSUME NEW c \in Client, CheckInstallGrant(c) PROVE AppCenterInv'
  BY <1>11, CheckInstallGrantKeeps
<1>12. ASSUME NEW c \in Client, Admit(c) PROVE AppCenterInv'
  BY <1>12, AdmitKeeps
<1>13. CASE UNCHANGED vars
  <2>1. UNCHANGED <<listed, lookup, grant, installation, operation, workload, seen, client>>
    BY <1>13 DEF vars
  <2>2. UNCHANGED outside
    BY <2>1 DEF outside
  <2>3. TypeOK' /\ Alone' /\ UpgradeRises' /\ GrantIsFresh'
    BY <2>1 DEF AppCenterInv, TypeOK, Alone, Deciding, UpgradeRises, GrantIsFresh,
           ByAppCenter
  <2>4. ASSUME NEW c \in Client PROVE Fits(client[c])'
    <3>1. PICK q : q = client[c]
      OBVIOUS
    <3>2. Fits(q)'
      BY <2>2, <3>1, SameOutside DEF AppCenterInv
    <3>3. QED
      BY <2>1, <3>1, <3>2
  <2>5. QED
    BY <2>3, <2>4 DEF AppCenterInv
<1>14. QED
  BY <1>0, <1>1, <1>2, <1>3, <1>4, <1>5, <1>6, <1>7, <1>8, <1>9, <1>10, <1>11, <1>12, <1>13,
     AroundKeeps DEF Next, Action

(***************************************************************************)
(* The inductive invariant: an admission is alone with the locked row and  *)
(* knows every grant since it began, and a card nothing has disturbed is   *)
(* about the rows and the catalog as they are (buildFacts, submit).        *)
(***************************************************************************)
THEOREM AppCenterInvariant == Spec => []AppCenterInv
<1>1. Init => AppCenterInv
  BY InitHolds
<1>2. AppCenterInv /\ [Next]_vars => AppCenterInv'
  BY StepKeeps
<1>3. QED
  BY <1>1, <1>2, PTL DEF Spec

(***************************************************************************)
(* An upgrade that an AppCenter admission commits is to a version above    *)
(* the installed one, for any number of clients, versions and plain        *)
(* commands beside it: what resolve compares stays true until              *)
(* bindInstallationOperation, because validateAppCenterInstallation has    *)
(* locked the row until the commit.  A plain upgrade need not rise.        *)
(***************************************************************************)
THEOREM UpgradesRise == Spec => []UpgradeRises
<1>1. AppCenterInv => UpgradeRises
  BY DEF AppCenterInv
<1>2. QED
  BY <1>1, AppCenterInvariant, PTL

(***************************************************************************)
(* AppCenter admits the installation of a market release, or an upgrade to *)
(* one, only if Control granted it while the command was being admitted    *)
(* (CheckInstallGrant), for any history of grants.  The theorem is about   *)
(* AppCenter's commands alone: Submit, the other branch of submit, admits  *)
(* a plain command for a listed market release with no grant.              *)
(***************************************************************************)
THEOREM GrantsAreFresh == Spec => []GrantIsFresh
<1>1. AppCenterInv => GrantIsFresh
  BY DEF AppCenterInv
<1>2. QED
  BY <1>1, AppCenterInvariant, PTL

LEMMA OfferAccepted ==
  ASSUME TypeOK, NEW q \in CardRecord, CardFits(q), q.view = workload, NEW o \in q.offers
  PROVE  /\ validateAppCenterInstallation(o.action, o.version, q.row)
         /\ Bound(o.action, o.version, installation, listed)
         /\ Inspected(o.action, workload)
<1>1. /\ Eligible(q.row, q.entry, q.view, o.action) /\ o.version = Target(o.action, q.row, q.entry)
      /\ Bound(o.action, o.version, installation, listed)
      /\ q.row = installation /\ q.row \in Row \cup {None} /\ q.entry \in Version \cup {None}
      /\ o.action \in Action
  BY DEF CardFits, CardRecord, Eligible
<1>2. validateAppCenterInstallation(o.action, o.version, q.row)
  <2>1. CASE o.action = "install"
    BY <1>1, <2>1 DEF Eligible, validateAppCenterInstallation
  <2>2. CASE o.action # "install"
    <3>1. /\ q.row # None /\ q.row.owner = "own" /\ q.row.state = "installed"
          /\ q.row.version \in Nat
      BY <1>1, <2>2, AppCenterAssumption DEF Eligible, Row
    <3>2. o.action = "upgrade" => o.version # q.row.version
      BY <1>1, <3>1, AppCenterAssumption DEF Eligible, Target
    <3>3. o.action # "upgrade" => o.version = q.row.version
      BY <1>1, <2>2 DEF Target
    <3>4. QED
      BY <1>1, <2>2, <3>1, <3>2, <3>3 DEF validateAppCenterInstallation
  <2>3. QED
    BY <2>1, <2>2
<1>3. Inspected(o.action, workload)
  BY <1>1 DEF Eligible, Inspected, Action
<1>4. QED
  BY <1>1, <1>2, <1>3

LEMMA OnePolicy ==
  ASSUME NEW q \in CardRecord, CardFits(q), Unmixed(q.offers), NEW o \in q.offers
  PROVE  q.policy = PolicyOf(o.version)
<1>1. PICK p \in q.offers : q.policy = PolicyOf(p.version)
  BY DEF CardFits
<1>2. ResolveHelm(o.version) <=> ResolveHelm(p.version)
  BY <1>1 DEF Unmixed
<1>3. \A x \in q.offers :
        /\ x.version = Target(x.action, q.row, listed)
        /\ listed # None
  BY DEF CardFits, Shown
<1>4. CASE ResolveHelm(o.version)
  BY <1>1, <1>2, <1>3, <1>4 DEF PolicyOf, MarketPolicy
<1>5. CASE ~ResolveHelm(o.version)
  <2>1. \A x \in q.offers : ~ResolveHelm(x.version) => x.version = q.row.version
    BY <1>3 DEF Target, ResolveHelm
  <2>2. o.version = p.version
    BY <1>1, <1>2, <1>5, <2>1
  <2>3. QED
    BY <1>1, <2>2
<1>6. QED
  BY <1>4, <1>5

(***************************************************************************)
(* A candidate that projectCandidate put on a card is one whose            *)
(* installation, version and workload admission accepts, while nothing     *)
(* changed since and the workload is as observed, for any policy of the    *)
(* operator and any catalog.  That admission also computes the policy      *)
(* revision the card carries is claimed only of a card whose offers all    *)
(* come from the market or none of which does (Unmixed): on any other, the *)
(* card's one policy revision does not fit some of its offers, which       *)
(* admission refuses.                                                      *)
(***************************************************************************)
THEOREM OffersStand == Spec => []OfferStands
<1>1. ASSUME AppCenterInv PROVE OfferStands
  <2>1. ASSUME NEW c \in Client, NEW q, q = client[c], q.phase = "offered", q.quiet,
               q.view = workload, NEW o \in q.offers
        PROVE  /\ validateAppCenterInstallation(o.action, o.version, q.row)
               /\ Bound(o.action, o.version, installation, listed)
               /\ Inspected(o.action, workload)
               /\ Unmixed(q.offers) => q.policy = PolicyOf(o.version)
    <3>1. TypeOK /\ q \in CardRecord /\ CardFits(q)
      BY <1>1, <2>1, RecordOfPhase DEF AppCenterInv, TypeOK, Fits, Carded
    <3>2. QED
      BY <2>1, <3>1, OfferAccepted, OnePolicy
  <2>2. QED
    BY <2>1 DEF OfferStands, PolicyOf
<1>2. QED
  BY <1>1, AppCenterInvariant, PTL
=============================================================================
