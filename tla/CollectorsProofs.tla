-------------------------- MODULE CollectorsProofs --------------------------
(***************************************************************************)
(* Proofs about the observation memory, for any collectors, namespaces,    *)
(* connections, installations and workloads, any terms and any limits.     *)
(***************************************************************************)
EXTENDS Collectors, FiniteSetTheorems, TLAPS

Resources == [Location -> StoredResource \cup {None}]

Bindings == [Installation -> memoryBinding \cup {None}]

TypeOK ==
  /\ clock \in Nat \ {0}
  /\ session \in [Session -> StreamSession \cup {None}]
  /\ active \in [Collector -> Session \cup {None}]
  /\ objects \in Resources
  /\ lastFull \in [Collector -> Nat] /\ inventoryAt \in [Collector -> Nat]
  /\ binding \in Bindings
  /\ scopeRevision \in [Org -> Nat]
  /\ legacy \in [Legacy -> Location]
  /\ probe \in [Session -> [Workload -> Nat]]
  /\ vacant \in [Location -> Nat \cup {None}]

-----------------------------------------------------------------------------
(***************************************************************************)
(* The operators of Observations: what a view can say, and what it takes   *)
(* to say "ready" or "absent".                                             *)
(***************************************************************************)
LEMMA NoneIsNothing ==
  /\ None \notin Session /\ None \notin StoredResource /\ None \notin StreamSession
  /\ None \notin memoryBinding /\ None \notin Location /\ None \notin Installation /\ None \notin Nat
  BY CollectorsAssumption, ObservationsAssumption

LEMMA RuntimeViewSays ==
  ASSUME NEW now \in Nat, NEW received \in Nat, NEW state \in State, NEW reason \in Reason
  PROVE  /\ RuntimeView(now, state, reason, received) \in View
         /\ RuntimeView(now, state, reason, received).state # "unknown" =>
              /\ RuntimeView(now, state, reason, received).state = state
              /\ received <= now /\ now < received + TTL
<1>1. TTL \in Nat
  BY ObservationsAssumption
<1>2. \A r \in Reason : Unknown(r) \in View /\ Unknown(r).state = "unknown"
  BY DEF Unknown, View, State
<1>3. CASE received > now
  <2>1. RuntimeView(now, state, reason, received) = Unknown("INVALID_OBSERVATION")
    BY <1>3 DEF RuntimeView
  <2>2. QED
    BY <1>2, <2>1 DEF Reason
<1>4. CASE ~(received > now) /\ now >= received + TTL
  <2>1. PICK last \in State \cup {None} :
          RuntimeView(now, state, reason, received)
            = [Unknown("OBSERVATION_EXPIRED") EXCEPT !.last = last]
    BY <1>4 DEF RuntimeView
  <2>2. [Unknown("OBSERVATION_EXPIRED") EXCEPT !.last = last]
          = [state |-> "unknown", quality |-> "unknown", reason |-> "OBSERVATION_EXPIRED",
             last |-> last]
    BY DEF Unknown
  <2>3. QED
    BY <2>1, <2>2 DEF View, State, Reason
<1>5. CASE ~(received > now) /\ ~(now >= received + TTL)
  <2>1. PICK last \in State \cup {None}, quality \in {"known", "unknown"} :
          RuntimeView(now, state, reason, received)
            = [state |-> state, reason |-> reason, last |-> last, quality |-> quality]
    BY <1>5 DEF RuntimeView
  <2>2. received <= now /\ now < received + TTL
    BY <1>1, <1>5
  <2>3. QED
    BY <2>1, <2>2 DEF View
<1>6. QED
  BY <1>3, <1>4, <1>5

LEMMA ObservedViewSays ==
  ASSUME NEW o \in StoredResource, NEW app, NEW now \in Nat
  PROVE  /\ ObservedView(o, app, now) \in View
         /\ ObservedView(o, app, now).state # "absent"
         /\ ObservedView(o, app, now).state = "ready" /\ app \in HealthRequired =>
              o.health = "ready" /\ now < o.healthExpires
<1>1. PICK fact :
        fact = IF now < o.received + TTL /\ now >= o.healthExpires
               THEN [o EXCEPT !.health = "not_checked"] ELSE o
  OBVIOUS
<1>2. PICK state, reason :
        /\ state = evaluate(fact, app \in HealthRequired)[1]
        /\ reason = evaluate(fact, app \in HealthRequired)[2]
  OBVIOUS
<1>3. ObservedView(o, app, now) = RuntimeView(now, state, reason, o.received)
  BY <1>1, <1>2 DEF ObservedView
<1>4. /\ state \in State /\ state # "absent" /\ reason \in Reason
      /\ state = "ready" /\ app \in HealthRequired => fact.health = "ready"
  BY <1>2 DEF evaluate, State, Reason
<1>5. o.received \in Nat /\ o.healthExpires \in Nat /\ TTL \in Nat
  BY ObservationsAssumption DEF StoredResource
<1>6. /\ RuntimeView(now, state, reason, o.received) \in View
      /\ RuntimeView(now, state, reason, o.received).state # "unknown" =>
           /\ RuntimeView(now, state, reason, o.received).state = state
           /\ o.received <= now /\ now < o.received + TTL
  BY <1>4, <1>5, RuntimeViewSays
<1>7. ASSUME now < o.received + TTL, fact.health = "ready"
      PROVE  o.health = "ready" /\ now < o.healthExpires
  BY <1>1, <1>5, <1>7 DEF StoredResource
<1>8. QED
  BY <1>3, <1>4, <1>6, <1>7

(***************************************************************************)
(* Where project finds a workload, and what it then keeps of the binding.  *)
(***************************************************************************)
Places(i, objs) == {l \in Location : objs[l] # None /\ objs[l].inst = i}

ProjectResult(i, b, objs, now, p) ==
  /\ p \in memoryBinding
  /\ p.revision = b.revision /\ p.semantic = b.semantic
  /\ \/ p.loc = b.loc /\ p.absentAt = b.absentAt
     \/ p.loc \in Location /\ p.absentAt = 0
  /\ p.view.state = "absent" =>
       /\ Places(i, objs) = {} /\ b.loc # None /\ b.absentAt # 0 /\ objs[b.loc] = None
       /\ now < b.absentAt + TTL
  /\ p.view.state = "ready" /\ AppOf[i] \in HealthRequired =>
       \E l \in Places(i, objs) : objs[l].health = "ready" /\ now < objs[l].healthExpires

LEMMA ProjectSays ==
  ASSUME NEW i \in Installation, NEW b \in memoryBinding, NEW objs \in Resources,
         NEW now \in Nat
  PROVE  ProjectResult(i, b, objs, now, project(i, b, objs, now))
<1>1. PICK places, place, moved :
        /\ places = Places(i, objs) /\ place = (CHOOSE l \in places : TRUE)
        /\ moved = (b.loc # None /\ b.loc # place /\ objs[b.loc] # None)
  OBVIOUS
<1>2. project(i, b, objs, now) =
        IF Cardinality(places) > 1 \/ (places # {} /\ moved)
          THEN [b EXCEPT !.view = Unknown("IDENTITY_CONFLICT")]
        ELSE IF places # {}
          THEN [b EXCEPT !.loc = place, !.uid = objs[place].uid, !.absentAt = 0,
                         !.view = ObservedView(objs[place], AppOf[i], now)]
        ELSE [b EXCEPT !.view =
                IF b.loc # None /\ objs[b.loc] # None
                  THEN RuntimeView(now, "unknown", "IDENTITY_CONFLICT", objs[b.loc].received)
                ELSE IF b.loc # None /\ b.absentAt # 0
                  THEN RuntimeView(now, "absent", "RESOURCE_ABSENT", b.absentAt)
                ELSE Unknown("NOT_SYNCED")]
  BY <1>1 DEF project, Places
<1>3. \A r \in Reason : Unknown(r) \in View /\ Unknown(r).state = "unknown"
  BY DEF Unknown, View, State
<1>4. ASSUME NEW view \in View, view.state \notin {"absent", "ready"}
      PROVE  ProjectResult(i, b, objs, now, [b EXCEPT !.view = view])
  BY <1>4 DEF ProjectResult, memoryBinding
<1>5. CASE Cardinality(places) > 1 \/ (places # {} /\ moved)
  <2>1. project(i, b, objs, now) = [b EXCEPT !.view = Unknown("IDENTITY_CONFLICT")]
    BY <1>2, <1>5
  <2>2. QED
    BY <1>3, <1>4, <2>1 DEF Reason
<1>6. CASE ~(Cardinality(places) > 1 \/ (places # {} /\ moved)) /\ places # {}
  <2>1. place \in Location /\ objs[place] \in StoredResource /\ objs[place].inst = i
    BY <1>1, <1>6 DEF Places, Resources
  <2>2. PICK view : view = ObservedView(objs[place], AppOf[i], now)
    OBVIOUS
  <2>3. /\ view \in View /\ view.state # "absent"
        /\ view.state = "ready" /\ AppOf[i] \in HealthRequired =>
             objs[place].health = "ready" /\ now < objs[place].healthExpires
    BY <2>1, <2>2, ObservedViewSays
  <2>4. PICK uid \in Nat : uid = objs[place].uid
    BY <2>1 DEF StoredResource
  <2>5. project(i, b, objs, now) = [b EXCEPT !.loc = place, !.uid = uid, !.absentAt = 0, !.view = view]
    BY <1>2, <1>6, <2>2, <2>4
  <2>6. PICK p : p = [b EXCEPT !.loc = place, !.uid = uid, !.absentAt = 0, !.view = view]
    OBVIOUS
  <2>7. /\ p.loc = place /\ p.absentAt = 0 /\ p.view = view
        /\ p.revision = b.revision /\ p.semantic = b.semantic
        /\ p \in memoryBinding
    BY <2>1, <2>3, <2>6 DEF memoryBinding
  <2>8. place \in Places(i, objs)
    BY <1>1, <1>6
  <2>9. QED
    BY <2>1, <2>3, <2>5, <2>6, <2>7, <2>8 DEF ProjectResult
<1>7. CASE ~(Cardinality(places) > 1 \/ (places # {} /\ moved)) /\ places = {}
  <2>1. CASE b.loc # None /\ objs[b.loc] # None
    <3>1. project(i, b, objs, now) =
            [b EXCEPT !.view = RuntimeView(now, "unknown", "IDENTITY_CONFLICT", objs[b.loc].received)]
      BY <1>2, <1>7, <2>1
    <3>2. objs[b.loc].received \in Nat
      BY <2>1 DEF memoryBinding, Resources, StoredResource
    <3>3. /\ RuntimeView(now, "unknown", "IDENTITY_CONFLICT", objs[b.loc].received) \in View
          /\ RuntimeView(now, "unknown", "IDENTITY_CONFLICT", objs[b.loc].received).state = "unknown"
      BY <3>2, RuntimeViewSays DEF State, Reason
    <3>4. QED
      BY <1>4, <3>1, <3>3
  <2>2. CASE b.loc # None /\ objs[b.loc] = None /\ b.absentAt # 0
    <3>1. PICK view : view = RuntimeView(now, "absent", "RESOURCE_ABSENT", b.absentAt)
      OBVIOUS
    <3>2. project(i, b, objs, now) = [b EXCEPT !.view = view]
      BY <1>2, <1>7, <2>2, <3>1
    <3>3. /\ view \in View
          /\ view.state # "unknown" => view.state = "absent" /\ now < b.absentAt + TTL
      BY <3>1, RuntimeViewSays DEF State, Reason, memoryBinding
    <3>4. QED
      BY <1>1, <1>7, <2>2, <3>2, <3>3 DEF ProjectResult, memoryBinding
  <2>3. CASE ~(b.loc # None /\ objs[b.loc] # None) /\ ~(b.loc # None /\ b.absentAt # 0)
    <3>1. project(i, b, objs, now) = [b EXCEPT !.view = Unknown("NOT_SYNCED")]
      BY <1>2, <1>7, <2>3
    <3>2. QED
      BY <1>3, <1>4, <3>1 DEF Reason
  <2>4. QED
    BY <2>1, <2>2, <2>3
<1>8. QED
  BY <1>5, <1>6, <1>7

ProjectedResult(i, b, objs, now, q) ==
  /\ q \in memoryBinding
  /\ q.semantic # b.semantic => q.revision # b.revision
  /\ \/ q.loc = b.loc /\ q.absentAt = b.absentAt
     \/ q.loc \in Location /\ q.absentAt = 0
  /\ q.view.state = "absent" =>
       /\ Places(i, objs) = {} /\ b.loc # None /\ b.absentAt # 0 /\ objs[b.loc] = None
       /\ now < b.absentAt + TTL
  /\ q.view.state = "ready" /\ AppOf[i] \in HealthRequired =>
       \E l \in Places(i, objs) : objs[l].health = "ready" /\ now < objs[l].healthExpires

LEMMA ProjectedSays ==
  ASSUME NEW i \in Installation, NEW b \in memoryBinding, NEW objs \in Resources,
         NEW now \in Nat
  PROVE  ProjectedResult(i, b, objs, now, Projected(i, b, objs, now))
<1>1. PICK p : p = project(i, b, objs, now)
  OBVIOUS
<1>2. ProjectResult(i, b, objs, now, p)
  BY <1>1, ProjectSays
<1>3. PICK view, meta, semantic :
        /\ view = IF p.view.reason = "HEALTH_NOT_OBSERVED" /\ b.view.last # None
                  THEN [p.view EXCEPT !.last = b.view.last] ELSE p.view
        /\ meta = IF Exact(i, p, objs) THEN objs[p.loc].meta ELSE None
        /\ semantic = <<p.uid, view, meta>>
  OBVIOUS
<1>4. PICK q : q = [p EXCEPT !.view = view, !.semantic = semantic,
                             !.revision = @ + IF semantic = b.semantic THEN 0 ELSE 1]
  OBVIOUS
<1>5. Projected(i, b, objs, now) = q
  BY <1>1, <1>3, <1>4 DEF Projected
<1>6. p \in memoryBinding /\ b.view \in View /\ p.view \in View
  BY <1>2 DEF ProjectResult, memoryBinding
<1>7. view \in View /\ view.state = p.view.state
  BY <1>3, <1>6 DEF View
<1>8. meta \in Nat \cup {None}
  BY <1>3, <1>6 DEF Exact, memoryBinding, Resources, StoredResource
<1>9. semantic \in (Nat \cup {None}) \X View \X (Nat \cup {None})
  BY <1>3, <1>6, <1>7, <1>8 DEF memoryBinding
<1>10. PICK n \in Nat : /\ n = p.revision + IF semantic = b.semantic THEN 0 ELSE 1
                        /\ semantic # b.semantic => n # p.revision
  BY <1>6 DEF memoryBinding
<1>11. q = [p EXCEPT !.view = view, !.semantic = semantic, !.revision = n]
  BY <1>4, <1>6, <1>10 DEF memoryBinding
<1>12. /\ q \in memoryBinding
       /\ q.view = view /\ q.semantic = semantic /\ q.revision = n
       /\ q.loc = p.loc /\ q.absentAt = p.absentAt
  <2>1. ASSUME NEW t \in ((Nat \cup {None}) \X View \X (Nat \cup {None})) \cup {None}
        PROVE  /\ [p EXCEPT !.view = view, !.semantic = t, !.revision = n] \in memoryBinding
               /\ [p EXCEPT !.view = view, !.semantic = t, !.revision = n].view = view
               /\ [p EXCEPT !.view = view, !.semantic = t, !.revision = n].semantic = t
               /\ [p EXCEPT !.view = view, !.semantic = t, !.revision = n].revision = n
               /\ [p EXCEPT !.view = view, !.semantic = t, !.revision = n].loc = p.loc
               /\ [p EXCEPT !.view = view, !.semantic = t, !.revision = n].absentAt = p.absentAt
    BY <1>6, <1>7, <1>10 DEF memoryBinding
  <2>2. QED
    BY <1>9, <1>11, <2>1
<1>13. QED
  BY <1>2, <1>5, <1>7, <1>10, <1>12 DEF ProjectResult, ProjectedResult

(***************************************************************************)
(* projectAll.                                                             *)
(***************************************************************************)
Changed(bs, next, o) ==
  {i \in Installation : bs[i] # None /\ OrgOf[i] = o /\ next[i].revision # bs[i].revision}

LEMMA FiniteParts ==
  ASSUME NEW S \in SUBSET Installation
  PROVE  /\ Cardinality(S) \in Nat /\ IsFiniteSet(S)
         /\ S # {} => Cardinality(S) > 0
<1>1. IsFiniteSet(S)
  BY ObservationsAssumption, FS_Subset
<1>2. Cardinality(S) \in Nat /\ (Cardinality(S) = 0 <=> S = {})
  BY <1>1, FS_CardinalityType, FS_EmptySet
<1>3. QED
  BY <1>1, <1>2

LEMMA ProjectAllStep ==
  ASSUME TypeOK, NEW objs \in Resources, NEW bs \in Bindings, NEW revisions \in [Org -> Nat],
         projectAll(objs, bs, revisions)
  PROVE  /\ objects' = objs /\ binding' \in Bindings /\ scopeRevision' \in [Org -> Nat]
         /\ \A i \in Installation :
              IF bs[i] = None THEN binding'[i] = None
              ELSE /\ binding'[i] # None
                   /\ ProjectedResult(i, bs[i], objs, clock, binding'[i])
         /\ \A o \in Org :
              /\ scopeRevision'[o] >= revisions[o]
              /\ (\E i \in Installation : /\ OrgOf[i] = o /\ bs[i] # None
                                          /\ binding'[i].semantic # bs[i].semantic) =>
                   scopeRevision'[o] > revisions[o]
<1>1. PICK next :
        next = [i \in Installation |-> IF bs[i] = None THEN None ELSE Projected(i, bs[i], objs, clock)]
  OBVIOUS
<1>2. /\ objects' = objs /\ binding' = next
      /\ scopeRevision' = [o \in Org |-> revisions[o] + Cardinality(Changed(bs, next, o))]
  BY <1>1 DEF projectAll, Changed
<1>3. ASSUME NEW i \in Installation
      PROVE  /\ next[i] \in memoryBinding \cup {None}
             /\ IF bs[i] = None THEN next[i] = None
                ELSE next[i] # None /\ ProjectedResult(i, bs[i], objs, clock, next[i])
  <2>1. CASE bs[i] = None
    BY <1>1, <2>1
  <2>2. CASE bs[i] # None
    <3>1. bs[i] \in memoryBinding /\ clock \in Nat
      BY <2>2 DEF Bindings, TypeOK
    <3>2. ProjectedResult(i, bs[i], objs, clock, next[i])
      BY <1>1, <2>2, <3>1, ProjectedSays
    <3>3. next[i] \in memoryBinding
      BY <3>2 DEF ProjectedResult
    <3>4. QED
      BY <2>2, <3>2, <3>3, NoneIsNothing
  <2>3. QED
    BY <2>1, <2>2
<1>4. binding' \in Bindings
  <2>1. next \in [Installation -> memoryBinding \cup {None}]
    BY <1>1, <1>3
  <2>2. QED
    BY <1>2, <2>1 DEF Bindings
<1>5. ASSUME NEW o \in Org
      PROVE  /\ Cardinality(Changed(bs, next, o)) \in Nat
             /\ (\E i \in Installation : /\ OrgOf[i] = o /\ bs[i] # None
                                         /\ next[i].semantic # bs[i].semantic) =>
                  Cardinality(Changed(bs, next, o)) > 0
  <2>1. Changed(bs, next, o) \in SUBSET Installation
    BY DEF Changed
  <2>2. ASSUME NEW i \in Installation, OrgOf[i] = o, bs[i] # None,
               next[i].semantic # bs[i].semantic
        PROVE  i \in Changed(bs, next, o)
    BY <1>3, <2>2 DEF ProjectedResult, Changed
  <2>3. QED
    BY <2>1, <2>2, FiniteParts
<1>6. scopeRevision' \in [Org -> Nat]
  BY <1>2, <1>5
<1>7. ASSUME NEW o \in Org
      PROVE  /\ scopeRevision'[o] >= revisions[o]
             /\ (\E i \in Installation : /\ OrgOf[i] = o /\ bs[i] # None
                                         /\ next[i].semantic # bs[i].semantic) =>
                  scopeRevision'[o] > revisions[o]
  <2>1. /\ scopeRevision'[o] = revisions[o] + Cardinality(Changed(bs, next, o))
        /\ revisions[o] \in Nat
    BY <1>2
  <2>2. QED
    BY <1>5, <2>1
<1>8. QED
  BY <1>2, <1>3, <1>4, <1>6, <1>7

-----------------------------------------------------------------------------
(***************************************************************************)
(* The inductive invariant.  The active connection of a collector is one   *)
(* it opened; a resource belongs to a connection of its collector that has *)
(* listed everything, and all resources of a collector to one connection,  *)
(* the active one once that has listed; a list that is being received      *)
(* names only the collector's own places.                                  *)
(***************************************************************************)
ActiveIsOpen ==
  \A c \in Collector : active[c] # None =>
    session[active[c]] # None /\ session[active[c]].collector = c

InventoryIsListed ==
  \A l \in Location : objects[l] # None =>
    /\ session[objects[l].by] # None
    /\ session[objects[l].by].collector = Collects(l) /\ session[objects[l].by].synced

InventoryIsCurrent ==
  \A l \in Location :
    objects[l] # None /\ active[Collects(l)] # None =>
      (session[active[Collects(l)]].synced => objects[l].by = active[Collects(l)])

InventoryIsOne ==
  \A k, l \in Location :
    objects[k] # None /\ objects[l] # None /\ Collects(k) = Collects(l) =>
      objects[k].by = objects[l].by

(***************************************************************************)
(* A workload said to be ready was probed over the connection it came      *)
(* from, and counts as ready for no longer than TTL after that.            *)
(***************************************************************************)
IsProbed(o, l, pr) ==
  o.health = "ready" =>
    /\ <<l, o.uid, o.rv>> \in Workload
    /\ pr[o.by][<<l, o.uid, o.rv>>] # 0
    /\ o.healthExpires <= pr[o.by][<<l, o.uid, o.rv>>] + TTL

InventoryIsProbed == \A l \in Location : objects[l] # None => IsProbed(objects[l], l, probe)

StagingOK(s, r, pr) ==
  r.staging # None =>
    /\ r.started # 0 /\ r.started <= clock
    /\ \A l \in DOMAIN r.staging :
         /\ Collects(l) = r.collector /\ r.staging[l].by = s
         /\ IsProbed(r.staging[l], l, pr)

ListsArePrivate == \A s \in Session : session[s] # None => StagingOK(s, session[s], probe)

(***************************************************************************)
(* A connection that has listed left the time of its list; no recorded     *)
(* time is ahead of the clock.                                             *)
(***************************************************************************)
ListedIsTimed ==
  \A s \in Session : session[s] # None /\ session[s].synced => inventoryAt[session[s].collector] # 0

TimesPassed ==
  /\ \A c \in Collector : inventoryAt[c] <= clock
  /\ \A s \in Session : \A w \in Workload : probe[s][w] <= clock

AbsentPassed(bs) == \A i \in Installation : bs[i] # None => bs[i].absentAt <= clock

(***************************************************************************)
(* A place that a binding or an inventory counts as empty since some time  *)
(* was reported as empty at that time or later, or forgotten by a reset.   *)
(***************************************************************************)
SeenEmpty(at, l, vac) == vac[l] = None \/ vac[l] >= at

AbsenceIsSeen(objs, bs, vac) ==
  \A i \in Installation :
    bs[i] # None /\ bs[i].loc # None /\ bs[i].absentAt # 0 /\ objs[bs[i].loc] = None =>
      SeenEmpty(bs[i].absentAt, bs[i].loc, vac)

EmptyIsSeen(objs, listed, vac) ==
  \A l \in Location :
    objs[l] = None /\ listed[Collects(l)] # 0 => SeenEmpty(listed[Collects(l)], l, vac)

MemoryInv ==
  /\ TypeOK
  /\ ActiveIsOpen /\ InventoryIsListed /\ InventoryIsCurrent /\ InventoryIsOne
  /\ InventoryIsProbed /\ ListsArePrivate /\ ListedIsTimed /\ TimesPassed
  /\ AbsentPassed(binding)
  /\ AbsenceIsSeen(objects, binding, vacant)
  /\ EmptyIsSeen(objects, inventoryAt, vacant)

LEMMA InitInv == NewMemory => MemoryInv
<1> SUFFICES ASSUME NewMemory PROVE MemoryInv
  OBVIOUS
<1> USE NoneIsNothing DEF NewMemory
<1>1. TypeOK
  BY CollectorsAssumption DEF TypeOK, Resources, Bindings
<1>2. ActiveIsOpen /\ InventoryIsListed /\ InventoryIsCurrent /\ InventoryIsOne
  BY ObservationsAssumption DEF ActiveIsOpen, InventoryIsListed, InventoryIsCurrent, InventoryIsOne,
    Location, Collects
<1>3. InventoryIsProbed /\ ListsArePrivate /\ ListedIsTimed /\ TimesPassed /\ AbsentPassed(binding)
  BY DEF InventoryIsProbed, ListsArePrivate, ListedIsTimed, TimesPassed, AbsentPassed
<1>4. AbsenceIsSeen(objects, binding, vacant) /\ EmptyIsSeen(objects, inventoryAt, vacant)
  BY ObservationsAssumption DEF AbsenceIsSeen, EmptyIsSeen, Location, Collects
<1>5. QED
  BY <1>1, <1>2, <1>3, <1>4 DEF MemoryInv

(***************************************************************************)
(* What an organization is told of one binding, and how its revision moves *)
(* with that.                                                              *)
(***************************************************************************)
ToldOf(b) == IF b = None THEN None ELSE b.semantic

RevisionMoves ==
  \A o \in Org : /\ scopeRevision'[o] >= scopeRevision[o]
                 /\ Told(o)' # Told(o) => scopeRevision'[o] > scopeRevision[o]

LEMMA AbsentTold ==
  ASSUME MemoryInv, NEW i \in Installation
  PROVE  binding[i] # None =>
           ToldOf([binding[i] EXCEPT !.absentAt = clock]) = ToldOf(binding[i])
<1> SUFFICES ASSUME binding[i] # None
             PROVE  ToldOf([binding[i] EXCEPT !.absentAt = clock]) = ToldOf(binding[i])
  OBVIOUS
<1>1. binding[i] \in memoryBinding /\ clock \in Nat
  BY DEF MemoryInv, TypeOK, Bindings
<1>2. /\ [binding[i] EXCEPT !.absentAt = clock] \in memoryBinding
      /\ [binding[i] EXCEPT !.absentAt = clock].semantic = binding[i].semantic
  BY <1>1 DEF memoryBinding
<1>3. QED
  BY <1>2, NoneIsNothing DEF ToldOf

LEMMA ProjectionMoves ==
  ASSUME TypeOK, NEW objs \in Resources, NEW bs \in Bindings, NEW revisions \in [Org -> Nat],
         projectAll(objs, bs, revisions),
         \A o \in Org : revisions[o] >= scopeRevision[o],
         \A i \in Installation : \/ ToldOf(bs[i]) = ToldOf(binding[i])
                                \/ revisions[OrgOf[i]] > scopeRevision[OrgOf[i]]
  PROVE  RevisionMoves
<1> SUFFICES ASSUME NEW o \in Org
             PROVE  /\ scopeRevision'[o] >= scopeRevision[o]
                    /\ Told(o)' # Told(o) => scopeRevision'[o] > scopeRevision[o]
  BY DEF RevisionMoves
<1>1. /\ \A i \in Installation :
           IF bs[i] = None THEN binding'[i] = None
           ELSE /\ binding'[i] # None
                /\ ProjectedResult(i, bs[i], objs, clock, binding'[i])
      /\ scopeRevision'[o] >= revisions[o]
      /\ (\E i \in Installation : /\ OrgOf[i] = o /\ bs[i] # None
                                  /\ binding'[i].semantic # bs[i].semantic) =>
           scopeRevision'[o] > revisions[o]
      /\ scopeRevision' \in [Org -> Nat]
  BY ProjectAllStep
<1>2. /\ scopeRevision[o] \in Nat /\ revisions[o] \in Nat /\ scopeRevision'[o] \in Nat
      /\ revisions[o] >= scopeRevision[o]
  BY <1>1 DEF TypeOK
<1>3. ASSUME Told(o)' # Told(o)
      PROVE  scopeRevision'[o] > scopeRevision[o]
  <2>1. PICK i \in Installation : OrgOf[i] = o /\ ToldOf(binding'[i]) # ToldOf(binding[i])
    BY <1>3 DEF Told, ToldOf
  <2>2. CASE ToldOf(bs[i]) # ToldOf(binding[i])
    BY <1>1, <1>2, <2>1, <2>2
  <2>3. CASE ToldOf(bs[i]) = ToldOf(binding[i])
    <3>1. bs[i] # None /\ binding'[i].semantic # bs[i].semantic
      BY <1>1, <2>1, <2>3 DEF ToldOf
    <3>2. QED
      BY <1>1, <1>2, <2>1, <3>1
  <2>4. QED
    BY <2>2, <2>3
<1>4. QED
  BY <1>1, <1>2, <1>3

(***************************************************************************)
(* What an accepted frame may do to the memory, for all kinds of frames.   *)
(***************************************************************************)
LaterProbes ==
  /\ probe' \in [Session -> [Workload -> Nat]]
  /\ \A s \in Session : \A w \in Workload : probe[s][w] <= probe'[s][w] /\ probe'[s][w] <= clock

FrameSession(s, next) ==
  /\ next \in StreamSession /\ next.collector = session[s].collector
  /\ session[s].synced => next.synced
  /\ next.synced => inventoryAt'[next.collector] # 0
  /\ StagingOK(s, next, probe')

FrameObjects(s, next, objs) ==
  /\ objs \in Resources
  /\ \A l \in Location : objs[l] # None =>
       /\ IF Own(s, l) /\ next.synced THEN objs[l].by = s
          ELSE objects[l] # None /\ objs[l].by = objects[l].by
       /\ IsProbed(objs[l], l, probe')

FrameTimes(objs, bs) ==
  /\ bs \in Bindings /\ AbsentPassed(bs)
  /\ \A i \in Installation : ToldOf(bs[i]) = ToldOf(binding[i])
  /\ lastFull' \in [Collector -> Nat] /\ inventoryAt' \in [Collector -> Nat]
  /\ \A c \in Collector :
       inventoryAt'[c] <= clock /\ (inventoryAt[c] # 0 => inventoryAt'[c] # 0)
  /\ vacant' \in [Location -> Nat \cup {None}]
  /\ AbsenceIsSeen(objs, bs, vacant')
  /\ EmptyIsSeen(objs, inventoryAt', vacant')

LEMMA CollectsType == \A l \in Location : Collects(l) \in Collector
  BY ObservationsAssumption DEF Location, Collects

LEMMA LaterProbed ==
  ASSUME TypeOK, LaterProbes, NEW l, NEW o \in StoredResource, IsProbed(o, l, probe)
  PROVE  IsProbed(o, l, probe')
<1> SUFFICES ASSUME o.health = "ready"
             PROVE  /\ <<l, o.uid, o.rv>> \in Workload
                    /\ probe'[o.by][<<l, o.uid, o.rv>>] # 0
                    /\ o.healthExpires <= probe'[o.by][<<l, o.uid, o.rv>>] + TTL
  BY DEF IsProbed
<1>1. PICK w : w = <<l, o.uid, o.rv>>
  OBVIOUS
<1>2. w \in Workload /\ probe[o.by][w] # 0 /\ o.healthExpires <= probe[o.by][w] + TTL
  BY <1>1 DEF IsProbed
<1>3. o.by \in Session /\ o.healthExpires \in Nat /\ TTL \in Nat
  BY ObservationsAssumption DEF StoredResource
<1>4. /\ probe[o.by][w] \in Nat /\ probe'[o.by][w] \in Nat
      /\ probe[o.by][w] <= probe'[o.by][w]
  BY <1>2, <1>3 DEF TypeOK, LaterProbes
<1>5. QED
  BY <1>1, <1>2, <1>3, <1>4

LEMMA StagedResource ==
  ASSUME NEW r \in StreamSession, r.staging # None, NEW l \in DOMAIN r.staging
  PROVE  l \in Location /\ r.staging[l] \in StoredResource
<1>1. r.staging \in (UNION {[D -> StoredResource] : D \in SUBSET Location}) \cup {None}
  BY DEF StreamSession
<1>2. PICK D \in SUBSET Location : r.staging \in [D -> StoredResource]
  <2>1. PICK F \in {[D -> StoredResource] : D \in SUBSET Location} : r.staging \in F
    BY <1>1
  <2>2. QED
    BY <2>1
<1>3. QED
  BY <1>2

LEMMA LaterStaging ==
  ASSUME TypeOK, LaterProbes, NEW s, NEW r \in StreamSession, StagingOK(s, r, probe)
  PROVE  StagingOK(s, r, probe')
<1> SUFFICES ASSUME r.staging # None, NEW l \in DOMAIN r.staging
             PROVE  IsProbed(r.staging[l], l, probe')
  BY DEF StagingOK
<1>1. r.staging[l] \in StoredResource
  BY StagedResource
<1>2. IsProbed(r.staging[l], l, probe)
  BY DEF StagingOK
<1>3. QED
  BY <1>1, <1>2, LaterProbed

LEMMA AcceptedInv ==
  ASSUME MemoryInv, NEW s \in Session, NEW valid, NEW next, NEW objs, NEW bs,
         Accepted(s, valid, next, objs, bs),
         LaterProbes, FrameSession(s, next), FrameObjects(s, next, objs), FrameTimes(objs, bs)
  PROVE  MemoryInv' /\ RevisionMoves
<1> USE DEF MemoryInv
<1>1. /\ session[s] \in StreamSession /\ active[session[s].collector] = s /\ ~session[s].closed
      /\ session[s].collector \in Collector
  BY DEF Accepted, live, TypeOK, StreamSession
<1>2. PICK r : r = [next EXCEPT !.lastFrame = clock]
  OBVIOUS
<1>3. /\ r \in StreamSession /\ r.collector = next.collector /\ r.synced = next.synced
      /\ r.staging = next.staging /\ r.started = next.started
  BY <1>2 DEF FrameSession, StreamSession, TypeOK
<1>4. /\ session' = [session EXCEPT ![s] = r] /\ session'[s] = r
      /\ \A t \in Session : t # s => session'[t] = session[t]
      /\ UNCHANGED <<clock, active, legacy>>
  BY <1>2 DEF Accepted, TypeOK
<1>5. /\ objects' = objs /\ binding' \in Bindings /\ scopeRevision' \in [Org -> Nat]
      /\ \A i \in Installation :
           IF bs[i] = None THEN binding'[i] = None
           ELSE /\ binding'[i] # None
                /\ ProjectedResult(i, bs[i], objs, clock, binding'[i])
  BY ProjectAllStep DEF Accepted, FrameObjects, FrameTimes, TypeOK
<1>6. TypeOK'
  BY <1>3, <1>4, <1>5 DEF TypeOK, FrameObjects, FrameTimes, LaterProbes
<1>7. ActiveIsOpen'
  BY <1>1, <1>3, <1>4, NoneIsNothing DEF ActiveIsOpen, FrameSession, TypeOK
<1>8. ASSUME NEW l \in Location, objects'[l] # None
      PROVE  /\ objects'[l] \in StoredResource
             /\ IF Own(s, l) /\ next.synced THEN objects'[l].by = s
                ELSE objects[l] # None /\ objects'[l].by = objects[l].by
             /\ IsProbed(objects'[l], l, probe')
  BY <1>5, <1>8 DEF FrameObjects, Resources
<1>9. InventoryIsListed'
  <2> SUFFICES ASSUME NEW l \in Location, objects'[l] # None
               PROVE  /\ session'[objects'[l].by] # None
                      /\ session'[objects'[l].by].collector = Collects(l)
                      /\ session'[objects'[l].by].synced
    BY DEF InventoryIsListed, Collects
  <2>1. CASE Own(s, l) /\ next.synced
    <3>1. objects'[l].by = s
      BY <1>8, <2>1
    <3>2. r # None /\ r.collector = Collects(l) /\ r.synced
      BY <1>3, <2>1, NoneIsNothing DEF Own, FrameSession
    <3>3. QED
      BY <1>4, <3>1, <3>2
  <2>2. CASE ~(Own(s, l) /\ next.synced)
    <3>1. /\ objects[l] # None /\ objects'[l].by = objects[l].by /\ objects'[l].by \in Session
          /\ session[objects[l].by] # None
          /\ session[objects[l].by].collector = Collects(l) /\ session[objects[l].by].synced
      BY <1>8, <2>2 DEF InventoryIsListed, StoredResource
    <3>2. CASE objects[l].by = s
      BY <1>3, <1>4, <3>1, <3>2, NoneIsNothing DEF FrameSession
    <3>3. CASE objects[l].by # s
      BY <1>4, <3>1, <3>3
    <3>4. QED
      BY <3>2, <3>3
  <2>3. QED
    BY <2>1, <2>2
<1>10. ASSUME NEW l \in Location, objects'[l] # None, active[Collects(l)] # None,
              session'[active[Collects(l)]].synced
       PROVE  objects'[l].by = active[Collects(l)]
  <2>1. CASE Own(s, l)
    <3>1. active[Collects(l)] = s
      BY <1>1, <2>1 DEF Own
    <3>2. next.synced
      BY <1>3, <1>4, <1>10, <3>1
    <3>3. QED
      BY <1>8, <1>10, <2>1, <3>1, <3>2
  <2>2. CASE ~Own(s, l)
    <3>1. active[Collects(l)] \in Session /\ Collects(l) \in Collector
      BY <1>10, CollectsType DEF TypeOK
    <3>2. active[Collects(l)] # s
      BY <1>10, <2>2, <3>1 DEF ActiveIsOpen, Own
    <3>3. session[active[Collects(l)]].synced
      BY <1>4, <1>10, <3>1, <3>2
    <3>4. objects[l] # None /\ objects'[l].by = objects[l].by
      BY <1>8, <1>10, <2>2
    <3>5. QED
      BY <1>10, <3>3, <3>4 DEF InventoryIsCurrent
  <2>3. QED
    BY <2>1, <2>2
<1>11. InventoryIsCurrent'
  BY <1>4, <1>10 DEF InventoryIsCurrent, Collects
<1>12. InventoryIsOne'
  <2> SUFFICES ASSUME NEW k \in Location, NEW l \in Location,
                      objects'[k] # None, objects'[l] # None, Collects(k) = Collects(l)
               PROVE  objects'[k].by = objects'[l].by
    BY DEF InventoryIsOne, Collects
  <2>1. Own(s, k) <=> Own(s, l)
    BY DEF Own
  <2>2. CASE Own(s, k) /\ next.synced
    BY <1>8, <2>1, <2>2
  <2>3. CASE ~(Own(s, k) /\ next.synced)
    <3>1. /\ objects[k] # None /\ objects'[k].by = objects[k].by
          /\ objects[l] # None /\ objects'[l].by = objects[l].by
      BY <1>8, <2>1, <2>3
    <3>2. QED
      BY <3>1 DEF InventoryIsOne
  <2>4. QED
    BY <2>2, <2>3
<1>13. InventoryIsProbed'
  BY <1>8 DEF InventoryIsProbed, IsProbed
<1>14. ASSUME NEW t \in Session, session'[t] # None
       PROVE  StagingOK(t, session'[t], probe')
  <2>1. CASE t = s
    BY <1>3, <1>4, <2>1 DEF FrameSession, StagingOK
  <2>2. CASE t # s
    <3>1. session'[t] = session[t] /\ session[t] \in StreamSession /\ StagingOK(t, session[t], probe)
      BY <1>4, <1>14, <2>2 DEF TypeOK, ListsArePrivate
    <3>2. QED
      BY <3>1, LaterStaging
  <2>3. QED
    BY <2>1, <2>2
<1>15. ListsArePrivate'
  BY <1>4, <1>14 DEF ListsArePrivate, StagingOK, IsProbed, Collects
<1>16. ListedIsTimed'
  <2> SUFFICES ASSUME NEW t \in Session, session'[t] # None, session'[t].synced
               PROVE  inventoryAt'[session'[t].collector] # 0
    BY DEF ListedIsTimed
  <2>1. CASE t = s
    BY <1>3, <1>4, <2>1 DEF FrameSession
  <2>2. CASE t # s
    <3>1. session'[t] = session[t] /\ session[t].collector \in Collector
      BY <1>4, <2>2 DEF TypeOK, StreamSession
    <3>2. QED
      BY <3>1 DEF ListedIsTimed, FrameTimes
  <2>3. QED
    BY <2>1, <2>2
<1>17. TimesPassed'
  BY <1>4 DEF TimesPassed, FrameTimes, LaterProbes, Workload
<1>18. AbsentPassed(binding)'
  <2> SUFFICES ASSUME NEW i \in Installation, binding'[i] # None
               PROVE  binding'[i].absentAt <= clock
    BY <1>4 DEF AbsentPassed
  <2>1. bs[i] # None /\ bs[i].absentAt <= clock /\ clock \in Nat
    BY <1>5 DEF AbsentPassed, FrameTimes, TypeOK
  <2>2. binding'[i].absentAt = bs[i].absentAt \/ binding'[i].absentAt = 0
    BY <1>5, <2>1 DEF ProjectedResult
  <2>3. QED
    BY <2>1, <2>2
<1>19. AbsenceIsSeen(objects, binding, vacant)'
  <2> SUFFICES ASSUME NEW i \in Installation, binding'[i] # None, binding'[i].loc # None,
                      binding'[i].absentAt # 0, objs[binding'[i].loc] = None
               PROVE  SeenEmpty(binding'[i].absentAt, binding'[i].loc, vacant')
    BY <1>5 DEF AbsenceIsSeen, SeenEmpty
  <2>1. bs[i] # None
    BY <1>5
  <2>2. binding'[i].loc = bs[i].loc /\ binding'[i].absentAt = bs[i].absentAt
    BY <1>5, <2>1 DEF ProjectedResult
  <2>3. QED
    BY <2>1, <2>2 DEF FrameTimes, AbsenceIsSeen
<1>20. EmptyIsSeen(objects, inventoryAt, vacant)'
  BY <1>5 DEF FrameTimes, EmptyIsSeen, SeenEmpty, Collects
<1>21. RevisionMoves
  <2>1. /\ scopeRevision \in [Org -> Nat] /\ \A o \in Org : scopeRevision[o] >= scopeRevision[o]
        /\ objs \in Resources /\ bs \in Bindings /\ projectAll(objs, bs, scopeRevision)
    BY DEF TypeOK, FrameObjects, FrameTimes, Accepted
  <2>2. QED
    BY <2>1, ProjectionMoves DEF FrameTimes
<1>22. QED
  BY <1>6, <1>7, <1>9, <1>11, <1>12, <1>13, <1>15, <1>16, <1>17, <1>18, <1>19, <1>20, <1>21

(***************************************************************************)
(* Parts that several kinds of frames share.                               *)
(***************************************************************************)
LEMMA SameProbes ==
  ASSUME MemoryInv, UNCHANGED probe
  PROVE  LaterProbes
<1>1. ASSUME NEW s \in Session, NEW w \in Workload
      PROVE  probe[s][w] \in Nat /\ probe[s][w] <= clock
  BY DEF MemoryInv, TypeOK, TimesPassed
<1>2. QED
  BY <1>1 DEF LaterProbes, MemoryInv, TypeOK

LEMMA NewProbe ==
  ASSUME MemoryInv, NEW s \in Session, NEW l, NEW o, <<l, o.uid, o.rv>> \in Workload,
         probe' = Probed(l, o, s)
  PROVE  /\ LaterProbes
         /\ o.health = "ready" => probe'[s][<<l, o.uid, o.rv>>] = clock
<1>1. PICK w \in Workload : w = <<l, o.uid, o.rv>>
  OBVIOUS
<1>2. CASE o.health # "ready"
  BY <1>2, SameProbes DEF Probed
<1>3. CASE o.health = "ready"
  <2>1. probe' = [probe EXCEPT ![s][w] = clock]
    BY <1>1, <1>3 DEF Probed
  <2>2. clock \in Nat /\ probe \in [Session -> [Workload -> Nat]]
    BY DEF MemoryInv, TypeOK
  <2>3. probe' \in [Session -> [Workload -> Nat]]
    BY <2>1, <2>2
  <2>4. ASSUME NEW t \in Session, NEW v \in Workload
        PROVE  /\ probe[t][v] <= probe'[t][v] /\ probe'[t][v] <= clock
               /\ t = s /\ v = w => probe'[t][v] = clock
    <3>1. probe[t][v] \in Nat /\ probe[t][v] <= clock
      BY <2>2 DEF MemoryInv, TimesPassed
    <3>2. probe'[t][v] = IF t = s /\ v = w THEN clock ELSE probe[t][v]
      BY <2>1, <2>2
    <3>3. QED
      BY <2>2, <3>1, <3>2
  <2>5. QED
    BY <1>1, <2>3, <2>4 DEF LaterProbes
<1>4. QED
  BY <1>2, <1>3

LEMMA LiveSession ==
  ASSUME MemoryInv, NEW s \in Session, session[s] # None, live(s)
  PROVE  /\ session[s] \in StreamSession /\ session[s].collector \in Collector
         /\ session[s].synced => inventoryAt[session[s].collector] # 0
         /\ StagingOK(s, session[s], probe)
         /\ \A l \in Location :
              session[s].synced /\ Own(s, l) /\ objects[l] # None => objects[l].by = s
<1>1. session[s] \in StreamSession /\ session[s].collector \in Collector
  BY DEF MemoryInv, TypeOK, StreamSession
<1>2. active[session[s].collector] = s /\ s # None
  BY NoneIsNothing DEF live
<1>3. \A l \in Location :
        session[s].synced /\ Own(s, l) /\ objects[l] # None => objects[l].by = s
  BY <1>2 DEF MemoryInv, InventoryIsCurrent, Own
<1>4. QED
  BY <1>1, <1>3 DEF MemoryInv, ListedIsTimed, ListsArePrivate

LEMMA SameObjects ==
  ASSUME MemoryInv, NEW s \in Session, session[s] # None, live(s), LaterProbes,
         NEW next, next.synced <=> session[s].synced
  PROVE  FrameObjects(s, next, objects)
<1>1. ASSUME NEW l \in Location, objects[l] # None
      PROVE  IsProbed(objects[l], l, probe')
  <2>1. objects[l] \in StoredResource /\ IsProbed(objects[l], l, probe)
    BY <1>1 DEF MemoryInv, TypeOK, Resources, InventoryIsProbed
  <2>2. QED
    BY <2>1, LaterProbed DEF MemoryInv
<1>2. objects \in Resources
  BY DEF MemoryInv, TypeOK
<1>3. QED
  BY <1>1, <1>2, LiveSession DEF FrameObjects

LEMMA SameTimes ==
  ASSUME MemoryInv, UNCHANGED <<lastFull, inventoryAt, vacant>>
  PROVE  FrameTimes(objects, binding)
  BY DEF MemoryInv, TypeOK, TimesPassed, FrameTimes

LEMMA SampleSays ==
  ASSUME MemoryInv, NEW s \in Session, session[s] # None, live(s),
         NEW l \in Location, NEW o \in Resource, <<l, o.uid, o.rv>> \in Workload,
         Own(s, l), probe' = Probed(l, o, s)
  PROVE  /\ LaterProbes
         /\ sample(s, l, o) \in StoredResource /\ sample(s, l, o) # None
         /\ sample(s, l, o).by = s /\ IsProbed(sample(s, l, o), l, probe')
<1>1. LaterProbes /\ (o.health = "ready" => probe'[s][<<l, o.uid, o.rv>>] = clock)
  BY NewProbe
<1>2. clock \in Nat \ {0} /\ TTL \in Nat /\ clock + TTL \in Nat
  BY ObservationsAssumption DEF MemoryInv, TypeOK
<1>3. /\ Stored(o, clock, s) \in StoredResource /\ Stored(o, clock, s).by = s
      /\ Stored(o, clock, s).health = o.health /\ Stored(o, clock, s).uid = o.uid
      /\ Stored(o, clock, s).rv = o.rv /\ Stored(o, clock, s).healthExpires = clock + TTL
  BY <1>2 DEF Stored, StoredResource, Resource
<1>4. PICK kept : kept = (/\ session[s].synced /\ o.health = "not_checked" /\ objects[l] # None
                          /\ [Reported(objects[l]) EXCEPT !.health = "not_checked"] = o)
  OBVIOUS
<1>5. CASE ~kept
  <2>1. sample(s, l, o) = Stored(o, clock, s)
    BY <1>4, <1>5 DEF sample
  <2>2. IsProbed(Stored(o, clock, s), l, probe')
    BY <1>1, <1>2, <1>3 DEF IsProbed
  <2>3. QED
    BY <1>1, <1>3, <2>1, <2>2, NoneIsNothing
<1>6. CASE kept
  <2>1. /\ objects[l] \in StoredResource /\ IsProbed(objects[l], l, probe) /\ objects[l].by = s
        /\ [Reported(objects[l]) EXCEPT !.health = "not_checked"] = o
    BY <1>4, <1>6, LiveSession DEF MemoryInv, TypeOK, Resources, InventoryIsProbed
  <2>2. objects[l].uid = o.uid /\ objects[l].rv = o.rv
    BY <2>1 DEF Reported
  <2>3. PICK health \in HealthValue, expires \in Nat :
          health = objects[l].health /\ expires = objects[l].healthExpires
    BY <2>1 DEF StoredResource
  <2>4. sample(s, l, o)
          = [Stored(o, clock, s) EXCEPT !.health = health, !.healthExpires = expires]
    BY <1>4, <1>6, <2>3 DEF sample
  <2>5. PICK r : r = [Stored(o, clock, s) EXCEPT !.health = health, !.healthExpires = expires]
    OBVIOUS
  <2>6. /\ r \in StoredResource /\ r.by = s /\ r.health = health /\ r.healthExpires = expires
        /\ r.uid = o.uid /\ r.rv = o.rv
    BY <1>3, <2>5 DEF StoredResource
  <2>7. IsProbed(r, l, probe)
    BY <2>1, <2>2, <2>3, <2>6 DEF IsProbed
  <2>8. IsProbed(r, l, probe')
    BY <1>1, <2>6, <2>7, LaterProbed DEF MemoryInv
  <2>9. QED
    BY <1>1, <2>4, <2>5, <2>6, <2>8, NoneIsNothing
<1>7. QED
  BY <1>5, <1>6

LEMMA SightingSays ==
  ASSUME NEW x \in Sighting
  PROVE  /\ x[1] \in Location /\ x[2] \in Resource /\ x[2].uid \in Nat /\ x[2].rv \in Nat
         /\ <<x[1], x[2].uid, x[2].rv>> \in Workload
  BY ObservationsAssumption DEF Resource, Workload

-----------------------------------------------------------------------------
(***************************************************************************)
(* Each kind of frame.                                                     *)
(***************************************************************************)
LEMMA BeginInv ==
  ASSUME MemoryInv, NEW s \in Session, Begin(s)
  PROVE  MemoryInv' /\ RevisionMoves
<1>1. PICK next :
        next = [session[s] EXCEPT !.started = clock, !.staging = [l \in {} |-> None]]
  OBVIOUS
<1>2. /\ Accepted(s, ~Listing(s), next, objects, binding)
      /\ session[s] # None /\ live(s) /\ UNCHANGED <<lastFull, inventoryAt, probe, vacant>>
  BY <1>1 DEF Begin, Accepted, history
<1>3. LaterProbes
  BY <1>2, SameProbes
<1>4. /\ session[s] \in StreamSession
      /\ session[s].synced => inventoryAt[session[s].collector] # 0
  BY <1>2, LiveSession
<1>5. PICK empty : empty = [l \in {} |-> None]
  OBVIOUS
<1>6. empty \in (UNION {[D -> StoredResource] : D \in SUBSET Location}) \cup {None}
  <2>1. empty \in [{} -> StoredResource] /\ {} \in SUBSET Location
    BY <1>5
  <2>2. QED
    BY <2>1
<1>7. clock \in Nat \ {0}
  BY DEF MemoryInv, TypeOK
<1>8. /\ next \in StreamSession /\ next.collector = session[s].collector
      /\ next.synced = session[s].synced /\ next.started = clock /\ next.staging = empty
  <2>1. ASSUME NEW e \in (UNION {[D -> StoredResource] : D \in SUBSET Location}) \cup {None}
        PROVE  /\ [session[s] EXCEPT !.started = clock, !.staging = e] \in StreamSession
               /\ [session[s] EXCEPT !.started = clock, !.staging = e].collector = session[s].collector
               /\ [session[s] EXCEPT !.started = clock, !.staging = e].synced = session[s].synced
               /\ [session[s] EXCEPT !.started = clock, !.staging = e].started = clock
               /\ [session[s] EXCEPT !.started = clock, !.staging = e].staging = e
    BY <1>4, <1>7 DEF StreamSession
  <2>2. QED
    BY <1>1, <1>5, <1>6, <2>1
<1>9. StagingOK(s, next, probe')
  <2>1. DOMAIN next.staging = {}
    BY <1>5, <1>8
  <2>2. QED
    BY <1>7, <1>8, <2>1 DEF StagingOK
<1>10. FrameSession(s, next)
  BY <1>2, <1>4, <1>8, <1>9 DEF FrameSession
<1>11. FrameObjects(s, next, objects)
  BY <1>2, <1>3, <1>8, SameObjects
<1>12. FrameTimes(objects, binding)
  BY <1>2, SameTimes
<1>13. QED
  BY <1>2, <1>3, <1>10, <1>11, <1>12, AcceptedInv

LEMMA ObjectsInv ==
  ASSUME MemoryInv, NEW s \in Session, NEW l \in Location, NEW o \in Resource,
         <<l, o.uid, o.rv>> \in Workload, Objects(s, l, o)
  PROVE  MemoryInv' /\ RevisionMoves
<1>1. PICK old, new, list :
        /\ old = session[s].staging /\ new = sample(s, l, o)
        /\ list = [k \in DOMAIN old \cup {l} |-> IF k = l THEN new ELSE old[k]]
  OBVIOUS
<1>2. PICK next : next = [session[s] EXCEPT !.staging = list]
  OBVIOUS
<1>3. PICK valid :
        valid = (/\ Listing(s) /\ Own(s, l) /\ l \notin DOMAIN session[s].staging
                 /\ Cardinality(DOMAIN session[s].staging) < MaxInventory)
  OBVIOUS
<1>4. /\ Accepted(s, valid, next, objects, binding)
      /\ session[s] # None /\ live(s) /\ Listing(s) /\ Own(s, l)
      /\ probe' = Probed(l, o, s) /\ UNCHANGED <<lastFull, inventoryAt, vacant>>
  <2>1. session[s] \in StreamSession
    BY DEF MemoryInv, TypeOK, Objects, Accepted
  <2>2. [session[s] EXCEPT !.staging =
           [k \in DOMAIN @ \cup {l} |-> IF k = l THEN sample(s, l, o) ELSE @[k]]] = next
    BY <1>1, <1>2, <2>1 DEF StreamSession
  <2>3. QED
    BY <1>3, <2>2 DEF Objects, Accepted
<1>5. /\ LaterProbes /\ new \in StoredResource /\ new.by = s /\ IsProbed(new, l, probe')
  BY <1>1, <1>4, SampleSays
<1>6. /\ session[s] \in StreamSession /\ StagingOK(s, session[s], probe)
      /\ session[s].synced => inventoryAt[session[s].collector] # 0
  BY <1>4, LiveSession
<1>7. StagingOK(s, session[s], probe')
  BY <1>5, <1>6, LaterStaging DEF MemoryInv
<1>8. old # None /\ \A k \in DOMAIN old : k \in Location /\ old[k] \in StoredResource
  BY <1>1, <1>4, <1>6, StagedResource DEF Listing
<1>9. list \in (UNION {[D -> StoredResource] : D \in SUBSET Location}) \cup {None}
  <2>1. PICK D \in SUBSET Location : D = DOMAIN old \cup {l}
    BY <1>8
  <2>2. list \in [D -> StoredResource]
    BY <1>1, <1>5, <1>8, <2>1
  <2>3. QED
    BY <2>2
<1>10. /\ next \in StreamSession /\ next.collector = session[s].collector
       /\ next.synced = session[s].synced /\ next.started = session[s].started
       /\ next.staging = list
  <2>1. ASSUME NEW e \in (UNION {[D -> StoredResource] : D \in SUBSET Location}) \cup {None}
        PROVE  /\ [session[s] EXCEPT !.staging = e] \in StreamSession
               /\ [session[s] EXCEPT !.staging = e].collector = session[s].collector
               /\ [session[s] EXCEPT !.staging = e].synced = session[s].synced
               /\ [session[s] EXCEPT !.staging = e].started = session[s].started
               /\ [session[s] EXCEPT !.staging = e].staging = e
    BY <1>6 DEF StreamSession
  <2>2. QED
    BY <1>2, <1>9, <2>1
<1>11. StagingOK(s, next, probe')
  <2>1. ASSUME NEW k \in DOMAIN list
        PROVE  Collects(k) = session[s].collector /\ list[k].by = s /\ IsProbed(list[k], k, probe')
    <3>1. CASE k = l
      BY <1>1, <1>4, <1>5, <3>1 DEF Own
    <3>2. CASE k # l
      <4>1. k \in DOMAIN old /\ list[k] = old[k]
        BY <1>1, <2>1, <3>2
      <4>2. QED
        BY <1>1, <1>7, <1>8, <4>1 DEF StagingOK
    <3>3. QED
      BY <3>1, <3>2
  <2>2. session[s].started # 0 /\ session[s].started <= clock
    BY <1>1, <1>7, <1>8 DEF StagingOK
  <2>3. QED
    BY <1>10, <2>1, <2>2 DEF StagingOK
<1>12. FrameSession(s, next)
  BY <1>4, <1>6, <1>10, <1>11 DEF FrameSession
<1>13. FrameObjects(s, next, objects)
  BY <1>4, <1>5, <1>10, SameObjects
<1>14. FrameTimes(objects, binding)
  BY <1>4, SameTimes
<1>15. QED
  BY <1>4, <1>5, <1>12, <1>13, <1>14, AcceptedInv

(***************************************************************************)
(* An accepted list or increment leaves the other collectors' places.      *)
(***************************************************************************)
LEMMA KeptObject ==
  ASSUME MemoryInv, LaterProbes, NEW l \in Location, objects[l] # None
  PROVE  /\ objects[l] \in StoredResource /\ objects[l].by \in Session
         /\ IsProbed(objects[l], l, probe')
<1>1. objects[l] \in StoredResource /\ IsProbed(objects[l], l, probe)
  BY DEF MemoryInv, TypeOK, Resources, InventoryIsProbed
<1>2. QED
  BY <1>1, LaterProbed DEF MemoryInv, StoredResource

LEMMA EndInv ==
  ASSUME MemoryInv, NEW s \in Session, End(s)
  PROVE  MemoryInv' /\ RevisionMoves
<1>1. PICK mine, list, c, started :
        /\ mine = {l \in Location : Own(s, l)} /\ list = session[s].staging
        /\ c = session[s].collector /\ started = session[s].started
  OBVIOUS
<1>2. PICK next, objs, bs :
        /\ next = [session[s] EXCEPT !.staging = None, !.started = 0, !.synced = TRUE]
        /\ objs = [l \in Location |-> IF l \notin mine THEN objects[l]
                                      ELSE IF l \in DOMAIN list THEN list[l] ELSE None]
        /\ bs = [i \in Installation |->
                   IF binding[i] # None /\ binding[i].loc \in mine \ DOMAIN list
                     THEN [binding[i] EXCEPT !.absentAt = clock] ELSE binding[i]]
  OBVIOUS
<1>3. /\ Accepted(s, Listing(s), next, objs, bs)
      /\ session[s] # None /\ live(s) /\ Listing(s)
      /\ lastFull' = [lastFull EXCEPT ![c] = started]
      /\ inventoryAt' = [inventoryAt EXCEPT ![c] = started]
      /\ vacant' = [l \in Location |-> IF l \notin mine THEN vacant[l]
                                       ELSE IF l \in DOMAIN list THEN 0 ELSE clock]
      /\ UNCHANGED probe
  BY <1>1, <1>2 DEF End, Accepted
<1>4. LaterProbes
  BY <1>3, SameProbes
<1>5. session[s] \in StreamSession /\ c \in Collector /\ StagingOK(s, session[s], probe')
  BY <1>1, <1>3, LiveSession
<1>6. /\ started \in Nat \ {0} /\ started <= clock /\ clock \in Nat \ {0}
      /\ \A l \in DOMAIN list : /\ l \in mine /\ list[l] \in StoredResource
                                /\ list[l].by = s /\ IsProbed(list[l], l, probe')
  <2>1. list # None
    BY <1>1, <1>3 DEF Listing
  <2>2. started \in Nat /\ clock \in Nat \ {0}
    BY <1>1, <1>5 DEF StreamSession, MemoryInv, TypeOK
  <2>3. \A l \in DOMAIN list : l \in Location /\ list[l] \in StoredResource
    BY <1>1, <1>5, <2>1, StagedResource
  <2>4. QED
    BY <1>1, <1>5, <2>1, <2>2, <2>3 DEF StagingOK, Own
<1>7. /\ next \in StreamSession /\ next.collector = c /\ next.synced /\ next.staging = None
  BY <1>1, <1>2, <1>5 DEF StreamSession
<1>8. /\ lastFull' \in [Collector -> Nat] /\ inventoryAt' \in [Collector -> Nat]
      /\ \A d \in Collector : inventoryAt'[d] = IF d = c THEN started ELSE inventoryAt[d]
  BY <1>3, <1>5, <1>6 DEF MemoryInv, TypeOK
<1>9. FrameSession(s, next)
  BY <1>1, <1>5, <1>6, <1>7, <1>8 DEF FrameSession, StagingOK
<1>10. FrameObjects(s, next, objs)
  <2>1. ASSUME NEW l \in Location
        PROVE  /\ objs[l] \in StoredResource \cup {None}
               /\ objs[l] # None =>
                    /\ IF Own(s, l) THEN objs[l].by = s ELSE objects[l] # None /\ objs[l] = objects[l]
                    /\ IsProbed(objs[l], l, probe')
    <3>1. CASE l \notin mine
      BY <1>1, <1>2, <1>4, <3>1, KeptObject
    <3>2. CASE l \in mine
      BY <1>1, <1>2, <1>6, <3>2
    <3>3. QED
      BY <3>1, <3>2
  <2>2. objs \in Resources
    BY <1>2, <2>1 DEF Resources
  <2>3. QED
    BY <1>7, <2>1, <2>2 DEF FrameObjects
<1>11. ASSUME NEW i \in Installation, bs[i] # None
       PROVE  /\ binding[i] # None /\ binding[i] \in memoryBinding
              /\ bs[i] \in memoryBinding /\ bs[i].loc = binding[i].loc
              /\ bs[i].absentAt =
                   IF bs[i].loc \in mine \ DOMAIN list THEN clock ELSE binding[i].absentAt
  BY <1>2, <1>6, <1>11 DEF MemoryInv, TypeOK, Bindings, memoryBinding
<1>12. bs \in Bindings /\ AbsentPassed(bs)
  <2>1. \A i \in Installation : bs[i] \in memoryBinding \cup {None}
    BY <1>11
  <2>2. bs \in Bindings
    BY <1>2, <2>1 DEF Bindings
  <2>3. QED
    BY <1>6, <1>11, <2>2 DEF AbsentPassed, MemoryInv
<1>13. vacant' \in [Location -> Nat \cup {None}]
  BY <1>3, <1>6 DEF MemoryInv, TypeOK
<1>14. AbsenceIsSeen(objs, bs, vacant')
  <2> SUFFICES ASSUME NEW i \in Installation, bs[i] # None, bs[i].loc # None, bs[i].absentAt # 0,
                      objs[bs[i].loc] = None
               PROVE  SeenEmpty(bs[i].absentAt, bs[i].loc, vacant')
    BY DEF AbsenceIsSeen
  <2>1. PICK l \in Location : l = bs[i].loc
    BY <1>11 DEF memoryBinding
  <2>2. CASE l \notin mine
    <3>1. objects[l] = None /\ vacant'[l] = vacant[l] /\ bs[i].absentAt = binding[i].absentAt
      BY <1>2, <1>3, <1>11, <2>1, <2>2
    <3>2. QED
      BY <1>11, <2>1, <3>1 DEF MemoryInv, AbsenceIsSeen, SeenEmpty
  <2>3. CASE l \in mine
    <3>1. l \notin DOMAIN list
      BY <1>2, <1>6, <2>1, <2>3, NoneIsNothing
    <3>2. vacant'[l] = clock /\ bs[i].absentAt = clock
      BY <1>3, <1>11, <2>1, <2>3, <3>1
    <3>3. QED
      BY <1>6, <2>1, <3>2 DEF SeenEmpty
  <2>4. QED
    BY <2>2, <2>3
<1>15. EmptyIsSeen(objs, inventoryAt', vacant')
  <2> SUFFICES ASSUME NEW l \in Location, objs[l] = None, inventoryAt'[Collects(l)] # 0
               PROVE  SeenEmpty(inventoryAt'[Collects(l)], l, vacant')
    BY DEF EmptyIsSeen
  <2>1. Collects(l) \in Collector /\ (l \in mine <=> Collects(l) = c)
    BY <1>1, CollectsType DEF Own
  <2>2. CASE l \notin mine
    <3>1. objects[l] = None /\ vacant'[l] = vacant[l] /\ inventoryAt'[Collects(l)] = inventoryAt[Collects(l)]
      BY <1>2, <1>3, <1>8, <2>1, <2>2
    <3>2. QED
      BY <3>1 DEF MemoryInv, EmptyIsSeen, SeenEmpty
  <2>3. CASE l \in mine
    <3>1. l \notin DOMAIN list
      BY <1>2, <1>6, <2>3, NoneIsNothing
    <3>2. vacant'[l] = clock /\ inventoryAt'[Collects(l)] = started
      BY <1>3, <1>8, <2>1, <2>3, <3>1
    <3>3. QED
      BY <1>6, <3>2 DEF SeenEmpty
  <2>4. QED
    BY <2>2, <2>3
<1>16. \A i \in Installation : ToldOf(bs[i]) = ToldOf(binding[i])
  BY <1>2, AbsentTold
<1>17. FrameTimes(objs, bs)
  BY <1>6, <1>8, <1>12, <1>13, <1>14, <1>15, <1>16 DEF FrameTimes, MemoryInv, TimesPassed
<1>18. QED
  BY <1>3, <1>4, <1>9, <1>10, <1>17, AcceptedInv

LEMMA UpsertInv ==
  ASSUME MemoryInv, NEW s \in Session, NEW l \in Location, NEW o \in Resource,
         <<l, o.uid, o.rv>> \in Workload, Upsert(s, l, o)
  PROVE  MemoryInv' /\ RevisionMoves
<1>1. PICK new, objs, valid :
        /\ new = sample(s, l, o) /\ objs = [objects EXCEPT ![l] = new]
        /\ valid = (/\ Watching(s) /\ Own(s, l)
                    /\ \/ objects[l] # None
                       \/ Cardinality({k \in Location : Own(s, k) /\ objects[k] # None})
                            < MaxInventory)
  OBVIOUS
<1>2. /\ Accepted(s, valid, session[s], objs, binding)
      /\ session[s] # None /\ live(s) /\ Watching(s) /\ Own(s, l)
      /\ probe' = Probed(l, o, s) /\ vacant' = [vacant EXCEPT ![l] = 0]
      /\ UNCHANGED <<lastFull, inventoryAt>>
  BY <1>1 DEF Upsert, Accepted
<1>3. LaterProbes /\ new \in StoredResource /\ new # None /\ new.by = s /\ IsProbed(new, l, probe')
  BY <1>1, <1>2, SampleSays
<1>4. /\ session[s] \in StreamSession /\ session[s].synced /\ session[s].staging = None
      /\ inventoryAt[session[s].collector] # 0
      /\ \A k \in Location : Own(s, k) /\ objects[k] # None => objects[k].by = s
  BY <1>2, LiveSession DEF Watching, Listing
<1>5. FrameSession(s, session[s])
  BY <1>2, <1>4 DEF FrameSession, StagingOK
<1>6. objects \in Resources /\ vacant \in [Location -> Nat \cup {None}]
  BY DEF MemoryInv, TypeOK
<1>7. /\ objs \in Resources /\ vacant' \in [Location -> Nat \cup {None}]
      /\ objs[l] = new /\ \A k \in Location : k # l => objs[k] = objects[k] /\ vacant'[k] = vacant[k]
  BY <1>1, <1>2, <1>3, <1>6 DEF Resources
<1>8. FrameObjects(s, session[s], objs)
  <2>1. ASSUME NEW k \in Location, objs[k] # None
        PROVE  /\ IF Own(s, k) THEN objs[k].by = s ELSE objects[k] # None /\ objs[k].by = objects[k].by
               /\ IsProbed(objs[k], k, probe')
    <3>1. CASE k = l
      BY <1>2, <1>3, <1>7, <3>1
    <3>2. CASE k # l
      BY <1>3, <1>4, <1>7, <2>1, <3>2, KeptObject
    <3>3. QED
      BY <3>1, <3>2
  <2>2. QED
    BY <1>4, <1>7, <2>1 DEF FrameObjects
<1>9. AbsenceIsSeen(objs, binding, vacant')
  <2> SUFFICES ASSUME NEW i \in Installation, binding[i] # None, binding[i].loc # None,
                      binding[i].absentAt # 0, objs[binding[i].loc] = None
               PROVE  SeenEmpty(binding[i].absentAt, binding[i].loc, vacant')
    BY DEF AbsenceIsSeen
  <2>1. PICK k \in Location : k = binding[i].loc
    BY DEF MemoryInv, TypeOK, Bindings, memoryBinding
  <2>2. k # l /\ objects[k] = None /\ vacant'[k] = vacant[k]
    BY <1>3, <1>7, <2>1
  <2>3. QED
    BY <2>1, <2>2 DEF MemoryInv, AbsenceIsSeen, SeenEmpty
<1>10. EmptyIsSeen(objs, inventoryAt', vacant')
  <2> SUFFICES ASSUME NEW k \in Location, objs[k] = None, inventoryAt[Collects(k)] # 0
               PROVE  SeenEmpty(inventoryAt[Collects(k)], k, vacant')
    BY <1>2 DEF EmptyIsSeen
  <2>1. k # l /\ objects[k] = None /\ vacant'[k] = vacant[k]
    BY <1>3, <1>7
  <2>2. QED
    BY <2>1 DEF MemoryInv, EmptyIsSeen, SeenEmpty
<1>11. FrameTimes(objs, binding)
  BY <1>2, <1>7, <1>9, <1>10 DEF FrameTimes, MemoryInv, TypeOK, TimesPassed
<1>12. QED
  BY <1>2, <1>3, <1>5, <1>8, <1>11, AcceptedInv

LEMMA DeleteInv ==
  ASSUME MemoryInv, NEW s \in Session, NEW l \in Location, NEW uid, Delete(s, l, uid)
  PROVE  MemoryInv' /\ RevisionMoves
<1>1. PICK matches, objs, bs :
        /\ matches = (objects[l] # None /\ objects[l].uid = uid)
        /\ objs = IF matches THEN [objects EXCEPT ![l] = None] ELSE objects
        /\ bs = [i \in Installation |->
                   IF matches /\ binding[i] # None /\ binding[i].loc = l /\ binding[i].uid = uid
                     THEN [binding[i] EXCEPT !.absentAt = clock] ELSE binding[i]]
  OBVIOUS
<1>2. /\ Accepted(s, Watching(s) /\ Own(s, l), session[s], objs, bs)
      /\ session[s] # None /\ live(s) /\ Watching(s) /\ Own(s, l)
      /\ vacant' = (IF matches THEN [vacant EXCEPT ![l] = clock] ELSE vacant)
      /\ UNCHANGED <<lastFull, inventoryAt, probe>>
  BY <1>1 DEF Delete, Accepted
<1>3. LaterProbes
  BY <1>2, SameProbes
<1>4. /\ session[s] \in StreamSession /\ session[s].synced /\ session[s].staging = None
      /\ inventoryAt[session[s].collector] # 0
      /\ \A k \in Location : Own(s, k) /\ objects[k] # None => objects[k].by = s
  BY <1>2, LiveSession DEF Watching, Listing
<1>5. FrameSession(s, session[s])
  BY <1>2, <1>4 DEF FrameSession, StagingOK
<1>6. objects \in Resources /\ vacant \in [Location -> Nat \cup {None}] /\ clock \in Nat \ {0}
  BY DEF MemoryInv, TypeOK
<1>7. /\ objs \in Resources /\ vacant' \in [Location -> Nat \cup {None}]
      /\ \A k \in Location :
           IF matches /\ k = l THEN objs[k] = None /\ vacant'[k] = clock
           ELSE objs[k] = objects[k] /\ vacant'[k] = vacant[k]
  BY <1>1, <1>2, <1>6 DEF Resources
<1>8. FrameObjects(s, session[s], objs)
  <2>1. ASSUME NEW k \in Location, objs[k] # None
        PROVE  /\ IF Own(s, k) THEN objs[k].by = s ELSE objects[k] # None /\ objs[k].by = objects[k].by
               /\ IsProbed(objs[k], k, probe')
    <3>1. objs[k] = objects[k]
      BY <1>7, <2>1
    <3>2. QED
      BY <1>3, <1>4, <2>1, <3>1, KeptObject
  <2>2. QED
    BY <1>4, <1>7, <2>1 DEF FrameObjects
<1>9. ASSUME NEW i \in Installation, bs[i] # None
      PROVE  /\ binding[i] # None /\ binding[i] \in memoryBinding
             /\ bs[i] \in memoryBinding /\ bs[i].loc = binding[i].loc
             /\ \/ bs[i].absentAt = binding[i].absentAt
                \/ bs[i].absentAt = clock /\ matches /\ bs[i].loc = l
  BY <1>1, <1>6, <1>9 DEF MemoryInv, TypeOK, Bindings, memoryBinding
<1>10. bs \in Bindings /\ AbsentPassed(bs)
  <2>1. \A i \in Installation : bs[i] \in memoryBinding \cup {None}
    BY <1>9
  <2>2. bs \in Bindings
    BY <1>1, <2>1 DEF Bindings
  <2>3. QED
    BY <1>6, <1>9, <2>2 DEF AbsentPassed, MemoryInv
<1>11. AbsenceIsSeen(objs, bs, vacant')
  <2> SUFFICES ASSUME NEW i \in Installation, bs[i] # None, bs[i].loc # None, bs[i].absentAt # 0,
                      objs[bs[i].loc] = None
               PROVE  SeenEmpty(bs[i].absentAt, bs[i].loc, vacant')
    BY DEF AbsenceIsSeen
  <2>1. PICK k \in Location : k = bs[i].loc
    BY <1>9 DEF memoryBinding
  <2>2. CASE matches /\ k = l
    <3>1. bs[i].absentAt \in Nat /\ bs[i].absentAt <= clock
      BY <1>9, <1>10 DEF AbsentPassed, memoryBinding
    <3>2. QED
      BY <1>6, <1>7, <2>1, <2>2, <3>1 DEF SeenEmpty
  <2>3. CASE ~(matches /\ k = l)
    <3>1. objects[k] = None /\ vacant'[k] = vacant[k] /\ bs[i].absentAt = binding[i].absentAt
      BY <1>7, <1>9, <2>1, <2>3
    <3>2. QED
      BY <1>9, <2>1, <3>1 DEF MemoryInv, AbsenceIsSeen, SeenEmpty
  <2>4. QED
    BY <2>2, <2>3
<1>12. EmptyIsSeen(objs, inventoryAt', vacant')
  <2> SUFFICES ASSUME NEW k \in Location, objs[k] = None, inventoryAt[Collects(k)] # 0
               PROVE  SeenEmpty(inventoryAt[Collects(k)], k, vacant')
    BY <1>2 DEF EmptyIsSeen
  <2>1. inventoryAt[Collects(k)] <= clock
    BY CollectsType DEF MemoryInv, TimesPassed
  <2>2. CASE matches /\ k = l
    BY <1>6, <1>7, <2>1, <2>2 DEF SeenEmpty
  <2>3. CASE ~(matches /\ k = l)
    <3>1. objects[k] = None /\ vacant'[k] = vacant[k]
      BY <1>7, <2>3
    <3>2. QED
      BY <3>1 DEF MemoryInv, EmptyIsSeen, SeenEmpty
  <2>4. QED
    BY <2>2, <2>3
<1>13. \A i \in Installation : ToldOf(bs[i]) = ToldOf(binding[i])
  BY <1>1, AbsentTold
<1>14. FrameTimes(objs, bs)
  BY <1>2, <1>7, <1>10, <1>11, <1>12, <1>13 DEF FrameTimes, MemoryInv, TypeOK, TimesPassed
<1>15. QED
  BY <1>2, <1>3, <1>5, <1>8, <1>14, AcceptedInv

LEMMA HeartbeatInv ==
  ASSUME MemoryInv, NEW s \in Session, Heartbeat(s)
  PROVE  MemoryInv' /\ RevisionMoves
<1>1. PICK c, mine :
        c = session[s].collector /\ mine = {l \in Location : Collects(l) = c}
  OBVIOUS
<1>2. PICK objs, bs :
        /\ objs = [l \in Location |->
                     IF l \in mine /\ objects[l] # None THEN [objects[l] EXCEPT !.received = clock]
                     ELSE objects[l]]
        /\ bs = [i \in Installation |->
                   IF binding[i] # None /\ binding[i].loc \in mine /\ binding[i].absentAt # 0
                     THEN [binding[i] EXCEPT !.absentAt = clock] ELSE binding[i]]
  OBVIOUS
<1>3. /\ Accepted(s, Watching(s) /\ clock < lastFull[c] + FullSync, session[s], objs, bs)
      /\ session[s] # None /\ live(s) /\ Watching(s)
      /\ inventoryAt' = [inventoryAt EXCEPT ![c] = clock]
      /\ vacant' = [l \in Location |-> IF l \in mine /\ vacant[l] \notin {0, None} THEN clock
                                       ELSE vacant[l]]
      /\ UNCHANGED <<lastFull, probe>>
  BY <1>1, <1>2 DEF Heartbeat, Accepted
<1>4. LaterProbes
  BY <1>3, SameProbes
<1>5. /\ session[s] \in StreamSession /\ session[s].synced /\ session[s].staging = None
      /\ inventoryAt[c] # 0 /\ c \in Collector
      /\ \A k \in Location : k \in mine /\ objects[k] # None => objects[k].by = s
  BY <1>1, <1>3, LiveSession DEF Watching, Listing, Own
<1>6. objects \in Resources /\ vacant \in [Location -> Nat \cup {None}] /\ clock \in Nat \ {0}
  BY DEF MemoryInv, TypeOK
<1>7. /\ inventoryAt' \in [Collector -> Nat]
      /\ \A d \in Collector : inventoryAt'[d] = IF d = c THEN clock ELSE inventoryAt[d]
  BY <1>3, <1>5, <1>6 DEF MemoryInv, TypeOK
<1>8. FrameSession(s, session[s])
  BY <1>1, <1>5, <1>6, <1>7 DEF FrameSession, StagingOK
<1>9. ASSUME NEW l \in Location
      PROVE  /\ objs[l] \in StoredResource \cup {None}
             /\ objs[l] = None <=> objects[l] = None
             /\ objs[l] # None => /\ objs[l].by = objects[l].by
                                  /\ IsProbed(objs[l], l, probe')
  <2>1. CASE l \in mine /\ objects[l] # None
    <3>1. objects[l] \in StoredResource /\ IsProbed(objects[l], l, probe')
      BY <1>4, <2>1, KeptObject
    <3>2. objs[l] = [objects[l] EXCEPT !.received = clock]
      BY <1>2, <2>1
    <3>3. /\ objs[l] \in StoredResource /\ objs[l].by = objects[l].by
          /\ objs[l].health = objects[l].health /\ objs[l].uid = objects[l].uid
          /\ objs[l].rv = objects[l].rv /\ objs[l].healthExpires = objects[l].healthExpires
      BY <1>6, <3>1, <3>2 DEF StoredResource
    <3>4. QED
      BY <2>1, <3>1, <3>3, NoneIsNothing DEF IsProbed
  <2>2. CASE ~(l \in mine /\ objects[l] # None)
    <3>1. objs[l] = objects[l]
      BY <1>2, <2>2
    <3>2. QED
      BY <1>4, <3>1, KeptObject
  <2>3. QED
    BY <2>1, <2>2
<1>10. FrameObjects(s, session[s], objs)
  <2>1. objs \in Resources
    BY <1>2, <1>9 DEF Resources
  <2>2. ASSUME NEW l \in Location, objs[l] # None
        PROVE  /\ IF Own(s, l) THEN objs[l].by = s ELSE objects[l] # None /\ objs[l].by = objects[l].by
               /\ IsProbed(objs[l], l, probe')
    BY <1>1, <1>5, <1>9, <2>2 DEF Own
  <2>3. QED
    BY <1>5, <2>1, <2>2 DEF FrameObjects
<1>11. ASSUME NEW i \in Installation, bs[i] # None
       PROVE  /\ binding[i] # None /\ binding[i] \in memoryBinding
              /\ bs[i] \in memoryBinding /\ bs[i].loc = binding[i].loc
              /\ bs[i].absentAt =
                   IF bs[i].loc \in mine /\ binding[i].absentAt # 0 THEN clock
                   ELSE binding[i].absentAt
  BY <1>2, <1>6, <1>11 DEF MemoryInv, TypeOK, Bindings, memoryBinding
<1>12. bs \in Bindings /\ AbsentPassed(bs)
  <2>1. \A i \in Installation : bs[i] \in memoryBinding \cup {None}
    BY <1>11
  <2>2. bs \in Bindings
    BY <1>2, <2>1 DEF Bindings
  <2>3. QED
    BY <1>6, <1>11, <2>2 DEF AbsentPassed, MemoryInv
<1>13. vacant' \in [Location -> Nat \cup {None}]
  BY <1>3, <1>6
<1>14. ASSUME NEW l \in Location, NEW at \in Nat \ {0}, SeenEmpty(at, l, vacant), l \in mine
       PROVE  SeenEmpty(clock, l, vacant')
  <2>1. vacant[l] # 0
    BY <1>6, <1>14, NoneIsNothing DEF SeenEmpty
  <2>2. vacant'[l] = None \/ vacant'[l] = clock
    BY <1>3, <1>14, <2>1
  <2>3. QED
    BY <1>6, <2>2 DEF SeenEmpty
<1>15. AbsenceIsSeen(objs, bs, vacant')
  <2> SUFFICES ASSUME NEW i \in Installation, bs[i] # None, bs[i].loc # None, bs[i].absentAt # 0,
                      objs[bs[i].loc] = None
               PROVE  SeenEmpty(bs[i].absentAt, bs[i].loc, vacant')
    BY DEF AbsenceIsSeen
  <2>1. PICK l \in Location : l = bs[i].loc
    BY <1>11 DEF memoryBinding
  <2>2. binding[i].absentAt \in Nat \ {0}
    BY <1>6, <1>11 DEF memoryBinding
  <2>3. SeenEmpty(binding[i].absentAt, l, vacant)
    BY <1>9, <1>11, <2>1, <2>2 DEF MemoryInv, AbsenceIsSeen
  <2>4. CASE l \in mine
    BY <1>11, <1>14, <2>1, <2>2, <2>3, <2>4
  <2>5. CASE l \notin mine
    BY <1>3, <1>11, <2>1, <2>3, <2>5 DEF SeenEmpty
  <2>6. QED
    BY <2>4, <2>5
<1>16. EmptyIsSeen(objs, inventoryAt', vacant')
  <2> SUFFICES ASSUME NEW l \in Location, objs[l] = None, inventoryAt'[Collects(l)] # 0
               PROVE  SeenEmpty(inventoryAt'[Collects(l)], l, vacant')
    BY DEF EmptyIsSeen
  <2>1. Collects(l) \in Collector /\ (l \in mine <=> Collects(l) = c)
    BY <1>1, CollectsType
  <2>2. inventoryAt[Collects(l)] \in Nat \ {0}
    BY <1>5, <1>7, <2>1 DEF MemoryInv, TypeOK
  <2>3. SeenEmpty(inventoryAt[Collects(l)], l, vacant)
    BY <1>9, <2>2 DEF MemoryInv, EmptyIsSeen
  <2>4. CASE l \in mine
    BY <1>7, <1>14, <2>1, <2>2, <2>3, <2>4
  <2>5. CASE l \notin mine
    BY <1>3, <1>7, <2>1, <2>3, <2>5 DEF SeenEmpty
  <2>6. QED
    BY <2>4, <2>5
<1>17. \A i \in Installation : ToldOf(bs[i]) = ToldOf(binding[i])
  BY <1>2, AbsentTold
<1>18. FrameTimes(objs, bs)
  BY <1>3, <1>6, <1>7, <1>12, <1>13, <1>15, <1>16, <1>17 DEF FrameTimes, MemoryInv, TypeOK, TimesPassed
<1>19. QED
  BY <1>3, <1>4, <1>8, <1>10, <1>18, AcceptedInv

LEMMA HealthInv ==
  ASSUME MemoryInv, NEW s \in Session, NEW l \in Location, NEW uid, NEW rv,
         NEW health \in HealthValue, <<l, uid, rv>> \in Workload, Health(s, l, uid, rv, health)
  PROVE  MemoryInv' /\ RevisionMoves
<1>1. PICK matches, objs, o :
        /\ matches = (/\ objects[l] # None /\ objects[l].uid = uid /\ objects[l].rv = rv
                      /\ objects[l].inst # "foreign"
                      /\ objects[l].flags \cap {"terminating", "zero"} = {})
        /\ objs = IF matches THEN [objects EXCEPT ![l].health = health,
                                                  ![l].healthExpires = clock + TTL]
                  ELSE objects
        /\ o = [uid |-> uid, rv |-> rv, health |-> health]
  OBVIOUS
<1>2. /\ Accepted(s, Watching(s) /\ Own(s, l), session[s], objs, binding)
      /\ session[s] # None /\ live(s) /\ Watching(s) /\ Own(s, l)
      /\ probe' = Probed(l, o, s) /\ UNCHANGED <<lastFull, inventoryAt, vacant>>
  BY <1>1 DEF Health, Accepted
<1>3. LaterProbes /\ (health = "ready" => probe'[s][<<l, uid, rv>>] = clock)
  <2>1. o.uid = uid /\ o.rv = rv /\ o.health = health
    BY <1>1
  <2>2. QED
    BY <1>2, <2>1, NewProbe
<1>4. /\ session[s] \in StreamSession /\ session[s].synced /\ session[s].staging = None
      /\ inventoryAt[session[s].collector] # 0
      /\ \A k \in Location : Own(s, k) /\ objects[k] # None => objects[k].by = s
  BY <1>2, LiveSession DEF Watching, Listing
<1>5. FrameSession(s, session[s])
  BY <1>2, <1>4 DEF FrameSession, StagingOK
<1>6. objects \in Resources /\ clock \in Nat \ {0} /\ TTL \in Nat /\ clock + TTL \in Nat
  BY ObservationsAssumption DEF MemoryInv, TypeOK
<1>7. ASSUME NEW k \in Location
      PROVE  /\ objs[k] \in StoredResource \cup {None}
             /\ objs[k] = None <=> objects[k] = None
             /\ objs[k] # None => objs[k].by = objects[k].by /\ IsProbed(objs[k], k, probe')
  <2>1. CASE matches /\ k = l
    <3>1. objects[l] \in StoredResource /\ objects[l].by = s /\ objects[l].uid = uid /\ objects[l].rv = rv
      BY <1>1, <1>2, <1>3, <1>4, <2>1, KeptObject
    <3>2. objs[l] = [objects[l] EXCEPT !.health = health, !.healthExpires = clock + TTL]
      BY <1>1, <1>6, <2>1 DEF Resources
    <3>3. /\ objs[l] \in StoredResource /\ objs[l].by = s /\ objs[l].uid = uid /\ objs[l].rv = rv
          /\ objs[l].health = health /\ objs[l].healthExpires = clock + TTL
      BY <1>6, <3>1, <3>2 DEF StoredResource
    <3>4. IsProbed(objs[l], l, probe')
      BY <1>3, <1>6, <3>3 DEF IsProbed
    <3>5. QED
      BY <1>1, <2>1, <3>1, <3>3, <3>4, NoneIsNothing
  <2>2. CASE ~(matches /\ k = l)
    <3>1. objs[k] = objects[k]
      BY <1>1, <1>6, <2>2 DEF Resources
    <3>2. QED
      BY <1>3, <3>1, KeptObject
  <2>3. QED
    BY <2>1, <2>2
<1>8. FrameObjects(s, session[s], objs)
  <2>1. objs \in Resources
    <3>1. objs = [k \in Location |-> objs[k]]
      BY <1>1, <1>6 DEF Resources
    <3>2. QED
      BY <1>7, <3>1 DEF Resources
  <2>2. QED
    BY <1>4, <1>7, <2>1 DEF FrameObjects
<1>9. FrameTimes(objs, binding)
  <2>1. FrameTimes(objects, binding)
    BY <1>2, SameTimes
  <2>2. AbsenceIsSeen(objs, binding, vacant')
    <3> SUFFICES ASSUME NEW i \in Installation, binding[i] # None, binding[i].loc # None,
                        binding[i].absentAt # 0, objs[binding[i].loc] = None
                 PROVE  SeenEmpty(binding[i].absentAt, binding[i].loc, vacant')
      BY DEF AbsenceIsSeen
    <3>1. binding[i].loc \in Location
      BY DEF MemoryInv, TypeOK, Bindings, memoryBinding
    <3>2. QED
      BY <1>7, <2>1, <3>1 DEF FrameTimes, AbsenceIsSeen
  <2>3. EmptyIsSeen(objs, inventoryAt', vacant')
    BY <1>7, <2>1 DEF FrameTimes, EmptyIsSeen
  <2>4. QED
    BY <2>1, <2>2, <2>3 DEF FrameTimes
<1>10. QED
  BY <1>2, <1>3, <1>5, <1>8, <1>9, AcceptedInv

-----------------------------------------------------------------------------
(***************************************************************************)
(* What the other steps may do: sessions open and close, resources and     *)
(* bindings are forgotten, time passes.                                    *)
(***************************************************************************)
QuietSessions ==
  /\ session' \in [Session -> StreamSession \cup {None}]
  /\ active' \in [Collector -> Session \cup {None}]
  /\ \A s \in Session :
       IF session[s] = None THEN session'[s] # None => ~session'[s].synced /\ session'[s].staging = None
       ELSE /\ session'[s] # None /\ session'[s].collector = session[s].collector
            /\ session'[s].synced = session[s].synced
            /\ \/ session'[s].staging = None
               \/ session'[s] = session[s]
  /\ \A c \in Collector : active'[c] # None =>
       /\ session'[active'[c]] # None /\ session'[active'[c]].collector = c
       /\ active'[c] = active[c] \/ ~session'[active'[c]].synced

QuietMemory ==
  /\ clock' \in Nat /\ clock' >= clock
  /\ objects' \in Resources /\ vacant' \in [Location -> Nat \cup {None}]
  /\ \A l \in Location : \/ objects'[l] = objects[l] /\ vacant'[l] = vacant[l]
                         \/ objects'[l] = None /\ vacant'[l] = None
  /\ binding' \in Bindings /\ scopeRevision' \in [Org -> Nat] /\ legacy' \in [Legacy -> Location]
  /\ \A i \in Installation : binding'[i] # None =>
       \/ binding'[i].absentAt = 0
       \/ /\ binding[i] # None /\ binding'[i].loc = binding[i].loc
          /\ binding'[i].absentAt = binding[i].absentAt
  /\ UNCHANGED <<lastFull, inventoryAt, probe>>

LEMMA QuietInv ==
  ASSUME MemoryInv, QuietSessions, QuietMemory
  PROVE  MemoryInv'
<1> USE DEF MemoryInv
<1>0. clock \in Nat \ {0} /\ clock' \in Nat \ {0}
  BY DEF TypeOK, QuietMemory
<1>1. TypeOK'
  BY <1>0 DEF TypeOK, QuietSessions, QuietMemory
<1>2. ActiveIsOpen'
  BY DEF ActiveIsOpen, QuietSessions
<1>3. ASSUME NEW l \in Location, objects'[l] # None
      PROVE  /\ objects[l] # None /\ objects'[l] = objects[l]
             /\ objects[l].by \in Session /\ session[objects[l].by] # None
             /\ session[objects[l].by].collector = Collects(l) /\ session[objects[l].by].synced
  BY <1>3 DEF QuietMemory, InventoryIsListed, TypeOK, Resources, StoredResource
<1>4. InventoryIsListed'
  <2> SUFFICES ASSUME NEW l \in Location, objects'[l] # None
               PROVE  /\ session'[objects'[l].by] # None
                      /\ session'[objects'[l].by].collector = Collects(l)
                      /\ session'[objects'[l].by].synced
    BY DEF InventoryIsListed, Collects
  <2>1. QED
    BY <1>3 DEF QuietSessions
<1>5. InventoryIsCurrent'
  <2> SUFFICES ASSUME NEW l \in Location, objects'[l] # None, active'[Collects(l)] # None,
                      session'[active'[Collects(l)]].synced
               PROVE  objects'[l].by = active'[Collects(l)]
    BY DEF InventoryIsCurrent, Collects
  <2>1. PICK a \in Session : a = active'[Collects(l)]
    BY CollectsType DEF QuietSessions
  <2>2. active[Collects(l)] = a /\ session'[a].collector = Collects(l)
    BY <2>1, CollectsType DEF QuietSessions
  <2>3. session[a] # None
    BY <2>1, <2>2, CollectsType DEF ActiveIsOpen
  <2>4. session[a].synced
    BY <2>1, <2>3 DEF QuietSessions
  <2>5. QED
    BY <1>3, <2>1, <2>2, <2>4 DEF InventoryIsCurrent
<1>6. InventoryIsOne'
  <2> SUFFICES ASSUME NEW k \in Location, NEW l \in Location,
                      objects'[k] # None, objects'[l] # None, Collects(k) = Collects(l)
               PROVE  objects'[k].by = objects'[l].by
    BY DEF InventoryIsOne, Collects
  <2>1. QED
    BY <1>3 DEF InventoryIsOne
<1>7. InventoryIsProbed'
  <2> SUFFICES ASSUME NEW l \in Location, objects'[l] # None
               PROVE  IsProbed(objects'[l], l, probe)
    BY DEF InventoryIsProbed, IsProbed, QuietMemory
  <2>1. QED
    BY <1>3 DEF InventoryIsProbed
<1>8. ASSUME NEW s \in Session, session'[s] # None, session'[s].staging # None
      PROVE  session'[s] = session[s] /\ StagingOK(s, session[s], probe)
  BY <1>8 DEF QuietSessions, ListsArePrivate
<1>9. ListsArePrivate'
  <2> SUFFICES ASSUME NEW s \in Session, session'[s] # None, session'[s].staging # None
               PROVE  /\ session'[s].started # 0 /\ session'[s].started <= clock'
                      /\ \A l \in DOMAIN session'[s].staging :
                           /\ Collects(l) = session'[s].collector /\ session'[s].staging[l].by = s
                           /\ IsProbed(session'[s].staging[l], l, probe)
    BY DEF ListsArePrivate, StagingOK, IsProbed, QuietMemory, Collects
  <2>1. session[s] \in StreamSession
    BY <1>8 DEF QuietSessions, TypeOK
  <2>2. session[s].started \in Nat /\ clock <= clock'
    BY <1>0, <2>1 DEF StreamSession, QuietMemory
  <2>3. session'[s] = session[s] /\ StagingOK(s, session[s], probe)
    BY <1>8
  <2>4. session[s].started # 0 /\ session[s].started <= clock'
    BY <1>0, <2>2, <2>3 DEF StagingOK
  <2>5. QED
    BY <2>3, <2>4 DEF StagingOK
<1>10. ListedIsTimed'
  BY DEF ListedIsTimed, QuietSessions, QuietMemory
<1>11. TimesPassed'
  <2>1. ASSUME NEW c \in Collector PROVE inventoryAt[c] <= clock'
    BY <1>0 DEF TimesPassed, QuietMemory, TypeOK
  <2>2. ASSUME NEW s \in Session, NEW w \in Workload PROVE probe[s][w] <= clock'
    <3>1. probe[s][w] \in Nat /\ probe[s][w] <= clock
      BY DEF TimesPassed, TypeOK
    <3>2. QED
      BY <1>0, <3>1 DEF QuietMemory
  <2>3. QED
    BY <2>1, <2>2 DEF TimesPassed, QuietMemory, Workload
<1>12. AbsentPassed(binding)'
  <2> SUFFICES ASSUME NEW i \in Installation, binding'[i] # None
               PROVE  binding'[i].absentAt <= clock'
    BY DEF AbsentPassed
  <2>1. CASE binding'[i].absentAt = 0
    BY <1>0, <2>1
  <2>2. CASE binding[i] # None /\ binding'[i].absentAt = binding[i].absentAt
    <3>1. binding[i].absentAt \in Nat /\ binding[i].absentAt <= clock
      BY <2>2 DEF TypeOK, Bindings, memoryBinding, AbsentPassed
    <3>2. QED
      BY <1>0, <2>2, <3>1 DEF QuietMemory
  <2>3. QED
    BY <2>1, <2>2 DEF QuietMemory
<1>13. AbsenceIsSeen(objects, binding, vacant)'
  <2> SUFFICES ASSUME NEW i \in Installation, binding'[i] # None, binding'[i].loc # None,
                      binding'[i].absentAt # 0, objects'[binding'[i].loc] = None
               PROVE  SeenEmpty(binding'[i].absentAt, binding'[i].loc, vacant')
    BY DEF AbsenceIsSeen, SeenEmpty
  <2>1. /\ binding[i] # None /\ binding'[i].loc = binding[i].loc
        /\ binding'[i].absentAt = binding[i].absentAt
    BY DEF QuietMemory
  <2>2. PICK l \in Location : l = binding[i].loc
    BY <2>1 DEF TypeOK, Bindings, memoryBinding
  <2>3. CASE objects'[l] = objects[l] /\ vacant'[l] = vacant[l]
    BY <2>1, <2>2, <2>3 DEF AbsenceIsSeen, SeenEmpty
  <2>4. CASE vacant'[l] = None
    BY <2>1, <2>2, <2>4 DEF SeenEmpty
  <2>5. QED
    BY <2>2, <2>3, <2>4 DEF QuietMemory
<1>14. EmptyIsSeen(objects, inventoryAt, vacant)'
  <2> SUFFICES ASSUME NEW l \in Location, objects'[l] = None, inventoryAt[Collects(l)] # 0
               PROVE  SeenEmpty(inventoryAt[Collects(l)], l, vacant')
    BY DEF EmptyIsSeen, SeenEmpty, QuietMemory, Collects
  <2>1. CASE objects'[l] = objects[l] /\ vacant'[l] = vacant[l]
    BY <2>1 DEF EmptyIsSeen, SeenEmpty
  <2>2. CASE vacant'[l] = None
    BY <2>2 DEF SeenEmpty
  <2>3. QED
    BY <2>1, <2>2 DEF QuietMemory
<1>15. QED
  BY <1>1, <1>2, <1>4, <1>5, <1>6, <1>7, <1>9, <1>10, <1>11, <1>12, <1>13, <1>14

LEMMA ClosedSays ==
  ASSUME NEW r \in StreamSession
  PROVE  /\ Closed(r) \in StreamSession /\ Closed(r) # None /\ Closed(r).collector = r.collector
         /\ Closed(r).synced = r.synced /\ Closed(r).staging = None
<1>1. /\ Closed(r) \in StreamSession /\ Closed(r).collector = r.collector
      /\ Closed(r).synced = r.synced /\ Closed(r).staging = None
  BY DEF Closed, StreamSession
<1>2. QED
  BY <1>1, NoneIsNothing

LEMMA SameMemory ==
  ASSUME MemoryInv, UNCHANGED <<memory, legacy, history>>, clock' \in Nat, clock' >= clock
  PROVE  QuietMemory
  BY DEF QuietMemory, MemoryInv, TypeOK, memory, history

LEMMA SameSessions ==
  ASSUME MemoryInv, UNCHANGED <<session, active>>
  PROVE  QuietSessions
  BY DEF QuietSessions, MemoryInv, TypeOK, ActiveIsOpen

LEMMA OpenInv ==
  ASSUME MemoryInv, NEW c \in Collector, NEW s \in Session, Open(c, s)
  PROVE  MemoryInv'
<1>1. /\ session \in [Session -> StreamSession \cup {None}]
      /\ active \in [Collector -> Session \cup {None}] /\ clock \in Nat
  BY DEF MemoryInv, TypeOK
<1>2. PICK new : new = [collector |-> c, lastFrame |-> clock, synced |-> FALSE,
                        closed |-> FALSE, staging |-> None, started |-> 0]
  OBVIOUS
<1>3. /\ new \in StreamSession /\ new # None /\ new.collector = c /\ ~new.synced
      /\ new.staging = None
  <2>1. new \in StreamSession
    BY <1>1, <1>2 DEF StreamSession
  <2>2. QED
    BY <1>2, <2>1, NoneIsNothing
<1>4. /\ session[s] = None /\ session'[s] = new
      /\ \A r \in Session \ {s} :
           session'[r] = IF r = active[c] THEN Closed(session[r]) ELSE session[r]
      /\ session' = [r \in Session |-> session'[r]]
      /\ active' = [active EXCEPT ![c] = s]
  BY <1>2 DEF Open
<1>5. ASSUME NEW r \in Session \ {s}
      PROVE  /\ session'[r] \in StreamSession \cup {None}
             /\ session[r] = None => session'[r] = None
             /\ session[r] # None =>
                  /\ session'[r] # None /\ session'[r].collector = session[r].collector
                  /\ session'[r].synced = session[r].synced
                  /\ session'[r].staging = None \/ session'[r] = session[r]
  <2>1. CASE r = active[c]
    <3>1. session[r] \in StreamSession
      BY <1>1, <2>1, NoneIsNothing DEF MemoryInv, ActiveIsOpen
    <3>2. QED
      BY <1>4, <2>1, <3>1, ClosedSays, NoneIsNothing
  <2>2. CASE r # active[c]
    BY <1>1, <1>4, <2>2
  <2>3. QED
    BY <2>1, <2>2
<1>6. ASSUME NEW d \in Collector, active'[d] # None
      PROVE  /\ session'[active'[d]] # None /\ session'[active'[d]].collector = d
             /\ active'[d] = active[d] \/ ~session'[active'[d]].synced
  <2>1. CASE d = c
    BY <1>1, <1>3, <1>4, <2>1
  <2>2. CASE d # c
    <3>1. active'[d] = active[d] /\ active[d] \in Session
      BY <1>1, <1>4, <1>6, <2>2
    <3>2. session[active[d]] # None /\ session[active[d]].collector = d
      BY <1>6, <3>1 DEF MemoryInv, ActiveIsOpen
    <3>3. active[d] \in Session \ {s}
      BY <1>4, <3>1, <3>2
    <3>4. QED
      BY <1>5, <3>1, <3>2, <3>3
  <2>3. QED
    BY <2>1, <2>2
<1>7. session' \in [Session -> StreamSession \cup {None}]
  BY <1>3, <1>4, <1>5
<1>8. active' \in [Collector -> Session \cup {None}]
  BY <1>1, <1>4
<1>9. QuietSessions
  BY <1>3, <1>4, <1>5, <1>6, <1>7, <1>8 DEF QuietSessions
<1>10. QuietMemory
  BY <1>1, SameMemory DEF Open
<1>11. QED
  BY <1>9, <1>10, QuietInv

(***************************************************************************)
(* Closing any set of sessions, which are then no collector's active one.  *)
(***************************************************************************)
LEMMA ClosedSessions ==
  ASSUME MemoryInv, NEW dead \in SUBSET Session, \A s \in dead : session[s] # None,
         session' = [s \in Session |-> IF s \in dead THEN Closed(session[s]) ELSE session[s]],
         active' = [c \in Collector |-> IF active[c] \in dead THEN None ELSE active[c]]
  PROVE  QuietSessions
<1>1. /\ session \in [Session -> StreamSession \cup {None}]
      /\ active \in [Collector -> Session \cup {None}]
  BY DEF MemoryInv, TypeOK
<1>2. ASSUME NEW r \in Session
      PROVE  /\ session'[r] \in StreamSession \cup {None}
             /\ session[r] = None => session'[r] = None
             /\ session[r] # None =>
                  /\ session'[r] # None /\ session'[r].collector = session[r].collector
                  /\ session'[r].synced = session[r].synced
                  /\ session'[r].staging = None \/ session'[r] = session[r]
  <2>1. CASE r \in dead
    BY <1>1, <2>1, ClosedSays
  <2>2. CASE r \notin dead
    BY <1>1, <2>2
  <2>3. QED
    BY <2>1, <2>2
<1>3. ASSUME NEW d \in Collector, active'[d] # None
      PROVE  /\ session'[active'[d]] # None /\ session'[active'[d]].collector = d
             /\ active'[d] = active[d]
  BY <1>1, <1>2, <1>3 DEF MemoryInv, ActiveIsOpen
<1>4. session' \in [Session -> StreamSession \cup {None}]
  BY <1>2
<1>5. active' \in [Collector -> Session \cup {None}]
  BY <1>1
<1>6. QED
  BY <1>2, <1>3, <1>4, <1>5 DEF QuietSessions

LEMMA CloseInv ==
  ASSUME MemoryInv, NEW s \in Session, Close(s)
  PROVE  MemoryInv'
<1>1. /\ session \in [Session -> StreamSession \cup {None}] /\ clock \in Nat
      /\ active \in [Collector -> Session \cup {None}]
  BY DEF MemoryInv, TypeOK
<1>2. PICK dead \in SUBSET Session : dead = {s}
  OBVIOUS
<1>3. session' = [r \in Session |-> IF r \in dead THEN Closed(session[r]) ELSE session[r]]
  BY <1>1, <1>2 DEF Close, closeLocked
<1>4. QuietSessions
  <2>1. active' = [c \in Collector |-> IF active[c] \in dead THEN None ELSE active[c]]
    BY <1>1, <1>2 DEF Close, closeLocked, WithoutSession
  <2>2. \A r \in dead : session[r] # None
    BY <1>2 DEF Close
  <2>3. QED
    BY <1>3, <2>1, <2>2, ClosedSessions
<1>5. QuietMemory
  BY <1>1, SameMemory DEF Close, closeLocked
<1>6. QED
  BY <1>4, <1>5, QuietInv

LEMMA TickInv == MemoryInv /\ Tick => MemoryInv'
<1> SUFFICES ASSUME MemoryInv, Tick PROVE MemoryInv'
  OBVIOUS
<1>1. clock' \in Nat /\ clock' >= clock
  BY DEF MemoryInv, TypeOK, Tick
<1>2. QuietSessions
  BY SameSessions DEF Tick
<1>3. QuietMemory
  BY <1>1, SameMemory DEF Tick
<1>4. QED
  BY <1>2, <1>3, QuietInv

(***************************************************************************)
(* The bindings bs of an unobserved step, projected again: each is new or  *)
(* reset, or says of its place what it said before.                        *)
(***************************************************************************)
QuietBindings(bs) ==
  /\ bs \in Bindings
  /\ \A i \in Installation : bs[i] # None =>
       \/ bs[i].absentAt = 0
       \/ /\ binding[i] # None /\ bs[i].loc = binding[i].loc
          /\ bs[i].absentAt = binding[i].absentAt

LEMMA QuietProjection ==
  ASSUME MemoryInv, NEW objs \in Resources, NEW bs, QuietBindings(bs),
         NEW revisions \in [Org -> Nat], projectAll(objs, bs, revisions)
  PROVE  /\ objects' = objs /\ binding' \in Bindings /\ scopeRevision' \in [Org -> Nat]
         /\ \A i \in Installation : binding'[i] # None =>
              \/ binding'[i].absentAt = 0
              \/ /\ binding[i] # None /\ binding'[i].loc = binding[i].loc
                 /\ binding'[i].absentAt = binding[i].absentAt
<1>1. /\ objects' = objs /\ binding' \in Bindings /\ scopeRevision' \in [Org -> Nat]
      /\ \A i \in Installation :
           IF bs[i] = None THEN binding'[i] = None
           ELSE /\ binding'[i] # None
                /\ ProjectedResult(i, bs[i], objs, clock, binding'[i])
  BY ProjectAllStep DEF MemoryInv, QuietBindings
<1>2. ASSUME NEW i \in Installation, binding'[i] # None
      PROVE  \/ binding'[i].absentAt = 0
             \/ /\ binding[i] # None /\ binding'[i].loc = binding[i].loc
                /\ binding'[i].absentAt = binding[i].absentAt
  <2>1. bs[i] # None /\ \/ binding'[i].absentAt = 0
                        \/ binding'[i].loc = bs[i].loc /\ binding'[i].absentAt = bs[i].absentAt
    BY <1>1, <1>2 DEF ProjectedResult
  <2>2. QED
    BY <2>1 DEF QuietBindings
<1>3. QED
  BY <1>1, <1>2

LEMMA ExpireInv == MemoryInv /\ Expire => MemoryInv'
<1> SUFFICES ASSUME MemoryInv, Expire PROVE MemoryInv'
  OBVIOUS
<1>1. PICK dead :
        dead = {s \in Session : session[s] # None /\ active[session[s].collector] = s /\ ~live(s)}
  OBVIOUS
<1>2. QuietSessions
  <2>1. /\ session' = [s \in Session |-> IF s \in dead THEN Closed(session[s]) ELSE session[s]]
        /\ active' = [c \in Collector |-> IF active[c] \in dead THEN None ELSE active[c]]
    BY <1>1 DEF Expire
  <2>2. dead \in SUBSET Session /\ \A s \in dead : session[s] # None
    BY <1>1
  <2>3. QED
    BY <2>1, <2>2, ClosedSessions
<1>3. objects \in Resources /\ QuietBindings(binding) /\ scopeRevision \in [Org -> Nat]
  BY DEF MemoryInv, TypeOK, QuietBindings
<1>4. projectAll(objects, binding, scopeRevision) /\ UNCHANGED <<clock, lastFull, inventoryAt, legacy, history>>
  BY DEF Expire
<1>5. /\ objects' = objects /\ binding' \in Bindings /\ scopeRevision' \in [Org -> Nat]
      /\ \A i \in Installation : binding'[i] # None =>
           \/ binding'[i].absentAt = 0
           \/ /\ binding[i] # None /\ binding'[i].loc = binding[i].loc
              /\ binding'[i].absentAt = binding[i].absentAt
  BY <1>3, <1>4, QuietProjection
<1>6. QuietMemory
  BY <1>4, <1>5 DEF QuietMemory, MemoryInv, TypeOK, history
<1>7. QED
  BY <1>2, <1>6, QuietInv

LEMMA NewBindingSays == NewBinding \in memoryBinding /\ NewBinding # None /\ NewBinding.absentAt = 0
<1>1. NewBinding \in memoryBinding
  BY DEF NewBinding, memoryBinding, View
<1>2. QED
  BY <1>1, NoneIsNothing DEF NewBinding

(***************************************************************************)
(* The parts of viewsLocked, by name.                                      *)
(***************************************************************************)
ViewsKept(wanted, gone) ==
  [i \in Installation |->
     IF i \in wanted \ Bound THEN NewBinding ELSE IF i \in gone THEN None ELSE binding[i]]

ViewsRevisions(gone) ==
  [o \in Org |-> scopeRevision[o] + Cardinality({i \in gone : OrgOf[i] = o})]

LEMMA ViewsSays ==
  ASSUME MemoryInv, NEW wanted \in SUBSET Installation, Views(wanted)
  PROVE  \E gone \in SUBSET Bound :
           /\ projectAll(objects, ViewsKept(wanted, gone), ViewsRevisions(gone))
           /\ QuietBindings(ViewsKept(wanted, gone)) /\ ViewsRevisions(gone) \in [Org -> Nat]
           /\ UNCHANGED <<clock, session, active, lastFull, inventoryAt, legacy, history>>
<1>1. PICK gone \in SUBSET Bound :
        gone = IF Cardinality(Bound) + Cardinality(wanted \ Bound) > MaxBindings
               THEN Bound \ wanted ELSE {}
  OBVIOUS
<1>2. /\ projectAll(objects, ViewsKept(wanted, gone), ViewsRevisions(gone))
      /\ UNCHANGED <<clock, session, active, lastFull, inventoryAt, legacy, history>>
  BY <1>1 DEF Views, viewsLocked, ViewsKept, ViewsRevisions
<1>3. QuietBindings(ViewsKept(wanted, gone))
  BY NewBindingSays DEF QuietBindings, ViewsKept, MemoryInv, TypeOK, Bindings
<1>4. ASSUME NEW o \in Org
      PROVE  scopeRevision[o] + Cardinality({i \in gone : OrgOf[i] = o}) \in Nat
  <2>1. PICK S \in SUBSET Installation : S = {i \in gone : OrgOf[i] = o}
    BY DEF Bound
  <2>2. Cardinality(S) \in Nat /\ scopeRevision[o] \in Nat
    BY FiniteParts DEF MemoryInv, TypeOK
  <2>3. QED
    BY <2>1, <2>2
<1>5. ViewsRevisions(gone) \in [Org -> Nat]
  BY <1>4 DEF ViewsRevisions
<1>6. QED
  BY <1>2, <1>3, <1>5

LEMMA ViewsInv ==
  ASSUME MemoryInv, NEW wanted \in SUBSET Installation, Views(wanted)
  PROVE  MemoryInv'
<1>1. PICK gone \in SUBSET Bound :
        /\ projectAll(objects, ViewsKept(wanted, gone), ViewsRevisions(gone))
        /\ QuietBindings(ViewsKept(wanted, gone)) /\ ViewsRevisions(gone) \in [Org -> Nat]
        /\ UNCHANGED <<clock, session, active, lastFull, inventoryAt, legacy, history>>
  BY ViewsSays
<1>2. objects \in Resources
  BY DEF MemoryInv, TypeOK
<1>3. /\ objects' = objects /\ binding' \in Bindings /\ scopeRevision' \in [Org -> Nat]
      /\ \A i \in Installation : binding'[i] # None =>
           \/ binding'[i].absentAt = 0
           \/ /\ binding[i] # None /\ binding'[i].loc = binding[i].loc
              /\ binding'[i].absentAt = binding[i].absentAt
  BY <1>1, <1>2, QuietProjection
<1>4. QuietMemory
  BY <1>1, <1>3 DEF QuietMemory, MemoryInv, TypeOK, history
<1>5. QuietSessions
  BY <1>1, SameSessions
<1>6. QED
  BY <1>4, <1>5, QuietInv

(***************************************************************************)
(* The parts of ResetAppBindings, by name.                                 *)
(***************************************************************************)
Stale(app, target, instances, l) ==
  /\ objects[l] # None /\ l[1] # target
  /\ \/ objects[l].inst \in Installation /\ AppOf[objects[l].inst] = app
     \/ l \in instances

ResetObjects(app, target, instances) ==
  [l \in Location |-> IF Stale(app, target, instances, l) THEN None ELSE objects[l]]

ResetBindings(app, target) ==
  [i \in Installation |->
     IF /\ binding[i] # None /\ AppOf[i] = app
        /\ binding[i].loc = None \/ binding[i].loc[1] # target
       THEN [binding[i] EXCEPT !.loc = None, !.uid = None, !.absentAt = 0] ELSE binding[i]]

LEMMA ResetSays ==
  ASSUME MemoryInv, NEW app, NEW target \in Namespace, NEW instances,
         ResetAppBindings(app, target, instances)
  PROVE  /\ projectAll(ResetObjects(app, target, instances), ResetBindings(app, target),
                       scopeRevision)
         /\ ResetObjects(app, target, instances) \in Resources
         /\ QuietBindings(ResetBindings(app, target))
         /\ \A i \in Installation :
              IF binding[i] = None THEN ResetBindings(app, target)[i] = None
              ELSE /\ ResetBindings(app, target)[i] # None
                   /\ ResetBindings(app, target)[i].semantic = binding[i].semantic
<1>1. projectAll(ResetObjects(app, target, instances), ResetBindings(app, target), scopeRevision)
  BY DEF ResetAppBindings, ResetObjects, ResetBindings, Stale
<1>2. ResetObjects(app, target, instances) \in Resources
  BY DEF MemoryInv, TypeOK, Resources, ResetObjects
<1>3. ASSUME NEW b \in memoryBinding
      PROVE  /\ [b EXCEPT !.loc = None, !.uid = None, !.absentAt = 0] \in memoryBinding
             /\ [b EXCEPT !.loc = None, !.uid = None, !.absentAt = 0].absentAt = 0
             /\ [b EXCEPT !.loc = None, !.uid = None, !.absentAt = 0].semantic = b.semantic
             /\ [b EXCEPT !.loc = None, !.uid = None, !.absentAt = 0] # None
  <2>1. [b EXCEPT !.loc = None, !.uid = None, !.absentAt = 0] \in memoryBinding
    BY DEF memoryBinding
  <2>2. QED
    BY <2>1, NoneIsNothing DEF memoryBinding
<1>4. ASSUME NEW i \in Installation
      PROVE  /\ ResetBindings(app, target)[i] \in memoryBinding \cup {None}
             /\ binding[i] = None => ResetBindings(app, target)[i] = None
             /\ binding[i] # None =>
                  /\ ResetBindings(app, target)[i] # None
                  /\ ResetBindings(app, target)[i].semantic = binding[i].semantic
                  /\ \/ ResetBindings(app, target)[i].absentAt = 0
                     \/ ResetBindings(app, target)[i] = binding[i]
  BY <1>3 DEF ResetBindings, MemoryInv, TypeOK, Bindings
<1>5. QuietBindings(ResetBindings(app, target))
  <2>1. ResetBindings(app, target) \in Bindings
    BY <1>4 DEF ResetBindings, Bindings
  <2>2. QED
    BY <1>4, <2>1 DEF QuietBindings
<1>6. QED
  BY <1>1, <1>2, <1>4, <1>5

LEMMA ResetInv ==
  ASSUME MemoryInv, NEW app, NEW target \in Namespace, NEW instances,
         ResetAppBindings(app, target, instances)
  PROVE  MemoryInv'
<1>1. PICK objs, bs : objs = ResetObjects(app, target, instances) /\ bs = ResetBindings(app, target)
  OBVIOUS
<1>2. /\ objects' = objs /\ objs \in Resources
      /\ binding' \in Bindings /\ scopeRevision' \in [Org -> Nat]
      /\ \A i \in Installation : binding'[i] # None =>
           \/ binding'[i].absentAt = 0
           \/ /\ binding[i] # None /\ binding'[i].loc = binding[i].loc
              /\ binding'[i].absentAt = binding[i].absentAt
  <2>1. /\ projectAll(objs, bs, scopeRevision) /\ objs \in Resources /\ QuietBindings(bs)
        /\ scopeRevision \in [Org -> Nat]
    BY <1>1, ResetSays DEF MemoryInv, TypeOK
  <2>2. QED
    BY <2>1, QuietProjection
<1>3. vacant' = [l \in Location |-> IF Stale(app, target, instances, l) THEN None ELSE vacant[l]]
  BY DEF ResetAppBindings, Stale
<1>4. /\ vacant' \in [Location -> Nat \cup {None}]
      /\ \A l \in Location : \/ objects'[l] = objects[l] /\ vacant'[l] = vacant[l]
                             \/ objects'[l] = None /\ vacant'[l] = None
  BY <1>1, <1>2, <1>3 DEF ResetObjects, MemoryInv, TypeOK
<1>5. /\ legacy' = [r \in Legacy |-> IF r.app = app THEN <<target, legacy[r][2]>> ELSE legacy[r]]
      /\ UNCHANGED <<clock, session, active, lastFull, inventoryAt, probe>>
  BY DEF ResetAppBindings
<1>6. legacy' \in [Legacy -> Location]
  BY <1>5 DEF MemoryInv, TypeOK, Location
<1>7. QuietMemory
  BY <1>2, <1>4, <1>5, <1>6 DEF QuietMemory, MemoryInv, TypeOK
<1>8. QuietSessions
  BY <1>5, SameSessions
<1>9. QED
  BY <1>7, <1>8, QuietInv

LEMMA SameRevision ==
  ASSUME MemoryInv, UNCHANGED <<binding, scopeRevision>>
  PROVE  RevisionMoves
  BY DEF RevisionMoves, Told, MemoryInv, TypeOK

LEMMA ExpireMoves == MemoryInv /\ Expire => RevisionMoves
<1> SUFFICES ASSUME MemoryInv, Expire PROVE RevisionMoves
  OBVIOUS
<1>1. /\ objects \in Resources /\ binding \in Bindings /\ scopeRevision \in [Org -> Nat]
      /\ \A o \in Org : scopeRevision[o] >= scopeRevision[o]
  BY DEF MemoryInv, TypeOK
<1>2. projectAll(objects, binding, scopeRevision)
  BY DEF Expire
<1>3. QED
  BY <1>1, <1>2, ProjectionMoves DEF MemoryInv

LEMMA ResetMoves ==
  ASSUME MemoryInv, NEW app, NEW target \in Namespace, NEW instances,
         ResetAppBindings(app, target, instances)
  PROVE  RevisionMoves
<1>1. PICK objs, bs : objs = ResetObjects(app, target, instances) /\ bs = ResetBindings(app, target)
  OBVIOUS
<1>2. /\ objs \in Resources /\ bs \in Bindings /\ scopeRevision \in [Org -> Nat]
      /\ \A o \in Org : scopeRevision[o] >= scopeRevision[o]
      /\ projectAll(objs, bs, scopeRevision)
  BY <1>1, ResetSays DEF MemoryInv, TypeOK, QuietBindings
<1>3. \A i \in Installation : ToldOf(bs[i]) = ToldOf(binding[i])
  BY <1>1, ResetSays DEF ToldOf
<1>4. QED
  BY <1>2, <1>3, ProjectionMoves DEF MemoryInv

LEMMA ViewsMoves ==
  ASSUME MemoryInv, NEW wanted \in SUBSET Installation, Views(wanted)
  PROVE  RevisionMoves
<1>1. PICK gone \in SUBSET Bound :
        /\ projectAll(objects, ViewsKept(wanted, gone), ViewsRevisions(gone))
        /\ QuietBindings(ViewsKept(wanted, gone)) /\ ViewsRevisions(gone) \in [Org -> Nat]
        /\ UNCHANGED <<clock, session, active, lastFull, inventoryAt, legacy, history>>
  BY ViewsSays
<1>2. PICK bs, revisions : bs = ViewsKept(wanted, gone) /\ revisions = ViewsRevisions(gone)
  OBVIOUS
<1>3. /\ objects \in Resources /\ bs \in Bindings /\ revisions \in [Org -> Nat]
      /\ projectAll(objects, bs, revisions) /\ scopeRevision \in [Org -> Nat]
  BY <1>1, <1>2 DEF MemoryInv, TypeOK, QuietBindings
<1>4. ASSUME NEW o \in Org
      PROVE  /\ revisions[o] >= scopeRevision[o]
             /\ \A i \in gone : OrgOf[i] = o => revisions[o] > scopeRevision[o]
  <2>1. PICK S \in SUBSET Installation : S = {i \in gone : OrgOf[i] = o}
    BY DEF Bound
  <2>2. Cardinality(S) \in Nat /\ (S # {} => Cardinality(S) > 0) /\ scopeRevision[o] \in Nat
    BY <1>3, FiniteParts
  <2>3. revisions[o] = scopeRevision[o] + Cardinality(S)
    BY <1>2, <2>1 DEF ViewsRevisions
  <2>4. S # {} => revisions[o] > scopeRevision[o]
    BY <2>2, <2>3
  <2>5. \A i \in gone : OrgOf[i] = o => S # {}
    BY <2>1
  <2>6. revisions[o] >= scopeRevision[o]
    BY <2>2, <2>3
  <2>7. QED
    BY <2>4, <2>5, <2>6
<1>5. ASSUME NEW i \in Installation
      PROVE  \/ ToldOf(bs[i]) = ToldOf(binding[i])
             \/ revisions[OrgOf[i]] > scopeRevision[OrgOf[i]]
  <2>1. OrgOf[i] \in Org
    BY ObservationsAssumption
  <2>2. CASE i \in wanted \ Bound
    <3>1. bs[i] = NewBinding /\ binding[i] = None
      BY <1>2, <2>2 DEF ViewsKept, Bound
    <3>2. QED
      BY <3>1, NewBindingSays DEF ToldOf, NewBinding
  <2>3. CASE i \notin wanted \ Bound /\ i \in gone
    BY <1>4, <2>1, <2>3
  <2>4. CASE i \notin wanted \ Bound /\ i \notin gone
    BY <1>2, <2>4 DEF ViewsKept
  <2>5. QED
    BY <2>2, <2>3, <2>4
<1>6. QED
  BY <1>3, <1>4, <1>5, ProjectionMoves DEF MemoryInv

-----------------------------------------------------------------------------
LEMMA ReceiveInv ==
  ASSUME MemoryInv, NEW s \in Session, Receive(s)
  PROVE  MemoryInv' /\ RevisionMoves
<1>1. CASE Begin(s)
  BY <1>1, BeginInv
<1>2. CASE End(s)
  BY <1>2, EndInv
<1>3. CASE Heartbeat(s)
  BY <1>3, HeartbeatInv
<1>4. ASSUME NEW x \in Sighting, Objects(s, x[1], x[2])
      PROVE  MemoryInv' /\ RevisionMoves
  BY <1>4, ObjectsInv, SightingSays
<1>5. ASSUME NEW x \in Sighting, Upsert(s, x[1], x[2])
      PROVE  MemoryInv' /\ RevisionMoves
  BY <1>5, UpsertInv, SightingSays
<1>6. ASSUME NEW x \in Sighting, Delete(s, x[1], x[2].uid)
      PROVE  MemoryInv' /\ RevisionMoves
  BY <1>6, DeleteInv, SightingSays
<1>7. ASSUME NEW x \in Sighting, NEW h \in {"ready", "failed"}, Health(s, x[1], x[2].uid, x[2].rv, h)
      PROVE  MemoryInv' /\ RevisionMoves
  <2>1. h \in HealthValue
    BY DEF HealthValue
  <2>2. QED
    BY <1>7, <2>1, HealthInv, SightingSays
<1>8. QED
  BY <1>1, <1>2, <1>3, <1>4, <1>5, <1>6, <1>7 DEF Receive

LEMMA NextInv ==
  ASSUME MemoryInv, [Next]_vars
  PROVE  MemoryInv' /\ RevisionMoves
<1>1. ASSUME NEW s \in Session, Receive(s)
      PROVE  MemoryInv' /\ RevisionMoves
  BY <1>1, ReceiveInv
<1>2. ASSUME NEW s \in Session, Close(s)
      PROVE  MemoryInv' /\ RevisionMoves
  BY <1>2, CloseInv, SameRevision DEF Close, closeLocked, memory
<1>3. ASSUME NEW s \in Session, NEW c \in Collector, Open(c, s)
      PROVE  MemoryInv' /\ RevisionMoves
  BY <1>3, OpenInv, SameRevision DEF Open, memory
<1>4. ASSUME NEW wanted \in SUBSET Installation, Views(wanted)
      PROVE  MemoryInv' /\ RevisionMoves
  BY <1>4, ViewsInv, ViewsMoves
<1>5. ASSUME NEW r \in Resets, NEW instances, ResetAppBindings(r[1], r[2], instances)
      PROVE  MemoryInv' /\ RevisionMoves
  <2>1. r[2] \in Namespace
    BY CollectorsAssumption
  <2>2. QED
    BY <1>5, <2>1, ResetInv, ResetMoves
<1>6. CASE Expire
  BY <1>6, ExpireInv, ExpireMoves
<1>7. CASE Tick
  BY <1>7, TickInv, SameRevision DEF Tick, memory
<1>8. CASE UNCHANGED vars
  <2>1. /\ UNCHANGED <<memory, legacy, history>> /\ UNCHANGED <<session, active>>
        /\ clock' = clock /\ UNCHANGED <<binding, scopeRevision>>
    BY <1>8 DEF vars, memory
  <2>2. clock' \in Nat /\ clock' >= clock
    BY <2>1 DEF MemoryInv, TypeOK
  <2>3. QED
    BY <2>1, <2>2, SameMemory, SameSessions, SameRevision, QuietInv
<1>9. QED
  BY <1>1, <1>2, <1>3, <1>4, <1>5, <1>6, <1>7, <1>8 DEF Next

(***************************************************************************)
(* Whatever frames arrive over whatever connections, and however they mix  *)
(* with expiry, registry reads and migrations, the memory stays well-typed *)
(* and coherent (appstate.Memory).                                         *)
(***************************************************************************)
THEOREM MemoryInvariant == Spec => []MemoryInv
<1>1. MemoryInv /\ [Next]_vars => MemoryInv'
  BY NextInv
<1>2. QED
  BY InitInv, <1>1, PTL DEF Spec

(***************************************************************************)
(* No frame of a connection that was replaced, and no part of a list,      *)
(* reaches the inventory of a collector (Memory.apply).                    *)
(***************************************************************************)
THEOREM InventoryHasOneOwner == Spec => []OneConnectionOwnsInventory
<1>1. MemoryInv => OneConnectionOwnsInventory
  <2> SUFFICES ASSUME MemoryInv, NEW k \in Location, NEW l \in Location
               PROVE  /\ objects[k] # None => session[objects[k].by].synced
                      /\ objects[k] # None /\ objects[l] # None /\ Collects(k) = Collects(l)
                         => objects[k].by = objects[l].by
                      /\ objects[k] # None /\ active[Collects(k)] # None =>
                           objects[k].by = active[Collects(k)] \/ ~session[active[Collects(k)]].synced
    BY DEF OneConnectionOwnsInventory
  <2>1. QED
    BY DEF MemoryInv, InventoryIsListed, InventoryIsOne, InventoryIsCurrent
<1>2. QED
  BY MemoryInvariant, <1>1, PTL

(***************************************************************************)
(* Ready, of an application that needs a probe, always rests on a probe of *)
(* this workload and version that its own connection sent less than TTL    *)
(* ago (StreamSession.sample, applyHealth, Heartbeat).                     *)
(***************************************************************************)
THEOREM ReadyRestsOnProbe == Spec => []ReadyIsProbed
<1>1. MemoryInv => ReadyIsProbed
  <2> SUFFICES ASSUME MemoryInv, NEW i \in Bound, Answer(i).state = "ready", AppOf[i] \in HealthRequired
               PROVE  \E l \in Location :
                        /\ objects[l] # None /\ objects[l].inst = i
                        /\ probe[objects[l].by][<<l, objects[l].uid, objects[l].rv>>] # 0
                        /\ clock < probe[objects[l].by][<<l, objects[l].uid, objects[l].rv>>] + TTL
    BY DEF ReadyIsProbed
  <2>1. /\ i \in Installation /\ binding[i] \in memoryBinding /\ objects \in Resources
        /\ clock \in Nat /\ TTL \in Nat
    BY ObservationsAssumption DEF Bound, MemoryInv, TypeOK, Bindings
  <2>2. ProjectedResult(i, binding[i], objects, clock, Projected(i, binding[i], objects, clock))
    BY <2>1, ProjectedSays
  <2>3. PICK l \in Places(i, objects) : objects[l].health = "ready" /\ clock < objects[l].healthExpires
    BY <2>2 DEF ProjectedResult, Answer
  <2>4. l \in Location /\ objects[l] # None /\ objects[l].inst = i /\ objects[l] \in StoredResource
    BY <2>1, <2>3 DEF Places, Resources
  <2>5. PICK w : w = <<l, objects[l].uid, objects[l].rv>>
    OBVIOUS
  <2>6. /\ w \in Workload /\ probe[objects[l].by][w] # 0
        /\ objects[l].healthExpires <= probe[objects[l].by][w] + TTL
    BY <2>3, <2>4, <2>5 DEF MemoryInv, InventoryIsProbed, IsProbed
  <2>7. probe[objects[l].by][w] \in Nat /\ objects[l].healthExpires \in Nat
    BY <2>4, <2>6 DEF MemoryInv, TypeOK, StoredResource
  <2>8. clock < probe[objects[l].by][w] + TTL
    BY <2>1, <2>3, <2>6, <2>7
  <2>9. QED
    BY <2>4, <2>5, <2>6, <2>8
<1>2. QED
  BY MemoryInvariant, <1>1, PTL

LEMMA WitnessedSays ==
  ASSUME MemoryInv, NEW l \in Location, NEW at \in Nat \ {0}, SeenEmpty(at, l, vacant),
         clock < at + TTL
  PROVE  Witnessed(l)
<1>1. vacant[l] = None \/ vacant[l] \in Nat
  BY DEF MemoryInv, TypeOK
<1>2. clock \in Nat /\ TTL \in Nat
  BY ObservationsAssumption DEF MemoryInv, TypeOK
<1>3. QED
  BY <1>1, <1>2, NoneIsNothing DEF SeenEmpty, Witnessed

(***************************************************************************)
(* Absent, of an installation or of a registered legacy place, always      *)
(* rests on a report of that place younger than TTL, or on a reset, and    *)
(* nothing known elsewhere carries the identity (applySnapshotEnd, Delete, *)
(* Heartbeat, project, legacyView).                                        *)
(***************************************************************************)
THEOREM AbsentRestsOnReport == Spec => []AbsentIsWitnessed
<1>1. ASSUME MemoryInv, NEW i \in Bound, Answer(i).state = "absent"
      PROVE  /\ Witnessed(binding[i].loc)
             /\ \A l \in Location : objects[l] # None => objects[l].inst # i
  <2>1. /\ i \in Installation /\ binding[i] # None /\ binding[i] \in memoryBinding
        /\ objects \in Resources /\ clock \in Nat
    BY <1>1 DEF Bound, MemoryInv, TypeOK, Bindings
  <2>2. ProjectedResult(i, binding[i], objects, clock, Projected(i, binding[i], objects, clock))
    BY <2>1, ProjectedSays
  <2>3. /\ Places(i, objects) = {} /\ binding[i].loc # None /\ binding[i].absentAt # 0
        /\ objects[binding[i].loc] = None /\ clock < binding[i].absentAt + TTL
    BY <1>1, <2>2 DEF ProjectedResult, Answer
  <2>4. PICK l \in Location, at \in Nat \ {0} : l = binding[i].loc /\ at = binding[i].absentAt
    BY <2>1, <2>3 DEF memoryBinding
  <2>5. SeenEmpty(at, l, vacant)
    BY <1>1, <2>1, <2>3, <2>4 DEF MemoryInv, AbsenceIsSeen
  <2>6. Witnessed(l)
    BY <1>1, <2>3, <2>4, <2>5, WitnessedSays
  <2>7. QED
    BY <2>3, <2>4, <2>6 DEF Places
<1>2. ASSUME MemoryInv, NEW r \in Legacy, AnswerLegacy(r).state = "absent"
      PROVE  Witnessed(legacy[r])
  <2>1. PICK l \in Location, at \in Nat : l = legacy[r] /\ at = inventoryAt[Collects(l)]
    BY <1>2, CollectsType DEF MemoryInv, TypeOK
  <2>2. objects \in Resources /\ clock \in Nat
    BY <1>2 DEF MemoryInv, TypeOK
  <2>3. legacyView(l, r.uid, r.app, objects, at, clock).state = "absent"
    BY <1>2, <2>1 DEF AnswerLegacy
  <2>4. \A e \in Reason : Unknown(e).state # "absent"
    BY DEF Unknown
  <2>5. objects[l] = None
    <3>1. SUFFICES ASSUME objects[l] # None PROVE FALSE
      OBVIOUS
    <3>2. objects[l] \in StoredResource
      BY <2>2, <3>1 DEF Resources
    <3>3. ObservedView(objects[l], r.app, clock).state # "absent"
      BY <2>2, <3>2, ObservedViewSays
    <3>4. QED
      BY <2>3, <2>4, <3>1, <3>3 DEF legacyView, Reason
  <2>6. at # 0 /\ RuntimeView(clock, "absent", "RESOURCE_ABSENT", at).state = "absent"
    BY <2>3, <2>4, <2>5 DEF legacyView, Reason
  <2>7. clock < at + TTL
    BY <2>1, <2>2, <2>6, RuntimeViewSays DEF State, Reason
  <2>8. SeenEmpty(at, l, vacant)
    BY <1>2, <2>1, <2>5, <2>6 DEF MemoryInv, EmptyIsSeen
  <2>9. Witnessed(l)
    BY <1>2, <2>1, <2>6, <2>7, <2>8, WitnessedSays
  <2>10. QED
    BY <2>1, <2>9
<1>3. MemoryInv => AbsentIsWitnessed
  BY <1>1, <1>2 DEF AbsentIsWitnessed
<1>4. QED
  BY MemoryInvariant, <1>3, PTL

(***************************************************************************)
(* Every change of what an organization is told of its installations moves *)
(* its scope revision, and the revision never falls (projectAll,           *)
(* viewsLocked): a client that has the revision has the state.             *)
(***************************************************************************)
THEOREM RevisionsNameStates == Spec => RevisionNamesState
<1>1. MemoryInv /\ [Next]_vars =>
        \A o \in Org : /\ scopeRevision'[o] >= scopeRevision[o]
                       /\ Told(o)' # Told(o) => scopeRevision'[o] > scopeRevision[o]
  BY NextInv DEF RevisionMoves
<1>2. QED
  BY MemoryInvariant, <1>1, PTL DEF Spec, RevisionNamesState
=============================================================================
