----------------------------- MODULE Collectors -----------------------------
(***************************************************************************)
(* The observation memory of one Core process (appstate.Memory) and the    *)
(* streams that feed it.  Each method holds m.mu from its first line to    *)
(* its last, so each is one action.  A collector that lost its connection  *)
(* opens another while the handler of the lost one may still hold its      *)
(* session and frames that arrived before.  Nothing here is persisted: a   *)
(* new process starts again from Init with another boot id.                *)
(*                                                                         *)
(* probe and vacant are history variables for the properties: when a       *)
(* connection last reported a successful probe of a workload (0: never),   *)
(* and when a frame last reported a location as empty (0: it has not, or   *)
(* reported a workload since; None: a reset dropped that workload).        *)
(***************************************************************************)
EXTENDS Observations

CONSTANTS Session,        \* connections, as many as the bound allows
          Legacy,         \* registered applications without an installation:
                          \*   records [app, loc, uid]
          Resets,         \* namespace migrations: pairs of an App and a namespace
          MaxInventory,   \* maxInventory
          MaxBindings,    \* maxBindings
          MaxClock, MaxRevision   \* named bounds of the instance

(***************************************************************************)
(* A stored resource: the observation, when it was received, until when    *)
(* its health counts and (history) the connection it came over.  A session *)
(* keeps the list it is receiving; a binding the place and the UID of its  *)
(* workload, and what was last said of it.                                 *)
(***************************************************************************)
StoredResource ==
  [inst : Installation \cup {None, "foreign"}, uid : Nat, rv : Nat, flags : SUBSET Flag,
   meta : Nat, health : HealthValue, received : Nat, healthExpires : Nat, by : Session]

StreamSession ==
  [collector : Collector, lastFrame : Nat, synced : BOOLEAN, closed : BOOLEAN, started : Nat,
   staging : (UNION {[D -> StoredResource] : D \in SUBSET Location}) \cup {None}]

memoryBinding ==
  [loc : Location \cup {None}, uid : Nat \cup {None}, absentAt : Nat, revision : Nat,
   semantic : ((Nat \cup {None}) \X View \X (Nat \cup {None})) \cup {None}, view : View]

ASSUME CollectorsAssumption ==
  /\ Legacy \subseteq [app : App, loc : Location, uid : Nat]
  /\ Resets \subseteq App \X Namespace
  /\ MaxInventory \in Nat /\ MaxBindings \in Nat
  /\ MaxClock \in Nat /\ MaxRevision \in Nat
  /\ None \notin Session \cup StoredResource \cup StreamSession \cup memoryBinding

VARIABLES
  clock,
  session,       \* StreamSession: None before Open
  active,        \* memoryCollector.active
  objects,       \* memoryCollector.objects of all collectors, by location
  lastFull,      \* memoryCollector.lastFull
  inventoryAt,   \* memoryCollector.inventoryAt
  binding,       \* Memory.bindings: None for an installation that has none
  scopeRevision, \* Memory.scopeRevision
  legacy,        \* Memory.legacy: the location of each record
  probe, vacant  \* history

memory  == <<objects, lastFull, inventoryAt, binding, scopeRevision>>
history == <<probe, vacant>>
vars    == <<clock, session, active, memory, legacy, history>>

Workload == {<<x[1], x[2].uid, x[2].rv>> : x \in Sighting}

Stored(o, now, s) ==
  [inst |-> o.inst, uid |-> o.uid, rv |-> o.rv, flags |-> o.flags, meta |-> o.meta,
   health |-> o.health, received |-> now, healthExpires |-> now + TTL, by |-> s]

Reported(o) ==
  [inst |-> o.inst, uid |-> o.uid, rv |-> o.rv, flags |-> o.flags, meta |-> o.meta,
   health |-> o.health]

NewBinding ==
  [loc |-> None, uid |-> None, absentAt |-> 0, revision |-> 0, semantic |-> None,
   view |-> [state |-> None, quality |-> None, reason |-> None, last |-> None]]

NewMemory ==
  /\ clock = 1
  /\ session = [s \in Session |-> None]
  /\ active = [c \in Collector |-> None]
  /\ objects = [l \in Location |-> None]
  /\ lastFull = [c \in Collector |-> 0] /\ inventoryAt = [c \in Collector |-> 0]
  /\ binding = [i \in Installation |-> None]
  /\ scopeRevision = [o \in Org |-> 0]
  /\ legacy = [r \in Legacy |-> r.loc]
  /\ probe = [s \in Session |-> [w \in Workload |-> 0]] /\ vacant = [l \in Location |-> 0]

Bound == {i \in Installation : binding[i] # None}

-----------------------------------------------------------------------------
(***************************************************************************)
(* projectAll over the bindings bs and the resources objs: each view is    *)
(* computed again, and the scope of an organization advances with every    *)
(* binding of it that changed.  The last disjunct bounds the instance.     *)
(***************************************************************************)
projectAll(objs, bs, revisions) ==
  LET next == [i \in Installation |->
                 IF bs[i] = None THEN None ELSE Projected(i, bs[i], objs, clock)]
      changed(o) == {i \in Installation : /\ bs[i] # None /\ OrgOf[i] = o
                                          /\ next[i].revision # bs[i].revision}
  IN /\ objects' = objs /\ binding' = next
     /\ scopeRevision' = [o \in Org |-> revisions[o] + Cardinality(changed(o))]
     /\ \A o \in Org : scopeRevision'[o] <= MaxRevision

(***************************************************************************)
(* A session is live until it is closed or replaced, is silent for TTL, or *)
(* takes TTL for one list.  (The start of a list that is over is set back  *)
(* to 0: nothing reads it again.)                                          *)
(***************************************************************************)
liveSlip(s) ==
  /\ clock < session[s].lastFrame + TTL
  /\ session[s].staging = None \/ clock < session[s].started + TTL

live(s) ==
  /\ ~session[s].closed /\ active[session[s].collector] = s
  /\ clock < session[s].lastFrame + TTL
  /\ session[s].staging = None \/ clock < session[s].started + TTL

Closed(r) == [r EXCEPT !.closed = TRUE, !.staging = None, !.started = 0]

WithoutSession(act, s) == [c \in Collector |-> IF act[c] = s THEN None ELSE act[c]]

(***************************************************************************)
(* Open: a collector whose session is live is told to come back (no        *)
(* change, so no step here); a dead one is closed and replaced.            *)
(***************************************************************************)
Open(c, s) ==
  /\ session[s] = None
  /\ active[c] # None => ~live(active[c])
  /\ session' = [r \in Session |->
       IF r = s THEN [collector |-> c, lastFrame |-> clock, synced |-> FALSE,
                      closed |-> FALSE, staging |-> None, started |-> 0]
       ELSE IF r = active[c] THEN Closed(session[r]) ELSE session[r]]
  /\ active' = [active EXCEPT ![c] = s]
  /\ UNCHANGED <<clock, memory, legacy, history>>

(***************************************************************************)
(* closeLocked: the handler returns, its timer finds the session dead, or  *)
(* a frame was refused.  Only the session itself is forgotten.             *)
(***************************************************************************)
closeLocked(s) ==
  /\ session' = [session EXCEPT ![s] = Closed(@)]
  /\ active' = WithoutSession(active, s)
  /\ UNCHANGED <<clock, memory, legacy, history>>

Close(s) == session[s] # None /\ ~session[s].closed /\ closeLocked(s)

(***************************************************************************)
(* apply: a frame of a dead session and a frame that is not valid close    *)
(* the session and publish nothing; an accepted one changes the session,   *)
(* the resources and the bindings, and projects them all.                  *)
(***************************************************************************)
Accepted(s, valid, next, objs, bs) ==
  /\ session[s] # None /\ live(s) /\ valid
  /\ session' = [session EXCEPT ![s] = [next EXCEPT !.lastFrame = clock]]
  /\ projectAll(objs, bs, scopeRevision)
  /\ UNCHANGED <<clock, active, legacy>>

(***************************************************************************)
(* A relist is not a new probe: an unprobed observation that agrees with   *)
(* the stored one keeps its health and that health's deadline, within one  *)
(* connection only.                                                        *)
(***************************************************************************)
sampleSlip(s, l, o) ==
  IF /\ o.health = "not_checked" /\ objects[l] # None
     /\ [Reported(objects[l]) EXCEPT !.health = "not_checked"] = o
    THEN [Stored(o, clock, s) EXCEPT !.health = objects[l].health,
                                     !.healthExpires = objects[l].healthExpires]
    ELSE Stored(o, clock, s)

sample(s, l, o) ==
  IF /\ session[s].synced /\ o.health = "not_checked" /\ objects[l] # None
     /\ [Reported(objects[l]) EXCEPT !.health = "not_checked"] = o
    THEN [Stored(o, clock, s) EXCEPT !.health = objects[l].health,
                                     !.healthExpires = objects[l].healthExpires]
    ELSE Stored(o, clock, s)

Probed(l, o, s) ==
  IF o.health = "ready" THEN [probe EXCEPT ![s][<<l, o.uid, o.rv>>] = clock] ELSE probe

Own(s, l) == Collects(l) = session[s].collector
Listing(s) == session[s].staging # None
Watching(s) == session[s].synced /\ ~Listing(s)

(***************************************************************************)
(* snapshot-begin.                                                         *)
(***************************************************************************)
BeginSlip(s) ==
  LET c == session[s].collector IN
  /\ Accepted(s, ~Listing(s),
              [session[s] EXCEPT !.started = clock, !.staging = [l \in {} |-> None]],
              [l \in Location |-> IF Own(s, l) THEN None ELSE objects[l]],
              [i \in Installation |->
                 IF binding[i] # None /\ binding[i].loc # None
                   THEN [binding[i] EXCEPT !.absentAt = clock] ELSE binding[i]])
  /\ inventoryAt' = [inventoryAt EXCEPT ![c] = clock]
  /\ UNCHANGED <<lastFull, history>>

Begin(s) ==
  /\ Accepted(s, ~Listing(s),
              [session[s] EXCEPT !.started = clock, !.staging = [l \in {} |-> None]],
              objects, binding)
  /\ UNCHANGED <<lastFull, inventoryAt, history>>

(***************************************************************************)
(* snapshot-objects, one object of the frame at a time: the frame is       *)
(* private staging until snapshot-end, and a frame with one bad object     *)
(* discards all of it.                                                     *)
(***************************************************************************)
Objects(s, l, o) ==
  /\ Accepted(s, /\ Listing(s) /\ Own(s, l) /\ l \notin DOMAIN session[s].staging
                 /\ Cardinality(DOMAIN session[s].staging) < MaxInventory,
              [session[s] EXCEPT !.staging =
                 [k \in DOMAIN @ \cup {l} |-> IF k = l THEN sample(s, l, o) ELSE @[k]]],
              objects, binding)
  /\ probe' = Probed(l, o, s)
  /\ UNCHANGED <<lastFull, inventoryAt, vacant>>

(***************************************************************************)
(* snapshot-end with the count of the list: the staged list becomes the    *)
(* inventory of the collector, and each of its bindings whose place the    *)
(* list does not name is absent from now on.                               *)
(***************************************************************************)
End(s) ==
  LET mine == {l \in Location : Own(s, l)}
      list == session[s].staging
  IN /\ Accepted(s, Listing(s),
                 [session[s] EXCEPT !.staging = None, !.started = 0, !.synced = TRUE],
                 [l \in Location |-> IF l \notin mine THEN objects[l]
                                     ELSE IF l \in DOMAIN list THEN list[l] ELSE None],
                 [i \in Installation |->
                    IF binding[i] # None /\ binding[i].loc \in mine \ DOMAIN list
                      THEN [binding[i] EXCEPT !.absentAt = clock] ELSE binding[i]])
     /\ lastFull' = [lastFull EXCEPT ![session[s].collector] = session[s].started]
     /\ inventoryAt' = [inventoryAt EXCEPT ![session[s].collector] = session[s].started]
     /\ vacant' = [l \in Location |-> IF l \notin mine THEN vacant[l]
                                      ELSE IF l \in DOMAIN list THEN 0 ELSE clock]
     /\ UNCHANGED probe

(***************************************************************************)
(* upsert and delete, the increments between two lists.                    *)
(***************************************************************************)
Upsert(s, l, o) ==
  /\ Accepted(s, /\ Watching(s) /\ Own(s, l)
                 /\ \/ objects[l] # None
                    \/ Cardinality({k \in Location : Own(s, k) /\ objects[k] # None}) < MaxInventory,
              session[s], [objects EXCEPT ![l] = sample(s, l, o)], binding)
  /\ probe' = Probed(l, o, s) /\ vacant' = [vacant EXCEPT ![l] = 0]
  /\ UNCHANGED <<lastFull, inventoryAt>>

Delete(s, l, uid) ==
  LET matches == objects[l] # None /\ objects[l].uid = uid IN
  /\ Accepted(s, Watching(s) /\ Own(s, l), session[s],
              IF matches THEN [objects EXCEPT ![l] = None] ELSE objects,
              [i \in Installation |->
                 IF matches /\ binding[i] # None /\ binding[i].loc = l /\ binding[i].uid = uid
                   THEN [binding[i] EXCEPT !.absentAt = clock] ELSE binding[i]])
  /\ vacant' = IF matches THEN [vacant EXCEPT ![l] = clock] ELSE vacant
  /\ UNCHANGED <<lastFull, inventoryAt, probe>>

(***************************************************************************)
(* heartbeat: the watch is alive, so what it showed is still so; never a   *)
(* probe.  It is refused when the last full list is too old.               *)
(***************************************************************************)
Heartbeat(s) ==
  LET c == session[s].collector
      mine == {l \in Location : Collects(l) = c}
      renewed(l) == l \in mine /\ objects[l] # None
  IN /\ Accepted(s, Watching(s) /\ clock < lastFull[c] + FullSync, session[s],
                 [l \in Location |-> IF renewed(l) THEN [objects[l] EXCEPT !.received = clock]
                                     ELSE objects[l]],
                 [i \in Installation |->
                    IF binding[i] # None /\ binding[i].loc \in mine /\ binding[i].absentAt # 0
                      THEN [binding[i] EXCEPT !.absentAt = clock] ELSE binding[i]])
     /\ inventoryAt' = [inventoryAt EXCEPT ![c] = clock]
     /\ vacant' = [l \in Location |-> IF l \in mine /\ vacant[l] \notin {0, None} THEN clock
                                      ELSE vacant[l]]
     /\ UNCHANGED <<lastFull, probe>>

(***************************************************************************)
(* health: a probe of exactly the stored workload; another UID or version, *)
(* an instance, a terminating or a stopped workload is passed over.        *)
(***************************************************************************)
Health(s, l, uid, rv, health) ==
  LET o == objects[l]
      matches == /\ o # None /\ o.uid = uid /\ o.rv = rv /\ o.inst # "foreign"
                 /\ o.flags \cap {"terminating", "zero"} = {}
  IN /\ Accepted(s, Watching(s) /\ Own(s, l), session[s],
                 IF matches THEN [objects EXCEPT ![l].health = health,
                                                 ![l].healthExpires = clock + TTL]
                 ELSE objects, binding)
     /\ probe' = Probed(l, [uid |-> uid, rv |-> rv, health |-> health], s)
     /\ UNCHANGED <<lastFull, inventoryAt, vacant>>

(***************************************************************************)
(* Receive, one action for each kind of frame; Close stands for every      *)
(* frame that does not decode, is not valid, names another sync, states    *)
(* another count, or comes too late.                                       *)
(***************************************************************************)
Receive(s) ==
  \/ Begin(s) \/ End(s) \/ Heartbeat(s)
  \/ \E x \in Sighting :
       \/ Objects(s, x[1], x[2])
       \/ Upsert(s, x[1], x[2])
       \/ Delete(s, x[1], x[2].uid)
       \/ \E h \in {"ready", "failed"} : Health(s, x[1], x[2].uid, x[2].rv, h)

-----------------------------------------------------------------------------
(***************************************************************************)
(* viewsLocked with the installations that the caller's transaction read:  *)
(* unknown ones are bound, and at the limit the bindings outside the       *)
(* caller's registry are given up, which their organization can see.       *)
(***************************************************************************)
viewsLockedSlip(wanted) ==
  LET add  == wanted \ Bound
      full == Cardinality(Bound) + Cardinality(add) > MaxBindings
      kept == [i \in Installation |->
                 IF i \in add THEN NewBinding
                 ELSE IF full /\ i \notin wanted THEN None ELSE binding[i]]
  IN /\ Cardinality(wanted) <= MaxBindings
     /\ projectAll(objects, kept, scopeRevision)
     /\ UNCHANGED <<clock, session, active, lastFull, inventoryAt, legacy, history>>

viewsLocked(wanted) ==
  LET add  == wanted \ Bound
      full == Cardinality(Bound) + Cardinality(add) > MaxBindings
      gone == IF full THEN Bound \ wanted ELSE {}
      kept == [i \in Installation |->
                 IF i \in add THEN NewBinding ELSE IF i \in gone THEN None ELSE binding[i]]
  IN /\ Cardinality(wanted) <= MaxBindings
     /\ projectAll(objects, kept, [o \in Org |-> scopeRevision[o]
                                     + Cardinality({i \in gone : OrgOf[i] = o})])
     /\ UNCHANGED <<clock, session, active, lastFull, inventoryAt, legacy, history>>

Views(wanted) == viewsLocked(wanted)

(***************************************************************************)
(* Expire, run every second: dead sessions are closed, views recomputed.   *)
(***************************************************************************)
Expire ==
  LET dead == {s \in Session : session[s] # None /\ active[session[s].collector] = s /\ ~live(s)}
  IN /\ session' = [s \in Session |-> IF s \in dead THEN Closed(session[s]) ELSE session[s]]
     /\ active' = [c \in Collector |-> IF active[c] \in dead THEN None ELSE active[c]]
     /\ projectAll(objects, binding, scopeRevision)
     /\ UNCHANGED <<clock, lastFull, inventoryAt, legacy, history>>

(***************************************************************************)
(* ResetAppBindings after a namespace migration: what is known of the      *)
(* application outside the target namespace is forgotten.  The objects     *)
(* that name the application and no installation of it are some of the     *)
(* foreign ones, instances.                                                *)
(***************************************************************************)
ForeignPlaces == {l \in Location : objects[l] # None /\ objects[l].inst = "foreign"}

ResetAppBindings(app, target, instances) ==
  LET stale(l) == /\ objects[l] # None /\ l[1] # target
                  /\ \/ objects[l].inst \in Installation /\ AppOf[objects[l].inst] = app
                     \/ l \in instances
      reset(i) == /\ binding[i] # None /\ AppOf[i] = app
                  /\ binding[i].loc = None \/ binding[i].loc[1] # target
  IN /\ projectAll([l \in Location |-> IF stale(l) THEN None ELSE objects[l]],
                   [i \in Installation |->
                      IF reset(i) THEN [binding[i] EXCEPT !.loc = None, !.uid = None, !.absentAt = 0]
                      ELSE binding[i]],
                   scopeRevision)
     /\ legacy' = [r \in Legacy |-> IF r.app = app THEN <<target, legacy[r][2]>> ELSE legacy[r]]
     /\ vacant' = [l \in Location |-> IF stale(l) THEN None ELSE vacant[l]]
     /\ UNCHANGED <<clock, session, active, lastFull, inventoryAt, probe>>

Tick ==
  /\ clock < MaxClock /\ clock' = clock + 1
  /\ UNCHANGED <<session, active, memory, legacy, history>>

Next ==
  \/ \E s \in Session : Receive(s) \/ Close(s) \/ \E c \in Collector : Open(c, s)
  \/ \E wanted \in SUBSET Installation : Views(wanted)
  \/ \E r \in Resets : \E instances \in SUBSET ForeignPlaces :
       ResetAppBindings(r[1], r[2], instances)
  \/ Expire \/ Tick

Spec == NewMemory /\ [][Next]_vars

-----------------------------------------------------------------------------
(***************************************************************************)
(* What a reader is told at this moment: every reader projects again.      *)
(***************************************************************************)
Answer(i) == Projected(i, binding[i], objects, clock).view
AnswerLegacy(r) ==
  legacyView(legacy[r], r.uid, r.app, objects, inventoryAt[Collects(legacy[r])], clock)

(***************************************************************************)
(* The inventory of a collector is the work of one connection that listed  *)
(* it completely (Memory.apply): a frame that an old handler still holds   *)
(* never reaches the inventory of its successor, and no list is published  *)
(* in part.                                                                *)
(***************************************************************************)
OneConnectionOwnsInventory ==
  \A k, l \in Location :
    LET now == active[Collects(k)] IN
    /\ objects[k] # None => session[objects[k].by].synced
    /\ objects[k] # None /\ objects[l] # None /\ Collects(k) = Collects(l)
       => objects[k].by = objects[l].by
    /\ objects[k] # None /\ now # None => objects[k].by = now \/ ~session[now].synced

(***************************************************************************)
(* An application that needs a probe is reported ready only while a probe  *)
(* of this very workload and version, over the connection that reported    *)
(* it, is younger than TTL: neither a relist, a heartbeat nor a reconnect  *)
(* carries an old probe further (StreamSession.sample, Heartbeat).         *)
(***************************************************************************)
ReadyIsProbed ==
  \A i \in Bound :
    Answer(i).state = "ready" /\ AppOf[i] \in HealthRequired =>
      \E l \in Location :
        LET at == probe[objects[l].by][<<l, objects[l].uid, objects[l].rv>>] IN
        /\ objects[l] # None /\ objects[l].inst = i
        /\ at # 0 /\ clock < at + TTL

(***************************************************************************)
(* An installation is reported absent, and the registered place of a       *)
(* legacy application empty, only while a frame younger than TTL said so   *)
(* of that place and nothing with the installation's identity is known     *)
(* elsewhere (End, Delete, Heartbeat, project); or a migration made the    *)
(* memory forget the workload that a frame had reported there.             *)
(***************************************************************************)
Witnessed(l) == vacant[l] = None \/ (vacant[l] # 0 /\ clock < vacant[l] + TTL)

AbsentIsWitnessed ==
  /\ \A i \in Bound : Answer(i).state = "absent" =>
       /\ Witnessed(binding[i].loc)
       /\ \A l \in Location : objects[l] # None => objects[l].inst # i
  /\ \A r \in Legacy : AnswerLegacy(r).state = "absent" =>
       Witnessed(legacy[r])

(***************************************************************************)
(* A scope revision names one state: whatever a step changes in what an    *)
(* organization is told of its installations, a binding given up at the    *)
(* limit included, the revision of its scope moves with it and never back  *)
(* (projectAll, viewsLocked).                                              *)
(***************************************************************************)
Told(o) == [i \in {j \in Installation : OrgOf[j] = o} |->
              IF binding[i] = None THEN None ELSE binding[i].semantic]

RevisionNamesState ==
  [][\A o \in Org : /\ scopeRevision'[o] >= scopeRevision[o]
                    /\ Told(o)' # Told(o) => scopeRevision'[o] > scopeRevision[o]]_vars
=============================================================================
