---------------------------- MODULE Observations ----------------------------
(***************************************************************************)
(* How Station Core turns Kubernetes evidence into the state it reports    *)
(* (package internal/appstate): what one observation of a workload says,   *)
(* for how long it may be believed, and which observation belongs to which *)
(* installation.  Pure operators; module Collectors keeps the state.       *)
(*                                                                         *)
(* A location is a namespace and a workload name.  Each namespace belongs  *)
(* to one collector, which NewMemory checks.  Times are ticks of the Core  *)
(* clock and 0 is Go's zero time.                                          *)
(***************************************************************************)
EXTENDS Integers, FiniteSets

CONSTANTS Collector,     \* configured collectors
          Namespace,     \* the namespaces they watch
          Name,          \* workload names
          Owner,         \* the collector of each namespace
          Installation,  \* installation ids Core may have registered
          Org, OrgOf,    \* organizations, and the one of each installation
          App, AppOf,    \* applications, and the one of each installation
          HealthRequired,\* applications that are ready only with an HTTP probe
          Sighting,      \* what a frame may say: pairs of a location and a resource
          TTL, FullSync, \* observationTTL and fullSyncInterval in ticks
          None           \* an empty string or a nil pointer

Location == Namespace \X Name
Collects(l) == Owner[l[1]]

(***************************************************************************)
(* The facts of a Deployment that evaluate tells apart, as a set of flags: *)
(* an empty set is a converged workload.                                   *)
(***************************************************************************)
Flag == {"terminating", "ahead", "zero", "replicas", "failing", "behind"}
HealthValue == {"not_checked", "ready", "failed"}

(***************************************************************************)
(* inst is the installation whose complete identity (station, organization,*)
(* app, installation) the labels carry, None without any label, and        *)
(* "foreign" for anything else, an instance workload included.             *)
(***************************************************************************)
Resource ==
  [inst : Installation \cup {None, "foreign"}, uid : Nat, rv : Nat,
   flags : SUBSET Flag, meta : Nat, health : HealthValue]

ASSUME ObservationsAssumption ==
  /\ Owner \in [Namespace -> Collector] /\ IsFiniteSet(Installation)
  /\ OrgOf \in [Installation -> Org] /\ AppOf \in [Installation -> App]
  /\ HealthRequired \subseteq App /\ Sighting \subseteq Location \X Resource
  /\ TTL \in Nat \ {0} /\ FullSync \in Nat
  /\ None \notin Installation \cup Location \cup Nat

-----------------------------------------------------------------------------
(***************************************************************************)
(* The state a workload is in, the first flag in this order deciding.      *)
(***************************************************************************)
evaluate(o, required) ==
  IF "terminating" \in o.flags THEN <<"stopping", "RESOURCE_TERMINATING">>
  ELSE IF "ahead" \in o.flags THEN <<"unknown", "INVALID_OBSERVATION">>
  ELSE IF {"zero", "replicas"} \subseteq o.flags THEN <<"stopping", "REPLICAS_TERMINATING">>
  ELSE IF "zero" \in o.flags THEN <<"stopped", "SCALED_TO_ZERO">>
  ELSE IF "failing" \in o.flags THEN <<"degraded", "PROGRESS_DEADLINE_EXCEEDED">>
  ELSE IF o.health = "failed" THEN <<"degraded", "HEALTH_CHECK_FAILED">>
  ELSE IF "behind" \in o.flags THEN <<"starting", "REPLICAS_NOT_READY">>
  ELSE IF required /\ o.health # "ready" THEN <<"unknown", "HEALTH_NOT_OBSERVED">>
  ELSE <<"ready", "READY">>

(***************************************************************************)
(* What a view may say.                                                    *)
(***************************************************************************)
State == {"stopping", "unknown", "stopped", "degraded", "starting", "ready", "absent"}

Reason ==
  {"RESOURCE_TERMINATING", "INVALID_OBSERVATION", "REPLICAS_TERMINATING", "SCALED_TO_ZERO",
   "PROGRESS_DEADLINE_EXCEEDED", "HEALTH_CHECK_FAILED", "REPLICAS_NOT_READY",
   "HEALTH_NOT_OBSERVED", "READY", "OBSERVATION_EXPIRED", "IDENTITY_CONFLICT",
   "RESOURCE_ABSENT", "NOT_SYNCED"}

View ==
  [state : State \cup {None}, quality : {"known", "unknown"} \cup {None},
   reason : Reason \cup {None}, last : State \cup {None}]

Unknown(reason) ==
  [state |-> "unknown", quality |-> "unknown", reason |-> reason, last |-> None]

(***************************************************************************)
(* RuntimeView: evidence received at a time is believed for TTL ticks.     *)
(***************************************************************************)
RuntimeView(now, state, reason, received) ==
  LET last == IF state = "unknown" THEN None ELSE state IN
  IF received > now THEN Unknown("INVALID_OBSERVATION")
  ELSE IF now >= received + TTL THEN [Unknown("OBSERVATION_EXPIRED") EXCEPT !.last = last]
  ELSE [state |-> state, reason |-> reason, last |-> last,
        quality |-> IF state = "unknown" THEN "unknown" ELSE "known"]

(***************************************************************************)
(* What a stored resource says now: a probe older than its own deadline is *)
(* no probe.                                                               *)
(***************************************************************************)
ObservedView(o, app, now) ==
  LET fact == IF now < o.received + TTL /\ now >= o.healthExpires
                THEN [o EXCEPT !.health = "not_checked"] ELSE o
      verdict == evaluate(fact, app \in HealthRequired)
  IN RuntimeView(now, verdict[1], verdict[2], o.received)

(***************************************************************************)
(* project: the view of one registered installation, and where its         *)
(* workload was found.  Two workloads with its identity, or a workload     *)
(* that moved while its old place is still taken, are a conflict.  (The    *)
(* code's COLLECTOR_SCOPE_CHANGED needs a location outside the             *)
(* configuration, which a binding of this process never has.)              *)
(***************************************************************************)
project(i, b, objects, now) ==
  LET places == {l \in Location : objects[l] # None /\ objects[l].inst = i}
      place  == CHOOSE l \in places : TRUE
      moved  == b.loc # None /\ b.loc # place /\ objects[b.loc] # None
  IN IF Cardinality(places) > 1 \/ (places # {} /\ moved)
       THEN [b EXCEPT !.view = Unknown("IDENTITY_CONFLICT")]
     ELSE IF places # {}
       THEN [b EXCEPT !.loc = place, !.uid = objects[place].uid, !.absentAt = 0,
                      !.view = ObservedView(objects[place], AppOf[i], now)]
     ELSE [b EXCEPT !.view =
             IF b.loc # None /\ objects[b.loc] # None
               THEN RuntimeView(now, "unknown", "IDENTITY_CONFLICT", objects[b.loc].received)
             ELSE IF b.loc # None /\ b.absentAt # 0
               THEN RuntimeView(now, "absent", "RESOURCE_ABSENT", b.absentAt)
             ELSE Unknown("NOT_SYNCED")]

(***************************************************************************)
(* The workload a binding stands for: at its place, with its UID and its   *)
(* complete identity.                                                      *)
(***************************************************************************)
Exact(i, b, objects) ==
  /\ b.loc # None /\ objects[b.loc] # None
  /\ objects[b.loc].uid = b.uid /\ objects[b.loc].inst = i

(***************************************************************************)
(* The projection of one binding with its revision: a reason of            *)
(* HEALTH_NOT_OBSERVED keeps the last known state, and any change of what  *)
(* the view says, or of the metadata, takes the next revision.             *)
(***************************************************************************)
Projected(i, b, objects, now) ==
  LET p == project(i, b, objects, now)
      view == IF p.view.reason = "HEALTH_NOT_OBSERVED" /\ b.view.last # None
                THEN [p.view EXCEPT !.last = b.view.last] ELSE p.view
      semantic == <<p.uid, view,
                    IF Exact(i, p, objects) THEN objects[p.loc].meta ELSE None>>
  IN [p EXCEPT !.view = view, !.semantic = semantic,
               !.revision = @ + IF semantic = b.semantic THEN 0 ELSE 1]

(***************************************************************************)
(* legacyView: an application of the Studio registry that has no           *)
(* installation, seen at its registered place by its UID and unlabelled.   *)
(***************************************************************************)
legacyView(loc, uid, app, objects, inventoryAt, now) ==
  LET o == objects[loc] IN
  IF o # None
    THEN IF o.uid = uid /\ o.inst = None THEN ObservedView(o, app, now)
         ELSE Unknown("IDENTITY_CONFLICT")
  ELSE IF inventoryAt # 0 THEN RuntimeView(now, "absent", "RESOURCE_ABSENT", inventoryAt)
  ELSE Unknown("NOT_SYNCED")
=============================================================================
