----------------------------- MODULE AppCenter -----------------------------
(***************************************************************************)
(* What AppCenter offers for an application and what it then admits        *)
(* (appcenter/facts.go, operations/appcenter.go, appcenter_candidates.go,  *)
(* appcenter_admission.go, appcenter_commands.go).  A client reads facts,  *)
(* which are put together from a database snapshot, the observation memory *)
(* and the catalog at different moments; it submits a command bound to     *)
(* what it was shown; admission, under the application's lock, reads all   *)
(* of it again, and Control and Runtime besides.                           *)
(* A release is named by its version: its digests never change.  The       *)
(* policy revision, a digest, is the tuple it is computed from.            *)
(* Beside it other clients, of this organization or another, submit plain  *)
(* commands, which ask the catalog only.                                   *)
(* External: the market catalog (module Market), Control's grants, the     *)
(* workload, its collector and what Runtime makes of an operation.         *)
(***************************************************************************)
EXTENDS Integers, Sequences

CONSTANTS
  Client,
  Version,       \* versions, ordered as their numbers
  Policy,        \* the operator's command registry: version -> permitted actions
  Plain,         \* the plain commands that come in, as pairs of organization and action
  Uid,           \* identities a workload can have
  MaxRevision,   \* bound: revisions of an installation
  None

ASSUME AppCenterAssumption ==
  /\ Version \subseteq Nat /\ MaxRevision \in Nat
  /\ DOMAIN Policy \subseteq Version
  /\ Plain \subseteq {"own", "other"} \X {"install", "start", "stop", "restart", "delete", "upgrade", "adopt"}

VARIABLES
  listed,        \* the catalog's version of the application, or None
  lookup,        \* versions the market has answered for
  grant,         \* versions Control lets the organization install
  installation,  \* the row that is not removed, or None
  operation,     \* the admitted operation that has not ended, or None
  workload,      \* what Runtime sees
  seen,          \* what the observation memory holds of it, None when stale
  client         \* the requests

outside == <<listed, lookup, grant, installation, operation, workload, seen>>
vars == <<listed, lookup, grant, installation, operation, workload, seen, client>>

Absent == [state |-> "absent", uid |-> None]

Idle == [phase |-> "idle"]

Start(owners) ==
  /\ listed \in Version
  /\ lookup = {listed}
  /\ grant \in {{}, Version}
  /\ \/ installation = None /\ workload = Absent
     \/ \E o \in owners, v \in Version, u \in Uid :
          /\ installation = [owner |-> o, revision |-> 1, version |-> v, state |-> "installed"]
          /\ workload = [state |-> "running", uid |-> u]
  /\ operation = None
  /\ seen = None
  /\ client = [c \in Client |-> Idle]

Init == Start({"own", "other"})

(***************************************************************************)
(* What changes around the requests.  Each request remembers whether       *)
(* anything did since its facts were begun (quiet), and, once admission    *)
(* began, every version that was granted meanwhile.                        *)
(***************************************************************************)
Reading == {"rows", "facts", "projecting", "offered"}

Deciding(c) == client[c].phase \in {"entered", "resolved", "revised", "granted"}

Disturbed(grants) ==
  client' = [c \in Client |->
    CASE Deciding(c) -> [client[c] EXCEPT !.grants = @ \cup grants]
      [] client[c].phase \in Reading -> [client[c] EXCEPT !.quiet = FALSE]
      [] OTHER -> client[c]]

Relist(v) ==
  /\ listed # v /\ listed' = v
  /\ lookup' = lookup \cup ({v} \ {None})
  /\ Disturbed({})
  /\ UNCHANGED <<grant, installation, operation, workload, seen>>

Learn(v) ==
  /\ v \notin lookup /\ lookup' = lookup \cup {v}
  /\ Disturbed({})
  /\ UNCHANGED <<listed, grant, installation, operation, workload, seen>>

Regrant(to) ==
  /\ grant # to /\ grant' = to
  /\ Disturbed(to)
  /\ UNCHANGED <<listed, lookup, installation, operation, workload, seen>>

Switch(w) ==
  /\ workload.uid # None /\ workload # w /\ workload' = w
  /\ Disturbed({})
  /\ UNCHANGED <<listed, lookup, grant, installation, operation, seen>>

Observe ==
  /\ seen # workload /\ seen' = workload
  /\ Disturbed({})
  /\ UNCHANGED <<listed, lookup, grant, installation, operation, workload>>

Stale ==
  /\ seen # None /\ seen' = None
  /\ Disturbed({})
  /\ UNCHANGED <<listed, lookup, grant, installation, operation, workload>>

(***************************************************************************)
(* An operation ends.  The record of its end, if the operation is bound to *)
(* a row, waits for the row while an admission holds it, and changes the   *)
(* row only if its version or state does.  The versions differ only for an *)
(* upgrade of an installed row, so no result is refused (ResultApplies of  *)
(* module AppOperations).  What a failed operation had done to the         *)
(* workload may stay.                                                      *)
(***************************************************************************)
recordInstallationProgress(row, o, result) ==
  CASE result = "succeeded" /\ o.action = "delete" -> None
    [] result = "succeeded" /\ o.action # "delete" ->
         IF row.version = o.version /\ row.state = "installed" THEN row
         ELSE [row EXCEPT !.revision = @ + 1, !.version = o.version, !.state = "installed"]
    [] result = "failed" ->
         IF row.state \in {"installed", "failed"} THEN row
         ELSE [row EXCEPT !.revision = @ + 1, !.state = "failed"]

Executed(w, action, u) ==
  CASE action = "delete" -> Absent
    [] action \in {"install", "upgrade", "restart"} -> [state |-> "running", uid |-> u]
    [] action = "start" -> [state |-> "running", uid |-> IF w.uid = None THEN u ELSE w.uid]
    [] action = "stop" -> IF w.uid = None THEN w ELSE [w EXCEPT !.state = "stopped"]
    [] OTHER -> w

Finish(u, result) ==
  /\ operation # None /\ operation' = None
  /\ operation.bound => \A c \in Client : ~Deciding(c)
  /\ installation' = IF operation.bound
       THEN recordInstallationProgress(installation, operation, result) ELSE installation
  /\ workload' \in {Executed(workload, operation.action, u)}
                      \cup (IF result = "failed" THEN {workload} ELSE {})
  /\ Disturbed({})
  /\ UNCHANGED <<listed, lookup, grant, seen>>

(***************************************************************************)
(* Submit: a plain command for the listed version, under the application's *)
(* lock.  No grant is asked for; reserveInstallation lets an upgrade name  *)
(* any other version than the installed one, and leaves what is neither    *)
(* installed nor to be installed without a row.                            *)
(***************************************************************************)
Submit(org, action) ==
  LET row   == installation
      bound == row # None \/ action \in {"install", "start", "adopt"}
  IN  /\ operation = None /\ \A c \in Client : ~Deciding(c)
      /\ listed # None
      /\ row # None => /\ row.owner = org /\ row.revision < MaxRevision
                       /\ \/ row.version = listed
                          \/ action = "upgrade" /\ row.state = "installed"
      /\ operation' = [by |-> "plain", action |-> action, version |-> listed, bound |-> bound,
                       market |-> FALSE, grants |-> {}]
      /\ installation' =
           IF row # None THEN [row EXCEPT !.revision = @ + 1]
           ELSE IF bound
           THEN [owner |-> org, revision |-> 2, version |-> listed, state |-> "pending"]
           ELSE None
      /\ Disturbed({})
      /\ UNCHANGED <<listed, lookup, grant, workload, seen>>

-----------------------------------------------------------------------------
(***************************************************************************)
(* Facts: the rows of one snapshot, then the catalog with the observation. *)
(* Another organization's installation is not shown, and blocks.           *)
(***************************************************************************)
ReadRows(c) ==
  /\ client[c].phase = "idle"
  /\ installation # None => installation.revision < MaxRevision
  /\ client' = [client EXCEPT ![c] =
       [phase |-> "rows", quiet |-> TRUE, busy |-> operation # None, row |-> installation]]
  /\ UNCHANGED outside

Foreign(row) == row # None /\ row.owner # "own"

(***************************************************************************)
(* The actions a card can offer, in the order they are projected.          *)
(***************************************************************************)
KindsSlip(row, entry, view, busy) ==
  IF busy \/ Foreign(row) \/ view = None THEN <<>> ELSE
  CASE row # None /\ row.state = "installed" -> <<"start", "delete">>
    [] row = None /\ entry # None /\ view.state = "absent" -> <<"install">>
    [] OTHER -> <<>>

Kinds(row, entry, view, busy) ==
  LET upgrade == IF entry # None /\ entry > row.version THEN <<"upgrade">> ELSE <<>>
  IN  IF busy \/ Foreign(row) \/ view = None THEN <<>> ELSE
      CASE row # None /\ row.state = "installed" /\ view.state = "stopped" ->
             <<"start", "delete">> \o upgrade
        [] row # None /\ row.state = "installed" /\ view.state = "running" ->
             <<"stop", "restart", "delete">> \o upgrade
        [] row = None /\ entry # None /\ view.state = "absent" -> <<"install">>
        [] OTHER -> <<>>

ReadCatalog(c) ==
  LET q == client[c]
  IN  /\ q.phase = "rows"
      /\ client' = [client EXCEPT ![c] =
           [phase |-> "facts", quiet |-> q.quiet, row |-> q.row, entry |-> listed,
            view |-> seen, left |-> Kinds(q.row, listed, seen, q.busy),
            offers |-> {}, policy |-> None, found |-> None]]
      /\ UNCHANGED outside

(***************************************************************************)
(* resolve: the conditions on the installation, then the market's release, *)
(* or the operator's registry when the market has none.  The policy        *)
(* revision names the catalog's entry, read after the release.             *)
(***************************************************************************)
BoundSlip(action, version, row, entry) ==
  CASE action = "install" -> row = None
    [] action = "upgrade" -> row # None /\ row.state = "installed" /\ version # row.version
                             /\ entry = version
    [] OTHER -> row # None /\ row.state = "installed" /\ version = row.version

Bound(action, version, row, entry) ==
  CASE action = "install" -> row = None
    [] action = "upgrade" -> row # None /\ row.state = "installed" /\ version > row.version
                             /\ entry = version
    [] OTHER -> row # None /\ row.state = "installed" /\ version = row.version

ResolveHelm(version) == version = listed \/ version \in lookup

Permitted(action, version) == version \in DOMAIN Policy /\ action \in Policy[version]

MarketPolicy(version, row, entry) ==
  <<"market", IF entry = None THEN version ELSE entry, IF row = None THEN None ELSE row.version>>

LocalPolicy(version) == <<"registry", version, Policy[version]>>

(***************************************************************************)
(* One candidate is projected: the release of its version and the workload *)
(* observed.  The card has one policy revision, the last one resolved.     *)
(***************************************************************************)
Target(action, row, entry) ==
  IF action \in {"install", "upgrade"} THEN entry ELSE row.version

ProjectResolve(c) ==
  LET q == client[c]
      action  == Head(q.left)
      version == Target(action, q.row, q.entry)
      bound   == Bound(action, version, q.row, listed)
  IN  /\ q.phase = "facts" /\ q.left # <<>>
      /\ client' = [client EXCEPT ![c].phase = "projecting",
           ![c].found = CASE bound /\ ResolveHelm(version) -> "market"
                          [] bound /\ ~ResolveHelm(version) /\ Permitted(action, version) -> "registry"
                          [] OTHER -> "none"]
      /\ UNCHANGED outside

projectCandidate(c) ==
  LET q == client[c]
      action  == Head(q.left)
      version == Target(action, q.row, q.entry)
      shown   == /\ q.found # "none" /\ q.entry # None
                 /\ (action = "install") <=> (q.view.uid = None)
  IN  /\ q.phase = "projecting"
      /\ client' = [client EXCEPT ![c] =
           [q EXCEPT !.phase = "facts", !.left = Tail(@),
              !.offers = IF shown THEN @ \cup {[action |-> action, version |-> version]} ELSE @,
              !.policy = CASE q.found = "market" -> MarketPolicy(version, q.row, listed)
                           [] q.found = "registry" -> LocalPolicy(version)
                           [] OTHER -> @]]
      /\ UNCHANGED outside

Offered(c) ==
  /\ client[c].phase = "facts" /\ client[c].left = <<>>
  /\ client' = [client EXCEPT ![c].phase = "offered"]
  /\ UNCHANGED outside

-----------------------------------------------------------------------------
(***************************************************************************)
(* A command carries what the client was shown, for any action and version *)
(* it cares to name.  Admission takes the application's lock and that of   *)
(* the installation's row, which must be the one shown, until it ends.     *)
(***************************************************************************)
validateAppCenterInstallation(action, version, row) ==
  IF action = "install" THEN installation = None /\ row = None
  ELSE /\ row # None /\ installation = row
       /\ row.owner = "own" /\ row.state = "installed"
       /\ (action = "upgrade") <=> (version # row.version)

Enter(c, action, version) ==
  LET q == client[c]
  IN  /\ q.phase = "offered" /\ \A d \in Client : ~Deciding(d)
      /\ IF /\ validateAppCenterInstallation(action, version, q.row)
            /\ Bound(action, version, installation, listed)
         THEN client' = [client EXCEPT ![c] =
                [phase |-> "entered", action |-> action, version |-> version,
                 policy |-> q.policy, revised |-> None,
                 uid |-> IF action = "install" \/ q.view = None THEN None ELSE q.view.uid,
                 market |-> FALSE, grants |-> grant]]
         ELSE client' = [client EXCEPT ![c] = Idle]
      /\ UNCHANGED outside

Drop(c) == client' = [client EXCEPT ![c] = Idle] /\ UNCHANGED outside

Resolve(c) ==
  LET q == client[c]
  IN  /\ q.phase = "entered"
      /\ IF ResolveHelm(q.version)
         THEN client' = [client EXCEPT ![c].phase = "resolved", ![c].market = TRUE]
              /\ UNCHANGED outside
         ELSE IF Permitted(q.action, q.version)
         THEN client' = [client EXCEPT ![c].phase = "granted",
                                       ![c].revised = LocalPolicy(q.version)]
              /\ UNCHANGED outside
         ELSE Drop(c)

Revise(c) ==
  /\ client[c].phase = "resolved"
  /\ client' = [client EXCEPT ![c].phase = "revised",
       ![c].revised = MarketPolicy(client[c].version, installation, listed)]
  /\ UNCHANGED outside

(***************************************************************************)
(* Control is asked for the grant of every market release to be installed. *)
(***************************************************************************)
CheckInstallGrantSlip(c) ==
  /\ client[c].phase = "revised"
  /\ IF client[c].action # "install" \/ client[c].version \in grant
     THEN client' = [client EXCEPT ![c].phase = "granted"] /\ UNCHANGED outside
     ELSE Drop(c)

CheckInstallGrant(c) ==
  /\ client[c].phase = "revised"
  /\ IF client[c].action \notin {"install", "upgrade"} \/ client[c].version \in grant
     THEN client' = [client EXCEPT ![c].phase = "granted"] /\ UNCHANGED outside
     ELSE Drop(c)

(***************************************************************************)
(* Runtime's inspection must fit the action, and what was resolved must be *)
(* what the command expects; then the operation is committed, unless       *)
(* another one is active, and the installation gets a new revision.        *)
(***************************************************************************)
Inspected(action, w) ==
  CASE action = "install" -> w.state = "absent"
    [] action = "start" -> w.state = "stopped"
    [] action = "stop" -> w.state = "running"
    [] OTHER -> w.state \in {"running", "stopped"}

validateAppCenterExecution(q) == q.revised = q.policy /\ workload.uid = q.uid

Admit(c) ==
  LET q == client[c]
  IN  /\ q.phase = "granted"
      /\ IF /\ Inspected(q.action, workload) /\ validateAppCenterExecution(q)
            /\ operation = None
         THEN /\ operation' = [by |-> "appcenter", action |-> q.action, version |-> q.version,
                               bound |-> TRUE, market |-> q.market, grants |-> q.grants]
              /\ installation' = IF installation = None
                   THEN [owner |-> "own", revision |-> 2, version |-> q.version,
                         state |-> "pending"]
                   ELSE [installation EXCEPT !.revision = @ + 1]
              /\ client' = [d \in Client |->
                   IF d = c THEN Idle
                   ELSE IF client[d].phase \in Reading
                   THEN [client[d] EXCEPT !.quiet = FALSE] ELSE client[d]]
              /\ UNCHANGED <<listed, lookup, grant, workload, seen>>
         ELSE Drop(c)

(***************************************************************************)
(* Control or Runtime fails, or the client gives up.                       *)
(***************************************************************************)
Abandon(c) == client[c].phase # "idle" /\ Drop(c)

Next ==
  \/ \E v \in Version \cup {None} : Relist(v)
  \/ \E v \in Version : Learn(v)
  \/ \E g \in {{}, Version} : Regrant(g)
  \/ \E w \in [state : {"running", "stopped"}, uid : Uid] : Switch(w)
  \/ Observe \/ Stale
  \/ \E u \in Uid, result \in {"succeeded", "failed"} : Finish(u, result)
  \/ \E command \in Plain : Submit(command[1], command[2])
  \/ \E c \in Client :
       \/ ReadRows(c) \/ ReadCatalog(c) \/ Offered(c) \/ Abandon(c)
       \/ ProjectResolve(c) \/ projectCandidate(c)
       \/ \E v \in Version :
            \E a \in {"install", "start", "stop", "restart", "delete", "upgrade"} : Enter(c, a, v)
       \/ Resolve(c) \/ Revise(c) \/ CheckInstallGrant(c) \/ Admit(c)

Spec == Init /\ [][Next]_vars

-----------------------------------------------------------------------------
(***************************************************************************)
(* A candidate a card offers is one admission accepts, as long as nothing  *)
(* changed since the facts were begun, the workload is as it was observed  *)
(* and Control grants it: the projection and the admission, written apart, *)
(* agree.  A card carries the policy revision of one version, so that of   *)
(* its offers holds if they come from the market alone or not at all.      *)
(***************************************************************************)
Unmixed(offers) == \A x, y \in offers : ResolveHelm(x.version) = ResolveHelm(y.version)

OfferStands ==
  \A c \in Client :
    LET q == client[c]
    IN  q.phase = "offered" /\ q.quiet /\ q.view = workload =>
          \A o \in q.offers :
            /\ validateAppCenterInstallation(o.action, o.version, q.row)
            /\ Bound(o.action, o.version, installation, listed)
            /\ Inspected(o.action, workload)
            /\ Unmixed(q.offers) =>
                 q.policy = IF ResolveHelm(o.version)
                            THEN MarketPolicy(o.version, installation, listed)
                            ELSE LocalPolicy(o.version)

(***************************************************************************)
(* An upgrade that AppCenter admitted raises the installed version,        *)
(* whatever the card it came from had read when, whatever the client made  *)
(* of it and whatever plain commands came in between.                      *)
(***************************************************************************)
ByAppCenter == operation # None /\ operation.by = "appcenter"

UpgradeRises ==
  ByAppCenter /\ operation.action = "upgrade" => operation.version > installation.version

(***************************************************************************)
(* AppCenter admits a command to install or upgrade to a market release    *)
(* only if Control granted it while the command was being admitted:        *)
(* neither a listing nor an earlier answer is a grant (CheckInstallGrant). *)
(* A plain command for the listed release is admitted without any.         *)
(***************************************************************************)
GrantIsFresh ==
  ByAppCenter /\ operation.market /\ operation.action \in {"install", "upgrade"} =>
    operation.version \in operation.grants
=============================================================================
