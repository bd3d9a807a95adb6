---------------------------- MODULE Installations ----------------------------
(***************************************************************************)
(* The tables of the Station database that the lifecycle worker and the    *)
(* transition coordinator share (package internal/operations):             *)
(*                                                                         *)
(*   installation  station.app_installations, with the release binding of  *)
(*                 station.preinstalled_installation_bindings as a field;   *)
(*   operation     station.app_operations, with the release binding of     *)
(*                 station.preinstalled_operation_bindings and the removed  *)
(*                 installation a reinstallation names (kept in the code    *)
(*                 as part of request_hash) as fields;                      *)
(*   transition    station.app_installation_transitions;                   *)
(*   audit         station.audit_events, the lifecycle events only.        *)
(*                                                                         *)
(* A table is a function from the primary keys in use to rows.  Keys are   *)
(* UUIDv7 in the code; only their creation order matters, so they are      *)
(* numbers given out in order.  A release (binding or snapshot) is         *)
(* abstracted to its version and a tag for its content digests.            *)
(***************************************************************************)
EXTENDS Naturals

CONSTANTS App,              \* application ids
          Version,          \* application versions, ordered as numbers
          Content,          \* digests a release of a version may have
          User, Org, OrgOf, \* administrators and the organization of each
          Key,              \* idempotency keys
          MaxInstallations, MaxOperations, MaxTransitions, \* named bounds
          None              \* SQL NULL / the empty string

ASSUME InstallationsAssumption ==
  /\ Version \subseteq Nat
  /\ OrgOf \in [User -> Org]
  /\ MaxInstallations \in Nat /\ MaxOperations \in Nat /\ MaxTransitions \in Nat
  /\ None \notin Nat

VARIABLES installation, operation, transition, audit,
          applock   \* the submission that holds an App's advisory lock across steps

tables == <<installation, operation, transition, audit>>

InstallationID == 1..MaxInstallations
OperationID    == 1..MaxOperations
TransitionID   == 1..MaxTransitions

Release == [version : Version, content : Content]

Action    == {"install", "upgrade", "start", "stop", "restart", "delete", "adopt"}
Kind      == {"plain", "preinstalled", "appcenter"}
OpStatus  == {"accepted", "running", "succeeded", "failed"}
Terminal  == {"succeeded", "failed"}

InstallationRow ==
  [app : App, org : Org, version : Version,
   state : {"pending", "installed", "failed", "removed"},
   revision : Nat, lastOp : OperationID \cup {None}, release : Release \cup {None}]

OperationRow ==
  [user : User, key : Key, app : App, version : Version, action : Action, kind : Kind,
   release : Release \cup {None}, reinstall : InstallationID \cup {None},
   installation : InstallationID \cup {None}, status : OpStatus]

TransitionPhase ==
  {"accepted", "checking", "sealing", "applying", "verifying", "publishing",
   "releasing", "restoring", "recovery_required", "completed"}

TransitionRow ==
  [installation : InstallationID, app : App, user : User, key : Key,
   action : {"upgrade", "rollback"}, revision : Nat,
   source : Release, target : Release,
   status : OpStatus \cup {"recovery_required"}, phase : TransitionPhase]

TablesTypeOK ==
  /\ DOMAIN installation \subseteq InstallationID
  /\ \A i \in DOMAIN installation : installation[i] \in InstallationRow
  /\ DOMAIN operation \subseteq OperationID
  /\ \A o \in DOMAIN operation : operation[o] \in OperationRow
  /\ DOMAIN transition \subseteq TransitionID
  /\ \A t \in DOMAIN transition : transition[t] \in TransitionRow

EmptyTable == [x \in {} |-> None]

TablesInit ==
  /\ installation = EmptyTable
  /\ operation = EmptyTable
  /\ transition = EmptyTable
  /\ audit = {}

(***************************************************************************)
(* INSERT under a new primary key: the next one in creation order.         *)
(***************************************************************************)
Fresh(id, table) == id \notin DOMAIN table /\ \A j \in 1..(id - 1) : j \in DOMAIN table

NewID(ids, table) == {id \in ids : Fresh(id, table)}

Insert(table, id, row) ==
  [x \in DOMAIN table \cup {id} |-> IF x = id THEN row ELSE table[x]]

Current(a) ==
  {i \in DOMAIN installation : installation[i].app = a /\ installation[i].state # "removed"}

ActiveOperation(o) == o \in DOMAIN operation /\ operation[o].status \notin Terminal

ActiveTransition(t) == t \in DOMAIN transition /\ transition[t].status \notin Terminal

(***************************************************************************)
(* Slip: admission looks at the operations only.                           *)
(***************************************************************************)
TransitionBusySlip(a) == FALSE

(***************************************************************************)
(* The two EXISTS of the busy query, read under the Station/App advisory   *)
(* lock that every writer of these tables takes before it admits work.     *)
(* The lifecycle worker does not take that lock.                           *)
(***************************************************************************)
AppLockFree(a) == applock[a] = None

OperationBusy(a) == \E o \in DOMAIN operation : ActiveOperation(o) /\ operation[o].app = a

TransitionBusy(a) == \E t \in DOMAIN transition : ActiveTransition(t) /\ transition[t].app = a

-----------------------------------------------------------------------------
(***************************************************************************)
(* At most one job (operation or transition) per application is active:    *)
(* admission is serialized by the App advisory lock and the busy queries   *)
(* of submit and SubmitTransition look at both tables.                     *)
(***************************************************************************)
OneActiveJob ==
  /\ \A o, p \in DOMAIN operation :
        ActiveOperation(o) /\ ActiveOperation(p) /\ operation[o].app = operation[p].app => o = p
  /\ \A t, s \in DOMAIN transition :
        ActiveTransition(t) /\ ActiveTransition(s) /\ transition[t].app = transition[s].app => t = s
  /\ \A o \in DOMAIN operation, t \in DOMAIN transition :
        ~(ActiveOperation(o) /\ ActiveTransition(t) /\ operation[o].app = transition[t].app)

(***************************************************************************)
(* An application has at most one installation that is not removed, over   *)
(* any sequence of installs, deletes and reinstalls.  The partial unique   *)
(* index app_installations_current would turn a breach into a failed       *)
(* INSERT; the code must never reach it.                                   *)
(***************************************************************************)
OneCurrentInstallation ==
  \A i, j \in DOMAIN installation :
    /\ installation[i].app = installation[j].app
    /\ installation[i].state # "removed" /\ installation[j].state # "removed"
    => i = j

(***************************************************************************)
(* An installation is only ever named by operations and transitions of its *)
(* own application and of administrators of its own organization, though   *)
(* the preinstalled inventory check only reads the caller's organization.  *)
(***************************************************************************)
SameOrganization ==
  /\ \A o \in DOMAIN operation :
       LET i == operation[o].installation IN
       i # None => /\ i \in DOMAIN installation
                   /\ installation[i].app = operation[o].app
                   /\ installation[i].org = OrgOf[operation[o].user]
  /\ \A t \in DOMAIN transition :
       LET i == transition[t].installation IN
       /\ i \in DOMAIN installation
       /\ installation[i].app = transition[t].app
       /\ installation[i].org = OrgOf[transition[t].user]

(***************************************************************************)
(* Every change of an installation row raises its revision, and rows are   *)
(* never deleted: the expected-revision checks of AppCenter commands,      *)
(* transitions and forward recoveries rely on a revision naming one state. *)
(***************************************************************************)
RevisionStep ==
  \A i \in DOMAIN installation :
    /\ i \in DOMAIN installation'
    /\ installation'[i] # installation[i] => installation'[i].revision > installation[i].revision
=============================================================================
