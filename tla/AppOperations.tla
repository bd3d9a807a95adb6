---------------------------- MODULE AppOperations ----------------------------
(***************************************************************************)
(* Lifecycle operations of applications (internal/operations/service.go,   *)
(* installations.go, preinstalled.go, appcenter_commands.go) and the       *)
(* worker that carries them out against Runtime (worker.go).               *)
(*                                                                         *)
(* A submission is one transaction under the Station/App advisory lock.    *)
(* Plain and AppCenter submissions read nothing a worker can change before *)
(* the busy query or lock the row they read, so each is one action.  A     *)
(* preinstalled one reads the installation history without a row lock      *)
(* first, and a worker, which does not take the App lock, may commit       *)
(* between the two: it is two actions.  A refused or replayed submission   *)
(* changes no row and is a stuttering step.  DispatchOne is not atomic: it locks the oldest   *)
(* active row (Pick), calls Runtime while it holds the lock (Reconcile),   *)
(* and then commits the answer (Record), touches the row (Postpone) or     *)
(* rolls back (Refuse, Abort).                                             *)
(***************************************************************************)
EXTENDS Installations

CONSTANTS Worker,           \* processes that run DispatchOne
          Offered,          \* the <<action, entry point>> pairs clients submit
          SourceRecovery    \* registered drift recoveries of release bindings

Answer == {"running", "succeeded", "failed", "rejected", "malformed"}   \* of Runtime

(***************************************************************************)
(* videoInstalledSourceRecovery: a fixed list of (installed version, bound *)
(* release, observed release), some only after a proven managed upgrade.   *)
(***************************************************************************)
ASSUME OperationsAssumption ==
  /\ Offered \subseteq Action \X Kind
  /\ Worker \cap (Nat \cup {None}) = {}
  /\ None \notin Answer
  /\ SourceRecovery \subseteq
    [app : App, installed : Version, from : Release, to : Release,
     proof : {None} \cup [source : Release, target : Release]]

VARIABLES
  ahead,    \* pairs <<x, y>>: x sorts before y in ORDER BY updated_at
  worker,   \* the row each worker has locked, and Runtime's answer to it
  exec      \* Runtime's durable record of each operation (external)

opVars == <<ahead, worker, exec, applock>>

Command ==
  [user : User, key : Key, app : App, version : Version, action : Action,
   kind : Kind, release : Release \cup {None}, reinstall : InstallationID \cup {None}]

OperationsTypeOK ==
  /\ applock \in [App -> Command \cup {None}]
  /\ ahead \subseteq ((OperationID \cup Worker) \X (OperationID \cup Worker))
  /\ worker \in [Worker -> [op : OperationID \cup {None}, answer : Answer \cup {None}]]
  /\ exec \in [OperationID -> {"unknown", "running", "succeeded", "failed"}]

Idle == [op |-> None, answer |-> None]

OperationsInit ==
  /\ ahead = {}
  /\ worker = [w \in Worker |-> Idle]
  /\ exec = [o \in OperationID |-> "unknown"]
  /\ applock = [a \in App |-> None]

-----------------------------------------------------------------------------
(***************************************************************************)
(* Admission: submit, SubmitPreinstalled, SubmitAppCenter.                 *)
(*                                                                         *)
(* The shape each entry point accepts before it opens a transaction.       *)
(***************************************************************************)
Accepts ==
  (Action \X {"plain"})
  \cup ({"install", "adopt"} \X {"preinstalled"})
  \cup ((Action \ {"adopt"}) \X {"appcenter"})

UnboundCommands ==
  {[user |-> u, key |-> k, app |-> a, version |-> v, action |-> x[1], kind |-> x[2],
    release |-> None, reinstall |-> None] :
     u \in User, k \in Key, a \in App, v \in Version,
     x \in {y \in Offered \cap Accepts : y[2] # "preinstalled"}}

PreinstalledCommands ==
  {[user |-> u, key |-> k, app |-> a, version |-> r.version, action |-> x[1], kind |-> x[2],
    release |-> r, reinstall |-> i] :
     u \in User, k \in Key, a \in App, r \in Release, i \in InstallationID \cup {None},
     x \in {y \in Offered \cap Accepts : y[2] = "preinstalled"}}

KeyUsed(c) ==
  \E o \in DOMAIN operation : operation[o].user = c.user /\ operation[o].key = c.key

(***************************************************************************)
(* The idempotency lock is held as long as the App lock.                   *)
(***************************************************************************)
KeyLocked(c) ==
  \E a \in App : applock[a] # None /\ applock[a].user = c.user /\ applock[a].key = c.key

LocksTaken(c) == ~KeyLocked(c) /\ AppLockFree(c.app) /\ ~KeyUsed(c)

videoInstalledSourceRecovery(i, row, to, action) ==
  /\ action = "adopt" /\ row.state = "installed"
  /\ \E r \in SourceRecovery :
       /\ r.app = row.app /\ r.installed = row.version /\ r.from = row.release /\ r.to = to
       /\ \/ r.proof = None /\ r.from.version = row.version
          \/ \E t \in DOMAIN transition :
               /\ transition[t].installation = i
               /\ transition[t].action = "upgrade" /\ transition[t].status = "succeeded"
               /\ r.proof = [source |-> transition[t].source, target |-> transition[t].target]

Confirmed(i) ==
  \E o \in DOMAIN operation :
    /\ operation[o].installation = i /\ operation[o].status = "succeeded"
    /\ operation[o].release # None /\ operation[o].release = installation[i].release

(***************************************************************************)
(* The caller's inventory revision must be that of the rows read here, as  *)
(* it is for a client that reads the inventory and submits at once; then   *)
(* the release must suit the current row, and a reinstallation must name   *)
(* the installation removed last.                                          *)
(***************************************************************************)
History(c) ==
  {i \in DOMAIN installation : installation[i].app = c.app /\ installation[i].org = OrgOf[c.user]}

LastRemoved(c) ==
  {i \in History(c) : /\ installation[i].state = "removed"
                      /\ \A j \in History(c) : installation[j].state = "removed" => j <= i}

validatePreinstalled(c) ==
  LET current == {i \in History(c) : installation[i].state # "removed"} IN
  /\ \A i \in current :
       LET row == installation[i] IN
       row.release # None /\ row.release # c.release =>
         Confirmed(i) /\ videoInstalledSourceRecovery(i, row, c.release, c.action)
  /\ IF current = {} /\ LastRemoved(c) # {}
     THEN c.reinstall \in LastRemoved(c) ELSE c.reinstall = None

validateAppCenterInstallation(c) ==
  IF c.action = "install"
  THEN Current(c.app) = {}
  ELSE \E i \in Current(c.app) :
         /\ installation[i].org = OrgOf[c.user] /\ installation[i].state = "installed"
         /\ (c.action = "upgrade") <=> (installation[i].version # c.version)

legacyVersionAdoption(trusted, action, state, bound) ==
  trusted /\ action = "adopt" /\ state = "installed" /\ ~bound

(***************************************************************************)
(* Slips: any organization's row, or a row of any version, is reused.      *)
(***************************************************************************)
ReusableOrgSlip(c, i) ==
  installation[i].version # c.version =>
    c.action = "upgrade" /\ c.kind # "preinstalled" /\ installation[i].state = "installed"

ReusableVersionSlip(c, i) == installation[i].org = OrgOf[c.user]

(***************************************************************************)
(* reserveInstallation on the current row, and its refusals.               *)
(***************************************************************************)
Reusable(c, i) ==
  LET row     == installation[i]
      trusted == c.kind = "preinstalled"
      bound   == row.release # None
      allowed == IF trusted /\ bound
                 THEN videoInstalledSourceRecovery(i, row, c.release, c.action)
                 ELSE \/ legacyVersionAdoption(trusted, c.action, row.state, bound)
                      \/ ~trusted /\ c.action = "upgrade" /\ row.state = "installed"
  IN /\ row.org = OrgOf[c.user]
     /\ row.version # c.version => allowed

reserveInstallation(c, i) ==
  \/ i \in Current(c.app) /\ Reusable(c, i)
  \/ /\ Current(c.app) = {} /\ c.action \in {"install", "start", "adopt"}
     /\ i # None /\ Fresh(i, installation)
  \/ /\ Current(c.app) = {} /\ c.action \notin {"install", "start", "adopt"}
     /\ i = None

PendingRow(c) ==
  [app |-> c.app, org |-> OrgOf[c.user], version |-> c.version, state |-> "pending",
   revision |-> 1, lastOp |-> None, release |-> None]

ReservedRow(c, i) == IF i \in DOMAIN installation THEN installation[i] ELSE PendingRow(c)

(***************************************************************************)
(* bindInstallationOperation and bindPreinstalled: a release is bound at   *)
(* once unless the installed version is still another one.                 *)
(***************************************************************************)
BindsNow(c, row) == c.kind = "preinstalled" /\ row.version = c.version

BoundRowSlip(c, o, row) ==   \* slip: the revision is not raised
  [row EXCEPT !.lastOp = o, !.release = IF BindsNow(c, row) THEN c.release ELSE @]

BoundRow(c, o, row) ==
  [row EXCEPT !.lastOp = o, !.revision = @ + 1,
              !.release = IF BindsNow(c, row) THEN c.release ELSE @]

Queued == {o \in DOMAIN operation : ActiveOperation(o)} \cup {w \in Worker : worker[w].op # None}

(***************************************************************************)
(* submit up to the end of validatePreinstalled, and its error returns     *)
(* after that (busy, a reservation or binding refused, a lost connection). *)
(***************************************************************************)
AdmitPreinstalled(c) ==
  /\ LocksTaken(c) /\ validatePreinstalled(c)
  /\ applock' = [applock EXCEPT ![c.app] = c]
  /\ UNCHANGED <<tables, ahead, worker, exec>>

RefusePreinstalled(a) ==
  /\ ~AppLockFree(a)
  /\ applock' = [applock EXCEPT ![a] = None]
  /\ UNCHANGED <<tables, ahead, worker, exec>>

(***************************************************************************)
(* submit after it took its locks, or after AdmitPreinstalled.             *)
(***************************************************************************)
submit(c, o, i) ==
  /\ c.kind = "appcenter" => validateAppCenterInstallation(c)
  /\ ~OperationBusy(c.app) /\ ~TransitionBusy(c.app)
  /\ reserveInstallation(c, i)
  /\ LET row == ReservedRow(c, i) IN
       /\ i # None /\ BindsNow(c, row) => row.release \in {None, c.release}
       /\ installation' = IF i = None THEN installation
                          ELSE Insert(installation, i, BoundRow(c, o, row))
  /\ operation' = Insert(operation, o,
       [user |-> c.user, key |-> c.key, app |-> c.app, version |-> c.version,
        action |-> c.action, kind |-> c.kind, release |-> c.release,
        reinstall |-> c.reinstall, installation |-> i, status |-> "accepted"])
  /\ ahead' = ahead \cup (Queued \X {o})
  /\ audit' = audit \cup {<<"operation", o, "accepted">>}
  /\ applock' = [applock EXCEPT ![c.app] = None]
  /\ UNCHANGED <<transition, worker, exec>>

Entered ==
  ({applock[a] : a \in App} \ {None}) \cup {c \in UnboundCommands : LocksTaken(c)}

Submit ==
  \E o \in NewID(OperationID, operation) :
    \E c \in Entered, i \in InstallationID \cup {None} : submit(c, o, i)

Admit ==   \* MaxOperations bounds the admissions too
  \/ /\ NewID(OperationID, operation) # {}
     /\ \E c \in PreinstalledCommands : AdmitPreinstalled(c)
  \/ \E a \in App : RefusePreinstalled(a)

-----------------------------------------------------------------------------
(***************************************************************************)
(* DispatchOne.  The transaction of worker w starts at its Pick, so w      *)
(* stands in the order for the updated_at = now() it would write.          *)
(***************************************************************************)
Locked(o) == \E w \in Worker : worker[w].op = o

Pick(w, o) ==
  /\ worker[w].op = None
  /\ ActiveOperation(o) /\ ~Locked(o)
  /\ \A p \in DOMAIN operation : ActiveOperation(p) /\ ~Locked(p) => <<p, o>> \notin ahead
  /\ worker' = [worker EXCEPT ![w] = [op |-> o, answer |-> None]]
  /\ ahead' = ahead \cup (Queued \X {w})
  /\ UNCHANGED <<tables, exec, applock>>

(***************************************************************************)
(* Runtime executes the request of w and answers (external).  Its record   *)
(* is keyed by the operation: a finished operation is replayed, and only   *)
(* one it does not know can be rejected.                                   *)
(***************************************************************************)
Reconcile(w, a) ==
  /\ worker[w].op # None /\ worker[w].answer = None
  /\ LET o == worker[w].op IN
       \/ /\ a \in {"running", "succeeded", "failed"}
          /\ exec[o] \in {"succeeded", "failed"} => a = exec[o]
          /\ exec' = [exec EXCEPT ![o] = a]
       \/ /\ a = "rejected" /\ exec[o] = "unknown"
          /\ UNCHANGED exec
       \/ /\ a = "malformed"
          /\ UNCHANGED exec
  /\ worker' = [worker EXCEPT ![w].answer = a]
  /\ UNCHANGED <<tables, ahead, applock>>

(***************************************************************************)
(* The order after w commits: its row takes the place of the start of the  *)
(* transaction, or leaves the queue; after a rollback it never left.       *)
(***************************************************************************)
Without(S) == {p \in ahead : p[1] \notin S /\ p[2] \notin S}

TouchedSlip(w, o) == Without({w})   \* slip: updated_at is not written

Touched(w, o) ==
  LET at(x) == IF x = w THEN o ELSE x
  IN {<<at(p[1]), at(p[2])>> : p \in Without({o})}

installationStateSlip(current, action, result) ==   \* slip: the result is stored as the state
  IF result = "succeeded" /\ action = "delete" THEN "removed" ELSE result

installationState(current, action, result) ==
  IF current = "removed" THEN current
  ELSE IF result = "succeeded" THEN (IF action = "delete" THEN "removed" ELSE "installed")
  ELSE IF result = "failed" /\ current # "installed" THEN "failed"
  ELSE current

(***************************************************************************)
(* recordInstallationProgress: the row a result leaves, and the results it *)
(* refuses with a conflict.                                                *)
(***************************************************************************)
VersionMovesSlip(o, row, result) ==   \* slip: a failure moves the version too
  row.version # operation[o].version /\ result \in Terminal

VersionMoves(o, row, result) == row.version # operation[o].version /\ result = "succeeded"

IsUpgrade(o, row) ==
  operation[o].action = "upgrade" /\ row.state = "installed" /\ operation[o].kind # "preinstalled"

Recordable(o, i, result) ==
  LET op  == operation[o]
      row == installation[i]
  IN VersionMoves(o, row, result) =>
       \/ IsUpgrade(o, row)
       \/ /\ legacyVersionAdoption(op.kind = "preinstalled", op.action, row.state, FALSE)
          /\ row.release # None => videoInstalledSourceRecovery(i, row, op.release, op.action)

ProgressRow(o, row, result) ==
  LET op   == operation[o]
      next == installationState(row.state, op.action, result)
  IN CASE VersionMoves(o, row, result) /\ IsUpgrade(o, row) ->
            [row EXCEPT !.version = op.version, !.revision = @ + 1]
       [] VersionMoves(o, row, result) /\ ~IsUpgrade(o, row) ->
            [row EXCEPT !.version = op.version, !.revision = @ + 1, !.release = op.release]
       [] ~VersionMoves(o, row, result) /\ next # row.state ->
            [row EXCEPT !.state = next, !.revision = @ + 1]
       [] OTHER -> row

(***************************************************************************)
(* A result is applied only by the operation the installation names last.  *)
(***************************************************************************)
Applies(o) ==
  LET i == operation[o].installation
  IN i \in DOMAIN installation /\ installation[i].lastOp = o

recordInstallationProgress(o, result) ==
  LET i == operation[o].installation IN
  IF Applies(o)
  THEN /\ Recordable(o, i, result)
       /\ installation' = [installation EXCEPT ![i] = ProgressRow(o, @, result)]
  ELSE UNCHANGED installation

Result(a) == IF a = "rejected" THEN "failed" ELSE a

Record(w) ==
  LET o == worker[w].op
      a == worker[w].answer
  IN /\ o # None /\ a \in Answer \ {"malformed"}
     /\ operation' = [operation EXCEPT ![o].status = Result(a)]
     /\ recordInstallationProgress(o, Result(a))
     /\ ahead' = IF Result(a) \in Terminal THEN Without({o, w}) ELSE Touched(w, o)
     /\ worker' = [worker EXCEPT ![w] = Idle]
     /\ UNCHANGED <<transition, audit, exec, applock>>

(***************************************************************************)
(* Slip: a failed or lost call settles the operation as failed.            *)
(***************************************************************************)
PostponeSlip(w) ==
  /\ worker[w].op # None
  /\ operation' = [operation EXCEPT ![worker[w].op].status = "failed"]
  /\ ahead' = Without({worker[w].op, w})
  /\ worker' = [worker EXCEPT ![w] = Idle]
  /\ UNCHANGED <<installation, transition, audit, exec, applock>>

(***************************************************************************)
(* postponeDispatch: the call failed or timed out, before or after Runtime *)
(* executed it, or the stored AppCenter input cannot be dispatched now.    *)
(***************************************************************************)
Postpone(w) ==
  /\ worker[w].op # None
  /\ ahead' = Touched(w, worker[w].op)
  /\ worker' = [worker EXCEPT ![w] = Idle]
  /\ UNCHANGED <<tables, exec, applock>>

(***************************************************************************)
(* The error returns that roll back: progress that is not valid for this   *)
(* operation, and a result recordInstallationProgress refuses.             *)
(***************************************************************************)
Rollback(w) ==
  /\ ahead' = Without({w})
  /\ worker' = [worker EXCEPT ![w] = Idle]
  /\ UNCHANGED <<tables, exec, applock>>

Acceptable(w) ==
  LET o == worker[w].op IN
  /\ worker[w].answer # "malformed"
  /\ Applies(o) => Recordable(o, operation[o].installation, Result(worker[w].answer))

Refuse(w) ==
  /\ worker[w].op # None /\ worker[w].answer # None
  /\ ~Acceptable(w)
  /\ Rollback(w)

(***************************************************************************)
(* The process dies, its connection is lost, or the step's deadline ends   *)
(* the transaction: PostgreSQL rolls it back and frees the row.            *)
(***************************************************************************)
Abort(w) == worker[w].op # None /\ Rollback(w)

Dispatch ==
  \E w \in Worker :
    \/ \E o \in OperationID : Pick(w, o)
    \/ \E a \in Answer : Reconcile(w, a)
    \/ Record(w)
    \/ Postpone(w)
    \/ Refuse(w)
    \/ Abort(w)

OperationsNext == Admit \/ Submit \/ Dispatch
-----------------------------------------------------------------------------
(***************************************************************************)
(* The result of an active operation is never dropped or refused: the      *)
(* installation still names it as its last operation, is not removed, and  *)
(* recordInstallationProgress accepts its success.  Otherwise the outcome  *)
(* Runtime produced would be lost (the ErrNoRows return) or the operation  *)
(* would head the queue for ever (the Conflict return rolls back without   *)
(* touching updated_at).                                                   *)
(***************************************************************************)
ResultApplies ==
  \A o \in DOMAIN operation :
    ActiveOperation(o) /\ operation[o].installation # None =>
      /\ Applies(o)
      /\ installation[operation[o].installation].state # "removed"
      /\ Recordable(o, operation[o].installation, "succeeded")

(***************************************************************************)
(* Core settles an operation the way Runtime did, through lost replies,    *)
(* retries by other workers and rollbacks: "A failed/lost RPC leaves the   *)
(* original operation available for reconciliation".                       *)
(***************************************************************************)
OutcomeAgrees ==
  \A o \in DOMAIN operation :
    /\ operation[o].status = "succeeded" => exec[o] = "succeeded"
    /\ operation[o].status = "failed" => exec[o] \in {"failed", "unknown"}

(***************************************************************************)
(* "removed application recreated without intent": a preinstalled command  *)
(* that installs an application anew after a removal names the             *)
(* installation removed last, as validatePreinstalled demands of it.       *)
(***************************************************************************)
ReinstallIntended ==
  \A o \in DOMAIN operation :
    LET i == operation[o].installation IN
    /\ operation[o].kind = "preinstalled"
    /\ \A p \in DOMAIN operation : p < o => operation[p].installation # i
    => \A j \in History(operation[o]) : j < i =>
         operation[o].reinstall # None /\ j <= operation[o].reinstall

-----------------------------------------------------------------------------
(***************************************************************************)
(* Fairness.  Run starts DispatchOne every second while an operation is    *)
(* active, and not every dispatch ends in a rollback.                      *)
(***************************************************************************)
Settle(w) == Record(w) \/ Postpone(w)

DispatchFairness ==
  \A w \in Worker :
    /\ WF_<<tables, opVars>>(\E o \in OperationID : Pick(w, o))
    /\ WF_<<tables, opVars>>(Refuse(w))
    /\ SF_<<tables, opVars>>(Settle(w))

(***************************************************************************)
(* Every active operation is eventually dispatched, however long Runtime   *)
(* keeps others running or unreachable: the updated_at a dispatch writes   *)
(* puts its row behind every row that was waiting when it began ("so one   *)
(* offline/slow app cannot starve the queue").                             *)
(***************************************************************************)
NoStarvation ==
  \A o \in OperationID : ActiveOperation(o) ~> (Locked(o) \/ ~ActiveOperation(o))

EmptyStation == TablesInit /\ OperationsInit

OperationsSpec ==
  /\ EmptyStation
  /\ [][OperationsNext]_<<tables, opVars>>
  /\ DispatchFairness
=============================================================================
