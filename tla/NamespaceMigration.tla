------------------------- MODULE NamespaceMigration -------------------------
(***************************************************************************)
(* Moving an application's workspace and execution rows to another         *)
(* namespace (operations/namespace_migration.go), reached over HTTP in the *)
(* serving process or by the migrate-namespace command in one of its own.  *)
(* One transaction moves the rows, one workspace of the request after the  *)
(* other, under the lock of the workspaces and the lock of the             *)
(* application; after the commit the serving process forgets where it saw  *)
(* the application outside the target.                                     *)
(* The other writer of executions, Runtime, is external: it writes under   *)
(* the workspace lock, from the workspace row of its instance.             *)
(***************************************************************************)
EXTENDS Integers, Sequences, FiniteSets

CONSTANTS
  Instance,      \* instances with a workspace, of an application or of Runtime
  AppInstance,   \* those in app_instance_workspaces
  Namespace,     \* the namespaces the collectors report the application in
  Pvc, Uid, Digest, Secret,
  Installation,
  Request,       \* names of requests
  Body,          \* what each asks for
  Command,       \* the requests given to the migrate-namespace command
  Schema,        \* the variants of the two app tables the code provides for
  Stored,        \* what the workspace and start tables may hold at first
  MaxExecutions, \* bound: executions of an instance
  MaxRepeats,    \* bound: requests repeated
  None

VARIABLES
  schema,     \* which constraints the app tables have
  workspace,  \* the workspace row of each instance
  start,      \* the app_instance_starts row of each application instance
  execution,  \* the executions of each Runtime instance
  active,     \* the application's installation that is not removed, or None
  revision,   \* app_state_items.revision of the application
  placed,     \* where the serving process has placed the application
  tx,         \* the tables as the open transaction sees them, or None
  attempt,    \* how far each request has come
  repeats     \* how many requests were repeated

vars == <<schema, revision, workspace, start, execution, active, placed, tx, attempt, repeats>>

(***************************************************************************)
(* A profile hash is a value in one of two spellings: bare hexadecimal, or *)
(* with the prefix sha256:.  Runtime's tables keep the bytes alone.        *)
(***************************************************************************)
Spelling == {"hex", "prefixed"}
Hash == [text : Spelling, value : Digest]

Hex(h) == [text |-> "hex", value |-> h.value]

RuntimeInstance == Instance \ AppInstance

(***************************************************************************)
(* The rows of the tables, and the requests.  A row of an application      *)
(* keeps a second copy of its columns in its binding; the copy of the      *)
(* namespace may be missing.                                               *)
(***************************************************************************)
WorkspaceRow ==
  [namespace : Namespace, pvc : Pvc, uid : Uid, hash : Hash,
   copy : [namespace : Namespace \cup {None}, uid : Uid, hash : Hash],
   installation : Installation \cup {None}]

StartRow == [hash : Hash, secret : Secret]

ExecutionRow ==
  [number : Nat, namespace : Namespace, address : Namespace, hash : Digest, secret : Secret]

NamespaceMigrationWorkspace ==
  [pvc : Pvc, uid : Uid \cup {None}, hash : Hash \cup {None}, secret : Secret \cup {None}]

NamespaceMigrationRequest ==
  [installation : Installation \cup {None}, source : Namespace, target : Namespace,
   workspaces : Seq(NamespaceMigrationWorkspace)]

(***************************************************************************)
(* The CHECK and UNIQUE constraints of the tables.                         *)
(***************************************************************************)
Matches(w) ==
  /\ w.copy.uid = w.uid /\ w.copy.hash = w.hash
  /\ w.copy.namespace \in {w.namespace, None}

Checked(w) ==
  /\ schema.hex => w.hash.text = "hex"
  /\ schema.match => Matches(w) /\ w.copy.namespace = w.namespace

StartChecked(s) == schema.startsHex => s.hash.text = "hex"

Distinct(rows) ==
  \A T \in {AppInstance, RuntimeInstance} : \A i, j \in T :
    i # j => /\ rows[i].uid # rows[j].uid
             /\ <<rows[i].namespace, rows[i].pvc>> # <<rows[j].namespace, rows[j].pvc>>

(***************************************************************************)
(* What the rows of an application say of it, and executions of theirs.    *)
(***************************************************************************)
Coherent(rows, starts) ==
  \A i \in AppInstance : Matches(rows[i]) /\ starts[i].hash.value = rows[i].hash.value

Follow(executions, rows) ==
  \A i \in RuntimeInstance : \A e \in executions[i] :
    /\ e.namespace = rows[i].namespace /\ e.address = rows[i].namespace
    /\ e.hash = rows[i].hash.value

(***************************************************************************)
(* A migration finds rows as Runtime creates them, in a schema whose       *)
(* constraints they satisfy, and no executions yet.                        *)
(***************************************************************************)
ASSUME MigrationAssumption ==
  /\ AppInstance \subseteq Instance /\ Command \subseteq Request
  /\ Body \in [Request -> NamespaceMigrationRequest]
  /\ \A s \in Stored : /\ s.workspace \in [Instance -> WorkspaceRow]
                       /\ s.start \in [AppInstance -> StartRow]
                       /\ Coherent(s.workspace, s.start)
  /\ MaxExecutions \in Nat /\ MaxRepeats \in Nat

Init ==
  /\ schema \in Schema
  /\ \E s \in Stored : workspace = s.workspace /\ start = s.start
  /\ Distinct(workspace)
  /\ \A i \in AppInstance : Checked(workspace[i]) /\ StartChecked(start[i])
  /\ execution = [i \in RuntimeInstance |-> {}]
  /\ active \in Installation \cup {None}
  /\ revision = 0
  /\ placed = [namespace |-> None, after |-> {}]
  /\ tx = None
  /\ attempt = [r \in Request |-> "idle"]
  /\ repeats = 0

(***************************************************************************)
(* External.  Runtime records an execution of an instance, with the        *)
(* namespace its state names and the cluster address derived from it; the  *)
(* application is reinstalled, or removed, for which the lifecycle worker  *)
(* takes no application lock; a collector reports the application in a     *)
(* namespace, which fixes its place when it has none; the process stops,   *)
(* and its memory and its transaction with it.                             *)
(***************************************************************************)
Unlocked == \A r \in Request : attempt[r] # "open"

Execute(i, secret) ==
  /\ Unlocked /\ Cardinality(execution[i]) < MaxExecutions
  /\ execution' = [execution EXCEPT ![i] = @ \cup
       {[number |-> Cardinality(@), namespace |-> workspace[i].namespace,
         address |-> workspace[i].namespace, hash |-> workspace[i].hash.value,
         secret |-> secret]}]
  /\ UNCHANGED <<schema, revision, workspace, start, active, placed, tx, attempt, repeats>>

Reinstall(n) ==
  /\ n # None => Unlocked
  /\ active # n /\ active' = n
  /\ UNCHANGED <<schema, revision, workspace, start, execution, placed, tx, attempt, repeats>>

Report(n) ==
  /\ placed.namespace = None
  /\ placed' = [namespace |-> n,
                after |-> {r \in Request : attempt[r] = "answered"}]
  /\ UNCHANGED <<schema, revision, workspace, start, execution, active, tx, attempt, repeats>>

Restart ==
  /\ placed' = [namespace |-> None, after |-> {}]
  /\ attempt' = [r \in Request |->
       IF attempt[r] \in {"open", "moved"} /\ r \notin Command
       THEN "failed" ELSE attempt[r]]
  /\ tx' = IF \E r \in Request \ Command : attempt[r] = "open" THEN None ELSE tx
  /\ UNCHANGED <<schema, revision, workspace, start, execution, active, repeats>>

(***************************************************************************)
(* Begin: validation, the two locks, and the active installation, which a  *)
(* request that names one must name and whose application is marked        *)
(* (mark_app_state).                                                       *)
(***************************************************************************)
Validate(b) == \A m, n \in 1..Len(b.workspaces) :
                 m # n => b.workspaces[m].pvc # b.workspaces[n].pvc

Begin(r) ==
  /\ attempt[r] = "idle" /\ Unlocked
  /\ Validate(Body[r])
  /\ IF active # None /\ Body[r].installation \notin {active, None}
     THEN attempt' = [attempt EXCEPT ![r] = "refused"] /\ UNCHANGED tx
     ELSE /\ attempt' = [attempt EXCEPT ![r] = "open"]
          /\ tx' = [workspace |-> workspace, start |-> start, execution |-> execution,
                    marked |-> active # None, done |-> 0]
  /\ UNCHANGED <<schema, revision, workspace, start, execution, active, placed, repeats>>

(***************************************************************************)
(* One workspace of a request against one row.  The row's spelling of the  *)
(* hash is the schema's, then the request's, then the row's own.           *)
(***************************************************************************)
Selected(b, w, rows, T) ==
  {i \in T : /\ rows[i].pvc = w.pvc
             /\ rows[i].namespace \in {b.source, b.target}
             /\ i \in AppInstance => b.installation \in {None, rows[i].installation}}

EffectiveHash(w, row) ==
  CASE w.hash = None -> row.hash
    [] /\ ~schema.hex /\ w.hash # None /\ w.hash.text = "prefixed"
       /\ schema.match \/ row.hash.text = "prefixed" -> w.hash
    [] OTHER -> Hex(w.hash)

EffectiveUid(w, row) == IF w.uid = None THEN row.uid ELSE w.uid

MovedAppSlip(b, w, row) ==
  [row EXCEPT !.namespace = b.target, !.uid = EffectiveUid(w, row),
              !.hash = EffectiveHash(w, row),
              !.copy = [@ EXCEPT !.uid = EffectiveUid(w, row),
                                 !.hash = EffectiveHash(w, row)]]

MovedApp(b, w, row) ==
  [row EXCEPT !.namespace = b.target, !.uid = EffectiveUid(w, row),
              !.hash = EffectiveHash(w, row),
              !.copy = [namespace |-> IF @.namespace # None \/ schema.match
                                      THEN b.target ELSE None,
                        uid |-> EffectiveUid(w, row), hash |-> EffectiveHash(w, row)]]

MovedRuntime(b, w, row) ==
  LET hash == IF w.hash = None THEN row.hash ELSE Hex(w.hash)
      uid  == EffectiveUid(w, row)
  IN  [row EXCEPT !.namespace = b.target, !.uid = uid, !.hash = hash,
                  !.copy = [namespace |-> b.target, uid |-> uid, hash |-> hash]]

StartHash(w, s) ==
  CASE w.hash = None -> s.hash
    [] ~schema.startsHex /\ w.hash # None /\ w.hash.text = "prefixed" /\ schema.match -> w.hash
    [] OTHER -> Hex(w.hash)

MovedStart(w, s) ==
  [hash |-> StartHash(w, s), secret |-> IF w.secret = None THEN s.secret ELSE w.secret]

rewriteMigratedValueSlip(b, w, e) ==
  LET to(n) == IF n = b.source THEN b.target ELSE IF n = b.target THEN b.source ELSE n
  IN  [e EXCEPT !.namespace = to(@), !.address = to(@),
                !.secret = IF w.secret = None THEN @ ELSE w.secret]

rewriteMigratedValue(b, w, e) ==
  LET to(n) == IF n = b.source THEN b.target ELSE n
  IN  [e EXCEPT !.namespace = to(@), !.address = to(@),
                !.secret = IF w.secret = None THEN @ ELSE w.secret]

migrateRuntimeExecutionsSlip(b, w, es) ==
  {rewriteMigratedValue(b, w, e) : e \in es}

migrateRuntimeExecutions(b, w, es) ==
  {[rewriteMigratedValue(b, w, e) EXCEPT !.hash = IF w.hash = None THEN @ ELSE w.hash.value] :
     e \in es}

(***************************************************************************)
(* The next workspace of the request, when the constraints accept its      *)
(* rows; otherwise the statement fails, and Rollback is what remains.      *)
(***************************************************************************)
MoveOne(r) ==
  LET b    == Body[r]
      w    == b.workspaces[tx.done + 1]
      apps == Selected(b, w, tx.workspace, AppInstance)
      runs == Selected(b, w, tx.workspace, RuntimeInstance)
      rows == [i \in Instance |->
                 CASE i \in apps -> MovedApp(b, w, tx.workspace[i])
                   [] i \in runs -> MovedRuntime(b, w, tx.workspace[i])
                   [] OTHER -> tx.workspace[i]]
      starts == [i \in AppInstance |->
                   IF i \in apps THEN MovedStart(w, tx.start[i]) ELSE tx.start[i]]
      executions == [i \in RuntimeInstance |->
                       IF i \in runs THEN migrateRuntimeExecutions(b, w, tx.execution[i])
                       ELSE tx.execution[i]]
  IN  /\ attempt[r] = "open" /\ tx.done < Len(b.workspaces)
      /\ \A i \in apps : Checked(rows[i]) /\ StartChecked(starts[i])
      /\ Distinct(rows)
      /\ tx' = [workspace |-> rows, start |-> starts, execution |-> executions,
                marked |-> tx.marked, done |-> tx.done + 1]
      /\ UNCHANGED <<schema, revision, workspace, start, execution, active, placed, attempt, repeats>>

(***************************************************************************)
(* A statement fails: a constraint, the connection, the caller's deadline, *)
(* a commit that did not take effect, or the end of the command.           *)
(***************************************************************************)
Rollback(r) ==
  /\ attempt[r] = "open"
  /\ attempt' = [attempt EXCEPT ![r] = "failed"]
  /\ tx' = None
  /\ UNCHANGED <<schema, revision, workspace, start, execution, active, placed, repeats>>

(***************************************************************************)
(* The commit.  When its answer is lost the request fails though the rows  *)
(* have moved, and nothing is reset.                                       *)
(***************************************************************************)
Commit(r, known) ==
  /\ attempt[r] = "open" /\ tx.done = Len(Body[r].workspaces)
  /\ workspace' = tx.workspace /\ start' = tx.start /\ execution' = tx.execution
  /\ revision' = IF tx.marked THEN revision + 1 ELSE revision
  /\ tx' = None
  /\ attempt' = [attempt EXCEPT ![r] = IF known THEN "moved" ELSE "failed"]
  /\ UNCHANGED <<schema, active, placed, repeats>>

(***************************************************************************)
(* The reset after the commit, in the process that ran the migration: the  *)
(* command's own process has no observations.                              *)
(***************************************************************************)
ResetSlip(r) ==
  /\ attempt[r] = "moved"
  /\ attempt' = [attempt EXCEPT ![r] = "answered"]
  /\ UNCHANGED <<schema, revision, workspace, start, execution, active, placed, tx, repeats>>

Reset(r) ==
  /\ attempt[r] = "moved"
  /\ attempt' = [attempt EXCEPT ![r] = "answered"]
  /\ placed' = IF r \notin Command /\ placed.namespace # Body[r].target
               THEN [namespace |-> None, after |-> {}] ELSE placed
  /\ UNCHANGED <<schema, revision, workspace, start, execution, active, tx, repeats>>

(***************************************************************************)
(* The operator repeats a request, after a failure or after an answer.     *)
(***************************************************************************)
Repeat(r) ==
  /\ attempt[r] \in {"failed", "refused", "answered"}
  /\ repeats < MaxRepeats /\ repeats' = repeats + 1
  /\ attempt' = [attempt EXCEPT ![r] = "idle"]
  /\ placed' = [placed EXCEPT !.after = @ \ {r}]
  /\ UNCHANGED <<schema, revision, workspace, start, execution, active, tx>>

Next ==
  \/ \E r \in Request :
       \/ Begin(r) \/ MoveOne(r) \/ Rollback(r) \/ Reset(r) \/ Repeat(r)
       \/ \E known \in BOOLEAN : Commit(r, known)
  \/ \E i \in RuntimeInstance, s \in Secret : Execute(i, s)
  \/ \E n \in Installation \cup {None} : Reinstall(n)
  \/ \E n \in Namespace : Report(n)
  \/ Restart

Spec == Init /\ [][Next]_vars

-----------------------------------------------------------------------------
(***************************************************************************)
(* After any series of migrations, lost commits and repetitions every row  *)
(* of an application still says the same thing in its columns, in its      *)
(* binding and, for the profile, in its starts.                            *)
(***************************************************************************)
RowsCoherent == Coherent(workspace, start)

(***************************************************************************)
(* Every execution names the namespace, the cluster address and the        *)
(* profile of its instance's workspace, whichever migrations it lived      *)
(* through.                                                                *)
(***************************************************************************)
ExecutionsFollow == Follow(execution, workspace)

(***************************************************************************)
(* Once a migration asked for over HTTP is answered, a place of the        *)
(* application outside its target was reported after the answer: none      *)
(* survives from before.                                                   *)
(***************************************************************************)
PlaceIsNew ==
  \A r \in Request \ Command :
    attempt[r] = "answered" =>
      \/ placed.namespace \in {None, Body[r].target}
      \/ r \in placed.after

(***************************************************************************)
(* Repeating a migration that was committed, its answer lost or not,       *)
(* changes no row when the rows are as it left them.                       *)
(***************************************************************************)
Landed(r) ==
  \A k \in 1..Len(Body[r].workspaces) :
    LET b == Body[r]  w == b.workspaces[k]
    IN  \A i \in Selected(b, w, workspace, Instance) :
          /\ workspace[i].namespace = b.target
          /\ w.uid \in {None, workspace[i].uid}
          /\ w.hash = None \/ w.hash.value = workspace[i].hash.value

RepeatStep ==
  \A r \in Request :
    (\E known \in BOOLEAN : Commit(r, known)) /\ Landed(r) =>
      \A i \in Instance :
        /\ workspace'[i].uid = workspace[i].uid
        /\ workspace'[i].namespace = workspace[i].namespace
        /\ workspace'[i].hash.value = workspace[i].hash.value
        /\ i \in RuntimeInstance =>
             {[e EXCEPT !.secret = None] : e \in execution'[i]}
               = {[e EXCEPT !.secret = None] : e \in execution[i]}

RepeatIsIdle == [][RepeatStep]_vars
=============================================================================
