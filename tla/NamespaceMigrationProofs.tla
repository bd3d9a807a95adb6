---------------------- MODULE NamespaceMigrationProofs ----------------------
(***************************************************************************)
(* Proofs about namespace migrations, for any tables, schemas, requests    *)
(* and numbers of workspaces, and any failures and repetitions.            *)
(***************************************************************************)
EXTENDS NamespaceMigration, FiniteSetTheorems, TLAPS

Executions == {E \in SUBSET ExecutionRow : IsFiniteSet(E)}

Workspaces == [Instance -> WorkspaceRow]
Starts     == [AppInstance -> StartRow]
Histories  == [RuntimeInstance -> Executions]

Status == {"idle", "refused", "open", "failed", "moved", "answered"}

Typed ==
  /\ workspace \in Workspaces /\ start \in Starts /\ execution \in Histories
  /\ attempt \in [Request -> Status]

(***************************************************************************)
(* What an open transaction sees: tables as well formed as the stored      *)
(* ones, which nobody else has changed since it read them.                 *)
(***************************************************************************)
OneOpen == \A r, s \in Request : attempt[r] = "open" /\ attempt[s] = "open" => r = s

TxTyped ==
  \A r \in Request : attempt[r] = "open" =>
    /\ tx \in [workspace : Workspaces, start : Starts, execution : Histories,
               marked : BOOLEAN, done : Nat]
    /\ tx.done <= Len(Body[r].workspaces)

TxCoherent ==
  \A r \in Request : attempt[r] = "open" =>
    Coherent(tx.workspace, tx.start) /\ Follow(tx.execution, tx.workspace)

(***************************************************************************)
(* Rows that differ at most in the spelling of a hash, in their bindings   *)
(* and in the secret of an execution.                                      *)
(***************************************************************************)
SameRow(v, w) ==
  /\ v.pvc = w.pvc /\ v.installation = w.installation
  /\ v.uid = w.uid /\ v.namespace = w.namespace /\ v.hash.value = w.hash.value

Bare(E) == {[e EXCEPT !.secret = None] : e \in E}

Alike ==
  /\ \A i \in Instance : SameRow(tx.workspace[i], workspace[i])
  /\ \A i \in RuntimeInstance : Bare(tx.execution[i]) = Bare(execution[i])

TxIdle == \A r \in Request : attempt[r] = "open" /\ Landed(r) => Alike

MigrationInv ==
  /\ Typed /\ OneOpen /\ TxTyped /\ TxCoherent /\ TxIdle
  /\ RowsCoherent /\ ExecutionsFollow /\ PlaceIsNew

-----------------------------------------------------------------------------
(***************************************************************************)
(* One workspace of a request against one row.                             *)
(***************************************************************************)
NewValue(w, hash) == IF w.hash = None THEN hash.value ELSE w.hash.value

LEMMA HexFacts ==
  ASSUME NEW h \in Hash
  PROVE  Hex(h) \in Hash /\ Hex(h).value = h.value
BY DEF Hash, Hex, Spelling

LEMMA EffectiveHashFacts ==
  ASSUME NEW w \in NamespaceMigrationWorkspace, NEW row \in WorkspaceRow
  PROVE  EffectiveHash(w, row) \in Hash /\ EffectiveHash(w, row).value = NewValue(w, row.hash)
<1>1. CASE w.hash = None
  BY <1>1 DEF EffectiveHash, NewValue, WorkspaceRow
<1>2. CASE w.hash # None
  <2>1. w.hash \in Hash
    BY <1>2 DEF NamespaceMigrationWorkspace
  <2>2. EffectiveHash(w, row) \in {w.hash, Hex(w.hash)}
    BY <1>2 DEF EffectiveHash
  <2>3. QED
    BY <1>2, <2>1, <2>2, HexFacts DEF NewValue
<1>3. QED
  BY <1>1, <1>2

LEMMA StartHashFacts ==
  ASSUME NEW w \in NamespaceMigrationWorkspace, NEW s \in StartRow
  PROVE  StartHash(w, s) \in Hash /\ StartHash(w, s).value = NewValue(w, s.hash)
<1>1. CASE w.hash = None
  BY <1>1 DEF StartHash, NewValue, StartRow
<1>2. CASE w.hash # None
  <2>1. w.hash \in Hash
    BY <1>2 DEF NamespaceMigrationWorkspace
  <2>2. StartHash(w, s) \in {w.hash, Hex(w.hash)}
    BY <1>2 DEF StartHash
  <2>3. QED
    BY <1>2, <2>1, <2>2, HexFacts DEF NewValue
<1>3. QED
  BY <1>1, <1>2

LEMMA EffectiveUidFacts ==
  ASSUME NEW w \in NamespaceMigrationWorkspace, NEW row \in WorkspaceRow
  PROVE  EffectiveUid(w, row) \in Uid
BY DEF EffectiveUid, NamespaceMigrationWorkspace, WorkspaceRow

(***************************************************************************)
(* What a moved row says, of an application and of Runtime alike.          *)
(***************************************************************************)
Moved(b, w, row, new) ==
  /\ new \in WorkspaceRow
  /\ new.pvc = row.pvc /\ new.installation = row.installation
  /\ new.namespace = b.target /\ new.uid = EffectiveUid(w, row)
  /\ new.hash.value = NewValue(w, row.hash)

Copy == [namespace : Namespace \cup {None}, uid : Uid, hash : Hash]

LEMMA MovedAppFacts ==
  ASSUME NEW b \in NamespaceMigrationRequest, NEW w \in NamespaceMigrationWorkspace,
         NEW row \in WorkspaceRow
  PROVE  Moved(b, w, row, MovedApp(b, w, row)) /\ Matches(MovedApp(b, w, row))
<1>1. PICK hash \in Hash : hash = EffectiveHash(w, row) /\ hash.value = NewValue(w, row.hash)
  BY EffectiveHashFacts
<1>2. PICK uid \in Uid : uid = EffectiveUid(w, row)
  BY EffectiveUidFacts
<1>3. PICK kept \in {b.target, None} :
        kept = IF row.copy.namespace # None \/ schema.match THEN b.target ELSE None
  OBVIOUS
<1>4. b.target \in Namespace
  BY DEF NamespaceMigrationRequest
<1>5. PICK new : new = MovedApp(b, w, row)
  OBVIOUS
<1>6. PICK c \in Copy : c = [namespace |-> kept, uid |-> uid, hash |-> hash]
  BY <1>4 DEF Copy
<1>7. new = [row EXCEPT !.namespace = b.target, !.uid = uid, !.hash = hash, !.copy = c]
  BY <1>1, <1>2, <1>3, <1>5, <1>6 DEF MovedApp, WorkspaceRow
<1>8. /\ new \in WorkspaceRow
      /\ new.namespace = b.target /\ new.uid = uid /\ new.hash = hash /\ new.copy = c
      /\ new.pvc = row.pvc /\ new.installation = row.installation
  BY <1>4, <1>7 DEF WorkspaceRow, Copy
<1>9. c.namespace = kept /\ c.uid = uid /\ c.hash = hash
  BY <1>6
<1>10. QED
  BY <1>1, <1>2, <1>5, <1>8, <1>9 DEF Moved, Matches

LEMMA MovedRuntimeFacts ==
  ASSUME NEW b \in NamespaceMigrationRequest, NEW w \in NamespaceMigrationWorkspace,
         NEW row \in WorkspaceRow
  PROVE  Moved(b, w, row, MovedRuntime(b, w, row))
<1>1. PICK hash : hash = IF w.hash = None THEN row.hash ELSE Hex(w.hash)
  OBVIOUS
<1>2. hash \in Hash /\ hash.value = NewValue(w, row.hash)
  BY <1>1, HexFacts DEF NewValue, NamespaceMigrationWorkspace, WorkspaceRow
<1>3. PICK uid \in Uid : uid = EffectiveUid(w, row)
  BY EffectiveUidFacts
<1>4. b.target \in Namespace
  BY DEF NamespaceMigrationRequest
<1>5. PICK new : new = MovedRuntime(b, w, row)
  OBVIOUS
<1>6. PICK c \in Copy : c = [namespace |-> b.target, uid |-> uid, hash |-> hash]
  BY <1>2, <1>4 DEF Copy
<1>7. new = [row EXCEPT !.namespace = b.target, !.uid = uid, !.hash = hash, !.copy = c]
  BY <1>1, <1>3, <1>5, <1>6 DEF MovedRuntime
<1>8. /\ new \in WorkspaceRow
      /\ new.namespace = b.target /\ new.uid = uid /\ new.hash = hash
      /\ new.pvc = row.pvc /\ new.installation = row.installation
  BY <1>2, <1>4, <1>7 DEF WorkspaceRow, Copy
<1>9. QED
  BY <1>2, <1>3, <1>5, <1>8 DEF Moved

LEMMA MovedStartFacts ==
  ASSUME NEW w \in NamespaceMigrationWorkspace, NEW s \in StartRow
  PROVE  MovedStart(w, s) \in StartRow /\ MovedStart(w, s).hash.value = NewValue(w, s.hash)
BY StartHashFacts DEF MovedStart, StartRow, NamespaceMigrationWorkspace

(***************************************************************************)
(* One execution.                                                          *)
(***************************************************************************)
MovedExecution(b, w, e) ==
  [rewriteMigratedValue(b, w, e) EXCEPT !.hash = IF w.hash = None THEN @ ELSE w.hash.value]

LEMMA MovedExecutionFacts ==
  ASSUME NEW b \in NamespaceMigrationRequest, NEW w \in NamespaceMigrationWorkspace,
         NEW e \in ExecutionRow
  PROVE  /\ MovedExecution(b, w, e) \in ExecutionRow
         /\ MovedExecution(b, w, e).number = e.number
         /\ MovedExecution(b, w, e).namespace = IF e.namespace = b.source THEN b.target ELSE e.namespace
         /\ MovedExecution(b, w, e).address = IF e.address = b.source THEN b.target ELSE e.address
         /\ MovedExecution(b, w, e).hash = IF w.hash = None THEN e.hash ELSE w.hash.value
<1>1. PICK n \in Namespace : n = IF e.namespace = b.source THEN b.target ELSE e.namespace
  BY DEF NamespaceMigrationRequest, ExecutionRow
<1>2. PICK a \in Namespace : a = IF e.address = b.source THEN b.target ELSE e.address
  BY DEF NamespaceMigrationRequest, ExecutionRow
<1>3. PICK s \in Secret : s = IF w.secret = None THEN e.secret ELSE w.secret
  BY DEF NamespaceMigrationWorkspace, ExecutionRow
<1>4. PICK h \in Digest : h = IF w.hash = None THEN e.hash ELSE w.hash.value
  BY DEF NamespaceMigrationWorkspace, ExecutionRow, Hash
<1>5. PICK mid : mid = rewriteMigratedValue(b, w, e)
  OBVIOUS
<1>6. mid = [e EXCEPT !.namespace = n, !.address = a, !.secret = s]
  BY <1>1, <1>2, <1>3, <1>5 DEF rewriteMigratedValue
<1>7. /\ mid \in ExecutionRow /\ mid.hash = e.hash
      /\ mid.number = e.number /\ mid.namespace = n /\ mid.address = a
  BY <1>6 DEF ExecutionRow
<1>8. PICK new : new = MovedExecution(b, w, e)
  OBVIOUS
<1>9. new = [mid EXCEPT !.hash = h]
  BY <1>4, <1>5, <1>7, <1>8 DEF MovedExecution
<1>10. /\ new \in ExecutionRow /\ new.hash = h
       /\ new.number = e.number /\ new.namespace = n /\ new.address = a
  BY <1>7, <1>9 DEF ExecutionRow
<1>11. QED
  BY <1>1, <1>2, <1>4, <1>8, <1>10

LEMMA MigratedFacts ==
  ASSUME NEW b \in NamespaceMigrationRequest, NEW w \in NamespaceMigrationWorkspace,
         NEW E \in Executions
  PROVE  /\ migrateRuntimeExecutions(b, w, E) = {MovedExecution(b, w, e) : e \in E}
         /\ migrateRuntimeExecutions(b, w, E) \in Executions
<1>1. migrateRuntimeExecutions(b, w, E) = {MovedExecution(b, w, e) : e \in E}
  BY DEF migrateRuntimeExecutions, MovedExecution
<1>2. {MovedExecution(b, w, e) : e \in E} \subseteq ExecutionRow
  BY MovedExecutionFacts DEF Executions
<1>3. IsFiniteSet({MovedExecution(b, w, e) : e \in E})
  <2>1. PICK f : f = [e \in E |-> MovedExecution(b, w, e)]
    OBVIOUS
  <2>2. {f[e] : e \in E} = {MovedExecution(b, w, e) : e \in E}
    BY <2>1
  <2>3. f \in Surjection(E, {MovedExecution(b, w, e) : e \in E})
    BY <2>1 DEF Surjection
  <2>4. QED
    BY <2>3, FS_Surjection DEF Executions
<1>4. QED
  BY <1>1, <1>2, <1>3 DEF Executions

-----------------------------------------------------------------------------
(***************************************************************************)
(* MoveOne: each row it leaves is the row it found or that row moved.      *)
(***************************************************************************)
Asked(r) == Body[r].workspaces[tx.done + 1]

Tables == [workspace : Workspaces, start : Starts, execution : Histories,
           marked : BOOLEAN, done : Nat]

LEMMA MoveOneRows ==
  ASSUME MigrationInv, NEW r \in Request, MoveOne(r)
  PROVE  /\ Body[r] \in NamespaceMigrationRequest /\ Asked(r) \in NamespaceMigrationWorkspace
         /\ tx.done + 1 \in 1..Len(Body[r].workspaces)
         /\ \A i \in AppInstance :
              IF i \in Selected(Body[r], Asked(r), tx.workspace, AppInstance)
              THEN /\ tx'.workspace[i] = MovedApp(Body[r], Asked(r), tx.workspace[i])
                   /\ tx'.start[i] = MovedStart(Asked(r), tx.start[i])
              ELSE tx'.workspace[i] = tx.workspace[i] /\ tx'.start[i] = tx.start[i]
         /\ \A i \in RuntimeInstance :
              IF i \in Selected(Body[r], Asked(r), tx.workspace, RuntimeInstance)
              THEN /\ tx'.workspace[i] = MovedRuntime(Body[r], Asked(r), tx.workspace[i])
                   /\ tx'.execution[i] = migrateRuntimeExecutions(Body[r], Asked(r), tx.execution[i])
              ELSE tx'.workspace[i] = tx.workspace[i] /\ tx'.execution[i] = tx.execution[i]
<1>1. /\ Body[r] \in NamespaceMigrationRequest
      /\ tx \in Tables /\ tx.done < Len(Body[r].workspaces)
  BY MigrationAssumption DEF MigrationInv, TxTyped, MoveOne, Tables
<1>2. /\ Body[r].workspaces \in Seq(NamespaceMigrationWorkspace)
      /\ tx.done + 1 \in 1..Len(Body[r].workspaces)
  BY <1>1 DEF NamespaceMigrationRequest, Tables
<1>3. Asked(r) \in NamespaceMigrationWorkspace
  BY <1>2 DEF Asked
<1>4. PICK apps : apps = Selected(Body[r], Asked(r), tx.workspace, AppInstance)
  OBVIOUS
<1>5. PICK runs : runs = Selected(Body[r], Asked(r), tx.workspace, RuntimeInstance)
  OBVIOUS
<1>6. apps \subseteq AppInstance /\ runs \subseteq RuntimeInstance
  BY <1>4, <1>5 DEF Selected
<1>7. /\ tx'.workspace = [i \in Instance |->
           CASE i \in apps -> MovedApp(Body[r], Asked(r), tx.workspace[i])
             [] i \in runs -> MovedRuntime(Body[r], Asked(r), tx.workspace[i])
             [] OTHER -> tx.workspace[i]]
      /\ tx'.start = [i \in AppInstance |->
           IF i \in apps THEN MovedStart(Asked(r), tx.start[i]) ELSE tx.start[i]]
      /\ tx'.execution = [i \in RuntimeInstance |->
           IF i \in runs THEN migrateRuntimeExecutions(Body[r], Asked(r), tx.execution[i])
           ELSE tx.execution[i]]
  BY <1>4, <1>5 DEF MoveOne, Asked
<1>8. ASSUME NEW i \in AppInstance
      PROVE  IF i \in apps
             THEN /\ tx'.workspace[i] = MovedApp(Body[r], Asked(r), tx.workspace[i])
                  /\ tx'.start[i] = MovedStart(Asked(r), tx.start[i])
             ELSE tx'.workspace[i] = tx.workspace[i] /\ tx'.start[i] = tx.start[i]
  BY <1>6, <1>7, MigrationAssumption DEF RuntimeInstance
<1>9. ASSUME NEW i \in RuntimeInstance
      PROVE  IF i \in runs
             THEN /\ tx'.workspace[i] = MovedRuntime(Body[r], Asked(r), tx.workspace[i])
                  /\ tx'.execution[i] = migrateRuntimeExecutions(Body[r], Asked(r), tx.execution[i])
             ELSE tx'.workspace[i] = tx.workspace[i] /\ tx'.execution[i] = tx.execution[i]
  BY <1>6, <1>7 DEF RuntimeInstance
<1>10. QED
  BY <1>1, <1>2, <1>3, <1>4, <1>5, <1>8, <1>9

LEMMA MoveOneTyped ==
  ASSUME MigrationInv, NEW r \in Request, MoveOne(r)
  PROVE  tx' \in Tables /\ tx'.done <= Len(Body[r].workspaces)
<1>1. tx \in Tables
  BY DEF MigrationInv, TxTyped, MoveOne, Tables
<1>2. /\ Body[r] \in NamespaceMigrationRequest /\ Asked(r) \in NamespaceMigrationWorkspace
      /\ tx.done + 1 \in 1..Len(Body[r].workspaces)
  BY MoveOneRows
<1>3. PICK workspaces, starts, executions :
        tx' = [workspace |-> workspaces, start |-> starts, execution |-> executions,
               marked |-> tx.marked, done |-> tx.done + 1]
  BY DEF MoveOne
<1>4. workspaces = tx'.workspace /\ starts = tx'.start /\ executions = tx'.execution
  BY <1>3
<1>5. ASSUME NEW i \in Instance
      PROVE  tx'.workspace[i] \in WorkspaceRow
  <2>1. tx.workspace[i] \in WorkspaceRow
    BY <1>1 DEF Tables, Workspaces
  <2>2. i \in AppInstance \/ i \in RuntimeInstance
    BY DEF RuntimeInstance
  <2>3. \/ tx'.workspace[i] = tx.workspace[i]
        \/ tx'.workspace[i] = MovedApp(Body[r], Asked(r), tx.workspace[i])
        \/ tx'.workspace[i] = MovedRuntime(Body[r], Asked(r), tx.workspace[i])
    BY <2>2, MoveOneRows
  <2>4. QED
    BY <1>2, <2>1, <2>3, MovedAppFacts, MovedRuntimeFacts DEF Moved
<1>6. ASSUME NEW i \in AppInstance
      PROVE  tx'.start[i] \in StartRow
  <2>1. tx.start[i] \in StartRow
    BY <1>1 DEF Tables, Starts
  <2>2. tx'.start[i] = tx.start[i] \/ tx'.start[i] = MovedStart(Asked(r), tx.start[i])
    BY MoveOneRows
  <2>3. QED
    BY <1>2, <2>1, <2>2, MovedStartFacts
<1>7. ASSUME NEW i \in RuntimeInstance
      PROVE  tx'.execution[i] \in Executions
  <2>1. tx.execution[i] \in Executions
    BY <1>1 DEF Tables, Histories
  <2>2. \/ tx'.execution[i] = tx.execution[i]
        \/ tx'.execution[i] = migrateRuntimeExecutions(Body[r], Asked(r), tx.execution[i])
    BY MoveOneRows
  <2>3. QED
    BY <1>2, <2>1, <2>2, MigratedFacts
<1>8. /\ tx'.workspace = [i \in Instance |-> tx'.workspace[i]]
      /\ tx'.start = [i \in AppInstance |-> tx'.start[i]]
      /\ tx'.execution = [i \in RuntimeInstance |-> tx'.execution[i]]
  BY DEF MoveOne
<1>9. workspaces \in Workspaces /\ starts \in Starts /\ executions \in Histories
  BY <1>4, <1>5, <1>6, <1>7, <1>8 DEF Workspaces, Starts, Histories
<1>10. tx.marked \in BOOLEAN /\ tx.done + 1 \in Nat
  BY <1>1 DEF Tables
<1>11. tx'.done = tx.done + 1 /\ Len(Body[r].workspaces) \in Nat
  BY <1>2, <1>3 DEF NamespaceMigrationRequest
<1>12. QED
  BY <1>2, <1>3, <1>9, <1>10, <1>11 DEF Tables

LEMMA MoveOneCoherent ==
  ASSUME MigrationInv, NEW r \in Request, MoveOne(r)
  PROVE  Coherent(tx'.workspace, tx'.start) /\ Follow(tx'.execution, tx'.workspace)
<1>1. /\ tx \in Tables
      /\ Coherent(tx.workspace, tx.start) /\ Follow(tx.execution, tx.workspace)
  BY DEF MigrationInv, TxTyped, TxCoherent, MoveOne, Tables
<1>2. /\ Body[r] \in NamespaceMigrationRequest /\ Asked(r) \in NamespaceMigrationWorkspace
  BY MoveOneRows
<1>3. ASSUME NEW i \in AppInstance
      PROVE  Matches(tx'.workspace[i]) /\ tx'.start[i].hash.value = tx'.workspace[i].hash.value
  <2>1. /\ tx.workspace[i] \in WorkspaceRow /\ tx.start[i] \in StartRow
        /\ Matches(tx.workspace[i]) /\ tx.start[i].hash.value = tx.workspace[i].hash.value
    BY <1>1, MigrationAssumption DEF Tables, Workspaces, Starts, Coherent
  <2>2. CASE i \in Selected(Body[r], Asked(r), tx.workspace, AppInstance)
    <3>1. /\ tx'.workspace[i] = MovedApp(Body[r], Asked(r), tx.workspace[i])
          /\ tx'.start[i] = MovedStart(Asked(r), tx.start[i])
      BY <2>2, MoveOneRows
    <3>2. /\ Matches(tx'.workspace[i])
          /\ tx'.workspace[i].hash.value = NewValue(Asked(r), tx.workspace[i].hash)
      BY <1>2, <2>1, <3>1, MovedAppFacts DEF Moved
    <3>3. tx'.start[i].hash.value = NewValue(Asked(r), tx.start[i].hash)
      BY <1>2, <2>1, <3>1, MovedStartFacts
    <3>4. QED
      BY <2>1, <3>2, <3>3 DEF NewValue
  <2>3. CASE i \notin Selected(Body[r], Asked(r), tx.workspace, AppInstance)
    BY <2>1, <2>3, MoveOneRows
  <2>4. QED
    BY <2>2, <2>3
<1>4. ASSUME NEW i \in RuntimeInstance, NEW e \in tx'.execution[i]
      PROVE  /\ e.namespace = tx'.workspace[i].namespace
             /\ e.address = tx'.workspace[i].namespace
             /\ e.hash = tx'.workspace[i].hash.value
  <2>1. /\ tx.workspace[i] \in WorkspaceRow /\ tx.execution[i] \in Executions
        /\ \A d \in tx.execution[i] : /\ d.namespace = tx.workspace[i].namespace
                                      /\ d.address = tx.workspace[i].namespace
                                      /\ d.hash = tx.workspace[i].hash.value
    BY <1>1 DEF Tables, Workspaces, Histories, Follow, RuntimeInstance
  <2>2. CASE i \in Selected(Body[r], Asked(r), tx.workspace, RuntimeInstance)
    <3>1. /\ tx'.workspace[i] = MovedRuntime(Body[r], Asked(r), tx.workspace[i])
          /\ tx'.execution[i] = migrateRuntimeExecutions(Body[r], Asked(r), tx.execution[i])
      BY <2>2, MoveOneRows
    <3>2. PICK d \in tx.execution[i] : e = MovedExecution(Body[r], Asked(r), d)
      BY <1>2, <1>4, <2>1, <3>1, MigratedFacts
    <3>3. d \in ExecutionRow
      BY <2>1, <3>2 DEF Executions
    <3>4. /\ e.namespace = IF d.namespace = Body[r].source THEN Body[r].target ELSE d.namespace
          /\ e.address = IF d.address = Body[r].source THEN Body[r].target ELSE d.address
          /\ e.hash = IF Asked(r).hash = None THEN d.hash ELSE Asked(r).hash.value
      BY <1>2, <3>2, <3>3, MovedExecutionFacts
    <3>5. tx.workspace[i].namespace \in {Body[r].source, Body[r].target}
      BY <2>2 DEF Selected
    <3>6. /\ tx'.workspace[i].namespace = Body[r].target
          /\ tx'.workspace[i].hash.value = NewValue(Asked(r), tx.workspace[i].hash)
      BY <1>2, <2>1, <3>1, MovedRuntimeFacts DEF Moved
    <3>7. QED
      BY <2>1, <3>2, <3>4, <3>5, <3>6 DEF NewValue
  <2>3. CASE i \notin Selected(Body[r], Asked(r), tx.workspace, RuntimeInstance)
    BY <1>4, <2>1, <2>3, MoveOneRows
  <2>4. QED
    BY <2>2, <2>3
<1>5. QED
  BY <1>3, <1>4 DEF Coherent, Follow

(***************************************************************************)
(* A workspace whose rows are as the request left them is left alone.      *)
(***************************************************************************)
LEMMA MovedAlike ==
  ASSUME MigrationInv, NEW r \in Request, MoveOne(r), Landed(r), Alike,
         NEW i \in Selected(Body[r], Asked(r), tx.workspace, Instance)
  PROVE  /\ tx.workspace[i].namespace = Body[r].target
         /\ EffectiveUid(Asked(r), tx.workspace[i]) = tx.workspace[i].uid
         /\ NewValue(Asked(r), tx.workspace[i].hash) = tx.workspace[i].hash.value
<1>1. /\ tx.done + 1 \in 1..Len(Body[r].workspaces)
  BY MoveOneRows
<1>2. i \in Instance /\ SameRow(tx.workspace[i], workspace[i])
  BY DEF Selected, Alike
<1>3. i \in Selected(Body[r], Asked(r), workspace, Instance)
  BY <1>2 DEF Selected, SameRow
<1>4. /\ workspace[i].namespace = Body[r].target
      /\ Asked(r).uid \in {None, workspace[i].uid}
      /\ Asked(r).hash = None \/ Asked(r).hash.value = workspace[i].hash.value
  BY <1>1, <1>3 DEF Landed, Asked
<1>5. QED
  BY <1>2, <1>4 DEF SameRow, EffectiveUid, NewValue

LEMMA MoveOneAlike ==
  ASSUME MigrationInv, NEW r \in Request, MoveOne(r), Landed(r)
  PROVE  Alike'
<1>1. /\ tx \in Tables /\ Alike /\ Follow(tx.execution, tx.workspace)
  BY DEF MigrationInv, TxTyped, TxCoherent, TxIdle, MoveOne, Tables
<1>2. /\ Body[r] \in NamespaceMigrationRequest /\ Asked(r) \in NamespaceMigrationWorkspace
  BY MoveOneRows
<1>3. workspace' = workspace /\ execution' = execution
  BY DEF MoveOne
<1>4. ASSUME NEW i \in Instance
      PROVE  SameRow(tx'.workspace[i], tx.workspace[i])
  <2>1. tx.workspace[i] \in WorkspaceRow
    BY <1>1 DEF Tables, Workspaces
  <2>2. i \in AppInstance \/ i \in RuntimeInstance
    BY DEF RuntimeInstance
  <2>3. \/ tx'.workspace[i] = tx.workspace[i]
        \/ /\ i \in Selected(Body[r], Asked(r), tx.workspace, Instance)
           /\ \/ tx'.workspace[i] = MovedApp(Body[r], Asked(r), tx.workspace[i])
              \/ tx'.workspace[i] = MovedRuntime(Body[r], Asked(r), tx.workspace[i])
    BY <2>2, MoveOneRows DEF Selected
  <2>4. CASE tx'.workspace[i] = tx.workspace[i]
    BY <2>4 DEF SameRow
  <2>5. CASE /\ i \in Selected(Body[r], Asked(r), tx.workspace, Instance)
             /\ Moved(Body[r], Asked(r), tx.workspace[i], tx'.workspace[i])
    BY <1>1, <2>5, MovedAlike DEF SameRow, Moved
  <2>6. QED
    BY <1>2, <2>1, <2>3, <2>4, <2>5, MovedAppFacts, MovedRuntimeFacts
<1>5. ASSUME NEW i \in RuntimeInstance
      PROVE  Bare(tx'.execution[i]) = Bare(tx.execution[i])
  <2>1. /\ tx.execution[i] \in Executions
        /\ \A d \in tx.execution[i] : /\ d.namespace = tx.workspace[i].namespace
                                      /\ d.address = tx.workspace[i].namespace
                                      /\ d.hash = tx.workspace[i].hash.value
    BY <1>1 DEF Tables, Histories, Follow
  <2>2. CASE i \in Selected(Body[r], Asked(r), tx.workspace, RuntimeInstance)
    <3>1. tx'.execution[i] = {MovedExecution(Body[r], Asked(r), d) : d \in tx.execution[i]}
      BY <1>2, <2>1, <2>2, MoveOneRows, MigratedFacts
    <3>2. /\ tx.workspace[i].namespace = Body[r].target
          /\ NewValue(Asked(r), tx.workspace[i].hash) = tx.workspace[i].hash.value
      BY <1>1, <2>2, MovedAlike DEF Selected, RuntimeInstance
    <3>3. ASSUME NEW d \in tx.execution[i]
          PROVE  [MovedExecution(Body[r], Asked(r), d) EXCEPT !.secret = None]
                   = [d EXCEPT !.secret = None]
      <4>1. PICK e : e = MovedExecution(Body[r], Asked(r), d)
        OBVIOUS
      <4>2. d \in ExecutionRow
        BY <2>1 DEF Executions
      <4>3. /\ e \in ExecutionRow /\ e.number = d.number /\ e.namespace = d.namespace
            /\ e.address = d.address /\ e.hash = d.hash
        BY <1>2, <2>1, <3>2, <4>1, <4>2, MovedExecutionFacts DEF NewValue
      <4>4. [e EXCEPT !.secret = None] = [d EXCEPT !.secret = None]
        BY <4>2, <4>3 DEF ExecutionRow
      <4>5. QED
        BY <4>1, <4>4
    <3>4. ASSUME NEW x \in Bare(tx'.execution[i])
          PROVE  x \in Bare(tx.execution[i])
      <4>1. PICK e \in tx'.execution[i] : x = [e EXCEPT !.secret = None]
        BY <3>4 DEF Bare
      <4>2. PICK d \in tx.execution[i] : e = MovedExecution(Body[r], Asked(r), d)
        BY <3>1, <4>1
      <4>3. QED
        BY <3>3, <4>1, <4>2 DEF Bare
    <3>5. ASSUME NEW x \in Bare(tx.execution[i])
          PROVE  x \in Bare(tx'.execution[i])
      <4>1. PICK d \in tx.execution[i] : x = [d EXCEPT !.secret = None]
        BY <3>5 DEF Bare
      <4>2. MovedExecution(Body[r], Asked(r), d) \in tx'.execution[i]
        BY <3>1
      <4>3. QED
        BY <3>3, <4>1, <4>2 DEF Bare
    <3>6. QED
      BY <3>4, <3>5
  <2>3. CASE i \notin Selected(Body[r], Asked(r), tx.workspace, RuntimeInstance)
    BY <2>3, MoveOneRows
  <2>4. QED
    BY <2>2, <2>3
<1>6. QED
  BY <1>1, <1>3, <1>4, <1>5 DEF Alike, SameRow

-----------------------------------------------------------------------------
(***************************************************************************)
(* The steps.  Landed is about the tables, which change only at a commit   *)
(* and when Runtime records an execution; neither happens beside an open   *)
(* transaction.                                                            *)
(***************************************************************************)
LEMMA InitInv == Init => MigrationInv
<1> SUFFICES ASSUME Init PROVE MigrationInv
  OBVIOUS
<1>1. workspace \in Workspaces /\ start \in Starts /\ RowsCoherent
  BY MigrationAssumption DEF Init, Workspaces, Starts, RowsCoherent
<1>2. execution \in Histories /\ ExecutionsFollow
  <2>1. {} \in Executions
    BY FS_EmptySet DEF Executions
  <2>2. QED
    BY <2>1 DEF Init, Histories, ExecutionsFollow, Follow
<1>3. attempt \in [Request -> Status] /\ \A r \in Request : attempt[r] = "idle"
  BY DEF Init, Status
<1>4. QED
  BY <1>1, <1>2, <1>3
  DEF MigrationInv, Typed, OneOpen, TxTyped, TxCoherent, TxIdle, PlaceIsNew

(***************************************************************************)
(* A step that changes no table, and leaves the open transaction alone or  *)
(* ends it.                                                                *)
(***************************************************************************)
LEMMA QuietStep ==
  ASSUME MigrationInv, PlaceIsNew', attempt' \in [Request -> Status],
         UNCHANGED <<workspace, start, execution>>,
         \A r \in Request : attempt'[r] = "open" => attempt[r] = "open" /\ tx' = tx
  PROVE  MigrationInv'
<1>1. Typed' /\ RowsCoherent' /\ ExecutionsFollow'
  BY DEF MigrationInv, Typed, RowsCoherent, ExecutionsFollow
<1>2. OneOpen' /\ TxTyped' /\ TxCoherent'
  BY DEF MigrationInv, OneOpen, TxTyped, TxCoherent
<1>3. ASSUME NEW r \in Request, attempt'[r] = "open", Landed(r)'
      PROVE  Alike'
  <2>1. Landed(r)
    BY <1>3 DEF Landed
  <2>2. Alike /\ tx' = tx
    BY <1>3, <2>1 DEF MigrationInv, TxIdle
  <2>3. QED
    BY <2>2 DEF Alike
<1>4. QED
  BY <1>1, <1>2, <1>3 DEF MigrationInv, TxIdle

LEMMA BeginInv ==
  ASSUME MigrationInv, NEW r \in Request, Begin(r)
  PROVE  MigrationInv'
<1>1. attempt \in [Request -> Status] /\ UNCHANGED <<workspace, start, execution, placed>>
  BY DEF MigrationInv, Typed, Begin
<1>2. CASE attempt' = [attempt EXCEPT ![r] = "refused"] /\ UNCHANGED tx
  <2>1. /\ attempt' \in [Request -> Status] /\ PlaceIsNew'
        /\ \A s \in Request : attempt'[s] = "open" => attempt[s] = "open" /\ tx' = tx
    BY <1>1, <1>2 DEF MigrationInv, PlaceIsNew, Status
  <2>2. QED
    BY <1>1, <2>1, QuietStep
<1>3. CASE /\ attempt' = [attempt EXCEPT ![r] = "open"]
           /\ tx' = [workspace |-> workspace, start |-> start, execution |-> execution,
                     marked |-> active # None, done |-> 0]
  <2>1. attempt' \in [Request -> Status] /\ \A s \in Request : attempt'[s] = "open" => s = r
    BY <1>1, <1>3 DEF Begin, Unlocked, Status
  <2>2. Typed' /\ RowsCoherent' /\ ExecutionsFollow' /\ OneOpen'
    BY <1>1, <2>1 DEF MigrationInv, Typed, RowsCoherent, ExecutionsFollow, OneOpen
  <2>3. PlaceIsNew'
    BY <1>1, <1>3 DEF MigrationInv, PlaceIsNew
  <2>4. TxTyped'
    <3>1. /\ workspace \in Workspaces /\ start \in Starts /\ execution \in Histories
      BY DEF MigrationInv, Typed
    <3>2. Body[r].workspaces \in Seq(NamespaceMigrationWorkspace)
      BY MigrationAssumption DEF NamespaceMigrationRequest
    <3>3. Len(Body[r].workspaces) \in Nat
      BY <3>2
    <3>4. QED
      BY <1>3, <2>1, <3>1, <3>3 DEF TxTyped
  <2>5. TxCoherent'
    BY <1>3 DEF TxCoherent, MigrationInv, RowsCoherent, ExecutionsFollow
  <2>6. Alike'
    BY <1>1, <1>3 DEF Alike, SameRow
  <2>7. QED
    BY <2>2, <2>3, <2>4, <2>5, <2>6 DEF MigrationInv, TxIdle
<1>4. QED
  BY <1>2, <1>3 DEF Begin

LEMMA MoveOneInv ==
  ASSUME MigrationInv, NEW r \in Request, MoveOne(r)
  PROVE  MigrationInv'
<1>1. /\ attempt[r] = "open" /\ UNCHANGED <<workspace, start, execution, attempt, placed>>
  BY DEF MoveOne
<1>2. \A s \in Request : attempt[s] = "open" => s = r
  BY <1>1 DEF MigrationInv, OneOpen
<1>3. Typed' /\ RowsCoherent' /\ ExecutionsFollow' /\ OneOpen' /\ PlaceIsNew'
  BY <1>1 DEF MigrationInv, Typed, RowsCoherent, ExecutionsFollow, OneOpen, PlaceIsNew
<1>4. TxTyped'
  BY <1>1, <1>2, MoveOneTyped DEF TxTyped, Tables
<1>5. TxCoherent'
  BY <1>1, <1>2, MoveOneCoherent DEF TxCoherent
<1>6. ASSUME NEW s \in Request, attempt'[s] = "open", Landed(s)'
      PROVE  Alike'
  <2>1. Landed(r)
    BY <1>1, <1>2, <1>6 DEF Landed
  <2>2. QED
    BY <2>1, MoveOneAlike
<1>7. QED
  BY <1>3, <1>4, <1>5, <1>6 DEF MigrationInv, TxIdle

LEMMA CommitInv ==
  ASSUME MigrationInv, NEW r \in Request, NEW known \in BOOLEAN, Commit(r, known)
  PROVE  MigrationInv'
<1>1. /\ attempt[r] = "open" /\ placed' = placed
      /\ workspace' = tx.workspace /\ start' = tx.start /\ execution' = tx.execution
      /\ attempt' = [attempt EXCEPT ![r] = IF known THEN "moved" ELSE "failed"]
  BY DEF Commit
<1>2. /\ tx.workspace \in Workspaces /\ tx.start \in Starts /\ tx.execution \in Histories
      /\ Coherent(tx.workspace, tx.start) /\ Follow(tx.execution, tx.workspace)
  BY <1>1 DEF MigrationInv, TxTyped, TxCoherent
<1>3. /\ attempt' \in [Request -> Status] /\ attempt \in [Request -> Status]
      /\ \A s \in Request : attempt'[s] # "open"
  BY <1>1 DEF MigrationInv, Typed, Status, OneOpen
<1>4. Typed' /\ RowsCoherent' /\ ExecutionsFollow'
  BY <1>1, <1>2, <1>3 DEF Typed, RowsCoherent, ExecutionsFollow
<1>5. PlaceIsNew'
  BY <1>1, <1>3 DEF MigrationInv, PlaceIsNew
<1>6. OneOpen' /\ TxTyped' /\ TxCoherent' /\ TxIdle'
  BY <1>3 DEF OneOpen, TxTyped, TxCoherent, TxIdle
<1>7. QED
  BY <1>4, <1>5, <1>6 DEF MigrationInv

LEMMA ExecuteInv ==
  ASSUME MigrationInv, NEW i \in RuntimeInstance, NEW secret \in Secret, Execute(i, secret)
  PROVE  MigrationInv'
<1>1. /\ \A s \in Request : attempt[s] # "open"
      /\ UNCHANGED <<workspace, start, attempt, placed>>
  BY DEF Execute, Unlocked
<1>2. PICK e : e = [number |-> Cardinality(execution[i]), namespace |-> workspace[i].namespace,
                    address |-> workspace[i].namespace, hash |-> workspace[i].hash.value,
                    secret |-> secret]
  OBVIOUS
<1>3. execution[i] \in Executions /\ workspace[i] \in WorkspaceRow
  BY DEF MigrationInv, Typed, Histories, Workspaces, RuntimeInstance
<1>4. e \in ExecutionRow
  <2>1. Cardinality(execution[i]) \in Nat
    BY <1>3, FS_CardinalityType DEF Executions
  <2>2. QED
    BY <1>2, <1>3, <2>1 DEF ExecutionRow, WorkspaceRow, Hash
<1>5. execution[i] \cup {e} \in Executions
  BY <1>3, <1>4, FS_AddElement DEF Executions
<1>6. execution' = [execution EXCEPT ![i] = execution[i] \cup {e}]
  BY <1>2 DEF Execute
<1>7. execution' \in Histories
  BY <1>5, <1>6 DEF MigrationInv, Typed, Histories
<1>8. ExecutionsFollow'
  <2> SUFFICES ASSUME NEW j \in RuntimeInstance, NEW d \in execution'[j]
               PROVE  /\ d.namespace = workspace[j].namespace /\ d.address = workspace[j].namespace
                      /\ d.hash = workspace[j].hash.value
    BY <1>1 DEF ExecutionsFollow, Follow
  <2>1. d \in execution[j] \/ (j = i /\ d = e)
    BY <1>6 DEF MigrationInv, Typed, Histories
  <2>2. QED
    BY <1>2, <2>1 DEF MigrationInv, ExecutionsFollow, Follow
<1>9. Typed' /\ RowsCoherent' /\ PlaceIsNew'
  BY <1>1, <1>7 DEF MigrationInv, Typed, RowsCoherent, PlaceIsNew
<1>10. OneOpen' /\ TxTyped' /\ TxCoherent' /\ TxIdle'
  BY <1>1 DEF OneOpen, TxTyped, TxCoherent, TxIdle
<1>11. QED
  BY <1>8, <1>9, <1>10 DEF MigrationInv

LEMMA NextInv == MigrationInv /\ [Next]_vars => MigrationInv'
<1> SUFFICES ASSUME MigrationInv, [Next]_vars PROVE MigrationInv'
  OBVIOUS
<1>0. attempt \in [Request -> Status]
  BY DEF MigrationInv, Typed
<1>1. ASSUME NEW r \in Request, Rollback(r)
      PROVE  MigrationInv'
  <2>1. /\ attempt' = [attempt EXCEPT ![r] = "failed"] /\ attempt[r] = "open"
        /\ UNCHANGED <<workspace, start, execution, placed>>
    BY <1>1 DEF Rollback
  <2>2. attempt' \in [Request -> Status] /\ \A s \in Request : attempt'[s] # "open"
    BY <1>0, <2>1 DEF Status, MigrationInv, OneOpen
  <2>3. PlaceIsNew'
    BY <1>0, <2>1 DEF MigrationInv, PlaceIsNew
  <2>4. QED
    BY <2>1, <2>2, <2>3, QuietStep
<1>2. ASSUME NEW r \in Request, Reset(r)
      PROVE  MigrationInv'
  <2>1. /\ attempt' = [attempt EXCEPT ![r] = "answered"]
        /\ placed' = IF r \notin Command /\ placed.namespace # Body[r].target
                     THEN [namespace |-> None, after |-> {}] ELSE placed
        /\ UNCHANGED <<workspace, start, execution, tx>>
    BY <1>2 DEF Reset
  <2>2. /\ attempt' \in [Request -> Status]
        /\ \A s \in Request : attempt'[s] = "open" => attempt[s] = "open" /\ tx' = tx
    BY <1>0, <2>1 DEF Status
  <2>3. PlaceIsNew'
    BY <1>0, <2>1 DEF MigrationInv, PlaceIsNew
  <2>4. QED
    BY <2>1, <2>2, <2>3, QuietStep
<1>3. ASSUME NEW r \in Request, Repeat(r)
      PROVE  MigrationInv'
  <2>1. /\ attempt' = [attempt EXCEPT ![r] = "idle"]
        /\ placed' = [placed EXCEPT !.after = @ \ {r}]
        /\ UNCHANGED <<workspace, start, execution, tx>>
    BY <1>3 DEF Repeat
  <2>2. /\ attempt' \in [Request -> Status]
        /\ \A s \in Request : attempt'[s] = "open" => attempt[s] = "open" /\ tx' = tx
    BY <1>0, <2>1 DEF Status
  <2>3. PlaceIsNew'
    BY <1>0, <2>1 DEF MigrationInv, PlaceIsNew
  <2>4. QED
    BY <2>1, <2>2, <2>3, QuietStep
<1>4. ASSUME NEW n, Reinstall(n)
      PROVE  MigrationInv'
  <2>1. UNCHANGED <<workspace, start, execution, tx, attempt, placed>>
    BY <1>4 DEF Reinstall
  <2>2. PlaceIsNew'
    BY <2>1 DEF MigrationInv, PlaceIsNew
  <2>3. QED
    BY <1>0, <2>1, <2>2, QuietStep
<1>5. ASSUME NEW n, Report(n)
      PROVE  MigrationInv'
  <2>1. /\ UNCHANGED <<workspace, start, execution, tx, attempt>>
        /\ placed' = [namespace |-> n, after |-> {r \in Request : attempt[r] = "answered"}]
    BY <1>5 DEF Report
  <2>2. PlaceIsNew'
    BY <2>1 DEF PlaceIsNew
  <2>3. QED
    BY <1>0, <2>1, <2>2, QuietStep
<1>6. ASSUME Restart
      PROVE  MigrationInv'
  <2>1. /\ UNCHANGED <<workspace, start, execution>>
        /\ placed' = [namespace |-> None, after |-> {}]
        /\ attempt' = [r \in Request |->
             IF attempt[r] \in {"open", "moved"} /\ r \notin Command THEN "failed" ELSE attempt[r]]
        /\ tx' = IF \E r \in Request \ Command : attempt[r] = "open" THEN None ELSE tx
    BY <1>6 DEF Restart
  <2>2. attempt' \in [Request -> Status] /\ PlaceIsNew'
    BY <1>0, <2>1 DEF PlaceIsNew, Status
  <2>3. ASSUME NEW s \in Request, attempt'[s] = "open"
        PROVE  attempt[s] = "open" /\ tx' = tx
    <3>1. attempt[s] = "open" /\ s \in Command
      BY <2>1, <2>3
    <3>2. ~\E r \in Request \ Command : attempt[r] = "open"
      BY <3>1 DEF MigrationInv, OneOpen
    <3>3. QED
      BY <2>1, <3>1, <3>2
  <2>4. QED
    BY <2>1, <2>2, <2>3, QuietStep
<1>7. CASE UNCHANGED vars
  <2>1. UNCHANGED <<workspace, start, execution, tx, attempt, placed>>
    BY <1>7 DEF vars
  <2>2. PlaceIsNew'
    BY <2>1 DEF MigrationInv, PlaceIsNew
  <2>3. QED
    BY <1>0, <2>1, <2>2, QuietStep
<1>8. QED
  BY <1>1, <1>2, <1>3, <1>4, <1>5, <1>6, <1>7, BeginInv, MoveOneInv, CommitInv, ExecuteInv DEF Next

-----------------------------------------------------------------------------
(***************************************************************************)
(* Whatever requests, failures, lost commits and repetitions there are,    *)
(* the tables and what an open migration makes of them stay well formed,   *)
(* and its view is not out of date (MigrateNamespace and its two locks).   *)
(***************************************************************************)
THEOREM MigrationInvariant == Spec => []MigrationInv
BY InitInv, NextInv, PTL DEF Spec

(***************************************************************************)
(* A row of an application says the same in its columns, its binding and   *)
(* its starts after any series of migrations (MigrateNamespace, the        *)
(* updates of app_instance_workspaces and app_instance_starts).            *)
(***************************************************************************)
THEOREM RowsStayCoherent == Spec => []RowsCoherent
<1>1. MigrationInv => RowsCoherent
  BY DEF MigrationInv
<1>2. QED
  BY <1>1, MigrationInvariant, PTL

(***************************************************************************)
(* An execution names the namespace, the address and the profile of its    *)
(* instance's workspace (migrateRuntimeExecutions).                        *)
(***************************************************************************)
THEOREM ExecutionsStayWithWorkspaces == Spec => []ExecutionsFollow
<1>1. MigrationInv => ExecutionsFollow
  BY DEF MigrationInv
<1>2. QED
  BY <1>1, MigrationInvariant, PTL

(***************************************************************************)
(* No place outside the target of an answered migration survives from      *)
(* before its answer, restarts and repetitions included (ResetAppBindings  *)
(* after the commit).                                                      *)
(***************************************************************************)
THEOREM PlacesAreNew == Spec => []PlaceIsNew
<1>1. MigrationInv => PlaceIsNew
  BY DEF MigrationInv
<1>2. QED
  BY <1>1, MigrationInvariant, PTL

(***************************************************************************)
(* A migration committed again, its rows being as it left them, changes no *)
(* row (MigrateNamespace: idempotent).                                     *)
(***************************************************************************)
THEOREM RepetitionsAreIdle == Spec => RepeatIsIdle
<1>1. ASSUME MigrationInv, [Next]_vars, NEW r \in Request,
             \E known \in BOOLEAN : Commit(r, known), Landed(r), NEW i \in Instance
      PROVE  /\ workspace'[i].uid = workspace[i].uid
             /\ workspace'[i].namespace = workspace[i].namespace
             /\ workspace'[i].hash.value = workspace[i].hash.value
             /\ i \in RuntimeInstance => Bare(execution'[i]) = Bare(execution[i])
  <2>1. attempt[r] = "open" /\ workspace' = tx.workspace /\ execution' = tx.execution
    BY <1>1 DEF Commit
  <2>2. Alike
    BY <1>1, <2>1 DEF MigrationInv, TxIdle
  <2>3. QED
    BY <2>1, <2>2 DEF Alike, SameRow
<1>2. MigrationInv /\ [Next]_vars => [RepeatStep]_vars
  BY <1>1 DEF Bare, RepeatStep
<1>3. QED
  BY <1>2, MigrationInvariant, PTL DEF Spec, RepeatIsIdle
=============================================================================
