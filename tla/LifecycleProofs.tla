--------------------------- MODULE LifecycleProofs ---------------------------
(***************************************************************************)
(* Proofs about Lifecycle, for every value of its constants.               *)
(***************************************************************************)
EXTENDS Lifecycle, TLAPS

(***************************************************************************)
(* A table stays a table of ids S and rows R.                              *)
(***************************************************************************)
LEMMA InsertTyped ==
  ASSUME NEW S, NEW R, NEW table, NEW id \in S, NEW row \in R,
         DOMAIN table \subseteq S, \A x \in DOMAIN table : table[x] \in R
  PROVE  /\ DOMAIN Insert(table, id, row) \subseteq S
         /\ \A x \in DOMAIN Insert(table, id, row) : Insert(table, id, row)[x] \in R
BY DEF Insert

-----------------------------------------------------------------------------
(***************************************************************************)
(* References between the tables, and from a dispatch to its rows, lead to *)
(* rows that exist: rows are never deleted.                                *)
(***************************************************************************)
Linked ==
  /\ \A t \in DOMAIN transition : transition[t].installation \in DOMAIN installation
  /\ \A r \in DOMAIN recovery : recovery[r].transition \in DOMAIN transition
  /\ \A c \in Coordinator : coord[c] # None => coord[c].transition \in DOMAIN transition
  /\ \A w \in Worker : worker[w].op # None => worker[w].op \in DOMAIN operation

(***************************************************************************)
(* The initial state: empty tables, idle workers and coordinators.         *)
(***************************************************************************)
LEMMA InitTyped == Init => TypeOK /\ Linked
  BY InstallationsAssumption, TransitionsAssumption
  DEF Init, TypeOK, Linked, TablesInit, OperationsInit, TransitionsInit, TablesTypeOK,
      OperationsTypeOK, TransitionsTypeOK, EmptyTable, Idle, JournalPhase

-----------------------------------------------------------------------------
(***************************************************************************)
(* Type correctness: one lemma per action.                                 *)
(***************************************************************************)
LEMMA TypedBoundRow ==
  ASSUME NEW c \in Command, NEW o \in OperationID, NEW row \in InstallationRow
  PROVE  BoundRow(c, o, row) \in InstallationRow
<1> DEFINE rel == IF BindsNow(c, row) THEN c.release ELSE row.release
<1>1. rel \in Release \cup {None}
  BY DEF InstallationRow, Command
<1>2. row.revision + 1 \in Nat
  BY DEF InstallationRow
<1>3. BoundRow(c, o, row) = [row EXCEPT !.lastOp = o, !.revision = row.revision + 1, !.release = rel]
  BY DEF BoundRow
<1> HIDE DEF rel
<1>4. QED
  BY <1>1, <1>2, <1>3 DEF InstallationRow

(***************************************************************************)
(* The installation row that a submission writes.                          *)
(***************************************************************************)
LEMMA TypedRow ==
  ASSUME TypeOK, NEW c \in Command, NEW i \in InstallationID, NEW o \in OperationID
  PROVE  BoundRow(c, o, ReservedRow(c, i)) \in InstallationRow
<1>1. c \in Command
  OBVIOUS
<1>2. ReservedRow(c, i) \in InstallationRow
  <2>1. CASE i \in DOMAIN installation
    BY <2>1 DEF ReservedRow, TypeOK, TablesTypeOK
  <2>2. CASE i \notin DOMAIN installation
    <3>1. OrgOf[c.user] \in Org
      BY <1>1, InstallationsAssumption DEF Command
    <3>2. QED
      BY <1>1, <2>2, <3>1 DEF ReservedRow, PendingRow, Command, InstallationRow
  <2>3. QED
    BY <2>1, <2>2
<1>3. QED
  BY <1>1, <1>2, TypedBoundRow

(***************************************************************************)
(* What clients submit, and what holds its locks, is a command.            *)
(***************************************************************************)
LEMMA PreinstalledTyped == PreinstalledCommands \subseteq Command
<1>1. \A r \in Release : r.version \in Version
  BY DEF Release
<1>2. \A x \in Offered : x[1] \in Action /\ x[2] \in Kind
  BY OperationsAssumption
<1>3. QED
  BY <1>1, <1>2 DEF PreinstalledCommands, Command

LEMMA EnteredTyped == TypeOK => Entered \subseteq Command
<1>1. \A x \in Offered : x[1] \in Action /\ x[2] \in Kind
  BY OperationsAssumption
<1>2. UnboundCommands \subseteq Command
  BY <1>1 DEF UnboundCommands, Command
<1>3. TypeOK => {applock[a] : a \in App} \ {None} \subseteq Command
  BY DEF TypeOK, OperationsTypeOK
<1>4. QED
  BY <1>2, <1>3 DEF Entered

(***************************************************************************)
(* A submission (submit, SubmitPreinstalled, SubmitAppCenter).             *)
(***************************************************************************)
LEMMA TypeSubmit ==
  ASSUME TypeOK, NEW o \in OperationID, NEW c \in Command,
         NEW i \in InstallationID \cup {None}, submit(c, o, i), UNCHANGED trVars
  PROVE  TypeOK'
<1>1. c \in Command
  OBVIOUS
<1>2. /\ DOMAIN installation' \subseteq InstallationID
      /\ \A j \in DOMAIN installation' : installation'[j] \in InstallationRow
  <2>1. CASE i = None
    BY <2>1 DEF submit, TypeOK, TablesTypeOK
  <2>2. CASE i # None
    <3>1. installation' = Insert(installation, i, BoundRow(c, o, ReservedRow(c, i)))
      BY <2>2 DEF submit
    <3>2. BoundRow(c, o, ReservedRow(c, i)) \in InstallationRow
      BY <2>2, TypedRow
    <3>3. QED
      BY <2>2, <3>1, <3>2, InsertTyped DEF TypeOK, TablesTypeOK
  <2>3. QED
    BY <2>1, <2>2
<1>3. /\ DOMAIN operation' \subseteq OperationID
      /\ \A p \in DOMAIN operation' : operation'[p] \in OperationRow
  <2> DEFINE row == [user |-> c.user, key |-> c.key, app |-> c.app, version |-> c.version,
                     action |-> c.action, kind |-> c.kind, release |-> c.release,
                     reinstall |-> c.reinstall, installation |-> i, status |-> "accepted"]
  <2>1. operation' = Insert(operation, o, row)
    BY DEF submit
  <2>2. row \in OperationRow
    BY <1>1 DEF Command, OperationRow, OpStatus
  <2>3. QED
    BY <2>1, <2>2, InsertTyped DEF TypeOK, TablesTypeOK
<1>4. OperationsTypeOK'
  <2>1. Queued \subseteq OperationID \cup Worker
    BY DEF Queued, TypeOK, TablesTypeOK
  <2>2. QED
    BY <2>1 DEF submit, TypeOK, OperationsTypeOK
<1>5. UNCHANGED transition
  BY DEF submit
<1>6. TransitionsTypeOK'
  BY DEF TypeOK, TransitionsTypeOK, trVars
<1>7. QED
  BY <1>2, <1>3, <1>4, <1>5, <1>6 DEF TypeOK, TablesTypeOK

(***************************************************************************)
(* The steps of DispatchOne that leave the tables alone.                   *)
(***************************************************************************)
LEMMA TypeDispatch ==
  ASSUME TypeOK, NEW w \in Worker, UNCHANGED trVars,
         \/ \E o \in OperationID : Pick(w, o)
         \/ \E a \in Answer : Reconcile(w, a)
         \/ Postpone(w) \/ Rollback(w)
  PROVE  TypeOK'
<1>1. UNCHANGED tables
  BY DEF Pick, Reconcile, Postpone, Rollback
<1>2. ASSUME NEW o \in OperationID, Pick(w, o)
      PROVE  OperationsTypeOK'
  <2>1. Queued \subseteq OperationID \cup Worker
    BY DEF Queued, TypeOK, TablesTypeOK
  <2>2. QED
    BY <1>2, <2>1 DEF Pick, TypeOK, OperationsTypeOK
<1>3. ASSUME NEW a \in Answer, Reconcile(w, a)
      PROVE  OperationsTypeOK'
  BY <1>3 DEF Reconcile, Answer, TypeOK, OperationsTypeOK
<1>4. ASSUME Postpone(w) PROVE OperationsTypeOK'
  BY <1>4 DEF Postpone, Touched, Without, Idle, TypeOK, OperationsTypeOK
<1>5. ASSUME Rollback(w) PROVE OperationsTypeOK'
  BY <1>5 DEF Rollback, Without, Idle, TypeOK, OperationsTypeOK
<1>6. OperationsTypeOK'
  BY <1>2, <1>3, <1>4, <1>5 DEF TypeOK
<1>7. QED
  BY <1>1, <1>6 DEF TypeOK, TablesTypeOK, TransitionsTypeOK, tables, trVars

(***************************************************************************)
(* The installation row that a recorded result leaves.                     *)
(***************************************************************************)
LEMMA TypedProgress ==
  ASSUME TypeOK, NEW o \in DOMAIN operation, NEW row \in InstallationRow,
         NEW result \in OpStatus
  PROVE  ProgressRow(o, row, result) \in InstallationRow
<1> DEFINE next == installationState(row.state, operation[o].action, result)
<1>1. operation[o] \in OperationRow
  BY DEF TypeOK, TablesTypeOK
<1>2. operation[o].version \in Version /\ operation[o].release \in Release \cup {None}
  BY <1>1 DEF OperationRow
<1>3. row.revision + 1 \in Nat
  BY DEF InstallationRow
<1>4. next \in {"pending", "installed", "failed", "removed"}
  BY DEF installationState, InstallationRow
<1>5. \/ ProgressRow(o, row, result) =
            [row EXCEPT !.version = operation[o].version, !.revision = row.revision + 1]
      \/ ProgressRow(o, row, result) =
            [row EXCEPT !.version = operation[o].version, !.revision = row.revision + 1,
                        !.release = operation[o].release]
      \/ ProgressRow(o, row, result) =
            [row EXCEPT !.state = next, !.revision = row.revision + 1]
      \/ ProgressRow(o, row, result) = row
  BY DEF ProgressRow
<1> HIDE DEF next
<1>6. QED
  BY <1>2, <1>3, <1>4, <1>5 DEF InstallationRow

(***************************************************************************)
(* DispatchOne commits Runtime's answer.                                   *)
(***************************************************************************)
LEMMA TypeRecord ==
  ASSUME TypeOK, Linked, NEW w \in Worker, Record(w), UNCHANGED trVars
  PROVE  TypeOK'
<1> DEFINE o == worker[w].op
           a == worker[w].answer
           i == operation[o].installation
<1>1. o \in DOMAIN operation /\ o \in OperationID
  BY DEF Record, Linked, TypeOK, TablesTypeOK
<1>2. Result(a) \in OpStatus
  BY DEF Record, Result, Answer, OpStatus
<1>3. operation' = [operation EXCEPT ![o].status = Result(a)]
  BY DEF Record
<1>4. /\ DOMAIN operation' = DOMAIN operation
      /\ \A p \in DOMAIN operation' : operation'[p] \in OperationRow
  BY <1>1, <1>2, <1>3 DEF TypeOK, TablesTypeOK, OperationRow
<1>5. /\ DOMAIN installation' = DOMAIN installation
      /\ \A j \in DOMAIN installation' : installation'[j] \in InstallationRow
  <2>1. CASE Applies(o)
    <3>1. i \in DOMAIN installation /\ installation[i] \in InstallationRow
      BY <2>1 DEF Applies, TypeOK, TablesTypeOK
    <3>2. installation' = [installation EXCEPT ![i] = ProgressRow(o, installation[i], Result(a))]
      BY <2>1 DEF Record, recordInstallationProgress
    <3>3. ProgressRow(o, installation[i], Result(a)) \in InstallationRow
      BY <1>1, <1>2, <3>1, TypedProgress
    <3>4. QED
      BY <3>1, <3>2, <3>3 DEF TypeOK, TablesTypeOK
  <2>2. CASE ~Applies(o)
    BY <2>2 DEF Record, recordInstallationProgress, TypeOK, TablesTypeOK
  <2>3. QED
    BY <2>1, <2>2
<1>6. OperationsTypeOK'
  BY <1>1 DEF Record, Touched, Without, Idle, TypeOK, OperationsTypeOK
<1>7. QED
  BY <1>4, <1>5, <1>6 DEF Record, TypeOK, TablesTypeOK, TransitionsTypeOK, trVars

-----------------------------------------------------------------------------
(***************************************************************************)
(* SubmitTransition.                                                       *)
(***************************************************************************)
LEMMA TypeSubmitTransition ==
  ASSUME TypeOK, UNCHANGED opVars,
         NEW t \in TransitionID, NEW i \in DOMAIN installation, NEW u \in User, NEW k \in Key,
         NEW action \in {"upgrade", "rollback"}, NEW source \in Release, NEW target \in Release,
         SubmitTransition(u, k, i, action, source, target, t)
  PROVE  TypeOK'
<1> DEFINE row == [installation |-> i, app |-> installation[i].app, user |-> u, key |-> k,
                   action |-> action, revision |-> installation[i].revision,
                   source |-> source, target |-> target,
                   status |-> "accepted", phase |-> "accepted"]
<1>1. transition' = Insert(transition, t, row)
  BY DEF SubmitTransition
<1>2. installation[i] \in InstallationRow /\ i \in InstallationID
  BY DEF TypeOK, TablesTypeOK
<1>3. row \in TransitionRow
  BY <1>2 DEF InstallationRow, TransitionRow, OpStatus, TransitionPhase
<1> HIDE DEF row
<1>4. /\ DOMAIN transition' \subseteq TransitionID
      /\ \A s \in DOMAIN transition' : transition'[s] \in TransitionRow
  BY <1>1, <1>3, InsertTyped DEF TypeOK, TablesTypeOK
<1>5. UNCHANGED <<installation, operation, trVars>>
  BY DEF SubmitTransition
<1>6. QED
  BY <1>4, <1>5 DEF TypeOK, TablesTypeOK, OperationsTypeOK, TransitionsTypeOK, opVars, trVars

(***************************************************************************)
(* The actions that leave the tables alone.                                *)
(***************************************************************************)
LEMMA TypeCoordinate ==
  ASSUME TypeOK, Linked, UNCHANGED opVars, NEW c \in Coordinator,
         \/ \E t \in TransitionID : DispatchTransition(c, t)
         \/ \E t \in TransitionID : SkipTransition(c, t)
         \/ NoTransition(c)
         \/ Abandon(c)
         \/ Restart(c)
         \/ \E r \in RecoveryID : RetryForward(c, r)
  PROVE  TypeOK'
<1>1. UNCHANGED <<tables, recovery, journal, verdict>>
  BY DEF DispatchTransition, SkipTransition, NoTransition, Abandon, Restart, RetryForward
<1>2. ASSUME NEW t \in TransitionID, DispatchTransition(c, t)
      PROVE  TransitionsTypeOK'
  <2> DEFINE tr == transition[t]
             row == installation[tr.installation]
             d == [transition |-> t, prior |-> tr, installed |-> row, mode |-> StepMode(tr, row),
                   recovery |-> None, answer |-> None]
  <2>1. t \in DOMAIN transition
    BY <1>2 DEF DispatchTransition, NextTransition, After, Active
  <2>2. tr \in TransitionRow /\ row \in InstallationRow
    BY <2>1 DEF Linked, TypeOK, TablesTypeOK
  <2>3. StepMode(tr, row) \in Mode
    BY DEF StepMode, Mode
  <2>4. d \in DispatchRecord
    BY <2>2, <2>3 DEF DispatchRecord
  <2>5. coord' = [coord EXCEPT ![c] = d]
    BY <1>2 DEF DispatchTransition
  <2> HIDE DEF d
  <2>6. QED
    BY <1>1, <1>2, <2>4, <2>5 DEF DispatchTransition, TypeOK, TransitionsTypeOK
<1>3. ASSUME NEW t \in TransitionID, SkipTransition(c, t)
      PROVE  TransitionsTypeOK'
  BY <1>1, <1>3 DEF SkipTransition, TypeOK, TransitionsTypeOK
<1>4. ASSUME NoTransition(c) PROVE TransitionsTypeOK'
  BY <1>1, <1>4 DEF NoTransition, TypeOK, TransitionsTypeOK
<1>5. Abandoned(c) \subseteq Request
  BY DEF Abandoned, Request, DispatchRecord, TypeOK, TransitionsTypeOK
<1>6. ASSUME Abandon(c) PROVE TransitionsTypeOK'
  BY <1>1, <1>5, <1>6 DEF Abandon, TypeOK, TransitionsTypeOK
<1>7. ASSUME Restart(c) PROVE TransitionsTypeOK'
  BY <1>1, <1>5, <1>7, TransitionsAssumption DEF Restart, TypeOK, TransitionsTypeOK
<1>8. ASSUME NEW r \in RecoveryID, RetryForward(c, r)
      PROVE  TransitionsTypeOK'
  <2> DEFINE t == recovery[r].transition
             d == [transition |-> t, prior |-> transition[t],
                   installed |-> installation[transition[t].installation],
                   mode |-> "verify_forward", recovery |-> r, answer |-> None]
  <2>1. t \in DOMAIN transition /\ t \in TransitionID
    BY <1>8 DEF RetryForward, Linked, TypeOK, TablesTypeOK
  <2>2. d \in DispatchRecord
    BY <2>1 DEF Linked, TypeOK, TablesTypeOK, DispatchRecord, Mode
  <2>3. coord' = [coord EXCEPT ![c] = d]
    BY <1>8 DEF RetryForward, Verifying
  <2> HIDE DEF d
  <2>4. QED
    BY <1>1, <1>8, <2>2, <2>3 DEF RetryForward, TypeOK, TransitionsTypeOK
<1>9. TransitionsTypeOK'
  BY <1>2, <1>3, <1>4, <1>6, <1>7, <1>8
<1>10. QED
  BY <1>1, <1>9 DEF TypeOK, TablesTypeOK, OperationsTypeOK, tables, opVars

(***************************************************************************)
(* A journal step leads to a phase of the journal's table.                 *)
(***************************************************************************)
LEMMA JournalTyped ==
  ASSUME NEW mode, NEW p \in JournalPhase, NEW live
  PROVE  JournalStep(mode, p, live) \subseteq JournalPhase
<1>1. Ahead(p) \subseteq JournalPhase
  BY DEF Ahead, JournalPhase
<1>2. QED
  BY <1>1 DEF JournalStep, JournalPhase

(***************************************************************************)
(* Runtime's answers, in time and late.                                    *)
(***************************************************************************)
LEMMA ExecuteTyped ==
  ASSUME TypeOK, NEW t \in TransitionID, NEW mode, NEW r \in RecoveryID \cup {None},
         NEW live, NEW a, Execute(t, mode, r, live, a)
  PROVE  /\ journal' \in [TransitionID -> JournalPhase]
         /\ verdict' \in [RecoveryID -> {"none", "verified", "rejected"}]
<1>0. /\ journal \in [TransitionID -> JournalPhase]
      /\ verdict \in [RecoveryID -> {"none", "verified", "rejected"}]
  BY DEF TypeOK, TransitionsTypeOK
<1>1. CASE mode = "verify_forward"
  BY <1>0, <1>1 DEF Execute, Verify, JournalPhase
<1>2. CASE mode # "verify_forward"
  BY <1>0, <1>2, JournalTyped DEF Execute
<1>3. QED
  BY <1>1, <1>2

(***************************************************************************)
(* Runtime answers a dispatch.                                             *)
(***************************************************************************)
LEMMA TypeAnswered ==
  ASSUME TypeOK, UNCHANGED opVars, NEW c \in Coordinator, NEW a \in Progress, Answered(c, a)
  PROVE  TypeOK'
<1>1. coord[c] \in DispatchRecord
  BY DEF Answered, TypeOK, TransitionsTypeOK
<1>2. coord[c].transition \in TransitionID /\ coord[c].recovery \in RecoveryID \cup {None}
  BY <1>1 DEF DispatchRecord
<1>3. /\ journal' \in [TransitionID -> JournalPhase]
      /\ verdict' \in [RecoveryID -> {"none", "verified", "rejected"}]
  BY <1>2, ExecuteTyped DEF Answered
<1> DEFINE d == [coord[c] EXCEPT !.answer = a]
<1>4. d \in DispatchRecord
  BY <1>1 DEF DispatchRecord
<1>5. coord' = [coord EXCEPT ![c] = d]
  BY DEF Answered
<1> HIDE DEF d
<1>6. coord' \in [Coordinator -> DispatchRecord \cup {None}]
  BY <1>4, <1>5 DEF TypeOK, TransitionsTypeOK
<1>7. UNCHANGED <<tables, recovery, cursor, restarts, late>>
  BY DEF Answered
<1>8. QED
  BY <1>3, <1>6, <1>7
  DEF TypeOK, TablesTypeOK, OperationsTypeOK, TransitionsTypeOK, tables, opVars

(***************************************************************************)
(* Runtime executes a request that Core has given up.                      *)
(***************************************************************************)
LEMMA TypeLate ==
  ASSUME TypeOK, UNCHANGED opVars, NEW q \in late, LateRequest(q)
  PROVE  TypeOK'
<1>1. q.transition \in TransitionID /\ q.recovery \in RecoveryID \cup {None}
  BY DEF TypeOK, TransitionsTypeOK, Request
<1>2. /\ journal' \in [TransitionID -> JournalPhase]
      /\ verdict' \in [RecoveryID -> {"none", "verified", "rejected"}]
  BY <1>1, ExecuteTyped DEF LateRequest
<1>3. UNCHANGED <<tables, recovery, coord, cursor, restarts>> /\ late' \subseteq late
  BY DEF LateRequest
<1>4. QED
  BY <1>2, <1>3
  DEF TypeOK, TablesTypeOK, OperationsTypeOK, TransitionsTypeOK, tables, opVars

(***************************************************************************)
(* The rows a dispatch may commit are rows of the transition table, and a  *)
(* version it publishes is a version.                                      *)
(***************************************************************************)
LEMMA OutcomeTyped ==
  ASSUME NEW d \in DispatchRecord, NEW out \in Outcomes(d)
  PROVE  /\ out.status \in OpStatus \cup {"recovery_required"}
         /\ out.phase \in TransitionPhase
         /\ out.version \in Version \cup {None}
<1>1. d.prior \in TransitionRow
  BY DEF DispatchRecord
<1>2. d.prior.phase \in TransitionPhase
  BY <1>1 DEF TransitionRow
<1>3. d.prior.source.version \in Version /\ d.prior.target.version \in Version
  BY <1>1 DEF TransitionRow, Release
<1>4. CASE d.mode = "commit"
  BY <1>4 DEF Outcomes, Outcome, OpStatus, TransitionPhase
<1>5. CASE d.mode \in {"release_source", "release_target"}
  BY <1>2, <1>5 DEF Outcomes, ReleaseOutcome, Outcome, OpStatus, TransitionPhase
<1>6. CASE d.mode = "restore"
  BY <1>2, <1>3, <1>6 DEF Outcomes, RestoreOutcome, Outcome, OpStatus, TransitionPhase
<1>7. CASE d.mode = "prepare"
  BY <1>3, <1>7 DEF Outcomes, PrepareOutcome, Outcome, OpStatus, TransitionPhase
<1>8. CASE d.mode \notin {"commit", "release_source", "release_target", "restore", "prepare"}
  BY <1>8 DEF Outcomes
<1>9. QED
  BY <1>4, <1>5, <1>6, <1>7, <1>8

(***************************************************************************)
(* commitTransition.                                                       *)
(***************************************************************************)
LEMMA TypeCommit ==
  ASSUME TypeOK, Linked, UNCHANGED opVars, NEW c \in Coordinator, commitTransition(c)
  PROVE  TypeOK'
<1> DEFINE t == coord[c].transition
           i == coord[c].prior.installation
<1>1. coord[c] \in DispatchRecord
  BY DEF commitTransition, TypeOK, TransitionsTypeOK
<1>2. PICK out \in Outcomes(coord[c]) :
        /\ installation' = IF out.version = None THEN installation
                           ELSE [installation EXCEPT ![i].version = out.version,
                                                     ![i].revision = @ + 1]
        /\ transition' = [transition EXCEPT ![t].status = out.status, ![t].phase = out.phase]
  BY DEF commitTransition
<1>3. /\ out.status \in OpStatus \cup {"recovery_required"}
      /\ out.phase \in TransitionPhase
      /\ out.version \in Version \cup {None}
  BY <1>1, OutcomeTyped
<1>4. /\ DOMAIN transition' = DOMAIN transition
      /\ \A s \in DOMAIN transition' : transition'[s] \in TransitionRow
  BY <1>2, <1>3 DEF TypeOK, TablesTypeOK, TransitionRow
<1>5. /\ DOMAIN installation' = DOMAIN installation
      /\ \A j \in DOMAIN installation' : installation'[j] \in InstallationRow
  <2>1. CASE out.version = None
    BY <1>2, <2>1 DEF TypeOK, TablesTypeOK
  <2>2. CASE out.version # None
    <3>1. \A j \in DOMAIN installation : installation[j].revision + 1 \in Nat
      BY DEF TypeOK, TablesTypeOK, InstallationRow
    <3>2. QED
      BY <1>2, <1>3, <2>2, <3>1 DEF TypeOK, TablesTypeOK, InstallationRow
  <2>3. QED
    BY <2>1, <2>2
<1>6. UNCHANGED <<operation, recovery, cursor, restarts, journal, verdict, late>>
  BY DEF commitTransition
<1>7. coord' \in [Coordinator -> DispatchRecord \cup {None}]
  BY DEF commitTransition, TypeOK, TransitionsTypeOK
<1>8. QED
  BY <1>4, <1>5, <1>6, <1>7
  DEF TypeOK, TablesTypeOK, OperationsTypeOK, TransitionsTypeOK, opVars

(***************************************************************************)
(* acceptForward.                                                          *)
(***************************************************************************)
LEMMA TypeAcceptForward ==
  ASSUME TypeOK, Linked, UNCHANGED opVars,
         NEW r \in RecoveryID, NEW c \in Coordinator, NEW t \in DOMAIN transition, NEW k \in Key,
         NEW target \in Release, acceptForward(c, k, t, target, r)
  PROVE  TypeOK'
<1> DEFINE tr == transition[t]
           row == installation[tr.installation]
           new == [transition |-> t, user |-> tr.user, key |-> k, revision |-> row.revision,
                   target |-> target, state |-> "pending"]
           d == [transition |-> t, prior |-> tr, installed |-> row,
                 mode |-> "verify_forward", recovery |-> r, answer |-> None]
<1>1. t \in TransitionID /\ tr \in TransitionRow /\ row \in InstallationRow
  BY DEF Linked, TypeOK, TablesTypeOK
<1>2. new \in RecoveryRow
  BY <1>1 DEF TransitionRow, InstallationRow, RecoveryRow
<1>3. d \in DispatchRecord
  BY <1>1 DEF DispatchRecord, Mode
<1>4. recovery' = Insert(recovery, r, new) /\ coord' = [coord EXCEPT ![c] = d]
  BY DEF acceptForward, Verifying
<1>5. UNCHANGED <<installation, operation, transition, cursor, restarts, journal, verdict, late>>
  BY DEF acceptForward
<1> HIDE DEF new, d
<1>6. /\ DOMAIN recovery' \subseteq RecoveryID
      /\ \A s \in DOMAIN recovery' : recovery'[s] \in RecoveryRow
  BY <1>2, <1>4, InsertTyped DEF TypeOK, TransitionsTypeOK
<1>7. coord' \in [Coordinator -> DispatchRecord \cup {None}]
  BY <1>3, <1>4 DEF TypeOK, TransitionsTypeOK
<1>8. QED
  BY <1>5, <1>6, <1>7
  DEF TypeOK, TablesTypeOK, OperationsTypeOK, TransitionsTypeOK, opVars

(***************************************************************************)
(* finishForward; the version it installs is one of a ForwardRule.         *)
(***************************************************************************)
LEMMA TypeFinishForward ==
  ASSUME TypeOK, Linked, UNCHANGED opVars, NEW c \in Coordinator, finishForward(c)
  PROVE  TypeOK'
<1> DEFINE r == coord[c].recovery
           t == coord[c].transition
           i == transition[t].installation
           verified == coord[c].answer = "verified"
           state == IF verified THEN "succeeded" ELSE "failed"
           version == recovery[r].target.version
<1>1. t \in DOMAIN transition /\ i \in DOMAIN installation
  BY DEF finishForward, Linked
<1>2. /\ installation' = IF ~verified THEN installation
                         ELSE [installation EXCEPT ![i].version = version, ![i].revision = @ + 1]
      /\ transition' = IF ~verified THEN transition
                       ELSE [transition EXCEPT ![t].status = "failed", ![t].phase = "completed"]
      /\ recovery' = [recovery EXCEPT ![r].state = state]
  BY DEF finishForward
<1>3. version \in Version
  <2>1. allowedWorldForward(transition[t], installation[i], recovery[r].target)
    BY DEF finishForward
  <2>2. PICK f \in ForwardRule : f.forward = version
    BY <2>1 DEF allowedWorldForward
  <2>3. QED
    BY <2>2, TransitionsAssumption
<1>4. /\ DOMAIN installation' = DOMAIN installation
      /\ \A j \in DOMAIN installation' : installation'[j] \in InstallationRow
  <2>1. \A j \in DOMAIN installation : installation[j].revision + 1 \in Nat
    BY DEF TypeOK, TablesTypeOK, InstallationRow
  <2> HIDE DEF version, verified
  <2>2. QED
    BY <1>1, <1>2, <1>3, <2>1 DEF TypeOK, TablesTypeOK, InstallationRow
<1>5. /\ DOMAIN transition' = DOMAIN transition
      /\ \A s \in DOMAIN transition' : transition'[s] \in TransitionRow
  BY <1>1, <1>2 DEF TypeOK, TablesTypeOK, TransitionRow, OpStatus, TransitionPhase
<1>6. /\ DOMAIN recovery' = DOMAIN recovery
      /\ \A s \in DOMAIN recovery' : recovery'[s] \in RecoveryRow
  BY <1>2 DEF TypeOK, TransitionsTypeOK, RecoveryRow
<1>7. UNCHANGED <<operation, cursor, restarts, journal, verdict, late>>
  BY DEF finishForward
<1>8. coord' \in [Coordinator -> DispatchRecord \cup {None}]
  BY DEF finishForward, TypeOK, TransitionsTypeOK
<1>9. QED
  BY <1>4, <1>5, <1>6, <1>7, <1>8
  DEF TypeOK, TablesTypeOK, OperationsTypeOK, TransitionsTypeOK, opVars

-----------------------------------------------------------------------------
(***************************************************************************)
(* The inductive invariant.  OneActiveJob alone is not inductive:          *)
(* SubmitTransition looks for an active transition of the installation,    *)
(* not of the application, so it needs OneCurrentInstallation and the      *)
(* links of SameOrganization; a commit that settles a job must not bring   *)
(* back a settled one, so it needs ActiveJobsHeld; and a retried forward   *)
(* recovery holds an active transition only by RecoveryOwnsTransition.     *)
(***************************************************************************)
Inv ==
  /\ TypeOK /\ Linked
  /\ OneActiveJob /\ OneCurrentInstallation /\ SameOrganization
  /\ ActiveJobsHeld /\ RecoveryOwnsTransition

(***************************************************************************)
(* A step that admits no job: jobs keep their application, installation    *)
(* and administrator and are only ever settled, installations keep their   *)
(* application and organization and are only ever removed.                 *)
(***************************************************************************)
Settling ==
  /\ DOMAIN installation' = DOMAIN installation
  /\ \A i \in DOMAIN installation :
       /\ installation'[i].app = installation[i].app
       /\ installation'[i].org = installation[i].org
       /\ installation[i].state = "removed" => installation'[i].state = "removed"
  /\ DOMAIN operation' = DOMAIN operation
  /\ \A o \in DOMAIN operation :
       /\ operation'[o].app = operation[o].app
       /\ operation'[o].user = operation[o].user
       /\ operation'[o].installation = operation[o].installation
       /\ operation[o].status \in Terminal => operation'[o].status \in Terminal
  /\ DOMAIN transition' = DOMAIN transition
  /\ \A t \in DOMAIN transition :
       /\ transition'[t].app = transition[t].app
       /\ transition'[t].user = transition[t].user
       /\ transition'[t].installation = transition[t].installation
       /\ transition[t].status \in Terminal => transition'[t].status \in Terminal

(***************************************************************************)
(* Such a step keeps the invariants that relate the tables.                *)
(***************************************************************************)
LEMMA SettlingKeeps ==
  ASSUME OneActiveJob, OneCurrentInstallation, SameOrganization, Settling
  PROVE  OneActiveJob' /\ OneCurrentInstallation' /\ SameOrganization'
<1>1. OneActiveJob'
  BY DEF OneActiveJob, Settling, ActiveOperation, ActiveTransition
<1>2. OneCurrentInstallation'
  BY DEF OneCurrentInstallation, Settling
<1>3. SameOrganization'
  BY DEF SameOrganization, Settling
<1>4. QED
  BY <1>1, <1>2, <1>3

(***************************************************************************)
(* The invariant holds of the empty database.                              *)
(***************************************************************************)
LEMMA InitInv == Init => Inv
<1> SUFFICES ASSUME Init PROVE Inv
  OBVIOUS
<1>1. TypeOK /\ Linked
  BY InitTyped
<1>2. DOMAIN installation = {} /\ DOMAIN operation = {} /\ DOMAIN transition = {} /\ DOMAIN recovery = {}
  BY DEF Init, TablesInit, TransitionsInit, EmptyTable
<1>3. (\A w \in Worker : worker[w].op = None) /\ (\A c \in Coordinator : coord[c] = None)
  BY DEF Init, OperationsInit, TransitionsInit, Idle
<1>4. QED
  BY <1>1, <1>2, <1>3 DEF Inv, OneActiveJob, OneCurrentInstallation, SameOrganization,
     ActiveJobsHeld, RecoveryOwnsTransition

(***************************************************************************)
(* The steps of a worker that leave the tables alone: a worker only holds  *)
(* a row it picked while it was active and not locked.                     *)
(***************************************************************************)
LEMMA InvDispatch ==
  ASSUME Inv, NEW w \in Worker, UNCHANGED trVars,
         \/ \E o \in OperationID : Pick(w, o)
         \/ \E a \in Answer : Reconcile(w, a)
         \/ Postpone(w) \/ Rollback(w)
  PROVE  Inv'
<1>1. TypeOK'
  BY TypeDispatch DEF Inv
<1>2. UNCHANGED tables
  BY DEF Pick, Reconcile, Postpone, Rollback
<1>3. OneActiveJob' /\ OneCurrentInstallation' /\ SameOrganization'
  BY <1>2 DEF Inv, tables, OneActiveJob, OneCurrentInstallation, SameOrganization,
     ActiveOperation, ActiveTransition
<1>4. RecoveryOwnsTransition'
  BY <1>2 DEF Inv, tables, trVars, RecoveryOwnsTransition, ActiveTransition, ForwardPending
<1>5. worker \in [Worker -> [op : OperationID \cup {None}, answer : Answer \cup {None}]]
  BY DEF Inv, TypeOK, OperationsTypeOK
<1>6. /\ \A v \in Worker \ {w} : worker'[v] = worker[v]
      /\ \/ worker'[w].op = worker[w].op
         \/ worker'[w].op = None
         \/ \E o \in OperationID : worker'[w].op = o /\ ActiveOperation(o) /\ ~Locked(o)
  <2>1. ASSUME NEW o \in OperationID, Pick(w, o)
        PROVE  /\ \A v \in Worker \ {w} : worker'[v] = worker[v]
               /\ worker'[w].op = o /\ ActiveOperation(o) /\ ~Locked(o)
    BY <1>5, <2>1 DEF Pick
  <2>2. ASSUME NEW a \in Answer, Reconcile(w, a)
        PROVE  /\ \A v \in Worker \ {w} : worker'[v] = worker[v]
               /\ worker'[w].op = worker[w].op
    BY <1>5, <2>2 DEF Reconcile
  <2>3. ASSUME Postpone(w) \/ Rollback(w)
        PROVE  /\ \A v \in Worker \ {w} : worker'[v] = worker[v]
               /\ worker'[w].op = None
    BY <1>5, <2>3 DEF Postpone, Rollback, Idle
  <2>4. QED
    BY <2>1, <2>2, <2>3
<1>7. ActiveJobsHeld'
  BY <1>2, <1>6 DEF Inv, tables, trVars, ActiveJobsHeld, ActiveOperation, ActiveTransition, Locked
<1>8. Linked'
  BY <1>2, <1>7 DEF Inv, Linked, tables, trVars, ActiveJobsHeld, ActiveOperation
<1>9. QED
  BY <1>1, <1>3, <1>4, <1>7, <1>8 DEF Inv

(***************************************************************************)
(* A recorded result changes the state of the operation's installation     *)
(* only, and never takes it out of "removed".                              *)
(***************************************************************************)
LEMMA ProgressKeeps ==
  ASSUME NEW o, NEW row \in InstallationRow, NEW result
  PROVE  /\ ProgressRow(o, row, result).app = row.app
         /\ ProgressRow(o, row, result).org = row.org
         /\ row.state = "removed" => ProgressRow(o, row, result).state = "removed"
<1> DEFINE next == installationState(row.state, operation[o].action, result)
<1>1. row.state = "removed" => next = "removed"
  BY DEF installationState
<1>2. \/ ProgressRow(o, row, result) =
            [row EXCEPT !.version = operation[o].version, !.revision = row.revision + 1]
      \/ ProgressRow(o, row, result) =
            [row EXCEPT !.version = operation[o].version, !.revision = row.revision + 1,
                        !.release = operation[o].release]
      \/ ProgressRow(o, row, result) =
            [row EXCEPT !.state = next, !.revision = row.revision + 1]
      \/ ProgressRow(o, row, result) = row
  BY DEF ProgressRow
<1> HIDE DEF next
<1>3. QED
  BY <1>1, <1>2 DEF InstallationRow

(***************************************************************************)
(* A recorded result: the operation was active, so no transition of its    *)
(* application was, and removing the installation takes it from nobody.    *)
(***************************************************************************)
LEMMA InvRecord ==
  ASSUME Inv, NEW w \in Worker, Record(w), UNCHANGED trVars
  PROVE  Inv'
<1> DEFINE o == worker[w].op
           a == worker[w].answer
           i == operation[o].installation
<1>1. TypeOK'
  BY TypeRecord DEF Inv
<1>2. ActiveOperation(o) /\ o \in DOMAIN operation
  BY DEF Record, Inv, ActiveJobsHeld, ActiveOperation
<1>3. operation' = [operation EXCEPT ![o].status = Result(a)] /\ UNCHANGED transition
  BY DEF Record
<1>4. /\ DOMAIN installation' = DOMAIN installation
      /\ \A j \in DOMAIN installation :
           /\ installation'[j].app = installation[j].app
           /\ installation'[j].org = installation[j].org
           /\ installation[j].state = "removed" => installation'[j].state = "removed"
           /\ j # i => installation'[j] = installation[j]
  <2>1. CASE Applies(o)
    <3>1. i \in DOMAIN installation /\ installation[i] \in InstallationRow
      BY <2>1 DEF Applies, Inv, TypeOK, TablesTypeOK
    <3>2. installation' = [installation EXCEPT ![i] = ProgressRow(o, installation[i], Result(a))]
      BY <2>1 DEF Record, recordInstallationProgress
    <3>3. QED
      BY <3>1, <3>2, ProgressKeeps
  <2>2. CASE ~Applies(o)
    BY <2>2 DEF Record, recordInstallationProgress
  <2>3. QED
    BY <2>1, <2>2
<1>5. /\ DOMAIN operation' = DOMAIN operation
      /\ \A p \in DOMAIN operation :
           /\ operation'[p].app = operation[p].app
           /\ operation'[p].user = operation[p].user
           /\ operation'[p].installation = operation[p].installation
           /\ p # o => operation'[p] = operation[p]
  BY <1>2, <1>3 DEF Inv, TypeOK, TablesTypeOK, OperationRow
<1>6. Settling
  BY <1>2, <1>3, <1>4, <1>5 DEF Settling, ActiveOperation
<1>7. OneActiveJob' /\ OneCurrentInstallation' /\ SameOrganization'
  BY <1>6, SettlingKeeps DEF Inv
<1>8. RecoveryOwnsTransition'
  BY <1>3 DEF Inv, trVars, RecoveryOwnsTransition, ActiveTransition, ForwardPending
<1>9. ActiveJobsHeld'
  <2>1. worker \in [Worker -> [op : OperationID \cup {None}, answer : Answer \cup {None}]]
    BY DEF Inv, TypeOK, OperationsTypeOK
  <2>2. worker'[w].op = None /\ \A v \in Worker \ {w} : worker'[v] = worker[v]
    BY <2>1 DEF Record, Idle
  <2>3. /\ \A v \in Worker : worker'[v].op # None => ActiveOperation(worker[v].op)'
        /\ \A v, x \in Worker : worker'[v].op # None /\ worker'[v].op = worker'[x].op => v = x
    <3>1. o # None
      BY DEF Record
    <3>2. ASSUME NEW v \in Worker, worker'[v].op # None
          PROVE  /\ v # w /\ worker'[v] = worker[v] /\ worker[v].op # o
                 /\ ActiveOperation(worker[v].op)
      BY <2>2, <3>1, <3>2 DEF Inv, ActiveJobsHeld
    <3>3. \A p \in DOMAIN operation \ {o} : ActiveOperation(p) => ActiveOperation(p)'
      BY <1>5 DEF ActiveOperation
    <3>4. ASSUME NEW v \in Worker, worker'[v].op # None
          PROVE  ActiveOperation(worker[v].op)'
      <4>1. worker[v].op \in DOMAIN operation \ {o}
        BY <3>2, <3>4 DEF ActiveOperation
      <4>2. QED
        BY <1>5, <3>2, <3>4, <4>1 DEF ActiveOperation
    <3>5. QED
      BY <2>2, <3>2, <3>4 DEF Inv, ActiveJobsHeld
  <2>4. ASSUME NEW t \in DOMAIN transition, ActiveTransition(t)
        PROVE  installation'[transition[t].installation].state = "installed"
    <3>1. operation[o].app # transition[t].app
      BY <1>2, <2>4 DEF Inv, OneActiveJob
    <3>2. /\ transition[t].installation \in DOMAIN installation
          /\ installation[transition[t].installation].app = transition[t].app
      BY DEF Inv, SameOrganization
    <3>3. i # None => installation[i].app = operation[o].app
      BY <1>2 DEF Inv, SameOrganization
    <3>4. None \notin InstallationID
      BY InstallationsAssumption DEF InstallationID
    <3>5. transition[t].installation # i
      BY <3>1, <3>2, <3>3, <3>4 DEF Inv, TypeOK, TablesTypeOK
    <3>6. QED
      BY <1>4, <2>4, <3>2, <3>5 DEF Inv, ActiveJobsHeld
  <2>5. /\ \A c \in Coordinator : coord'[c] # None => ActiveTransition(coord[c].transition)'
        /\ \A c, d \in Coordinator :
             /\ coord'[c] # None /\ coord'[d] # None /\ coord'[c].transition = coord'[d].transition
             => c = d
    BY <1>3 DEF Inv, trVars, ActiveJobsHeld, ActiveTransition
  <2>6. \A t \in DOMAIN transition' :
          ActiveTransition(t)' => installation'[transition'[t].installation].state = "installed"
    BY <1>3, <2>4 DEF ActiveTransition
  <2>7. QED
    BY <2>3, <2>5, <2>6 DEF ActiveJobsHeld
<1>10. Linked'
  BY <1>3, <1>4, <1>9 DEF Inv, trVars, Linked, ActiveJobsHeld, ActiveOperation
<1>11. QED
  BY <1>1, <1>7, <1>8, <1>9, <1>10 DEF Inv

(***************************************************************************)
(* What a submission does to the installations: it binds the current one   *)
(* of its application and organization, or reserves a new one where there  *)
(* is no current one, or leaves them alone.                                *)
(***************************************************************************)
LEMMA SubmitReserves ==
  ASSUME Inv, NEW o \in OperationID, NEW c \in Command,
         NEW i \in InstallationID \cup {None}, submit(c, o, i)
  PROVE  /\ DOMAIN installation' = DOMAIN installation \cup ({i} \ {None})
         /\ \A j \in DOMAIN installation :
              /\ installation'[j].app = installation[j].app
              /\ installation'[j].org = installation[j].org
              /\ installation'[j].state = installation[j].state
         /\ i # None => /\ installation'[i].app = c.app
                        /\ installation'[i].org = OrgOf[c.user]
         /\ i # None /\ i \notin DOMAIN installation => Current(c.app) = {}
<1> DEFINE row == ReservedRow(c, i)
           new == BoundRow(c, o, row)
<1>0. None \notin InstallationID /\ DOMAIN installation \subseteq InstallationID
  BY InstallationsAssumption DEF InstallationID, Inv, TypeOK, TablesTypeOK
<1>1. CASE i = None
  BY <1>0, <1>1 DEF submit
<1>2. CASE i # None
  <2>1. installation' = Insert(installation, i, new)
    BY <1>2 DEF submit
  <2>2. \/ i \in DOMAIN installation /\ row = installation[i]
           /\ row.app = c.app /\ row.org = OrgOf[c.user]
        \/ i \notin DOMAIN installation /\ row = PendingRow(c) /\ Current(c.app) = {}
    BY <1>2 DEF submit, reserveInstallation, Current, Reusable, Fresh, ReservedRow
  <2>3. row.app = c.app /\ row.org = OrgOf[c.user]
    BY <2>2 DEF PendingRow
  <2>4. row \in InstallationRow
    <3>1. c \in Command /\ OrgOf[c.user] \in Org
      BY InstallationsAssumption DEF Command
    <3>2. PendingRow(c) \in InstallationRow
      BY <3>1 DEF PendingRow, Command, InstallationRow
    <3>3. QED
      BY <2>2, <3>2 DEF Inv, TypeOK, TablesTypeOK
  <2>5. new.app = row.app /\ new.org = row.org /\ new.state = row.state
    BY <2>4 DEF BoundRow, InstallationRow
  <2>6. Current(c.app) = {} \/ i \in DOMAIN installation
    BY <2>2
  <2> HIDE DEF new, row
  <2>7. /\ DOMAIN installation' = DOMAIN installation \cup {i}
        /\ installation'[i] = new
        /\ \A j \in DOMAIN installation : j # i => installation'[j] = installation[j]
    BY <2>1 DEF Insert
  <2>8. i \in DOMAIN installation => row = installation[i]
    BY <2>2
  <2>9. QED
    BY <1>2, <2>3, <2>5, <2>6, <2>7, <2>8
<1>3. QED
  BY <1>1, <1>2

(***************************************************************************)
(* A submission: the busy queries found no active job of the application.  *)
(***************************************************************************)
LEMMA InvSubmit ==
  ASSUME Inv, NEW o \in NewID(OperationID, operation), NEW c \in Command,
         NEW i \in InstallationID \cup {None}, submit(c, o, i), UNCHANGED trVars
  PROVE  Inv'
<1> DEFINE new == [user |-> c.user, key |-> c.key, app |-> c.app, version |-> c.version,
                   action |-> c.action, kind |-> c.kind, release |-> c.release,
                   reinstall |-> c.reinstall, installation |-> i, status |-> "accepted"]
<1>1. o \in OperationID /\ o \notin DOMAIN operation
  BY DEF NewID, Fresh
<1>2. TypeOK'
  BY <1>1, TypeSubmit DEF Inv
<1>3. /\ DOMAIN installation' = DOMAIN installation \cup ({i} \ {None})
      /\ \A j \in DOMAIN installation :
           /\ installation'[j].app = installation[j].app
           /\ installation'[j].org = installation[j].org
           /\ installation'[j].state = installation[j].state
      /\ i # None => /\ installation'[i].app = c.app
                     /\ installation'[i].org = OrgOf[c.user]
      /\ i # None /\ i \notin DOMAIN installation => Current(c.app) = {}
  BY <1>1, SubmitReserves
<1>4. operation' = Insert(operation, o, new) /\ UNCHANGED <<transition, worker>>
  BY DEF submit
<1>5. new.app = c.app /\ new.user = c.user /\ new.installation = i
  BY Zenon
<1> HIDE DEF new
<1>6. /\ DOMAIN operation' = DOMAIN operation \cup {o}
      /\ operation'[o] = new
      /\ \A p \in DOMAIN operation : operation'[p] = operation[p]
  BY <1>1, <1>4 DEF Insert
<1>7. OneActiveJob'
  <2>1. ~OperationBusy(c.app) /\ ~TransitionBusy(c.app)
    BY DEF submit
  <2>2. /\ \A p \in DOMAIN operation : ActiveOperation(p) => operation[p].app # c.app
        /\ \A t \in DOMAIN transition : ActiveTransition(t) => transition[t].app # c.app
    BY <2>1 DEF OperationBusy, TransitionBusy
  <2>3. QED
    BY <1>4, <1>5, <1>6, <2>2 DEF Inv, OneActiveJob, ActiveOperation, ActiveTransition
<1>8. OneCurrentInstallation'
  BY <1>3 DEF Inv, OneCurrentInstallation, Current
<1>9. SameOrganization'
  BY <1>3, <1>4, <1>5, <1>6 DEF Inv, SameOrganization
<1>10. RecoveryOwnsTransition'
  BY <1>4 DEF Inv, trVars, RecoveryOwnsTransition, ActiveTransition, ForwardPending
<1>11. ActiveJobsHeld'
  <2>1. \A w \in Worker : worker'[w].op # None => ActiveOperation(worker[w].op)'
    BY <1>4, <1>6 DEF Inv, ActiveJobsHeld, ActiveOperation
  <2>2. \A t \in DOMAIN transition' :
          ActiveTransition(t)' => installation'[transition'[t].installation].state = "installed"
    BY <1>3, <1>4 DEF Inv, ActiveJobsHeld, ActiveTransition, Linked
  <2>3. QED
    BY <1>4, <2>1, <2>2 DEF Inv, trVars, ActiveJobsHeld, ActiveTransition
<1>12. Linked'
  BY <1>3, <1>4, <1>6 DEF Inv, trVars, Linked
<1>13. QED
  BY <1>2, <1>7, <1>8, <1>9, <1>10, <1>11, <1>12 DEF Inv

(***************************************************************************)
(* The first half of a preinstalled submission, and its refusal after it,  *)
(* only take and release the App lock.                                     *)
(***************************************************************************)
LEMMA InvAdmit ==
  ASSUME Inv, Admit, UNCHANGED trVars
  PROVE  Inv'
<1>1. UNCHANGED <<tables, ahead, worker, exec>>
  BY DEF Admit, AdmitPreinstalled, RefusePreinstalled
<1>2. applock' \in [App -> Command \cup {None}]
  BY PreinstalledTyped DEF Admit, AdmitPreinstalled, RefusePreinstalled, Inv, TypeOK,
     OperationsTypeOK
<1>3. TypeOK'
  BY <1>1, <1>2 DEF Inv, TypeOK, TablesTypeOK, OperationsTypeOK, TransitionsTypeOK, tables, trVars
<1>4. OneActiveJob' /\ OneCurrentInstallation' /\ SameOrganization'
  BY <1>1 DEF Inv, OneActiveJob, OneCurrentInstallation, SameOrganization,
     ActiveOperation, ActiveTransition, tables
<1>5. Linked' /\ ActiveJobsHeld' /\ RecoveryOwnsTransition'
  BY <1>1 DEF Inv, Linked, ActiveJobsHeld, RecoveryOwnsTransition, ActiveOperation,
     ActiveTransition, ForwardPending, tables, trVars
<1>6. QED
  BY <1>3, <1>4, <1>5 DEF Inv

(***************************************************************************)
(* A new transition: another active one of the same application would be   *)
(* one of the same installation, the only one that is not removed.         *)
(***************************************************************************)
LEMMA InvSubmitTransition ==
  ASSUME Inv, UNCHANGED opVars,
         NEW t \in NewID(TransitionID, transition), NEW i \in DOMAIN installation, NEW u \in User,
         NEW k \in Key, NEW action \in {"upgrade", "rollback"}, NEW source \in Release,
         NEW target \in Release, SubmitTransition(u, k, i, action, source, target, t)
  PROVE  Inv'
<1> DEFINE new == [installation |-> i, app |-> installation[i].app, user |-> u, key |-> k,
                   action |-> action, revision |-> installation[i].revision,
                   source |-> source, target |-> target,
                   status |-> "accepted", phase |-> "accepted"]
<1>1. t \in TransitionID /\ t \notin DOMAIN transition
  BY DEF NewID, Fresh
<1>2. TypeOK'
  BY <1>1, TypeSubmitTransition DEF Inv
<1>3. /\ transition' = Insert(transition, t, new)
      /\ UNCHANGED <<installation, operation, trVars>>
  BY DEF SubmitTransition
<1>4. /\ installation[i].org = OrgOf[u] /\ installation[i].state = "installed"
      /\ ~OperationBusy(installation[i].app)
      /\ ~\E s \in DOMAIN transition : ActiveTransition(s) /\ transition[s].installation = i
  BY DEF SubmitTransition
<1>5. new.app = installation[i].app /\ new.user = u /\ new.installation = i
  BY Zenon
<1> HIDE DEF new
<1>6. /\ DOMAIN transition' = DOMAIN transition \cup {t}
      /\ transition'[t] = new
      /\ \A s \in DOMAIN transition : transition'[s] = transition[s]
  BY <1>1, <1>3 DEF Insert
<1>7. OneActiveJob'
  <2>1. \A o \in DOMAIN operation : ActiveOperation(o) => operation[o].app # installation[i].app
    BY <1>4 DEF OperationBusy
  <2>2. ASSUME NEW s \in DOMAIN transition, ActiveTransition(s)
        PROVE  transition[s].app # installation[i].app
    <3>1. /\ transition[s].installation \in DOMAIN installation
          /\ installation[transition[s].installation].app = transition[s].app
      BY DEF Inv, SameOrganization
    <3>2. installation[transition[s].installation].state = "installed"
      BY <2>2 DEF Inv, ActiveJobsHeld
    <3>3. transition[s].installation # i
      BY <1>4, <2>2
    <3>4. QED
      BY <1>4, <3>1, <3>2, <3>3 DEF Inv, OneCurrentInstallation
  <2>3. QED
    BY <1>3, <1>5, <1>6, <2>1, <2>2 DEF Inv, OneActiveJob, ActiveOperation, ActiveTransition
<1>8. OneCurrentInstallation'
  BY <1>3 DEF Inv, OneCurrentInstallation
<1>9. SameOrganization'
  BY <1>3, <1>4, <1>5, <1>6 DEF Inv, SameOrganization
<1>10. RecoveryOwnsTransition'
  BY <1>3, <1>6 DEF Inv, trVars, RecoveryOwnsTransition, ActiveTransition, ForwardPending
<1>11. ActiveJobsHeld'
  <2>1. \A c \in Coordinator : coord'[c] # None => ActiveTransition(coord[c].transition)'
    BY <1>3, <1>6 DEF Inv, trVars, ActiveJobsHeld, ActiveTransition
  <2>2. \A s \in DOMAIN transition' :
          ActiveTransition(s)' => installation'[transition'[s].installation].state = "installed"
    BY <1>3, <1>4, <1>5, <1>6 DEF Inv, ActiveJobsHeld, ActiveTransition
  <2>3. QED
    BY <1>3, <2>1, <2>2 DEF Inv, opVars, trVars, ActiveJobsHeld, ActiveOperation
<1>12. Linked'
  BY <1>3, <1>5, <1>6 DEF Inv, opVars, trVars, Linked
<1>13. QED
  BY <1>2, <1>7, <1>8, <1>9, <1>10, <1>11, <1>12 DEF Inv

(***************************************************************************)
(* The steps of a coordinator that leave the tables alone: it only takes   *)
(* up an active transition nobody else holds, and one with a pending       *)
(* recovery only for that recovery.                                        *)
(***************************************************************************)
LEMMA InvCoordinate ==
  ASSUME Inv, UNCHANGED opVars, NEW c \in Coordinator,
         \/ \E t \in TransitionID : DispatchTransition(c, t)
         \/ \E t \in TransitionID : SkipTransition(c, t)
         \/ NoTransition(c)
         \/ Abandon(c)
         \/ Restart(c)
         \/ \E r \in RecoveryID : RetryForward(c, r)
  PROVE  Inv'
<1> DEFINE Takes(t, d) ==
      /\ ActiveTransition(t) /\ ~TransitionLocked(t)
      /\ coord' = [coord EXCEPT ![c] = d]
      /\ d.transition = t
      /\ IF d.mode = "verify_forward"
         THEN d.recovery \in DOMAIN recovery /\ recovery[d.recovery].transition = t
         ELSE ~ForwardPending(t)
<1>1. TypeOK'
  BY TypeCoordinate DEF Inv
<1>2. UNCHANGED <<tables, recovery>>
  BY DEF DispatchTransition, SkipTransition, NoTransition, Abandon, Restart, RetryForward
<1>3. OneActiveJob' /\ OneCurrentInstallation' /\ SameOrganization'
  BY <1>2 DEF Inv, tables, OneActiveJob, OneCurrentInstallation, SameOrganization,
     ActiveOperation, ActiveTransition
<1>4. coord \in [Coordinator -> DispatchRecord \cup {None}]
  BY DEF Inv, TypeOK, TransitionsTypeOK
<1>5. \/ coord' = coord
      \/ coord' = [coord EXCEPT ![c] = None]
      \/ \E t, d : Takes(t, d)
  <2>1. ASSUME NEW t \in TransitionID, DispatchTransition(c, t) PROVE \E d : Takes(t, d)
    <3> DEFINE tr == transition[t]
               row == installation[tr.installation]
               new == [transition |-> t, prior |-> tr, installed |-> row, mode |-> StepMode(tr, row),
                       recovery |-> None, answer |-> None]
    <3>1. coord' = [coord EXCEPT ![c] = new]
      BY <2>1 DEF DispatchTransition
    <3>2. ActiveTransition(t) /\ ~TransitionLocked(t) /\ ~ForwardPending(t)
      BY <2>1 DEF DispatchTransition, NextTransition, Dispatchable, After, Active
    <3>3. StepMode(tr, row) # "verify_forward"
      BY DEF StepMode
    <3>4. new.transition = t /\ new.mode # "verify_forward"
      BY <3>3
    <3> HIDE DEF new
    <3>5. Takes(t, new)
      BY <3>1, <3>2, <3>4
    <3>6. QED
      BY <3>5
  <2>2. ASSUME NEW r \in RecoveryID, RetryForward(c, r) PROVE \E t, d : Takes(t, d)
    <3> DEFINE t == recovery[r].transition
               new == [transition |-> t, prior |-> transition[t],
                       installed |-> installation[transition[t].installation],
                       mode |-> "verify_forward", recovery |-> r, answer |-> None]
    <3>1. coord' = [coord EXCEPT ![c] = new]
      BY <2>2 DEF RetryForward, Verifying
    <3>2. r \in DOMAIN recovery /\ recovery[r].state = "pending" /\ ~TransitionLocked(t)
      BY <2>2 DEF RetryForward
    <3>3. ActiveTransition(t)
      BY <3>2 DEF Inv, RecoveryOwnsTransition
    <3>4. new.transition = t /\ new.mode = "verify_forward" /\ new.recovery = r
      OBVIOUS
    <3> HIDE DEF new
    <3>5. Takes(t, new)
      BY <3>1, <3>2, <3>3, <3>4
    <3>6. QED
      BY <3>5
  <2>3. ASSUME \/ \E t \in TransitionID : SkipTransition(c, t)
               \/ NoTransition(c) \/ Abandon(c) \/ Restart(c)
        PROVE  coord' = coord \/ coord' = [coord EXCEPT ![c] = None]
    BY <2>3 DEF SkipTransition, NoTransition, Abandon, Restart
  <2>4. QED
    BY <2>1, <2>2, <2>3
<1>6. ActiveJobsHeld' /\ RecoveryOwnsTransition'
  <2>1. CASE coord' = coord \/ coord' = [coord EXCEPT ![c] = None]
    BY <1>2, <1>4, <2>1 DEF Inv, tables, opVars, ActiveJobsHeld, RecoveryOwnsTransition,
       ActiveOperation, ActiveTransition, ForwardPending
  <2>2. ASSUME NEW t, NEW d, Takes(t, d) PROVE ActiveJobsHeld' /\ RecoveryOwnsTransition'
    BY <1>2, <1>4, <2>2 DEF Inv, tables, opVars, ActiveJobsHeld, RecoveryOwnsTransition,
       ActiveOperation, ActiveTransition, ForwardPending, TransitionLocked
  <2>3. QED
    BY <1>5, <2>1, <2>2
<1>7. Linked'
  BY <1>2, <1>6 DEF Inv, tables, opVars, Linked, ActiveJobsHeld, ActiveTransition
<1>8. QED
  BY <1>1, <1>3, <1>6, <1>7 DEF Inv

(***************************************************************************)
(* Runtime's steps change neither the tables nor who holds what.           *)
(***************************************************************************)
LEMMA InvRuntime ==
  ASSUME Inv, UNCHANGED opVars,
         \/ \E c \in Coordinator, a \in Progress : Answered(c, a)
         \/ \E q \in late : LateRequest(q)
  PROVE  Inv'
<1>1. TypeOK'
  BY TypeAnswered, TypeLate DEF Inv
<1>2. UNCHANGED <<tables, recovery>>
  BY DEF Answered, LateRequest
<1>3. OneActiveJob' /\ OneCurrentInstallation' /\ SameOrganization'
  BY <1>2 DEF Inv, tables, OneActiveJob, OneCurrentInstallation, SameOrganization,
     ActiveOperation, ActiveTransition
<1>4. \A c \in Coordinator : coord'[c] # None =>
        /\ coord[c] # None
        /\ coord'[c].transition = coord[c].transition
        /\ coord'[c].mode = coord[c].mode
        /\ coord'[c].recovery = coord[c].recovery
  <2>1. coord \in [Coordinator -> DispatchRecord \cup {None}]
    BY DEF Inv, TypeOK, TransitionsTypeOK
  <2>2. ASSUME NEW c \in Coordinator, NEW a \in Progress, Answered(c, a)
        PROVE  /\ coord' = [coord EXCEPT ![c].answer = a]
               /\ coord[c] # None
    BY <2>2 DEF Answered
  <2>3. ASSUME NEW q \in late, LateRequest(q) PROVE coord' = coord
    BY <2>3 DEF LateRequest
  <2>4. QED
    BY <2>1, <2>2, <2>3 DEF DispatchRecord
<1>5. ActiveJobsHeld' /\ RecoveryOwnsTransition'
  BY <1>2, <1>4 DEF Inv, tables, opVars, ActiveJobsHeld, RecoveryOwnsTransition,
     ActiveOperation, ActiveTransition, ForwardPending
<1>6. Linked'
  BY <1>2, <1>5 DEF Inv, tables, opVars, Linked, ActiveJobsHeld, ActiveTransition
<1>7. QED
  BY <1>1, <1>3, <1>5, <1>6 DEF Inv

(***************************************************************************)
(* A commit of a dispatch settles at most the transition it holds, and     *)
(* changes at most the version of its installation.                        *)
(***************************************************************************)
LEMMA InvCommit ==
  ASSUME Inv, UNCHANGED opVars, NEW c \in Coordinator, commitTransition(c)
  PROVE  Inv'
<1> DEFINE t == coord[c].transition
           i == coord[c].prior.installation
<1>1. TypeOK'
  BY TypeCommit DEF Inv
<1>2. /\ coord[c] # None /\ coord[c].mode # "verify_forward"
      /\ coord' = [coord EXCEPT ![c] = None]
      /\ UNCHANGED <<operation, recovery>>
  BY DEF commitTransition
<1>3. PICK out \in Outcomes(coord[c]) :
        /\ installation' = IF out.version = None THEN installation
                           ELSE [installation EXCEPT ![i].version = out.version,
                                                     ![i].revision = @ + 1]
        /\ transition' = [transition EXCEPT ![t].status = out.status, ![t].phase = out.phase]
  BY DEF commitTransition
<1>4. ActiveTransition(t) /\ ~ForwardPending(t)
  BY <1>2 DEF Inv, ActiveJobsHeld, RecoveryOwnsTransition
<1>5. /\ DOMAIN transition' = DOMAIN transition
      /\ \A s \in DOMAIN transition :
           /\ transition'[s].app = transition[s].app
           /\ transition'[s].user = transition[s].user
           /\ transition'[s].installation = transition[s].installation
           /\ s # t => transition'[s] = transition[s]
  BY <1>3 DEF Inv, TypeOK, TablesTypeOK, TransitionRow
<1>6. /\ DOMAIN installation' = DOMAIN installation
      /\ \A j \in DOMAIN installation :
           /\ installation'[j].app = installation[j].app
           /\ installation'[j].org = installation[j].org
           /\ installation'[j].state = installation[j].state
  BY <1>3 DEF Inv, TypeOK, TablesTypeOK, InstallationRow
<1>7. Settling
  BY <1>2, <1>4, <1>5, <1>6 DEF Settling, ActiveTransition
<1>8. OneActiveJob' /\ OneCurrentInstallation' /\ SameOrganization'
  BY <1>7, SettlingKeeps DEF Inv
<1>9. /\ coord'[c] = None
      /\ \A d \in Coordinator \ {c} :
           coord'[d] = coord[d] /\ (coord[d] # None => coord[d].transition # t)
  BY <1>2 DEF Inv, TypeOK, TransitionsTypeOK, ActiveJobsHeld
<1>10. ActiveJobsHeld'
  <2>1. \A d \in Coordinator : coord'[d] # None => ActiveTransition(coord[d].transition)'
    BY <1>5, <1>9 DEF Inv, ActiveJobsHeld, ActiveTransition
  <2>2. \A s \in DOMAIN transition' :
          ActiveTransition(s)' => installation'[transition'[s].installation].state = "installed"
    BY <1>4, <1>5, <1>6 DEF Inv, ActiveJobsHeld, ActiveTransition, Linked
  <2>3. QED
    BY <1>2, <1>9, <2>1, <2>2 DEF Inv, opVars, ActiveJobsHeld, ActiveOperation
<1>11. RecoveryOwnsTransition'
  BY <1>2, <1>4, <1>5, <1>9
  DEF Inv, RecoveryOwnsTransition, ActiveTransition, ForwardPending
<1>12. Linked'
  BY <1>2, <1>5, <1>6, <1>9 DEF Inv, opVars, Linked
<1>13. QED
  BY <1>1, <1>8, <1>10, <1>11, <1>12 DEF Inv

(***************************************************************************)
(* A forward recovery is accepted for an active transition that nobody     *)
(* holds and no other recovery waits for.                                  *)
(***************************************************************************)
LEMMA InvAcceptForward ==
  ASSUME Inv, UNCHANGED opVars,
         NEW r \in NewID(RecoveryID, recovery), NEW c \in Coordinator,
         NEW t \in DOMAIN transition, NEW k \in Key,
         NEW target \in Release, acceptForward(c, k, t, target, r)
  PROVE  Inv'
<1> DEFINE tr == transition[t]
           row == installation[tr.installation]
           new == [transition |-> t, user |-> tr.user, key |-> k, revision |-> row.revision,
                   target |-> target, state |-> "pending"]
           d == [transition |-> t, prior |-> tr, installed |-> row,
                 mode |-> "verify_forward", recovery |-> r, answer |-> None]
<1>1. r \in RecoveryID /\ r \notin DOMAIN recovery
  BY DEF NewID, Fresh
<1>2. TypeOK'
  BY <1>1, TypeAcceptForward DEF Inv
<1>3. /\ recovery' = Insert(recovery, r, new) /\ coord' = [coord EXCEPT ![c] = d]
      /\ UNCHANGED <<installation, operation, transition>>
  BY DEF acceptForward, Verifying
<1>4. ~TransitionLocked(t) /\ ~ForwardPending(t) /\ ActiveTransition(t)
  BY DEF acceptForward, allowedWorldForward, ActiveTransition, Terminal
<1>5. /\ new.transition = t
      /\ d.transition = t /\ d.mode = "verify_forward" /\ d.recovery = r
  BY Zenon
<1> HIDE DEF new, d
<1>6. OneActiveJob' /\ OneCurrentInstallation' /\ SameOrganization'
  BY <1>3 DEF Inv, OneActiveJob, OneCurrentInstallation, SameOrganization,
     ActiveOperation, ActiveTransition
<1>7. /\ DOMAIN recovery' = DOMAIN recovery \cup {r}
      /\ recovery'[r] = new
      /\ \A s \in DOMAIN recovery : recovery'[s] = recovery[s]
  BY <1>1, <1>3 DEF Insert
<1>8. /\ coord'[c] = d
      /\ \A e \in Coordinator \ {c} :
           coord'[e] = coord[e] /\ (coord[e] # None => coord[e].transition # t)
  BY <1>3, <1>4 DEF Inv, TypeOK, TransitionsTypeOK, TransitionLocked
<1>9. ActiveJobsHeld'
  BY <1>3, <1>4, <1>5, <1>8 DEF Inv, opVars, ActiveJobsHeld, ActiveOperation, ActiveTransition
<1>10. RecoveryOwnsTransition'
  BY <1>1, <1>3, <1>4, <1>5, <1>7, <1>8
  DEF Inv, RecoveryOwnsTransition, ActiveTransition, ForwardPending
<1>11. Linked'
  BY <1>3, <1>5, <1>7, <1>8 DEF Inv, opVars, Linked
<1>12. QED
  BY <1>2, <1>6, <1>9, <1>10, <1>11 DEF Inv

(***************************************************************************)
(* A verdict settles the recovery and, when it is verified, its transition *)
(* with it; no other recovery is pending for that transition.              *)
(***************************************************************************)
LEMMA InvFinishForward ==
  ASSUME Inv, UNCHANGED opVars, NEW c \in Coordinator, finishForward(c)
  PROVE  Inv'
<1> DEFINE r == coord[c].recovery
           t == coord[c].transition
           i == transition[t].installation
           verified == coord[c].answer = "verified"
           state == IF verified THEN "succeeded" ELSE "failed"
           version == recovery[r].target.version
<1>1. TypeOK'
  BY TypeFinishForward DEF Inv
<1>2. /\ installation' = IF ~verified THEN installation
                         ELSE [installation EXCEPT ![i].version = version, ![i].revision = @ + 1]
      /\ transition' = IF ~verified THEN transition
                       ELSE [transition EXCEPT ![t].status = "failed", ![t].phase = "completed"]
      /\ recovery' = [recovery EXCEPT ![r].state = state]
      /\ coord' = [coord EXCEPT ![c] = None]
      /\ UNCHANGED operation
  BY DEF finishForward
<1>3. /\ ActiveTransition(t)
      /\ r \in DOMAIN recovery /\ recovery[r].transition = t /\ recovery[r].state = "pending"
  BY DEF finishForward, Inv, ActiveJobsHeld, RecoveryOwnsTransition
<1>4. state # "pending"
  OBVIOUS
<1> HIDE DEF version, verified, state
<1>5. /\ DOMAIN transition' = DOMAIN transition
      /\ \A s \in DOMAIN transition :
           /\ transition'[s].app = transition[s].app
           /\ transition'[s].user = transition[s].user
           /\ transition'[s].installation = transition[s].installation
           /\ s # t => transition'[s] = transition[s]
  BY <1>2 DEF Inv, TypeOK, TablesTypeOK, TransitionRow
<1>6. /\ DOMAIN installation' = DOMAIN installation
      /\ \A j \in DOMAIN installation :
           /\ installation'[j].app = installation[j].app
           /\ installation'[j].org = installation[j].org
           /\ installation'[j].state = installation[j].state
  BY <1>2 DEF Inv, TypeOK, TablesTypeOK, InstallationRow
<1>7. /\ DOMAIN recovery' = DOMAIN recovery
      /\ recovery'[r].state # "pending"
      /\ \A s \in DOMAIN recovery :
           /\ recovery'[s].transition = recovery[s].transition
           /\ s # r => recovery'[s] = recovery[s]
  BY <1>2, <1>3, <1>4 DEF Inv, TypeOK, TransitionsTypeOK, RecoveryRow
<1>8. Settling
  BY <1>2, <1>3, <1>5, <1>6 DEF Settling, ActiveTransition
<1>9. OneActiveJob' /\ OneCurrentInstallation' /\ SameOrganization'
  BY <1>8, SettlingKeeps DEF Inv
<1>10. /\ coord'[c] = None
       /\ \A d \in Coordinator \ {c} :
            coord'[d] = coord[d] /\ (coord[d] # None => coord[d].transition # t)
  BY <1>2 DEF Inv, TypeOK, TransitionsTypeOK, ActiveJobsHeld, finishForward
<1>11. ActiveJobsHeld'
  <2>1. \A d \in Coordinator : coord'[d] # None => ActiveTransition(coord[d].transition)'
    BY <1>5, <1>10 DEF Inv, ActiveJobsHeld, ActiveTransition
  <2>2. \A s \in DOMAIN transition' :
          ActiveTransition(s)' => installation'[transition'[s].installation].state = "installed"
    BY <1>3, <1>5, <1>6 DEF Inv, ActiveJobsHeld, ActiveTransition, Linked
  <2>3. QED
    BY <1>2, <1>10, <2>1, <2>2 DEF Inv, opVars, ActiveJobsHeld, ActiveOperation
<1>12. RecoveryOwnsTransition'
  BY <1>3, <1>5, <1>7, <1>10
  DEF Inv, RecoveryOwnsTransition, ActiveTransition, ForwardPending
<1>13. Linked'
  <2>1. \A s \in DOMAIN transition' : transition'[s].installation \in DOMAIN installation'
    BY <1>5, <1>6 DEF Inv, Linked
  <2>2. \A s \in DOMAIN recovery' : recovery'[s].transition \in DOMAIN transition'
    BY <1>5, <1>7 DEF Inv, Linked
  <2>3. QED
    BY <1>11, <2>1, <2>2 DEF Linked, ActiveJobsHeld, ActiveOperation, ActiveTransition
<1>14. QED
  BY <1>1, <1>9, <1>11, <1>12, <1>13 DEF Inv

-----------------------------------------------------------------------------
(***************************************************************************)
(* Every step keeps the invariant.                                         *)
(***************************************************************************)
LEMMA InvStep == Inv /\ [Next]_vars => Inv'
<1> SUFFICES ASSUME Inv, [Next]_vars PROVE Inv'
  OBVIOUS
<1>1. CASE OperationsNext /\ UNCHANGED trVars
  <2>1. ASSUME Submit PROVE Inv'
    BY <1>1, <2>1, InvSubmit, EnteredTyped DEF Submit, Inv
  <2>2. ASSUME NEW w \in Worker, Record(w) PROVE Inv'
    BY <1>1, <2>2, InvRecord
  <2>3. ASSUME NEW w \in Worker,
               \/ \E o \in OperationID : Pick(w, o)
               \/ \E a \in Answer : Reconcile(w, a)
               \/ Postpone(w) \/ Refuse(w) \/ Abort(w)
        PROVE  Inv'
    <3>1. \/ \E o \in OperationID : Pick(w, o)
          \/ \E a \in Answer : Reconcile(w, a)
          \/ Postpone(w) \/ Rollback(w)
      BY <2>3 DEF Refuse, Abort
    <3>2. QED
      BY <1>1, <3>1, InvDispatch
  <2>4. ASSUME Admit PROVE Inv'
    BY <1>1, <2>4, InvAdmit
  <2>5. QED
    BY <1>1, <2>1, <2>2, <2>3, <2>4 DEF OperationsNext, Dispatch
<1>2. CASE TransitionsNext /\ UNCHANGED opVars
  <2>1. ASSUME AcceptTransition PROVE Inv'
    BY <1>2, <2>1, InvSubmitTransition DEF AcceptTransition
  <2>2. ASSUME AcceptRecovery PROVE Inv'
    BY <1>2, <2>2, InvAcceptForward DEF AcceptRecovery
  <2>3. ASSUME NEW c \in Coordinator,
               \/ \E t \in TransitionID : DispatchTransition(c, t)
               \/ \E t \in TransitionID : SkipTransition(c, t)
               \/ NoTransition(c)
               \/ Abandon(c)
               \/ Restart(c)
               \/ \E r \in RecoveryID : RetryForward(c, r)
        PROVE  Inv'
    BY <1>2, <2>3, InvCoordinate
  <2>4. ASSUME NEW c \in Coordinator, commitTransition(c) PROVE Inv'
    BY <1>2, <2>4, InvCommit
  <2>5. ASSUME NEW c \in Coordinator, finishForward(c) PROVE Inv'
    BY <1>2, <2>5, InvFinishForward
  <2>6. ASSUME \/ \E c \in Coordinator, a \in Progress : Answered(c, a)
               \/ RuntimeLate
        PROVE  Inv'
    BY <1>2, <2>6, InvRuntime DEF RuntimeLate
  <2>7. QED
    BY <1>2, <2>1, <2>2, <2>3, <2>4, <2>5, <2>6 DEF TransitionsNext, Coordinate
<1>3. CASE UNCHANGED vars
  <2>1. UNCHANGED <<installation, operation, transition, audit, applock, ahead, worker, exec, recovery,
                    coord, cursor, restarts, journal, verdict, late>>
    BY <1>3 DEF vars, tables, opVars, trVars
  <2>2. TypeOK'
    BY <2>1 DEF Inv, TypeOK, TablesTypeOK, OperationsTypeOK, TransitionsTypeOK
  <2>3. OneActiveJob' /\ OneCurrentInstallation' /\ SameOrganization'
    BY <2>1 DEF Inv, OneActiveJob, OneCurrentInstallation, SameOrganization,
       ActiveOperation, ActiveTransition
  <2>4. Linked' /\ ActiveJobsHeld' /\ RecoveryOwnsTransition'
    BY <2>1 DEF Inv, Linked, ActiveJobsHeld, RecoveryOwnsTransition, ActiveOperation,
       ActiveTransition, ForwardPending
  <2>5. QED
    BY <2>2, <2>3, <2>4 DEF Inv
<1>4. QED
  BY <1>1, <1>2, <1>3 DEF Next

(***************************************************************************)
(* The invariant holds of every behaviour.                                 *)
(***************************************************************************)
LEMMA Invariance == Spec => []Inv
  BY InitInv, InvStep, PTL DEF Spec

(***************************************************************************)
(* Every row and every record of a dispatch keeps its type: the states,    *)
(* phases and statuses written are those the tables' CHECKs allow, and an  *)
(* installation names no row that does not exist.                          *)
(***************************************************************************)
THEOREM TypeCorrect == Spec => []TypeOK
<1>1. Inv => TypeOK
  BY DEF Inv
<1>2. QED
  BY <1>1, Invariance, PTL

(***************************************************************************)
(* At most one job of an application is active, for any number of          *)
(* applications, administrators, workers and coordinators.                 *)
(***************************************************************************)
THEOREM JobsAreExclusive == Spec => []OneActiveJob
<1>1. Inv => OneActiveJob
  BY DEF Inv
<1>2. QED
  BY <1>1, Invariance, PTL

(***************************************************************************)
(* An application never has two installations that are not removed: the    *)
(* unique index app_installations_current is never what refuses a command. *)
(***************************************************************************)
THEOREM InstallationIsUnique == Spec => []OneCurrentInstallation
<1>1. Inv => OneCurrentInstallation
  BY DEF Inv
<1>2. QED
  BY <1>1, Invariance, PTL

(***************************************************************************)
(* No command or transition reaches into another organization or another   *)
(* application.                                                            *)
(***************************************************************************)
THEOREM OrganizationsAreSeparate == Spec => []SameOrganization
<1>1. Inv => SameOrganization
  BY DEF Inv
<1>2. QED
  BY <1>1, Invariance, PTL

(***************************************************************************)
(* A worker's row lock and a coordinator's session lock are on active jobs *)
(* and exclusive, and an active transition has its application installed.  *)
(***************************************************************************)
THEOREM LocksHoldActiveJobs == Spec => []ActiveJobsHeld
<1>1. Inv => ActiveJobsHeld
  BY DEF Inv
<1>2. QED
  BY <1>1, Invariance, PTL

(***************************************************************************)
(* A forward recovery has its transition to itself until its verdict.      *)
(***************************************************************************)
THEOREM RecoveryIsExclusive == Spec => []RecoveryOwnsTransition
<1>1. Inv => RecoveryOwnsTransition
  BY DEF Inv
<1>2. QED
  BY <1>1, Invariance, PTL

-----------------------------------------------------------------------------
(***************************************************************************)
(* The rows that a bound command and a recorded result leave have a higher *)
(* revision, or are the row that was there.                                *)
(***************************************************************************)
LEMMA BoundRowRaises ==
  ASSUME NEW c, NEW o, NEW row \in InstallationRow
  PROVE  BoundRow(c, o, row).revision > row.revision
<1> DEFINE rel == IF BindsNow(c, row) THEN c.release ELSE row.release
<1>1. BoundRow(c, o, row) = [row EXCEPT !.lastOp = o, !.revision = row.revision + 1, !.release = rel]
  BY DEF BoundRow
<1>2. row.revision + 1 > row.revision
  BY DEF InstallationRow
<1> HIDE DEF rel
<1>3. BoundRow(c, o, row).revision = row.revision + 1
  BY <1>1 DEF InstallationRow
<1>4. QED
  BY <1>2, <1>3

(***************************************************************************)
(* The same of a recorded result.                                          *)
(***************************************************************************)
LEMMA ProgressRaises ==
  ASSUME NEW o, NEW row \in InstallationRow, NEW result
  PROVE  \/ ProgressRow(o, row, result) = row
         \/ ProgressRow(o, row, result).revision > row.revision
<1> DEFINE next == installationState(row.state, operation[o].action, result)
<1>1. \/ ProgressRow(o, row, result) =
            [row EXCEPT !.version = operation[o].version, !.revision = row.revision + 1]
      \/ ProgressRow(o, row, result) =
            [row EXCEPT !.version = operation[o].version, !.revision = row.revision + 1,
                        !.release = operation[o].release]
      \/ ProgressRow(o, row, result) =
            [row EXCEPT !.state = next, !.revision = row.revision + 1]
      \/ ProgressRow(o, row, result) = row
  BY DEF ProgressRow
<1>2. row.revision + 1 > row.revision
  BY DEF InstallationRow
<1> HIDE DEF next
<1>3. \/ ProgressRow(o, row, result) = row
      \/ ProgressRow(o, row, result).revision = row.revision + 1
  BY <1>1 DEF InstallationRow
<1>4. QED
  BY <1>2, <1>3

(***************************************************************************)
(* Every step that writes an installation row raises its revision.         *)
(***************************************************************************)
LEMMA RevisionRaised == Inv /\ [Next]_vars => RevisionStep
<1> SUFFICES ASSUME Inv, [Next]_vars, NEW i \in DOMAIN installation
             PROVE  /\ i \in DOMAIN installation'
                    /\ \/ installation'[i] = installation[i]
                       \/ installation'[i].revision > installation[i].revision
  BY DEF RevisionStep
<1> DEFINE Kept == /\ i \in DOMAIN installation'
                   /\ \/ installation'[i] = installation[i]
                      \/ installation'[i].revision > installation[i].revision
<1>0. installation[i] \in InstallationRow
  BY DEF Inv, TypeOK, TablesTypeOK
<1>1. ASSUME NEW o \in OperationID, NEW c \in Command,
             NEW j \in InstallationID \cup {None}, submit(c, o, j)
      PROVE  Kept
  <2>1. CASE j = None
    BY <1>1, <2>1 DEF submit
  <2>2. CASE j # None
    <3>1. installation' = Insert(installation, j, BoundRow(c, o, ReservedRow(c, j)))
      BY <1>1, <2>2 DEF submit
    <3>2. BoundRow(c, o, installation[i]).revision > installation[i].revision
      BY <1>0, BoundRowRaises
    <3>3. j = i => ReservedRow(c, j) = installation[i]
      BY DEF ReservedRow
    <3>4. QED
      BY <3>1, <3>2, <3>3 DEF Insert
  <2>3. QED
    BY <2>1, <2>2
<1>2. ASSUME NEW w \in Worker, Record(w) PROVE Kept
  <2> DEFINE o == worker[w].op
             j == operation[o].installation
             result == Result(worker[w].answer)
  <2>1. CASE Applies(o)
    <3>1. installation' = [installation EXCEPT ![j] = ProgressRow(o, installation[j], result)]
      BY <1>2, <2>1 DEF Record, recordInstallationProgress
    <3>2. \/ ProgressRow(o, installation[i], result) = installation[i]
          \/ ProgressRow(o, installation[i], result).revision > installation[i].revision
      BY <1>0, ProgressRaises
    <3> HIDE DEF result
    <3>3. QED
      BY <3>1, <3>2
  <2>2. CASE ~Applies(o)
    BY <1>2, <2>2 DEF Record, recordInstallationProgress
  <2>3. QED
    BY <2>1, <2>2
<1>3. ASSUME NEW c \in Coordinator, commitTransition(c) PROVE Kept
  <2> DEFINE j == coord[c].prior.installation
  <2>1. PICK out \in Outcomes(coord[c]) :
          installation' = IF out.version = None THEN installation
                          ELSE [installation EXCEPT ![j].version = out.version,
                                                    ![j].revision = @ + 1]
    BY <1>3 DEF commitTransition
  <2>2. QED
    BY <1>0, <2>1 DEF InstallationRow
<1>4. ASSUME NEW c \in Coordinator, finishForward(c) PROVE Kept
  <2> DEFINE j == transition[coord[c].transition].installation
             version == recovery[coord[c].recovery].target.version
  <2>1. \/ installation' = installation
        \/ installation' = [installation EXCEPT ![j].version = version, ![j].revision = @ + 1]
    BY <1>4 DEF finishForward
  <2> HIDE DEF version
  <2>2. QED
    BY <1>0, <2>1 DEF InstallationRow
<1>5. ASSUME UNCHANGED installation PROVE Kept
  BY <1>5
<1>6. CASE OperationsNext
  <2>1. ASSUME NEW w \in Worker,
               \/ \E o \in OperationID : Pick(w, o)
               \/ \E a \in Answer : Reconcile(w, a)
               \/ Postpone(w) \/ Refuse(w) \/ Abort(w)
        PROVE  UNCHANGED installation
    BY <2>1 DEF Pick, Reconcile, Postpone, Refuse, Abort, Rollback, tables
  <2>2. ASSUME Admit PROVE UNCHANGED installation
    BY <2>2 DEF Admit, AdmitPreinstalled, RefusePreinstalled, tables
  <2>3. ASSUME Submit PROVE Kept
    BY <1>1, <2>3, EnteredTyped DEF Submit, NewID, Inv
  <2>4. QED
    BY <1>2, <1>5, <1>6, <2>1, <2>2, <2>3 DEF OperationsNext, Dispatch
<1>7. CASE TransitionsNext
  <2>1. ASSUME NEW c \in Coordinator,
               \/ \E t \in TransitionID : DispatchTransition(c, t)
               \/ \E t \in TransitionID : SkipTransition(c, t)
               \/ NoTransition(c)
               \/ \E a \in Progress : Answered(c, a)
               \/ Abandon(c)
               \/ Restart(c)
               \/ \E r \in RecoveryID : RetryForward(c, r)
        PROVE  UNCHANGED installation
    BY <2>1 DEF DispatchTransition, SkipTransition, NoTransition, Answered, Abandon, Restart,
       RetryForward, tables
  <2>2. ASSUME AcceptTransition PROVE UNCHANGED installation
    BY <2>2 DEF AcceptTransition, SubmitTransition
  <2>3. ASSUME AcceptRecovery PROVE UNCHANGED installation
    BY <2>3 DEF AcceptRecovery, acceptForward
  <2>4. ASSUME RuntimeLate PROVE UNCHANGED installation
    BY <2>4 DEF RuntimeLate, LateRequest, tables
  <2>5. QED
    BY <1>3, <1>4, <1>5, <1>7, <2>1, <2>2, <2>3, <2>4 DEF TransitionsNext, Coordinate
<1>8. CASE UNCHANGED vars
  BY <1>5, <1>8 DEF vars, tables
<1>9. QED
  BY <1>6, <1>7, <1>8 DEF Next

(***************************************************************************)
(* A revision names one state of an installation: what a client, a         *)
(* transition or a forward recovery checked by revision is still there.    *)
(***************************************************************************)
THEOREM RevisionsNameStates == Spec => RevisionAdvances
<1>1. Inv /\ [Next]_vars => [RevisionStep]_vars
  BY RevisionRaised
<1>2. QED
  BY <1>1, Invariance, PTL DEF Spec, RevisionAdvances

-----------------------------------------------------------------------------
(***************************************************************************)
(* The second part: what the jobs do to the installations.  Who may change *)
(* a row while a job is active, whether its result is applied, and what its *)
(* version stands for; and that Core and Runtime agree on a transition.    *)
(***************************************************************************)

(***************************************************************************)
(* The steps of the two components, by what they may write.                *)
(***************************************************************************)
Submits(o, c, i) ==
  /\ o \in NewID(OperationID, operation) /\ c \in Command /\ i \in InstallationID \cup {None}
  /\ submit(c, o, i) /\ UNCHANGED trVars

Records(w) == Record(w) /\ UNCHANGED trVars

Works(w) ==
  /\ \/ \E o \in OperationID : Pick(w, o)
     \/ \E a \in Answer : Reconcile(w, a)
     \/ Postpone(w) \/ Rollback(w)
  /\ UNCHANGED trVars

Takes(c) ==
  /\ \/ \E t \in TransitionID : DispatchTransition(c, t)
     \/ \E r \in RecoveryID : RetryForward(c, r)
  /\ UNCHANGED opVars

Leaves(c) ==
  /\ \/ \E t \in TransitionID : SkipTransition(c, t)
     \/ NoTransition(c) \/ Abandon(c) \/ Restart(c)
  /\ UNCHANGED opVars

LEMMA StepKinds ==
  ASSUME Inv, [Next]_vars
  PROVE  \/ \E o, c, i : Submits(o, c, i)
         \/ \E w \in Worker : Records(w) \/ Works(w)
         \/ Admit /\ UNCHANGED trVars
         \/ AcceptTransition /\ UNCHANGED opVars
         \/ AcceptRecovery /\ UNCHANGED opVars
         \/ \E c \in Coordinator : Takes(c) \/ Leaves(c)
         \/ \E c \in Coordinator : commitTransition(c) /\ UNCHANGED opVars
         \/ \E c \in Coordinator : finishForward(c) /\ UNCHANGED opVars
         \/ (\E c \in Coordinator, a \in Progress : Answered(c, a)) /\ UNCHANGED opVars
         \/ RuntimeLate /\ UNCHANGED opVars
         \/ UNCHANGED vars
<1>1. CASE OperationsNext /\ UNCHANGED trVars
  <2>1. ASSUME Submit PROVE \E o, c, i : Submits(o, c, i)
    BY <1>1, <2>1, EnteredTyped DEF Submit, Submits, Inv
  <2>2. ASSUME NEW w \in Worker,
               \/ \E o \in OperationID : Pick(w, o)
               \/ \E a \in Answer : Reconcile(w, a)
               \/ Postpone(w) \/ Refuse(w) \/ Abort(w)
        PROVE  Works(w)
    BY <1>1, <2>2 DEF Works, Refuse, Abort
  <2>3. QED
    BY <1>1, <2>1, <2>2 DEF OperationsNext, Dispatch, Records
<1>2. CASE TransitionsNext /\ UNCHANGED opVars
  BY <1>2 DEF TransitionsNext, Coordinate, Takes, Leaves
<1>3. QED
  BY <1>1, <1>2 DEF Next

(***************************************************************************)
(* What each kind of step leaves alone.                                    *)
(***************************************************************************)
LEMMA QuietSteps ==
  ASSUME \/ \E w \in Worker : Works(w)
         \/ Admit /\ UNCHANGED trVars
         \/ \E c \in Coordinator : Takes(c) \/ Leaves(c)
         \/ (\E c \in Coordinator, a \in Progress : Answered(c, a)) /\ UNCHANGED opVars
         \/ RuntimeLate /\ UNCHANGED opVars
         \/ UNCHANGED vars
  PROVE  UNCHANGED <<installation, operation, transition, audit, recovery>>
<1>1. ASSUME NEW w \in Worker, Works(w)
      PROVE  UNCHANGED <<installation, operation, transition, audit, recovery>>
  BY <1>1 DEF Works, Pick, Reconcile, Postpone, Rollback, tables, trVars
<1>2. ASSUME Admit, UNCHANGED trVars
      PROVE  UNCHANGED <<installation, operation, transition, audit, recovery>>
  BY <1>2 DEF Admit, AdmitPreinstalled, RefusePreinstalled, tables, trVars
<1>3. ASSUME NEW c \in Coordinator, Takes(c) \/ Leaves(c)
      PROVE  UNCHANGED <<installation, operation, transition, audit, recovery>>
  BY <1>3 DEF Takes, Leaves, DispatchTransition, RetryForward, SkipTransition, NoTransition,
     Abandon, Restart, tables
<1>4. ASSUME (\E c \in Coordinator, a \in Progress : Answered(c, a)) \/ RuntimeLate
      PROVE  UNCHANGED <<installation, operation, transition, audit, recovery>>
  BY <1>4 DEF Answered, RuntimeLate, LateRequest, tables
<1>5. ASSUME UNCHANGED vars
      PROVE  UNCHANGED <<installation, operation, transition, audit, recovery>>
  BY <1>5 DEF vars, tables, trVars
<1>6. QED
  BY <1>1, <1>2, <1>3, <1>4, <1>5

-----------------------------------------------------------------------------
LEMMA NoneIsNoRow == None \notin InstallationID /\ None \notin Version
<1>1. \A x \in InstallationID : x \in Nat
  BY InstallationsAssumption DEF InstallationID
<1>2. QED
  BY <1>1, InstallationsAssumption

(***************************************************************************)
(* While a transition is active, no submission binds its installation:     *)
(* the busy query found no active transition of the application.           *)
(***************************************************************************)
LEMMA SubmitSpares ==
  ASSUME Inv, NEW o, NEW c, NEW i, Submits(o, c, i), NEW t \in Active
  PROVE  /\ transition[t].installation \in DOMAIN installation
         /\ transition[t].installation # i
         /\ installation'[transition[t].installation] = installation[transition[t].installation]
<1> DEFINE j == transition[t].installation
<1>1. t \in DOMAIN transition /\ ActiveTransition(t)
  BY DEF Active
<1>2. j \in DOMAIN installation /\ installation[j].app = transition[t].app
  BY <1>1 DEF Inv, SameOrganization
<1>3. ~TransitionBusy(c.app) /\ reserveInstallation(c, i)
  BY DEF Submits, submit
<1>4. transition[t].app # c.app
  BY <1>1, <1>3 DEF TransitionBusy
<1>5. j # i
  BY <1>2, <1>3, <1>4, NoneIsNoRow DEF reserveInstallation, Current, Fresh, Inv, TypeOK, TablesTypeOK
<1>6. installation' = installation \/ \E row : installation' = Insert(installation, i, row)
  BY DEF Submits, submit
<1>7. QED
  BY <1>2, <1>5, <1>6 DEF Insert

(***************************************************************************)
(* A recorded result changes the installation of its own operation only.   *)
(***************************************************************************)
LEMMA RecordSpares ==
  ASSUME Inv, NEW w \in Worker, Records(w), NEW j \in DOMAIN installation,
         installation[j].app # operation[worker[w].op].app
  PROVE  j \in DOMAIN installation' /\ installation'[j] = installation[j]
<1> DEFINE o == worker[w].op
           i == operation[o].installation
<1>1. o \in DOMAIN operation
  BY DEF Records, Record, Inv, Linked
<1>2. i # j
  BY <1>1, NoneIsNoRow DEF Inv, SameOrganization, TypeOK, TablesTypeOK
<1>3. installation' = installation \/ \E row : installation' = [installation EXCEPT ![i] = row]
  BY DEF Records, Record, recordInstallationProgress
<1>4. QED
  BY <1>2, <1>3

LEMMA RecordSparesTransitions ==
  ASSUME Inv, NEW w \in Worker, Records(w), NEW t \in Active
  PROVE  /\ transition[t].installation \in DOMAIN installation
         /\ installation'[transition[t].installation] = installation[transition[t].installation]
<1> DEFINE o == worker[w].op
<1>1. t \in DOMAIN transition /\ ActiveTransition(t)
  BY DEF Active
<1>2. o \in DOMAIN operation /\ ActiveOperation(o)
  BY DEF Records, Record, Inv, ActiveJobsHeld, ActiveOperation
<1>3. operation[o].app # transition[t].app
  BY <1>1, <1>2 DEF Inv, OneActiveJob
<1>4. /\ transition[t].installation \in DOMAIN installation
      /\ installation[transition[t].installation].app = transition[t].app
  BY <1>1 DEF Inv, SameOrganization
<1>5. QED
  BY <1>3, <1>4, RecordSpares

(***************************************************************************)
(* Two active transitions, and an active operation and an active           *)
(* transition, are about different installations.                          *)
(***************************************************************************)
LEMMA TransitionsApart ==
  ASSUME Inv, NEW s \in Active, NEW t \in Active, s # t
  PROVE  transition[s].installation # transition[t].installation
<1>1. /\ s \in DOMAIN transition /\ ActiveTransition(s)
      /\ t \in DOMAIN transition /\ ActiveTransition(t)
  BY DEF Active
<1>2. transition[s].app # transition[t].app
  BY <1>1 DEF Inv, OneActiveJob
<1>3. QED
  BY <1>1, <1>2 DEF Inv, SameOrganization

LEMMA JobsApart ==
  ASSUME Inv, NEW o \in DOMAIN operation, ActiveOperation(o), NEW t \in Active
  PROVE  transition[t].installation # operation[o].installation
<1>1. t \in DOMAIN transition /\ ActiveTransition(t)
  BY DEF Active
<1>2. operation[o].app # transition[t].app
  BY <1>1 DEF Inv, OneActiveJob
<1>3. QED
  BY <1>1, <1>2, NoneIsNoRow DEF Inv, SameOrganization, TypeOK, TablesTypeOK

-----------------------------------------------------------------------------
(***************************************************************************)
(* The invariant of managed transitions.  TransitionOwnsInstallation says  *)
(* what the coordinator finds; that it stays so needs to know how far a    *)
(* published transition can be (PhaseFits), that a new transition has no   *)
(* publication on record (PublishedExists), that a dispatch holds what the *)
(* tables hold (NoStaleCommit) and that its mode is the one those rows     *)
(* call for (ModeFits).                                                    *)
(***************************************************************************)
Published(t) == <<"transition", t, "published">> \in audit

PhaseFits ==
  \A t \in DOMAIN transition :
    /\ transition[t].source.version # transition[t].target.version
    /\ transition[t].status \in Terminal <=> transition[t].phase = "completed"
    /\ Published(t) => \/ transition[t].status = "running" /\ transition[t].phase = "releasing"
                       \/ transition[t].status = "succeeded" /\ transition[t].phase = "completed"

PublishedExists == \A t \in TransitionID : Published(t) => t \in DOMAIN transition

ModeFits ==
  \A c \in Coordinator : coord[c] # None /\ coord[c].mode # "verify_forward" =>
    coord[c].mode = StepMode(coord[c].prior, coord[c].installed)

TransitionsInv ==
  /\ Inv
  /\ PhaseFits /\ PublishedExists /\ TransitionOwnsInstallation
  /\ NoStaleCommit /\ ModeFits

(***************************************************************************)
(* A step that neither changes an active transition nor its installation,  *)
(* nor publishes, nor starts or ends a dispatch.                           *)
(***************************************************************************)
LEMMA SparedTransitions ==
  ASSUME TransitionsInv, UNCHANGED <<transition, coord>>,
         \A t \in TransitionID : Published(t)' <=> Published(t),
         \A t \in Active : installation'[transition[t].installation]
                             = installation[transition[t].installation]
  PROVE  /\ PhaseFits' /\ PublishedExists' /\ TransitionOwnsInstallation'
         /\ NoStaleCommit' /\ ModeFits'
<1>1. DOMAIN transition \subseteq TransitionID
  BY DEF TransitionsInv, Inv, TypeOK, TablesTypeOK
<1>2. Active' = Active
  BY DEF Active, ActiveTransition
<1>3. PhaseFits' /\ PublishedExists'
  BY <1>1 DEF TransitionsInv, PhaseFits, PublishedExists
<1>4. TransitionOwnsInstallation'
  <2> SUFFICES ASSUME NEW t \in Active
               PROVE  LET tr == transition'[t]
                          as == InstalledAs(tr, installation'[tr.installation])
                      IN IF Published(t)' THEN as = "target" /\ tr.phase = "releasing"
                                          ELSE as = "original"
    BY <1>2 DEF TransitionOwnsInstallation, Published, InstalledAs
  <2>1. t \in TransitionID
    BY <1>1 DEF Active
  <2>2. LET tr == transition[t]
            as == InstalledAs(tr, installation[tr.installation])
        IN IF Published(t) THEN as = "target" /\ tr.phase = "releasing"
                           ELSE as = "original"
    BY DEF TransitionsInv, TransitionOwnsInstallation, Published
  <2>3. QED
    BY <2>1, <2>2
<1>5. NoStaleCommit'
  <2> SUFFICES ASSUME NEW c \in Coordinator, coord[c] # None
               PROVE  /\ transition[coord[c].transition] = coord[c].prior
                      /\ installation'[coord[c].prior.installation] = coord[c].installed
    BY DEF NoStaleCommit, Unchanged
  <2>1. /\ transition[coord[c].transition] = coord[c].prior
        /\ installation[coord[c].prior.installation] = coord[c].installed
    BY DEF TransitionsInv, NoStaleCommit, Unchanged
  <2>2. coord[c].transition \in Active
    BY DEF TransitionsInv, Inv, ActiveJobsHeld, Active, ActiveTransition
  <2>3. QED
    BY <2>1, <2>2
<1>6. ModeFits'
  BY DEF TransitionsInv, ModeFits, StepMode, InstalledAs
<1>7. QED
  BY <1>3, <1>4, <1>5, <1>6

(***************************************************************************)
(* The steps of operations: none of them is about an active transition.    *)
(***************************************************************************)
LEMMA OperationsSpare ==
  ASSUME TransitionsInv, Inv',
         \/ \E o, c, i : Submits(o, c, i)
         \/ \E w \in Worker : Records(w) \/ Works(w)
         \/ Admit /\ UNCHANGED trVars
         \/ UNCHANGED vars
  PROVE  TransitionsInv'
<1>1. UNCHANGED <<transition, coord>>
  <2>1. ASSUME NEW o, NEW c, NEW i, Submits(o, c, i) PROVE UNCHANGED <<transition, coord>>
    BY <2>1 DEF Submits, submit, trVars
  <2>2. ASSUME NEW w \in Worker, Records(w) PROVE UNCHANGED <<transition, coord>>
    BY <2>2 DEF Records, Record, trVars
  <2>3. ASSUME NEW w \in Worker, Works(w) PROVE UNCHANGED <<transition, coord>>
    BY <2>3, QuietSteps DEF Works, trVars
  <2>4. ASSUME Admit, UNCHANGED trVars PROVE UNCHANGED <<transition, coord>>
    BY <2>4, QuietSteps DEF trVars
  <2>5. ASSUME UNCHANGED vars PROVE UNCHANGED <<transition, coord>>
    BY <2>5 DEF vars, tables, trVars
  <2>6. QED
    BY <2>1, <2>2, <2>3, <2>4, <2>5
<1>2. \A t \in TransitionID : Published(t)' <=> Published(t)
  <2>1. ASSUME NEW o, NEW c, NEW i, Submits(o, c, i)
        PROVE  \A t \in TransitionID : Published(t)' <=> Published(t)
    <3>1. audit' = audit \cup {<<"operation", o, "accepted">>}
      BY <2>1 DEF Submits, submit
    <3>2. \A t \in TransitionID : <<"transition", t, "published">> # <<"operation", o, "accepted">>
      OBVIOUS
    <3>3. QED
      BY <3>1, <3>2 DEF Published
  <2>2. ASSUME NEW w \in Worker, Records(w) PROVE UNCHANGED audit
    BY <2>2 DEF Records, Record
  <2>3. ASSUME \/ \E w \in Worker : Works(w)
               \/ Admit /\ UNCHANGED trVars
               \/ UNCHANGED vars
        PROVE  UNCHANGED audit
    BY <2>3, QuietSteps
  <2>4. QED
    BY <2>1, <2>2, <2>3 DEF Published
<1>3. \A t \in Active :
        installation'[transition[t].installation] = installation[transition[t].installation]
  BY SubmitSpares, RecordSparesTransitions, QuietSteps DEF TransitionsInv
<1>4. QED
  BY <1>1, <1>2, <1>3, SparedTransitions DEF TransitionsInv

(***************************************************************************)
(* A dispatch that starts holds the rows the tables hold; one under way    *)
(* keeps what it read.                                                     *)
(***************************************************************************)
Began(d) ==
  /\ Unchanged(d)
  /\ d.mode # "verify_forward" => d.mode = StepMode(d.prior, d.installed)

SameDispatch(d, e) ==
  e # None /\ d.transition = e.transition /\ d.prior = e.prior /\ d.installed = e.installed
  /\ d.mode = e.mode

LEMMA DispatchesFit ==
  ASSUME TransitionsInv, UNCHANGED <<installation, transition>>,
         \A c \in Coordinator : coord'[c] # None =>
           Began(coord'[c]) \/ SameDispatch(coord'[c], coord[c])
  PROVE  NoStaleCommit' /\ ModeFits'
<1> SUFFICES ASSUME NEW c \in Coordinator, coord'[c] # None
             PROVE  /\ Unchanged(coord'[c])
                    /\ coord'[c].mode # "verify_forward" =>
                         coord'[c].mode = StepMode(coord'[c].prior, coord'[c].installed)
  BY DEF NoStaleCommit, ModeFits, Unchanged, StepMode, InstalledAs
<1>1. CASE Began(coord'[c])
  BY <1>1 DEF Began
<1>2. CASE SameDispatch(coord'[c], coord[c])
  BY <1>2 DEF SameDispatch, TransitionsInv, NoStaleCommit, ModeFits, Unchanged
<1>3. QED
  BY <1>1, <1>2

LEMMA QuietTables ==
  ASSUME TransitionsInv, UNCHANGED <<installation, transition>>,
         \A t \in TransitionID : Published(t)' <=> Published(t)
  PROVE  PhaseFits' /\ PublishedExists' /\ TransitionOwnsInstallation'
<1>1. DOMAIN transition \subseteq TransitionID
  BY DEF TransitionsInv, Inv, TypeOK, TablesTypeOK
<1>2. PhaseFits' /\ PublishedExists'
  BY <1>1 DEF TransitionsInv, PhaseFits, PublishedExists
<1>3. TransitionOwnsInstallation'
  BY <1>1 DEF TransitionsInv, TransitionOwnsInstallation, Published, Active, ActiveTransition,
     InstalledAs
<1>4. QED
  BY <1>2, <1>3

(***************************************************************************)
(* A coordinator takes up or leaves a transition, and Runtime answers.     *)
(***************************************************************************)
LEMMA CoordinatorsKeep ==
  ASSUME TransitionsInv, Inv',
         \/ \E c \in Coordinator : Takes(c) \/ Leaves(c)
         \/ (\E c \in Coordinator, a \in Progress : Answered(c, a)) /\ UNCHANGED opVars
         \/ RuntimeLate /\ UNCHANGED opVars
  PROVE  TransitionsInv'
<1>1. UNCHANGED <<installation, operation, transition, audit, recovery>>
  BY QuietSteps
<1>2. coord \in [Coordinator -> DispatchRecord \cup {None}]
  BY DEF TransitionsInv, Inv, TypeOK, TransitionsTypeOK
<1>3. \A c \in Coordinator : coord'[c] # None =>
        Began(coord'[c]) \/ SameDispatch(coord'[c], coord[c])
  <2>1. ASSUME NEW c \in Coordinator, NEW t \in TransitionID, DispatchTransition(c, t),
               NEW e \in Coordinator, coord'[e] # None
        PROVE  Began(coord'[e]) \/ SameDispatch(coord'[e], coord[e])
    <3>1. CASE e = c
      BY <1>2, <2>1, <3>1 DEF DispatchTransition, Began, Unchanged
    <3>2. CASE e # c
      BY <1>2, <2>1, <3>2 DEF DispatchTransition, SameDispatch
    <3>3. QED
      BY <3>1, <3>2
  <2>2. ASSUME NEW c \in Coordinator, NEW r \in RecoveryID, RetryForward(c, r),
               NEW e \in Coordinator, coord'[e] # None
        PROVE  Began(coord'[e]) \/ SameDispatch(coord'[e], coord[e])
    <3>1. CASE e = c
      BY <1>2, <2>2, <3>1 DEF RetryForward, Verifying, Began, Unchanged
    <3>2. CASE e # c
      BY <1>2, <2>2, <3>2 DEF RetryForward, Verifying, SameDispatch
    <3>3. QED
      BY <3>1, <3>2
  <2>3. ASSUME NEW c \in Coordinator, Leaves(c), NEW e \in Coordinator, coord'[e] # None
        PROVE  SameDispatch(coord'[e], coord[e])
    <3>1. coord' = coord \/ coord' = [coord EXCEPT ![c] = None]
      BY <2>3 DEF Leaves, SkipTransition, NoTransition, Abandon, Restart
    <3>2. QED
      BY <1>2, <2>3, <3>1 DEF SameDispatch
  <2>4. ASSUME NEW c \in Coordinator, NEW a \in Progress, Answered(c, a),
               NEW e \in Coordinator, coord'[e] # None
        PROVE  SameDispatch(coord'[e], coord[e])
    <3>1. coord[c] # None /\ coord' = [coord EXCEPT ![c].answer = a]
      BY <2>4 DEF Answered
    <3>2. CASE e = c
      BY <1>2, <3>1, <3>2 DEF SameDispatch, DispatchRecord
    <3>3. CASE e # c
      BY <1>2, <2>4, <3>1, <3>3 DEF SameDispatch
    <3>4. QED
      BY <3>2, <3>3
  <2>5. ASSUME RuntimeLate, NEW e \in Coordinator, coord'[e] # None
        PROVE  SameDispatch(coord'[e], coord[e])
    BY <2>5 DEF RuntimeLate, LateRequest, SameDispatch
  <2>6. QED
    BY <2>1, <2>2, <2>3, <2>4, <2>5 DEF Takes
<1>4. NoStaleCommit' /\ ModeFits'
  BY <1>1, <1>3, DispatchesFit
<1>5. PhaseFits' /\ PublishedExists' /\ TransitionOwnsInstallation'
  BY <1>1, QuietTables DEF Published
<1>6. QED
  BY <1>4, <1>5 DEF TransitionsInv

(***************************************************************************)
(* A forward recovery is accepted.                                         *)
(***************************************************************************)
LEMMA AcceptRecoveryKeeps ==
  ASSUME TransitionsInv, Inv', AcceptRecovery
  PROVE  TransitionsInv'
<1>1. PICK r \in RecoveryID, c \in Coordinator, t \in DOMAIN transition, k \in Key,
           target \in Release : acceptForward(c, k, t, target, r)
  BY DEF AcceptRecovery, NewID
<1>2. coord \in [Coordinator -> DispatchRecord \cup {None}]
  BY DEF TransitionsInv, Inv, TypeOK, TransitionsTypeOK
<1>3. UNCHANGED <<installation, transition>> /\ Verifying(c, r, t)
  BY <1>1 DEF acceptForward
<1>4. \A s \in TransitionID : Published(s)' <=> Published(s)
  <2>1. audit' = audit \cup {<<"recovery", r, "accepted">>}
    BY <1>1 DEF acceptForward
  <2>2. \A s \in TransitionID : <<"transition", s, "published">> # <<"recovery", r, "accepted">>
    OBVIOUS
  <2>3. QED
    BY <2>1, <2>2 DEF Published
<1>5. ASSUME NEW e \in Coordinator, coord'[e] # None
      PROVE  Began(coord'[e]) \/ SameDispatch(coord'[e], coord[e])
  <2>1. CASE e = c
    BY <1>2, <1>3, <2>1 DEF Verifying, Began, Unchanged
  <2>2. CASE e # c
    BY <1>2, <1>3, <1>5, <2>2 DEF Verifying, SameDispatch
  <2>3. QED
    BY <2>1, <2>2
<1>6. NoStaleCommit' /\ ModeFits'
  BY <1>3, <1>5, DispatchesFit
<1>7. PhaseFits' /\ PublishedExists' /\ TransitionOwnsInstallation'
  BY <1>3, <1>4, QuietTables
<1>8. QED
  BY <1>6, <1>7 DEF TransitionsInv

(***************************************************************************)
(* A new transition finds its installation at the source version and       *)
(* records the revision it has.                                            *)
(***************************************************************************)
LEMMA AcceptTransitionKeeps ==
  ASSUME TransitionsInv, Inv', AcceptTransition
  PROVE  TransitionsInv'
<1>1. PICK t \in NewID(TransitionID, transition), i \in DOMAIN installation, u \in User, k \in Key,
           action \in {"upgrade", "rollback"}, source \in Release, target \in Release :
        SubmitTransition(u, k, i, action, source, target, t)
  BY DEF AcceptTransition
<1> DEFINE new == [installation |-> i, app |-> installation[i].app, user |-> u, key |-> k,
                   action |-> action, revision |-> installation[i].revision,
                   source |-> source, target |-> target,
                   status |-> "accepted", phase |-> "accepted"]
<1>2. t \in TransitionID /\ t \notin DOMAIN transition
  BY DEF NewID, Fresh
<1>3. /\ installation[i].state = "installed" /\ installation[i].version = source.version
      /\ compatibleTransition(action, source, target)
      /\ transition' = Insert(transition, t, new)
      /\ audit' = audit \cup {<<"transition", t, "accepted">>}
      /\ UNCHANGED <<installation, coord>>
  BY <1>1 DEF SubmitTransition, trVars
<1>4. source.version # target.version
  <2>1. source.version \in Nat /\ target.version \in Nat
    BY InstallationsAssumption DEF Release
  <2>2. QED
    BY <1>3, <2>1 DEF compatibleTransition
<1>5. /\ new.installation = i /\ new.source = source /\ new.target = target
      /\ new.revision = installation[i].revision
      /\ new.status = "accepted" /\ new.phase = "accepted"
  OBVIOUS
<1> HIDE DEF new
<1>6. /\ DOMAIN transition' = DOMAIN transition \cup {t}
      /\ transition'[t] = new
      /\ \A s \in DOMAIN transition : transition'[s] = transition[s]
  BY <1>2, <1>3 DEF Insert
<1>7. \A s \in TransitionID : Published(s)' <=> Published(s)
  <2>1. \A s \in TransitionID : <<"transition", s, "published">> # <<"transition", t, "accepted">>
    OBVIOUS
  <2>2. QED
    BY <1>3, <2>1 DEF Published
<1>8. DOMAIN transition \subseteq TransitionID
  BY DEF TransitionsInv, Inv, TypeOK, TablesTypeOK
<1>9. ~Published(t)
  BY <1>2 DEF TransitionsInv, PublishedExists
<1>10. PhaseFits'
  BY <1>2, <1>4, <1>5, <1>6, <1>7, <1>8, <1>9 DEF TransitionsInv, PhaseFits, Terminal
<1>11. PublishedExists'
  BY <1>6, <1>7 DEF TransitionsInv, PublishedExists
<1>12. TransitionOwnsInstallation'
  <2> SUFFICES ASSUME NEW s \in Active'
               PROVE  LET tr == transition'[s]
                          as == InstalledAs(tr, installation[tr.installation])
                      IN IF Published(s)' THEN as = "target" /\ tr.phase = "releasing"
                                          ELSE as = "original"
    BY <1>3 DEF TransitionOwnsInstallation, Published, InstalledAs
  <2>1. CASE s = t
    BY <1>2, <1>3, <1>5, <1>6, <1>7, <1>9, <2>1 DEF InstalledAs
  <2>2. CASE s # t
    BY <1>6, <1>7, <1>8, <2>2 DEF TransitionsInv, TransitionOwnsInstallation, Published,
       Active, ActiveTransition
  <2>3. QED
    BY <2>1, <2>2
<1>13. NoStaleCommit' /\ ModeFits'
  <2>1. \A c \in Coordinator : coord[c] # None => coord[c].transition \in DOMAIN transition
    BY DEF TransitionsInv, Inv, ActiveJobsHeld, ActiveTransition
  <2>2. NoStaleCommit'
    BY <1>3, <1>6, <2>1 DEF TransitionsInv, NoStaleCommit, Unchanged
  <2>3. ModeFits'
    BY <1>3 DEF TransitionsInv, ModeFits, StepMode, InstalledAs
  <2>4. QED
    BY <2>2, <2>3
<1>14. QED
  BY <1>10, <1>11, <1>12, <1>13 DEF TransitionsInv

(***************************************************************************)
(* The outcomes of a dispatch that found the row of an unpublished         *)
(* transition, and those of one that found it published.                   *)
(***************************************************************************)
OutcomeFits(out, d) ==
  /\ out.phase = "completed" <=> out.status \in Terminal
  /\ \/ out.version = None
     \/ /\ out.version = d.prior.target.version
        /\ InstalledAs(d.prior, d.installed) = "original"
        /\ out.status = "running" /\ out.phase = "releasing"
  /\ InstalledAs(d.prior, d.installed) = "target" =>
       \/ out.status = "running" /\ out.phase = "releasing"
       \/ out.status = "succeeded" /\ out.phase = "completed"

LEMMA OutcomeCases ==
  ASSUME NEW d \in DispatchRecord, NEW out \in Outcomes(d),
         d.mode = StepMode(d.prior, d.installed), d.prior.phase # "completed",
         \/ InstalledAs(d.prior, d.installed) = "original"
         \/ InstalledAs(d.prior, d.installed) = "target" /\ d.prior.phase = "releasing"
  PROVE  OutcomeFits(out, d)
<1>1. d.prior.phase \in TransitionPhase \ {"completed"}
  BY DEF DispatchRecord, TransitionRow
<1>2. CASE d.mode = "commit"
  <2>1. out \in Outcome("running", IF d.prior.phase = "accepted" THEN "checking" ELSE "restoring", None)
    BY <1>2 DEF Outcomes
  <2>2. d.prior.phase # "releasing"
    BY <1>2 DEF StepMode
  <2>3. QED
    BY <2>1, <2>2 DEF Outcome, OutcomeFits, Terminal
<1>3. CASE d.mode \in {"release_source", "release_target"}
  <2>1. out \in ReleaseOutcome(d)
    BY <1>3 DEF Outcomes
  <2>2. d.prior.phase = "releasing"
    BY <1>1, <1>3 DEF StepMode
  <2>3. (InstalledAs(d.prior, d.installed) = "target") <=> d.mode = "release_target"
    BY <1>3, <2>2 DEF StepMode
  <2>4. QED
    BY <1>3, <2>1, <2>2, <2>3 DEF ReleaseOutcome, Outcome, OutcomeFits, Terminal
<1>4. CASE d.mode = "restore"
  <2>1. out \in RestoreOutcome(d)
    BY <1>4 DEF Outcomes
  <2>2. d.prior.phase = "restoring"
    BY <1>1, <1>4 DEF StepMode
  <2>3. InstalledAs(d.prior, d.installed) = "original"
    BY <2>2
  <2>4. QED
    BY <2>1, <2>2, <2>3 DEF RestoreOutcome, Outcome, OutcomeFits, Terminal
<1>5. CASE d.mode = "prepare"
  <2>1. out \in PrepareOutcome(d)
    BY <1>5 DEF Outcomes
  <2>2. d.prior.phase # "releasing"
    BY <1>5 DEF StepMode
  <2>3. InstalledAs(d.prior, d.installed) = "original"
    BY <2>2
  <2>4. QED
    BY <2>1, <2>2, <2>3 DEF PrepareOutcome, Outcome, OutcomeFits, Terminal
<1>6. d.mode \in {"commit", "release_source", "release_target", "restore", "prepare"}
  BY DEF StepMode
<1>7. QED
  BY <1>2, <1>3, <1>4, <1>5, <1>6

(***************************************************************************)
(* What must hold of the transition a commit settles or moves on; of the   *)
(* others the locks and the busy queries take care.                        *)
(***************************************************************************)
Moves(c, t) ==
  /\ coord[c] # None /\ coord[c].transition = t
  /\ coord' = [coord EXCEPT ![c] = None]
  /\ DOMAIN transition' = DOMAIN transition
  /\ \A s \in DOMAIN transition : s # t => transition'[s] = transition[s]
  /\ \A j \in DOMAIN installation :
       j # transition[t].installation => installation'[j] = installation[j]
  /\ \A s \in TransitionID : s # t => (Published(s)' <=> Published(s))

MovedFits(t) ==
  /\ transition'[t].source.version # transition'[t].target.version
  /\ transition'[t].status \in Terminal <=> transition'[t].phase = "completed"
  /\ Published(t)' =>
       \/ transition'[t].status = "running" /\ transition'[t].phase = "releasing"
       \/ transition'[t].status = "succeeded" /\ transition'[t].phase = "completed"
  /\ transition'[t].status \notin Terminal =>
       InstalledAs(transition'[t], installation'[transition'[t].installation])
         = IF Published(t)' THEN "target" ELSE "original"

LEMMA CommitSparesOthers ==
  ASSUME TransitionsInv, NEW c \in Coordinator, NEW t, Moves(c, t), MovedFits(t)
  PROVE  PhaseFits' /\ PublishedExists' /\ TransitionOwnsInstallation' /\ NoStaleCommit' /\ ModeFits'
<1>1. coord \in [Coordinator -> DispatchRecord \cup {None}] /\ DOMAIN transition \subseteq TransitionID
  BY DEF TransitionsInv, Inv, TypeOK, TablesTypeOK, TransitionsTypeOK
<1>2. t \in Active
  BY DEF Moves, TransitionsInv, Inv, ActiveJobsHeld, Active, ActiveTransition
<1>3. \A s \in Active \ {t} :
        /\ transition[s].installation \in DOMAIN installation
        /\ transition[s].installation # transition[t].installation
  BY <1>2, TransitionsApart DEF TransitionsInv, Inv, SameOrganization, Active
<1>4. PhaseFits'
  BY <1>1 DEF Moves, MovedFits, TransitionsInv, PhaseFits
<1>5. PublishedExists'
  BY <1>2 DEF Moves, TransitionsInv, PublishedExists, Active
<1>6. TransitionOwnsInstallation'
  <2> SUFFICES ASSUME NEW s \in Active'
               PROVE  LET tr == transition'[s]
                          as == InstalledAs(tr, installation'[tr.installation])
                      IN IF Published(s)' THEN as = "target" /\ tr.phase = "releasing"
                                          ELSE as = "original"
    BY DEF TransitionOwnsInstallation, Published, InstalledAs
  <2>1. s \in DOMAIN transition /\ transition'[s].status \notin Terminal
    BY DEF Moves, Active, ActiveTransition
  <2>2. CASE s = t
    BY <2>1, <2>2 DEF MovedFits
  <2>3. CASE s # t
    <3>1. s \in Active \ {t} /\ s \in TransitionID
      BY <1>1, <2>1, <2>3 DEF Moves, Active, ActiveTransition
    <3>2. installation'[transition[s].installation] = installation[transition[s].installation]
      BY <1>3, <3>1 DEF Moves
    <3>3. LET tr == transition[s]
              as == InstalledAs(tr, installation[tr.installation])
          IN IF Published(s) THEN as = "target" /\ tr.phase = "releasing"
                             ELSE as = "original"
      BY <3>1 DEF TransitionsInv, TransitionOwnsInstallation, Published
    <3>4. QED
      BY <2>1, <2>3, <3>1, <3>2, <3>3 DEF Moves
  <2>4. QED
    BY <2>2, <2>3
<1>7. \A d \in Coordinator : coord'[d] # None =>
        /\ coord'[d] = coord[d]
        /\ coord[d].transition \in Active \ {t}
  BY <1>1 DEF Moves, TransitionsInv, Inv, ActiveJobsHeld, Active, ActiveTransition
<1>8. NoStaleCommit'
  <2> SUFFICES ASSUME NEW d \in Coordinator, coord'[d] # None
               PROVE  /\ transition'[coord[d].transition] = coord[d].prior
                      /\ installation'[coord[d].prior.installation] = coord[d].installed
    BY <1>7 DEF NoStaleCommit, Unchanged
  <2>1. /\ transition[coord[d].transition] = coord[d].prior
        /\ installation[coord[d].prior.installation] = coord[d].installed
    BY <1>7 DEF TransitionsInv, NoStaleCommit, Unchanged
  <2>2. QED
    BY <1>3, <1>7, <2>1 DEF Moves, Active
<1>9. ModeFits'
  BY <1>7 DEF TransitionsInv, ModeFits
<1>10. QED
  BY <1>4, <1>5, <1>6, <1>8, <1>9

-----------------------------------------------------------------------------
(***************************************************************************)
(* The commit of a dispatch.                                               *)
(***************************************************************************)
LEMMA CommitMoves ==
  ASSUME Inv, NoStaleCommit, NEW c \in Coordinator, commitTransition(c)
  PROVE  LET t  == coord[c].transition
             i  == transition[t].installation
         IN /\ coord[c] # None /\ t \in Active /\ i \in DOMAIN installation
            /\ coord[c] \in DispatchRecord /\ coord[c].mode # "verify_forward"
            /\ coord[c].prior = transition[t] /\ coord[c].installed = installation[i]
            /\ coord' = [coord EXCEPT ![c] = None]
            /\ DOMAIN transition' = DOMAIN transition
            /\ \A s \in DOMAIN transition : s # t => transition'[s] = transition[s]
            /\ \A j \in DOMAIN installation : j # i => installation'[j] = installation[j]
            /\ DOMAIN installation' = DOMAIN installation
            /\ \E out \in Outcomes(coord[c]) :
                 /\ transition'[t] = [transition[t] EXCEPT !.status = out.status, !.phase = out.phase]
                 /\ installation'[i] =
                      IF out.version = None THEN installation[i]
                      ELSE [installation[i] EXCEPT !.version = out.version,
                                                   !.revision = installation[i].revision + 1]
                 /\ audit' = audit \cup Events(t, transition[t], out)
<1> DEFINE t == coord[c].transition
           i == transition[t].installation
<1>1. coord[c] # None /\ coord[c] \in DispatchRecord /\ coord[c].mode # "verify_forward"
  BY DEF commitTransition, Inv, TypeOK, TransitionsTypeOK
<1>2. t \in Active /\ i \in DOMAIN installation
  BY <1>1 DEF Inv, ActiveJobsHeld, Active, ActiveTransition, SameOrganization
<1>3. coord[c].prior = transition[t] /\ coord[c].installed = installation[i]
  BY <1>1 DEF NoStaleCommit, Unchanged
<1>4. PICK out \in Outcomes(coord[c]) :
        /\ installation' = IF out.version = None THEN installation
                           ELSE [installation EXCEPT ![i].version = out.version,
                                                     ![i].revision = @ + 1]
        /\ transition' = [transition EXCEPT ![t].status = out.status, ![t].phase = out.phase]
        /\ audit' = audit \cup Events(t, transition[t], out)
  BY <1>3 DEF commitTransition
<1>5. /\ DOMAIN transition' = DOMAIN transition
      /\ \A s \in DOMAIN transition : s # t => transition'[s] = transition[s]
      /\ transition'[t] = [transition[t] EXCEPT !.status = out.status, !.phase = out.phase]
  BY <1>2, <1>4 DEF Active
<1>6. /\ DOMAIN installation' = DOMAIN installation
      /\ \A j \in DOMAIN installation : j # i => installation'[j] = installation[j]
      /\ installation'[i] =
           IF out.version = None THEN installation[i]
           ELSE [installation[i] EXCEPT !.version = out.version,
                                        !.revision = installation[i].revision + 1]
  BY <1>2, <1>4
<1>7. coord' = [coord EXCEPT ![c] = None]
  BY DEF commitTransition
<1>8. QED
  BY <1>1, <1>2, <1>3, <1>4, <1>5, <1>6, <1>7

Commits(c, t, out) ==
  LET tr  == transition[t]
      row == installation[tr.installation]
  IN /\ transition'[t] = [tr EXCEPT !.status = out.status, !.phase = out.phase]
     /\ installation'[tr.installation] =
          IF out.version = None THEN row
          ELSE [row EXCEPT !.version = out.version, !.revision = row.revision + 1]
     /\ OutcomeFits(out, coord[c])
     /\ Published(t)' <=> Published(t) \/ out.version # None

LEMMA CommitPublishes ==
  ASSUME TransitionsInv, NEW c \in Coordinator, commitTransition(c),
         NEW t, t = coord[c].transition
  PROVE  LET tr  == transition[t]
             row == installation[tr.installation]
         IN /\ tr \in TransitionRow /\ row \in InstallationRow
            /\ tr.phase # "completed" /\ tr.source.version # tr.target.version
            /\ Published(t) => tr.phase = "releasing"
            /\ InstalledAs(tr, row) = IF Published(t) THEN "target" ELSE "original"
            /\ coord[c].mode = StepMode(tr, row)
            /\ \A s \in TransitionID : s # t => (Published(s)' <=> Published(s))
            /\ \E out \in Outcomes(coord[c]) : Commits(c, t, out)
<1> DEFINE tr == transition[t]
           i  == tr.installation
           row == installation[i]
<1>1. /\ coord[c] # None /\ t \in Active /\ i \in DOMAIN installation
      /\ coord[c] \in DispatchRecord /\ coord[c].mode # "verify_forward"
      /\ coord[c].prior = tr /\ coord[c].installed = row
      /\ coord' = [coord EXCEPT ![c] = None]
      /\ DOMAIN transition' = DOMAIN transition
      /\ \A s \in DOMAIN transition : s # t => transition'[s] = transition[s]
      /\ \A j \in DOMAIN installation : j # i => installation'[j] = installation[j]
  BY CommitMoves DEF TransitionsInv
<1>2. PICK out \in Outcomes(coord[c]) :
        /\ transition'[t] = [tr EXCEPT !.status = out.status, !.phase = out.phase]
        /\ installation'[i] = IF out.version = None THEN row
                              ELSE [row EXCEPT !.version = out.version, !.revision = row.revision + 1]
        /\ audit' = audit \cup Events(t, tr, out)
  BY CommitMoves DEF TransitionsInv
<1>3. /\ t \in DOMAIN transition /\ t \in TransitionID
      /\ tr \in TransitionRow /\ row \in InstallationRow /\ tr.status \notin Terminal
  BY <1>1 DEF TransitionsInv, Inv, TypeOK, TablesTypeOK, Active, ActiveTransition
<1>4. /\ tr.phase # "completed"
      /\ tr.source.version # tr.target.version
      /\ Published(t) => tr.phase = "releasing"
  BY <1>3 DEF TransitionsInv, PhaseFits, Terminal
<1>5. InstalledAs(tr, row) = IF Published(t) THEN "target" ELSE "original"
  BY <1>1 DEF TransitionsInv, TransitionOwnsInstallation, Published
<1>6. OutcomeFits(out, coord[c])
  <2>1. coord[c].mode = StepMode(coord[c].prior, coord[c].installed)
    BY <1>1 DEF TransitionsInv, ModeFits
  <2>2. QED
    BY <1>1, <1>4, <1>5, <2>1, OutcomeCases
<1>7. /\ out.phase = "completed" <=> out.status \in Terminal
      /\ \/ out.version = None
         \/ /\ out.version = tr.target.version /\ ~Published(t)
            /\ out.status = "running" /\ out.phase = "releasing"
      /\ Published(t) => \/ out.status = "running" /\ out.phase = "releasing"
                         \/ out.status = "succeeded" /\ out.phase = "completed"
  BY <1>1, <1>5, <1>6 DEF OutcomeFits
<1>8. out.version # None => out.version # tr.source.version
  BY <1>4, <1>7
<1>9. Published(t)' <=> Published(t) \/ out.version # None
  <2>1. CASE out.version # None
    <3>1. Events(t, tr, out) = {<<"transition", t, "published">>} \cup
            (IF out.phase = "completed" THEN {<<"transition", t, out.status>>} ELSE {})
      BY <1>8, <2>1 DEF Events
    <3>2. QED
      BY <1>2, <2>1, <3>1 DEF Published
  <2>2. CASE out.version = None
    <3>1. Events(t, tr, out) =
            (IF out.phase = "completed" THEN {<<"transition", t, out.status>>} ELSE {})
      BY <2>2 DEF Events
    <3>2. out.phase = "completed" => out.status # "published"
      BY <1>7 DEF Terminal
    <3>3. out.status # "published" =>
            <<"transition", t, out.status>> # <<"transition", t, "published">>
      OBVIOUS
    <3>4. QED
      BY <1>2, <2>2, <3>1, <3>2, <3>3 DEF Published
  <2>3. QED
    BY <2>1, <2>2
<1>10. \A s \in TransitionID : s # t => (Published(s)' <=> Published(s))
  <2>1. ASSUME NEW s \in TransitionID, s # t
        PROVE  <<"transition", s, "published">> \notin Events(t, tr, out)
    <3>1. \A x : <<"transition", s, "published">> # <<"transition", t, x>>
      BY <2>1
    <3>2. QED
      BY <3>1 DEF Events
  <2>2. QED
    BY <1>2, <2>1 DEF Published
<1>11. coord[c].mode = StepMode(tr, row)
  BY <1>1 DEF TransitionsInv, ModeFits
<1>12. Commits(c, t, out)
  BY <1>2, <1>6, <1>9 DEF Commits
<1>13. QED
  BY <1>3, <1>4, <1>5, <1>10, <1>11, <1>12

LEMMA CommitKeeps ==
  ASSUME TransitionsInv, Inv', NEW c \in Coordinator, commitTransition(c)
  PROVE  TransitionsInv'
<1>0. PICK t : t = coord[c].transition
  OBVIOUS
<1> DEFINE tr == transition[t]
           i  == tr.installation
           row == installation[i]
<1>1. /\ coord[c] # None
      /\ coord[c].prior = tr /\ coord[c].installed = row
      /\ coord' = [coord EXCEPT ![c] = None]
      /\ DOMAIN transition' = DOMAIN transition
      /\ \A s \in DOMAIN transition : s # t => transition'[s] = transition[s]
      /\ \A j \in DOMAIN installation : j # i => installation'[j] = installation[j]
  BY <1>0, CommitMoves DEF TransitionsInv
<1>2. /\ tr \in TransitionRow /\ row \in InstallationRow
      /\ tr.source.version # tr.target.version
      /\ InstalledAs(tr, row) = IF Published(t) THEN "target" ELSE "original"
      /\ \A s \in TransitionID : s # t => (Published(s)' <=> Published(s))
  BY <1>0, CommitPublishes
<1>a. PICK out \in Outcomes(coord[c]) : Commits(c, t, out)
  BY <1>0, CommitPublishes
<1>3. /\ transition'[t] = [tr EXCEPT !.status = out.status, !.phase = out.phase]
      /\ installation'[i] = IF out.version = None THEN row
                            ELSE [row EXCEPT !.version = out.version, !.revision = row.revision + 1]
      /\ OutcomeFits(out, coord[c])
      /\ Published(t)' <=> Published(t) \/ out.version # None
  BY <1>a DEF Commits
<1>4. /\ out.phase = "completed" <=> out.status \in Terminal
      /\ \/ out.version = None
         \/ /\ out.version = tr.target.version /\ ~Published(t)
            /\ out.status = "running" /\ out.phase = "releasing"
      /\ Published(t) => \/ out.status = "running" /\ out.phase = "releasing"
                         \/ out.status = "succeeded" /\ out.phase = "completed"
  BY <1>1, <1>2, <1>3 DEF OutcomeFits
<1>5. /\ transition'[t].source = tr.source /\ transition'[t].target = tr.target
      /\ transition'[t].revision = tr.revision /\ transition'[t].installation = i
      /\ transition'[t].status = out.status /\ transition'[t].phase = out.phase
  BY <1>2, <1>3 DEF TransitionRow
<1>6. transition'[t].status \notin Terminal =>
         InstalledAs(transition'[t], installation'[transition'[t].installation])
           = IF Published(t)' THEN "target" ELSE "original"
  <2>1. CASE out.version = None
    <3>1. installation'[i] = row
      BY <1>3, <2>1
    <3>2. InstalledAs(transition'[t], row) = InstalledAs(tr, row)
      BY <1>5 DEF InstalledAs
    <3>3. QED
      BY <1>2, <1>3, <1>5, <2>1, <3>1, <3>2
  <2>2. CASE out.version # None
    <3>1. /\ row.state = "installed" /\ row.revision = tr.revision
          /\ row.version = tr.source.version /\ row.revision \in Nat
      BY <1>2, <1>4, <2>2 DEF InstalledAs, InstallationRow
    <3>2. /\ installation'[i].state = "installed" /\ installation'[i].revision = tr.revision + 1
          /\ installation'[i].version = tr.target.version
      BY <1>2, <1>3, <1>4, <2>2, <3>1 DEF InstallationRow
    <3>3. tr.revision + 1 # tr.revision
      BY <3>1
    <3>4. InstalledAs(transition'[t], installation'[i]) = "target"
      BY <1>5, <3>2, <3>3 DEF InstalledAs
    <3>5. QED
      BY <1>3, <1>5, <2>2, <3>4
  <2>3. QED
    BY <2>1, <2>2
<1>7. /\ transition'[t].source.version # transition'[t].target.version
      /\ transition'[t].status \in Terminal <=> transition'[t].phase = "completed"
      /\ Published(t)' =>
           \/ transition'[t].status = "running" /\ transition'[t].phase = "releasing"
           \/ transition'[t].status = "succeeded" /\ transition'[t].phase = "completed"
  BY <1>2, <1>3, <1>4, <1>5
<1>8. PhaseFits' /\ PublishedExists' /\ TransitionOwnsInstallation' /\ NoStaleCommit' /\ ModeFits'
  <2>1. Moves(c, t)
    BY <1>0, <1>1, <1>2 DEF Moves
  <2>2. MovedFits(t)
    BY <1>6, <1>7 DEF MovedFits
  <2>3. QED
    BY <2>1, <2>2, CommitSparesOthers
<1>9. QED
  BY <1>8 DEF TransitionsInv

(***************************************************************************)
(* The verdict on a forward recovery.                                      *)
(***************************************************************************)
LEMMA FinishMoves ==
  ASSUME Inv, NEW c \in Coordinator, finishForward(c)
  PROVE  LET t  == coord[c].transition
             r  == coord[c].recovery
             i  == transition[t].installation
         IN /\ coord[c] # None /\ t \in Active /\ i \in DOMAIN installation
            /\ r \in DOMAIN recovery /\ recovery[r].transition = t /\ recovery[r].state = "pending"
            /\ allowedWorldForward(transition[t], installation[i], recovery[r].target)
            /\ coord' = [coord EXCEPT ![c] = None]
            /\ DOMAIN transition' = DOMAIN transition
            /\ \A s \in DOMAIN transition : s # t => transition'[s] = transition[s]
            /\ \A j \in DOMAIN installation : j # i => installation'[j] = installation[j]
            /\ DOMAIN installation' = DOMAIN installation
            /\ \/ /\ coord[c].answer # "verified"
                  /\ UNCHANGED <<transition, installation>>
                  /\ recovery' = [recovery EXCEPT ![r].state = "failed"]
                  /\ audit' = audit \cup {<<"recovery", r, "failed">>}
               \/ /\ coord[c].answer = "verified" /\ verdict[r] = "verified"
                  /\ transition'[t] = [transition[t] EXCEPT !.status = "failed", !.phase = "completed"]
                  /\ installation'[i] =
                       [installation[i] EXCEPT !.version = recovery[r].target.version,
                                               !.revision = installation[i].revision + 1]
                  /\ recovery' = [recovery EXCEPT ![r].state = "succeeded"]
                  /\ audit' = audit \cup {<<"recovery", r, "succeeded">>}
<1> DEFINE t == coord[c].transition
           r == coord[c].recovery
           i == transition[t].installation
           v == recovery[r].target.version
<1>1. /\ coord[c] # None /\ coord[c].mode = "verify_forward"
      /\ recovery[r].state = "pending"
      /\ allowedWorldForward(transition[t], installation[i], recovery[r].target)
      /\ coord' = [coord EXCEPT ![c] = None]
  BY DEF finishForward
<1>2. t \in Active /\ i \in DOMAIN installation
  BY <1>1 DEF Inv, ActiveJobsHeld, Active, ActiveTransition, SameOrganization
<1>3. r \in DOMAIN recovery /\ recovery[r].transition = t
  BY <1>1 DEF Inv, RecoveryOwnsTransition
<1> HIDE DEF v
<1>4. \/ /\ coord[c].answer # "verified"
         /\ UNCHANGED <<transition, installation>>
         /\ recovery' = [recovery EXCEPT ![r].state = "failed"]
         /\ audit' = audit \cup {<<"recovery", r, "failed">>}
      \/ /\ coord[c].answer = "verified" /\ verdict[r] = "verified"
         /\ transition' = [transition EXCEPT ![t].status = "failed", ![t].phase = "completed"]
         /\ installation' = [installation EXCEPT ![i].version = v, ![i].revision = @ + 1]
         /\ recovery' = [recovery EXCEPT ![r].state = "succeeded"]
         /\ audit' = audit \cup {<<"recovery", r, "succeeded">>}
  BY DEF finishForward, v
<1>5. CASE coord[c].answer # "verified"
  BY <1>1, <1>2, <1>3, <1>4, <1>5
<1>6. CASE coord[c].answer = "verified"
  <2>1. /\ DOMAIN transition' = DOMAIN transition
        /\ \A s \in DOMAIN transition : s # t => transition'[s] = transition[s]
        /\ transition'[t] = [transition[t] EXCEPT !.status = "failed", !.phase = "completed"]
    BY <1>2, <1>4, <1>6 DEF Active
  <2>2. /\ DOMAIN installation' = DOMAIN installation
        /\ \A j \in DOMAIN installation : j # i => installation'[j] = installation[j]
        /\ installation'[i] = [installation[i] EXCEPT !.version = v,
                                                      !.revision = installation[i].revision + 1]
    BY <1>2, <1>4, <1>6
  <2>3. QED
    BY <1>1, <1>2, <1>3, <1>4, <1>6, <2>1, <2>2 DEF v
<1>7. QED
  BY <1>5, <1>6

LEMMA FinishKeeps ==
  ASSUME TransitionsInv, Inv', NEW c \in Coordinator, finishForward(c)
  PROVE  TransitionsInv'
<1>0. PICK t, r : t = coord[c].transition /\ r = coord[c].recovery
  OBVIOUS
<1> DEFINE tr == transition[t]
           i  == tr.installation
<1>1. /\ coord[c] # None /\ t \in Active /\ i \in DOMAIN installation
      /\ allowedWorldForward(tr, installation[i], recovery[r].target)
      /\ coord' = [coord EXCEPT ![c] = None]
      /\ DOMAIN transition' = DOMAIN transition
      /\ \A s \in DOMAIN transition : s # t => transition'[s] = transition[s]
      /\ \A j \in DOMAIN installation : j # i => installation'[j] = installation[j]
      /\ \/ /\ UNCHANGED <<transition, installation>>
            /\ audit' = audit \cup {<<"recovery", r, "failed">>}
         \/ /\ transition'[t] = [tr EXCEPT !.status = "failed", !.phase = "completed"]
            /\ audit' = audit \cup {<<"recovery", r, "succeeded">>}
  BY <1>0, FinishMoves DEF TransitionsInv
<1>2. t \in DOMAIN transition /\ t \in TransitionID /\ tr \in TransitionRow /\ tr.status \notin Terminal
  BY <1>1 DEF TransitionsInv, Inv, TypeOK, TablesTypeOK, Active, ActiveTransition
<1>3. \A s \in TransitionID : Published(s)' <=> Published(s)
  <2>1. \A s \in TransitionID : /\ <<"transition", s, "published">> # <<"recovery", r, "failed">>
                                /\ <<"transition", s, "published">> # <<"recovery", r, "succeeded">>
    OBVIOUS
  <2>2. QED
    BY <1>1, <2>1 DEF Published
<1>4. ~Published(t)
  BY <1>1, <1>2 DEF allowedWorldForward, TransitionsInv, PhaseFits
<1>5. /\ transition'[t].source.version # transition'[t].target.version
      /\ transition'[t].status \in Terminal <=> transition'[t].phase = "completed"
      /\ transition'[t].status \notin Terminal => UNCHANGED <<transition, installation>>
  <2>1. CASE UNCHANGED <<transition, installation>>
    BY <1>2, <2>1 DEF TransitionsInv, PhaseFits
  <2>2. CASE transition'[t] = [tr EXCEPT !.status = "failed", !.phase = "completed"]
    BY <1>2, <2>2 DEF TransitionRow, Terminal, TransitionsInv, PhaseFits
  <2>3. QED
    BY <1>1, <2>1, <2>2
<1>6. InstalledAs(tr, installation[i]) = "original"
  BY <1>1 DEF allowedWorldForward
<1>7. transition'[t].status \notin Terminal =>
        InstalledAs(transition'[t], installation'[transition'[t].installation])
          = IF Published(t)' THEN "target" ELSE "original"
  BY <1>2, <1>3, <1>4, <1>5, <1>6
<1>8. Published(t)' => FALSE
  BY <1>2, <1>3, <1>4
<1>9. PhaseFits' /\ PublishedExists' /\ TransitionOwnsInstallation' /\ NoStaleCommit' /\ ModeFits'
  <2>1. Moves(c, t)
    BY <1>0, <1>1, <1>3 DEF Moves
  <2>2. MovedFits(t)
    BY <1>5, <1>7, <1>8 DEF MovedFits
  <2>3. QED
    BY <2>1, <2>2, CommitSparesOthers
<1>10. QED
  BY <1>9 DEF TransitionsInv

(***************************************************************************)
(* The invariant of managed transitions is inductive.                      *)
(***************************************************************************)
LEMMA TransitionsInitially == Init => TransitionsInv
<1> SUFFICES ASSUME Init PROVE TransitionsInv
  OBVIOUS
<1>1. transition = EmptyTable /\ audit = {} /\ coord = [c \in Coordinator |-> None]
  BY DEF Init, TablesInit, TransitionsInit
<1>2. QED
  BY <1>1, InitInv DEF TransitionsInv, PhaseFits, PublishedExists, TransitionOwnsInstallation,
     NoStaleCommit, ModeFits, EmptyTable, Active, Published

LEMMA TransitionsStep == TransitionsInv /\ [Next]_vars => TransitionsInv'
<1> SUFFICES ASSUME TransitionsInv, [Next]_vars PROVE TransitionsInv'
  OBVIOUS
<1>1. Inv /\ Inv'
  BY InvStep DEF TransitionsInv
<1>2. QED
  BY <1>1, StepKinds, OperationsSpare, CoordinatorsKeep, AcceptRecoveryKeeps,
     AcceptTransitionKeeps, CommitKeeps, FinishKeeps

LEMMA TransitionsInvariance == Spec => []TransitionsInv
  BY TransitionsInitially, TransitionsStep, PTL DEF Spec

(***************************************************************************)
(* While a transition is active nobody else changes its installation, for  *)
(* any number of processes: dispatchTransition never finds a row that it   *)
(* does not recognise and would refuse for ever.                           *)
(***************************************************************************)
THEOREM TransitionsOwnInstallations == Spec => []TransitionOwnsInstallation
<1>1. TransitionsInv => TransitionOwnsInstallation
  BY DEF TransitionsInv
<1>2. QED
  BY <1>1, TransitionsInvariance, PTL

(***************************************************************************)
(* A dispatch that holds no row lock during the call to Runtime still      *)
(* finds both rows as it read them: commitTransition's Conflict return is  *)
(* never taken.                                                            *)
(***************************************************************************)
THEOREM CommitsAreNeverStale == Spec => []NoStaleCommit
<1>1. TransitionsInv => NoStaleCommit
  BY DEF TransitionsInv
<1>2. QED
  BY <1>1, TransitionsInvariance, PTL

-----------------------------------------------------------------------------
(***************************************************************************)
(* The rows of the jobs stay, and keep what they were accepted with; a     *)
(* success, and an entry of the audit log, is for ever.                    *)
(***************************************************************************)
OperationsStay ==
  \A o \in DOMAIN operation :
    /\ o \in DOMAIN operation'
    /\ operation'[o].installation = operation[o].installation
    /\ operation'[o].version = operation[o].version
    /\ operation'[o].action = operation[o].action
    /\ operation'[o].kind = operation[o].kind
    /\ operation'[o].release = operation[o].release
    /\ operation[o].status \in Terminal => operation'[o].status = operation[o].status

TransitionsStay ==
  \A t \in DOMAIN transition :
    /\ t \in DOMAIN transition'
    /\ transition'[t].installation = transition[t].installation
    /\ transition'[t].source = transition[t].source
    /\ transition'[t].target = transition[t].target
    /\ transition'[t].action = transition[t].action
    /\ transition[t].status = "succeeded" => transition'[t].status = "succeeded"

RecoveriesStay ==
  \A r \in DOMAIN recovery :
    /\ r \in DOMAIN recovery'
    /\ recovery'[r].transition = recovery[r].transition
    /\ recovery'[r].target = recovery[r].target
    /\ recovery[r].state = "succeeded" => recovery'[r].state = "succeeded"

RowsStay == OperationsStay /\ TransitionsStay /\ RecoveriesStay /\ audit \subseteq audit'

LEMMA RowsStayForEver ==
  ASSUME TransitionsInv, [Next]_vars
  PROVE  RowsStay
<1>1. Inv
  BY DEF TransitionsInv
<1>2. ASSUME UNCHANGED operation PROVE OperationsStay
  BY <1>2 DEF OperationsStay
<1>3. ASSUME UNCHANGED transition PROVE TransitionsStay
  BY <1>3 DEF TransitionsStay
<1>4. ASSUME UNCHANGED recovery PROVE RecoveriesStay
  BY <1>4 DEF RecoveriesStay
<1>5. ASSUME NEW o, NEW c, NEW i, Submits(o, c, i) PROVE RowsStay
  <2>1. /\ o \notin DOMAIN operation
        /\ \E row : operation' = Insert(operation, o, row)
        /\ audit \subseteq audit' /\ UNCHANGED <<transition, recovery>>
    BY <1>5 DEF Submits, NewID, Fresh, submit, trVars
  <2>2. OperationsStay
    BY <2>1 DEF OperationsStay, Insert
  <2>3. QED
    BY <1>3, <1>4, <2>1, <2>2 DEF RowsStay
<1>6. ASSUME NEW w \in Worker, Records(w) PROVE RowsStay
  <2> DEFINE o == worker[w].op
  <2>1. /\ operation' = [operation EXCEPT ![o].status = Result(worker[w].answer)]
        /\ UNCHANGED <<transition, recovery, audit>>
    BY <1>6 DEF Records, Record, trVars
  <2>2. ActiveOperation(o)
    BY <1>1, <1>6 DEF Records, Record, Inv, ActiveJobsHeld
  <2>3. OperationsStay
    BY <1>1, <2>1, <2>2 DEF OperationsStay, ActiveOperation, Terminal, Inv, TypeOK, TablesTypeOK,
       OperationRow
  <2>4. QED
    BY <1>3, <1>4, <2>1, <2>3 DEF RowsStay
<1>7. ASSUME UNCHANGED <<installation, operation, transition, audit, recovery>> PROVE RowsStay
  BY <1>2, <1>3, <1>4, <1>7 DEF RowsStay
<1>8. ASSUME AcceptTransition, UNCHANGED opVars PROVE RowsStay
  <2>1. /\ \E t, row : t \notin DOMAIN transition /\ transition' = Insert(transition, t, row)
        /\ audit \subseteq audit' /\ UNCHANGED <<operation, recovery>>
    BY <1>8 DEF AcceptTransition, NewID, Fresh, SubmitTransition, trVars
  <2>2. TransitionsStay
    BY <2>1 DEF TransitionsStay, Insert
  <2>3. QED
    BY <1>2, <1>4, <2>1, <2>2 DEF RowsStay
<1>9. ASSUME AcceptRecovery, UNCHANGED opVars PROVE RowsStay
  <2>1. /\ \E r, row : r \notin DOMAIN recovery /\ recovery' = Insert(recovery, r, row)
        /\ audit \subseteq audit' /\ UNCHANGED <<operation, transition>>
    BY <1>9 DEF AcceptRecovery, NewID, Fresh, acceptForward
  <2>2. RecoveriesStay
    BY <2>1 DEF RecoveriesStay, Insert
  <2>3. QED
    BY <1>2, <1>3, <2>1, <2>2 DEF RowsStay
<1>10. ASSUME NEW c \in Coordinator, commitTransition(c) PROVE RowsStay
  <2> DEFINE t == coord[c].transition
  <2>1. /\ t \in Active
        /\ DOMAIN transition' = DOMAIN transition
        /\ \A s \in DOMAIN transition : s # t => transition'[s] = transition[s]
        /\ \E out : transition'[t] = [transition[t] EXCEPT !.status = out.status, !.phase = out.phase]
        /\ audit \subseteq audit'
    BY <1>10, CommitMoves DEF TransitionsInv
  <2>2. TransitionsStay
    <3>1. t \in DOMAIN transition /\ transition[t] \in TransitionRow /\ transition[t].status # "succeeded"
      BY <1>1, <2>1 DEF Active, ActiveTransition, Terminal, Inv, TypeOK, TablesTypeOK
    <3>2. /\ transition'[t].installation = transition[t].installation
          /\ transition'[t].source = transition[t].source
          /\ transition'[t].target = transition[t].target
          /\ transition'[t].action = transition[t].action
      BY <2>1, <3>1 DEF TransitionRow
    <3>3. QED
      BY <2>1, <3>1, <3>2 DEF TransitionsStay
  <2>3. UNCHANGED <<operation, recovery>>
    BY <1>10 DEF commitTransition
  <2>4. QED
    BY <1>2, <1>4, <2>1, <2>2, <2>3 DEF RowsStay
<1>11. ASSUME NEW c \in Coordinator, finishForward(c) PROVE RowsStay
  <2> DEFINE t == coord[c].transition
             r == coord[c].recovery
  <2>1. /\ t \in Active
        /\ DOMAIN transition' = DOMAIN transition
        /\ \A s \in DOMAIN transition : s # t => transition'[s] = transition[s]
        /\ \/ UNCHANGED transition
           \/ transition'[t] = [transition[t] EXCEPT !.status = "failed", !.phase = "completed"]
        /\ audit \subseteq audit'
        /\ r \in DOMAIN recovery /\ recovery[r].state = "pending"
        /\ \E x : recovery' = [recovery EXCEPT ![r].state = x]
    BY <1>1, <1>11, FinishMoves
  <2>2. TransitionsStay
    <3>1. t \in DOMAIN transition /\ transition[t] \in TransitionRow /\ transition[t].status # "succeeded"
      BY <1>1, <2>1 DEF Active, ActiveTransition, Terminal, Inv, TypeOK, TablesTypeOK
    <3>2. /\ transition'[t].installation = transition[t].installation
          /\ transition'[t].source = transition[t].source
          /\ transition'[t].target = transition[t].target
          /\ transition'[t].action = transition[t].action
      BY <2>1, <3>1 DEF TransitionRow
    <3>3. QED
      BY <2>1, <3>1, <3>2 DEF TransitionsStay
  <2>3. RecoveriesStay
    BY <1>1, <2>1 DEF RecoveriesStay, Inv, TypeOK, TransitionsTypeOK, RecoveryRow
  <2>4. UNCHANGED operation
    BY <1>11 DEF finishForward
  <2>5. QED
    BY <1>2, <2>1, <2>2, <2>3, <2>4 DEF RowsStay
<1>12. QED
  BY <1>1, <1>5, <1>6, <1>7, <1>8, <1>9, <1>10, <1>11, StepKinds, QuietSteps

(***************************************************************************)
(* No step changes the installation of a transition that has published.    *)
(***************************************************************************)
LEMMA PublishedIsSpared ==
  ASSUME TransitionsInv, [Next]_vars, NEW t \in Active, Published(t)
  PROVE  installation'[transition[t].installation] = installation[transition[t].installation]
<1> DEFINE j == transition[t].installation
<1>1. Inv /\ j \in DOMAIN installation
  BY DEF TransitionsInv, Inv, SameOrganization, Active
<1>2. t \in DOMAIN transition /\ transition[t].phase = "releasing"
  BY DEF TransitionsInv, PhaseFits, Active, ActiveTransition, Terminal
<1>3. ASSUME AcceptTransition \/ AcceptRecovery PROVE UNCHANGED installation
  <2>1. ASSUME AcceptTransition PROVE UNCHANGED installation
    BY <2>1 DEF AcceptTransition, SubmitTransition
  <2>2. ASSUME AcceptRecovery PROVE UNCHANGED installation
    BY <2>2 DEF AcceptRecovery, acceptForward
  <2>3. QED
    BY <1>3, <2>1, <2>2
<1>4. ASSUME NEW c \in Coordinator, commitTransition(c) PROVE installation'[j] = installation[j]
  <2> DEFINE s == coord[c].transition
  <2>1. /\ s \in Active /\ coord[c] \in DispatchRecord
        /\ coord[c] # None /\ coord[c].mode # "verify_forward"
        /\ coord[c].prior = transition[s]
        /\ coord[c].installed = installation[transition[s].installation]
        /\ \A k \in DOMAIN installation :
             k # transition[s].installation => installation'[k] = installation[k]
        /\ \E out \in Outcomes(coord[c]) :
             out.version = None =>
               installation'[transition[s].installation] = installation[transition[s].installation]
    BY <1>4, CommitMoves DEF TransitionsInv
  <2>2. CASE s # t
    BY <1>1, <2>1, <2>2, TransitionsApart
  <2>3. CASE s = t
    <3>1. InstalledAs(coord[c].prior, coord[c].installed) = "target"
      BY <2>1, <2>3 DEF TransitionsInv, TransitionOwnsInstallation, Published
    <3>2. coord[c].mode = StepMode(coord[c].prior, coord[c].installed)
      BY <2>1 DEF TransitionsInv, ModeFits
    <3>3. coord[c].prior.phase = "releasing"
      BY <1>2, <2>1, <2>3
    <3>4. \A out \in Outcomes(coord[c]) : OutcomeFits(out, coord[c])
      BY <2>1, <3>1, <3>2, <3>3, OutcomeCases
    <3>5. QED
      BY <2>1, <2>3, <3>1, <3>4 DEF OutcomeFits
  <2>4. QED
    BY <2>2, <2>3
<1>5. ASSUME NEW c \in Coordinator, finishForward(c) PROVE installation'[j] = installation[j]
  <2> DEFINE s == coord[c].transition
  <2>1. /\ s \in Active
        /\ transition[s].phase \in {"restoring", "recovery_required"}
        /\ \A k \in DOMAIN installation :
             k # transition[s].installation => installation'[k] = installation[k]
    BY <1>1, <1>5, FinishMoves DEF allowedWorldForward
  <2>2. s # t
    BY <1>2, <2>1
  <2>3. QED
    BY <1>1, <2>1, <2>2, TransitionsApart
<1>6. QED
  BY <1>1, <1>3, <1>4, <1>5, StepKinds, QuietSteps, SubmitSpares, RecordSparesTransitions

(***************************************************************************)
(* A published version is never swapped out by its own transition: after   *)
(* publication a transition only releases the target and succeeds, and     *)
(* nothing changes its installation meanwhile.                             *)
(***************************************************************************)
THEOREM PublicationIsFinal == Spec => PublishedNeverReverts
<1>1. TransitionsInv /\ TransitionsInv' /\ [Next]_vars => [PublishedStep]_<<tables, trVars>>
  <2> SUFFICES ASSUME TransitionsInv, TransitionsInv', [Next]_vars,
                      NEW t \in DOMAIN transition, Published(t)
               PROVE  /\ transition'[t].status \in {"running", "succeeded"}
                      /\ transition'[t].phase \in {"releasing", "completed"}
                      /\ ActiveTransition(t) =>
                           installation'[transition[t].installation]
                             = installation[transition[t].installation]
    BY DEF PublishedStep, Published
  <2>1. t \in DOMAIN transition' /\ Published(t)'
    BY RowsStayForEver DEF RowsStay, TransitionsStay, Published
  <2>2. PhaseFits'
    BY DEF TransitionsInv
  <2>3. /\ transition'[t].status \in {"running", "succeeded"}
        /\ transition'[t].phase \in {"releasing", "completed"}
    BY <2>1, <2>2 DEF PhaseFits, Published
  <2>4. ActiveTransition(t) =>
          installation'[transition[t].installation] = installation[transition[t].installation]
    BY PublishedIsSpared DEF Active
  <2>5. QED
    BY <2>3, <2>4
<1>2. QED
  BY <1>1, TransitionsInvariance, PTL DEF Spec, PublishedNeverReverts

-----------------------------------------------------------------------------
(***************************************************************************)
(* Core and Runtime agree on operations.  The answer a worker holds is     *)
(* still what Runtime has on record, because no other worker can ask for   *)
(* the same operation meanwhile, and a settled operation is asked for no   *)
(* more.                                                                   *)
(***************************************************************************)
AnswersStand ==
  \A w \in Worker :
    /\ worker[w].answer \in Terminal => exec[worker[w].op] = worker[w].answer
    /\ worker[w].answer = "rejected" => exec[worker[w].op] = "unknown"
    /\ worker[w].op = None => worker[w].answer = None

OutcomeInv == Inv /\ OutcomeAgrees /\ AnswersStand

LEMMA OutcomeStep == OutcomeInv /\ [Next]_vars => OutcomeInv'
<1> SUFFICES ASSUME OutcomeInv, [Next]_vars PROVE OutcomeAgrees' /\ AnswersStand'
  BY InvStep DEF OutcomeInv
<1>1. Inv /\ OutcomeAgrees /\ AnswersStand
  BY DEF OutcomeInv
<1>2. /\ worker \in [Worker -> [op : OperationID \cup {None}, answer : Answer \cup {None}]]
      /\ exec \in [OperationID -> {"unknown", "running", "succeeded", "failed"}]
      /\ DOMAIN operation \subseteq OperationID
      /\ \A o \in DOMAIN operation : operation[o] \in OperationRow
  BY <1>1 DEF Inv, TypeOK, TablesTypeOK, OperationsTypeOK
<1>3. ASSUME UNCHANGED <<operation, worker, exec>> PROVE OutcomeAgrees' /\ AnswersStand'
  BY <1>1, <1>3 DEF OutcomeAgrees, AnswersStand
<1>4. ASSUME NEW o, NEW c, NEW i, Submits(o, c, i) PROVE OutcomeAgrees' /\ AnswersStand'
  <2>1. /\ \E row : row.status = "accepted" /\ operation' = Insert(operation, o, row)
        /\ UNCHANGED <<worker, exec>>
    BY <1>4 DEF Submits, submit
  <2>2. OutcomeAgrees'
    BY <1>1, <2>1 DEF OutcomeAgrees, Insert
  <2>3. QED
    BY <1>1, <2>1, <2>2 DEF AnswersStand
<1>5. ASSUME NEW w \in Worker, Records(w) PROVE OutcomeAgrees' /\ AnswersStand'
  <2> DEFINE o == worker[w].op
             a == worker[w].answer
  <2>1. /\ operation' = [operation EXCEPT ![o].status = Result(a)]
        /\ worker' = [worker EXCEPT ![w] = Idle] /\ UNCHANGED exec
        /\ o # None /\ a \in Answer \ {"malformed"}
    BY <1>5 DEF Records, Record
  <2>2. o \in DOMAIN operation
    BY <1>1, <2>1 DEF Inv, ActiveJobsHeld, ActiveOperation
  <2>3. /\ Result(a) = "succeeded" => exec[o] = "succeeded"
        /\ Result(a) = "failed" => exec[o] \in {"failed", "unknown"}
    BY <1>1, <2>1 DEF AnswersStand, Result, Terminal
  <2>4. OutcomeAgrees'
    BY <1>1, <1>2, <2>1, <2>2, <2>3 DEF OutcomeAgrees
  <2>5. AnswersStand'
    BY <1>1, <1>2, <2>1, OperationsAssumption DEF AnswersStand, Idle, Terminal, Answer
  <2>6. QED
    BY <2>4, <2>5
<1>6. ASSUME NEW w \in Worker, Works(w) PROVE OutcomeAgrees' /\ AnswersStand'
  <2>1. UNCHANGED operation
    BY <1>6, QuietSteps
  <2>2. ASSUME NEW o \in OperationID, Pick(w, o) PROVE OutcomeAgrees' /\ AnswersStand'
    <3>1. worker' = [worker EXCEPT ![w] = [op |-> o, answer |-> None]] /\ UNCHANGED exec
      BY <2>2 DEF Pick
    <3>2. QED
      BY <1>1, <1>2, <2>1, <3>1, OperationsAssumption DEF OutcomeAgrees, AnswersStand, Answer, Terminal
  <2>3. ASSUME Postpone(w) \/ Rollback(w) PROVE OutcomeAgrees' /\ AnswersStand'
    <3>1. worker' = [worker EXCEPT ![w] = Idle] /\ UNCHANGED exec
      BY <2>3 DEF Postpone, Rollback
    <3>2. QED
      BY <1>1, <1>2, <2>1, <3>1, OperationsAssumption
      DEF OutcomeAgrees, AnswersStand, Idle, Answer, Terminal
  <2>4. ASSUME NEW a \in Answer, Reconcile(w, a) PROVE OutcomeAgrees' /\ AnswersStand'
    <3> DEFINE o == worker[w].op
    <3>1. /\ o # None
          /\ \/ /\ a \in {"running", "succeeded", "failed"}
                /\ exec' = [exec EXCEPT ![o] = a]
             \/ a = "rejected" /\ exec[o] = "unknown" /\ UNCHANGED exec
             \/ a = "malformed" /\ UNCHANGED exec
          /\ worker' = [worker EXCEPT ![w].answer = a]
      BY <2>4 DEF Reconcile
    <3>2. ActiveOperation(o) /\ o \in OperationID
      BY <1>1, <1>2, <3>1 DEF Inv, ActiveJobsHeld
    <3>3. OutcomeAgrees'
      BY <1>1, <1>2, <2>1, <3>1, <3>2 DEF OutcomeAgrees, ActiveOperation, Terminal
    <3>4. ASSUME NEW v \in Worker, v # w, worker[v].op # None PROVE exec'[worker[v].op] = exec[worker[v].op]
      BY <1>1, <1>2, <3>1, <3>4 DEF Inv, ActiveJobsHeld
    <3>5. AnswersStand'
      <4> SUFFICES ASSUME NEW v \in Worker
                   PROVE  /\ worker'[v].answer \in Terminal => exec'[worker'[v].op] = worker'[v].answer
                          /\ worker'[v].answer = "rejected" => exec'[worker'[v].op] = "unknown"
                          /\ worker'[v].op = None => worker'[v].answer = None
        BY DEF AnswersStand
      <4>1. CASE v = w
        <5>1. worker'[v].op = o /\ worker'[v].answer = a
          BY <1>2, <3>1, <4>1
        <5>2. a \in Terminal => exec'[o] = a
          BY <1>2, <3>1, <3>2 DEF Terminal
        <5>3. a = "rejected" => exec'[o] = "unknown"
          BY <3>1
        <5>4. QED
          BY <3>1, <5>1, <5>2, <5>3
      <4>2. CASE v # w
        <5>1. worker'[v] = worker[v]
          BY <1>2, <3>1, <4>2
        <5>2. QED
          BY <1>1, <3>4, <4>2, <5>1, OperationsAssumption DEF AnswersStand, Answer, Terminal
      <4>3. QED
        BY <4>1, <4>2
    <3>6. QED
      BY <3>3, <3>5
  <2>5. QED
    BY <1>6, <2>2, <2>3, <2>4 DEF Works
<1>7. ASSUME Admit, UNCHANGED trVars PROVE UNCHANGED <<operation, worker, exec>>
  BY <1>7, QuietSteps DEF Admit, AdmitPreinstalled, RefusePreinstalled
<1>8. ASSUME \/ AcceptTransition \/ AcceptRecovery
             \/ \E c \in Coordinator : commitTransition(c) \/ finishForward(c)
      PROVE  UNCHANGED operation
  <2>1. ASSUME AcceptTransition PROVE UNCHANGED operation
    BY <2>1 DEF AcceptTransition, SubmitTransition
  <2>2. ASSUME AcceptRecovery PROVE UNCHANGED operation
    BY <2>2 DEF AcceptRecovery, acceptForward
  <2>3. ASSUME NEW c \in Coordinator, commitTransition(c) \/ finishForward(c)
        PROVE  UNCHANGED operation
    BY <2>3 DEF commitTransition, finishForward
  <2>4. QED
    BY <1>8, <2>1, <2>2, <2>3
<1>9. UNCHANGED opVars => UNCHANGED <<worker, exec>>
  BY DEF opVars
<1>10. (\E c \in Coordinator : Takes(c) \/ Leaves(c)) \/ UNCHANGED vars => UNCHANGED opVars
  BY DEF Takes, Leaves, vars
<1>11. QED
  BY <1>1, <1>3, <1>4, <1>5, <1>6, <1>7, <1>8, <1>9, <1>10, StepKinds, QuietSteps

(***************************************************************************)
(* Core settles an operation the way Runtime did, through lost replies,    *)
(* retries by other workers and rollbacks of any of them.                  *)
(***************************************************************************)
THEOREM OutcomesAgree == Spec => []OutcomeAgrees
<1>1. Init => OutcomeInv
  BY InitInv, OperationsAssumption DEF Init, OutcomeInv, OutcomeAgrees, AnswersStand, TablesInit,
     OperationsInit, EmptyTable, Idle, Answer, Terminal
<1>2. OutcomeInv => OutcomeAgrees
  BY DEF OutcomeInv
<1>3. QED
  BY <1>1, <1>2, OutcomeStep, PTL DEF Spec

-----------------------------------------------------------------------------
(***************************************************************************)
(* The result of an active operation applies.  Until it is settled nobody  *)
(* else changes its installation, and the drift recovery that admitted it  *)
(* rests on a succeeded transition, which stays.                           *)
(***************************************************************************)
AppliesTo(o) ==
  /\ Applies(o)
  /\ installation[operation[o].installation].state # "removed"
  /\ Recordable(o, operation[o].installation, "succeeded")

LEMMA ProofStands ==
  ASSUME TransitionsStay, NEW i, NEW row, NEW to, NEW action,
         videoInstalledSourceRecovery(i, row, to, action)
  PROVE  videoInstalledSourceRecovery(i, row, to, action)'
<1>1. PICK r \in SourceRecovery :
        /\ r.app = row.app /\ r.installed = row.version /\ r.from = row.release /\ r.to = to
        /\ \/ r.proof = None /\ r.from.version = row.version
           \/ \E t \in DOMAIN transition :
                /\ transition[t].installation = i
                /\ transition[t].action = "upgrade" /\ transition[t].status = "succeeded"
                /\ r.proof = [source |-> transition[t].source, target |-> transition[t].target]
  BY DEF videoInstalledSourceRecovery
<1>2. ASSUME NEW t \in DOMAIN transition,
             transition[t].installation = i,
             transition[t].action = "upgrade", transition[t].status = "succeeded",
             r.proof = [source |-> transition[t].source, target |-> transition[t].target]
      PROVE  \E s \in DOMAIN transition' :
               /\ transition'[s].installation = i
               /\ transition'[s].action = "upgrade" /\ transition'[s].status = "succeeded"
               /\ r.proof = [source |-> transition'[s].source, target |-> transition'[s].target]
  <2>1. /\ t \in DOMAIN transition'
        /\ transition'[t].installation = i
        /\ transition'[t].action = "upgrade" /\ transition'[t].status = "succeeded"
        /\ transition'[t].source = transition[t].source
        /\ transition'[t].target = transition[t].target
    BY <1>2 DEF TransitionsStay
  <2>2. QED
    BY <1>2, <2>1
<1>3. QED
  BY <1>1, <1>2 DEF videoInstalledSourceRecovery

LEMMA ResultSpared ==
  ASSUME OperationsStay, TransitionsStay, NEW o \in DOMAIN operation,
         operation[o].installation \in DOMAIN installation',
         installation'[operation[o].installation] = installation[operation[o].installation],
         AppliesTo(o)
  PROVE  AppliesTo(o)'
<1> DEFINE i == operation[o].installation
           row == installation[i]
<1>1. /\ operation'[o].installation = i /\ installation'[i] = row
      /\ operation'[o].version = operation[o].version
      /\ operation'[o].action = operation[o].action
      /\ operation'[o].kind = operation[o].kind
      /\ operation'[o].release = operation[o].release
  BY DEF OperationsStay
<1>2. Applies(o)' /\ installation'[operation'[o].installation].state # "removed"
  BY <1>1 DEF AppliesTo, Applies
<1>3. ASSUME VersionMoves(o, row, "succeeded")', ~IsUpgrade(o, row)'
      PROVE  /\ legacyVersionAdoption(operation[o].kind = "preinstalled", operation[o].action,
                                      row.state, FALSE)
             /\ row.release # None =>
                  videoInstalledSourceRecovery(i, row, operation[o].release, operation[o].action)
  BY <1>1, <1>3 DEF AppliesTo, Recordable, VersionMoves, IsUpgrade
<1>4. QED
  BY <1>1, <1>2, <1>3, ProofStands DEF AppliesTo, Recordable

(***************************************************************************)
(* A submission leaves a row that accepts its success: reserveInstallation *)
(* admits the same version changes that recordInstallationProgress does.   *)
(***************************************************************************)
LEMMA BoundRowKeeps ==
  ASSUME NEW c, NEW o, NEW row \in InstallationRow
  PROVE  /\ BoundRow(c, o, row).lastOp = o
         /\ BoundRow(c, o, row).app = row.app
         /\ BoundRow(c, o, row).version = row.version
         /\ BoundRow(c, o, row).state = row.state
         /\ row.version # c.version => BoundRow(c, o, row).release = row.release
<1>1. PICK release : release = IF BindsNow(c, row) THEN c.release ELSE row.release
  OBVIOUS
<1>2. BoundRow(c, o, row) = [row EXCEPT !.lastOp = o, !.revision = row.revision + 1,
                                        !.release = release]
  BY <1>1 DEF BoundRow
<1>3. row.version # c.version => release = row.release
  BY <1>1 DEF BindsNow
<1>4. QED
  BY <1>2, <1>3 DEF InstallationRow

LEMMA SubmissionApplies ==
  ASSUME Inv, NEW o, NEW c, NEW i, Submits(o, c, i), i # None, TransitionsStay
  PROVE  AppliesTo(o)'
<1> DEFINE row == ReservedRow(c, i)
           new == BoundRow(c, o, row)
<1>1. /\ o \in OperationID /\ c \in Command /\ i \in InstallationID
      /\ reserveInstallation(c, i)
      /\ installation' = Insert(installation, i, new)
      /\ \E x : operation' = Insert(operation, o, x)
      /\ operation'[o].installation = i /\ operation'[o].version = c.version
      /\ operation'[o].action = c.action /\ operation'[o].kind = c.kind
      /\ operation'[o].release = c.release
  BY DEF Submits, NewID, submit, Insert
<1>2. row \in InstallationRow
  <2>1. CASE i \in DOMAIN installation
    BY <2>1 DEF ReservedRow, Inv, TypeOK, TablesTypeOK
  <2>2. CASE i \notin DOMAIN installation
    <3>1. OrgOf[c.user] \in Org
      BY <1>1, InstallationsAssumption DEF Command
    <3>2. QED
      BY <1>1, <2>2, <3>1 DEF ReservedRow, PendingRow, Command, InstallationRow
  <2>3. QED
    BY <2>1, <2>2
<1>3. /\ new.lastOp = o /\ new.app = row.app /\ new.version = row.version /\ new.state = row.state
      /\ row.version # c.version => new.release = row.release
  BY <1>2, BoundRowKeeps
<1>4. i \in DOMAIN installation' /\ installation'[i] = new
  BY <1>1 DEF Insert
<1>5. \/ i \in Current(c.app) /\ Reusable(c, i) /\ row = installation[i]
      \/ row.state = "pending" /\ row.version = c.version
  <2>1. CASE i \in Current(c.app) /\ Reusable(c, i)
    BY <2>1 DEF Current, ReservedRow
  <2>2. CASE Fresh(i, installation)
    <3>1. row = PendingRow(c)
      BY <2>2 DEF Fresh, ReservedRow
    <3>2. QED
      BY <3>1 DEF PendingRow
  <2>3. QED
    BY <1>1, <2>1, <2>2 DEF reserveInstallation
<1>6. row.state # "removed"
  BY <1>5 DEF Current
<1> HIDE DEF new, row
<1>7. Applies(o)' /\ installation'[operation'[o].installation].state # "removed"
  BY <1>1, <1>3, <1>4, <1>6 DEF Applies
<1>8. ASSUME row.version # c.version
      PROVE  \/ c.action = "upgrade" /\ row.state = "installed" /\ c.kind # "preinstalled"
             \/ /\ c.kind = "preinstalled" /\ c.action = "adopt" /\ row.state = "installed"
                /\ row.release # None => videoInstalledSourceRecovery(i, row, c.release, c.action)
  <2>1. Reusable(c, i) /\ row = installation[i]
    BY <1>5, <1>8
  <2>2. QED
    BY <1>8, <2>1 DEF Reusable, legacyVersionAdoption, videoInstalledSourceRecovery
<1>9. \A release, x : videoInstalledSourceRecovery(i, row, release, x) =>
        (row.version # c.version => videoInstalledSourceRecovery(i, new, release, x))
  BY <1>3 DEF videoInstalledSourceRecovery
<1>10. ASSUME new.version # c.version
       PROVE  \/ c.action = "upgrade" /\ new.state = "installed" /\ c.kind # "preinstalled"
              \/ /\ c.kind = "preinstalled" /\ c.action = "adopt" /\ new.state = "installed"
                 /\ new.release # None =>
                      videoInstalledSourceRecovery(i, new, c.release, c.action)
  BY <1>3, <1>8, <1>9, <1>10
<1>11. PICK fixed : fixed = new
  OBVIOUS
<1>12. videoInstalledSourceRecovery(i, fixed, c.release, c.action) =>
         videoInstalledSourceRecovery(i, fixed, c.release, c.action)'
  BY ProofStands
<1>13. Recordable(o, operation[o].installation, "succeeded")'
  BY <1>1, <1>4, <1>10, <1>11, <1>12
  DEF Recordable, VersionMoves, IsUpgrade, legacyVersionAdoption
<1>14. QED
  BY <1>7, <1>13 DEF AppliesTo

(***************************************************************************)
(* While an operation is active, no step changes its installation.         *)
(***************************************************************************)
LEMMA OperationSpared ==
  ASSUME TransitionsInv, [Next]_vars, NEW o \in DOMAIN operation,
         ActiveOperation(o), ActiveOperation(o)', operation[o].installation # None
  PROVE  /\ operation[o].installation \in DOMAIN installation'
         /\ installation'[operation[o].installation] = installation[operation[o].installation]
<1> DEFINE j == operation[o].installation
<1>1. Inv
  BY DEF TransitionsInv
<1>2. j \in DOMAIN installation /\ installation[j].app = operation[o].app
  BY <1>1 DEF Inv, SameOrganization
<1>3. j \in DOMAIN installation'
  BY <1>1, <1>2, RevisionRaised DEF RevisionStep
<1>4. ASSUME NEW q, NEW c, NEW i, Submits(q, c, i) PROVE installation'[j] = installation[j]
  <2>1. ~OperationBusy(c.app) /\ reserveInstallation(c, i)
    BY <1>4 DEF Submits, submit
  <2>2. operation[o].app # c.app
    BY <2>1 DEF OperationBusy
  <2>3. j # i
    BY <1>2, <2>1, <2>2, NoneIsNoRow DEF reserveInstallation, Current, Fresh
  <2>4. installation' = installation \/ \E row : installation' = Insert(installation, i, row)
    BY <1>4 DEF Submits, submit
  <2>5. QED
    BY <1>2, <2>3, <2>4 DEF Insert
<1>5. ASSUME NEW w \in Worker, Records(w) PROVE installation'[j] = installation[j]
  <2> DEFINE q == worker[w].op
             result == Result(worker[w].answer)
  <2>1. q \in DOMAIN operation /\ ActiveOperation(q)
    BY <1>1, <1>5 DEF Records, Record, Inv, ActiveJobsHeld, ActiveOperation
  <2>2. CASE q # o
    <3>1. operation[q].app # operation[o].app
      BY <1>1, <2>1, <2>2 DEF Inv, OneActiveJob
    <3>2. QED
      BY <1>1, <1>2, <1>5, <3>1, RecordSpares
  <2>3. CASE q = o
    <3>1. /\ operation' = [operation EXCEPT ![o].status = result]
          /\ worker[w].answer \in Answer \ {"malformed"}
      BY <1>5, <2>3 DEF Records, Record
    <3>2. operation'[o].status = result
      BY <1>1, <3>1 DEF Inv, TypeOK, TablesTypeOK, OperationRow
    <3>3. result \notin Terminal
      BY <3>2 DEF ActiveOperation
    <3>4. result = "running"
      BY <3>1, <3>3 DEF Result, Answer, Terminal
    <3> HIDE DEF result
    <3>5. ProgressRow(o, installation[j], result) = installation[j]
      BY <3>4 DEF ProgressRow, VersionMoves, installationState
    <3>6. \/ installation' = installation
          \/ installation' = [installation EXCEPT ![j] = ProgressRow(o, installation[j], result)]
      BY <1>5, <2>3 DEF Records, Record, recordInstallationProgress, result
    <3>7. QED
      BY <1>2, <3>5, <3>6
  <2>4. QED
    BY <2>2, <2>3
<1>6. ASSUME AcceptTransition \/ AcceptRecovery PROVE UNCHANGED installation
  <2>1. ASSUME AcceptTransition PROVE UNCHANGED installation
    BY <2>1 DEF AcceptTransition, SubmitTransition
  <2>2. ASSUME AcceptRecovery PROVE UNCHANGED installation
    BY <2>2 DEF AcceptRecovery, acceptForward
  <2>3. QED
    BY <1>6, <2>1, <2>2
<1>7. ASSUME NEW c \in Coordinator, commitTransition(c) \/ finishForward(c)
      PROVE  installation'[j] = installation[j]
  <2> DEFINE t == coord[c].transition
  <2>1. /\ t \in Active
        /\ \A k \in DOMAIN installation :
             k # transition[t].installation => installation'[k] = installation[k]
    BY <1>1, <1>7, CommitMoves, FinishMoves DEF TransitionsInv
  <2>2. QED
    BY <1>1, <1>2, <2>1, JobsApart
<1>8. QED
  BY <1>1, <1>3, <1>4, <1>5, <1>6, <1>7, StepKinds, QuietSteps

ResultsInv == TransitionsInv /\ ResultApplies

LEMMA ResultsStep == ResultsInv /\ [Next]_vars => ResultsInv'
<1> SUFFICES ASSUME ResultsInv, [Next]_vars,
                    NEW o \in DOMAIN operation', ActiveOperation(o)',
                    operation'[o].installation # None
             PROVE  AppliesTo(o)'
  BY TransitionsStep DEF ResultsInv, ResultApplies, AppliesTo
<1>1. TransitionsInv /\ ResultApplies /\ Inv
  BY DEF ResultsInv, TransitionsInv
<1>2. OperationsStay /\ TransitionsStay
  BY <1>1, RowsStayForEver DEF RowsStay
<1>3. CASE o \in DOMAIN operation
  <2>1. ActiveOperation(o) /\ operation[o].installation # None
    BY <1>2, <1>3 DEF ActiveOperation, OperationsStay
  <2>2. AppliesTo(o)
    BY <1>1, <1>3, <2>1 DEF ResultApplies, AppliesTo
  <2>3. QED
    BY <1>1, <1>2, <1>3, <2>1, <2>2, OperationSpared, ResultSpared
<1>4. CASE o \notin DOMAIN operation
  <2>1. PICK q, c, i : Submits(q, c, i)
    <3>1. ASSUME NEW w \in Worker, Records(w) PROVE DOMAIN operation' = DOMAIN operation
      BY <3>1 DEF Records, Record
    <3>2. ASSUME AcceptTransition PROVE UNCHANGED operation
      BY <3>2 DEF AcceptTransition, SubmitTransition
    <3>3. ASSUME AcceptRecovery PROVE UNCHANGED operation
      BY <3>3 DEF AcceptRecovery, acceptForward
    <3>4. ASSUME NEW c \in Coordinator, commitTransition(c) \/ finishForward(c)
          PROVE  UNCHANGED operation
      BY <3>4 DEF commitTransition, finishForward
    <3>5. QED
      BY <1>1, <1>4, <3>1, <3>2, <3>3, <3>4, StepKinds, QuietSteps
  <2>2. q = o /\ operation'[o].installation = i
    BY <1>4, <2>1 DEF Submits, submit, Insert
  <2>3. QED
    BY <1>1, <1>2, <2>1, <2>2, SubmissionApplies
<1>5. QED
  BY <1>3, <1>4

(***************************************************************************)
(* The result of an active operation is never dropped (the ErrNoRows       *)
(* return of recordInstallationProgress) or refused (its Conflict return,  *)
(* after which the operation would head the queue for ever), whatever is   *)
(* submitted, dispatched or recovered meanwhile.                           *)
(***************************************************************************)
THEOREM ResultsApply == Spec => []ResultApplies
<1>1. Init => ResultsInv
  BY TransitionsInitially DEF Init, TablesInit, EmptyTable, ResultsInv, ResultApplies
<1>2. ResultsInv => ResultApplies
  BY DEF ResultsInv
<1>3. QED
  BY <1>1, <1>2, ResultsStep, PTL DEF Spec

-----------------------------------------------------------------------------
(***************************************************************************)
(* The version of an installed application was confirmed by Runtime.       *)
(* Evidence only accumulates.                                              *)
(***************************************************************************)
LEMMA EvidenceIs ==
  ASSUME NEW i, NEW v
  PROVE  v \in Evidence(i) <=>
           \/ \E o \in DOMAIN operation :
                /\ operation[o].installation = i /\ operation[o].status = "succeeded"
                /\ operation[o].action # "delete" /\ operation[o].version = v
           \/ \E t \in DOMAIN transition :
                transition[t].installation = i /\ Published(t) /\ transition[t].target.version = v
           \/ \E r \in DOMAIN recovery :
                /\ transition[recovery[r].transition].installation = i
                /\ recovery[r].state = "succeeded" /\ recovery[r].target.version = v
BY DEF Evidence, Published

LEMMA EvidenceStays ==
  ASSUME TransitionsInv, RowsStay, NEW i, NEW v, v \in Evidence(i)
  PROVE  v \in Evidence(i)'
<1>1. OperationsStay /\ TransitionsStay /\ RecoveriesStay /\ audit \subseteq audit'
  BY DEF RowsStay
<1>2. ASSUME NEW o \in DOMAIN operation,
             operation[o].installation = i, operation[o].status = "succeeded",
             operation[o].action # "delete", operation[o].version = v
      PROVE  v \in Evidence(i)'
  <2>1. /\ o \in DOMAIN operation'
        /\ operation'[o].installation = i /\ operation'[o].status = "succeeded"
        /\ operation'[o].action # "delete" /\ operation'[o].version = v
    BY <1>1, <1>2 DEF OperationsStay, Terminal
  <2>2. QED
    BY <2>1 DEF Evidence
<1>3. ASSUME NEW t \in DOMAIN transition,
             transition[t].installation = i, Published(t), transition[t].target.version = v
      PROVE  v \in Evidence(i)'
  <2>1. /\ t \in DOMAIN transition' /\ <<"transition", t, "published">> \in audit'
        /\ transition'[t].installation = i /\ transition'[t].target.version = v
    BY <1>1, <1>3 DEF TransitionsStay, Published
  <2>2. QED
    BY <2>1 DEF Evidence
<1>4. ASSUME NEW r \in DOMAIN recovery, transition[recovery[r].transition].installation = i,
             recovery[r].state = "succeeded", recovery[r].target.version = v
      PROVE  v \in Evidence(i)'
  <2>1. recovery[r].transition \in DOMAIN transition
    BY <1>4 DEF TransitionsInv, Inv, Linked
  <2>2. /\ r \in DOMAIN recovery' /\ transition'[recovery'[r].transition].installation = i
        /\ recovery'[r].state = "succeeded" /\ recovery'[r].target.version = v
    BY <1>1, <1>4, <2>1 DEF RecoveriesStay, TransitionsStay
  <2>3. QED
    BY <2>2 DEF Evidence
<1>5. QED
  BY <1>2, <1>3, <1>4, EvidenceIs

ConfirmedInv == TransitionsInv /\ InstalledVersionConfirmed

LEMMA ConfirmedStep == ConfirmedInv /\ [Next]_vars => ConfirmedInv'
<1> SUFFICES ASSUME ConfirmedInv, [Next]_vars,
                    NEW j \in DOMAIN installation', installation'[j].state = "installed"
             PROVE  installation'[j].version \in Evidence(j)'
  BY TransitionsStep DEF ConfirmedInv, InstalledVersionConfirmed
<1>1. TransitionsInv /\ Inv /\ InstalledVersionConfirmed /\ RowsStay
  BY RowsStayForEver DEF ConfirmedInv, TransitionsInv
<1>2. ASSUME j \in DOMAIN installation, installation'[j].state = installation[j].state,
             installation'[j].version = installation[j].version
      PROVE  installation'[j].version \in Evidence(j)'
  <2>1. PICK v : v = installation[j].version
    OBVIOUS
  <2>2. v \in Evidence(j)
    BY <1>1, <1>2, <2>1 DEF InstalledVersionConfirmed
  <2>3. QED
    BY <1>1, <1>2, <2>1, <2>2, EvidenceStays
<1>3. ASSUME UNCHANGED installation PROVE installation'[j].version \in Evidence(j)'
  BY <1>2, <1>3
<1>4. ASSUME NEW o, NEW c, NEW i, Submits(o, c, i) PROVE installation'[j].version \in Evidence(j)'
  <2> DEFINE row == ReservedRow(c, i)
  <2>1. CASE j \in DOMAIN installation /\ j # i
    <3>1. installation'[j] = installation[j]
      BY <1>4, <2>1 DEF Submits, submit, Insert
    <3>2. QED
      BY <1>2, <2>1, <3>1
  <2>2. CASE j = i
    <3>1. i # None
      BY <1>1, <2>2, NoneIsNoRow, InvStep DEF Inv, TypeOK, TablesTypeOK
    <3>2. installation'[i] = BoundRow(c, o, row) /\ c \in Command /\ i \in InstallationID
      BY <1>4, <3>1 DEF Submits, submit, Insert
    <3>3. CASE i \in DOMAIN installation
      <4>1. row = installation[i] /\ row \in InstallationRow
        BY <1>1, <3>3 DEF ReservedRow, Inv, TypeOK, TablesTypeOK
      <4>2. QED
        BY <1>2, <2>2, <3>2, <3>3, <4>1, BoundRowKeeps
    <3>4. CASE i \notin DOMAIN installation
      <4>1. OrgOf[c.user] \in Org
        BY <3>2, InstallationsAssumption DEF Command
      <4>2. row \in InstallationRow /\ row.state = "pending"
        BY <3>2, <3>4, <4>1 DEF ReservedRow, PendingRow, Command, InstallationRow
      <4>3. QED
        BY <2>2, <3>2, <4>2, BoundRowKeeps
    <3>5. QED
      BY <3>3, <3>4
  <2>3. j \in DOMAIN installation \cup {i}
    BY <1>4 DEF Submits, submit, Insert
  <2>4. QED
    BY <2>1, <2>2, <2>3
<1>5. ASSUME NEW w \in Worker, Records(w) PROVE installation'[j].version \in Evidence(j)'
  <2>1. PICK o, a : o = worker[w].op /\ a = worker[w].answer
    OBVIOUS
  <2>2. PICK i : i = operation[o].installation
    OBVIOUS
  <2>3. /\ o \in DOMAIN operation /\ operation[o] \in OperationRow
        /\ operation' = [operation EXCEPT ![o].status = Result(a)]
        /\ recordInstallationProgress(o, Result(a))
    BY <1>1, <1>5, <2>1 DEF Records, Record, Inv, ActiveJobsHeld, ActiveOperation, TypeOK, TablesTypeOK
  <2>4. CASE Applies(o) /\ j = i
    <3>1. /\ i \in DOMAIN installation /\ installation[i] \in InstallationRow
          /\ Recordable(o, i, Result(a))
          /\ installation'[i] = ProgressRow(o, installation[i], Result(a))
      BY <1>1, <2>2, <2>3, <2>4 DEF Applies, recordInstallationProgress, Inv, TypeOK, TablesTypeOK
    <3>2. CASE Result(a) = "succeeded" /\ operation[o].action # "delete"
               /\ installation'[i].version = operation[o].version
      <4>1. /\ o \in DOMAIN operation'
            /\ operation'[o].installation = i /\ operation'[o].status = "succeeded"
            /\ operation'[o].action # "delete" /\ operation'[o].version = operation[o].version
        BY <2>2, <2>3, <3>2 DEF OperationRow
      <4>2. QED
        BY <2>4, <3>2, <4>1 DEF Evidence
    <3>3. CASE installation'[i].state = installation[i].state
               /\ installation'[i].version = installation[i].version
      BY <1>2, <2>4, <3>1, <3>3
    <3>4. \/ /\ Result(a) = "succeeded" /\ operation[o].action # "delete"
             /\ installation'[i].version = operation[o].version
          \/ /\ installation'[i].state = installation[i].state
             /\ installation'[i].version = installation[i].version
      <4> DEFINE row == installation[i]
                 next == installationState(row.state, operation[o].action, Result(a))
      <4>1. CASE VersionMoves(o, row, Result(a))
        <5>1. Result(a) = "succeeded" /\ operation[o].action # "delete"
          BY <3>1, <4>1 DEF Recordable, VersionMoves, IsUpgrade, legacyVersionAdoption
        <5>2. \/ installation'[i] = [row EXCEPT !.version = operation[o].version, !.revision = row.revision + 1]
              \/ installation'[i] = [row EXCEPT !.version = operation[o].version, !.revision = row.revision + 1,
                                                !.release = operation[o].release]
          BY <3>1, <4>1 DEF ProgressRow
        <5>3. installation'[i].version = operation[o].version
          BY <3>1, <5>2 DEF InstallationRow
        <5>4. QED
          BY <5>1, <5>3
      <4>2. CASE ~VersionMoves(o, row, Result(a)) /\ next # row.state
        <5>1. installation'[i] = [row EXCEPT !.state = next, !.revision = row.revision + 1]
          BY <3>1, <4>2 DEF ProgressRow
        <5>2. installation'[i].state = next /\ installation'[i].version = row.version
          BY <3>1, <5>1 DEF InstallationRow
        <5>3. next = "installed"
          BY <2>4, <5>2
        <5>4. Result(a) = "succeeded" /\ operation[o].action # "delete"
          BY <4>2, <5>3 DEF installationState
        <5>5. QED
          BY <4>2, <5>2, <5>4 DEF VersionMoves
      <4>3. CASE ~VersionMoves(o, row, Result(a)) /\ next = row.state
        BY <3>1, <4>3 DEF ProgressRow
      <4>4. QED
        BY <4>1, <4>2, <4>3
    <3>5. QED
      BY <3>2, <3>3, <3>4
  <2>5. CASE ~(Applies(o) /\ j = i)
    <3>1. j \in DOMAIN installation /\ installation'[j] = installation[j]
      BY <2>2, <2>3, <2>5 DEF recordInstallationProgress
    <3>2. QED
      BY <1>2, <3>1
  <2>6. QED
    BY <2>4, <2>5
<1>6. ASSUME AcceptTransition \/ AcceptRecovery PROVE UNCHANGED installation
  <2>1. ASSUME AcceptTransition PROVE UNCHANGED installation
    BY <2>1 DEF AcceptTransition, SubmitTransition
  <2>2. ASSUME AcceptRecovery PROVE UNCHANGED installation
    BY <2>2 DEF AcceptRecovery, acceptForward
  <2>3. QED
    BY <1>6, <2>1, <2>2
<1>7. ASSUME NEW c \in Coordinator, commitTransition(c)
      PROVE  installation'[j].version \in Evidence(j)'
  <2>1. PICK t, i : t = coord[c].transition /\ i = transition[t].installation
    OBVIOUS
  <2>2. /\ t \in Active /\ i \in DOMAIN installation /\ DOMAIN installation' = DOMAIN installation
        /\ \A k \in DOMAIN installation : k # i => installation'[k] = installation[k]
        /\ \E out \in Outcomes(coord[c]) :
             /\ installation'[i] =
                  IF out.version = None THEN installation[i]
                  ELSE [installation[i] EXCEPT !.version = out.version,
                                               !.revision = installation[i].revision + 1]
             /\ audit' = audit \cup Events(t, transition[t], out)
    BY <1>1, <1>7, <2>1, CommitMoves DEF TransitionsInv
  <2>3. CASE j # i
    BY <1>2, <2>2, <2>3
  <2>4. CASE j = i /\ installation'[i] = installation[i]
    BY <1>2, <2>2, <2>4
  <2>5. CASE j = i /\ installation'[i] # installation[i]
    <3>1. t \in DOMAIN transition /\ t \in TransitionID /\ installation[i] \in InstallationRow
      BY <1>1, <2>2 DEF Active, Inv, TypeOK, TablesTypeOK
    <3>2. /\ coord[c] \in DispatchRecord /\ coord[c].prior = transition[t]
          /\ coord[c].installed = installation[i]
          /\ coord[c] # None /\ coord[c].mode # "verify_forward"
      BY <1>1, <1>7, <2>1, CommitMoves DEF TransitionsInv
    <3>3. coord[c].mode = StepMode(coord[c].prior, coord[c].installed)
      BY <1>1, <3>2 DEF TransitionsInv, ModeFits
    <3>4. /\ transition[t].phase # "completed"
          /\ transition[t].source.version # transition[t].target.version
      BY <1>1, <2>2, <3>1 DEF TransitionsInv, PhaseFits, Active, ActiveTransition
    <3>5. \/ InstalledAs(transition[t], installation[i]) = "original"
          \/ InstalledAs(transition[t], installation[i]) = "target" /\ transition[t].phase = "releasing"
      BY <1>1, <2>1, <2>2 DEF TransitionsInv, TransitionOwnsInstallation
    <3>6. \A out \in Outcomes(coord[c]) : OutcomeFits(out, coord[c])
      BY <3>2, <3>3, <3>4, <3>5, OutcomeCases
    <3>7. PICK out \in Outcomes(coord[c]) :
            /\ out.version # None
            /\ installation'[i] = [installation[i] EXCEPT !.version = out.version,
                                                          !.revision = installation[i].revision + 1]
            /\ audit' = audit \cup Events(t, transition[t], out)
      BY <2>2, <2>5
    <3>8. out.version = transition[t].target.version
      BY <3>2, <3>6, <3>7 DEF OutcomeFits
    <3>9. <<"transition", t, "published">> \in Events(t, transition[t], out)
      BY <3>4, <3>7, <3>8 DEF Events
    <3>10. installation'[i].version = transition[t].target.version
      BY <3>1, <3>7, <3>8 DEF InstallationRow
    <3>11. /\ t \in DOMAIN transition' /\ transition'[t].installation = i
           /\ transition'[t].target = transition[t].target
      BY <1>1, <2>1, <3>1 DEF RowsStay, TransitionsStay
    <3>12. QED
      BY <2>5, <3>7, <3>9, <3>10, <3>11 DEF Evidence
  <2>6. QED
    BY <2>3, <2>4, <2>5
<1>8. ASSUME NEW c \in Coordinator, finishForward(c)
      PROVE  installation'[j].version \in Evidence(j)'
  <2>1. PICK t, i, r : t = coord[c].transition /\ i = transition[t].installation /\ r = coord[c].recovery
    OBVIOUS
  <2>2. /\ i \in DOMAIN installation /\ DOMAIN installation' = DOMAIN installation
        /\ t \in Active
        /\ r \in DOMAIN recovery /\ recovery[r].transition = t
        /\ \A k \in DOMAIN installation : k # i => installation'[k] = installation[k]
        /\ \/ UNCHANGED installation
           \/ /\ installation'[i] =
                   [installation[i] EXCEPT !.version = recovery[r].target.version,
                                           !.revision = installation[i].revision + 1]
              /\ recovery' = [recovery EXCEPT ![r].state = "succeeded"]
    BY <1>1, <1>8, <2>1, FinishMoves
  <2>3. CASE j # i \/ UNCHANGED installation
    BY <1>2, <2>2, <2>3
  <2>4. CASE /\ j = i
             /\ installation'[i] =
                  [installation[i] EXCEPT !.version = recovery[r].target.version,
                                          !.revision = installation[i].revision + 1]
             /\ recovery' = [recovery EXCEPT ![r].state = "succeeded"]
    <3>1. installation'[i].version = recovery[r].target.version
      BY <1>1, <2>2, <2>4 DEF Inv, TypeOK, TablesTypeOK, InstallationRow
    <3>2. /\ r \in DOMAIN recovery' /\ recovery'[r].state = "succeeded"
          /\ recovery'[r].target = recovery[r].target /\ recovery'[r].transition = t
      BY <1>1, <2>2, <2>4 DEF Inv, TypeOK, TransitionsTypeOK, RecoveryRow
    <3>3. transition'[t].installation = i
      BY <1>1, <2>1, <2>2 DEF RowsStay, TransitionsStay, Active
    <3>4. r \in {s \in DOMAIN recovery' : /\ transition'[recovery'[s].transition].installation = i
                                            /\ recovery'[s].state = "succeeded"}
      BY <3>2, <3>3
    <3>5. recovery'[r].target.version \in Evidence(i)'
      BY <3>4 DEF Evidence
    <3>6. QED
      BY <2>4, <3>1, <3>2, <3>5
  <2>5. QED
    BY <2>2, <2>3, <2>4
<1>9. QED
  BY <1>1, <1>3, <1>4, <1>5, <1>6, <1>7, <1>8, StepKinds, QuietSteps

(***************************************************************************)
(* The version of an installed application is always one that Runtime      *)
(* confirmed for this very installation: by an operation that succeeded, a *)
(* published transition or a verified forward recovery.  A failed upgrade, *)
(* a restored transition or a bound release never leaves its version.      *)
(***************************************************************************)
THEOREM InstalledVersionsAreConfirmed == Spec => []InstalledVersionConfirmed
<1>1. Init => ConfirmedInv
  BY TransitionsInitially DEF Init, TablesInit, EmptyTable, ConfirmedInv, InstalledVersionConfirmed
<1>2. ConfirmedInv => InstalledVersionConfirmed
  BY DEF ConfirmedInv
<1>3. QED
  BY <1>1, <1>2, ConfirmedStep, PTL DEF Spec

-----------------------------------------------------------------------------
(***************************************************************************)
(* Core and Runtime stay in step about a managed transition: whatever      *)
(* replies are lost and however late a request is executed, Runtime's      *)
(* journal is in a phase that Core's phase allows for.                     *)
(***************************************************************************)

(***************************************************************************)
(* What Runtime's journal may hold when Core's row is in a phase.  It can  *)
(* be ahead of Core by the requests whose answers were lost, never behind  *)
(* the last answer that Core committed.                                    *)
(***************************************************************************)
JournalOf(phase, status, published) ==
  CASE phase = "accepted"   -> {"none"}
    [] phase = "checking"   -> {"none", "checking", "sealing", "applying", "verifying", "prepared",
                                "rejected", "recovery_required"}
    [] phase = "sealing"    -> {"sealing", "applying", "verifying", "prepared", "rejected",
                                "recovery_required"}
    [] phase = "applying"   -> {"applying", "verifying", "prepared", "recovery_required"}
    [] phase = "verifying"  -> {"verifying", "prepared", "recovery_required"}
    [] phase = "publishing" -> {"prepared", "recovery_required"}
    [] phase = "releasing"  -> IF published THEN {"prepared", "releasing_target", "released_target"}
                               ELSE {"restored", "releasing_source", "released_source"}
    [] phase \in {"recovery_required", "restoring"} ->
         {"recovery_required", "restoring", "restored", "forwarded"}
    [] phase = "completed"  -> IF status = "succeeded" THEN {"released_target"}
                               ELSE {"rejected", "released_source", "forwarded"}

(***************************************************************************)
(* The requests Core sends in a phase, and those it may have sent and      *)
(* abandoned in this phase or an earlier one.                              *)
(***************************************************************************)
Sends(mode, phase, published) ==
  /\ mode = "prepare" => phase \in {"checking", "sealing", "applying", "verifying", "publishing"}
  /\ mode = "restore" => phase = "restoring"
  /\ mode = "release_source" => phase = "releasing" /\ ~published
  /\ mode = "release_target" => phase = "releasing" /\ published

Sent(mode, phase, published) ==
  /\ mode = "prepare" => phase # "accepted"
  /\ mode = "restore" => \/ phase \in {"restoring", "recovery_required", "completed"}
                         \/ phase = "releasing" /\ ~published
  /\ mode = "release_source" => phase = "completed" \/ (phase = "releasing" /\ ~published)
  /\ mode = "release_target" => published

(***************************************************************************)
(* Where the journal can be when an answer arrives: Runtime may execute    *)
(* other requests, sent earlier, between its answer and Core's commit.     *)
(***************************************************************************)
Stage == {"checking", "sealing", "applying", "verifying"}

Possible(mode, a) ==
  CASE mode = "prepare" ->
         (IF a \in {"prepared", "rejected", "recovery_required"} THEN {a}
          ELSE IF a \in Stage
          THEN Ahead(a) \cup {"recovery_required"}
                 \cup (IF a \in {"checking", "sealing"} THEN {"rejected"} ELSE {})
          ELSE {})
    [] mode = "restore" ->
         (IF a = "restored" THEN {"restored"}
          ELSE IF a \in {"restoring", "recovery_required"}
          THEN {"recovery_required", "restoring", "restored"} ELSE {})
    [] mode = "release_source" ->
         (IF a = "released" THEN {"released_source"}
          ELSE IF a = "releasing" THEN {"releasing_source", "released_source"} ELSE {})
    [] mode = "release_target" ->
         (IF a = "released" THEN {"released_target"}
          ELSE IF a = "releasing" THEN {"releasing_target", "released_target"} ELSE {})
    [] OTHER -> {}

Calls == {"prepare", "restore", "release_source", "release_target"}

-----------------------------------------------------------------------------
(***************************************************************************)
(* A request that Runtime executes, in time or late, leaves the journal    *)
(* where Core's phase allows for.                                          *)
(***************************************************************************)
LEMMA JournalStepFits ==
  ASSUME NEW phase \in TransitionPhase \ {"completed"}, NEW status, NEW published \in BOOLEAN,
         published => phase = "releasing", NEW mode \in Calls, NEW live \in BOOLEAN,
         IF live THEN Sends(mode, phase, published) ELSE Sent(mode, phase, published),
         NEW j \in JournalOf(phase, status, published), NEW p \in JournalStep(mode, j, live)
  PROVE  p \in JournalOf(phase, status, published) /\ p # "forwarded" /\ j # "forwarded"
<1>1. CASE mode = "prepare"
  <2>1. p \in Ahead(j) \cup (IF j \in {"none", "checking", "sealing", "rejected"} THEN {"rejected"} ELSE {})
               \cup (IF j \in {"checking", "sealing", "applying", "verifying", "recovery_required"}
                        \/ (j = "prepared" /\ live)
                     THEN {"recovery_required"} ELSE {})
    BY <1>1 DEF JournalStep
  <2>2. CASE phase \in {"checking", "sealing", "applying", "verifying", "publishing"}
    BY <2>1, <2>2 DEF JournalOf, Ahead
  <2>3. CASE phase = "releasing"
    BY <1>1, <2>1, <2>3 DEF JournalOf, Ahead, Sends
  <2>4. CASE phase \in {"recovery_required", "restoring"}
    BY <2>1, <2>4 DEF JournalOf, Ahead
  <2>5. phase # "accepted"
    BY <1>1 DEF Sends, Sent
  <2>6. QED
    BY <2>2, <2>3, <2>4, <2>5 DEF TransitionPhase
<1>2. CASE mode = "restore"
  <2>1. p \in IF j \in {"recovery_required", "restoring"}
              THEN {"restoring", "restored", "recovery_required"}
              ELSE IF j = "restored" THEN {"restored"} ELSE {}
    BY <1>2 DEF JournalStep
  <2>2. CASE phase \in {"recovery_required", "restoring"}
    BY <2>1, <2>2 DEF JournalOf
  <2>3. CASE phase = "releasing" /\ ~published
    BY <2>1, <2>3 DEF JournalOf
  <2>4. QED
    BY <1>2, <2>2, <2>3 DEF Sends, Sent
<1>3. CASE mode = "release_source"
  <2>1. phase = "releasing" /\ ~published
    BY <1>3 DEF Sends, Sent
  <2>2. QED
    BY <1>3, <2>1 DEF JournalOf, JournalStep
<1>4. CASE mode = "release_target"
  <2>1. p \in IF j \in {"prepared", "releasing_target"} THEN {"releasing_target", "released_target"}
              ELSE IF j = "released_target" THEN {j} ELSE {}
    BY <1>4 DEF JournalStep
  <2>2. phase = "releasing" /\ published
    BY <1>4 DEF Sends, Sent
  <2>3. QED
    BY <2>1, <2>2 DEF JournalOf
<1>5. QED
  BY <1>1, <1>2, <1>3, <1>4 DEF Calls

(***************************************************************************)
(* The answer to a request is one that its outcome can be committed for.   *)
(***************************************************************************)
LEMMA AnswerPossible ==
  ASSUME NEW mode \in Calls, NEW j \in JournalPhase, NEW live, NEW p \in JournalStep(mode, j, live)
  PROVE  p \in Possible(mode, AnswerOf(p))
<1>1. CASE mode = "prepare"
  <2>1. p \in {"checking", "sealing", "applying", "verifying", "prepared", "rejected",
               "recovery_required"}
    BY <1>1 DEF JournalStep, Ahead
  <2>2. AnswerOf(p) = p
    BY <2>1 DEF AnswerOf
  <2>3. p \in Stage => p \in Ahead(p)
    BY DEF Stage, Ahead
  <2>4. QED
    BY <1>1, <2>1, <2>2, <2>3 DEF Possible, Stage
<1>2. CASE mode = "restore"
  <2>1. p \in {"restoring", "restored", "recovery_required"}
    BY <1>2 DEF JournalStep
  <2>2. AnswerOf(p) = p
    BY <2>1 DEF AnswerOf
  <2>3. QED
    BY <1>2, <2>1, <2>2 DEF Possible
<1>3. CASE mode \in {"release_source", "release_target"}
  BY <1>3 DEF JournalStep, AnswerOf, Possible
<1>4. QED
  BY <1>1, <1>2, <1>3 DEF Calls

(***************************************************************************)
(* A late request does not overtake an answer that waits for its commit.   *)
(***************************************************************************)
LEMMA LateStepPossible ==
  ASSUME NEW phase \in TransitionPhase \ {"completed"}, NEW published \in BOOLEAN,
         published => phase = "releasing",
         NEW mode \in Calls, Sends(mode, phase, published),
         NEW request \in Calls, Sent(request, phase, published),
         NEW a, NEW j \in Possible(mode, a), NEW p \in JournalStep(request, j, FALSE)
  PROVE  p \in Possible(mode, a)
<1>1. CASE mode = "prepare"
  <2>1. request = "prepare"
    BY <1>1 DEF Sends, Sent, Calls
  <2>2. p \in Ahead(j) \cup (IF j \in {"none", "checking", "sealing", "rejected"} THEN {"rejected"} ELSE {})
               \cup (IF j \in {"checking", "sealing", "applying", "verifying", "recovery_required"}
                     THEN {"recovery_required"} ELSE {})
    BY <2>1 DEF JournalStep
  <2>3. CASE a \in {"prepared", "rejected", "recovery_required"}
    BY <1>1, <2>2, <2>3 DEF Possible, Ahead, Stage
  <2>4. CASE a \in Stage
    <3>1. /\ j \in Ahead(a) \cup {"recovery_required"}
                     \cup (IF a \in {"checking", "sealing"} THEN {"rejected"} ELSE {})
          /\ Possible(mode, a) = Ahead(a) \cup {"recovery_required"}
                     \cup (IF a \in {"checking", "sealing"} THEN {"rejected"} ELSE {})
      BY <1>1, <2>4 DEF Possible, Stage
    <3>2. CASE a = "checking"
      BY <2>2, <3>1, <3>2 DEF Ahead
    <3>3. CASE a = "sealing"
      BY <2>2, <3>1, <3>3 DEF Ahead
    <3>4. CASE a \in {"applying", "verifying"}
      BY <2>2, <3>1, <3>4 DEF Ahead
    <3>5. QED
      BY <2>4, <3>2, <3>3, <3>4 DEF Stage
  <2>5. QED
    BY <1>1, <2>3, <2>4 DEF Possible
<1>2. CASE mode = "restore"
  <2>1. request \in {"prepare", "restore"}
    BY <1>2 DEF Sends, Sent, Calls
  <2>2. CASE request = "restore"
    BY <1>2, <2>2 DEF JournalStep, Possible
  <2>3. CASE request = "prepare"
    BY <1>2, <2>3 DEF JournalStep, Possible, Ahead
  <2>4. QED
    BY <2>1, <2>2, <2>3
<1>3. CASE mode = "release_source"
  <2>1. request # "release_target"
    BY <1>3 DEF Sends, Sent
  <2>2. j \in {"releasing_source", "released_source"}
    BY <1>3 DEF Possible
  <2>3. request = "release_source"
    BY <2>1, <2>2 DEF JournalStep, Ahead, Calls
  <2>4. QED
    BY <1>3, <2>2, <2>3 DEF JournalStep, Possible
<1>4. CASE mode = "release_target"
  <2>1. request \in {"prepare", "release_target"}
    BY <1>4 DEF Sends, Sent, Calls
  <2>2. j \in {"releasing_target", "released_target"}
    BY <1>4 DEF Possible
  <2>3. request = "release_target"
    BY <2>1, <2>2 DEF JournalStep, Ahead
  <2>4. QED
    BY <1>4, <2>2, <2>3 DEF JournalStep, Possible
<1>5. QED
  BY <1>1, <1>2, <1>3, <1>4 DEF Calls

(***************************************************************************)
(* The outcome that Core commits for an answer: the phase it moves to      *)
(* allows for where the journal can be, and for the requests sent so far.  *)
(***************************************************************************)
LEMMA OutcomeFollows ==
  ASSUME NEW d \in DispatchRecord, NEW out \in Outcomes(d), NEW published \in BOOLEAN,
         d.mode = StepMode(d.prior, d.installed), d.prior.phase # "completed",
         InstalledAs(d.prior, d.installed) = (IF published THEN "target" ELSE "original"),
         published => d.prior.phase = "releasing",
         NEW j \in JournalOf(d.prior.phase, d.prior.status, published),
         d.mode # "commit" => j \in Possible(d.mode, d.answer)
  PROVE  /\ j \in JournalOf(out.phase, out.status, published \/ out.version # None)
         /\ out.status = "succeeded" => published
         /\ \A mode \in Calls : Sent(mode, d.prior.phase, published) =>
              Sent(mode, out.phase, published \/ out.version # None)
<1>1. d.prior.phase \in TransitionPhase \ {"completed"}
  BY DEF DispatchRecord, TransitionRow
<1>2. CASE d.mode = "commit"
  <2>1. out.status = "running" /\ out.version = None
        /\ out.phase = IF d.prior.phase = "accepted" THEN "checking" ELSE "restoring"
    BY <1>2 DEF Outcomes, Outcome
  <2>2. d.prior.phase \in {"accepted", "recovery_required"} /\ ~published
    BY <1>1, <1>2 DEF StepMode
  <2>3. j \in JournalOf(out.phase, out.status, published \/ out.version # None)
    BY <2>1, <2>2 DEF JournalOf
  <2>4. QED
    BY <2>1, <2>2, <2>3 DEF Sent, Calls
<1>3. CASE d.mode \in {"release_source", "release_target"}
  <2>1. out \in ReleaseOutcome(d)
    BY <1>3 DEF Outcomes
  <2>2. d.prior.phase = "releasing" /\ (d.mode = "release_target" <=> published)
    BY <1>1, <1>3 DEF StepMode
  <2>3. CASE d.answer = "releasing"
    <3>1. out.status = "running" /\ out.phase = "releasing" /\ out.version = None
      BY <2>1, <2>2, <2>3 DEF ReleaseOutcome, Outcome
    <3>2. QED
      BY <2>2, <3>1 DEF JournalOf
  <2>4. CASE d.answer = "released"
    <3>1. /\ out.status = IF published THEN "succeeded" ELSE "failed"
          /\ out.phase = "completed" /\ out.version = None
      BY <1>3, <2>1, <2>2, <2>4 DEF ReleaseOutcome, Outcome
    <3>2. j = IF published THEN "released_target" ELSE "released_source"
      BY <1>3, <2>2, <2>4 DEF Possible
    <3>3. j \in JournalOf(out.phase, out.status, published \/ out.version # None)
      BY <3>1, <3>2 DEF JournalOf
    <3>4. QED
      BY <2>2, <3>1, <3>3 DEF Sent, Calls
  <2>5. QED
    BY <2>1, <2>3, <2>4 DEF ReleaseOutcome
<1>4. CASE d.mode = "restore"
  <2>1. out \in RestoreOutcome(d)
    BY <1>4 DEF Outcomes
  <2>2. d.prior.phase = "restoring" /\ ~published
    BY <1>1, <1>4 DEF StepMode
  <2>3. CASE d.answer = "restored"
    <3>1. out.status = "running" /\ out.phase = "releasing" /\ out.version = None
      BY <2>1, <2>2, <2>3 DEF RestoreOutcome, Outcome
    <3>2. j = "restored"
      BY <1>4, <2>3 DEF Possible
    <3>3. QED
      BY <2>2, <3>1, <3>2 DEF JournalOf, Sent, Calls
  <2>4. CASE d.answer \in {"restoring", "recovery_required"}
    <3>1. out.status # "succeeded" /\ out.phase \in {"restoring", "recovery_required"} /\ out.version = None
      BY <2>1, <2>2, <2>4 DEF RestoreOutcome, Outcome
    <3>2. QED
      BY <2>2, <3>1 DEF JournalOf, Sent, Calls
  <2>5. QED
    BY <2>1, <2>3, <2>4 DEF RestoreOutcome
<1>5. CASE d.mode = "prepare"
  <2>1. out \in PrepareOutcome(d)
    BY <1>5 DEF Outcomes
  <2>2. /\ d.prior.phase \in {"checking", "sealing", "applying", "verifying", "publishing"}
        /\ ~published
    BY <1>1, <1>5 DEF StepMode, TransitionPhase
  <2>3. \A mode \in Calls : Sent(mode, d.prior.phase, published) => mode = "prepare"
    BY <2>2 DEF Sent, Calls
  <2>4. CASE d.answer \in {"prepared", "rejected", "recovery_required"}
    <3>1. j = d.answer
      BY <1>5, <2>4 DEF Possible
    <3>2. /\ out.status # "succeeded" /\ out.phase # "accepted"
          /\ j \in JournalOf(out.phase, out.status, published \/ out.version # None)
      <4>1. CASE d.answer = "recovery_required"
        BY <2>1, <3>1, <4>1 DEF PrepareOutcome, Outcome, JournalOf
      <4>2. CASE d.answer = "rejected"
        BY <2>1, <3>1, <4>2 DEF PrepareOutcome, Outcome, JournalOf
      <4>3. CASE d.answer = "prepared"
        <5>1. \/ out = [status |-> "running", phase |-> "releasing", version |-> d.prior.target.version]
              \/ out = [status |-> "running", phase |-> "publishing", version |-> None]
          BY <2>1, <4>3 DEF PrepareOutcome, Outcome
        <5>2. d.prior.target.version # None
          BY NoneIsNoRow DEF DispatchRecord, TransitionRow, Release
        <5>3. QED
          BY <3>1, <4>3, <5>1, <5>2 DEF JournalOf
      <4>4. QED
        BY <2>4, <4>1, <4>2, <4>3
    <3>3. QED
      BY <2>2, <2>3, <3>2 DEF Sent
  <2>5. CASE d.answer \in Stage
    <3>1. out.status = "running" /\ out.phase = d.answer /\ out.version = None
      BY <2>1, <2>5 DEF PrepareOutcome, Outcome, Stage
    <3>2. j \in Ahead(d.answer) \cup {"recovery_required"}
                  \cup (IF d.answer \in {"checking", "sealing"} THEN {"rejected"} ELSE {})
      BY <1>5, <2>5 DEF Possible, Stage
    <3>3. j \in JournalOf(out.phase, out.status, published \/ out.version # None)
      BY <2>5, <3>1, <3>2 DEF JournalOf, Ahead, Stage
    <3>4. QED
      BY <2>2, <2>3, <2>5, <3>1, <3>3 DEF Sent, Stage
  <2>6. QED
    BY <2>1, <2>4, <2>5 DEF PrepareOutcome, Stage
<1>6. d.mode \in {"commit", "release_source", "release_target", "restore", "prepare"}
  BY DEF StepMode
<1>7. QED
  BY <1>2, <1>3, <1>4, <1>5, <1>6

-----------------------------------------------------------------------------
(***************************************************************************)
(* The inductive invariant.  RuntimeAgrees and AlwaysAnswerable look at    *)
(* Core's row and the journal only.  That they stay so needs every phase   *)
(* (JournalFits), the answers that wait for their commit (AnswerFits), the *)
(* requests that Core gave up but Runtime may still execute (LateFits) and *)
(* the verdicts on forward recoveries (ForwardFits).                       *)
(***************************************************************************)
JournalFits ==
  /\ \A t \in DOMAIN transition :
       /\ journal[t] \in JournalOf(transition[t].phase, transition[t].status, Published(t))
       /\ transition[t].status = "succeeded" => Published(t)
  /\ \A t \in TransitionID \ DOMAIN transition : journal[t] = "none"

AnswerFits ==
  \A c \in Coordinator : coord[c] # None /\ coord[c].answer # None =>
    IF coord[c].mode = "verify_forward"
    THEN coord[c].answer = verdict[coord[c].recovery]
    ELSE journal[coord[c].transition] \in Possible(coord[c].mode, coord[c].answer)

ForwardFits ==
  /\ \A t \in DOMAIN transition : journal[t] = "forwarded" =>
       \E r \in DOMAIN recovery :
         /\ recovery[r].transition = t /\ verdict[r] = "verified"
         /\ recovery[r].state = IF ActiveTransition(t) THEN "pending" ELSE "succeeded"
  /\ \A r \in DOMAIN recovery : recovery[r].state = "pending" =>
       /\ transition[recovery[r].transition].phase \in {"restoring", "recovery_required"}
       /\ verdict[r] = "verified" => journal[recovery[r].transition] = "forwarded"
  /\ \A r \in RecoveryID \ DOMAIN recovery : verdict[r] = "none"

RequestFits(q) ==
  /\ q.transition \in DOMAIN transition
  /\ q.mode \in Calls => Sent(q.mode, transition[q.transition].phase, Published(q.transition))
  /\ q.mode = "verify_forward" =>
       q.recovery \in DOMAIN recovery /\ recovery[q.recovery].transition = q.transition

LateFits == \A q \in late : RequestFits(q)

RuntimeInv == TransitionsInv /\ JournalFits /\ AnswerFits /\ ForwardFits /\ LateFits

SamePublished == \A t \in TransitionID : Published(t)' <=> Published(t)

(***************************************************************************)
(* Steps that leave one or the other alone.                                *)
(***************************************************************************)
LEMMA QuietJournal ==
  ASSUME RuntimeInv, UNCHANGED <<transition, recovery, journal, verdict>>, SamePublished
  PROVE  JournalFits' /\ ForwardFits'
<1>1. DOMAIN transition \subseteq TransitionID
  BY DEF RuntimeInv, TransitionsInv, Inv, TypeOK, TablesTypeOK
<1>2. JournalFits'
  <2> SUFFICES ASSUME NEW t \in DOMAIN transition
               PROVE  /\ journal[t] \in JournalOf(transition[t].phase, transition[t].status, Published(t)')
                      /\ transition[t].status = "succeeded" => Published(t)'
    BY DEF JournalFits, RuntimeInv
  <2>1. Published(t)' <=> Published(t)
    BY <1>1 DEF SamePublished
  <2>2. Published(t)' = Published(t)
    BY <2>1 DEF Published
  <2>3. QED
    BY <2>2 DEF RuntimeInv, JournalFits
<1>3. ForwardFits'
  BY DEF RuntimeInv, ForwardFits, ActiveTransition
<1>4. QED
  BY <1>2, <1>3

LEMMA QuietAnswers ==
  ASSUME RuntimeInv, UNCHANGED <<journal, verdict>>,
         \A c \in Coordinator : coord'[c] # None /\ coord'[c].answer # None => coord'[c] = coord[c]
  PROVE  AnswerFits'
BY DEF RuntimeInv, AnswerFits

LEMMA QuietRequests ==
  ASSUME RuntimeInv, UNCHANGED <<transition, recovery>>, SamePublished,
         NEW q \in Request, RequestFits(q)
  PROVE  RequestFits(q)'
<1>1. q.transition \in TransitionID
  BY DEF Request
<1>2. Published(q.transition)' = Published(q.transition)
  BY <1>1 DEF SamePublished, Published
<1>3. QED
  BY <1>2 DEF RequestFits, Published

LEMMA LateTyped == RuntimeInv => late \subseteq Request
  BY DEF RuntimeInv, TransitionsInv, Inv, TypeOK, TransitionsTypeOK

(***************************************************************************)
(* The request of a dispatch under way is one Core sends in its phase.     *)
(***************************************************************************)
LEMMA HolderSends ==
  ASSUME TransitionsInv, NEW c \in Coordinator, coord[c] # None
  PROVE  /\ coord[c].transition \in Active /\ coord[c] \in DispatchRecord
         /\ coord[c].mode \in Calls =>
              Sends(coord[c].mode, transition[coord[c].transition].phase, Published(coord[c].transition))
         /\ coord[c].mode = "verify_forward" =>
              /\ coord[c].recovery \in DOMAIN recovery
              /\ recovery[coord[c].recovery].transition = coord[c].transition
<1> DEFINE t == coord[c].transition
           tr == transition[t]
           row == installation[tr.installation]
<1>1. t \in Active /\ coord[c] \in DispatchRecord
  BY DEF TransitionsInv, Inv, TypeOK, TransitionsTypeOK, ActiveJobsHeld, Active, ActiveTransition
<1>2. ASSUME coord[c].mode \in Calls PROVE Sends(coord[c].mode, tr.phase, Published(t))
  <2>1. coord[c].mode # "verify_forward"
    BY <1>2 DEF Calls
  <2>2. coord[c].mode = StepMode(tr, row)
    BY <2>1 DEF TransitionsInv, ModeFits, NoStaleCommit, Unchanged
  <2>3. tr.phase \in TransitionPhase \ {"completed"}
    BY <1>1 DEF TransitionsInv, Inv, TypeOK, TablesTypeOK, TransitionRow, PhaseFits, Active,
       ActiveTransition
  <2>4. InstalledAs(tr, row) = "target" <=> Published(t)
    BY <1>1 DEF TransitionsInv, TransitionOwnsInstallation, Published
  <2>5. QED
    BY <1>2, <2>2, <2>3, <2>4 DEF StepMode, Sends, Calls, TransitionPhase
<1>3. QED
  BY <1>1, <1>2 DEF TransitionsInv, Inv, RecoveryOwnsTransition

LEMMA SendsSent ==
  ASSUME NEW mode, NEW phase, NEW published, Sends(mode, phase, published)
  PROVE  Sent(mode, phase, published)
BY DEF Sends, Sent

(***************************************************************************)
(* Runtime executes a request, in time or late.                            *)
(***************************************************************************)
LEMMA ExecuteFits ==
  ASSUME RuntimeInv, NEW t \in Active, NEW mode \in Calls \cup {"verify_forward"},
         NEW r, NEW live \in BOOLEAN, NEW a, Execute(t, mode, r, live, a),
         mode \in Calls => IF live THEN Sends(mode, transition[t].phase, Published(t))
                                   ELSE Sent(mode, transition[t].phase, Published(t)),
         mode = "verify_forward" => r \in DOMAIN recovery /\ recovery[r].transition = t,
         UNCHANGED <<transition, recovery>>, SamePublished
  PROVE  JournalFits' /\ ForwardFits'
<1>1. /\ t \in DOMAIN transition /\ t \in TransitionID /\ transition[t] \in TransitionRow
      /\ ActiveTransition(t)
      /\ DOMAIN transition \subseteq TransitionID
      /\ DOMAIN recovery \subseteq RecoveryID
      /\ journal \in [TransitionID -> JournalPhase]
      /\ verdict \in [RecoveryID -> {"none", "verified", "rejected"}]
  BY DEF Active, RuntimeInv, TransitionsInv, Inv, TypeOK, TablesTypeOK, TransitionsTypeOK
<1>2. /\ transition[t].phase \in TransitionPhase \ {"completed"}
      /\ Published(t) => transition[t].phase = "releasing"
  BY <1>1 DEF RuntimeInv, TransitionsInv, PhaseFits, TransitionRow, ActiveTransition, Terminal
<1>3. \A s \in DOMAIN transition : Published(s)' = Published(s)
  <2>1. \A s \in DOMAIN transition : Published(s)' <=> Published(s)
    BY <1>1 DEF SamePublished
  <2>2. \A s : Published(s) \in BOOLEAN /\ Published(s)' \in BOOLEAN
    BY DEF Published
  <2>3. QED
    BY <2>1, <2>2
<1>4. CASE mode \in Calls
  <2>1. PICK p \in JournalStep(mode, journal[t], live) :
          journal' = [journal EXCEPT ![t] = p] /\ UNCHANGED verdict
    BY <1>4 DEF Execute, Calls
  <2>2. /\ p \in JournalOf(transition[t].phase, transition[t].status, Published(t))
        /\ p # "forwarded" /\ journal[t] # "forwarded"
    <3>1. journal[t] \in JournalOf(transition[t].phase, transition[t].status, Published(t))
      BY <1>1 DEF RuntimeInv, JournalFits
    <3>2. Published(t) \in BOOLEAN
      BY DEF Published
    <3>3. QED
      BY <1>2, <1>4, <3>1, <3>2, JournalStepFits
  <2>3. journal'[t] = p /\ \A s \in TransitionID : s # t => journal'[s] = journal[s]
    BY <1>1, <2>1
  <2>4. JournalFits'
    BY <1>1, <1>3, <2>2, <2>3 DEF RuntimeInv, JournalFits
  <2>5. ForwardFits'
    <3>1. \A s \in DOMAIN recovery : recovery[s].transition \in DOMAIN transition
      BY DEF RuntimeInv, TransitionsInv, Inv, Linked
    <3>2. QED
      BY <1>1, <2>1, <2>2, <2>3, <3>1 DEF RuntimeInv, ForwardFits, ActiveTransition
  <2>6. QED
    BY <2>4, <2>5
<1>5. CASE mode = "verify_forward"
  <2>1. r \in DOMAIN recovery /\ recovery[r].transition = t /\ recovery[r].state = "pending"
    BY <1>5 DEF Execute, Verify
  <2>2. transition[t].phase \in {"restoring", "recovery_required"}
    BY <2>1 DEF RuntimeInv, ForwardFits
  <2>3. CASE UNCHANGED <<verdict, journal>>
    BY <2>3, QuietJournal
  <2>4. CASE /\ verdict[r] = "none"
             /\ journal' = [journal EXCEPT ![t] = "forwarded"]
             /\ verdict' = [verdict EXCEPT ![r] = "verified"]
    <3>1. journal'[t] = "forwarded" /\ \A s \in TransitionID : s # t => journal'[s] = journal[s]
      BY <1>1, <2>4
    <3>2. verdict'[r] = "verified" /\ \A s \in RecoveryID : s # r => verdict'[s] = verdict[s]
      BY <1>1, <2>1, <2>4
    <3>3. "forwarded" \in JournalOf(transition[t].phase, transition[t].status, Published(t))
      BY <2>2 DEF JournalOf
    <3>4. JournalFits'
      BY <1>1, <1>3, <3>1, <3>3 DEF RuntimeInv, JournalFits
    <3>5. ForwardFits'
      <4>1. ASSUME NEW s \in DOMAIN transition, journal'[s] = "forwarded"
            PROVE  \E x \in DOMAIN recovery :
                     /\ recovery[x].transition = s /\ verdict'[x] = "verified"
                     /\ recovery[x].state = IF ActiveTransition(s) THEN "pending" ELSE "succeeded"
        <5>1. CASE s = t
          BY <1>1, <2>1, <3>2, <5>1
        <5>2. CASE s # t
          <6>1. journal[s] = "forwarded"
            BY <1>1, <3>1, <4>1, <5>2
          <6>2. PICK x \in DOMAIN recovery :
                  /\ recovery[x].transition = s /\ verdict[x] = "verified"
                  /\ recovery[x].state = IF ActiveTransition(s) THEN "pending" ELSE "succeeded"
            BY <6>1 DEF RuntimeInv, ForwardFits
          <6>3. verdict'[x] = "verified"
            BY <1>1, <2>1, <3>2, <5>2, <6>2
          <6>4. QED
            BY <6>2, <6>3
        <5>3. QED
          BY <5>1, <5>2
      <4>2. ASSUME NEW x \in DOMAIN recovery, recovery[x].state = "pending"
            PROVE  /\ transition[recovery[x].transition].phase \in {"restoring", "recovery_required"}
                   /\ verdict'[x] = "verified" => journal'[recovery[x].transition] = "forwarded"
        <5>1. recovery[x].transition \in TransitionID
          BY <1>1 DEF RuntimeInv, TransitionsInv, Inv, Linked
        <5>2. QED
          BY <1>1, <2>1, <3>1, <3>2, <4>2, <5>1 DEF RuntimeInv, ForwardFits
      <4>3. \A x \in RecoveryID \ DOMAIN recovery : verdict'[x] = "none"
        BY <2>1, <3>2 DEF RuntimeInv, ForwardFits
      <4>4. QED
        BY <4>1, <4>2, <4>3 DEF ForwardFits, ActiveTransition
    <3>6. QED
      BY <3>4, <3>5
  <2>5. CASE /\ verdict[r] = "none"
             /\ verdict' = [verdict EXCEPT ![r] = "rejected"]
             /\ UNCHANGED journal
    <3>1. verdict'[r] = "rejected" /\ \A s \in RecoveryID : s # r => verdict'[s] = verdict[s]
      BY <1>1, <2>1, <2>5
    <3>2. JournalFits'
      BY <1>1, <1>3, <2>5 DEF RuntimeInv, JournalFits
    <3>3. ForwardFits'
      <4>1. ASSUME NEW s \in DOMAIN transition, journal'[s] = "forwarded"
            PROVE  \E x \in DOMAIN recovery :
                     /\ recovery[x].transition = s /\ verdict'[x] = "verified"
                     /\ recovery[x].state = IF ActiveTransition(s) THEN "pending" ELSE "succeeded"
        <5>1. PICK x \in DOMAIN recovery :
                /\ recovery[x].transition = s /\ verdict[x] = "verified"
                /\ recovery[x].state = IF ActiveTransition(s) THEN "pending" ELSE "succeeded"
          BY <2>5, <4>1 DEF RuntimeInv, ForwardFits
        <5>2. verdict'[x] = "verified"
          BY <1>1, <2>5, <3>1, <5>1
        <5>3. QED
          BY <5>1, <5>2
      <4>2. ASSUME NEW x \in DOMAIN recovery, recovery[x].state = "pending"
            PROVE  /\ transition[recovery[x].transition].phase \in {"restoring", "recovery_required"}
                   /\ verdict'[x] = "verified" => journal'[recovery[x].transition] = "forwarded"
        BY <1>1, <2>5, <3>1, <4>2 DEF RuntimeInv, ForwardFits
      <4>3. \A x \in RecoveryID \ DOMAIN recovery : verdict'[x] = "none"
        BY <2>1, <3>1 DEF RuntimeInv, ForwardFits
      <4>4. QED
        BY <4>1, <4>2, <4>3 DEF ForwardFits, ActiveTransition
    <3>4. QED
      BY <3>2, <3>3
  <2>6. QED
    BY <1>5, <2>3, <2>4, <2>5 DEF Execute, Verify
<1>6. QED
  BY <1>4, <1>5

-----------------------------------------------------------------------------
(***************************************************************************)
(* Runtime answers a dispatch in time.  The other dispatches hold other    *)
(* transitions, and other recoveries.                                      *)
(***************************************************************************)
LEMMA AnsweredKeeps ==
  ASSUME RuntimeInv, TransitionsInv', NEW c \in Coordinator, NEW a \in Progress, Answered(c, a)
  PROVE  RuntimeInv'
<1>1. PICK d : d = coord[c]
  OBVIOUS
<1>2. /\ d # None /\ d.mode # "commit" /\ d.answer = None
      /\ Execute(d.transition, d.mode, d.recovery, TRUE, a)
      /\ coord' = [coord EXCEPT ![c].answer = a]
      /\ UNCHANGED <<tables, recovery, late>>
  BY <1>1 DEF Answered
<1>3. TransitionsInv
  BY DEF RuntimeInv
<1>4. /\ d.transition \in Active /\ d \in DispatchRecord
      /\ d.mode \in Calls => Sends(d.mode, transition[d.transition].phase, Published(d.transition))
      /\ d.mode = "verify_forward" =>
           d.recovery \in DOMAIN recovery /\ recovery[d.recovery].transition = d.transition
  BY <1>1, <1>2, <1>3, HolderSends
<1>5. d.mode \in Calls \cup {"verify_forward"}
  BY <1>2, <1>4 DEF DispatchRecord, Mode, Calls
<1>6. UNCHANGED <<transition, recovery>> /\ SamePublished
  BY <1>2 DEF tables, SamePublished, Published
<1>7. JournalFits' /\ ForwardFits'
  BY <1>2, <1>4, <1>5, <1>6, ExecuteFits
<1>8. /\ coord \in [Coordinator -> DispatchRecord \cup {None}]
      /\ journal \in [TransitionID -> JournalPhase]
      /\ verdict \in [RecoveryID -> {"none", "verified", "rejected"}]
      /\ DOMAIN recovery \subseteq RecoveryID /\ DOMAIN transition \subseteq TransitionID
  BY <1>3 DEF TransitionsInv, Inv, TypeOK, TablesTypeOK, TransitionsTypeOK
<1>9. /\ coord'[c].mode = d.mode /\ coord'[c].transition = d.transition
      /\ coord'[c].recovery = d.recovery /\ coord'[c].answer = a
      /\ \A e \in Coordinator : e # c => coord'[e] = coord[e]
  BY <1>1, <1>2, <1>4, <1>8 DEF DispatchRecord
<1>10. AnswerFits'
  <2> SUFFICES ASSUME NEW e \in Coordinator, coord'[e] # None, coord'[e].answer # None
               PROVE  IF coord'[e].mode = "verify_forward"
                      THEN coord'[e].answer = verdict'[coord'[e].recovery]
                      ELSE journal'[coord'[e].transition] \in Possible(coord'[e].mode, coord'[e].answer)
    BY DEF AnswerFits
  <2>1. CASE e = c /\ d.mode \in Calls
    <3>1. PICK p \in JournalStep(d.mode, journal[d.transition], TRUE) :
            a = AnswerOf(p) /\ journal' = [journal EXCEPT ![d.transition] = p]
      BY <1>2, <2>1 DEF Execute, Calls
    <3>2. d.transition \in TransitionID /\ journal[d.transition] \in JournalPhase
      BY <1>4, <1>8 DEF DispatchRecord
    <3>3. journal'[d.transition] = p /\ p \in Possible(d.mode, a)
      BY <1>8, <2>1, <3>1, <3>2, AnswerPossible
    <3>4. d.mode # "verify_forward"
      BY <2>1 DEF Calls
    <3>5. QED
      BY <1>9, <2>1, <3>3, <3>4
  <2>2. CASE e = c /\ d.mode = "verify_forward"
    <3>1. Verify(d.recovery, d.transition, a)
      BY <1>2, <2>2 DEF Execute
    <3>2. d.recovery \in RecoveryID
      BY <1>4, <1>8, <2>2
    <3>3. verdict'[d.recovery] = a
      BY <1>8, <3>1, <3>2 DEF Verify
    <3>4. QED
      BY <1>9, <2>2, <3>3
  <2>3. CASE e # c
    <3>1. coord'[e] = coord[e] /\ coord[e] # None
      BY <1>9, <2>3
    <3>2. /\ coord[e].transition \in Active /\ coord[e] \in DispatchRecord
          /\ coord[e].mode = "verify_forward" =>
               coord[e].recovery \in DOMAIN recovery /\ recovery[coord[e].recovery].transition = coord[e].transition
      BY <1>3, <3>1, HolderSends
    <3>3. coord[e].transition # d.transition
      BY <1>1, <1>2, <1>3, <2>3, <3>1 DEF TransitionsInv, Inv, ActiveJobsHeld
    <3>4. journal'[coord[e].transition] = journal[coord[e].transition]
      <4>1. UNCHANGED journal \/ \E p : journal' = [journal EXCEPT ![d.transition] = p]
        BY <1>2 DEF Execute, Verify
      <4>2. QED
        BY <1>8, <3>2, <3>3, <4>1 DEF Active
    <3>5. coord[e].mode = "verify_forward" =>
            verdict'[coord[e].recovery] = verdict[coord[e].recovery]
      <4>1. ASSUME coord[e].mode = "verify_forward", d.mode = "verify_forward"
            PROVE  coord[e].recovery # d.recovery
        BY <1>4, <3>2, <3>3, <4>1
      <4>2. \/ UNCHANGED verdict
            \/ d.mode = "verify_forward" /\ \E v : verdict' = [verdict EXCEPT ![d.recovery] = v]
        BY <1>2 DEF Execute, Verify
      <4>3. QED
        BY <1>8, <3>2, <4>1, <4>2
    <3>6. QED
      BY <3>1, <3>4, <3>5 DEF RuntimeInv, AnswerFits
  <2>4. QED
    BY <1>5, <2>1, <2>2, <2>3
<1>11. LateFits'
  <2>1. late' = late /\ late \subseteq Request
    BY <1>2, LateTyped
  <2>2. QED
    BY <1>6, <2>1, QuietRequests DEF RuntimeInv, LateFits
<1>12. QED
  BY <1>7, <1>10, <1>11 DEF RuntimeInv

(***************************************************************************)
(* Runtime executes a request that Core has abandoned.  A dispatch that    *)
(* waits for its commit finds its answer still possible, and the verdict   *)
(* it was given unchanged.                                                 *)
(***************************************************************************)
LEMMA LateKeeps ==
  ASSUME RuntimeInv, TransitionsInv', RuntimeLate
  PROVE  RuntimeInv'
<1>1. PICK q \in late : LateRequest(q)
  BY DEF RuntimeLate
<1>2. PICK a \in Progress : Execute(q.transition, q.mode, q.recovery, FALSE, a)
  BY <1>1 DEF LateRequest
<1>3. late' = late \ {q} /\ UNCHANGED <<tables, recovery, coord>>
  BY <1>1 DEF LateRequest
<1>4. /\ TransitionsInv /\ q \in Request /\ RequestFits(q)
      /\ q.mode \in Calls \cup {"verify_forward"}
  BY LateTyped DEF RuntimeInv, LateFits, Request, Mode, Calls
<1>5. q.transition \in Active
  BY <1>2 DEF Execute, Active, ActiveTransition
<1>6. UNCHANGED <<transition, recovery>> /\ SamePublished
  BY <1>3 DEF tables, SamePublished, Published
<1>7. JournalFits' /\ ForwardFits'
  BY <1>2, <1>4, <1>5, <1>6, ExecuteFits DEF RequestFits
<1>8. /\ journal \in [TransitionID -> JournalPhase]
      /\ verdict \in [RecoveryID -> {"none", "verified", "rejected"}]
      /\ DOMAIN recovery \subseteq RecoveryID /\ DOMAIN transition \subseteq TransitionID
      /\ \A t \in DOMAIN transition : transition[t] \in TransitionRow
  BY <1>4 DEF TransitionsInv, Inv, TypeOK, TablesTypeOK, TransitionsTypeOK
<1>9. AnswerFits'
  <2> SUFFICES ASSUME NEW c \in Coordinator, coord[c] # None, coord[c].answer # None
               PROVE  IF coord[c].mode = "verify_forward"
                      THEN coord[c].answer = verdict'[coord[c].recovery]
                      ELSE journal'[coord[c].transition] \in Possible(coord[c].mode, coord[c].answer)
    BY <1>3 DEF AnswerFits
  <2> DEFINE d == coord[c]
             t == q.transition
  <2>1. /\ d.transition \in Active /\ d \in DispatchRecord
        /\ d.mode \in Calls => Sends(d.mode, transition[d.transition].phase, Published(d.transition))
    BY <1>4, HolderSends
  <2>2. IF d.mode = "verify_forward" THEN d.answer = verdict[d.recovery]
        ELSE journal[d.transition] \in Possible(d.mode, d.answer)
    BY DEF RuntimeInv, AnswerFits
  <2>3. d.answer \in Progress
    BY <2>1 DEF DispatchRecord
  <2>4. CASE d.mode = "verify_forward"
    <3>1. d.recovery \in DOMAIN recovery
      BY <1>4, <2>4 DEF TransitionsInv, Inv, RecoveryOwnsTransition
    <3>2. verdict[d.recovery] # "none"
      BY <2>2, <2>3, <2>4 DEF Progress
    <3>3. \/ UNCHANGED verdict
          \/ verdict[q.recovery] = "none" /\ \E v : verdict' = [verdict EXCEPT ![q.recovery] = v]
      BY <1>2 DEF Execute, Verify
    <3>4. verdict'[d.recovery] = verdict[d.recovery]
      BY <1>8, <3>1, <3>2, <3>3
    <3>5. QED
      BY <2>2, <2>4, <3>4
  <2>5. CASE d.mode # "verify_forward" /\ d.transition # t
    <3>1. UNCHANGED journal \/ \E p : journal' = [journal EXCEPT ![t] = p]
      BY <1>2 DEF Execute, Verify
    <3>2. journal'[d.transition] = journal[d.transition]
      BY <1>8, <2>1, <2>5, <3>1 DEF Active
    <3>3. QED
      BY <2>2, <2>5, <3>2
  <2>6. CASE d.mode # "verify_forward" /\ d.transition = t
    <3>1. ~ForwardPending(t)
      BY <1>4, <2>6 DEF TransitionsInv, Inv, RecoveryOwnsTransition
    <3>2. q.mode \in Calls
      <4>1. ASSUME q.mode = "verify_forward" PROVE ForwardPending(t)
        BY <1>2, <1>4, <4>1 DEF Execute, Verify, RequestFits, ForwardPending
      <4>2. QED
        BY <1>4, <3>1, <4>1
    <3>3. d.mode \in Calls
      BY <2>1, <2>2, <2>6 DEF DispatchRecord, Mode, Calls, Possible
    <3>4. PICK p \in JournalStep(q.mode, journal[t], FALSE) : journal' = [journal EXCEPT ![t] = p]
      BY <1>2, <3>2 DEF Execute, Calls
    <3>5. /\ transition[t].phase \in TransitionPhase \ {"completed"}
          /\ Published(t) => transition[t].phase = "releasing"
      BY <1>4, <1>5, <1>8 DEF TransitionsInv, PhaseFits, TransitionRow, Active, ActiveTransition, Terminal
    <3>6. Published(t) \in BOOLEAN
      BY DEF Published
    <3>7. Sends(d.mode, transition[t].phase, Published(t)) /\ Sent(q.mode, transition[t].phase, Published(t))
      BY <1>4, <2>1, <2>6, <3>2, <3>3 DEF RequestFits
    <3>8. p \in Possible(d.mode, d.answer)
      BY <2>2, <2>6, <3>2, <3>3, <3>5, <3>6, <3>7, LateStepPossible
    <3>9. journal'[t] = p
      BY <1>5, <1>8, <3>4 DEF Active
    <3>10. QED
      BY <2>6, <3>8, <3>9
  <2>7. QED
    BY <2>4, <2>5, <2>6
<1>10. LateFits'
  <2>1. late' \subseteq late /\ late \subseteq Request
    BY <1>3, LateTyped
  <2>2. QED
    BY <1>6, <2>1, QuietRequests DEF RuntimeInv, LateFits
<1>11. QED
  BY <1>7, <1>9, <1>10 DEF RuntimeInv

-----------------------------------------------------------------------------
(***************************************************************************)
(* Steps of operations, and a coordinator that takes up or leaves a        *)
(* transition.  What it leaves without an answer may be executed late.     *)
(***************************************************************************)
LEMMA QuietKeeps ==
  ASSUME RuntimeInv, TransitionsInv', SamePublished,
         UNCHANGED <<transition, recovery, journal, verdict, late>>,
         \A c \in Coordinator : coord'[c] # None /\ coord'[c].answer # None => coord'[c] = coord[c]
  PROVE  RuntimeInv'
<1>1. JournalFits' /\ ForwardFits'
  BY QuietJournal
<1>2. AnswerFits'
  BY QuietAnswers
<1>3. LateFits'
  BY LateTyped, QuietRequests DEF RuntimeInv, LateFits
<1>4. QED
  BY <1>1, <1>2, <1>3 DEF RuntimeInv

LEMMA OperationsQuiet ==
  ASSUME RuntimeInv, TransitionsInv',
         \/ \E o, c, i : Submits(o, c, i)
         \/ \E w \in Worker : Records(w) \/ Works(w)
         \/ Admit /\ UNCHANGED trVars
         \/ UNCHANGED vars
  PROVE  RuntimeInv'
<1>1. UNCHANGED trVars
  BY DEF Submits, Records, Works, vars
<1>2. UNCHANGED transition
  <2>1. ASSUME NEW o, NEW c, NEW i, Submits(o, c, i) PROVE UNCHANGED transition
    BY <2>1 DEF Submits, submit
  <2>2. ASSUME NEW w \in Worker, Records(w) PROVE UNCHANGED transition
    BY <2>2 DEF Records, Record
  <2>3. QED
    BY <2>1, <2>2, QuietSteps
<1>3. SamePublished
  <2>1. ASSUME NEW o, NEW c, NEW i, Submits(o, c, i) PROVE SamePublished
    <3>1. audit' = audit \cup {<<"operation", o, "accepted">>}
      BY <2>1 DEF Submits, submit
    <3>2. \A t \in TransitionID : <<"transition", t, "published">> # <<"operation", o, "accepted">>
      OBVIOUS
    <3>3. QED
      BY <3>1, <3>2 DEF Published, SamePublished
  <2>2. ASSUME NEW w \in Worker, Records(w) PROVE UNCHANGED audit
    BY <2>2 DEF Records, Record
  <2>3. ASSUME UNCHANGED audit PROVE SamePublished
    BY <2>3 DEF SamePublished, Published
  <2>4. QED
    BY <2>1, <2>2, <2>3, QuietSteps
<1>4. UNCHANGED <<recovery, journal, verdict, late, coord>>
  BY <1>1 DEF trVars
<1>5. QED
  BY <1>2, <1>3, <1>4, QuietKeeps

LEMMA TakesKeeps ==
  ASSUME RuntimeInv, TransitionsInv', NEW c \in Coordinator, Takes(c)
  PROVE  RuntimeInv'
<1>1. coord \in [Coordinator -> DispatchRecord \cup {None}]
  BY DEF RuntimeInv, TransitionsInv, Inv, TypeOK, TransitionsTypeOK
<1>2. UNCHANGED <<transition, audit, recovery>>
  BY QuietSteps
<1>3. SamePublished
  BY <1>2 DEF SamePublished, Published
<1>4. /\ \E d : d.answer = None /\ coord' = [coord EXCEPT ![c] = d]
      /\ UNCHANGED <<journal, verdict, late>>
  BY DEF Takes, DispatchTransition, RetryForward, Verifying
<1>5. \A e \in Coordinator : coord'[e] # None /\ coord'[e].answer # None => coord'[e] = coord[e]
  BY <1>1, <1>4
<1>6. QED
  BY <1>2, <1>3, <1>4, <1>5, QuietKeeps

LEMMA LeavesKeeps ==
  ASSUME RuntimeInv, TransitionsInv', NEW c \in Coordinator, Leaves(c)
  PROVE  RuntimeInv'
<1>1. coord \in [Coordinator -> DispatchRecord \cup {None}] /\ TransitionsInv
  BY DEF RuntimeInv, TransitionsInv, Inv, TypeOK, TransitionsTypeOK
<1>2. UNCHANGED <<transition, audit, recovery>>
  BY QuietSteps
<1>3. SamePublished
  BY <1>2 DEF SamePublished, Published
<1>4. /\ coord' = coord \/ coord' = [coord EXCEPT ![c] = None]
      /\ late' = late \/ late' = late \cup Abandoned(c)
      /\ UNCHANGED <<journal, verdict>>
  BY DEF Leaves, SkipTransition, NoTransition, Abandon, Restart
<1>5. JournalFits' /\ ForwardFits'
  BY <1>2, <1>3, <1>4, QuietJournal
<1>6. AnswerFits'
  <2>1. \A e \in Coordinator : coord'[e] # None /\ coord'[e].answer # None => coord'[e] = coord[e]
    BY <1>1, <1>4
  <2>2. QED
    BY <1>4, <2>1, QuietAnswers
<1>7. ASSUME NEW q \in Abandoned(c) PROVE q \in Request /\ RequestFits(q)
  <2>1. /\ coord[c] # None /\ coord[c].mode # "commit"
        /\ q = [transition |-> coord[c].transition, mode |-> coord[c].mode,
                recovery |-> coord[c].recovery]
    BY <1>7 DEF Abandoned
  <2>2. /\ coord[c].transition \in Active /\ coord[c] \in DispatchRecord
        /\ coord[c].mode \in Calls =>
             Sends(coord[c].mode, transition[coord[c].transition].phase, Published(coord[c].transition))
        /\ coord[c].mode = "verify_forward" =>
             /\ coord[c].recovery \in DOMAIN recovery
             /\ recovery[coord[c].recovery].transition = coord[c].transition
    BY <1>1, <2>1, HolderSends
  <2>3. q \in Request
    BY <2>1, <2>2 DEF DispatchRecord, Request
  <2>4. /\ q.transition = coord[c].transition /\ q.mode = coord[c].mode
        /\ q.recovery = coord[c].recovery
    BY <2>1
  <2>5. RequestFits(q)
    BY <2>2, <2>4, SendsSent DEF RequestFits, Active
  <2>6. QED
    BY <2>3, <2>5
<1>8. LateFits'
  <2>1. \A q \in late \cup Abandoned(c) : q \in Request /\ RequestFits(q)
    BY <1>7, LateTyped DEF RuntimeInv, LateFits
  <2>2. \A q \in late \cup Abandoned(c) : RequestFits(q)'
    BY <1>2, <1>3, <2>1, QuietRequests
  <2>3. QED
    BY <1>4, <2>2 DEF LateFits
<1>9. QED
  BY <1>5, <1>6, <1>8 DEF RuntimeInv

(***************************************************************************)
(* A new transition, which Runtime has not heard of.                       *)
(***************************************************************************)
LEMMA NewTransitionKeeps ==
  ASSUME RuntimeInv, TransitionsInv', AcceptTransition
  PROVE  RuntimeInv'
<1>1. PICK t, row :
        /\ t \in NewID(TransitionID, transition)
        /\ row.status = "accepted" /\ row.phase = "accepted"
        /\ transition' = Insert(transition, t, row)
        /\ audit' = audit \cup {<<"transition", t, "accepted">>}
        /\ UNCHANGED trVars
  BY DEF AcceptTransition, SubmitTransition
<1>2. /\ t \in TransitionID /\ t \notin DOMAIN transition
      /\ DOMAIN transition' = DOMAIN transition \cup {t}
      /\ transition'[t] = row
      /\ \A s \in DOMAIN transition : transition'[s] = transition[s]
  BY <1>1 DEF NewID, Fresh, Insert
<1>3. UNCHANGED <<recovery, coord, journal, verdict, late>>
  BY <1>1 DEF trVars
<1>4. SamePublished
  <2>1. \A s \in TransitionID : <<"transition", s, "published">> # <<"transition", t, "accepted">>
    OBVIOUS
  <2>2. QED
    BY <1>1, <2>1 DEF Published, SamePublished
<1>5. DOMAIN transition \subseteq TransitionID /\ late \subseteq Request
  BY LateTyped DEF RuntimeInv, TransitionsInv, Inv, TypeOK, TablesTypeOK
<1>6. \A s \in TransitionID : Published(s)' = Published(s)
  <2>1. \A s : Published(s) \in BOOLEAN /\ Published(s)' \in BOOLEAN
    BY DEF Published
  <2>2. QED
    BY <1>4, <2>1 DEF SamePublished
<1>7. JournalFits'
  <2>1. journal[t] = "none"
    BY <1>2 DEF RuntimeInv, JournalFits
  <2>2. "none" \in JournalOf("accepted", "accepted", Published(t))
    BY DEF JournalOf
  <2>3. QED
    BY <1>1, <1>2, <1>3, <1>5, <1>6, <2>1, <2>2 DEF RuntimeInv, JournalFits
<1>8. \A r \in DOMAIN recovery : recovery[r].transition \in DOMAIN transition
  BY DEF RuntimeInv, TransitionsInv, Inv, Linked
<1>9. ForwardFits'
  <2>1. journal[t] # "forwarded"
    BY <1>2 DEF RuntimeInv, JournalFits
  <2>2. \A s \in DOMAIN transition : ActiveTransition(s)' <=> ActiveTransition(s)
    BY <1>2 DEF ActiveTransition
  <2>3. QED
    BY <1>2, <1>3, <1>8, <2>1, <2>2 DEF RuntimeInv, ForwardFits
<1>10. AnswerFits'
  BY <1>3, QuietAnswers
<1>11. ASSUME NEW q \in late PROVE RequestFits(q)'
  <2>1. RequestFits(q) /\ q.transition \in TransitionID
    BY <1>5, <1>11 DEF RuntimeInv, LateFits, Request
  <2>2. Published(q.transition)' = Published(q.transition)
    BY <1>6, <2>1
  <2>3. QED
    BY <1>2, <1>3, <2>1, <2>2 DEF RequestFits, Published
<1>12. QED
  BY <1>3, <1>7, <1>9, <1>10, <1>11 DEF RuntimeInv, LateFits

(***************************************************************************)
(* A new recovery, on which Runtime has given no verdict.                  *)
(***************************************************************************)
LEMMA NewRecoveryKeeps ==
  ASSUME RuntimeInv, TransitionsInv', AcceptRecovery
  PROVE  RuntimeInv'
<1>1. PICK r \in NewID(RecoveryID, recovery), c \in Coordinator, t \in DOMAIN transition, k \in Key,
           target \in Release : acceptForward(c, k, t, target, r)
  BY DEF AcceptRecovery
<1>2. PICK row, d :
        /\ row.transition = t /\ row.state = "pending" /\ d.answer = None
        /\ recovery' = Insert(recovery, r, row)
        /\ coord' = [coord EXCEPT ![c] = d]
  BY <1>1 DEF acceptForward, Verifying
<1>3. /\ transition[t].phase \in {"restoring", "recovery_required"} /\ ~ForwardPending(t)
      /\ audit' = audit \cup {<<"recovery", r, "accepted">>}
      /\ UNCHANGED <<transition, journal, verdict, late>>
  BY <1>1 DEF acceptForward, allowedWorldForward
<1>4. /\ r \in RecoveryID /\ r \notin DOMAIN recovery
      /\ DOMAIN recovery' = DOMAIN recovery \cup {r} /\ recovery'[r] = row
      /\ \A s \in DOMAIN recovery : recovery'[s] = recovery[s]
  BY <1>2 DEF NewID, Fresh, Insert
<1>5. SamePublished
  <2>1. \A s \in TransitionID : <<"transition", s, "published">> # <<"recovery", r, "accepted">>
    OBVIOUS
  <2>2. QED
    BY <1>3, <2>1 DEF Published, SamePublished
<1>6. /\ DOMAIN transition \subseteq TransitionID /\ late \subseteq Request
      /\ coord \in [Coordinator -> DispatchRecord \cup {None}]
  BY LateTyped DEF RuntimeInv, TransitionsInv, Inv, TypeOK, TablesTypeOK, TransitionsTypeOK
<1>7. \A s \in TransitionID : Published(s)' = Published(s)
  <2>1. \A s : Published(s) \in BOOLEAN /\ Published(s)' \in BOOLEAN
    BY DEF Published
  <2>2. QED
    BY <1>5, <2>1 DEF SamePublished
<1>8. JournalFits'
  BY <1>3, <1>6, <1>7 DEF RuntimeInv, JournalFits
<1>9. ForwardFits'
  <2>1. verdict[r] = "none"
    BY <1>4 DEF RuntimeInv, ForwardFits
  <2>2. ASSUME NEW s \in DOMAIN transition, journal[s] = "forwarded"
        PROVE  \E x \in DOMAIN recovery' :
                 /\ recovery'[x].transition = s /\ verdict[x] = "verified"
                 /\ recovery'[x].state = IF ActiveTransition(s) THEN "pending" ELSE "succeeded"
    BY <1>4, <2>2 DEF RuntimeInv, ForwardFits
  <2>3. QED
    BY <1>2, <1>3, <1>4, <2>1, <2>2 DEF RuntimeInv, ForwardFits, ActiveTransition
<1>10. AnswerFits'
  <2>1. \A e \in Coordinator : coord'[e] # None /\ coord'[e].answer # None => coord'[e] = coord[e]
    BY <1>2, <1>6
  <2>2. QED
    BY <1>3, <2>1, QuietAnswers
<1>11. ASSUME NEW q \in late PROVE RequestFits(q)'
  <2>1. RequestFits(q) /\ q.transition \in TransitionID
    BY <1>6, <1>11 DEF RuntimeInv, LateFits, Request
  <2>2. Published(q.transition)' = Published(q.transition)
    BY <1>7, <2>1
  <2>3. QED
    BY <1>3, <1>4, <2>1, <2>2 DEF RequestFits, Published
<1>12. QED
  BY <1>3, <1>8, <1>9, <1>10, <1>11 DEF RuntimeInv, LateFits

-----------------------------------------------------------------------------
(***************************************************************************)
(* Core commits an answer: Runtime's journal is where the phase that Core  *)
(* moves to allows for, also when a late request moved it since.           *)
(***************************************************************************)
LEMMA RuntimeCommitKeeps ==
  ASSUME RuntimeInv, TransitionsInv', NEW c \in Coordinator, commitTransition(c)
  PROVE  RuntimeInv'
<1>0. PICK t : t = coord[c].transition
  OBVIOUS
<1> DEFINE tr == transition[t]
           row == installation[tr.installation]
<1>1. TransitionsInv
  BY DEF RuntimeInv
<1>2. /\ coord[c] # None /\ t \in Active /\ coord[c] \in DispatchRecord
      /\ coord[c].mode # "verify_forward"
      /\ coord[c].prior = tr /\ coord[c].installed = row
      /\ coord' = [coord EXCEPT ![c] = None]
      /\ DOMAIN transition' = DOMAIN transition
      /\ \A s \in DOMAIN transition : s # t => transition'[s] = transition[s]
  BY <1>0, <1>1, CommitMoves DEF TransitionsInv
<1>3. /\ tr \in TransitionRow /\ tr.phase # "completed"
      /\ Published(t) => tr.phase = "releasing"
      /\ InstalledAs(tr, row) = IF Published(t) THEN "target" ELSE "original"
      /\ coord[c].mode = StepMode(tr, row)
      /\ \A s \in TransitionID : s # t => (Published(s)' <=> Published(s))
  BY <1>0, <1>1, CommitPublishes
<1>4. PICK out \in Outcomes(coord[c]) : Commits(c, t, out)
  BY <1>0, <1>1, CommitPublishes
<1>5. /\ coord[c].mode # "commit" => coord[c].answer # None
      /\ UNCHANGED <<recovery, journal, verdict, late>>
  BY DEF commitTransition
<1>6. /\ t \in DOMAIN transition /\ DOMAIN transition \subseteq TransitionID
      /\ late \subseteq Request /\ coord \in [Coordinator -> DispatchRecord \cup {None}]
  BY <1>1, <1>2, LateTyped DEF TransitionsInv, Inv, TypeOK, TablesTypeOK, TransitionsTypeOK, Active
<1>7. /\ transition'[t].status = out.status /\ transition'[t].phase = out.phase
      /\ Published(t)' <=> Published(t) \/ out.version # None
  BY <1>3, <1>4 DEF Commits, TransitionRow
<1>8. \A s : Published(s) \in BOOLEAN /\ Published(s)' \in BOOLEAN
  BY DEF Published
<1>9. Published(t)' = (Published(t) \/ out.version # None)
  BY <1>7, <1>8
<1>10. \A s \in TransitionID : s # t => Published(s)' = Published(s)
  BY <1>3, <1>8
<1>11. journal[t] \in JournalOf(tr.phase, tr.status, Published(t))
  BY <1>6 DEF RuntimeInv, JournalFits
<1>12. coord[c].mode # "commit" => journal[t] \in Possible(coord[c].mode, coord[c].answer)
  BY <1>0, <1>2, <1>5 DEF RuntimeInv, AnswerFits
<1>13. /\ journal[t] \in JournalOf(out.phase, out.status, Published(t)')
       /\ out.status = "succeeded" => Published(t)
       /\ \A mode \in Calls : Sent(mode, tr.phase, Published(t)) => Sent(mode, out.phase, Published(t)')
  BY <1>2, <1>3, <1>8, <1>9, <1>11, <1>12, OutcomeFollows
<1>14. JournalFits'
  BY <1>2, <1>5, <1>6, <1>7, <1>9, <1>10, <1>13 DEF RuntimeInv, JournalFits
<1>15. ~ForwardPending(t)
  BY <1>0, <1>1, <1>2 DEF TransitionsInv, Inv, RecoveryOwnsTransition
<1>16. ForwardFits'
  <2>1. ActiveTransition(t)
    BY <1>2 DEF Active
  <2>2. journal[t] # "forwarded"
    BY <1>6, <1>15, <2>1 DEF RuntimeInv, ForwardFits, ForwardPending
  <2>3. \A r \in DOMAIN recovery : recovery[r].state = "pending" => recovery[r].transition # t
    BY <1>15 DEF ForwardPending
  <2>4. \A s \in DOMAIN transition : s # t => (ActiveTransition(s)' <=> ActiveTransition(s))
    BY <1>2 DEF ActiveTransition
  <2>5. \A r \in DOMAIN recovery : recovery[r].transition \in DOMAIN transition
    BY <1>1 DEF TransitionsInv, Inv, Linked
  <2>6. QED
    BY <1>2, <1>5, <2>2, <2>3, <2>4, <2>5 DEF RuntimeInv, ForwardFits
<1>17. AnswerFits'
  <2>1. \A e \in Coordinator : coord'[e] # None /\ coord'[e].answer # None => coord'[e] = coord[e]
    BY <1>2, <1>6
  <2>2. QED
    BY <1>5, <2>1, QuietAnswers
<1>18. ASSUME NEW q \in late PROVE RequestFits(q)'
  <2>1. RequestFits(q) /\ q.transition \in TransitionID
    BY <1>6, <1>18 DEF RuntimeInv, LateFits, Request
  <2>2. CASE q.transition = t
    BY <1>2, <1>5, <1>7, <1>13, <2>1, <2>2 DEF RequestFits, Published
  <2>3. CASE q.transition # t
    <3>1. Published(q.transition)' = Published(q.transition)
      BY <1>10, <2>1, <2>3
    <3>2. QED
      BY <1>2, <1>5, <2>1, <2>3, <3>1 DEF RequestFits, Published
  <2>4. QED
    BY <2>2, <2>3
<1>19. QED
  BY <1>5, <1>14, <1>16, <1>17, <1>18 DEF RuntimeInv, LateFits

(***************************************************************************)
(* Core commits the verdict on a forward recovery.  Verified: the journal  *)
(* is closed as forwarded, and the recovery that Core closes the           *)
(* transition with bears witness.  Rejected: the recovery leaves, and was  *)
(* no witness.                                                             *)
(***************************************************************************)
LEMMA RuntimeFinishKeeps ==
  ASSUME RuntimeInv, TransitionsInv', NEW c \in Coordinator, finishForward(c)
  PROVE  RuntimeInv'
<1>0. PICK t, r : t = coord[c].transition /\ r = coord[c].recovery
  OBVIOUS
<1>1. TransitionsInv /\ Inv
  BY DEF RuntimeInv, TransitionsInv
<1>2. /\ coord[c] # None /\ t \in Active
      /\ r \in DOMAIN recovery /\ recovery[r].transition = t /\ recovery[r].state = "pending"
      /\ coord' = [coord EXCEPT ![c] = None]
      /\ DOMAIN transition' = DOMAIN transition
      /\ \A s \in DOMAIN transition : s # t => transition'[s] = transition[s]
      /\ \/ /\ coord[c].answer # "verified"
            /\ UNCHANGED transition
            /\ recovery' = [recovery EXCEPT ![r].state = "failed"]
            /\ audit' = audit \cup {<<"recovery", r, "failed">>}
         \/ /\ coord[c].answer = "verified" /\ verdict[r] = "verified"
            /\ transition'[t] = [transition[t] EXCEPT !.status = "failed", !.phase = "completed"]
            /\ recovery' = [recovery EXCEPT ![r].state = "succeeded"]
            /\ audit' = audit \cup {<<"recovery", r, "succeeded">>}
  BY <1>0, <1>1, FinishMoves
<1>3. /\ coord[c].mode = "verify_forward" /\ coord[c].answer # None
      /\ UNCHANGED <<journal, verdict, late>>
  BY DEF finishForward
<1>4. /\ t \in DOMAIN transition /\ DOMAIN transition \subseteq TransitionID
      /\ DOMAIN recovery \subseteq RecoveryID
      /\ transition[t] \in TransitionRow /\ recovery[r] \in RecoveryRow
      /\ late \subseteq Request /\ coord \in [Coordinator -> DispatchRecord \cup {None}]
  BY <1>1, <1>2, LateTyped DEF Inv, TypeOK, TablesTypeOK, TransitionsTypeOK, Active
<1>5. coord[c].answer = verdict[r]
  BY <1>0, <1>2, <1>3 DEF RuntimeInv, AnswerFits
<1>6. SamePublished
  <2>1. \A s, v : <<"transition", s, "published">> # <<"recovery", r, v>>
    OBVIOUS
  <2>2. QED
    BY <1>2, <2>1 DEF Published, SamePublished
<1>7. \A s \in TransitionID : Published(s)' = Published(s)
  <2>1. \A s : Published(s) \in BOOLEAN /\ Published(s)' \in BOOLEAN
    BY DEF Published
  <2>2. QED
    BY <1>6, <2>1 DEF SamePublished
<1>8. /\ DOMAIN recovery' = DOMAIN recovery
      /\ \A s \in DOMAIN recovery : s # r => recovery'[s] = recovery[s]
      /\ \A s \in DOMAIN recovery : recovery'[s].transition = recovery[s].transition
      /\ recovery'[r].state = IF coord[c].answer = "verified" THEN "succeeded" ELSE "failed"
  BY <1>2, <1>4 DEF RecoveryRow
<1>9. transition[t].phase \in {"restoring", "recovery_required"}
  BY <1>2 DEF RuntimeInv, ForwardFits
<1>10. \A s \in DOMAIN recovery : recovery[s].state = "pending" /\ s # r => recovery[s].transition # t
  BY <1>1, <1>2 DEF Inv, RecoveryOwnsTransition
<1>11. \A s \in DOMAIN recovery : recovery[s].transition \in DOMAIN transition
  BY <1>1 DEF Inv, Linked
<1>12. AnswerFits'
  <2>1. \A e \in Coordinator : coord'[e] # None /\ coord'[e].answer # None => coord'[e] = coord[e]
    BY <1>2, <1>4
  <2>2. QED
    BY <1>3, <2>1, QuietAnswers
<1>13. CASE coord[c].answer # "verified"
  <2>1. UNCHANGED transition
    BY <1>2, <1>13
  <2>2. JournalFits'
    BY <1>3, <1>4, <1>7, <2>1 DEF RuntimeInv, JournalFits
  <2>3. ForwardFits'
    <3>1. ASSUME NEW s \in DOMAIN transition, journal[s] = "forwarded"
          PROVE  \E x \in DOMAIN recovery :
                   /\ recovery'[x].transition = s /\ verdict[x] = "verified"
                   /\ recovery'[x].state = IF ActiveTransition(s) THEN "pending" ELSE "succeeded"
      <4>1. PICK x \in DOMAIN recovery :
              /\ recovery[x].transition = s /\ verdict[x] = "verified"
              /\ recovery[x].state = IF ActiveTransition(s) THEN "pending" ELSE "succeeded"
        BY <3>1 DEF RuntimeInv, ForwardFits
      <4>2. x # r
        BY <1>5, <1>13, <4>1
      <4>3. QED
        BY <1>8, <4>1, <4>2
    <3>2. \A x \in DOMAIN recovery : recovery'[x].state = "pending" => recovery[x].state = "pending"
      BY <1>2, <1>8
    <3>3. QED
      BY <1>3, <1>8, <2>1, <3>1, <3>2 DEF RuntimeInv, ForwardFits, ActiveTransition
  <2>4. ASSUME NEW q \in late PROVE RequestFits(q)'
    <3>1. RequestFits(q) /\ q.transition \in TransitionID
      BY <1>4, <2>4 DEF RuntimeInv, LateFits, Request
    <3>2. Published(q.transition)' = Published(q.transition)
      BY <1>7, <3>1
    <3>3. QED
      BY <1>3, <1>8, <2>1, <3>1, <3>2 DEF RequestFits, Published
  <2>5. QED
    BY <1>3, <1>12, <2>2, <2>3, <2>4 DEF RuntimeInv, LateFits
<1>14. CASE coord[c].answer = "verified"
  <2>1. /\ transition'[t].status = "failed" /\ transition'[t].phase = "completed"
        /\ verdict[r] = "verified" /\ recovery'[r].state = "succeeded"
    BY <1>2, <1>4, <1>8, <1>14 DEF TransitionRow
  <2>2. journal[t] = "forwarded"
    BY <1>2, <2>1 DEF RuntimeInv, ForwardFits
  <2>3. JournalFits'
    <3>1. "forwarded" \in JournalOf("completed", "failed", Published(t))
      BY DEF JournalOf
    <3>2. QED
      BY <1>2, <1>3, <1>4, <1>7, <2>1, <2>2, <3>1 DEF RuntimeInv, JournalFits
  <2>4. ForwardFits'
    <3>1. \A s \in DOMAIN transition : s # t => (ActiveTransition(s)' <=> ActiveTransition(s))
      BY <1>2 DEF ActiveTransition
    <3>2. ~ActiveTransition(t)'
      BY <2>1 DEF ActiveTransition, Terminal
    <3>3. ASSUME NEW s \in DOMAIN transition, journal[s] = "forwarded"
          PROVE  \E x \in DOMAIN recovery :
                   /\ recovery'[x].transition = s /\ verdict[x] = "verified"
                   /\ recovery'[x].state = IF ActiveTransition(s)' THEN "pending" ELSE "succeeded"
      <4>1. CASE s = t
        BY <1>2, <1>8, <2>1, <3>2, <4>1
      <4>2. CASE s # t
        <5>1. PICK x \in DOMAIN recovery :
                /\ recovery[x].transition = s /\ verdict[x] = "verified"
                /\ recovery[x].state = IF ActiveTransition(s) THEN "pending" ELSE "succeeded"
          BY <3>3 DEF RuntimeInv, ForwardFits
        <5>2. x # r
          BY <1>2, <4>2, <5>1
        <5>3. QED
          BY <1>8, <3>1, <4>2, <5>1, <5>2
      <4>3. QED
        BY <4>1, <4>2
    <3>4. ASSUME NEW x \in DOMAIN recovery, recovery'[x].state = "pending"
          PROVE  /\ transition'[recovery[x].transition].phase \in {"restoring", "recovery_required"}
                 /\ verdict[x] = "verified" => journal[recovery[x].transition] = "forwarded"
      <4>1. x # r /\ recovery[x].state = "pending"
        BY <1>8, <2>1, <3>4
      <4>2. QED
        BY <1>2, <1>10, <1>11, <4>1 DEF RuntimeInv, ForwardFits
    <3>5. \A x \in RecoveryID \ DOMAIN recovery : verdict[x] = "none"
      BY DEF RuntimeInv, ForwardFits
    <3>6. QED
      BY <1>2, <1>3, <1>8, <3>3, <3>4, <3>5 DEF ForwardFits
  <2>5. ASSUME NEW q \in late PROVE RequestFits(q)'
    <3>1. RequestFits(q) /\ q.transition \in TransitionID
      BY <1>4, <2>5 DEF RuntimeInv, LateFits, Request
    <3>2. Published(q.transition)' = Published(q.transition)
      BY <1>7, <3>1
    <3>3. CASE q.transition = t
      BY <1>2, <1>3, <1>8, <1>9, <2>1, <3>1, <3>2, <3>3 DEF RequestFits, Published, Sent
    <3>4. CASE q.transition # t
      BY <1>2, <1>3, <1>8, <3>1, <3>2, <3>4 DEF RequestFits, Published
    <3>5. QED
      BY <3>3, <3>4
  <2>6. QED
    BY <1>3, <1>12, <2>3, <2>4, <2>5 DEF RuntimeInv, LateFits
<1>15. QED
  BY <1>13, <1>14

-----------------------------------------------------------------------------
LEMMA RuntimeInitially == Init => RuntimeInv
<1> SUFFICES ASSUME Init PROVE RuntimeInv
  OBVIOUS
<1>1. /\ transition = EmptyTable /\ recovery = EmptyTable /\ late = {}
      /\ coord = [c \in Coordinator |-> None]
      /\ journal = [t \in TransitionID |-> "none"] /\ verdict = [r \in RecoveryID |-> "none"]
  BY DEF Init, TablesInit, TransitionsInit
<1>2. QED
  BY <1>1, TransitionsInitially DEF RuntimeInv, JournalFits, AnswerFits, ForwardFits, LateFits,
     EmptyTable

LEMMA RuntimeStep == RuntimeInv /\ [Next]_vars => RuntimeInv'
<1> SUFFICES ASSUME RuntimeInv, [Next]_vars PROVE RuntimeInv'
  OBVIOUS
<1>1. TransitionsInv /\ TransitionsInv' /\ Inv
  BY TransitionsStep DEF RuntimeInv, TransitionsInv
<1>2. QED
  BY <1>1, StepKinds, OperationsQuiet, NewTransitionKeeps, NewRecoveryKeeps, TakesKeeps,
     LeavesKeeps, RuntimeCommitKeeps, RuntimeFinishKeeps, AnsweredKeeps, LateKeeps

(***************************************************************************)
(* Whatever answers are lost, whatever requests arrive late and however    *)
(* often Core restarts, Runtime's journal is in a phase that Core's row    *)
(* allows for, every answer that waits for its commit is still one that    *)
(* the journal bears out, and every closed forward recovery has its        *)
(* verdict.  This is the inductive invariant of the two theorems below.    *)
(***************************************************************************)
THEOREM RuntimeInStep == Spec => []RuntimeInv
  BY RuntimeInitially, RuntimeStep, PTL DEF Spec

(***************************************************************************)
(* Core and Runtime never contradict each other about a transition: the    *)
(* target is released to users only after Core published it, a succeeded   *)
(* row means a released target, and a failed one a rejection, a source put *)
(* back or a verified forward recovery.  commitTransition and Runtime hold *)
(* no lock in common, and any answer can be lost or late.                  *)
(***************************************************************************)
THEOREM CoreAndRuntimeAgree == Spec => []RuntimeAgrees
<1>1. RuntimeInv => RuntimeAgrees
  <2> SUFFICES ASSUME RuntimeInv, NEW t \in DOMAIN transition
               PROVE  /\ transition[t].phase = "accepted" => journal[t] = "none"
                      /\ journal[t] \in {"releasing_target", "released_target"} => Published(t)
                      /\ transition[t].status = "succeeded" => journal[t] = "released_target"
                      /\ transition[t].status = "failed" =>
                           \/ journal[t] \in {"rejected", "released_source"}
                           \/ /\ journal[t] = "forwarded"
                              /\ \E r \in DOMAIN recovery :
                                   recovery[r].transition = t /\ recovery[r].state = "succeeded"
    BY DEF RuntimeAgrees, Published
  <2>1. /\ journal[t] \in JournalOf(transition[t].phase, transition[t].status, Published(t))
        /\ transition[t].status = "succeeded" => Published(t)
    BY DEF RuntimeInv, JournalFits
  <2>2. /\ transition[t] \in TransitionRow
        /\ transition[t].status \in Terminal <=> transition[t].phase = "completed"
    BY DEF RuntimeInv, TransitionsInv, Inv, TypeOK, TablesTypeOK, PhaseFits
  <2>3. transition[t].phase = "accepted" => journal[t] = "none"
    BY <2>1 DEF JournalOf
  <2>4. transition[t].status = "succeeded" => journal[t] = "released_target"
    BY <2>1, <2>2 DEF JournalOf, Terminal
  <2>5. ASSUME transition[t].status = "failed"
        PROVE  \/ journal[t] \in {"rejected", "released_source"}
               \/ /\ journal[t] = "forwarded"
                  /\ \E r \in DOMAIN recovery :
                       recovery[r].transition = t /\ recovery[r].state = "succeeded"
    <3>1. journal[t] \in {"rejected", "released_source", "forwarded"} /\ ~ActiveTransition(t)
      BY <2>1, <2>2, <2>5 DEF JournalOf, Terminal, ActiveTransition
    <3>2. QED
      BY <3>1 DEF RuntimeInv, ForwardFits
  <2>6. ASSUME journal[t] \in {"releasing_target", "released_target"} PROVE Published(t)
    <3>1. transition[t].phase \in TransitionPhase
      BY <2>2 DEF TransitionRow
    <3>2. CASE transition[t].phase = "releasing"
      BY <2>1, <2>6, <3>2 DEF JournalOf
    <3>3. CASE transition[t].phase = "completed"
      BY <2>1, <2>6, <3>3 DEF JournalOf
    <3>4. CASE transition[t].phase \in {"accepted", "checking", "sealing", "applying", "verifying",
                                        "publishing", "restoring", "recovery_required"}
      BY <2>1, <2>6, <3>4 DEF JournalOf
    <3>5. QED
      BY <3>1, <3>2, <3>3, <3>4 DEF TransitionPhase
  <2>7. QED
    BY <2>3, <2>4, <2>5, <2>6
<1>2. QED
  BY <1>1, RuntimeInStep, PTL

(***************************************************************************)
(* No loss, delay or restart strands a transition: the next request that   *)
(* dispatchTransition would send for an active transition is one that      *)
(* Runtime's journal can answer with something Core accepts, or a forward  *)
(* recovery holds the transition.                                          *)
(***************************************************************************)
THEOREM TransitionsStayAnswerable == Spec => []AlwaysAnswerable
<1>1. RuntimeInv => AlwaysAnswerable
  <2> SUFFICES ASSUME RuntimeInv, NEW t \in Active
               PROVE  LET tr   == transition[t]
                          row  == installation[tr.installation]
                          mode == StepMode(tr, row)
                      IN \/ mode = "commit" /\ (journal[t] = "forwarded" => ForwardPending(t))
                         \/ ForwardPending(t)
                         \/ \E p \in JournalStep(mode, journal[t], TRUE) :
                              Outcomes([transition |-> t, prior |-> tr, installed |-> row,
                                        mode |-> mode, recovery |-> None,
                                        answer |-> AnswerOf(p)]) # {}
    BY DEF AlwaysAnswerable
  <2> DEFINE tr == transition[t]
             row == installation[tr.installation]
             mode == StepMode(tr, row)
             D(a) == [transition |-> t, prior |-> tr, installed |-> row, mode |-> mode,
                      recovery |-> None, answer |-> a]
  <2>1. t \in DOMAIN transition /\ ActiveTransition(t)
    BY DEF Active
  <2>2. journal[t] \in JournalOf(tr.phase, tr.status, Published(t))
    BY <2>1 DEF RuntimeInv, JournalFits
  <2>3. tr.phase \in TransitionPhase \ {"completed"}
    BY <2>1 DEF RuntimeInv, TransitionsInv, Inv, TypeOK, TablesTypeOK, PhaseFits, TransitionRow,
       ActiveTransition
  <2>4. InstalledAs(tr, row) = "target" <=> Published(t)
    BY DEF RuntimeInv, TransitionsInv, TransitionOwnsInstallation, Published
  <2>5. journal[t] = "forwarded" => ForwardPending(t)
    BY <2>1 DEF RuntimeInv, ForwardFits, ForwardPending
  <2>6. \A a : D(a).mode = mode /\ D(a).answer = a /\ D(a).prior = tr
    OBVIOUS
  <2>7. CASE tr.phase \in {"accepted", "recovery_required"}
    BY <2>5, <2>7 DEF StepMode
  <2>8. CASE tr.phase = "restoring"
    <3>1. mode = "restore"
      BY <2>8 DEF StepMode
    <3>2. journal[t] # "forwarded" => "restored" \in JournalStep(mode, journal[t], TRUE)
      BY <2>2, <2>8, <3>1 DEF JournalOf, JournalStep
    <3>3. AnswerOf("restored") = "restored"
      BY DEF AnswerOf
    <3>4. Outcomes(D("restored")) # {}
      BY <2>6, <3>1 DEF Outcomes, RestoreOutcome, Outcome
    <3>5. QED
      BY <2>5, <3>2, <3>3, <3>4
  <2>9. CASE tr.phase = "releasing"
    <3>1. mode = IF Published(t) THEN "release_target" ELSE "release_source"
      BY <2>4, <2>9 DEF StepMode
    <3>2. PICK p : p = IF Published(t) THEN "released_target" ELSE "released_source"
      OBVIOUS
    <3>3. p \in JournalStep(mode, journal[t], TRUE)
      BY <2>2, <2>9, <3>1, <3>2 DEF JournalOf, JournalStep
    <3>4. AnswerOf(p) = "released"
      BY <3>2 DEF AnswerOf
    <3>5. Outcomes(D("released")) # {}
      BY <2>6, <3>1 DEF Outcomes, ReleaseOutcome, Outcome
    <3>6. QED
      BY <3>3, <3>4, <3>5
  <2>10. CASE tr.phase \in {"checking", "sealing", "applying", "verifying", "publishing"}
    <3>1. mode = "prepare"
      BY <2>10 DEF StepMode
    <3>2. \/ journal[t] \in {"none", "checking", "sealing", "applying", "verifying", "prepared",
                             "recovery_required"}
          \/ journal[t] = "rejected" /\ tr.phase \in {"checking", "sealing"}
      BY <2>2, <2>10 DEF JournalOf
    <3>3. PICK p : p = IF journal[t] \in {"rejected", "recovery_required"} THEN journal[t]
                       ELSE "prepared"
      OBVIOUS
    <3>4. p \in JournalStep(mode, journal[t], TRUE)
      BY <3>1, <3>2, <3>3 DEF JournalStep, Ahead
    <3>5. AnswerOf(p) = p
      BY <3>2, <3>3 DEF AnswerOf
    <3>6. PrepareOutcome(D(p)) # {}
      BY <2>6, <3>2, <3>3 DEF PrepareOutcome, Outcome
    <3>7. Outcomes(D(p)) # {}
      BY <2>6, <3>1, <3>6 DEF Outcomes
    <3>8. QED
      BY <3>4, <3>5, <3>7
  <2>11. QED
    BY <2>3, <2>7, <2>8, <2>9, <2>10 DEF TransitionPhase
<1>2. QED
  BY <1>1, RuntimeInStep, PTL

-----------------------------------------------------------------------------
(***************************************************************************)
(* The third part: the tables implement the register of the applications   *)
(* (AppRegister).                                                          *)
(***************************************************************************)

(***************************************************************************)
(* The register, application by application.  With the invariants of the   *)
(* tables an application shows its one current installation and its one    *)
(* active job.                                                             *)
(***************************************************************************)
LEMMA NothingInstalled == \A a \in App : Current(a) = {} => InstalledNow[a] = {}
  BY DEF InstalledNow

LEMMA OneInstalled ==
  Inv => \A i \in DOMAIN installation :
           installation[i].state # "removed" => /\ installation[i].app \in App
                                                /\ InstalledNow[installation[i].app] = {Shown(i)}
<1> SUFFICES ASSUME Inv, NEW i \in DOMAIN installation, installation[i].state # "removed"
             PROVE  /\ installation[i].app \in App
                    /\ InstalledNow[installation[i].app] = {Shown(i)}
  OBVIOUS
<1>1. installation[i].app \in App
  BY DEF Inv, TypeOK, TablesTypeOK, InstallationRow
<1>2. Current(installation[i].app) = {i}
  BY DEF Current, Inv, OneCurrentInstallation
<1>3. QED
  BY <1>1, <1>2 DEF InstalledNow

LEMMA NoJob == \A a \in App : ~OperationBusy(a) /\ ~TransitionBusy(a) => JobsNow[a] = {}
<1> SUFFICES ASSUME NEW a \in App, ~OperationBusy(a), ~TransitionBusy(a)
             PROVE  JobsNow[a] = {}
  OBVIOUS
<1>1. /\ {p \in DOMAIN operation : ActiveOperation(p) /\ operation[p].app = a} = {}
      /\ {s \in DOMAIN transition : ActiveTransition(s) /\ transition[s].app = a} = {}
  BY DEF OperationBusy, TransitionBusy
<1>2. QED
  BY <1>1 DEF JobsNow

LEMMA OneOperationJob ==
  Inv => \A o \in DOMAIN operation :
           ActiveOperation(o) => /\ operation[o].app \in App
                                 /\ JobsNow[operation[o].app] = {OperationJob(o)}
<1> SUFFICES ASSUME Inv, NEW o \in DOMAIN operation, ActiveOperation(o)
             PROVE  /\ operation[o].app \in App
                    /\ JobsNow[operation[o].app] = {OperationJob(o)}
  OBVIOUS
<1> DEFINE a == operation[o].app
<1>1. a \in App
  BY DEF Inv, TypeOK, TablesTypeOK, OperationRow
<1>2. /\ {p \in DOMAIN operation : ActiveOperation(p) /\ operation[p].app = a} = {o}
      /\ {s \in DOMAIN transition : ActiveTransition(s) /\ transition[s].app = a} = {}
  BY DEF Inv, OneActiveJob
<1>3. QED
  BY <1>1, <1>2 DEF JobsNow

LEMMA OneTransitionJob ==
  Inv => \A t \in Active : /\ transition[t].app \in App
                           /\ JobsNow[transition[t].app] = {TransitionJob(t)}
<1> SUFFICES ASSUME Inv, NEW t \in Active
             PROVE  /\ transition[t].app \in App
                    /\ JobsNow[transition[t].app] = {TransitionJob(t)}
  OBVIOUS
<1> DEFINE a == transition[t].app
<1>1. t \in DOMAIN transition /\ ActiveTransition(t) /\ a \in App
  BY DEF Active, Inv, TypeOK, TablesTypeOK, TransitionRow
<1>2. /\ {p \in DOMAIN operation : ActiveOperation(p) /\ operation[p].app = a} = {}
      /\ {s \in DOMAIN transition : ActiveTransition(s) /\ transition[s].app = a} = {t}
  BY <1>1 DEF Inv, OneActiveJob
<1>3. QED
  BY <1>1, <1>2 DEF JobsNow

(***************************************************************************)
(* A step writes the rows of one application: the others show what they    *)
(* showed.                                                                 *)
(***************************************************************************)
OnlyAt(a) ==
  /\ \A i \in DOMAIN installation : installation[i].app # a =>
       i \in DOMAIN installation' /\ installation'[i] = installation[i]
  /\ \A i \in DOMAIN installation' : installation'[i].app # a =>
       i \in DOMAIN installation /\ installation'[i] = installation[i]
  /\ \A o \in DOMAIN operation : operation[o].app # a =>
       o \in DOMAIN operation' /\ operation'[o] = operation[o]
  /\ \A o \in DOMAIN operation' : operation'[o].app # a =>
       o \in DOMAIN operation /\ operation'[o] = operation[o]
  /\ \A t \in DOMAIN transition : transition[t].app # a =>
       /\ t \in DOMAIN transition' /\ transition'[t] = transition[t]
       /\ Published(t)' <=> Published(t)
  /\ \A t \in DOMAIN transition' : transition'[t].app # a =>
       t \in DOMAIN transition /\ transition'[t] = transition[t]

LEMMA Elsewhere ==
  ASSUME NEW a \in App, OnlyAt(a)
  PROVE  /\ InstalledNow' = [InstalledNow EXCEPT ![a] = InstalledNow'[a]]
         /\ JobsNow' = [JobsNow EXCEPT ![a] = JobsNow'[a]]
<1>1. ASSUME NEW b \in App \ {a}
      PROVE  InstalledNow'[b] = InstalledNow[b]
  <2>1. Current(b)' = Current(b)
    BY DEF Current, OnlyAt
  <2>2. \A i \in Current(b) : Shown(i)' = Shown(i)
    BY DEF Current, OnlyAt, Shown
  <2>3. {Shown(i) : i \in Current(b)}' = {Shown(i) : i \in Current(b)}
    BY <2>1, <2>2
  <2>4. QED
    BY <2>3 DEF InstalledNow
<1>2. ASSUME NEW b \in App \ {a}
      PROVE  JobsNow'[b] = JobsNow[b]
  <2> DEFINE O == {p \in DOMAIN operation : ActiveOperation(p) /\ operation[p].app = b}
             T == {s \in DOMAIN transition : ActiveTransition(s) /\ transition[s].app = b}
  <2>1. O' = O
    BY DEF OnlyAt, ActiveOperation
  <2>2. T' = T
    BY DEF OnlyAt, ActiveTransition
  <2>3. \A o \in O : OperationJob(o)' = OperationJob(o)
    BY DEF OnlyAt, OperationJob
  <2>4. ASSUME NEW t \in T PROVE TransitionJob(t)' = TransitionJob(t)
    <3>1. transition'[t] = transition[t] /\ (Published(t)' <=> Published(t))
      BY DEF OnlyAt
    <3>2. (<<"transition", t, "published">> \in audit)' = (<<"transition", t, "published">> \in audit)
      BY <3>1 DEF Published
    <3>3. QED
      BY <3>1, <3>2 DEF TransitionJob
  <2> HIDE DEF O, T
  <2>5. {OperationJob(o) : o \in O}' = {OperationJob(o) : o \in O}
    BY <2>1, <2>3
  <2>6. {TransitionJob(t) : t \in T}' = {TransitionJob(t) : t \in T}
    BY <2>2, <2>4
  <2>7. JobsNow[b] = {OperationJob(o) : o \in O} \cup {TransitionJob(t) : t \in T}
    BY DEF JobsNow, O, T
  <2>8. JobsNow'[b] = {OperationJob(o) : o \in O}' \cup {TransitionJob(t) : t \in T}'
    BY DEF JobsNow, O, T
  <2>9. QED
    BY <2>5, <2>6, <2>7, <2>8
<1>3. InstalledNow' = [b \in App |-> InstalledNow'[b]] /\ InstalledNow = [b \in App |-> InstalledNow[b]]
  BY DEF InstalledNow
<1>4. JobsNow' = [b \in App |-> JobsNow'[b]] /\ JobsNow = [b \in App |-> JobsNow[b]]
  BY DEF JobsNow
<1>5. InstalledNow' = [InstalledNow EXCEPT ![a] = InstalledNow'[a]]
  BY <1>1, <1>3
<1>6. JobsNow' = [JobsNow EXCEPT ![a] = JobsNow'[a]]
  BY <1>2, <1>4
<1>7. QED
  BY <1>5, <1>6

LEMMA SameInstallations ==
  ASSUME DOMAIN installation' = DOMAIN installation,
         \A i \in DOMAIN installation : installation'[i] = installation[i]
  PROVE  InstalledNow' = InstalledNow /\ RemovedNow' = RemovedNow
<1>1. \A a : Current(a)' = Current(a)
  BY DEF Current
<1>2. \A i \in DOMAIN installation : Shown(i)' = Shown(i)
  BY DEF Shown
<1>3. \A a : {Shown(i) : i \in Current(a)}' = {Shown(i) : i \in Current(a)}
  BY <1>1, <1>2 DEF Current
<1>4. InstalledNow' = InstalledNow
  BY <1>3 DEF InstalledNow
<1>5. QED
  BY <1>4 DEF RemovedNow

(***************************************************************************)
(* The same in the state after a step that keeps the invariant.            *)
(***************************************************************************)
LEMMA ShownThen ==
  ASSUME Inv'
  PROVE  /\ \A i \in DOMAIN installation' : installation'[i].state # "removed" =>
              InstalledNow'[installation'[i].app] = {Shown(i)'}
         /\ \A o \in DOMAIN operation' : ActiveOperation(o)' =>
              JobsNow'[operation'[o].app] = {OperationJob(o)'}
         /\ \A t \in Active' : JobsNow'[transition'[t].app] = {TransitionJob(t)'}
<1>1. (\A i \in DOMAIN installation : installation[i].state # "removed" =>
         /\ installation[i].app \in App
         /\ InstalledNow[installation[i].app] = {Shown(i)})'
  BY OneInstalled, PTL
<1>2. (\A o \in DOMAIN operation : ActiveOperation(o) =>
         /\ operation[o].app \in App
         /\ JobsNow[operation[o].app] = {OperationJob(o)})'
  BY OneOperationJob, PTL
<1>3. (\A t \in Active : /\ transition[t].app \in App
                         /\ JobsNow[transition[t].app] = {TransitionJob(t)})'
  BY OneTransitionJob, PTL
<1>4. QED
  BY <1>1, <1>2, <1>3

LEMMA IdleThen ==
  /\ \A a \in App : ~OperationBusy(a)' /\ ~TransitionBusy(a)' => JobsNow'[a] = {}
  /\ \A a \in App : Current(a)' = {} => InstalledNow'[a] = {}
<1>1. (\A a \in App : ~OperationBusy(a) /\ ~TransitionBusy(a) => JobsNow[a] = {})'
  BY NoJob, PTL
<1>2. (\A a \in App : Current(a) = {} => InstalledNow[a] = {})'
  BY NothingInstalled, PTL
<1>3. QED
  BY <1>1, <1>2

(***************************************************************************)
(* What is settled, and that a new row is a new job.                       *)
(***************************************************************************)
SettledOperations == {o \in DOMAIN operation : ~ActiveOperation(o)}

SettledTransitions == {t \in DOMAIN transition : ~ActiveTransition(t)}

LEMMA SettledIs ==
  \A x : x \in SettledNow <=>
    \/ \E o \in SettledOperations : x = <<"operation", o, operation[o].status>>
    \/ \E t \in SettledTransitions : x = <<"transition", t, transition[t].status>>
  BY DEF SettledNow, SettledOperations, SettledTransitions

LEMMA SettledThen ==
  \A x : x \in SettledNow' <=>
    \/ \E o \in SettledOperations' : x = <<"operation", o, operation'[o].status>>
    \/ \E t \in SettledTransitions' : x = <<"transition", t, transition'[t].status>>
  BY DEF SettledNow, SettledOperations, SettledTransitions

LEMMA JobRow ==
  ASSUME NEW a \in App, NEW k \in JobsNow[a]
  PROVE  \/ k.kind = "operation" /\ k.id \in DOMAIN operation
         \/ k.kind = "transition" /\ k.id \in DOMAIN transition
<1>1. \/ \E o \in DOMAIN operation : k = OperationJob(o)
      \/ \E t \in DOMAIN transition : k = TransitionJob(t)
  BY DEF JobsNow
<1>2. CASE \E o \in DOMAIN operation : k = OperationJob(o)
  BY <1>2 DEF OperationJob
<1>3. CASE \E t \in DOMAIN transition : k = TransitionJob(t)
  BY <1>3 DEF TransitionJob
<1>4. QED
  BY <1>1, <1>2, <1>3

LEMMA FreshOperation ==
  ASSUME NEW o, o \notin DOMAIN operation, NEW j, j.kind = "operation", j.id = o
  PROVE  ~Register!Known(j)
<1>1. \A outcome : <<"operation", o, outcome>> \notin SettledNow
  BY SettledIs DEF SettledOperations
<1>2. QED
  BY <1>1, JobRow DEF Register!Known, Register!Ended

LEMMA FreshTransition ==
  ASSUME NEW t, t \notin DOMAIN transition, NEW j, j.kind = "transition", j.id = t
  PROVE  ~Register!Known(j)
<1>1. \A outcome : <<"transition", t, outcome>> \notin SettledNow
  BY SettledIs DEF SettledTransitions
<1>2. QED
  BY <1>1, JobRow DEF Register!Known, Register!Ended

LEMMA SettledKept ==
  ASSUME SettledOperations' = SettledOperations, SettledTransitions' = SettledTransitions,
         \A o \in SettledOperations : operation'[o].status = operation[o].status,
         \A t \in SettledTransitions : transition'[t].status = transition[t].status
  PROVE  SettledNow' = SettledNow
  BY SettledIs, SettledThen

LEMMA OperationSettled ==
  ASSUME NEW o \in DOMAIN operation, ActiveOperation(o), UNCHANGED transition,
         DOMAIN operation' = DOMAIN operation,
         \A p \in DOMAIN operation \ {o} : operation'[p] = operation[p],
         operation'[o].status \in Terminal
  PROVE  SettledNow' = SettledNow \cup {<<"operation", o, operation'[o].status>>}
<1>1. SettledOperations' = SettledOperations \cup {o} /\ o \notin SettledOperations
  BY DEF SettledOperations, ActiveOperation
<1>2. SettledTransitions' = SettledTransitions
  BY DEF SettledTransitions, ActiveTransition
<1>3. \A p \in SettledOperations : operation'[p].status = operation[p].status
  BY <1>1 DEF SettledOperations
<1>4. QED
  BY <1>1, <1>2, <1>3, SettledIs, SettledThen

LEMMA TransitionSettled ==
  ASSUME NEW t \in DOMAIN transition, ActiveTransition(t), UNCHANGED operation,
         DOMAIN transition' = DOMAIN transition,
         \A s \in DOMAIN transition \ {t} : transition'[s] = transition[s],
         transition'[t].status \in Terminal
  PROVE  SettledNow' = SettledNow \cup {<<"transition", t, transition'[t].status>>}
<1>1. SettledTransitions' = SettledTransitions \cup {t} /\ t \notin SettledTransitions
  BY DEF SettledTransitions, ActiveTransition
<1>2. SettledOperations' = SettledOperations
  BY DEF SettledOperations, ActiveOperation
<1>3. \A s \in SettledTransitions : transition'[s].status = transition[s].status
  BY <1>1 DEF SettledTransitions
<1>4. QED
  BY <1>1, <1>2, <1>3, SettledIs, SettledThen

(***************************************************************************)
(* A step that leaves the four tables alone shows nothing.                 *)
(***************************************************************************)
LEMMA QuietRegister ==
  ASSUME UNCHANGED <<installation, operation, transition>>,
         \A t \in DOMAIN transition : Published(t)' <=> Published(t)
  PROVE  UNCHANGED Register!vars
<1>1. InstalledNow' = InstalledNow /\ RemovedNow' = RemovedNow
  BY DEF InstalledNow, RemovedNow, Current, Shown
<1>2. SettledNow' = SettledNow
  BY DEF SettledNow, ActiveOperation, ActiveTransition
<1>3. \A t \in DOMAIN transition : TransitionJob(t)' = TransitionJob(t)
  <2>1. ASSUME NEW t \in DOMAIN transition
        PROVE  (<<"transition", t, "published">> \in audit)' = (<<"transition", t, "published">> \in audit)
    BY DEF Published
  <2>2. QED
    BY <2>1 DEF TransitionJob
<1>4. \A o : OperationJob(o)' = OperationJob(o)
  BY DEF OperationJob
<1>5. JobsNow' = JobsNow
  BY <1>3, <1>4 DEF JobsNow, ActiveOperation, ActiveTransition
<1>6. QED
  BY <1>1, <1>2, <1>5 DEF Register!vars

(***************************************************************************)
(* A submission is an acceptance: of an operation on the current           *)
(* installation, of one that installs, or of one on an absent application. *)
(***************************************************************************)
Reserved(c, i) ==
  /\ \A j \in DOMAIN installation :
       /\ j \in DOMAIN installation' /\ Shown(j)' = Shown(j)
       /\ installation[j].app # c.app => installation'[j] = installation[j]
       /\ installation'[j].app = installation[j].app
       /\ installation'[j].state = installation[j].state
  /\ i \in DOMAIN installation \/ i = None => DOMAIN installation' = DOMAIN installation
  /\ i \notin DOMAIN installation /\ i # None =>
       /\ DOMAIN installation' = DOMAIN installation \cup {i}
       /\ Shown(i)' = [id |-> i, state |-> "pending", version |-> c.version]
       /\ installation'[i].state = "pending" /\ installation'[i].app = c.app

LEMMA SubmitShows ==
  ASSUME Inv, NEW o, NEW c, NEW i, Submits(o, c, i)
  PROVE  Reserved(c, i)
<1> DEFINE row == ReservedRow(c, i)
           new == BoundRow(c, o, row)
<1>1. c \in Command /\ i \in InstallationID \cup {None} /\ reserveInstallation(c, i)
  BY DEF Submits, submit
<1>2. None \notin DOMAIN installation
  BY NoneIsNoRow DEF Inv, TypeOK, TablesTypeOK
<1>3. CASE i = None
  <2>1. installation' = installation
    BY <1>3 DEF Submits, submit
  <2>2. QED
    BY <1>2, <1>3, <2>1 DEF Reserved, Shown
<1>4. CASE i # None
  <2>1. installation' = Insert(installation, i, new)
    BY <1>4 DEF Submits, submit
  <2>2. row \in InstallationRow
    <3>1. CASE i \in DOMAIN installation
      BY <3>1 DEF ReservedRow, Inv, TypeOK, TablesTypeOK
    <3>2. CASE i \notin DOMAIN installation
      <4>1. OrgOf[c.user] \in Org
        BY <1>1, InstallationsAssumption DEF Command
      <4>2. QED
        BY <1>1, <3>2, <4>1 DEF ReservedRow, PendingRow, Command, InstallationRow
    <3>3. QED
      BY <3>1, <3>2
  <2>3. new.app = row.app /\ new.version = row.version /\ new.state = row.state
    BY <2>2, BoundRowKeeps
  <2>4. i \in DOMAIN installation => row = installation[i] /\ row.app = c.app
    BY <1>1, <1>4 DEF ReservedRow, reserveInstallation, Current, Fresh
  <2>5. i \notin DOMAIN installation =>
          row.state = "pending" /\ row.version = c.version /\ row.app = c.app
    BY DEF ReservedRow, PendingRow
  <2> HIDE DEF new, row
  <2>6. /\ DOMAIN installation' = DOMAIN installation \cup {i} /\ installation'[i] = new
        /\ \A j \in DOMAIN installation \ {i} : installation'[j] = installation[j]
    BY <2>1 DEF Insert
  <2>7. ASSUME NEW j \in DOMAIN installation
        PROVE  /\ installation'[j].state = installation[j].state
               /\ installation'[j].version = installation[j].version
               /\ installation'[j].app = installation[j].app
               /\ installation[j].app # c.app => installation'[j] = installation[j]
    BY <2>3, <2>4, <2>6
  <2>8. \A j \in DOMAIN installation : Shown(j)' = Shown(j)
    BY <2>7 DEF Shown
  <2>9. i \notin DOMAIN installation =>
          Shown(i)' = [id |-> i, state |-> "pending", version |-> c.version]
    BY <2>3, <2>5, <2>6 DEF Shown
  <2>10. QED
    BY <1>4, <2>3, <2>5, <2>6, <2>7, <2>8, <2>9 DEF Reserved
<1>5. QED
  BY <1>3, <1>4

LEMMA OperationTaken ==
  ASSUME Inv, Inv', NEW o, NEW c, NEW i, Submits(o, c, i)
  PROVE  /\ c.app \in App /\ o \in OperationID /\ c.action \in Action /\ c.version \in Version
         /\ JobsNow[c.app] = {}
         /\ Register!Take(c.app, Register!Operation(o, i, c.action, c.version))
         /\ OnlyAt(c.app)
         /\ RemovedNow' = RemovedNow
<1>1. /\ o \in OperationID /\ o \notin DOMAIN operation
      /\ c \in Command /\ c.app \in App /\ c.action \in Action /\ c.version \in Version
  BY DEF Submits, NewID, Fresh, Command
<1>2. PICK row :
        /\ operation' = Insert(operation, o, row)
        /\ row.app = c.app /\ row.installation = i /\ row.action = c.action
        /\ row.version = c.version /\ row.status = "accepted"
  BY DEF Submits, submit
<1>3. /\ DOMAIN operation' = DOMAIN operation \cup {o} /\ operation'[o] = row
      /\ \A p \in DOMAIN operation : operation'[p] = operation[p]
  BY <1>1, <1>2 DEF Insert
<1>4. UNCHANGED transition /\ \A t : Published(t)' <=> Published(t)
  <2>1. audit' = audit \cup {<<"operation", o, "accepted">>} /\ UNCHANGED transition
    BY DEF Submits, submit
  <2>2. \A t : <<"operation", o, "accepted">> # <<"transition", t, "published">>
    OBVIOUS
  <2>3. QED
    BY <2>1, <2>2 DEF Published
<1>5. OnlyAt(c.app)
  <2>1. /\ \A j \in DOMAIN installation :
             /\ j \in DOMAIN installation'
             /\ installation[j].app # c.app => installation'[j] = installation[j]
             /\ installation'[j].app = installation[j].app
        /\ \A j \in DOMAIN installation' : installation'[j].app # c.app => j \in DOMAIN installation
    <3>1. Reserved(c, i)
      BY SubmitShows
    <3>2. QED
      BY <3>1 DEF Reserved
  <2>2. QED
    BY <1>2, <1>3, <1>4, <2>1 DEF OnlyAt
<1>6. JobsNow[c.app] = {}
  BY <1>1, NoJob DEF Submits, submit
<1>7. JobsNow'[c.app] = {Register!Operation(o, i, c.action, c.version)}
  <2>1. ActiveOperation(o)'
    BY <1>2, <1>3 DEF ActiveOperation, Terminal
  <2>2. JobsNow'[operation'[o].app] = {OperationJob(o)'}
    BY <1>3, <2>1, ShownThen
  <2>3. OperationJob(o)' = Register!Operation(o, i, c.action, c.version)
    BY <1>2, <1>3 DEF OperationJob, Register!Operation
  <2>4. QED
    BY <1>2, <1>3, <2>2, <2>3
<1>8. SettledNow' = SettledNow
  <2>1. SettledOperations' = SettledOperations
    BY <1>1, <1>2, <1>3 DEF SettledOperations, ActiveOperation, Terminal
  <2>2. SettledTransitions' = SettledTransitions
    BY <1>4 DEF SettledTransitions, ActiveTransition
  <2>3. QED
    BY <1>3, <1>4, <2>1, <2>2, SettledKept DEF SettledOperations
<1>9. PICK j : j = Register!Operation(o, i, c.action, c.version)
  OBVIOUS
<1>10. j.kind = "operation" /\ j.id = o
  BY <1>9 DEF Register!Operation
<1>11. ~Register!Known(j)
  BY <1>1, <1>10, FreshOperation
<1>12. JobsNow' = [JobsNow EXCEPT ![c.app] = {j}]
  BY <1>1, <1>5, <1>7, <1>9, Elsewhere
<1>13. Register!Take(c.app, j)
  BY <1>8, <1>11, <1>12 DEF Register!Take
<1>14. RemovedNow' = RemovedNow
  BY SubmitShows DEF Reserved, RemovedNow
<1>15. QED
  BY <1>1, <1>5, <1>6, <1>9, <1>13, <1>14

LEMMA SubmitRefines ==
  ASSUME Inv, Inv', NEW o, NEW c, NEW i, Submits(o, c, i)
  PROVE  Register!JobStep
<1>1. PICK a, action, v : a = c.app /\ action = c.action /\ v = c.version
  OBVIOUS
<1>2. /\ a \in App /\ o \in OperationID /\ action \in Action /\ v \in Version
      /\ JobsNow[a] = {} /\ Register!Take(a, Register!Operation(o, i, action, v))
      /\ OnlyAt(a) /\ RemovedNow' = RemovedNow
  BY <1>1, OperationTaken
<1>3. InstalledNow' = [InstalledNow EXCEPT ![a] = InstalledNow'[a]]
  BY <1>2, Elsewhere
<1>4. InstalledNow = [b \in App |-> InstalledNow[b]]
  BY DEF InstalledNow
<1>5. reserveInstallation(c, i) /\ None \notin DOMAIN installation
  BY NoneIsNoRow DEF Submits, submit, Inv, TypeOK, TablesTypeOK
<1>6. CASE i \in Current(a) /\ Reusable(c, i)
  <2>1. /\ i \in DOMAIN installation /\ i \in DOMAIN installation' /\ Shown(i)' = Shown(i)
        /\ installation[i].app = a /\ installation[i].state # "removed"
        /\ installation'[i].app = a /\ installation'[i].state # "removed"
    BY <1>1, <1>6, SubmitShows DEF Reserved, Current
  <2>2. InstalledNow[a] = {Shown(i)} /\ InstalledNow'[a] = {Shown(i)'}
    BY <2>1, OneInstalled, ShownThen
  <2>3. InstalledNow' = InstalledNow
    BY <1>2, <1>3, <1>4, <2>1, <2>2
  <2>4. /\ Shown(i).id = i /\ Shown(i).version = installation[i].version
        /\ Shown(i).state = installation[i].state
    BY DEF Shown
  <2>5. v # installation[i].version => action \in {"upgrade", "adopt"} /\ installation[i].state = "installed"
    BY <1>1, <1>6 DEF Reusable, legacyVersionAdoption, videoInstalledSourceRecovery
  <2>6. Register!AcceptOperation(a, o, action, v)
    BY <1>2, <2>2, <2>3, <2>4, <2>5 DEF Register!AcceptOperation
  <2>7. QED
    BY <1>2, <2>6 DEF Register!JobStep, Register!Accept
<1>7. CASE /\ Current(a) = {} /\ action \in {"install", "start", "adopt"}
           /\ i # None /\ Fresh(i, installation)
  <2>1. i \notin DOMAIN installation /\ i \in InstallationID
    BY <1>7 DEF Fresh, Submits
  <2>2. /\ DOMAIN installation' = DOMAIN installation \cup {i}
        /\ Shown(i)' = [id |-> i, state |-> "pending", version |-> v]
        /\ installation'[i].state = "pending" /\ installation'[i].app = a
    <3>1. /\ DOMAIN installation' = DOMAIN installation \cup {i}
          /\ Shown(i)' = [id |-> i, state |-> "pending", version |-> c.version]
          /\ installation'[i].state = "pending" /\ installation'[i].app = c.app
      BY <1>7, <2>1, SubmitShows DEF Reserved
    <3>2. QED
      BY <1>1, <3>1
  <2>3. InstalledNow[a] = {}
    BY <1>2, <1>7, NothingInstalled
  <2>4. InstalledNow'[a] = {[id |-> i, state |-> "pending", version |-> v]}
    BY <2>2, ShownThen
  <2>5. \A b \in App : \A x \in InstalledNow[b] : x.id \in DOMAIN installation
    BY DEF InstalledNow, Current, Shown
  <2>6. Register!Unused(i)
    BY <2>1, <2>5 DEF Register!Unused, RemovedNow
  <2>7. InstalledNow' = [InstalledNow EXCEPT ![a] = {[id |-> i, state |-> "pending", version |-> v]}]
    BY <1>3, <2>4
  <2>8. Register!AcceptInstall(a, o, i, action, v)
    BY <1>2, <1>7, <2>3, <2>6, <2>7 DEF Register!AcceptInstall
  <2>9. QED
    BY <1>2, <2>1, <2>8 DEF Register!JobStep, Register!Accept
<1>8. CASE /\ Current(a) = {} /\ action \notin {"install", "start", "adopt"} /\ i = None
  <2>1. installation' = installation
    BY <1>8 DEF Submits, submit
  <2>2. InstalledNow' = InstalledNow /\ InstalledNow[a] = {}
    BY <1>2, <1>8, <2>1, NothingInstalled DEF InstalledNow, Current, Shown
  <2>3. Register!AcceptAbsent(a, o, action, v)
    BY <1>2, <1>8, <2>2 DEF Register!AcceptAbsent
  <2>4. QED
    BY <1>2, <2>3 DEF Register!JobStep, Register!Accept
<1>9. QED
  BY <1>1, <1>5, <1>6, <1>7, <1>8 DEF reserveInstallation

(***************************************************************************)
(* The row a result leaves.                                                *)
(***************************************************************************)
LEMMA ProgressIs ==
  ASSUME NEW o, NEW row \in InstallationRow, row.state # "removed", NEW result,
         row.version # operation[o].version /\ result = "succeeded" =>
           row.state = "installed" /\ operation[o].action # "delete"
  PROVE  /\ result = "running" => ProgressRow(o, row, result) = row
         /\ result = "failed" =>
              /\ ProgressRow(o, row, result).version = row.version
              /\ ProgressRow(o, row, result).state =
                   IF row.state = "installed" THEN "installed" ELSE "failed"
         /\ result = "succeeded" /\ operation[o].action = "delete" =>
              ProgressRow(o, row, result).state = "removed"
         /\ result = "succeeded" /\ operation[o].action # "delete" =>
              /\ ProgressRow(o, row, result).version = operation[o].version
              /\ ProgressRow(o, row, result).state = "installed"
<1>1. PICK next : next = installationState(row.state, operation[o].action, result)
  OBVIOUS
<1>2. row.state \in {"pending", "installed", "failed"}
  BY DEF InstallationRow
<1>3. /\ result = "running" => next = row.state
      /\ result = "failed" => next = IF row.state = "installed" THEN "installed" ELSE "failed"
      /\ result = "succeeded" => next = IF operation[o].action = "delete" THEN "removed" ELSE "installed"
  BY <1>1, <1>2 DEF installationState
<1>4. PICK version, release : version = operation[o].version /\ release = operation[o].release
  OBVIOUS
<1>5. CASE VersionMoves(o, row, result)
  <2>1. result = "succeeded" /\ row.state = "installed" /\ operation[o].action # "delete"
    BY <1>5 DEF VersionMoves
  <2>2. \/ ProgressRow(o, row, result) =
             [row EXCEPT !.version = version, !.revision = row.revision + 1]
        \/ ProgressRow(o, row, result) =
             [row EXCEPT !.version = version, !.revision = row.revision + 1, !.release = release]
    BY <1>4, <1>5 DEF ProgressRow
  <2>3. QED
    BY <1>4, <2>1, <2>2 DEF InstallationRow
<1>6. CASE ~VersionMoves(o, row, result)
  <2>1. result = "succeeded" => row.version = operation[o].version
    BY <1>6 DEF VersionMoves
  <2>2. ProgressRow(o, row, result) =
          IF next # row.state THEN [row EXCEPT !.state = next, !.revision = row.revision + 1] ELSE row
    BY <1>1, <1>6 DEF ProgressRow
  <2>3. ProgressRow(o, row, result).state = next /\ ProgressRow(o, row, result).version = row.version
    BY <2>2 DEF InstallationRow
  <2>4. QED
    BY <1>3, <2>1, <2>2, <2>3
<1>7. QED
  BY <1>5, <1>6

(***************************************************************************)
(* What a recorded result does to the three tables.                        *)
(***************************************************************************)
Recorded(o, i) ==
  /\ o \in DOMAIN operation /\ ActiveOperation(o) /\ operation[o].app \in App
  /\ UNCHANGED <<transition, audit>>
  /\ DOMAIN operation' = DOMAIN operation
  /\ \A p \in DOMAIN operation \ {o} : operation'[p] = operation[p]
  /\ DOMAIN installation' = DOMAIN installation
  /\ \A j \in DOMAIN installation : j # i => installation'[j] = installation[j]
  /\ i \in DOMAIN installation \/ i = None
  /\ i \in DOMAIN installation =>
       /\ installation[i] \in InstallationRow
       /\ installation[i].app = operation[o].app /\ installation'[i].app = operation[o].app
       /\ installation[i].state # "removed"
  /\ \E result \in {"running", "succeeded", "failed"} :
       /\ operation'[o] = [operation[o] EXCEPT !.status = result]
       /\ i \in DOMAIN installation =>
            /\ installation'[i] = ProgressRow(o, installation[i], result)
            /\ installation[i].version # operation[o].version /\ result = "succeeded" =>
                 installation[i].state = "installed" /\ operation[o].action # "delete"

LEMMA RecordShows ==
  ASSUME Inv, ResultApplies, NEW w \in Worker, Records(w), NEW o, o = worker[w].op,
         NEW i, i = operation[o].installation
  PROVE  Recorded(o, i)
<1>1. o \in DOMAIN operation /\ ActiveOperation(o) /\ operation[o] \in OperationRow
  BY DEF Records, Record, Inv, ActiveJobsHeld, ActiveOperation, TypeOK, TablesTypeOK
<1>2. i \in InstallationID \cup {None} /\ operation[o].app \in App
  BY <1>1 DEF OperationRow
<1>3. None \notin DOMAIN installation
  BY NoneIsNoRow DEF Inv, TypeOK, TablesTypeOK
<1>4. PICK result : result = Result(worker[w].answer)
  OBVIOUS
<1>5. result \in {"running", "succeeded", "failed"}
  BY <1>4 DEF Records, Record, Result, Answer
<1>6. /\ operation' = [operation EXCEPT ![o].status = result]
      /\ recordInstallationProgress(o, result) /\ UNCHANGED <<transition, audit>>
  BY <1>4 DEF Records, Record
<1>7. /\ DOMAIN operation' = DOMAIN operation
      /\ \A p \in DOMAIN operation \ {o} : operation'[p] = operation[p]
      /\ operation'[o] = [operation[o] EXCEPT !.status = result]
  BY <1>1, <1>6
<1>8. CASE i = None
  <2>1. installation' = installation
    BY <1>3, <1>6, <1>8 DEF recordInstallationProgress, Applies
  <2>2. QED
    BY <1>1, <1>2, <1>3, <1>5, <1>6, <1>7, <1>8, <2>1 DEF Recorded
<1>9. CASE i # None
  <2>1. /\ i \in DOMAIN installation /\ installation[i] \in InstallationRow
        /\ installation[i].app = operation[o].app
    BY <1>1, <1>9 DEF Inv, SameOrganization, TypeOK, TablesTypeOK
  <2>2. Applies(o) /\ installation[i].state # "removed" /\ Recordable(o, i, "succeeded")
    BY <1>1, <1>9 DEF ResultApplies
  <2>3. installation' = [installation EXCEPT ![i] = ProgressRow(o, installation[i], result)]
    BY <1>6, <2>2 DEF recordInstallationProgress
  <2>4. ProgressRow(o, installation[i], result).app = installation[i].app
    BY <2>1, ProgressKeeps
  <2>5. installation[i].version # operation[o].version =>
          installation[i].state = "installed" /\ operation[o].action # "delete"
    BY <2>2 DEF Recordable, VersionMoves, IsUpgrade, legacyVersionAdoption
  <2>6. PICK new : new = ProgressRow(o, installation[i], result)
    OBVIOUS
  <2>7. /\ DOMAIN installation' = DOMAIN installation /\ installation'[i] = new
        /\ \A j \in DOMAIN installation : j # i => installation'[j] = installation[j]
    BY <2>1, <2>3, <2>6
  <2>8. QED
    BY <1>1, <1>2, <1>5, <1>6, <1>7, <1>9, <2>1, <2>2, <2>4, <2>5, <2>6, <2>7 DEF Recorded
<1>10. QED
  BY <1>8, <1>9

(***************************************************************************)
(* A recorded result is the success or the failure of its job; an answer   *)
(* "running" shows nothing.                                                *)
(***************************************************************************)
LEMMA RecordRefines ==
  ASSUME Inv, Inv', ResultApplies, NEW w \in Worker, Records(w)
  PROVE  Register!JobStep \/ UNCHANGED Register!vars
<1>1. PICK o, i : o = worker[w].op /\ i = operation[o].installation
  OBVIOUS
<1>2. PICK a, v : a = operation[o].app /\ v = operation[o].version
  OBVIOUS
<1>0. Recorded(o, i)
  BY <1>1, RecordShows
<1>3. /\ o \in DOMAIN operation /\ ActiveOperation(o) /\ a \in App
      /\ UNCHANGED <<transition, audit>>
      /\ DOMAIN operation' = DOMAIN operation
      /\ \A p \in DOMAIN operation \ {o} : operation'[p] = operation[p]
      /\ DOMAIN installation' = DOMAIN installation
      /\ \A j \in DOMAIN installation : j # i => installation'[j] = installation[j]
      /\ i \in DOMAIN installation \/ i = None
      /\ i \in DOMAIN installation =>
           /\ installation[i] \in InstallationRow
           /\ installation[i].app = a /\ installation'[i].app = a
           /\ installation[i].state # "removed"
  BY <1>0, <1>2 DEF Recorded
<1>4. PICK result \in {"running", "succeeded", "failed"} :
        /\ operation'[o] = [operation[o] EXCEPT !.status = result]
        /\ i \in DOMAIN installation =>
             /\ installation'[i] = ProgressRow(o, installation[i], result)
             /\ installation[i].version # operation[o].version /\ result = "succeeded" =>
                  installation[i].state = "installed" /\ operation[o].action # "delete"
  BY <1>0 DEF Recorded
<1>5. operation[o] \in OperationRow
  BY <1>3 DEF Inv, TypeOK, TablesTypeOK
<1>6. /\ operation'[o].status = result /\ operation'[o].app = a
      /\ OperationJob(o)' = OperationJob(o)
  BY <1>1, <1>2, <1>4, <1>5 DEF OperationRow, OperationJob
<1>7. None \notin DOMAIN installation
  BY NoneIsNoRow DEF Inv, TypeOK, TablesTypeOK
<1>8. OnlyAt(a)
  <2>1. \A j \in DOMAIN installation : installation[j].app # a => installation'[j] = installation[j]
    BY <1>3
  <2>2. \A j \in DOMAIN installation' : installation'[j].app # a => installation'[j] = installation[j]
    BY <1>3
  <2>3. QED
    BY <1>2, <1>3, <1>6, <2>1, <2>2 DEF OnlyAt, Published
<1>9. /\ InstalledNow' = [InstalledNow EXCEPT ![a] = InstalledNow'[a]]
      /\ JobsNow' = [JobsNow EXCEPT ![a] = JobsNow'[a]]
      /\ InstalledNow = [b \in App |-> InstalledNow[b]] /\ JobsNow = [b \in App |-> JobsNow[b]]
  BY <1>3, <1>8, Elsewhere DEF InstalledNow, JobsNow
<1>10. JobsNow[a] = {OperationJob(o)}
  BY <1>2, <1>3, OneOperationJob
<1>11. PICK j : j = OperationJob(o)
  OBVIOUS
<1>12. /\ j.kind = "operation" /\ j.id = o /\ j.on = i /\ j.to = v
       /\ j.action = operation[o].action
  BY <1>1, <1>2, <1>11 DEF OperationJob
<1>13. CASE result = "running"
  <2>1. ActiveOperation(o)'
    BY <1>3, <1>6, <1>13 DEF ActiveOperation, Terminal
  <2>2. JobsNow'[a] = {OperationJob(o)}
    BY <1>3, <1>6, <2>1, ShownThen
  <2>3. JobsNow' = JobsNow
    BY <1>3, <1>9, <1>10, <2>2
  <2>4. i \in DOMAIN installation => installation'[i] = installation[i]
    BY <1>3, <1>4, <1>13, ProgressIs
  <2>5. InstalledNow' = InstalledNow /\ RemovedNow' = RemovedNow
    BY <1>3, <2>4, SameInstallations
  <2>6. SettledNow' = SettledNow
    <3>1. SettledOperations' = SettledOperations /\ SettledTransitions' = SettledTransitions
      BY <1>3, <2>1 DEF SettledOperations, SettledTransitions, ActiveOperation, ActiveTransition
    <3>2. o \notin SettledOperations
      BY <1>3 DEF SettledOperations
    <3>3. QED
      BY <1>3, <3>1, <3>2, SettledKept DEF SettledOperations
  <2>7. QED
    BY <2>3, <2>5, <2>6 DEF Register!vars
<1>14. CASE result \in Terminal
  <2>1. JobsNow'[a] = {}
    <3>1. ~ActiveOperation(o)'
      BY <1>6, <1>14 DEF ActiveOperation
    <3>2. \A p \in DOMAIN operation \ {o} : ActiveOperation(p) => operation[p].app # a
      BY <1>2, <1>3 DEF Inv, OneActiveJob
    <3>3. ~OperationBusy(a)'
      BY <1>3, <3>1, <3>2 DEF OperationBusy, ActiveOperation
    <3>4. ~TransitionBusy(a)'
      BY <1>2, <1>3 DEF TransitionBusy, ActiveTransition, Inv, OneActiveJob
    <3>5. QED
      BY <1>3, <3>3, <3>4, IdleThen
  <2>2. JobsNow' = [JobsNow EXCEPT ![a] = {}]
    BY <1>9, <2>1
  <2>3. SettledNow' = SettledNow \cup {<<"operation", o, result>>}
    BY <1>3, <1>6, <1>14, OperationSettled
  <2>4. Register!Settle(a, j, result)
    BY <1>10, <1>11, <1>12, <2>2, <2>3 DEF Register!Settle, Register!Ended
  <2>5. CASE i = None
    <3>1. installation' = installation
      BY <1>1, <1>7, <2>5 DEF Records, Record, recordInstallationProgress, Applies
    <3>2. InstalledNow' = InstalledNow /\ RemovedNow' = RemovedNow
      BY <3>1 DEF InstalledNow, RemovedNow, Current, Shown
    <3>3. CASE result = "succeeded"
      <4>1. Register!Succeed(a, j)
        BY <1>12, <2>4, <2>5, <3>2, <3>3 DEF Register!Succeed
      <4>2. QED
        BY <1>3, <1>10, <1>11, <4>1 DEF Register!JobStep, Register!Proceed
    <3>4. CASE result = "failed"
      <4>1. \A x \in InstalledNow[a] : x.id # None
        BY <1>3, <1>7 DEF InstalledNow, Current, Shown
      <4>2. {IF x.id = j.on /\ x.state # "installed" THEN [x EXCEPT !.state = "failed"] ELSE x :
               x \in InstalledNow[a]} = InstalledNow[a]
        BY <1>12, <2>5, <4>1
      <4>3. Register!Fail(a, j)
        BY <1>9, <1>12, <2>4, <3>2, <3>4, <4>2 DEF Register!Fail
      <4>4. QED
        BY <1>3, <1>10, <1>11, <4>3 DEF Register!JobStep, Register!Proceed
    <3>5. QED
      BY <1>14, <3>3, <3>4 DEF Terminal
  <2>6. CASE i \in DOMAIN installation
    <3>1. InstalledNow[a] = {Shown(i)}
      BY <1>3, <2>6, OneInstalled
    <3>2. PICK row : row = installation'[i]
      OBVIOUS
    <3>3. /\ result = "failed" =>
               /\ row.version = installation[i].version
               /\ row.state = IF installation[i].state = "installed" THEN "installed" ELSE "failed"
          /\ result = "succeeded" /\ operation[o].action = "delete" => row.state = "removed"
          /\ result = "succeeded" /\ operation[o].action # "delete" =>
               row.version = v /\ row.state = "installed"
      BY <1>2, <1>3, <1>4, <2>6, <3>2, ProgressIs
    <3>4. /\ Shown(i).id = i /\ Shown(i).version = installation[i].version
          /\ Shown(i).state = installation[i].state
      BY DEF Shown
    <3>5. row.state # "removed" =>
            InstalledNow'[a] = {[id |-> i, state |-> row.state, version |-> row.version]}
      <4>1. Shown(i)' = [id |-> i, state |-> row.state, version |-> row.version]
        BY <3>2 DEF Shown
      <4>2. QED
        BY <1>3, <2>6, <3>2, <4>1, ShownThen
    <3>6. RemovedNow' = IF row.state = "removed" THEN RemovedNow \cup {i} ELSE RemovedNow
      BY <1>3, <2>6, <3>2 DEF RemovedNow
    <3>7. i # None
      BY <1>7, <2>6
    <3>8. CASE result = "succeeded" /\ operation[o].action = "delete"
      <4>1. row.state = "removed"
        BY <3>3, <3>8
      <4>2. Current(a)' = {}
        BY <1>3, <2>6, <3>2, <4>1 DEF Current, Inv, OneCurrentInstallation
      <4>3. InstalledNow'[a] = {}
        BY <1>3, <4>2, IdleThen
      <4>4. InstalledNow' = [InstalledNow EXCEPT ![a] = {}] /\ RemovedNow' = RemovedNow \cup {i}
        BY <1>9, <3>6, <4>1, <4>3
      <4>5. Register!Succeed(a, j)
        BY <1>12, <2>4, <3>1, <3>4, <3>7, <3>8, <4>4 DEF Register!Succeed
      <4>6. QED
        BY <1>3, <1>10, <1>11, <4>5 DEF Register!JobStep, Register!Proceed
    <3>9. CASE result = "succeeded" /\ operation[o].action # "delete"
      <4>1. row.version = v /\ row.state = "installed"
        BY <3>3, <3>9
      <4>2. InstalledNow'[a] = {Register!Installed(i, v)}
        BY <3>5, <4>1 DEF Register!Installed
      <4>3. InstalledNow' = [InstalledNow EXCEPT ![a] = {Register!Installed(i, v)}]
            /\ RemovedNow' = RemovedNow
        BY <1>9, <3>6, <4>1, <4>2
      <4>4. Register!Succeed(a, j)
        BY <1>12, <2>4, <3>1, <3>4, <3>7, <3>9, <4>3 DEF Register!Succeed
      <4>5. QED
        BY <1>3, <1>10, <1>11, <4>4 DEF Register!JobStep, Register!Proceed
    <3>10. CASE result = "failed"
      <4>1. /\ row.version = installation[i].version
            /\ row.state = IF installation[i].state = "installed" THEN "installed" ELSE "failed"
        BY <3>3, <3>10
      <4>2. InstalledNow'[a] = {[id |-> i, state |-> row.state, version |-> row.version]}
        BY <3>5, <4>1
      <4>3. (IF Shown(i).id = i /\ Shown(i).state # "installed"
             THEN [Shown(i) EXCEPT !.state = "failed"] ELSE Shown(i))
            = [id |-> i, state |-> row.state, version |-> row.version]
        BY <4>1 DEF Shown
      <4>4. {IF x.id = j.on /\ x.state # "installed" THEN [x EXCEPT !.state = "failed"] ELSE x :
               x \in InstalledNow[a]} = InstalledNow'[a]
        <5>1. PICK x : x = Shown(i)
          OBVIOUS
        <5>2. PICK y : y = [id |-> i, state |-> row.state, version |-> row.version]
          OBVIOUS
        <5>3. (IF x.id = j.on /\ x.state # "installed" THEN [x EXCEPT !.state = "failed"] ELSE x) = y
          BY <1>12, <4>3, <5>1, <5>2
        <5>4. InstalledNow[a] = {x} /\ InstalledNow'[a] = {y}
          BY <3>1, <4>2, <5>1, <5>2
        <5>5. QED
          BY <5>3, <5>4
      <4>5. RemovedNow' = RemovedNow
        BY <3>6, <4>1
      <4>6. Register!Fail(a, j)
        BY <1>9, <1>12, <2>4, <3>10, <4>4, <4>5 DEF Register!Fail
      <4>7. QED
        BY <1>3, <1>10, <1>11, <4>6 DEF Register!JobStep, Register!Proceed
    <3>11. QED
      BY <1>14, <3>8, <3>9, <3>10 DEF Terminal
  <2>7. QED
    BY <1>3, <2>5, <2>6
<1>15. QED
  BY <1>4, <1>13, <1>14 DEF Terminal

(***************************************************************************)
(* SubmitTransition is an acceptance too.  It only asks for an active      *)
(* transition of the installation; that is every active transition of the  *)
(* application, since it has one current installation.                     *)
(***************************************************************************)
LEMMA AcceptTransitionRefines ==
  ASSUME TransitionsInv, Inv', AcceptTransition, UNCHANGED opVars
  PROVE  Register!JobStep
<1>1. PICK t \in NewID(TransitionID, transition), i \in DOMAIN installation, u \in User, k \in Key,
           action \in {"upgrade", "rollback"}, source \in Release, target \in Release :
        SubmitTransition(u, k, i, action, source, target, t)
  BY DEF AcceptTransition
<1>2. PICK a : a = installation[i].app
  OBVIOUS
<1>3. /\ t \in TransitionID /\ t \notin DOMAIN transition
      /\ installation[i] \in InstallationRow /\ a \in App
      /\ source.version \in Version /\ target.version \in Version
  BY <1>1, <1>2 DEF NewID, Fresh, TransitionsInv, Inv, TypeOK, TablesTypeOK, InstallationRow, Release
<1>4. /\ installation[i].state = "installed" /\ installation[i].version = source.version
      /\ ~OperationBusy(a)
      /\ ~\E s \in DOMAIN transition : ActiveTransition(s) /\ transition[s].installation = i
      /\ compatibleTransition(action, source, target)
      /\ UNCHANGED <<installation, operation>>
      /\ audit' = audit \cup {<<"transition", t, "accepted">>}
  BY <1>1, <1>2 DEF SubmitTransition
<1>5. PICK tr :
        /\ transition' = Insert(transition, t, tr)
        /\ tr.app = a /\ tr.installation = i /\ tr.source = source /\ tr.target = target
        /\ tr.status = "accepted"
  BY <1>1, <1>2 DEF SubmitTransition
<1>6. /\ DOMAIN transition' = DOMAIN transition \cup {t} /\ transition'[t] = tr
      /\ \A s \in DOMAIN transition : transition'[s] = transition[s]
  BY <1>3, <1>5 DEF Insert
<1>7. \A s : Published(s)' <=> Published(s)
  <2>1. \A s : <<"transition", t, "accepted">> # <<"transition", s, "published">>
    OBVIOUS
  <2>2. QED
    BY <1>4, <2>1 DEF Published
<1>8. ~TransitionBusy(a)
  <2>1. ASSUME NEW s \in DOMAIN transition, ActiveTransition(s), transition[s].app = a
        PROVE  transition[s].installation = i
    <3>1. /\ transition[s].installation \in DOMAIN installation
          /\ installation[transition[s].installation].app = a
          /\ installation[transition[s].installation].state = "installed"
      BY <2>1 DEF TransitionsInv, Inv, SameOrganization, ActiveJobsHeld
    <3>2. QED
      BY <1>2, <1>4, <3>1 DEF TransitionsInv, Inv, OneCurrentInstallation
  <2>2. QED
    BY <1>4, <2>1 DEF TransitionBusy
<1>9. JobsNow[a] = {}
  BY <1>3, <1>4, <1>8, NoJob
<1>10. PICK j : j = Register!Transition(t, i, source.version, target.version, FALSE)
  OBVIOUS
<1>11. JobsNow'[a] = {j}
  <2>1. t \in Active'
    BY <1>5, <1>6 DEF Active, ActiveTransition, Terminal
  <2>2. JobsNow'[a] = {TransitionJob(t)'}
    BY <1>5, <1>6, <2>1, ShownThen
  <2>3. ~Published(t)'
    BY <1>3, <1>7 DEF TransitionsInv, PublishedExists
  <2>4. (<<"transition", t, "published">> \in audit)' = FALSE
    BY <2>3 DEF Published
  <2>5. TransitionJob(t)' = Register!Transition(t, i, source.version, target.version, FALSE)
    BY <1>5, <1>6, <2>4 DEF TransitionJob, Register!Transition
  <2>6. QED
    BY <1>10, <2>2, <2>5
<1>12. OnlyAt(a)
  BY <1>4, <1>5, <1>6, <1>7 DEF OnlyAt
<1>13. JobsNow' = [JobsNow EXCEPT ![a] = {j}]
  BY <1>3, <1>11, <1>12, Elsewhere
<1>14. SettledNow' = SettledNow
  <2>1. SettledTransitions' = SettledTransitions
    BY <1>3, <1>5, <1>6 DEF SettledTransitions, ActiveTransition, Terminal
  <2>2. SettledOperations' = SettledOperations
    BY <1>4 DEF SettledOperations, ActiveOperation
  <2>3. QED
    BY <1>4, <1>6, <2>1, <2>2, SettledKept DEF SettledTransitions
<1>15. InstalledNow' = InstalledNow /\ RemovedNow' = RemovedNow
  BY <1>4, SameInstallations
<1>16. j.kind = "transition" /\ j.id = t
  BY <1>10 DEF Register!Transition
<1>17. Register!Take(a, j)
  BY <1>3, <1>13, <1>14, <1>16, FreshTransition DEF Register!Take
<1>18. /\ InstalledNow[a] = {Shown(i)} /\ Shown(i).id = i
       /\ Shown(i).state = "installed" /\ Shown(i).version = source.version
  BY <1>2, <1>4, OneInstalled DEF TransitionsInv, Shown
<1>19. source.version # target.version
  <2>1. \A v \in Version : v \in Nat
    BY InstallationsAssumption
  <2>2. PICK v, w : v = source.version /\ w = target.version
    OBVIOUS
  <2>3. v \in Nat /\ w \in Nat /\ (w > v \/ w < v)
    BY <1>3, <1>4, <2>1, <2>2 DEF compatibleTransition
  <2>4. QED
    BY <2>2, <2>3
<1>20. Register!AcceptTransition(a, t, target.version)
  BY <1>10, <1>15, <1>17, <1>18, <1>19 DEF Register!AcceptTransition
<1>21. QED
  BY <1>3, <1>9, <1>20 DEF Register!JobStep, Register!Accept

(***************************************************************************)
(* A transition that moves on, and leaves its installation as it was or    *)
(* moves its version; its own application apart nothing shows.             *)
(***************************************************************************)
Advances(t, i) ==
  /\ t \in Active /\ i = transition[t].installation /\ i \in DOMAIN installation
  /\ UNCHANGED operation
  /\ DOMAIN transition' = DOMAIN transition
  /\ \A s \in DOMAIN transition : s # t => transition'[s] = transition[s]
  /\ transition'[t].app = transition[t].app
  /\ transition'[t].installation = i
  /\ transition'[t].source = transition[t].source
  /\ transition'[t].target = transition[t].target
  /\ \A s \in TransitionID : s # t => (Published(s)' <=> Published(s))
  /\ DOMAIN installation' = DOMAIN installation
  /\ \A j \in DOMAIN installation : j # i => installation'[j] = installation[j]
  /\ installation'[i].app = installation[i].app
  /\ installation'[i].state = installation[i].state

LEMMA AdvanceShows ==
  ASSUME TransitionsInv, Inv', NEW t, NEW i, Advances(t, i), NEW a, a = transition[t].app
  PROVE  /\ a \in App
         /\ JobsNow[a] = {TransitionJob(t)}
         /\ InstalledNow[a] = {Register!Installed(i, installation[i].version)}
         /\ InstalledNow' =
              [InstalledNow EXCEPT ![a] = {Register!Installed(i, installation'[i].version)}]
         /\ RemovedNow' = RemovedNow
         /\ transition'[t].status \notin Terminal =>
              /\ JobsNow' = [JobsNow EXCEPT ![a] = {TransitionJob(t)'}]
              /\ SettledNow' = SettledNow
         /\ transition'[t].status \in Terminal =>
              /\ JobsNow' = [JobsNow EXCEPT ![a] = {}]
              /\ SettledNow' = SettledNow \cup {<<"transition", t, transition'[t].status>>}
<1>1. /\ t \in DOMAIN transition /\ t \in TransitionID /\ ActiveTransition(t)
      /\ transition[t] \in TransitionRow /\ a \in App
  BY DEF Advances, Active, TransitionsInv, Inv, TypeOK, TablesTypeOK, TransitionRow
<1>2. /\ installation[i].app = a /\ installation[i].state = "installed"
      /\ installation'[i].app = a /\ installation'[i].state = "installed"
  BY <1>1 DEF Advances, TransitionsInv, Inv, SameOrganization, ActiveJobsHeld
<1>3. DOMAIN transition \subseteq TransitionID
  BY DEF TransitionsInv, Inv, TypeOK, TablesTypeOK
<1>4. OnlyAt(a)
  <2>1. /\ \A j \in DOMAIN installation : installation[j].app # a => installation'[j] = installation[j]
        /\ \A j \in DOMAIN installation' : installation'[j].app # a => installation'[j] = installation[j]
    BY <1>2 DEF Advances
  <2>2. /\ \A s \in DOMAIN transition : transition[s].app # a =>
             transition'[s] = transition[s] /\ (Published(s)' <=> Published(s))
        /\ \A s \in DOMAIN transition' : transition'[s].app # a => transition'[s] = transition[s]
    BY <1>3 DEF Advances
  <2>3. QED
    BY <2>1, <2>2 DEF Advances, OnlyAt
<1>5. /\ InstalledNow' = [InstalledNow EXCEPT ![a] = InstalledNow'[a]]
      /\ JobsNow' = [JobsNow EXCEPT ![a] = JobsNow'[a]]
  BY <1>1, <1>4, Elsewhere
<1>6. /\ InstalledNow[a] = {Shown(i)} /\ InstalledNow'[a] = {Shown(i)'}
  BY <1>2, OneInstalled, ShownThen DEF TransitionsInv, Advances
<1>7. /\ Shown(i) = Register!Installed(i, installation[i].version)
      /\ Shown(i)' = Register!Installed(i, installation'[i].version)
  BY <1>2 DEF Shown, Register!Installed
<1>8. JobsNow[a] = {TransitionJob(t)}
  BY OneTransitionJob DEF TransitionsInv, Advances
<1>9. RemovedNow' = RemovedNow
  BY <1>2 DEF RemovedNow, Advances
<1>10. ASSUME transition'[t].status \notin Terminal
       PROVE  JobsNow'[a] = {TransitionJob(t)'} /\ SettledNow' = SettledNow
  <2>1. t \in Active'
    BY <1>1, <1>10 DEF Active, ActiveTransition, Advances
  <2>2. JobsNow'[a] = {TransitionJob(t)'}
    BY <2>1, ShownThen DEF Advances
  <2>3. SettledTransitions' = SettledTransitions /\ t \notin SettledTransitions
    BY <1>1, <1>10 DEF SettledTransitions, ActiveTransition, Advances
  <2>4. SettledOperations' = SettledOperations
    BY DEF SettledOperations, ActiveOperation, Advances
  <2>5. SettledNow' = SettledNow
    BY <2>3, <2>4, SettledKept DEF SettledTransitions, Advances
  <2>6. QED
    BY <2>2, <2>5
<1>11. ASSUME transition'[t].status \in Terminal
       PROVE  /\ JobsNow'[a] = {}
              /\ SettledNow' = SettledNow \cup {<<"transition", t, transition'[t].status>>}
  <2>1. ~ActiveTransition(t)'
    BY <1>11 DEF ActiveTransition
  <2>2. \A s \in DOMAIN transition \ {t} : ActiveTransition(s) => transition[s].app # a
    BY <1>1 DEF TransitionsInv, Inv, OneActiveJob
  <2>3. ~TransitionBusy(a)'
    BY <2>1, <2>2 DEF TransitionBusy, ActiveTransition, Advances
  <2>4. ~OperationBusy(a)'
    BY <1>1 DEF OperationBusy, ActiveOperation, TransitionsInv, Inv, OneActiveJob, Advances
  <2>5. JobsNow'[a] = {}
    BY <1>1, <2>3, <2>4, IdleThen
  <2>6. SettledNow' = SettledNow \cup {<<"transition", t, transition'[t].status>>}
    BY <1>1, <1>11, TransitionSettled DEF Advances
  <2>7. QED
    BY <2>5, <2>6
<1>12. QED
  BY <1>1, <1>5, <1>6, <1>7, <1>8, <1>9, <1>10, <1>11

(***************************************************************************)
(* Only the release of a published target succeeds.                        *)
(***************************************************************************)
LEMMA SuccessIsPublished ==
  ASSUME NEW d, NEW out \in Outcomes(d), d.mode = StepMode(d.prior, d.installed),
         out.status = "succeeded"
  PROVE  InstalledAs(d.prior, d.installed) = "target"
<1>1. d.mode # "commit"
  BY DEF Outcomes, Outcome
<1>2. d.mode # "restore"
  BY DEF Outcomes, RestoreOutcome, Outcome
<1>3. d.mode # "prepare"
  BY DEF Outcomes, PrepareOutcome, Outcome
<1>4. d.mode \in {"release_source", "release_target"}
  BY <1>1, <1>2, <1>3 DEF Outcomes
<1>5. out \in ReleaseOutcome(d)
  BY <1>4 DEF Outcomes
<1>6. d.mode = "release_target"
  BY <1>4, <1>5 DEF ReleaseOutcome, Outcome
<1>7. QED
  BY <1>6 DEF StepMode

(***************************************************************************)
(* A commit publishes, completes, gives up, or shows nothing.              *)
(***************************************************************************)
LEMMA CommitRefines ==
  ASSUME TransitionsInv, Inv', NEW c \in Coordinator, commitTransition(c), UNCHANGED opVars
  PROVE  Register!JobStep \/ UNCHANGED Register!vars
<1>0. PICK t : t = coord[c].transition
  OBVIOUS
<1>1. PICK tr, i, a : tr = transition[t] /\ i = tr.installation /\ a = tr.app
  OBVIOUS
<1>2. PICK row : row = installation[i]
  OBVIOUS
<1>3. /\ t \in Active /\ i \in DOMAIN installation
      /\ coord[c].prior = tr /\ coord[c].installed = row
      /\ DOMAIN transition' = DOMAIN transition
      /\ \A s \in DOMAIN transition : s # t => transition'[s] = transition[s]
      /\ DOMAIN installation' = DOMAIN installation
      /\ \A j \in DOMAIN installation : j # i => installation'[j] = installation[j]
  BY <1>0, <1>1, <1>2, CommitMoves DEF TransitionsInv
<1>4. /\ tr \in TransitionRow /\ row \in InstallationRow
      /\ InstalledAs(tr, row) = IF Published(t) THEN "target" ELSE "original"
      /\ coord[c].mode = StepMode(tr, row)
      /\ \A s \in TransitionID : s # t => (Published(s)' <=> Published(s))
  BY <1>0, <1>1, <1>2, CommitPublishes
<1>5. PICK out \in Outcomes(coord[c]) : Commits(c, t, out)
  BY <1>0, CommitPublishes
<1>6. /\ transition'[t] = [tr EXCEPT !.status = out.status, !.phase = out.phase]
      /\ installation'[i] = IF out.version = None THEN row
                            ELSE [row EXCEPT !.version = out.version, !.revision = row.revision + 1]
      /\ OutcomeFits(out, coord[c])
      /\ Published(t)' <=> Published(t) \/ out.version # None
  BY <1>1, <1>2, <1>5 DEF Commits
<1>7. /\ \/ out.version = None
         \/ /\ out.version = tr.target.version /\ ~Published(t)
            /\ out.status = "running"
      /\ Published(t) /\ out.status \in Terminal => out.status = "succeeded"
      /\ out.status = "succeeded" => Published(t)
  <2>1. out.status = "succeeded" => Published(t)
    BY <1>3, <1>4, <1>5, SuccessIsPublished
  <2>2. QED
    BY <1>3, <1>4, <1>6, <2>1 DEF OutcomeFits, Terminal
<1>8. /\ transition'[t].source = tr.source /\ transition'[t].target = tr.target
      /\ transition'[t].installation = i /\ transition'[t].app = a
      /\ transition'[t].status = out.status
  BY <1>1, <1>4, <1>6 DEF TransitionRow
<1>9. /\ installation'[i].state = row.state /\ installation'[i].app = row.app
      /\ installation'[i].version = IF out.version = None THEN row.version ELSE out.version
  <2>1. CASE out.version = None
    BY <1>6, <2>1
  <2>2. CASE out.version # None
    <3>1. PICK version, revision : version = out.version /\ revision = row.revision + 1
      OBVIOUS
    <3>2. installation'[i] = [row EXCEPT !.version = version, !.revision = revision]
      BY <1>6, <2>2, <3>1
    <3>3. QED
      BY <1>4, <2>2, <3>1, <3>2 DEF InstallationRow
  <2>3. QED
    BY <2>1, <2>2
<1>10. operation' = operation
  BY DEF commitTransition
<1>11. Advances(t, i)
  BY <1>1, <1>2, <1>3, <1>4, <1>8, <1>9, <1>10 DEF Advances
<1>12. PICK v, w : v = row.version /\ w = installation'[i].version
  OBVIOUS
<1>13. /\ a \in App /\ JobsNow[a] = {TransitionJob(t)}
       /\ InstalledNow[a] = {Register!Installed(i, v)}
       /\ InstalledNow' = [InstalledNow EXCEPT ![a] = {Register!Installed(i, w)}]
       /\ RemovedNow' = RemovedNow
       /\ out.status \notin Terminal =>
            /\ JobsNow' = [JobsNow EXCEPT ![a] = {TransitionJob(t)'}]
            /\ SettledNow' = SettledNow
       /\ out.status \in Terminal =>
            /\ JobsNow' = [JobsNow EXCEPT ![a] = {}]
            /\ SettledNow' = SettledNow \cup {<<"transition", t, out.status>>}
  BY <1>1, <1>2, <1>8, <1>11, <1>12, AdvanceShows
<1>14. InstalledNow = [b \in App |-> InstalledNow[b]] /\ JobsNow = [b \in App |-> JobsNow[b]]
  BY DEF InstalledNow, JobsNow
<1>15. PICK j, from, to : /\ j = TransitionJob(t)
                          /\ from = tr.source.version /\ to = tr.target.version
  OBVIOUS
<1>16. PICK published \in BOOLEAN : /\ published <=> Published(t)
                                    /\ published = (<<"transition", t, "published">> \in audit)
  <2>1. CASE Published(t)
    <3>1. (<<"transition", t, "published">> \in audit) = TRUE
      BY <2>1 DEF Published
    <3>2. QED
      BY <2>1, <3>1
  <2>2. CASE ~Published(t)
    <3>1. (<<"transition", t, "published">> \in audit) = FALSE
      BY <2>2 DEF Published
    <3>2. QED
      BY <2>2, <3>1
  <2>3. QED
    BY <2>1, <2>2
<1>17. /\ j = Register!Transition(t, i, from, to, published)
       /\ j.kind = "transition" /\ j.id = t /\ j.on = i /\ j.from = from /\ j.to = to
       /\ j.published = published
  BY <1>1, <1>15, <1>16 DEF TransitionJob, Register!Transition
<1>18. v = IF published THEN to ELSE from
  BY <1>4, <1>12, <1>15, <1>16 DEF InstalledAs
<1>19. TransitionJob(t)' =
         Register!Transition(t, i, from, to, (<<"transition", t, "published">> \in audit)')
  BY <1>8, <1>15 DEF TransitionJob, Register!Transition
<1>20. CASE out.version # None
  <2>1. ~published /\ out.status = "running" /\ w = to
    BY <1>7, <1>9, <1>12, <1>15, <1>16, <1>20
  <2>2. (<<"transition", t, "published">> \in audit)' = TRUE
    BY <1>6, <1>20 DEF Published
  <2>3. TransitionJob(t)' = Register!Transition(t, i, from, to, TRUE)
    BY <1>19, <2>2
  <2>4. JobsNow' = [JobsNow EXCEPT ![a] = {Register!Transition(t, i, from, to, TRUE)}]
        /\ SettledNow' = SettledNow
    BY <1>13, <2>1, <2>3 DEF Terminal
  <2>5. Register!Publish(a, j)
    BY <1>13, <1>15, <1>17, <1>16, <1>18, <2>1, <2>4 DEF Register!Publish
  <2>6. QED
    BY <1>13, <1>15, <2>5 DEF Register!JobStep, Register!Proceed
<1>21. CASE out.version = None
  <2>1. w = v /\ (Published(t)' <=> Published(t))
    BY <1>2, <1>6, <1>9, <1>12, <1>21
  <2>2. InstalledNow' = InstalledNow
    BY <1>13, <1>14, <2>1
  <2>3. CASE out.status \notin Terminal
    <3>1. (<<"transition", t, "published">> \in audit)' = published
      BY <1>16, <2>1 DEF Published
    <3>2. TransitionJob(t)' = j
      BY <1>17, <1>19, <3>1
    <3>3. JobsNow' = JobsNow /\ SettledNow' = SettledNow
      BY <1>13, <1>14, <1>15, <2>3, <3>2
    <3>4. QED
      BY <1>13, <2>2, <3>3 DEF Register!vars
  <2>4. CASE out.status \in Terminal
    <3>1. Register!Settle(a, j, out.status)
      BY <1>13, <1>15, <1>17, <2>4 DEF Register!Settle, Register!Ended
    <3>2. CASE published
      <4>1. out.status = "succeeded"
        BY <1>7, <1>16, <2>4, <3>2
      <4>2. Register!Complete(a, j)
        BY <1>13, <1>17, <1>18, <2>2, <3>1, <3>2, <4>1 DEF Register!Complete
      <4>3. QED
        BY <1>13, <1>15, <4>2 DEF Register!JobStep, Register!Proceed
    <3>3. CASE ~published
      <4>1. out.status = "failed"
        BY <1>7, <1>16, <2>4, <3>3 DEF Terminal
      <4>2. Register!GiveUp(a, j)
        BY <1>13, <1>17, <1>18, <2>2, <3>1, <3>3, <4>1 DEF Register!GiveUp
      <4>3. QED
        BY <1>13, <1>15, <4>2 DEF Register!JobStep, Register!Proceed
    <3>4. QED
      BY <1>16, <3>2, <3>3
  <2>5. QED
    BY <2>3, <2>4
<1>22. QED
  BY <1>20, <1>21

(***************************************************************************)
(* A verified forward recovery ends its transition at the version of its   *)
(* rule; any other verdict shows nothing.                                  *)
(***************************************************************************)
LEMMA FinishRefines ==
  ASSUME TransitionsInv, Inv', NEW c \in Coordinator, finishForward(c), UNCHANGED opVars
  PROVE  Register!JobStep \/ UNCHANGED Register!vars
<1>0. PICK t, r : t = coord[c].transition /\ r = coord[c].recovery
  OBVIOUS
<1>1. PICK tr, i, a : tr = transition[t] /\ i = tr.installation /\ a = tr.app
  OBVIOUS
<1>2. PICK row, target : row = installation[i] /\ target = recovery[r].target
  OBVIOUS
<1>3. /\ t \in Active /\ i \in DOMAIN installation /\ r \in DOMAIN recovery
      /\ allowedWorldForward(tr, row, target)
      /\ DOMAIN transition' = DOMAIN transition
      /\ \A s \in DOMAIN transition : s # t => transition'[s] = transition[s]
      /\ DOMAIN installation' = DOMAIN installation
      /\ \A j \in DOMAIN installation : j # i => installation'[j] = installation[j]
  BY <1>0, <1>1, <1>2, FinishMoves DEF TransitionsInv
<1>4. \/ /\ UNCHANGED <<transition, installation>>
         /\ audit' = audit \cup {<<"recovery", r, "failed">>}
      \/ /\ transition'[t] = [tr EXCEPT !.status = "failed", !.phase = "completed"]
         /\ installation'[i] = [row EXCEPT !.version = target.version,
                                           !.revision = row.revision + 1]
         /\ audit' = audit \cup {<<"recovery", r, "succeeded">>}
  BY <1>0, <1>1, <1>2, FinishMoves DEF TransitionsInv
<1>5. \A s : Published(s)' <=> Published(s)
  <2>1. \A s, x : <<"recovery", r, x>> # <<"transition", s, "published">>
    OBVIOUS
  <2>2. QED
    BY <1>4, <2>1 DEF Published
<1>6. operation' = operation
  BY DEF finishForward
<1>7. CASE UNCHANGED <<transition, installation>>
  BY <1>5, <1>6, <1>7, QuietRegister
<1>8. CASE /\ transition'[t] = [tr EXCEPT !.status = "failed", !.phase = "completed"]
           /\ installation'[i] = [row EXCEPT !.version = target.version,
                                             !.revision = row.revision + 1]
  <2>1. tr \in TransitionRow /\ row \in InstallationRow /\ recovery[r] \in RecoveryRow
    BY <1>1, <1>2, <1>3 DEF TransitionsInv, Inv, TypeOK, TablesTypeOK, TransitionsTypeOK, Active
  <2>2. PICK v, revision : v = target.version /\ revision = row.revision + 1
    OBVIOUS
  <2>3. /\ transition'[t].source = tr.source /\ transition'[t].target = tr.target
        /\ transition'[t].installation = i /\ transition'[t].app = a
        /\ transition'[t].status = "failed"
    BY <1>1, <1>8, <2>1 DEF TransitionRow
  <2>4. installation'[i] = [row EXCEPT !.version = v, !.revision = revision]
    BY <1>8, <2>2
  <2>5. /\ installation'[i].state = row.state /\ installation'[i].app = row.app
        /\ installation'[i].version = v
    BY <2>1, <2>4 DEF InstallationRow
  <2>6. v \in Version
    BY <1>2, <2>1, <2>2 DEF RecoveryRow, Release
  <2>7. Advances(t, i)
    BY <1>1, <1>2, <1>3, <1>5, <1>6, <2>3, <2>5 DEF Advances
  <2>8. PICK from, to : from = tr.source.version /\ to = tr.target.version
    OBVIOUS
  <2>9. /\ [app |-> a, source |-> from, target |-> to, forward |-> v] \in ForwardRule
        /\ InstalledAs(tr, row) = "original"
    BY <1>1, <1>3, <2>2, <2>8 DEF allowedWorldForward
  <2>10. row.version = from
    BY <2>8, <2>9 DEF InstalledAs
  <2>11. ~Published(t)
    <3>1. from # to
      BY <1>1, <1>3, <2>8 DEF TransitionsInv, PhaseFits, Active
    <3>2. InstalledAs(tr, row) # "target"
      BY <2>9
    <3>3. QED
      BY <1>1, <1>2, <1>3, <3>2 DEF TransitionsInv, TransitionOwnsInstallation, Published
  <2>12. /\ a \in App /\ JobsNow[a] = {TransitionJob(t)}
         /\ InstalledNow[a] = {Register!Installed(i, from)}
         /\ InstalledNow' = [InstalledNow EXCEPT ![a] = {Register!Installed(i, v)}]
         /\ RemovedNow' = RemovedNow
         /\ JobsNow' = [JobsNow EXCEPT ![a] = {}]
         /\ SettledNow' = SettledNow \cup {<<"transition", t, "failed">>}
    BY <1>1, <1>2, <2>3, <2>5, <2>7, <2>10, AdvanceShows DEF Terminal
  <2>13. PICK j : j = TransitionJob(t)
    OBVIOUS
  <2>14. (<<"transition", t, "published">> \in audit) = FALSE
    BY <2>11 DEF Published
  <2>15. /\ j.kind = "transition" /\ j.id = t /\ j.on = i /\ j.from = from /\ j.to = to
         /\ j.published = FALSE
    BY <1>1, <2>8, <2>13, <2>14 DEF TransitionJob
  <2>16. Register!Settle(a, j, "failed")
    BY <2>12, <2>13, <2>15 DEF Register!Settle, Register!Ended
  <2>17. Register!Recover(a, j, v)
    BY <2>9, <2>12, <2>15, <2>16 DEF Register!Recover
  <2>18. QED
    BY <2>6, <2>12, <2>13, <2>17 DEF Register!JobStep, Register!Proceed
<1>9. QED
  BY <1>4, <1>7, <1>8

(***************************************************************************)
(* A forward recovery that is accepted shows nothing yet.                  *)
(***************************************************************************)
LEMMA AcceptRecoveryQuiet ==
  ASSUME AcceptRecovery, UNCHANGED opVars
  PROVE  UNCHANGED Register!vars
<1>1. PICK r : /\ UNCHANGED <<installation, operation, transition>>
               /\ audit' = audit \cup {<<"recovery", r, "accepted">>}
  BY DEF AcceptRecovery, acceptForward
<1>2. \A s : <<"recovery", r, "accepted">> # <<"transition", s, "published">>
  OBVIOUS
<1>3. \A s : Published(s)' <=> Published(s)
  BY <1>1, <1>2 DEF Published
<1>4. QED
  BY <1>1, <1>3, QuietRegister

LEMMA RegisterInitially == Init => Register!Init
<1> SUFFICES ASSUME Init PROVE Register!Init
  OBVIOUS
<1>1. DOMAIN installation = {} /\ DOMAIN operation = {} /\ DOMAIN transition = {}
  BY DEF Init, TablesInit, EmptyTable
<1>2. InstalledNow = [a \in App |-> {}] /\ RemovedNow = {}
  BY <1>1 DEF InstalledNow, RemovedNow, Current
<1>3. JobsNow = [a \in App |-> {}]
  BY <1>1 DEF JobsNow
<1>4. SettledNow = {}
  BY <1>1 DEF SettledNow
<1>5. QED
  BY <1>2, <1>3, <1>4 DEF Register!Init

(***************************************************************************)
(* Every step of the register takes, publishes or settles a job.           *)
(***************************************************************************)
LEMMA JobsMove == Register!JobStep => JobsNow' # JobsNow
<1> SUFFICES ASSUME NEW a \in App, Register!Accept(a) \/ Register!Proceed(a)
             PROVE  JobsNow'[a] # JobsNow[a]
  BY DEF Register!JobStep
<1>1. ASSUME NEW j PROVE [JobsNow EXCEPT ![a] = j][a] = j
  BY DEF JobsNow
<1>2. ASSUME NEW j, Register!Take(a, j) PROVE JobsNow'[a] # {}
  BY <1>1, <1>2 DEF Register!Take
<1>3. CASE Register!Accept(a)
  BY <1>2, <1>3 DEF Register!Accept, Register!AcceptInstall, Register!AcceptAbsent,
     Register!AcceptOperation, Register!AcceptTransition
<1>4. ASSUME NEW j, NEW outcome, Register!Settle(a, j, outcome)
      PROVE  JobsNow'[a] # JobsNow[a]
  BY <1>1, <1>4 DEF Register!Settle
<1>5. ASSUME NEW j, Register!Publish(a, j) PROVE JobsNow'[a] # JobsNow[a]
  BY <1>1, <1>5 DEF Register!Publish, Register!Transition
<1>6. CASE Register!Proceed(a)
  BY <1>4, <1>5, <1>6 DEF Register!Proceed, Register!Succeed, Register!Fail,
     Register!Complete, Register!GiveUp, Register!Recover
<1>7. QED
  BY <1>3, <1>6

LEMMA RegisterStep ==
  ResultsInv /\ [Next]_vars => [Register!Next]_(Register!vars)
<1> SUFFICES ASSUME ResultsInv, [Next]_vars
             PROVE  Register!JobStep \/ UNCHANGED Register!vars
  BY JobsMove DEF Register!Next
<1>1. TransitionsInv /\ ResultApplies /\ Inv
  BY DEF ResultsInv, TransitionsInv
<1>2. Inv'
  BY <1>1, InvStep
<1>3. ASSUME UNCHANGED <<installation, operation, transition, audit, recovery>>
      PROVE  UNCHANGED Register!vars
  BY <1>3, QuietRegister DEF Published
<1>4. ASSUME \E o, c, i : Submits(o, c, i) PROVE Register!JobStep
  BY <1>1, <1>2, <1>4, SubmitRefines
<1>5. ASSUME NEW w \in Worker, Records(w) PROVE Register!JobStep \/ UNCHANGED Register!vars
  BY <1>1, <1>2, <1>5, RecordRefines
<1>6. ASSUME AcceptTransition, UNCHANGED opVars PROVE Register!JobStep
  BY <1>1, <1>2, <1>6, AcceptTransitionRefines
<1>7. ASSUME NEW c \in Coordinator, commitTransition(c) \/ finishForward(c), UNCHANGED opVars
      PROVE  Register!JobStep \/ UNCHANGED Register!vars
  BY <1>1, <1>2, <1>7, CommitRefines, FinishRefines
<1>8. QED
  BY <1>1, <1>3, <1>4, <1>5, <1>6, <1>7, AcceptRecoveryQuiet, StepKinds, QuietSteps

(***************************************************************************)
(* The lifecycle implements the register of the applications: whatever     *)
(* workers, coordinators, Runtime and restarts do to the tables, an        *)
(* application changes only by the acceptance and the end of its one job,  *)
(* by the publication of a transition or by a verified forward recovery    *)
(* (submit, SubmitTransition, recordInstallationProgress, commitTransition *)
(* and finishForward; every other step shows nothing).                     *)
(***************************************************************************)
THEOREM LifecycleIsARegister == Spec => ImplementsAppRegister
<1>1. Init => Register!Init
  BY RegisterInitially
<1>2. Spec => []ResultsInv
  BY TransitionsInvariance, ResultsApply, PTL DEF ResultsInv
<1>3. ResultsInv /\ [Next]_vars => [Register!Next]_(Register!vars)
  BY RegisterStep
<1>4. QED
  BY <1>1, <1>2, <1>3, PTL DEF Spec, ImplementsAppRegister, Register!Spec
=============================================================================
