----------------------------- MODULE Transitions -----------------------------
(***************************************************************************)
(* Managed upgrades and rollbacks of an installed application              *)
(* (internal/operations/transitions.go, transition_dispatch.go,            *)
(* transition_worker.go, transition_transport.go) and the forward recovery *)
(* of one that cannot be restored (forward_recovery.go).                   *)
(*                                                                         *)
(* A coordinator takes the advisory lock core-transition:<op> on a pooled  *)
(* connection, reads the transition and its installation, calls Runtime    *)
(* without any row lock, and commits on the same connection.  Losing the   *)
(* connection loses both the lock and the commit, but not the request,     *)
(* which Runtime may still execute late.                                   *)
(***************************************************************************)
EXTENDS Installations

CONSTANTS Coordinator,      \* processes (and request handlers) of Core
          ForwardRule,      \* registered forward recoveries
          MaxRecoveries, MaxRestarts \* named bounds

RecoveryID == 1..MaxRecoveries

ASSUME TransitionsAssumption ==
  /\ MaxRecoveries \in Nat /\ MaxRestarts \in Nat
  /\ ForwardRule \subseteq [app : App, source : Version, target : Version, forward : Version]

VARIABLES
  recovery,  \* station.app_installation_forward_recoveries
  coord,     \* the dispatch each coordinator has under way
  cursor,    \* RunTransitions' local cursor, 0 for the empty string
  restarts,  \* how often a process was restarted
  journal,   \* Runtime's durable record of each transition (external)
  verdict,   \* Runtime's durable verdict on each forward recovery (external)
  late       \* requests abandoned by Core that Runtime has not executed

trVars == <<recovery, coord, cursor, restarts, journal, verdict, late>>

Stages == <<"checking", "sealing", "applying", "verifying", "publishing">>

Mode == {"commit", "prepare", "restore", "release_source", "release_target", "verify_forward"}

Progress == {"checking", "sealing", "applying", "verifying", "prepared", "rejected",
             "recovery_required", "restoring", "restored", "releasing", "released", "verified"}

JournalPhase ==
  {"none", "checking", "sealing", "applying", "verifying", "prepared", "rejected",
   "recovery_required", "restoring", "restored", "releasing_source", "released_source",
   "releasing_target", "released_target", "forwarded"}

RecoveryRow ==
  [transition : TransitionID, user : User, key : Key, revision : Nat,
   target : Release, state : {"pending", "succeeded", "failed"}]

Request == [transition : TransitionID, mode : Mode \ {"commit"}, recovery : RecoveryID \cup {None}]

(***************************************************************************)
(* What a dispatch keeps between its reads and its commit: the rows it     *)
(* read (prior), the mode it chose and Runtime's answer.                   *)
(***************************************************************************)
DispatchRecord ==
  [transition : TransitionID, prior : TransitionRow, installed : InstallationRow,
   mode : Mode, recovery : RecoveryID \cup {None}, answer : Progress \cup {None}]

TransitionsTypeOK ==
  /\ DOMAIN recovery \subseteq RecoveryID
  /\ \A r \in DOMAIN recovery : recovery[r] \in RecoveryRow
  /\ coord \in [Coordinator -> DispatchRecord \cup {None}]
  /\ cursor \in [Coordinator -> TransitionID \cup {0}]
  /\ restarts \in 0..MaxRestarts
  /\ journal \in [TransitionID -> JournalPhase]
  /\ verdict \in [RecoveryID -> {"none", "verified", "rejected"}]
  /\ late \subseteq Request

TransitionsInit ==
  /\ recovery = EmptyTable
  /\ coord = [c \in Coordinator |-> None]
  /\ cursor = [c \in Coordinator |-> 0]
  /\ restarts = 0
  /\ journal = [t \in TransitionID |-> "none"]
  /\ verdict = [r \in RecoveryID |-> "none"]
  /\ late = {}

-----------------------------------------------------------------------------
(***************************************************************************)
(* Acceptance.  The registry may offer any content for a release; an       *)
(* incompatible pair (compatibleTransition) is refused, and so is content  *)
(* that differs from what an earlier transition recorded for the same      *)
(* release reference (retainTransitionReferences).                         *)
(***************************************************************************)
compatibleTransition(action, source, target) ==
  IF action = "upgrade" THEN target.version > source.version
                        ELSE target.version < source.version

Retained(a, release) ==
  \A t \in DOMAIN transition :
    transition[t].app = a =>
      \A s \in {transition[t].source, transition[t].target} :
        s.version = release.version => s = release

retainTransitionReferences(a, source, target) == Retained(a, source) /\ Retained(a, target)

SubmitTransition(u, k, i, action, source, target, t) ==
  /\ ~\E s \in DOMAIN transition : transition[s].user = u /\ transition[s].key = k
  /\ LET row == installation[i] IN
       /\ row.org = OrgOf[u] /\ row.state = "installed" /\ row.version = source.version
       /\ AppLockFree(row.app) /\ ~OperationBusy(row.app)
       /\ ~\E s \in DOMAIN transition : ActiveTransition(s) /\ transition[s].installation = i
       /\ compatibleTransition(action, source, target)
       /\ retainTransitionReferences(row.app, source, target)
       /\ transition' = Insert(transition, t,
            [installation |-> i, app |-> row.app, user |-> u, key |-> k, action |-> action,
             revision |-> row.revision, source |-> source, target |-> target,
             status |-> "accepted", phase |-> "accepted"])
  /\ audit' = audit \cup {<<"transition", t, "accepted">>}
  /\ UNCHANGED <<installation, operation, trVars>>

-----------------------------------------------------------------------------
(***************************************************************************)
(* DispatchNextTransition and the reads of DispatchTransition.             *)
(***************************************************************************)
Active == {t \in DOMAIN transition : ActiveTransition(t)}

AfterSlip(c) == {}   \* slip: the cursor is ignored

After(c) == {t \in Active : t > cursor[c]}

NextTransition(c, t) ==
  LET S == IF After(c) # {} THEN After(c) ELSE Active
  IN t \in S /\ \A s \in S : t <= s

TransitionLockedSlip(t) == FALSE   \* slip: no session lock

TransitionLocked(t) == \E c \in Coordinator : coord[c] # None /\ coord[c].transition = t

ForwardPending(t) ==
  \E r \in DOMAIN recovery : recovery[r].transition = t /\ recovery[r].state = "pending"

(***************************************************************************)
(* dispatchTransition.installationState: which of the three rows the       *)
(* transition itself can have left it finds, "" for any other.             *)
(***************************************************************************)
InstalledAs(tr, row) ==
  IF row.state # "installed" THEN ""
  ELSE IF row.version = tr.source.version /\ row.revision = tr.revision THEN "original"
  ELSE IF row.version = tr.target.version /\ row.revision = tr.revision + 1 THEN "target"
  ELSE IF row.version = tr.source.version /\ row.revision = tr.revision + 2 THEN "restored"
  ELSE ""

Preparing == {"accepted", "checking", "sealing", "applying", "verifying", "publishing"}

Consistent(tr, row) ==
  /\ InstalledAs(tr, row) # ""
  /\ tr.phase \in Preparing => InstalledAs(tr, row) = "original"

StepMode(tr, row) ==
  CASE tr.phase \in {"accepted", "recovery_required"} -> "commit"
    [] tr.phase = "restoring" -> "restore"
    [] tr.phase = "releasing" ->
         IF InstalledAs(tr, row) = "target" THEN "release_target" ELSE "release_source"
    [] OTHER -> "prepare"

DispatchableSlip(t) ==   \* slip: a pending forward recovery is overlooked
  /\ ~TransitionLocked(t)
  /\ Consistent(transition[t], installation[transition[t].installation])

Dispatchable(t) ==
  /\ ~TransitionLocked(t) /\ ~ForwardPending(t)
  /\ Consistent(transition[t], installation[transition[t].installation])

(***************************************************************************)
(* The dispatch starts: lock, reads, and either a commit without a call or *)
(* the request to Runtime.                                                 *)
(***************************************************************************)
DispatchTransition(c, t) ==
  /\ coord[c] = None
  /\ NextTransition(c, t) /\ Dispatchable(t)
  /\ LET tr  == transition[t]
         row == installation[tr.installation]
     IN coord' = [coord EXCEPT ![c] =
          [transition |-> t, prior |-> tr, installed |-> row, mode |-> StepMode(tr, row),
           recovery |-> None, answer |-> None]]
  /\ cursor' = [cursor EXCEPT ![c] = t]
  /\ UNCHANGED <<tables, recovery, restarts, journal, verdict, late>>

(***************************************************************************)
(* The coordinator finds the lock taken, a forward recovery pending or an  *)
(* installation it does not recognise: the cursor still moves on.          *)
(***************************************************************************)
SkipTransition(c, t) ==
  /\ coord[c] = None
  /\ NextTransition(c, t) /\ ~Dispatchable(t)
  /\ cursor' = [cursor EXCEPT ![c] = t]
  /\ UNCHANGED <<tables, recovery, coord, restarts, journal, verdict, late>>

(***************************************************************************)
(* Nothing is active: DispatchNextTransition returns the empty cursor.     *)
(***************************************************************************)
NoTransition(c) ==
  /\ coord[c] = None /\ Active = {} /\ cursor[c] # 0
  /\ cursor' = [cursor EXCEPT ![c] = 0]
  /\ UNCHANGED <<tables, recovery, coord, restarts, journal, verdict, late>>

-----------------------------------------------------------------------------
(***************************************************************************)
(* Runtime (external).  Its journal only moves along the phases its table  *)
(* allows, and an answer is the phase it recorded.  It re-reads the Core   *)
(* row on every call, so it acts on an active transition only, and on a    *)
(* pending recovery only.  A late request never takes it out of prepared.  *)
(***************************************************************************)
Ahead(p) ==
  CASE p = "none"      -> {"checking", "sealing", "applying", "verifying", "prepared"}
    [] p = "checking"  -> {"checking", "sealing", "applying", "verifying", "prepared"}
    [] p = "sealing"   -> {"sealing", "applying", "verifying", "prepared"}
    [] p = "applying"  -> {"applying", "verifying", "prepared"}
    [] p = "verifying" -> {"verifying", "prepared"}
    [] p = "prepared"  -> {"prepared"}
    [] OTHER           -> {}

JournalStep(mode, p, live) ==
  CASE mode = "prepare" ->
         Ahead(p)
           \cup (IF p \in {"none", "checking", "sealing", "rejected"} THEN {"rejected"} ELSE {})
           \cup (IF p \in {"checking", "sealing", "applying", "verifying", "recovery_required"}
                    \/ (p = "prepared" /\ live)
                 THEN {"recovery_required"} ELSE {})
    [] mode = "restore" ->
         IF p \in {"recovery_required", "restoring"}
         THEN {"restoring", "restored", "recovery_required"}
         ELSE IF p = "restored" THEN {"restored"} ELSE {}
    [] mode = "release_source" ->
         IF p \in {"restored", "releasing_source"} THEN {"releasing_source", "released_source"}
         ELSE IF p = "released_source" THEN {p} ELSE {}
    [] mode = "release_target" ->
         IF p \in {"prepared", "releasing_target"} THEN {"releasing_target", "released_target"}
         ELSE IF p = "released_target" THEN {p} ELSE {}
    [] OTHER -> {}

AnswerOf(p) ==
  CASE p \in {"releasing_source", "releasing_target"} -> "releasing"
    [] p \in {"released_source", "released_target"}   -> "released"
    [] OTHER -> p

(***************************************************************************)
(* A forward recovery is verified only while the workload is not back at   *)
(* the source; the verdict is durable and closes the journal.              *)
(***************************************************************************)
Verify(r, t, v) ==
  /\ recovery[r].state = "pending"
  /\ \/ verdict[r] = v /\ UNCHANGED <<verdict, journal>>
     \/ /\ verdict[r] = "none" /\ v = "verified"
        /\ journal[t] \in {"restoring", "recovery_required"}
        /\ journal' = [journal EXCEPT ![t] = "forwarded"]
        /\ verdict' = [verdict EXCEPT ![r] = v]
     \/ /\ verdict[r] = "none" /\ v = "rejected"
        /\ verdict' = [verdict EXCEPT ![r] = v]
        /\ UNCHANGED journal

Execute(t, mode, r, live, a) ==
  /\ ActiveTransition(t)
  /\ IF mode = "verify_forward"
     THEN Verify(r, t, a)
     ELSE \E p \in JournalStep(mode, journal[t], live) :
            /\ a = AnswerOf(p)
            /\ journal' = [journal EXCEPT ![t] = p]
            /\ UNCHANGED verdict

Answered(c, a) ==
  /\ coord[c] # None /\ coord[c].mode # "commit" /\ coord[c].answer = None
  /\ Execute(coord[c].transition, coord[c].mode, coord[c].recovery, TRUE, a)
  /\ coord' = [coord EXCEPT ![c].answer = a]
  /\ UNCHANGED <<tables, recovery, cursor, restarts, late>>

LateRequest(q) ==
  /\ q \in late
  /\ \E a \in Progress : Execute(q.transition, q.mode, q.recovery, FALSE, a)
  /\ late' = late \ {q}
  /\ UNCHANGED <<tables, recovery, coord, cursor, restarts>>

-----------------------------------------------------------------------------
(***************************************************************************)
(* The outcomes DispatchTransition accepts, as the set of rows it commits: *)
(* empty where it returns ErrTransitionProgress.                           *)
(***************************************************************************)
StageIndex(p) == IF \E n \in 1..5 : Stages[n] = p THEN CHOOSE n \in 1..5 : Stages[n] = p ELSE 0

Outcome(status, phase, version) == {[status |-> status, phase |-> phase, version |-> version]}

ReleaseOutcomeSlip(d) ==   \* slip: the intent to release is taken for the release
  IF d.answer \in {"releasing", "released"}
  THEN Outcome(IF d.mode = "release_target" THEN "succeeded" ELSE "failed", "completed", None)
  ELSE {}

ReleaseOutcome(d) ==
  CASE d.answer = "releasing" -> Outcome("running", d.prior.phase, None)
    [] d.answer = "released"  ->
         Outcome(IF d.mode = "release_target" THEN "succeeded" ELSE "failed", "completed", None)
    [] OTHER -> {}

RestoreOutcome(d) ==
  CASE d.answer = "restored" ->
         Outcome("running", "releasing",
                 IF InstalledAs(d.prior, d.installed) = "target" THEN d.prior.source.version ELSE None)
    [] d.answer = "restoring" -> Outcome("running", d.prior.phase, None)
    [] d.answer = "recovery_required" -> Outcome("recovery_required", "recovery_required", None)
    [] OTHER -> {}

(***************************************************************************)
(* Slips: the first "prepared" already publishes the version; a rejection  *)
(* is only accepted in the first phase.                                    *)
(***************************************************************************)
PrepareOutcomeEarly(d) ==
  CASE d.answer = "recovery_required" -> Outcome("recovery_required", "recovery_required", None)
    [] d.answer = "rejected" -> Outcome("failed", "completed", None)
    [] d.answer = "prepared" ->
         IF d.prior.phase = "publishing" THEN Outcome("running", "releasing", None)
         ELSE Outcome("running", "publishing", d.prior.target.version)
    [] OTHER -> Outcome("running", d.answer, None)

PrepareOutcomeRejection(d) ==
  CASE d.answer = "recovery_required" -> Outcome("recovery_required", "recovery_required", None)
    [] d.answer = "rejected" ->
         IF d.prior.phase = "checking" THEN Outcome("failed", "completed", None) ELSE {}
    [] d.answer = "prepared" ->
         IF d.prior.phase = "publishing"
         THEN Outcome("running", "releasing", d.prior.target.version)
         ELSE Outcome("running", "publishing", None)
    [] OTHER -> Outcome("running", d.answer, None)

PrepareOutcome(d) ==
  CASE d.answer = "recovery_required" -> Outcome("recovery_required", "recovery_required", None)
    [] d.answer = "rejected" ->
         IF d.prior.phase \in {"checking", "sealing"} THEN Outcome("failed", "completed", None) ELSE {}
    [] d.answer = "prepared" ->
         IF d.prior.phase = "publishing"
         THEN Outcome("running", "releasing", d.prior.target.version)
         ELSE Outcome("running", "publishing", None)
    [] d.answer \in {"checking", "sealing", "applying", "verifying"} ->
         IF StageIndex(d.answer) >= StageIndex(d.prior.phase)
         THEN Outcome("running", d.answer, None) ELSE {}
    [] OTHER -> {}

Outcomes(d) ==
  CASE d.mode = "commit" ->
         Outcome("running", IF d.prior.phase = "accepted" THEN "checking" ELSE "restoring", None)
    [] d.mode \in {"release_source", "release_target"} -> ReleaseOutcome(d)
    [] d.mode = "restore" -> RestoreOutcome(d)
    [] d.mode = "prepare" -> PrepareOutcome(d)
    [] OTHER -> {}

(***************************************************************************)
(* commitTransition re-reads both rows under the App lock and refuses if   *)
(* either is not what the dispatch read.                                   *)
(***************************************************************************)
Unchanged(d) ==
  /\ transition[d.transition] = d.prior
  /\ installation[d.prior.installation] = d.installed

Events(t, tr, out) ==
  (IF out.version = None THEN {}
   ELSE {<<"transition", t, IF out.version = tr.source.version THEN "restored" ELSE "published">>})
  \cup (IF out.phase = "completed" THEN {<<"transition", t, out.status>>} ELSE {})

commitTransition(c) ==
  /\ coord[c] # None /\ coord[c].mode # "verify_forward"
  /\ coord[c].mode # "commit" => coord[c].answer # None
  /\ AppLockFree(coord[c].prior.app) /\ Unchanged(coord[c])
  /\ \E out \in Outcomes(coord[c]) :
       LET t == coord[c].transition
           i == coord[c].prior.installation
       IN /\ installation' = IF out.version = None THEN installation
                             ELSE [installation EXCEPT ![i].version = out.version,
                                                       ![i].revision = @ + 1]
          /\ transition' = [transition EXCEPT ![t].status = out.status, ![t].phase = out.phase]
          /\ audit' = audit \cup Events(t, coord[c].prior, out)
  /\ coord' = [coord EXCEPT ![c] = None]
  /\ UNCHANGED <<operation, recovery, cursor, restarts, journal, verdict, late>>

(***************************************************************************)
(* The dispatch ends without a commit: the call or the connection failed,  *)
(* the deadline passed, the answer was refused or the rows had changed.    *)
(* A request Runtime has not executed yet stays on its way.                *)
(***************************************************************************)
Abandoned(c) ==
  IF coord[c] # None /\ coord[c].mode # "commit" /\ coord[c].answer = None
  THEN {[transition |-> coord[c].transition, mode |-> coord[c].mode, recovery |-> coord[c].recovery]}
  ELSE {}

Abandon(c) ==
  /\ coord[c] # None
  /\ late' = late \cup Abandoned(c)
  /\ coord' = [coord EXCEPT ![c] = None]
  /\ UNCHANGED <<tables, recovery, cursor, restarts, journal, verdict>>

(***************************************************************************)
(* The process restarts: RunTransitions begins with the empty cursor.      *)
(***************************************************************************)
Restart(c) ==
  /\ restarts < MaxRestarts
  /\ restarts' = restarts + 1
  /\ cursor' = [cursor EXCEPT ![c] = 0]
  /\ late' = late \cup Abandoned(c)
  /\ coord' = [coord EXCEPT ![c] = None]
  /\ UNCHANGED <<tables, recovery, journal, verdict>>

-----------------------------------------------------------------------------
(***************************************************************************)
(* SubmitForwardRecovery: under the same core-transition lock, accept (or  *)
(* find again by its key) a pending recovery, ask Runtime to verify it,    *)
(* and commit the verdict.                                                 *)
(***************************************************************************)
allowedWorldForward(tr, row, target) ==
  /\ \E f \in ForwardRule : f = [app |-> tr.app, source |-> tr.source.version,
                                 target |-> tr.target.version, forward |-> target.version]
  /\ InstalledAs(tr, row) = "original"
  /\ tr.phase \in {"restoring", "recovery_required"}
  /\ tr.status \in {"running", "recovery_required"}

Verifying(c, r, t) ==
  coord' = [coord EXCEPT ![c] =
    [transition |-> t, prior |-> transition[t],
     installed |-> installation[transition[t].installation],
     mode |-> "verify_forward", recovery |-> r, answer |-> None]]

acceptForward(c, k, t, target, r) ==
  /\ coord[c] = None
  /\ ~TransitionLocked(t)
  /\ LET tr  == transition[t]
         row == installation[tr.installation]
     IN /\ ~\E s \in DOMAIN recovery : recovery[s].user = tr.user /\ recovery[s].key = k
        /\ allowedWorldForward(tr, row, target)
        /\ AppLockFree(tr.app) /\ ~OperationBusy(tr.app) /\ ~ForwardPending(t)
        /\ retainTransitionReferences(tr.app, tr.source, target)
        /\ recovery' = Insert(recovery, r,
             [transition |-> t, user |-> tr.user, key |-> k, revision |-> row.revision,
              target |-> target, state |-> "pending"])
  /\ audit' = audit \cup {<<"recovery", r, "accepted">>}
  /\ Verifying(c, r, t)
  /\ UNCHANGED <<installation, operation, transition, cursor, restarts, journal, verdict, late>>

RetryForward(c, r) ==
  /\ coord[c] = None
  /\ r \in DOMAIN recovery /\ recovery[r].state = "pending"
  /\ ~TransitionLocked(recovery[r].transition)
  /\ Verifying(c, r, recovery[r].transition)
  /\ UNCHANGED <<tables, recovery, cursor, restarts, journal, verdict, late>>

finishForward(c) ==
  /\ coord[c] # None /\ coord[c].mode = "verify_forward" /\ coord[c].answer # None
  /\ LET r   == coord[c].recovery
         t   == coord[c].transition
         tr  == transition[t]
         i   == tr.installation
         verified == coord[c].answer = "verified"
         state == IF verified THEN "succeeded" ELSE "failed"
     IN /\ AppLockFree(tr.app) /\ recovery[r].state = "pending"
        /\ installation[i].revision = recovery[r].revision
        /\ allowedWorldForward(tr, installation[i], recovery[r].target)
        /\ verified => verdict[r] = "verified"
        /\ installation' = IF ~verified THEN installation
                           ELSE [installation EXCEPT ![i].version = recovery[r].target.version,
                                                     ![i].revision = @ + 1]
        /\ transition' = IF ~verified THEN transition
                         ELSE [transition EXCEPT ![t].status = "failed", ![t].phase = "completed"]
        /\ recovery' = [recovery EXCEPT ![r].state = state]
        /\ audit' = audit \cup {<<"recovery", r, state>>}
  /\ coord' = [coord EXCEPT ![c] = None]
  /\ UNCHANGED <<operation, cursor, restarts, journal, verdict, late>>

-----------------------------------------------------------------------------
AcceptTransition ==
  \E t \in NewID(TransitionID, transition), i \in DOMAIN installation, u \in User, k \in Key,
     action \in {"upgrade", "rollback"}, source \in Release, target \in Release :
    SubmitTransition(u, k, i, action, source, target, t)

AcceptRecovery ==
  \E r \in NewID(RecoveryID, recovery), c \in Coordinator, t \in DOMAIN transition, k \in Key,
     target \in Release :
    acceptForward(c, k, t, target, r)

Coordinate ==
  \E c \in Coordinator :
    \/ \E t \in TransitionID : DispatchTransition(c, t)
    \/ \E t \in TransitionID : SkipTransition(c, t)
    \/ NoTransition(c)
    \/ \E a \in Progress : Answered(c, a)
    \/ commitTransition(c)
    \/ Abandon(c)
    \/ Restart(c)
    \/ \E r \in RecoveryID : RetryForward(c, r)
    \/ finishForward(c)

RuntimeLate == \E q \in late : LateRequest(q)

TransitionsNext == AcceptTransition \/ AcceptRecovery \/ Coordinate \/ RuntimeLate
-----------------------------------------------------------------------------
(***************************************************************************)
(* While a transition is active nobody else changes its installation: the  *)
(* row is the original one until publication and the published one after   *)
(* it, never the "restored" or the unrecognised row for which the          *)
(* coordinator would return ErrTransitionProgress for ever.                *)
(***************************************************************************)
TransitionOwnsInstallation ==
  \A t \in Active :
    LET tr == transition[t]
        as == InstalledAs(tr, installation[tr.installation])
    IN IF <<"transition", t, "published">> \in audit
       THEN as = "target" /\ tr.phase = "releasing"
       ELSE as = "original"

(***************************************************************************)
(* The rows a dispatch read are still the rows it commits against, though  *)
(* it holds no row lock during the call to Runtime: the session lock and   *)
(* the busy checks of both submitters are enough, and the Conflict return  *)
(* of commitTransition is never taken.                                     *)
(***************************************************************************)
NoStaleCommit ==
  \A c \in Coordinator : coord[c] # None => Unchanged(coord[c])

(***************************************************************************)
(* Core and Runtime agree on the outcome, whatever replies were lost and   *)
(* however late a request was executed: Runtime does nothing before the    *)
(* checking commit, releases the target only after the durable publication *)
(* of its version, and a terminal status says what Runtime did.            *)
(***************************************************************************)
RuntimeAgrees ==
  \A t \in DOMAIN transition :
    /\ transition[t].phase = "accepted" => journal[t] = "none"
    /\ journal[t] \in {"releasing_target", "released_target"} =>
         <<"transition", t, "published">> \in audit
    /\ transition[t].status = "succeeded" => journal[t] = "released_target"
    /\ transition[t].status = "failed" =>
         \/ journal[t] \in {"rejected", "released_source"}
         \/ /\ journal[t] = "forwarded"
            /\ \E r \in DOMAIN recovery :
                 recovery[r].transition = t /\ recovery[r].state = "succeeded"

(***************************************************************************)
(* The next request Core would send for an active transition is one that   *)
(* Runtime's journal can answer, and Core accepts the answer: no loss or   *)
(* delay leaves the two in phases that can never meet again.               *)
(***************************************************************************)
AlwaysAnswerable ==
  \A t \in Active :
    LET tr   == transition[t]
        row  == installation[tr.installation]
        mode == StepMode(tr, row)
    IN \/ mode = "commit" /\ (journal[t] = "forwarded" => ForwardPending(t))
       \/ ForwardPending(t)
       \/ \E p \in JournalStep(mode, journal[t], TRUE) :
            Outcomes([transition |-> t, prior |-> tr, installed |-> row, mode |-> mode,
                      recovery |-> None, answer |-> AnswerOf(p)]) # {}

(***************************************************************************)
(* From its acceptance to its verdict a forward recovery has its           *)
(* transition to itself: the transition stays active, no second recovery   *)
(* is pending for it, and no coordinator dispatches it, though the session *)
(* lock is released and taken again between the tries of the recovery.     *)
(***************************************************************************)
RecoveryOwnsTransition ==
  /\ \A r \in DOMAIN recovery :
       recovery[r].state = "pending" => ActiveTransition(recovery[r].transition)
  /\ \A r, s \in DOMAIN recovery :
       /\ recovery[r].state = "pending" /\ recovery[s].state = "pending"
       /\ recovery[r].transition = recovery[s].transition
       => r = s
  /\ \A c \in Coordinator :
       coord[c] # None =>
         IF coord[c].mode = "verify_forward"
         THEN /\ coord[c].recovery \in DOMAIN recovery
              /\ recovery[coord[c].recovery].transition = coord[c].transition
         ELSE ~ForwardPending(coord[c].transition)

(***************************************************************************)
(* A published version is never swapped out by its own transition: after   *)
(* publication the transition only releases the target and succeeds.       *)
(***************************************************************************)
PublishedStep ==
  \A t \in DOMAIN transition :
    <<"transition", t, "published">> \in audit =>
      /\ transition'[t].status \in {"running", "succeeded"}
      /\ transition'[t].phase \in {"releasing", "completed"}
      /\ ActiveTransition(t) =>
           installation'[transition[t].installation] = installation[transition[t].installation]

PublishedNeverReverts == [][PublishedStep]_<<tables, trVars>>

-----------------------------------------------------------------------------
(***************************************************************************)
(* Fairness.  RunTransitions starts a dispatch every second and ends it    *)
(* within its 30 s deadline, by a commit or otherwise.                     *)
(***************************************************************************)
EndDispatch(c) == commitTransition(c) \/ finishForward(c) \/ Abandon(c)

StartDispatch(c) ==
  \E t \in TransitionID : DispatchTransition(c, t) \/ SkipTransition(c, t)

SchedulerFairness ==
  \A c \in Coordinator :
    WF_<<tables, trVars>>(StartDispatch(c)) /\ WF_<<tables, trVars>>(EndDispatch(c))

(***************************************************************************)
(* Of the transitions in T: not every dispatch is abandoned, and Runtime,  *)
(* asked again and again, in the end completes the preparation, the        *)
(* restoration and the release.  The others may fail for ever.             *)
(***************************************************************************)
CooperativeRuntime(T) ==
  \A c \in Coordinator :
    /\ \A t \in T :
         SF_<<tables, trVars>>(coord[c] # None /\ coord[c].transition = t /\ commitTransition(c))
    /\ \A t \in T :
         SF_<<tables, trVars>>(coord[c] # None /\ coord[c].transition = t /\ \E a \in Progress : Answered(c, a))
    /\ \A t \in T, a \in {"prepared", "restored", "released"} :
         SF_<<tables, trVars>>(coord[c] # None /\ coord[c].transition = t /\ Answered(c, a))
=============================================================================
