----------------------------- MODULE AppRegister -----------------------------
(***************************************************************************)
(* What the lifecycle promises of an application, without the tables,      *)
(* workers, coordinators, locks and calls by which it keeps the promise.   *)
(*                                                                         *)
(* An application is absent or has one installation, in a state and at a   *)
(* version; at most one job is at work on it; and only that job changes    *)
(* it, to the version the job was accepted for.  A removed installation    *)
(* and a settled job never come back.                                      *)
(***************************************************************************)
CONSTANTS App, Version, InstallationID, OperationID, TransitionID,
          Action,           \* of operations
          ForwardRule,      \* registered forward recoveries
          None

VARIABLES
  installed,  \* the installation of each application: no element, or one
  removed,    \* the installations that were removed
  job,        \* the job at work on each application: no element, or one
  settled     \* the jobs that have ended, and how

vars == <<installed, removed, job, settled>>

Installed(i, v) == [id |-> i, state |-> "installed", version |-> v]

Operation(o, i, action, v) ==
  [kind |-> "operation", id |-> o, on |-> i, action |-> action, to |-> v]

Transition(t, i, from, to, published) ==
  [kind |-> "transition", id |-> t, on |-> i, from |-> from, to |-> to,
   published |-> published]

Ended(j, outcome) == <<j.kind, j.id, outcome>>

Known(j) ==
  \/ \E outcome \in {"succeeded", "failed"} : Ended(j, outcome) \in settled
  \/ \E a \in App : \E k \in job[a] : k.kind = j.kind /\ k.id = j.id

Init ==
  /\ installed = [a \in App |-> {}]
  /\ removed = {}
  /\ job = [a \in App |-> {}]
  /\ settled = {}

-----------------------------------------------------------------------------
(***************************************************************************)
(* A job is accepted for an idle application.  One that installs an absent *)
(* application makes an installation; another version is only for an       *)
(* upgrade or an adoption of an installed one.                             *)
(***************************************************************************)
Take(a, j) ==
  /\ ~Known(j)
  /\ job' = [job EXCEPT ![a] = {j}]
  /\ UNCHANGED settled

Unused(i) == i \notin removed /\ \A b \in App : \A x \in installed[b] : x.id # i

AcceptInstall(a, o, i, action, v) ==
  /\ installed[a] = {} /\ action \in {"install", "start", "adopt"} /\ Unused(i)
  /\ Take(a, Operation(o, i, action, v))
  /\ installed' = [installed EXCEPT ![a] = {[id |-> i, state |-> "pending", version |-> v]}]
  /\ UNCHANGED removed

AcceptAbsent(a, o, action, v) ==
  /\ installed[a] = {} /\ action \notin {"install", "start", "adopt"}
  /\ Take(a, Operation(o, None, action, v))
  /\ UNCHANGED <<installed, removed>>

AcceptOperation(a, o, action, v) ==
  /\ \E x \in installed[a] :
       /\ v # x.version => action \in {"upgrade", "adopt"} /\ x.state = "installed"
       /\ Take(a, Operation(o, x.id, action, v))
  /\ UNCHANGED <<installed, removed>>

AcceptTransition(a, t, v) ==
  /\ \E x \in installed[a] :
       /\ x.state = "installed" /\ v # x.version
       /\ Take(a, Transition(t, x.id, x.version, v, FALSE))
  /\ UNCHANGED <<installed, removed>>

-----------------------------------------------------------------------------
(***************************************************************************)
(* The end of a job, and what the application is then.                     *)
(***************************************************************************)
Settle(a, j, outcome) ==
  /\ j \in job[a]
  /\ job' = [job EXCEPT ![a] = {}]
  /\ settled' = settled \cup {Ended(j, outcome)}

Succeed(a, j) ==
  /\ j.kind = "operation" /\ Settle(a, j, "succeeded")
  /\ IF j.on = None
     THEN UNCHANGED <<installed, removed>>
     ELSE /\ \E x \in installed[a] : x.id = j.on
          /\ IF j.action = "delete"
             THEN /\ installed' = [installed EXCEPT ![a] = {}]
                  /\ removed' = removed \cup {j.on}
             ELSE /\ installed' = [installed EXCEPT ![a] = {Installed(j.on, j.to)}]
                  /\ UNCHANGED removed

Fail(a, j) ==
  /\ j.kind = "operation" /\ Settle(a, j, "failed")
  /\ installed' = [installed EXCEPT ![a] =
       {IF x.id = j.on /\ x.state # "installed" THEN [x EXCEPT !.state = "failed"] ELSE x :
          x \in installed[a]}]
  /\ UNCHANGED removed

(***************************************************************************)
(* A transition publishes its target once, while it goes on; then it can   *)
(* only complete.  Without publication it ends with the source in place,   *)
(* or with the version of a registered forward recovery.                   *)
(***************************************************************************)
Publish(a, j) ==
  /\ j.kind = "transition" /\ j \in job[a] /\ ~j.published
  /\ installed[a] = {Installed(j.on, j.from)}
  /\ installed' = [installed EXCEPT ![a] = {Installed(j.on, j.to)}]
  /\ job' = [job EXCEPT ![a] = {Transition(j.id, j.on, j.from, j.to, TRUE)}]
  /\ UNCHANGED <<removed, settled>>

Complete(a, j) ==
  /\ j.kind = "transition" /\ j.published /\ installed[a] = {Installed(j.on, j.to)}
  /\ Settle(a, j, "succeeded")
  /\ UNCHANGED <<installed, removed>>

GiveUp(a, j) ==
  /\ j.kind = "transition" /\ ~j.published /\ installed[a] = {Installed(j.on, j.from)}
  /\ Settle(a, j, "failed")
  /\ UNCHANGED <<installed, removed>>

Recover(a, j, v) ==
  /\ j.kind = "transition" /\ ~j.published /\ installed[a] = {Installed(j.on, j.from)}
  /\ [app |-> a, source |-> j.from, target |-> j.to, forward |-> v] \in ForwardRule
  /\ Settle(a, j, "failed")
  /\ installed' = [installed EXCEPT ![a] = {Installed(j.on, v)}]
  /\ UNCHANGED removed

-----------------------------------------------------------------------------
Accept(a) ==
  /\ job[a] = {}
  /\ \/ \E o \in OperationID, action \in Action, v \in Version :
          \/ \E i \in InstallationID : AcceptInstall(a, o, i, action, v)
          \/ AcceptAbsent(a, o, action, v)
          \/ AcceptOperation(a, o, action, v)
     \/ \E t \in TransitionID, v \in Version : AcceptTransition(a, t, v)

Proceed(a) ==
  \E j \in job[a] :
    \/ Succeed(a, j) \/ Fail(a, j)
    \/ Publish(a, j) \/ Complete(a, j) \/ GiveUp(a, j)
    \/ \E v \in Version : Recover(a, j, v)

JobStep == \E a \in App : Accept(a) \/ Proceed(a)

(***************************************************************************)
(* Nothing changes but with a job.  The first conjunct follows from the    *)
(* second; it decides at once most steps that are none of the register.    *)
(***************************************************************************)
Next == job' # job /\ JobStep

Spec == Init /\ [][Next]_vars
=============================================================================
