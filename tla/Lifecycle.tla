------------------------------ MODULE Lifecycle ------------------------------
(***************************************************************************)
(* The lifecycle worker and the transition coordinators over the one       *)
(* Station database: operations and managed transitions of the same        *)
(* applications, interleaved step by step.  main.go runs both loops, and   *)
(* the HTTP handlers that submit, in one process; during a rolling update  *)
(* two processes share the database.                                       *)
(***************************************************************************)
EXTENDS AppOperations, Transitions

vars == <<tables, opVars, trVars>>

TypeOK == TablesTypeOK /\ OperationsTypeOK /\ TransitionsTypeOK

Init == TablesInit /\ OperationsInit /\ TransitionsInit

Next ==
  \/ OperationsNext /\ UNCHANGED trVars
  \/ TransitionsNext /\ UNCHANGED opVars

Spec == Init /\ [][Next]_vars

-----------------------------------------------------------------------------
(***************************************************************************)
(* The version of an installed application is one that Runtime confirmed:  *)
(* by a succeeded operation, by a published transition or by a verified    *)
(* forward recovery of this very installation.                             *)
(***************************************************************************)
Evidence(i) ==
  {operation[o].version : o \in {p \in DOMAIN operation :
      /\ operation[p].installation = i /\ operation[p].status = "succeeded"
      /\ operation[p].action # "delete"}}
  \cup {transition[t].target.version : t \in {s \in DOMAIN transition :
      transition[s].installation = i /\ <<"transition", s, "published">> \in audit}}
  \cup {recovery[r].target.version : r \in {s \in DOMAIN recovery :
      /\ transition[recovery[s].transition].installation = i
      /\ recovery[s].state = "succeeded"}}

InstalledVersionConfirmed ==
  \A i \in DOMAIN installation :
    installation[i].state = "installed" => installation[i].version \in Evidence(i)

(***************************************************************************)
(* Whoever is at work on a job works on an active one: a worker's row lock *)
(* and a coordinator's session lock outlive no settlement, so neither can  *)
(* bring a finished job back, and an active transition has its application *)
(* installed.                                                              *)
(***************************************************************************)
ActiveJobsHeld ==
  /\ \A w \in Worker : worker[w].op # None => ActiveOperation(worker[w].op)
  /\ \A v, w \in Worker : worker[v].op # None /\ worker[v].op = worker[w].op => v = w
  /\ \A c \in Coordinator : coord[c] # None => ActiveTransition(coord[c].transition)
  /\ \A c, d \in Coordinator :
       /\ coord[c] # None /\ coord[d] # None /\ coord[c].transition = coord[d].transition
       => c = d
  /\ \A t \in DOMAIN transition :
       ActiveTransition(t) => installation[transition[t].installation].state = "installed"

(***************************************************************************)
(* RevisionStep holds of every step of the two components.                 *)
(***************************************************************************)
RevisionAdvances == [][RevisionStep]_vars

(***************************************************************************)
(* The register of the applications: what the tables say without the       *)
(* protocol that writes them.                                              *)
(***************************************************************************)
Shown(i) == [id |-> i, state |-> installation[i].state, version |-> installation[i].version]

InstalledNow == [a \in App |-> {Shown(i) : i \in Current(a)}]

RemovedNow == {i \in DOMAIN installation : installation[i].state = "removed"}

OperationJob(o) ==
  [kind |-> "operation", id |-> o, on |-> operation[o].installation,
   action |-> operation[o].action, to |-> operation[o].version]

TransitionJob(t) ==
  [kind |-> "transition", id |-> t, on |-> transition[t].installation,
   from |-> transition[t].source.version, to |-> transition[t].target.version,
   published |-> <<"transition", t, "published">> \in audit]

JobsNow ==
  [a \in App |->
     {OperationJob(o) : o \in {p \in DOMAIN operation :
                                  ActiveOperation(p) /\ operation[p].app = a}}
     \cup {TransitionJob(t) : t \in {s \in DOMAIN transition :
                                  ActiveTransition(s) /\ transition[s].app = a}}]

SettledNow ==
  {<<"operation", o, operation[o].status>> :
     o \in {p \in DOMAIN operation : ~ActiveOperation(p)}}
  \cup {<<"transition", t, transition[t].status>> :
     t \in {s \in DOMAIN transition : ~ActiveTransition(s)}}

Register ==
  INSTANCE AppRegister WITH
    installed <- InstalledNow, removed <- RemovedNow, job <- JobsNow, settled <- SettledNow

(***************************************************************************)
(* The tables are such a register: every submission, dispatch, lost reply, *)
(* late request, rollback, restart and recovery is one of its steps or     *)
(* changes nothing of it.                                                  *)
(***************************************************************************)
ImplementsAppRegister == Register!Spec
=============================================================================
