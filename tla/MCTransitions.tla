---------------------------- MODULE MCTransitions ----------------------------
(***************************************************************************)
(* Small instances of Transitions.  Every application starts installed by  *)
(* an operation that has finished, at the revision that operation leaves:  *)
(* 1 for the new row, 2 when it is bound, 3 when its success is recorded.  *)
(* Transitions reads no operation's key, so which key the finished ones    *)
(* have does not matter to the symmetry over Key.                          *)
(***************************************************************************)
EXTENDS Transitions, TLC

CONSTANTS u1, org1, a1, a2, d1, InstalledVersion

MCOrgOf == [u \in User |-> org1]

AppNumber(n) == IF n = 1 THEN a1 ELSE a2

MCForwardRule == {[app |-> a1, source |-> 1, target |-> 2, forward |-> 3]}

NoForwardRule == {}

InstalledTables ==
  /\ installation = [n \in InstallationID |->
       [app |-> AppNumber(n), org |-> org1, version |-> InstalledVersion, state |-> "installed",
        revision |-> 3, lastOp |-> n, release |-> None]]
  /\ operation = [n \in OperationID |->
       [user |-> u1, key |-> CHOOSE k \in Key : TRUE, app |-> AppNumber(n),
        version |-> InstalledVersion, action |-> "install", kind |-> "plain", release |-> None,
        reinstall |-> None, installation |-> n, status |-> "succeeded"]]
  /\ transition = EmptyTable
  /\ audit = {<<"operation", n, "accepted">> : n \in OperationID}

Init == InstalledTables /\ TransitionsInit /\ applock = [a \in App |-> None]

(***************************************************************************)
(* No submission of an operation is under way.                             *)
(***************************************************************************)
Spec == Init /\ [][TransitionsNext /\ UNCHANGED applock]_<<tables, trVars>>

(***************************************************************************)
(* For liveness the applications and keys, which are interchangeable here, *)
(* are taken in order: symmetry by hand, as TLC's is unsound for liveness. *)
(***************************************************************************)
InOrder ==
  transition = EmptyTable /\ transition' # EmptyTable =>
    transition'[1].installation = 1 /\ transition'[1].key = CHOOSE k \in Key : TRUE

Cooperating == {2}

FairSpec ==
  /\ Init /\ [][TransitionsNext /\ UNCHANGED applock /\ InOrder]_<<tables, trVars>>
  /\ SchedulerFairness /\ CooperativeRuntime(Cooperating)

(***************************************************************************)
(* A transition on which Runtime cooperates ends, published or restored,   *)
(* whatever calls were lost and processes restarted on the way, and        *)
(* although another transition fails every dispatch: "Returning the        *)
(* selected ID even on failure lets later installations progress".         *)
(***************************************************************************)
EveryTransitionEnds ==
  \A t \in Cooperating : ActiveTransition(t) ~> ~ActiveTransition(t)

Symmetric == Permutations(Key) \cup Permutations(Coordinator)
=============================================================================
