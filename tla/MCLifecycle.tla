----------------------------- MODULE MCLifecycle -----------------------------
(***************************************************************************)
(* A small instance of Lifecycle: operations, transitions and forward      *)
(* recoveries of one application, from an empty database.                  *)
(***************************************************************************)
EXTENDS Lifecycle, TLC

CONSTANTS u1, u2, org1, org2, a1, d1

MCOrgOf == [u \in User |-> IF u = u1 THEN org1 ELSE org2]

Rel(v) == [version |-> v, content |-> d1]

(***************************************************************************)
(* A direct drift recovery, and one that a managed upgrade must prove.     *)
(***************************************************************************)
MCSourceRecovery ==
  {[app |-> a1, installed |-> 1, from |-> Rel(1), to |-> Rel(2), proof |-> None],
   [app |-> a1, installed |-> 2, from |-> Rel(1), to |-> Rel(3),
    proof |-> [source |-> Rel(1), target |-> Rel(2)]]}

MCForwardRule == {[app |-> a1, source |-> 1, target |-> 2, forward |-> 3]}

MCOffered ==
  {<<"start", "plain">>, <<"delete", "plain">>,
   <<"adopt", "preinstalled">>, <<"upgrade", "appcenter">>}

Symmetric == Permutations(Key)
=============================================================================
