----------------------------- MODULE MCOperations -----------------------------
(***************************************************************************)
(* Small instances of AppOperations.                                       *)
(***************************************************************************)
EXTENDS AppOperations, TLC

CONSTANTS u1, u2, org1, org2

MCOrgOf == [u \in User |-> IF u = u1 THEN org1 ELSE org2]

Symmetric == Permutations(Key)

(***************************************************************************)
(* An operation, its removal and the preinstalled reinstallation.          *)
(***************************************************************************)
RemovalOffered == {<<"start", "plain">>, <<"delete", "plain">>, <<"install", "preinstalled">>}
=============================================================================
