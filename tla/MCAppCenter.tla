---------------------------- MODULE MCAppCenter ----------------------------
(***************************************************************************)
(* An application with two versions, one of them in the registry.  Of the  *)
(* plain commands come the one that names another version than the row's   *)
(* and the one that takes the row away; with no row, both are unbound.     *)
(***************************************************************************)
EXTENDS AppCenter, TLC

Registry == [v \in {1} |-> {"start", "stop", "install"}]

Plainly == {<<"own", "upgrade">>, <<"own", "delete">>}

Alike == Permutations(Uid)
=============================================================================
