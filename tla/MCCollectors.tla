---------------------------- MODULE MCCollectors ----------------------------
(***************************************************************************)
(* A small instance of Collectors.                                         *)
(***************************************************************************)
EXTENDS Collectors, TLC

CONSTANTS c1, n1, n2, w1, i1, a1, a2, o1, o2

OneOwner == [n \in Namespace |-> c1]
Orgs == [i \in Installation |-> IF i = i1 THEN o1 ELSE o2]
Apps == [i \in Installation |-> IF i = i1 THEN a1 ELSE a2]

Seen(inst, uid, rv, flags, health) ==
  [inst |-> inst, uid |-> uid, rv |-> rv, flags |-> flags, meta |-> 0, health |-> health]

Home == <<n1, w1>>

(***************************************************************************)
(* One workload, which a migration takes from home to away; its place at   *)
(* home is also the registered one of the application before it was        *)
(* installed.                                                              *)
(***************************************************************************)
Workloads == {<<Home, Seen(i1, 1, 1, {}, "not_checked")>>}
LegacyRecords == {[app |-> a1, loc |-> Home, uid |-> 1]}
Migration == {<<a1, n2>>}

Symmetric == Permutations(Session)
=============================================================================
