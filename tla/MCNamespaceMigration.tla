------------------------ MODULE MCNamespaceMigration ------------------------
(***************************************************************************)
(* Two instances of an application and one of Runtime, all in namespace    *)
(* "a", moved to "b" and back.                                             *)
(***************************************************************************)
EXTENDS NamespaceMigration, TLC

CONSTANTS i1, i2, j1

W(pvc, uid, hash, secret) == [pvc |-> pvc, uid |-> uid, hash |-> hash, secret |-> secret]
H(text, value) == [text |-> text, value |-> value]
B(installation, source, target, workspaces) ==
  [installation |-> installation, source |-> source, target |-> target,
   workspaces |-> workspaces]

Bodies ==
  [there |-> B("n1", "a", "b", <<W("p1", "u4", H("prefixed", "h2"), "s2"),
                                 W("q1", "u4", H("prefixed", "h2"), None)>>),
   back  |-> B(None, "b", "a", <<W("p1", None, H("hex", "h1"), None),
                                 W("p2", "u2", None, "s1"),
                                 W("q1", "u1", None, "s1")>>),
   other |-> B("n2", "a", "b", <<W("p2", "u4", None, "s2")>>)]

Variants ==
  {[match |-> FALSE, hex |-> TRUE, startsHex |-> TRUE],
   [match |-> TRUE, hex |-> FALSE, startsHex |-> FALSE],
   [match |-> FALSE, hex |-> FALSE, startsHex |-> TRUE]}

Uids == (i1 :> "u1") @@ (i2 :> "u2") @@ (j1 :> "u1")
Pvcs == (i1 :> "p1") @@ (i2 :> "p2") @@ (j1 :> "q1")

(***************************************************************************)
(* One PVC each, all in one namespace, in either spelling of the hash,     *)
(* with or without the namespace's copy.                                   *)
(***************************************************************************)
Row(i, hash, kept, owner) ==
  [namespace |-> "a", pvc |-> Pvcs[i], uid |-> Uids[i], hash |-> hash,
   copy |-> [namespace |-> kept, uid |-> Uids[i], hash |-> hash], installation |-> owner]

Tables ==
  {[workspace |-> [i \in Instance |->
       IF i \in AppInstance THEN Row(i, H(text, "h1"), kept, "n1")
                            ELSE Row(i, H("hex", "h1"), "a", None)],
    start |-> [i \in AppInstance |-> [hash |-> H(began, "h1"), secret |-> "s1"]]] :
     text \in Spelling, began \in Spelling, kept \in {"a", None}}
=============================================================================
