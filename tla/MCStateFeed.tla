----------------------------- MODULE MCStateFeed -----------------------------
(***************************************************************************)
(* Small instances of StateFeed.  Applications and organizations are       *)
(* numbers: their order is the order of the code's ORDER BY and sort.      *)
(***************************************************************************)
EXTENDS StateFeed

AllCatalogs == SUBSET App

(***************************************************************************)
(* Readers and the publisher write nothing that the other reads, so their  *)
(* steps are not interleaved: a behaviour has snapshots or hints.  What    *)
(* each sees of the environment is not restricted.  Behaviours with        *)
(* snapshots are there for the invariant; they are not fair to the         *)
(* publisher, and no temporal property is about them.                      *)
(***************************************************************************)
NothingRead == answers = {} /\ \A o \in Reader : reader[o] = None

NothingPut == publisher = None /\ \A o \in Org : hint[o] = None /\ told[o] = {}

MCSpec ==
  /\ Starting
  /\ [][Environment \/ (NothingPut /\ Snapshots) \/ (NothingRead /\ Publishing)]_vars
  /\ Fairness
=============================================================================
