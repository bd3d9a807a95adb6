----------------------------- MODULE MCSessions -----------------------------
(***************************************************************************)
(* Small instances of Sessions.  Tokens from Enrolled are the ones an      *)
(* operator brings; the others are generated.                              *)
(***************************************************************************)
EXTENDS Sessions, TLC

Symmetric == Permutations(Request) \cup Permutations(User)
=============================================================================
