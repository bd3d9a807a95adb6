------------------------------ MODULE MCMarket ------------------------------
(***************************************************************************)
(* Two applications whose releases Control publishes and answers for.  One *)
(* of the initial states of Market.                                        *)
(***************************************************************************)
EXTENDS Market

Operator == {<<"b", 1>>}

MCInit == Start({<<"a", 1>>})

MCSpec == MCInit /\ [][Next]_vars
MCFairSpec == MCSpec /\ Fairness
=============================================================================
