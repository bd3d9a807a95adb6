--------------------------- MODULE MCEgressProxies ---------------------------
(***************************************************************************)
(* Requests of two processes on shared proxies.                            *)
(***************************************************************************)
EXTENDS EgressProxies

CONSTANTS t1, t2, t3

TwoProcesses == [t \in Tester |-> IF t = t3 THEN 2 ELSE 1]
=============================================================================
