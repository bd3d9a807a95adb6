---------------------------- MODULE ProxyRegister ----------------------------
(***************************************************************************)
(* What the egress service promises of a proxy's card, without leases,     *)
(* tokens, slots or clocks: a probe is one step, on the configuration the  *)
(* card shows at that step.  EgressProxies implements it.                  *)
(***************************************************************************)
EXTENDS Integers

CONSTANTS Proxy, None, Gone

VARIABLE card

Blank == card = [p \in Proxy |-> None]

Shown == {p \in Proxy : card[p] # None /\ card[p] # Gone}

Create(p, status) ==
  /\ card[p] = None
  /\ card' = [card EXCEPT ![p] = [revision |-> 1, status |-> status, result |-> None]]

(***************************************************************************)
(* Every edit is a new revision that nothing is known of; only an edit     *)
(* turns a proxy off or on again.                                          *)
(***************************************************************************)
Edit(p, status) ==
  /\ p \in Shown
  /\ card' = [card EXCEPT ![p] =
       [revision |-> card[p].revision + 1, status |-> status, result |-> None]]

Judge(p, passed) ==
  /\ p \in Shown /\ card[p].status # "off"
  /\ card' = [card EXCEPT ![p] =
       [revision |-> card[p].revision,
        status   |-> IF passed THEN "active" ELSE "pending",
        result   |-> [of |-> card[p].revision, passed |-> passed]]]

Remove(p) == p \in Shown /\ card' = [card EXCEPT ![p] = Gone]

Next ==
  \E p \in Proxy :
    \/ \E status \in {"pending", "off"} : Create(p, status) \/ Edit(p, status)
    \/ \E passed \in BOOLEAN : Judge(p, passed)
    \/ Remove(p)

Spec == Blank /\ [][Next]_card
=============================================================================
