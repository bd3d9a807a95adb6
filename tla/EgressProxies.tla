---------------------------- MODULE EgressProxies ----------------------------
(***************************************************************************)
(* Package internal/egress: the proxies an organization manages, and the   *)
(* probes (Service.Test) that run for a minute without a transaction while *)
(* the proxy may be saved, switched off, deleted or probed again, by this  *)
(* process or another.                                                     *)
(***************************************************************************)
EXTENDS Integers, FiniteSets

CONSTANTS Proxy,        \* proxy ids, never used twice
          Endpoint,     \* endpoint keys, unique within the organization
          Tester,       \* requests for a probe
          ProcessOf,    \* the process each of them runs in
          Slots,        \* probes one process runs at a time
          Deadline,     \* the request's 55 s in ticks
          Lease,        \* the lease's 65 s in ticks
          MaxRevision, MaxClock,   \* named bounds of the instance
          None, Gone

Status == {"pending", "active", "off"}
Result == [of : Nat, passed : BOOLEAN]
Row    == [endpoint : Endpoint, status : Status, revision : Nat, expires : Nat,
           probe : Result \cup {None}, token : Tester \cup {None}, until : Nat,
           assigned : BOOLEAN]
Request == [pc : {"read", "slot", "running", "done"}, proxy : Proxy, revision : Nat,
            started : Nat]
Cards  == [revision : Nat, status : Status, result : Result \cup {None}]

ASSUME EgressAssumption ==
  /\ Slots \in Nat \ {0} /\ Deadline \in Nat \ {0} /\ Lease \in Nat /\ Deadline < Lease
  /\ MaxRevision \in Nat /\ MaxClock \in Nat
  /\ None # Gone /\ {None, Gone} \cap (Row \cup Cards \cup Request \cup Tester) = {}

VARIABLES
  clock,
  proxy,     \* station.egress_proxies
  tester     \* the progress of each probe request

vars == <<clock, proxy, tester>>

Empty ==
  /\ clock = 1
  /\ proxy = [p \in Proxy |-> None]
  /\ tester = [t \in Tester |-> None]

Saved == {p \in Proxy : proxy[p] # None /\ proxy[p] # Gone}
Busy  == {t \in Tester : tester[t] # None}
InState(pc) == {t \in Busy : tester[t].pc = pc}

(***************************************************************************)
(* Save: a new proxy, or the next revision of one for a caller who names   *)
(* the present revision (a row lock keeps the two together).  What was     *)
(* known of the old revision is dropped, a running probe's lease included; *)
(* off stays off unless asked for ("unset" is the empty status).           *)
(***************************************************************************)
Taken(e, p) == \E q \in Saved \ {p} : proxy[q].endpoint = e

Create(p, e, status, expires) ==
  /\ proxy[p] = None /\ ~Taken(e, p)
  /\ proxy' = [proxy EXCEPT ![p] =
       [endpoint |-> e, status |-> IF status = "unset" THEN "pending" ELSE status,
        revision |-> 1, expires |-> expires,
        probe |-> None, token |-> None, until |-> 0, assigned |-> FALSE]]
  /\ UNCHANGED <<clock, tester>>

Switched(old, status) ==
  IF status # "unset" THEN status ELSE IF old = "off" THEN "off" ELSE "pending"

UpdateSlip(p, e, status, expires) ==
  /\ p \in Saved /\ proxy[p].revision < MaxRevision /\ ~Taken(e, p)
  /\ proxy' = [proxy EXCEPT ![p] =
       [@ EXCEPT !.endpoint = e, !.expires = expires, !.revision = proxy[p].revision + 1,
                 !.status = Switched(proxy[p].status, status)]]
  /\ UNCHANGED <<clock, tester>>

Update(p, e, status, expires) ==
  /\ p \in Saved /\ proxy[p].revision < MaxRevision /\ ~Taken(e, p)
  /\ proxy' = [proxy EXCEPT ![p] =
       [@ EXCEPT !.endpoint = e, !.expires = expires, !.revision = proxy[p].revision + 1,
                 !.status = Switched(proxy[p].status, status), !.probe = None, !.token = None, !.until = 0]]
  /\ UNCHANGED <<clock, tester>>

(***************************************************************************)
(* Delete: refused while an application uses the proxy or a lease runs.    *)
(***************************************************************************)
DeleteSlip(p) ==
  /\ p \in Saved /\ ~proxy[p].assigned
  /\ proxy' = [proxy EXCEPT ![p] = Gone]
  /\ UNCHANGED <<clock, tester>>

Delete(p) ==
  /\ p \in Saved /\ ~proxy[p].assigned /\ proxy[p].until <= clock
  /\ proxy' = [proxy EXCEPT ![p] = Gone]
  /\ UNCHANGED <<clock, tester>>

(***************************************************************************)
(* The applications that use a proxy are written by no code of this        *)
(* repository.                                                             *)
(***************************************************************************)
Assign(p) ==
  /\ p \in Saved /\ proxy' = [proxy EXCEPT ![p] = [@ EXCEPT !.assigned = ~proxy[p].assigned]]
  /\ UNCHANGED <<clock, tester>>

-----------------------------------------------------------------------------
(***************************************************************************)
(* Test: reads the proxy, takes a slot of the process, takes the lease     *)
(* with its own token, probes, and stores the result under that token and  *)
(* the revision it read.  The deferred cleanup gives the lease back.       *)
(***************************************************************************)
Testable(p) ==
  /\ p \in Saved /\ proxy[p].status # "off"
  /\ proxy[p].expires = 0 \/ proxy[p].expires > clock

Get(t, p) ==
  /\ tester[t] = None /\ Testable(p)
  /\ tester' = [tester EXCEPT ![t] =
       [pc |-> "read", proxy |-> p, revision |-> proxy[p].revision, started |-> clock]]
  /\ UNCHANGED <<clock, proxy>>

Slotted(process) ==
  {t \in InState("slot") \cup InState("running") \cup InState("done") : ProcessOf[t] = process}

TakeSlot(t) ==
  /\ t \in InState("read")
  /\ tester' = [tester EXCEPT ![t] =
       IF Cardinality(Slotted(ProcessOf[t])) < Slots THEN [@ EXCEPT !.pc = "slot"] ELSE None]
  /\ UNCHANGED <<clock, proxy>>

(***************************************************************************)
(* A lease that ran out, and one that Save dropped, may be taken; a        *)
(* request whose time is over changes nothing any more.                    *)
(***************************************************************************)
InTime(t) == clock < tester[t].started + Deadline

Leasable(p, revision) ==
  p \in Saved /\ proxy[p].revision = revision /\ proxy[p].status # "off" /\ proxy[p].until < clock

TakeLease(t) ==
  LET p == tester[t].proxy IN
  /\ t \in InState("slot")
  /\ IF Leasable(p, tester[t].revision) /\ InTime(t)
       THEN /\ proxy' = [proxy EXCEPT ![p] = [@ EXCEPT !.token = t, !.until = clock + Lease]]
            /\ tester' = [tester EXCEPT ![t].pc = "running"]
       ELSE /\ tester' = [tester EXCEPT ![t] = None]
            /\ UNCHANGED proxy
  /\ UNCHANGED clock

(***************************************************************************)
(* The lease was committed and the answer lost: Test returns before it     *)
(* defers the cleanup, and nobody knows the token.                         *)
(***************************************************************************)
LoseLease(t) ==
  LET p == tester[t].proxy IN
  /\ t \in InState("slot") /\ Leasable(p, tester[t].revision) /\ InTime(t)
  /\ proxy' = [proxy EXCEPT ![p] = [@ EXCEPT !.token = None, !.until = clock + Lease]]
  /\ tester' = [tester EXCEPT ![t] = None]
  /\ UNCHANGED clock

Storable(t, p) ==
  /\ p \in Saved /\ proxy[p].token = t /\ proxy[p].revision = tester[t].revision
  /\ proxy[p].status # "off"

StoreResult(t, passed) ==
  LET p == tester[t].proxy IN
  /\ t \in InState("running")
  /\ proxy' = IF InTime(t) /\ Storable(t, p)
       THEN [proxy EXCEPT ![p] =
              [@ EXCEPT !.probe = [of |-> tester[t].revision, passed |-> passed],
                        !.status = IF passed THEN "active" ELSE "pending",
                        !.token = None, !.until = 0]]
       ELSE proxy
  /\ tester' = [tester EXCEPT ![t].pc = "done"]
  /\ UNCHANGED clock

(***************************************************************************)
(* The client left, the probe or a statement failed: nothing is stored.    *)
(***************************************************************************)
Interrupt(t) ==
  /\ t \in InState("running")
  /\ tester' = [tester EXCEPT ![t].pc = "done"]
  /\ UNCHANGED <<clock, proxy>>

OwnedSlip(t, p) == p \in Saved
Owned(t, p) == p \in Saved /\ proxy[p].token = t

Cleanup(t) ==
  LET p == tester[t].proxy IN
  /\ t \in InState("done")
  /\ proxy' = IF Owned(t, p)
       THEN [proxy EXCEPT ![p] = [@ EXCEPT !.token = None, !.until = 0]] ELSE proxy
  /\ tester' = [tester EXCEPT ![t] = None]
  /\ UNCHANGED clock

(***************************************************************************)
(* Requests that end without their cleanup, because the process ends or    *)
(* the cleanup fails: the lease stays, and its token is nobody's.          *)
(***************************************************************************)
Abandon(gone) ==
  /\ tester' = [t \in Tester |-> IF t \in gone THEN None ELSE tester[t]]
  /\ proxy' = [p \in Proxy |-> IF p \in Saved /\ proxy[p].token \in gone
                                 THEN [proxy[p] EXCEPT !.token = None] ELSE proxy[p]]
  /\ UNCHANGED clock

CleanupFails(t) == t \in InState("done") /\ Abandon({t})

Crash(process) == Abandon({t \in Tester : ProcessOf[t] = process})

Tick == clock < MaxClock /\ clock' = clock + 1 /\ UNCHANGED <<proxy, tester>>

Test(t) ==
  \/ \E p \in Proxy : Get(t, p)
  \/ TakeSlot(t) \/ TakeLease(t) \/ LoseLease(t)
  \/ \E passed \in BOOLEAN : StoreResult(t, passed)
  \/ Interrupt(t) \/ Cleanup(t) \/ CleanupFails(t)

Save(p) ==
  \E e \in Endpoint, status \in {"unset", "pending", "off"}, expires \in {0, MaxClock} :
    Create(p, e, status, expires) \/ Update(p, e, status, expires)

Next ==
  \/ \E p \in Proxy : Save(p) \/ Delete(p) \/ Assign(p)
  \/ \E t \in Tester : Test(t)
  \/ \E t \in Tester : Crash(ProcessOf[t])
  \/ Tick

Spec == Empty /\ [][Next]_vars

-----------------------------------------------------------------------------
(***************************************************************************)
(* Types of the table and of the requests.                                 *)
(***************************************************************************)
TypeOK ==
  /\ clock \in Nat
  /\ proxy \in [Proxy -> Row \cup {None, Gone}]
  /\ tester \in [Tester -> Request \cup {None}]

(***************************************************************************)
(* Leases, tokens and clocks left out, this is a register whose probes are *)
(* single steps on the revision it shows: a late result never lands on an  *)
(* edited proxy, nothing but an edit turns a proxy on again, and active    *)
(* means a passed probe of the present revision (Save, Test).              *)
(***************************************************************************)
Card(p) ==
  IF p \in Saved
    THEN [revision |-> proxy[p].revision, status |-> proxy[p].status, result |-> proxy[p].probe]
    ELSE proxy[p]

Register == INSTANCE ProxyRegister WITH card <- [p \in Proxy |-> Card(p)]

ImplementsRegister == Register!Spec

(***************************************************************************)
(* Two probes of one revision never run at once, whichever process they    *)
(* are in and whatever leases other probes gave back, lost or abandoned.   *)
(***************************************************************************)
Running(t) == t \in InState("running") /\ InTime(t)

OneProbePerRevision ==
  \A t, u \in Tester :
    ( /\ Running(t) /\ Running(u) /\ tester[t].proxy = tester[u].proxy
      /\ tester[t].revision = tester[u].revision ) => t = u

(***************************************************************************)
(* A proxy is not deleted under a probe of its present revision.           *)
(***************************************************************************)
DeleteWaits ==
  [][\A p \in Saved : proxy'[p] = Gone =>
       ~\E t \in Tester : /\ Running(t) /\ tester[t].proxy = p
                          /\ tester[t].revision = proxy[p].revision]_vars
=============================================================================
