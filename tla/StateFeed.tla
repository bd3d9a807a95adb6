----------------------------- MODULE StateFeed ------------------------------
(***************************************************************************)
(* How the state of applications reaches its readers (package appstate):   *)
(* the revisions the database keeps for each organization (triggers of     *)
(* migration 0018), the catalog that every process writes at its start     *)
(* (SyncCatalog), the snapshot a request reads (Snapshot) and the hints    *)
(* that the Publisher puts into etcd, each under a lease of its own, for   *)
(* whoever waits for a change.                                             *)
(*                                                                         *)
(* The observation memory is reduced to what module Collectors shows of    *)
(* it: for each organization a content and a revision that moves with      *)
(* every change of it, both gone with the process.  A position of the      *)
(* catalog (catalogPosition) and the number of jobs that block an          *)
(* application have no revision: they come and go.                         *)
(***************************************************************************)
EXTENDS Integers, FiniteSets, FiniteSetsExt

CONSTANTS Org,          \* organization ids, in the publisher's order
          App,
          Catalogs,     \* the catalogs that a starting process may bring
          Reader,       \* organizations that ask for snapshots, one request at a time
          Syncer,       \* processes that start
          MaxChanges, MaxAnswers, MaxRestarts,   \* named bounds of the instance
          None

ASSUME StateFeedAssumption ==
  /\ IsFiniteSet(App) /\ Org \subseteq Nat /\ Reader \subseteq Org /\ Catalogs \subseteq SUBSET App
  /\ MaxChanges \in Nat /\ MaxAnswers \in Nat /\ MaxRestarts \in Nat

VARIABLES
  scope,      \* app_state_scopes.revision
  item,       \* app_state_items.revision
  row,        \* app_installations: the state of the organization's current row
  job,        \* app_operations and transitions that are active, by app and org
  catalog,    \* app_state_catalog
  entries,    \* the catalog of the serving process (Service.Catalog)
  syncing,    \* the advisory lock of SyncCatalog, with the catalog it read
  boot,       \* Memory.boot
  memory,     \* Memory: content and scope revision of each organization
  position,   \* applications whose trusted place is seen to be free
  reader,     \* Snapshot: its transaction's snapshot, or None
  answers,    \* history: what Snapshot returned
  publisher,  \* Publisher.step: the revisions read and the organizations left
  last,       \* Publisher.last
  hint,       \* etcd: the hint of each organization, None when it has no lease
  told,       \* history: the revisions that this process put for each organization
  changes     \* number of changes so far

database == <<scope, item, row, job, catalog>>
process  == <<boot, entries, memory, position>>
etcd     == <<hint, told>>
vars == <<database, process, syncing, reader, answers, publisher, last, etcd, changes>>

Starting ==
  /\ scope = [o \in Org |-> 0]
  /\ item = [o \in Org |-> [a \in App |-> 0]]
  /\ row = [o \in Org |-> [a \in App |-> None]]
  /\ job = [a \in App |-> {}]
  /\ catalog = {}
  /\ syncing = None
  /\ boot = 0 /\ entries \in Catalogs
  /\ memory = [o \in Org |-> [revision |-> 0, content |-> 0]]
  /\ position = {}
  /\ reader = [r \in Reader |-> None]
  /\ answers = {}
  /\ publisher = None
  /\ last = [o \in Org |-> None]
  /\ hint = [o \in Org |-> None] /\ told = [o \in Org |-> {}]
  /\ changes = 0

Changing == changes < MaxChanges /\ changes' = changes + 1

-----------------------------------------------------------------------------
(***************************************************************************)
(* mark_app_state: the scope takes its next revision, and so does the item.*)
(***************************************************************************)
mark_app_state(marked) ==
  LET bumps(o) == {a \in App : <<o, a>> \in marked} IN
  /\ scope' = [o \in Org |-> scope[o] + Cardinality(bumps(o))]
  /\ item' = [o \in Org |-> [a \in App |->
       IF a \in bumps(o)
         THEN scope[o] + Cardinality({b \in bumps(o) : b <= a}) ELSE item[o][a]]]

(***************************************************************************)
(* A transaction on the rows of one organization: a row changes state, a   *)
(* job starts or ends; the trigger marks the item in the same transaction. *)
(***************************************************************************)
app_state_business_changed(o, a) ==
  /\ Changing
  /\ \/ \E state \in {"pending", "installed", None} \ {row[o][a]} :
          row' = [row EXCEPT ![o][a] = state] /\ UNCHANGED job
     \/ job' = [job EXCEPT ![a] = IF o \in @ THEN @ \ {o} ELSE @ \cup {o}] /\ UNCHANGED row
  /\ mark_app_state({<<o, a>>})
  /\ UNCHANGED <<catalog, process, syncing, reader, answers, publisher, last, etcd>>

(***************************************************************************)
(* RefreshMarket gives the serving process another catalog; SyncCatalog,   *)
(* at a start and after a refresh, by this process or another, is a        *)
(* transaction of its own.                                                 *)
(***************************************************************************)
RefreshMarket(apps) ==
  /\ Changing /\ entries' = apps
  /\ UNCHANGED <<database, boot, memory, position, syncing, reader, answers, publisher, last, etcd>>

(***************************************************************************)
(* SyncCatalog: under the Station's advisory lock the stored catalog is    *)
(* read, then replaced, and every organization's item of an application    *)
(* that came or went is marked, all in one transaction.                    *)
(***************************************************************************)
SyncCatalogRead(p, apps) ==
  /\ syncing = None /\ Changing
  /\ syncing' = [by |-> p, apps |-> apps, old |-> catalog]
  /\ UNCHANGED <<database, process, reader, answers, publisher, last, etcd>>

SyncCatalogWrite ==
  LET apps    == syncing.apps
      changed == (apps \ syncing.old) \cup (syncing.old \ apps)
  IN /\ syncing # None
     /\ catalog' = apps
     /\ mark_app_state(Org \X changed)
     /\ syncing' = None
     /\ UNCHANGED <<row, job, process, reader, answers, publisher, last, etcd, changes>>

(***************************************************************************)
(* The observation memory changes: the content of one organization, or a   *)
(* position of the catalog.  A restart forgets it all.                     *)
(***************************************************************************)
Observe(o) ==
  /\ Changing
  /\ memory' = [memory EXCEPT ![o] = [revision |-> @.revision + 1, content |-> 1 - @.content]]
  /\ UNCHANGED <<database, boot, entries, position, syncing, reader, answers, publisher, last, etcd>>

ObservePosition(a) ==
  /\ Changing
  /\ position' = IF a \in position THEN position \ {a} ELSE position \cup {a}
  /\ UNCHANGED <<database, boot, entries, memory, syncing, reader, answers, publisher, last, etcd>>

Restart ==
  /\ boot < MaxRestarts /\ boot' = boot + 1 /\ entries' \in Catalogs
  /\ memory' = [o \in Org |-> [revision |-> 0, content |-> 0]]
  /\ position' = {}
  /\ reader' = [r \in Reader |-> None]
  /\ publisher' = None /\ last' = [o \in Org |-> None] /\ told' = [o \in Org |-> {}]
  /\ syncing' = None
  /\ UNCHANGED <<database, answers, hint, changes>>

-----------------------------------------------------------------------------
(***************************************************************************)
(* What the rows show an organization: its installation of an application, *)
(* or the catalog's entry where it has none, and whether a job blocks it.  *)
(***************************************************************************)
Visible(o, a) ==
  IF row[o][a] # None THEN <<row[o][a], o \in job[a]>>
  ELSE IF a \in catalog THEN <<"offered", o \in job[a]>> ELSE <<None, FALSE>>

(***************************************************************************)
(* Snapshot: scope and rows of one repeatable-read transaction, then the   *)
(* observation memory under its lock; the revision joins the two.          *)
(***************************************************************************)
SnapshotBegin(o) ==
  /\ reader[o] = None /\ Cardinality(answers) < MaxAnswers
  /\ reader' = [reader EXCEPT ![o] =
       [revision |-> scope[o], rows |-> [a \in App |-> Visible(o, a)]]]
  /\ UNCHANGED <<database, process, syncing, answers, publisher, last, etcd, changes>>

Answered(o, rows) ==
  [org |-> o, revision |-> <<reader[o].revision, boot, memory[o].revision>>,
   rows |-> rows, runtime |-> memory[o].content]

SnapshotEndSlip(o) ==
  /\ reader[o] # None
  /\ answers' = answers \cup {Answered(o, [a \in App |-> Visible(o, a)])}
  /\ reader' = [reader EXCEPT ![o] = None]
  /\ UNCHANGED <<database, process, syncing, publisher, last, etcd, changes>>

SnapshotEnd(o) ==
  /\ reader[o] # None
  /\ answers' = answers \cup {Answered(o, reader[o].rows)}
  /\ reader' = [reader EXCEPT ![o] = None]
  /\ UNCHANGED <<database, process, syncing, publisher, last, etcd, changes>>

-----------------------------------------------------------------------------
(***************************************************************************)
(* NotificationRevisions: the digest of all that an organization's views   *)
(* depend on, the jobs and installations of others included.               *)
(***************************************************************************)
Least(m, n) == IF m < n THEN m ELSE n

Registry == [scope |-> scope, row |-> row, job |-> job]

NotificationRevision(o, db) ==
  [state |-> <<db.scope[o], boot, memory[o].revision>>,
   positions |-> [a \in entries |-> a \in position],
   availability |-> [a \in {b \in App : b \in entries \/ db.row[o][b] # None} |->
      [foreign |-> \E p \in Org \ {o} : db.row[p][a] # None,
       blocking |-> Least(Cardinality(db.job[a]), 2)]]]

(***************************************************************************)
(* Publisher.step: read the tables in one snapshot, then the catalog and   *)
(* the observation memory of the process, and put the hint of every        *)
(* organization whose revision is not the last one acknowledged.  A Put    *)
(* may be lost, and it may be applied although the client gets an error;   *)
(* both leave last as it was.                                              *)
(***************************************************************************)
Outcomes == {"ok", "lost", "applied"}

CollectRows ==
  /\ publisher = None
  /\ publisher' = [rows |-> Registry, revisions |-> None, left |-> Org]
  /\ UNCHANGED <<database, process, syncing, reader, answers, last, etcd, changes>>

Collect ==
  /\ publisher # None /\ publisher.revisions = None
  /\ publisher' = [publisher EXCEPT !.revisions =
       [o \in Org |-> NotificationRevision(o, publisher.rows)]]
  /\ UNCHANGED <<database, process, syncing, reader, answers, last, etcd, changes>>

Collected == publisher # None /\ publisher.revisions # None
Turn == Min(publisher.left)

Advance ==
  publisher' = IF publisher.left = {Turn} THEN None
               ELSE [publisher EXCEPT !.left = @ \ {Turn}]

(***************************************************************************)
(* etcdNotificationSink.Publish: each Put has a lease of its own.          *)
(***************************************************************************)
Put(o, revision) ==
  /\ hint' = [hint EXCEPT ![o] = revision]
  /\ told' = [told EXCEPT ![o] = @ \cup {revision}]

PublishSlip(outcome) ==
  LET revision == publisher.revisions[Turn] IN
  /\ Collected /\ last[Turn] # revision
  /\ IF outcome = "lost" THEN UNCHANGED etcd ELSE Put(Turn, revision)
  /\ last' = [last EXCEPT ![Turn] = revision]
  /\ Advance
  /\ UNCHANGED <<database, process, syncing, reader, answers, changes>>

Publish(outcome) ==
  LET revision == publisher.revisions[Turn] IN
  /\ Collected /\ last[Turn] # revision
  /\ IF outcome = "lost" THEN UNCHANGED etcd ELSE Put(Turn, revision)
  /\ last' = IF outcome = "ok" THEN [last EXCEPT ![Turn] = revision] ELSE last
  /\ Advance
  /\ UNCHANGED <<database, process, syncing, reader, answers, changes>>

Skip ==
  /\ Collected /\ last[Turn] = publisher.revisions[Turn]
  /\ Advance
  /\ UNCHANGED <<database, process, syncing, reader, answers, last, etcd, changes>>

(***************************************************************************)
(* Nobody keeps the lease of a hint alive: it ends, and etcd deletes the   *)
(* key, while the publisher goes on and skips the unchanged revision.      *)
(***************************************************************************)
LeaseEnds(o) ==
  /\ hint[o] # None /\ hint' = [hint EXCEPT ![o] = None]
  /\ UNCHANGED <<database, process, syncing, reader, answers, publisher, last, told, changes>>

Environment ==
  \/ \E o \in Org, a \in App : app_state_business_changed(o, a)
  \/ \E p \in Syncer, apps \in Catalogs : SyncCatalogRead(p, apps)
  \/ SyncCatalogWrite
  \/ \E apps \in Catalogs \ {entries} : RefreshMarket(apps)
  \/ \E o \in Org : Observe(o)
  \/ \E a \in App : ObservePosition(a)
  \/ Restart
  \/ \E o \in Org : LeaseEnds(o)

Snapshots == \E o \in Reader : SnapshotBegin(o) \/ SnapshotEnd(o)

Publishing == CollectRows \/ Collect \/ Skip \/ \E outcome \in Outcomes : Publish(outcome)

(***************************************************************************)
(* Publisher.Run takes a step every second, and etcd answers in the end:   *)
(* not every Put of an organization that is tried again and again fails.   *)
(* A lease that is not renewed ends.                                       *)
(***************************************************************************)
Fairness ==
  /\ WF_vars(Publishing)
  /\ \A o \in Org : SF_vars(Collected /\ Turn = o /\ Publish("ok")) /\ WF_vars(LeaseEnds(o))

Spec == Starting /\ [][Environment \/ Snapshots \/ Publishing]_vars /\ Fairness

-----------------------------------------------------------------------------
(***************************************************************************)
(* Two snapshots of an organization with the same revision say the same,   *)
(* whatever happened between the database read and the memory read         *)
(* (Snapshot, mark_app_state).                                             *)
(***************************************************************************)
RevisionNamesAnswer ==
  \A x, y \in answers : x.org = y.org /\ x.revision = y.revision => x = y

Present(o) == NotificationRevision(o, Registry)

(***************************************************************************)
(* When changes have ended, watchers of every organization have been told  *)
(* of the present state by this process, and etcd holds no other hint for  *)
(* who asks later: whatever writes were lost or applied in spite of an     *)
(* error, and whatever leases ended or processes restarted on the way      *)
(* (Publisher.step).  It does not say that they were told of it last: an   *)
(* ambiguous write is not retried when the state returns to the revision   *)
(* acknowledged before, and what it put stays until its lease ends.        *)
(***************************************************************************)
HintSettles ==
  \A o \in Org : <>[](Present(o) \in told[o] /\ hint[o] \in {Present(o), None})
=============================================================================
