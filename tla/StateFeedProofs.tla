-------------------------- MODULE StateFeedProofs ---------------------------
(***************************************************************************)
(* Proofs about the revisions of snapshots, for any organizations,         *)
(* applications, catalogs and readers, and any number of restarts.         *)
(***************************************************************************)
EXTENDS StateFeed, FiniteSetTheorems, TLAPS

Shown == {"pending", "installed", "offered", None} \X BOOLEAN

Rows(o) == [a \in App |-> Visible(o, a)]

TypeOK ==
  /\ scope \in [Org -> Nat]
  /\ row \in [Org -> [App -> {"pending", "installed", None}]]
  /\ job \in [App -> SUBSET Org]
  /\ boot \in Nat
  /\ memory \in [Org -> [revision : Nat, content : {0, 1}]]
  /\ reader \in [Reader -> [revision : Nat, rows : [App -> Shown]] \cup {None}]
  /\ answers \subseteq [org : Org, revision : Nat \X Nat \X Nat, rows : [App -> Shown],
                        runtime : {0, 1}]

(***************************************************************************)
(* What was read of the rows and of the memory under which revision: by    *)
(* the answers, by the snapshots under way, and by whoever reads now.      *)
(***************************************************************************)
RowsRead ==
  {<<x.org, x.revision[1], x.rows>> : x \in answers}
  \cup {<<o, reader[o].revision, reader[o].rows>> : o \in {r \in Reader : reader[r] # None}}

RowsNow == {<<o, scope[o], Rows(o)>> : o \in Org}

MemoryRead == {<<x.org, x.revision[2], x.revision[3], x.runtime>> : x \in answers}

MemoryNow == {<<o, boot, memory[o].revision, memory[o].content>> : o \in Org}

(***************************************************************************)
(* The catalog that a synchronisation read is still the stored one when it *)
(* writes: the advisory lock.                                              *)
(***************************************************************************)
SyncIsAlone == syncing # None => syncing.old = catalog

RowsNamed ==
  /\ \A p \in RowsRead : p[1] \in Org /\ p[2] \in Nat /\ p[2] <= scope[p[1]]
  /\ \A p, q \in RowsRead \cup RowsNow : p[1] = q[1] /\ p[2] = q[2] => p[3] = q[3]

MemoryNamed ==
  /\ \A p \in MemoryRead :
       /\ p[1] \in Org /\ p[2] \in Nat /\ p[3] \in Nat /\ p[2] <= boot
       /\ p[2] = boot => p[3] <= memory[p[1]].revision
  /\ \A p, q \in MemoryRead \cup MemoryNow :
       p[1] = q[1] /\ p[2] = q[2] /\ p[3] = q[3] => p[4] = q[4]

FeedInv == TypeOK /\ SyncIsAlone /\ RowsNamed /\ MemoryNamed

-----------------------------------------------------------------------------
(***************************************************************************)
(* What a step may do: no reading appears that nobody could make now, and  *)
(* whatever changes takes a revision above the present one.                *)
(***************************************************************************)
RowsMove ==
  /\ RowsRead' \subseteq RowsRead \cup RowsNow
  /\ scope' \in [Org -> Nat]
  /\ \A o \in Org : /\ scope'[o] >= scope[o]
                    /\ Rows(o)' # Rows(o) => scope'[o] > scope[o]

MemoryMoves ==
  /\ MemoryRead' \subseteq MemoryRead \cup MemoryNow
  /\ boot' \in Nat /\ memory' \in [Org -> [revision : Nat, content : {0, 1}]]
  /\ \/ boot' > boot
     \/ /\ boot' = boot
        /\ \A o \in Org : /\ memory'[o].revision >= memory[o].revision
                          /\ memory'[o].content # memory[o].content =>
                               memory'[o].revision > memory[o].revision

LEMMA RowsStep ==
  ASSUME FeedInv, RowsMove
  PROVE  RowsNamed'
<1>1. ASSUME NEW p \in RowsRead \cup RowsNow
      PROVE  p[1] \in Org /\ p[2] \in Nat /\ p[2] <= scope[p[1]]
  BY DEF FeedInv, TypeOK, RowsNamed, RowsNow
<1>2. ASSUME NEW p \in RowsRead'
      PROVE  p[1] \in Org /\ p[2] \in Nat /\ p[2] <= scope'[p[1]]
  <2>1. p \in RowsRead \cup RowsNow
    BY DEF RowsMove
  <2>2. p[1] \in Org /\ p[2] \in Nat /\ p[2] <= scope[p[1]]
    BY <1>1, <2>1
  <2>3. scope[p[1]] \in Nat /\ scope'[p[1]] \in Nat /\ scope[p[1]] <= scope'[p[1]]
    BY <2>2 DEF RowsMove, FeedInv, TypeOK
  <2>4. QED
    BY <2>2, <2>3
<1>3. ASSUME NEW p \in RowsRead', NEW q \in RowsNow', p[1] = q[1], p[2] = q[2]
      PROVE  p[3] = q[3]
  <2>1. PICK o \in Org : q = <<o, scope'[o], Rows(o)'>>
    BY DEF RowsNow
  <2>2. PICK r \in RowsNow : r = <<o, scope[o], Rows(o)>>
    BY DEF RowsNow
  <2>3. p \in RowsRead \cup RowsNow /\ p[1] = o /\ p[2] = scope'[o]
    BY <1>3, <2>1 DEF RowsMove
  <2>4. p[2] <= scope[o] /\ scope[o] \in Nat /\ scope'[o] \in Nat /\ scope[o] <= scope'[o]
    BY <1>1, <2>3 DEF RowsMove, FeedInv, TypeOK
  <2>5. scope'[o] = scope[o]
    BY <2>3, <2>4
  <2>6. Rows(o)' = Rows(o)
    BY <2>4, <2>5 DEF RowsMove
  <2>7. p[3] = r[3]
    BY <2>2, <2>3, <2>5 DEF FeedInv, RowsNamed
  <2>8. QED
    BY <2>1, <2>2, <2>6, <2>7
<1>4. ASSUME NEW p \in RowsRead', NEW q \in RowsRead', p[1] = q[1], p[2] = q[2]
      PROVE  p[3] = q[3]
  BY <1>4 DEF RowsMove, FeedInv, RowsNamed
<1>5. ASSUME NEW p \in RowsNow', NEW q \in RowsNow', p[1] = q[1]
      PROVE  p[3] = q[3]
  BY <1>5 DEF RowsNow
<1>6. ASSUME NEW p \in RowsRead' \cup RowsNow', NEW q \in RowsRead' \cup RowsNow',
             p[1] = q[1], p[2] = q[2]
      PROVE  p[3] = q[3]
  BY <1>3, <1>4, <1>5, <1>6
<1>7. QED
  BY <1>2, <1>6 DEF RowsNamed

LEMMA MemoryStep ==
  ASSUME FeedInv, MemoryMoves
  PROVE  MemoryNamed'
<1>0. ASSUME NEW o \in Org
      PROVE  /\ boot \in Nat /\ boot' \in Nat
             /\ memory[o].revision \in Nat /\ memory'[o].revision \in Nat
  BY DEF FeedInv, TypeOK, MemoryMoves
<1>1. ASSUME NEW p \in MemoryRead \cup MemoryNow
      PROVE  /\ p[1] \in Org /\ p[2] \in Nat /\ p[3] \in Nat /\ p[2] <= boot
             /\ p[2] = boot => p[3] <= memory[p[1]].revision
  BY <1>0 DEF FeedInv, MemoryNamed, MemoryNow
<1>2. ASSUME NEW p \in MemoryRead'
      PROVE  /\ p[1] \in Org /\ p[2] \in Nat /\ p[3] \in Nat /\ p[2] <= boot'
             /\ p[2] = boot' => p[3] <= memory'[p[1]].revision
  <2>1. p \in MemoryRead \cup MemoryNow
    BY DEF MemoryMoves
  <2>2. /\ p[1] \in Org /\ p[2] \in Nat /\ p[3] \in Nat /\ p[2] <= boot
        /\ p[2] = boot => p[3] <= memory[p[1]].revision
    BY <1>1, <2>1
  <2>3. CASE boot' > boot
    BY <1>0, <2>2, <2>3
  <2>4. CASE boot' = boot /\ memory'[p[1]].revision >= memory[p[1]].revision
    BY <1>0, <2>2, <2>4
  <2>5. QED
    BY <2>2, <2>3, <2>4 DEF MemoryMoves
<1>3. ASSUME NEW p \in MemoryRead', NEW q \in MemoryNow', p[1] = q[1], p[2] = q[2], p[3] = q[3]
      PROVE  p[4] = q[4]
  <2>1. PICK o \in Org : q = <<o, boot', memory'[o].revision, memory'[o].content>>
    BY DEF MemoryNow
  <2>2. PICK r \in MemoryNow : r = <<o, boot, memory[o].revision, memory[o].content>>
    BY DEF MemoryNow
  <2>3. /\ p \in MemoryRead \cup MemoryNow
        /\ p[1] = o /\ p[2] = boot' /\ p[3] = memory'[o].revision
    BY <1>3, <2>1 DEF MemoryMoves
  <2>4. boot' <= boot /\ (boot' = boot => memory'[o].revision <= memory[o].revision)
    BY <1>1, <2>3
  <2>5. boot' = boot /\ memory'[o].revision = memory[o].revision
    BY <1>0, <2>4 DEF MemoryMoves
  <2>6. memory'[o].content = memory[o].content
    BY <1>0, <2>5 DEF MemoryMoves
  <2>7. p[4] = r[4]
    BY <2>2, <2>3, <2>5 DEF FeedInv, MemoryNamed
  <2>8. QED
    BY <2>1, <2>2, <2>6, <2>7
<1>4. ASSUME NEW p \in MemoryRead', NEW q \in MemoryRead', p[1] = q[1], p[2] = q[2], p[3] = q[3]
      PROVE  p[4] = q[4]
  BY <1>4 DEF MemoryMoves, FeedInv, MemoryNamed
<1>5. ASSUME NEW p \in MemoryNow', NEW q \in MemoryNow', p[1] = q[1]
      PROVE  p[4] = q[4]
  BY <1>5 DEF MemoryNow
<1>6. ASSUME NEW p \in MemoryRead' \cup MemoryNow', NEW q \in MemoryRead' \cup MemoryNow',
             p[1] = q[1], p[2] = q[2], p[3] = q[3]
      PROVE  p[4] = q[4]
  BY <1>3, <1>4, <1>5, <1>6
<1>7. QED
  BY <1>2, <1>6 DEF MemoryNamed

-----------------------------------------------------------------------------
LEMMA InitFeed == Starting => FeedInv
<1> SUFFICES ASSUME Starting PROVE FeedInv
  OBVIOUS
<1>1. TypeOK
  BY StateFeedAssumption DEF Starting, TypeOK
<1>2. RowsRead = {} /\ MemoryRead = {}
  BY DEF Starting, RowsRead, MemoryRead
<1>3. ASSUME NEW p \in RowsNow, NEW q \in RowsNow, p[1] = q[1]
      PROVE  p[3] = q[3]
  BY <1>3 DEF RowsNow
<1>4. ASSUME NEW p \in MemoryNow, NEW q \in MemoryNow, p[1] = q[1]
      PROVE  p[4] = q[4]
  BY <1>4 DEF MemoryNow
<1>5. SyncIsAlone
  BY DEF Starting, SyncIsAlone
<1>6. RowsNamed
  BY <1>2, <1>3 DEF RowsNamed
<1>7. MemoryNamed
  BY <1>2, <1>4 DEF MemoryNamed
<1>8. QED
  BY <1>1, <1>5, <1>6, <1>7 DEF FeedInv

LEMMA MarkMoves ==
  ASSUME TypeOK, NEW marked, mark_app_state(marked)
  PROVE  /\ scope' \in [Org -> Nat]
         /\ \A o \in Org : /\ scope'[o] >= scope[o]
                           /\ \A a \in App : <<o, a>> \in marked => scope'[o] > scope[o]
<1>1. ASSUME NEW o \in Org
      PROVE  /\ scope[o] + Cardinality({a \in App : <<o, a>> \in marked}) \in Nat
             /\ scope[o] + Cardinality({a \in App : <<o, a>> \in marked}) >= scope[o]
             /\ \A a \in App : <<o, a>> \in marked =>
                  scope[o] + Cardinality({b \in App : <<o, b>> \in marked}) > scope[o]
  <2>1. PICK S \in SUBSET App : S = {a \in App : <<o, a>> \in marked}
    OBVIOUS
  <2>2. IsFiniteSet(S)
    BY StateFeedAssumption, FS_Subset
  <2>3. Cardinality(S) \in Nat /\ (Cardinality(S) = 0 <=> S = {})
    BY <2>2, FS_CardinalityType, FS_EmptySet
  <2>4. scope[o] \in Nat
    BY DEF TypeOK
  <2>5. \A a \in App : <<o, a>> \in marked => S # {}
    BY <2>1
  <2>6. scope[o] + Cardinality(S) \in Nat /\ scope[o] + Cardinality(S) >= scope[o]
    BY <2>3, <2>4
  <2>7. S # {} => scope[o] + Cardinality(S) > scope[o]
    BY <2>3, <2>4
  <2>8. QED
    BY <2>1, <2>5, <2>6, <2>7
<1>2. scope' = [o \in Org |-> scope[o] + Cardinality({a \in App : <<o, a>> \in marked})]
  BY DEF mark_app_state
<1>3. QED
  BY <1>1, <1>2

LEMMA SameReadings ==
  ASSUME UNCHANGED <<answers, reader>>
  PROVE  RowsRead' = RowsRead /\ MemoryRead' = MemoryRead
  BY DEF RowsRead, MemoryRead

LEMMA SameRows ==
  ASSUME TypeOK, UNCHANGED <<scope, row, job, catalog>>, RowsRead' \subseteq RowsRead \cup RowsNow
  PROVE  RowsMove
<1>1. \A o \in Org : Rows(o)' = Rows(o)
  BY DEF Rows, Visible
<1>2. \A o \in Org : scope'[o] >= scope[o]
  BY DEF TypeOK
<1>3. QED
  BY <1>1, <1>2 DEF RowsMove, TypeOK

LEMMA SameMemory ==
  ASSUME TypeOK, UNCHANGED <<boot, memory>>, MemoryRead' \subseteq MemoryRead \cup MemoryNow
  PROVE  MemoryMoves
<1>1. \A o \in Org : memory'[o].revision >= memory[o].revision
  BY DEF TypeOK
<1>2. QED
  BY <1>1 DEF MemoryMoves, TypeOK

LEMMA BusinessStep ==
  ASSUME FeedInv, NEW o \in Org, NEW a \in App, app_state_business_changed(o, a)
  PROVE  FeedInv'
<1>1. /\ TypeOK /\ mark_app_state({<<o, a>>})
      /\ UNCHANGED <<catalog, process, syncing, reader, answers>>
  BY DEF FeedInv, app_state_business_changed
<1>2. /\ scope' \in [Org -> Nat]
      /\ \A p \in Org : scope'[p] >= scope[p]
      /\ scope'[o] > scope[o]
  BY <1>1, MarkMoves
<1>3. /\ row' \in [Org -> [App -> {"pending", "installed", None}]]
      /\ job' \in [App -> SUBSET Org]
      /\ \A p \in Org \ {o} : \A b \in App : row'[p][b] = row[p][b] /\ (p \in job'[b] <=> p \in job[b])
  <2>1. CASE /\ UNCHANGED job
             /\ \E state \in {"pending", "installed", None} \ {row[o][a]} :
                  row' = [row EXCEPT ![o][a] = state]
    BY <1>1, <2>1 DEF TypeOK
  <2>2. CASE /\ UNCHANGED row
             /\ job' = [job EXCEPT ![a] = IF o \in @ THEN @ \ {o} ELSE @ \cup {o}]
    BY <1>1, <2>2 DEF TypeOK
  <2>3. QED
    BY <2>1, <2>2 DEF app_state_business_changed
<1>4. ASSUME NEW p \in Org, p # o
      PROVE  Rows(p)' = Rows(p)
  <2>1. ASSUME NEW b \in App
        PROVE  Visible(p, b)' = Visible(p, b)
    <3>1. row'[p][b] = row[p][b] /\ (p \in job'[b]) = (p \in job[b]) /\ catalog' = catalog
      BY <1>1, <1>3, <1>4
    <3>2. QED
      BY <3>1 DEF Visible
  <2>2. QED
    BY <2>1 DEF Rows
<1>5. RowsMove
  BY <1>1, <1>2, <1>4, SameReadings DEF RowsMove
<1>6. MemoryMoves
  BY <1>1, SameReadings, SameMemory DEF process
<1>7. TypeOK' /\ SyncIsAlone'
  BY <1>1, <1>2, <1>3 DEF TypeOK, SyncIsAlone, FeedInv, process
<1>8. QED
  BY <1>5, <1>6, <1>7, RowsStep, MemoryStep DEF FeedInv

LEMMA SyncWriteStep ==
  ASSUME FeedInv, SyncCatalogWrite
  PROVE  FeedInv'
<1>1. PICK apps, changed :
        /\ apps = syncing.apps
        /\ changed = (apps \ syncing.old) \cup (syncing.old \ apps)
  OBVIOUS
<1>2. /\ TypeOK /\ syncing.old = catalog /\ catalog' = apps /\ mark_app_state(Org \X changed)
      /\ syncing' = None /\ UNCHANGED <<row, job, process, reader, answers>>
  BY <1>1 DEF FeedInv, SyncIsAlone, SyncCatalogWrite
<1>3. /\ scope' \in [Org -> Nat]
      /\ \A o \in Org : /\ scope'[o] >= scope[o]
                        /\ \A a \in App : <<o, a>> \in Org \X changed => scope'[o] > scope[o]
  BY <1>2, MarkMoves
<1>4. ASSUME NEW o \in Org, Rows(o)' # Rows(o)
      PROVE  scope'[o] > scope[o]
  <2>1. PICK a \in App : Visible(o, a)' # Visible(o, a)
    BY <1>4 DEF Rows
  <2>2. ~(a \in catalog' <=> a \in catalog)
    BY <1>2, <2>1 DEF Visible
  <2>3. a \in changed
    BY <1>1, <1>2, <2>2
  <2>4. QED
    BY <1>3, <2>3
<1>5. RowsMove
  BY <1>2, <1>3, <1>4, SameReadings DEF RowsMove
<1>6. MemoryMoves
  BY <1>2, SameReadings, SameMemory DEF process
<1>7. TypeOK' /\ SyncIsAlone'
  BY <1>2, <1>3 DEF TypeOK, SyncIsAlone, process
<1>8. QED
  BY <1>5, <1>6, <1>7, RowsStep, MemoryStep DEF FeedInv

(***************************************************************************)
(* Steps that leave rows, memory and readings alone.                       *)
(***************************************************************************)
LEMMA IdleStep ==
  ASSUME FeedInv, UNCHANGED <<scope, row, job, boot, memory, answers, reader, catalog>>,
         \/ UNCHANGED syncing
         \/ syncing' = None
         \/ syncing'.old = catalog
  PROVE  FeedInv'
<1>1. TypeOK
  BY DEF FeedInv
<1>2. RowsMove
  BY <1>1, SameReadings, SameRows
<1>3. MemoryMoves
  BY <1>1, SameReadings, SameMemory
<1>4. TypeOK' /\ SyncIsAlone'
  BY DEF FeedInv, TypeOK, SyncIsAlone
<1>5. QED
  BY <1>2, <1>3, <1>4, RowsStep, MemoryStep DEF FeedInv

LEMMA ObserveStep ==
  ASSUME FeedInv, NEW o \in Org, Observe(o)
  PROVE  FeedInv'
<1>1. /\ TypeOK /\ UNCHANGED <<scope, row, job, catalog, boot, syncing, reader, answers>>
      /\ memory' = [memory EXCEPT ![o] = [revision |-> @.revision + 1, content |-> 1 - @.content]]
  BY DEF FeedInv, Observe, database
<1>2. PICK n \in Nat, c \in {0, 1} : n = memory[o].revision /\ c = memory[o].content
  BY <1>1 DEF TypeOK
<1>3. memory' = [memory EXCEPT ![o] = [revision |-> n + 1, content |-> 1 - c]]
  BY <1>1, <1>2 DEF TypeOK
<1>4. [revision |-> n + 1, content |-> 1 - c] \in [revision : Nat, content : {0, 1}]
  BY <1>2
<1>5. memory' \in [Org -> [revision : Nat, content : {0, 1}]]
  BY <1>1, <1>3, <1>4 DEF TypeOK
<1>6. ASSUME NEW p \in Org
      PROVE  /\ memory'[p].revision >= memory[p].revision
             /\ memory'[p].content # memory[p].content =>
                  memory'[p].revision > memory[p].revision
  <2>1. CASE p = o
    BY <1>1, <1>2, <1>3, <2>1 DEF TypeOK
  <2>2. CASE p # o
    BY <1>1, <1>3, <2>2 DEF TypeOK
  <2>3. QED
    BY <2>1, <2>2
<1>7. MemoryMoves
  BY <1>1, <1>5, <1>6, SameReadings DEF MemoryMoves, TypeOK
<1>8. RowsMove
  BY <1>1, SameReadings, SameRows
<1>9. TypeOK' /\ SyncIsAlone'
  BY <1>1, <1>5 DEF FeedInv, TypeOK, SyncIsAlone
<1>10. QED
  BY <1>7, <1>8, <1>9, RowsStep, MemoryStep DEF FeedInv

LEMMA RestartStep ==
  ASSUME FeedInv, Restart
  PROVE  FeedInv'
<1>1. /\ TypeOK /\ boot' = boot + 1
      /\ memory' = [o \in Org |-> [revision |-> 0, content |-> 0]]
      /\ reader' = [r \in Reader |-> None] /\ syncing' = None
      /\ UNCHANGED <<scope, row, job, catalog, answers>>
  BY DEF FeedInv, Restart, database
<1>2. RowsRead' \subseteq RowsRead /\ MemoryRead' = MemoryRead
  BY <1>1 DEF RowsRead, MemoryRead
<1>3. MemoryMoves
  BY <1>1, <1>2 DEF MemoryMoves, TypeOK
<1>4. RowsMove
  BY <1>1, <1>2, SameRows
<1>5. TypeOK' /\ SyncIsAlone'
  BY <1>1 DEF TypeOK, SyncIsAlone
<1>6. QED
  BY <1>3, <1>4, <1>5, RowsStep, MemoryStep DEF FeedInv

LEMMA SnapshotBeginStep ==
  ASSUME FeedInv, NEW o \in Reader, SnapshotBegin(o)
  PROVE  FeedInv'
<1>1. PICK held : held = [revision |-> scope[o], rows |-> Rows(o)]
  OBVIOUS
<1>2. /\ TypeOK /\ reader' = [reader EXCEPT ![o] = held] /\ o \in Org
      /\ UNCHANGED <<scope, row, job, catalog, boot, memory, syncing, answers>>
  BY <1>1, StateFeedAssumption DEF FeedInv, SnapshotBegin, database, process, Rows
<1>3. held \in [revision : Nat, rows : [App -> Shown]]
  <2>1. ASSUME NEW a \in App
        PROVE  Visible(o, a) \in Shown
    <3>1. row[o][a] \in {"pending", "installed", None} /\ (o \in job[a]) \in BOOLEAN
      BY <1>2 DEF TypeOK
    <3>2. QED
      BY <3>1 DEF Visible, Shown
  <2>2. Rows(o) \in [App -> Shown] /\ scope[o] \in Nat
    BY <1>2, <2>1 DEF Rows, TypeOK
  <2>3. QED
    BY <1>1, <2>2
<1>4. RowsRead' \subseteq RowsRead \cup RowsNow
  <2> SUFFICES ASSUME NEW p \in RowsRead' PROVE p \in RowsRead \cup RowsNow
    OBVIOUS
  <2>1. CASE \E x \in answers : p = <<x.org, x.revision[1], x.rows>>
    BY <2>1 DEF RowsRead
  <2>2. ASSUME NEW r \in Reader, reader'[r] # None,
               p = <<r, reader'[r].revision, reader'[r].rows>>
        PROVE  p \in RowsRead \cup RowsNow
    <3>1. CASE r = o
      <4>1. reader'[r] = held /\ held.revision = scope[o] /\ held.rows = Rows(o)
        BY <1>1, <1>2, <3>1 DEF TypeOK
      <4>2. p = <<o, scope[o], Rows(o)>>
        BY <2>2, <3>1, <4>1
      <4>3. QED
        BY <1>2, <4>2 DEF RowsNow
    <3>2. CASE r # o
      <4>1. reader'[r] = reader[r]
        BY <1>2, <3>2 DEF TypeOK
      <4>2. QED
        BY <2>2, <4>1 DEF RowsRead
    <3>3. QED
      BY <3>1, <3>2
  <2>3. QED
    BY <1>2, <2>1, <2>2 DEF RowsRead
<1>5. RowsMove
  BY <1>2, <1>4, SameRows
<1>6. MemoryMoves
  <2>1. MemoryRead' = MemoryRead
    BY <1>2 DEF MemoryRead
  <2>2. QED
    BY <1>2, <2>1, SameMemory
<1>7. TypeOK' /\ SyncIsAlone'
  BY <1>2, <1>3 DEF FeedInv, TypeOK, SyncIsAlone
<1>8. QED
  BY <1>5, <1>6, <1>7, RowsStep, MemoryStep DEF FeedInv

LEMMA SnapshotEndStep ==
  ASSUME FeedInv, NEW o \in Reader, SnapshotEnd(o)
  PROVE  FeedInv'
<1>1. PICK n, rows, content, x :
        /\ n = memory[o].revision /\ rows = reader[o].rows /\ content = memory[o].content
        /\ x = [org |-> o, revision |-> <<reader[o].revision, boot, n>>,
                rows |-> rows, runtime |-> content]
  OBVIOUS
<1>2. /\ TypeOK /\ reader[o] # None /\ o \in Org
      /\ answers' = answers \cup {x} /\ reader' = [reader EXCEPT ![o] = None]
      /\ UNCHANGED <<scope, row, job, catalog, boot, memory, syncing>>
  BY <1>1, StateFeedAssumption DEF FeedInv, SnapshotEnd, Answered, database, process
<1>3. /\ reader[o].revision \in Nat /\ rows \in [App -> Shown]
      /\ boot \in Nat /\ n \in Nat /\ content \in {0, 1}
  BY <1>1, <1>2 DEF TypeOK
<1>4. /\ x \in [org : Org, revision : Nat \X Nat \X Nat, rows : [App -> Shown], runtime : {0, 1}]
      /\ x.org = o /\ x.revision[1] = reader[o].revision /\ x.revision[2] = boot
      /\ x.revision[3] = n /\ x.rows = rows /\ x.runtime = content
  BY <1>1, <1>2, <1>3
<1>5. RowsRead' \subseteq RowsRead \cup RowsNow
  <2> SUFFICES ASSUME NEW p \in RowsRead' PROVE p \in RowsRead
    OBVIOUS
  <2>1. ASSUME NEW y \in answers', p = <<y.org, y.revision[1], y.rows>>
        PROVE  p \in RowsRead
    <3>1. CASE y = x
      <4>1. p = <<o, reader[o].revision, reader[o].rows>>
        BY <1>1, <1>4, <2>1, <3>1
      <4>2. QED
        BY <1>2, <4>1 DEF RowsRead
    <3>2. CASE y \in answers
      BY <2>1, <3>2 DEF RowsRead
    <3>3. QED
      BY <1>2, <3>1, <3>2
  <2>2. ASSUME NEW r \in Reader, reader'[r] # None,
               p = <<r, reader'[r].revision, reader'[r].rows>>
        PROVE  p \in RowsRead
    <3>1. reader'[r] = reader[r]
      BY <1>2, <2>2 DEF TypeOK
    <3>2. QED
      BY <2>2, <3>1 DEF RowsRead
  <2>3. QED
    BY <2>1, <2>2 DEF RowsRead
<1>6. MemoryRead' \subseteq MemoryRead \cup MemoryNow
  <2> SUFFICES ASSUME NEW y \in answers'
               PROVE  <<y.org, y.revision[2], y.revision[3], y.runtime>> \in MemoryRead \cup MemoryNow
    BY DEF MemoryRead
  <2>1. CASE y = x
    BY <1>1, <1>2, <1>4, <2>1 DEF MemoryNow
  <2>2. CASE y \in answers
    BY <2>2 DEF MemoryRead
  <2>3. QED
    BY <1>2, <2>1, <2>2
<1>7. RowsMove
  BY <1>2, <1>5, SameRows
<1>8. MemoryMoves
  BY <1>2, <1>6, SameMemory
<1>9. answers' \subseteq [org : Org, revision : Nat \X Nat \X Nat, rows : [App -> Shown],
                          runtime : {0, 1}]
  BY <1>2, <1>4 DEF TypeOK
<1>10. TypeOK' /\ SyncIsAlone'
  BY <1>2, <1>9 DEF FeedInv, TypeOK, SyncIsAlone
<1>11. QED
  BY <1>7, <1>8, <1>10, RowsStep, MemoryStep DEF FeedInv

-----------------------------------------------------------------------------
LEMMA NextFeed ==
  ASSUME FeedInv, [Environment \/ Snapshots \/ Publishing]_vars
  PROVE  FeedInv'
<1>1. ASSUME NEW o \in Org, NEW a \in App, app_state_business_changed(o, a)
      PROVE  FeedInv'
  BY <1>1, BusinessStep
<1>2. ASSUME NEW p \in Syncer, NEW apps \in Catalogs, SyncCatalogRead(p, apps)
      PROVE  FeedInv'
  BY <1>2, IdleStep DEF SyncCatalogRead, database, process
<1>3. CASE SyncCatalogWrite
  BY <1>3, SyncWriteStep
<1>4. ASSUME NEW apps \in Catalogs, RefreshMarket(apps)
      PROVE  FeedInv'
  BY <1>4, IdleStep DEF RefreshMarket, database
<1>5. ASSUME NEW o \in Org, Observe(o)
      PROVE  FeedInv'
  BY <1>5, ObserveStep
<1>6. ASSUME NEW a \in App, ObservePosition(a)
      PROVE  FeedInv'
  BY <1>6, IdleStep DEF ObservePosition, database
<1>7. CASE Restart
  BY <1>7, RestartStep
<1>8. ASSUME NEW o \in Reader, SnapshotBegin(o)
      PROVE  FeedInv'
  BY <1>8, SnapshotBeginStep
<1>9. ASSUME NEW o \in Reader, SnapshotEnd(o)
      PROVE  FeedInv'
  BY <1>9, SnapshotEndStep
<1>10. CASE Publishing
  <2>1. UNCHANGED <<scope, row, job, boot, memory, answers, reader, catalog, syncing>>
    BY <1>10 DEF Publishing, CollectRows, Collect, Skip, Publish, database, process
  <2>2. QED
    BY <2>1, IdleStep
<1>11. CASE UNCHANGED vars
  <2>1. UNCHANGED <<scope, row, job, boot, memory, answers, reader, catalog, syncing>>
    BY <1>11 DEF vars, database, process
  <2>2. QED
    BY <2>1, IdleStep
<1>12. ASSUME NEW o \in Org, LeaseEnds(o)
       PROVE  FeedInv'
  BY <1>12, IdleStep DEF LeaseEnds, database, process
<1>13. QED
  BY <1>1, <1>2, <1>3, <1>4, <1>5, <1>6, <1>7, <1>8, <1>9, <1>10, <1>11, <1>12
     DEF Environment, Snapshots

(***************************************************************************)
(* Whatever the triggers, the catalog synchronisations, the observation    *)
(* memory and restarts do between a snapshot's reads, a revision of the    *)
(* rows stands for one content of the rows, and a boot id with a revision  *)
(* of the memory for one content of the memory (mark_app_state, Snapshot). *)
(***************************************************************************)
THEOREM FeedInvariant == Spec => []FeedInv
<1>1. FeedInv /\ [Environment \/ Snapshots \/ Publishing]_vars => FeedInv'
  BY NextFeed
<1>2. QED
  BY InitFeed, <1>1, PTL DEF Spec

(***************************************************************************)
(* Two snapshots of an organization with one revision say the same, across *)
(* processes and catalogs (Snapshot, mark_app_state, SyncCatalog).         *)
(***************************************************************************)
THEOREM RevisionsNameAnswers == Spec => []RevisionNamesAnswer
<1>1. FeedInv => RevisionNamesAnswer
  <2> SUFFICES ASSUME FeedInv, NEW x \in answers, NEW y \in answers,
                      x.org = y.org, x.revision = y.revision
               PROVE  x = y
    BY DEF RevisionNamesAnswer
  <2>1. PICK p, q : /\ p = <<x.org, x.revision[1], x.rows>>
                    /\ q = <<y.org, y.revision[1], y.rows>>
    OBVIOUS
  <2>2. p \in RowsRead /\ q \in RowsRead
    BY <2>1 DEF RowsRead
  <2>3. x.rows = y.rows
    BY <2>1, <2>2 DEF FeedInv, RowsNamed
  <2>4. PICK m, n : /\ m = <<x.org, x.revision[2], x.revision[3], x.runtime>>
                    /\ n = <<y.org, y.revision[2], y.revision[3], y.runtime>>
    OBVIOUS
  <2>5. m \in MemoryRead /\ n \in MemoryRead
    BY <2>4 DEF MemoryRead
  <2>6. x.runtime = y.runtime
    BY <2>4, <2>5 DEF FeedInv, MemoryNamed
  <2>7. QED
    BY <2>3, <2>6 DEF FeedInv, TypeOK
<1>2. QED
  BY FeedInvariant, <1>1, PTL
=============================================================================
