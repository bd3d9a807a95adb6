---------------------------- MODULE MarketProofs ----------------------------
(***************************************************************************)
(* Proofs about the catalog of Control's market, for any number of         *)
(* applications, versions, requests, documents and restarts.               *)
(***************************************************************************)
EXTENDS Market, FiniteSetTheorems, TLAPS

(***************************************************************************)
(* Control's documents are numbered from 1, the last being the current one.*)
(***************************************************************************)
DocumentsTypeOK == \E n \in Nat \ {0} : document \in [1..n -> SUBSET Release]

AnswersTypeOK == answer \in [Release -> {"missing", "bare", "complete"}]

(***************************************************************************)
(* The inductive invariant.  That "not modified" is true needs that the    *)
(* edition a refresh works on is never older than the one whose tag Core   *)
(* holds, that a release is crossed off only once Control answered for it, *)
(* now or when it was cached, that Control does not take its answers back  *)
(* for the releases of the list stored, and that the file or the fallback  *)
(* is only loaded before a tag is held.                                    *)
(***************************************************************************)
LookupsFit ==
  /\ reader \in [Reader -> Release \cup {None}]
  /\ \A r \in cache : r \in Release /\ Known(r)

RefreshFits ==
  refresh.step \in {"versions", "asked"} =>
    /\ refresh.edition \in DOMAIN document
    /\ etag # None => etag <= refresh.edition
    /\ \A r \in document[refresh.edition] \ refresh.left : Known(r)
    /\ refresh.step = "asked" => refresh.tag \in Release

RefreshTyped ==
  refresh \in [step : {"idle", "sent", "versions", "asked", "saving"},
               tag : DOMAIN document \cup Release \cup {None},
               edition : DOMAIN document \cup {None},
               left : SUBSET Release]

StoredFits ==
  etag # None =>
    /\ etag \in DOMAIN document /\ life.state # "booting"
    /\ etag = Edition => /\ entries = Complete(document[Edition])
                         /\ \A r \in document[Edition] : Known(r)

LifeTyped == life \in [state : {"booting", "up", "down"}, starts : Nat]

MarketInv ==
  /\ DocumentsTypeOK /\ AnswersTypeOK /\ LifeTyped /\ RefreshTyped
  /\ LookupsFit /\ RefreshFits /\ StoredFits

-----------------------------------------------------------------------------
LEMMA EditionIsLast ==
  ASSUME DocumentsTypeOK
  PROVE  /\ Edition \in Nat \ {0} /\ DOMAIN document = 1..Edition
         /\ Edition \in DOMAIN document
         /\ document \in [1..Edition -> SUBSET Release]
<1>1. PICK n \in Nat \ {0} : document \in [1..n -> SUBSET Release]
  BY DEF DocumentsTypeOK
<1>2. DOMAIN document = 1..n
  BY <1>1
<1>3. Cardinality(1..n) = n
  BY <1>1, FS_Interval
<1>4. Edition = n
  BY <1>2, <1>3 DEF Edition
<1>5. QED
  BY <1>1, <1>2, <1>4

(***************************************************************************)
(* Control publishes a document, or learns of a release: what Core holds   *)
(* keeps its meaning, since no document changes and no answer that was     *)
(* given is taken back.                                                    *)
(***************************************************************************)
LEMMA PublishKeeps ==
  ASSUME MarketInv, NEW of \in SUBSET Release, Publish(of)
  PROVE  MarketInv'
<1>1. /\ Edition \in Nat \ {0} /\ DOMAIN document = 1..Edition
      /\ document \in [1..Edition -> SUBSET Release]
  BY EditionIsLast DEF MarketInv
<1>2. PICK m : m = Edition
  OBVIOUS
<1>3. /\ document' = [n \in 1..(m + 1) |-> IF n > m THEN of ELSE document[n]]
      /\ UNCHANGED <<answer, entries, etag, cache, miss, file, refresh, reader, life>>
  BY <1>2 DEF Publish, caches
<1>4. /\ document' \in [1..(m + 1) -> SUBSET Release] /\ m + 1 \in Nat \ {0}
      /\ DOMAIN document \subseteq DOMAIN document'
      /\ \A n \in DOMAIN document : document'[n] = document[n]
  BY <1>1, <1>2, <1>3
<1>5. DocumentsTypeOK'
  BY <1>4 DEF DocumentsTypeOK
<1>6. RefreshTyped'
  BY <1>3, <1>4 DEF MarketInv, RefreshTyped
<1>7. LookupsFit' /\ LifeTyped' /\ AnswersTypeOK'
  BY <1>3 DEF MarketInv, LookupsFit, LifeTyped, AnswersTypeOK, Known
<1>8. RefreshFits'
  BY <1>3, <1>4 DEF MarketInv, RefreshFits, Known
<1>9. StoredFits'
  <2>1. Edition' = m + 1
    <3>1. DOMAIN document' = 1..(m + 1) /\ Cardinality(1..(m + 1)) = m + 1
      BY <1>4, FS_Interval
    <3>2. QED
      BY <3>1 DEF Edition
  <2>2. etag # None => etag' # Edition'
    BY <1>1, <1>2, <1>3, <2>1 DEF MarketInv, StoredFits
  <2>3. QED
    BY <1>3, <1>4, <2>2 DEF MarketInv, StoredFits
<1>10. QED
  BY <1>5, <1>6, <1>7, <1>8, <1>9 DEF MarketInv

LEMMA LearnKeeps ==
  ASSUME MarketInv, NEW r \in Release, NEW as \in {"bare", "complete"}, Learn(r, as)
  PROVE  MarketInv'
<1>1. /\ answer[r] = "missing" /\ answer' = [answer EXCEPT ![r] = as]
      /\ UNCHANGED <<document, entries, etag, cache, miss, file, refresh, reader, life>>
  BY DEF Learn, caches, Known
<1>2. \A s \in Release : Known(s) => answer'[s] = answer[s]
  BY <1>1 DEF MarketInv, AnswersTypeOK, Known
<1>3. AnswersTypeOK'
  BY <1>1 DEF MarketInv, AnswersTypeOK
<1>4. /\ \A s \in Release : Known(s) => Known(s)'
      /\ \A n \in DOMAIN document : document[n] \subseteq Release
  BY <1>2 DEF Known, MarketInv, DocumentsTypeOK
<1>5. StoredFits'
  <2>1. Edition' = Edition /\ Edition \in DOMAIN document
    BY <1>1, EditionIsLast DEF MarketInv, Edition
  <2>2. ASSUME \A s \in document[Edition] : Known(s)
        PROVE  Complete(document[Edition])' = Complete(document[Edition])
    BY <1>1, <1>2, <1>4, <2>1, <2>2 DEF Complete
  <2>3. QED
    BY <1>1, <1>4, <2>1, <2>2 DEF MarketInv, StoredFits
<1>6. LookupsFit' /\ RefreshFits'
  BY <1>1, <1>4 DEF MarketInv, LookupsFit, RefreshFits
<1>7. DocumentsTypeOK' /\ LifeTyped' /\ RefreshTyped'
  BY <1>1 DEF MarketInv, DocumentsTypeOK, LifeTyped, RefreshTyped
<1>8. QED
  BY <1>3, <1>5, <1>6, <1>7 DEF MarketInv

-----------------------------------------------------------------------------
(***************************************************************************)
(* A refresh that fails: when Core holds a tag, the start is over and the  *)
(* list stays.                                                             *)
(***************************************************************************)
LEMMA FailureKeeps ==
  ASSUME MarketInv, Failed, UNCHANGED <<document, answer, etag>>, LookupsFit'
  PROVE  MarketInv'
<1>1. refresh' = Idle /\ Idle.step = "idle"
  BY DEF Failed, Idle
<1>2. RefreshTyped' /\ RefreshFits'
  BY <1>1 DEF RefreshTyped, RefreshFits, Idle
<1>3. LifeTyped'
  BY DEF MarketInv, LifeTyped, Failed
<1>4. StoredFits'
  BY DEF MarketInv, StoredFits, Failed, Complete, Known, Edition
<1>5. QED
  BY <1>2, <1>3, <1>4 DEF MarketInv, DocumentsTypeOK, AnswersTypeOK

(***************************************************************************)
(* Steps of the refresh that neither end it in failure nor store.          *)
(***************************************************************************)
LEMMA ProgressKeeps ==
  ASSUME MarketInv, UNCHANGED <<document, answer, entries, etag>>, LookupsFit',
         life' = life \/ life' = [life EXCEPT !.state = "up"], RefreshTyped', RefreshFits'
  PROVE  MarketInv'
<1>1. LifeTyped' /\ (life.state # "booting" => life'.state # "booting")
  BY DEF MarketInv, LifeTyped
<1>2. StoredFits'
  BY <1>1 DEF MarketInv, StoredFits, Complete, Known, Edition
<1>3. QED
  BY <1>1, <1>2 DEF MarketInv, DocumentsTypeOK, AnswersTypeOK

LEMMA RefreshSendKeeps == ASSUME MarketInv, RefreshSend PROVE MarketInv'
<1>1. /\ refresh' = [Idle EXCEPT !.step = "sent", !.tag = IF entries = {} THEN None ELSE etag]
      /\ UNCHANGED <<document, answer, entries, etag, cache, miss, file, reader, life>>
  BY DEF RefreshSend, control, caches
<1>2. etag \in DOMAIN document \cup {None}
  BY DEF MarketInv, StoredFits
<1>3. RefreshTyped' /\ RefreshFits'
  BY <1>1, <1>2 DEF RefreshTyped, RefreshFits, Idle
<1>4. LookupsFit'
  BY <1>1 DEF MarketInv, LookupsFit, Known
<1>5. QED
  BY <1>1, <1>3, <1>4, ProgressKeeps

LEMMA RefreshAnswerKeeps == ASSUME MarketInv, RefreshAnswer PROVE MarketInv'
<1>1. UNCHANGED <<document, answer, entries, etag, cache, reader>>
  BY DEF RefreshAnswer, control, caches
<1>2. LookupsFit'
  BY <1>1 DEF MarketInv, LookupsFit, Known
<1>3. Edition \in DOMAIN document /\ document[Edition] \in SUBSET Release
  BY EditionIsLast DEF MarketInv
<1>4. CASE refresh.tag = Edition
  <2>1. refresh' = Idle /\ life' = [life EXCEPT !.state = "up"]
    BY <1>4 DEF RefreshAnswer, Succeeded
  <2>2. RefreshTyped' /\ RefreshFits'
    BY <2>1 DEF RefreshTyped, RefreshFits, Idle
  <2>3. QED
    BY <1>1, <1>2, <2>1, <2>2, ProgressKeeps
<1>5. CASE refresh.tag # Edition
  <2>1. PICK m : m = Edition
    OBVIOUS
  <2>2. refresh' = [refresh EXCEPT !.step = "versions", !.edition = m, !.left = document[m]]
        /\ life' = life
    BY <1>5, <2>1 DEF RefreshAnswer
  <2>3. etag # None => etag <= m
    BY <2>1, EditionIsLast DEF MarketInv, StoredFits
  <2>4. RefreshTyped' /\ RefreshFits'
    BY <1>1, <1>3, <2>1, <2>2, <2>3 DEF MarketInv, RefreshTyped, RefreshFits
  <2>5. QED
    BY <1>1, <1>2, <2>2, <2>4, ProgressKeeps
<1>6. QED
  BY <1>4, <1>5

LEMMA VersionKeeps ==
  ASSUME MarketInv, NEW r \in Release,
         VersionRemembered(r) \/ VersionMissed(r) \/ VersionAsk(r)
  PROVE  MarketInv'
<1>1. UNCHANGED <<document, answer, etag, cache, reader>>
  BY DEF VersionRemembered, VersionMissed, VersionAsk, control, caches
<1>2. LookupsFit'
  BY <1>1 DEF MarketInv, LookupsFit, Known
<1>3. CASE VersionMissed(r)
  BY <1>1, <1>2, <1>3, FailureKeeps DEF VersionMissed
<1>4. CASE VersionRemembered(r)
  <2>1. /\ refresh.step = "versions" /\ refresh' = [refresh EXCEPT !.left = @ \ {r}]
        /\ Known(r) /\ UNCHANGED <<entries, life>>
    BY <1>4 DEF VersionRemembered, Remembered, MarketInv, LookupsFit
  <2>2. RefreshTyped' /\ RefreshFits'
    BY <1>1, <2>1 DEF MarketInv, RefreshTyped, RefreshFits, Known
  <2>3. QED
    BY <1>1, <1>2, <2>1, <2>2, ProgressKeeps
<1>5. CASE VersionAsk(r)
  <2>1. /\ refresh.step = "versions" /\ refresh' = [refresh EXCEPT !.step = "asked", !.tag = r]
        /\ UNCHANGED <<entries, life>>
    BY <1>5 DEF VersionAsk
  <2>2. RefreshTyped' /\ RefreshFits'
    BY <1>1, <2>1 DEF MarketInv, RefreshTyped, RefreshFits, Known
  <2>3. QED
    BY <1>1, <1>2, <2>1, <2>2, ProgressKeeps
<1>6. QED
  BY <1>3, <1>4, <1>5

LEMMA VersionAnswerKeeps ==
  ASSUME MarketInv, NEW found \in BOOLEAN, VersionAnswer(found)
  PROVE  MarketInv'
<1>1. PICK r : r = refresh.tag
  OBVIOUS
<1>2. /\ refresh.step = "asked" /\ (found => Known(r)) /\ Recorded(r, found)
      /\ UNCHANGED <<document, answer, etag, reader>>
  BY <1>1 DEF VersionAnswer, control
<1>3. LookupsFit'
  BY <1>1, <1>2 DEF MarketInv, LookupsFit, Known, Recorded, RefreshFits
<1>4. CASE ~found
  BY <1>2, <1>3, <1>4, FailureKeeps DEF VersionAnswer
<1>5. CASE found
  <2>1. /\ refresh' = [refresh EXCEPT !.step = "versions", !.tag = None, !.left = @ \ {r}]
        /\ UNCHANGED <<entries, life>>
    BY <1>1, <1>5 DEF VersionAnswer
  <2>2. RefreshTyped' /\ RefreshFits'
    BY <1>2, <1>5, <2>1 DEF MarketInv, RefreshTyped, RefreshFits, Known
  <2>3. QED
    BY <1>2, <1>3, <2>1, <2>2, ProgressKeeps
<1>6. QED
  BY <1>4, <1>5

(***************************************************************************)
(* The list is stored with its tag, or, when the answer had none, under    *)
(* the tag of an edition that is not newer.                                *)
(***************************************************************************)
LEMMA RefreshStoreKeeps ==
  ASSUME MarketInv, NEW tagged \in BOOLEAN, RefreshStore(tagged)
  PROVE  MarketInv'
<1>1. PICK n : n = refresh.edition
  OBVIOUS
<1>2. /\ entries' = Complete(document[n]) /\ etag' \in {n, etag}
      /\ refresh' = [refresh EXCEPT !.step = "saving"]
      /\ life' = [life EXCEPT !.state = "up"]
      /\ UNCHANGED <<document, answer, cache, reader>>
  BY <1>1 DEF RefreshStore, control, caches
<1>3. /\ n \in DOMAIN document /\ \A r \in document[n] : Known(r)
      /\ etag # None => etag \in DOMAIN document /\ etag <= n
  BY <1>1 DEF RefreshStore, MarketInv, RefreshFits, StoredFits
<1>4. LifeTyped' /\ life'.state # "booting"
  BY <1>2 DEF MarketInv, LifeTyped
<1>5. StoredFits'
  <2>1. /\ Edition' = Edition /\ Edition \in Nat /\ DOMAIN document = 1..Edition
    BY <1>2, EditionIsLast DEF MarketInv, Edition
  <2>2. etag' # None /\ etag' = Edition => n = Edition
    BY <1>2, <1>3, <2>1
  <2>3. etag' # None => etag' \in DOMAIN document
    BY <1>2, <1>3
  <2>4. QED
    BY <1>2, <1>3, <1>4, <2>1, <2>2, <2>3 DEF StoredFits, Complete, Known
<1>6. RefreshTyped' /\ RefreshFits'
  BY <1>2 DEF MarketInv, RefreshTyped, RefreshFits
<1>7. QED
  BY <1>2, <1>4, <1>5, <1>6 DEF MarketInv, DocumentsTypeOK, AnswersTypeOK, LookupsFit, Known

(***************************************************************************)
(* Requests, lapses and the rest leave the refresh alone.                  *)
(***************************************************************************)
LEMMA BesideKeeps ==
  ASSUME MarketInv,
         UNCHANGED <<document, answer, entries, etag, refresh, life>>, LookupsFit'
  PROVE  MarketInv'
<1>1. RefreshTyped' /\ RefreshFits'
  BY DEF MarketInv, RefreshTyped, RefreshFits, Known
<1>2. QED
  BY <1>1, ProgressKeeps

LEMMA RequestsKeep ==
  ASSUME MarketInv, NEW q \in Reader,
         \/ \E r \in Release : ResolveAsk(q, r)
         \/ \E b \in BOOLEAN : ResolveAnswer(q, b)
         \/ ResolveCut(q)
  PROVE  MarketInv'
<1>1. UNCHANGED <<document, answer, entries, etag, refresh, life>>
  BY DEF ResolveAsk, ResolveAnswer, ResolveCut, control, caches
<1>2. \/ UNCHANGED cache
      \/ \E r \in Release : Known(r) /\ cache' = cache \cup {r}
  BY DEF MarketInv, LookupsFit, ResolveAsk, ResolveAnswer, ResolveCut, caches, Recorded
<1>3. reader' \in [Reader -> Release \cup {None}]
  BY DEF MarketInv, LookupsFit, ResolveAsk, ResolveAnswer, ResolveCut
<1>4. LookupsFit'
  BY <1>1, <1>2, <1>3 DEF MarketInv, LookupsFit, Known
<1>5. QED
  BY <1>1, <1>4, BesideKeeps

LEMMA RestKeeps ==
  ASSUME MarketInv,
         \/ \E b \in BOOLEAN : RefreshSave(b)
         \/ RefreshCut
         \/ Restart
         \/ \E r \in Release : Lapse(r)
         \/ UNCHANGED vars
  PROVE  MarketInv'
<1>1. CASE \E b \in BOOLEAN : RefreshSave(b)
  <2>1. refresh' = Idle /\ UNCHANGED <<document, answer, entries, etag, cache, reader, life>>
    BY <1>1 DEF RefreshSave, control, caches
  <2>2. RefreshTyped' /\ RefreshFits' /\ LookupsFit'
    BY <2>1 DEF MarketInv, RefreshTyped, RefreshFits, Idle, LookupsFit, Known
  <2>3. QED
    BY <2>1, <2>2, ProgressKeeps
<1>2. CASE RefreshCut
  <2>1. Failed /\ UNCHANGED <<document, answer, etag, cache, reader>>
    BY <1>2 DEF RefreshCut, control, caches
  <2>2. LookupsFit'
    BY <2>1 DEF MarketInv, LookupsFit, Known
  <2>3. QED
    BY <2>1, <2>2, FailureKeeps
<1>3. CASE Restart
  <2>1. /\ life' = [state |-> "booting", starts |-> life.starts + 1]
        /\ etag' = None /\ cache' = {} /\ refresh' = Idle /\ UNCHANGED <<document, answer>>
        /\ reader' = [q \in Reader |-> None]
    BY <1>3 DEF Restart, control
  <2>2. LifeTyped' /\ RefreshTyped' /\ RefreshFits' /\ LookupsFit' /\ StoredFits'
    BY <2>1 DEF MarketInv, LifeTyped, RefreshTyped, RefreshFits, Idle, LookupsFit, StoredFits
  <2>3. QED
    BY <2>1, <2>2 DEF MarketInv, DocumentsTypeOK, AnswersTypeOK
<1>4. CASE \E r \in Release : Lapse(r)
  <2>1. UNCHANGED <<document, answer, entries, etag, refresh, life, cache, reader>>
    BY <1>4 DEF Lapse, control
  <2>2. QED
    BY <2>1, BesideKeeps DEF MarketInv, LookupsFit, Known
<1>5. CASE UNCHANGED vars
  BY <1>5, BesideKeeps DEF vars, MarketInv, LookupsFit, Known
<1>6. QED
  BY <1>1, <1>2, <1>3, <1>4, <1>5

-----------------------------------------------------------------------------
LEMMA MarketInitially == Init => MarketInv
<1> SUFFICES ASSUME NEW first \in SUBSET Release, Start(first) PROVE MarketInv
  BY DEF Init
<1>1. /\ document = [n \in {1} |-> first] /\ {1} = 1..1
      /\ answer = [r \in Release |-> "missing"] /\ etag = None /\ cache = {}
      /\ refresh = Idle /\ life = [state |-> "booting", starts |-> 0]
      /\ reader = [q \in Reader |-> None]
  BY DEF Start
<1>2. document \in [1..1 -> SUBSET Release] /\ 1 \in Nat \ {0}
  BY <1>1
<1>3. DocumentsTypeOK
  BY <1>2 DEF DocumentsTypeOK
<1>4. QED
  BY <1>1, <1>3 DEF MarketInv, AnswersTypeOK, LifeTyped, RefreshTyped, LookupsFit, RefreshFits,
     StoredFits, Idle

LEMMA MarketStep == MarketInv /\ [Next]_vars => MarketInv'
<1> SUFFICES ASSUME MarketInv, [Next]_vars PROVE MarketInv'
  OBVIOUS
<1>1. ASSUME Refreshing PROVE MarketInv'
  BY <1>1, RefreshSendKeeps, RefreshAnswerKeeps, RefreshStoreKeeps, VersionKeeps, RestKeeps
     DEF Refreshing
<1>2. QED
  BY <1>1, VersionAnswerKeeps, LearnKeeps, PublishKeeps, RequestsKeep, RestKeeps DEF Next

(***************************************************************************)
(* "Not modified" never confirms a list that is not the verified part of   *)
(* the current document, for any documents, versions and requests,         *)
(* whatever answers came without a tag, whatever lookups failed, were cut  *)
(* off or were answered from the caches, and whatever the cache file or    *)
(* the fallback held at start; as long as no document has the tag of an    *)
(* earlier one (RefreshMarket).                                            *)
(***************************************************************************)
THEOREM NotModifiedStaysTrue == Spec => []NotModifiedIsTrue
<1>1. MarketInv => NotModifiedIsTrue
  <2>1. MarketInv /\ etag = Edition => etag # None
    BY EditionIsLast, MarketAssumption DEF MarketInv
  <2>2. QED
    BY <2>1 DEF MarketInv, StoredFits, NotModifiedIsTrue
<1>2. QED
  BY <1>1, MarketInitially, MarketStep, PTL DEF Spec
=============================================================================
