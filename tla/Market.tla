------------------------------- MODULE Market -------------------------------
(***************************************************************************)
(* The catalog Core keeps of Control's market (catalog/market.go): the     *)
(* list of verified releases, the tag of the document it came from, the    *)
(* version answers it never asks for twice, the failed lookups it does not *)
(* repeat for a while, and the file the list is kept in for the next       *)
(* start.  One loop refreshes it; requests resolve releases beside it,     *)
(* through the same caches.                                                *)
(* Control is external: it publishes documents, each with a tag of its     *)
(* own that no later document has again, though it may leave the tag out   *)
(* of an answer, and it answers for a version once it has it, with a chart *)
(* or without.  What it answered it does not take back.                    *)
(***************************************************************************)
EXTENDS Integers, FiniteSets

CONSTANTS
  App, Version,
  Reader,        \* requests that resolve a release
  Fallback,      \* the verified releases of the operator's catalog file
  Cached,        \* whether a cache file is configured
  MaxEdition,    \* bound: documents Control publishes
  MaxRestart,    \* bound: starts after the first
  None

ASSUME MarketAssumption ==
  /\ Fallback \subseteq App \X Version /\ Cached \in BOOLEAN
  /\ MaxEdition \in Nat \ {0} /\ MaxRestart \in Nat /\ None \notin Nat

VARIABLES
  document,  \* Control: what each edition lists; the last is the current one
  answer,    \* Control: what the version endpoint knows of each release
  entries,   \* Core: the releases it lists
  etag,      \* Core: the edition whose tag it last stored, or None
  cache,     \* Core: releases whose answer is cached
  miss,      \* Core: releases whose lookup failed recently
  file,      \* the cache file's list, or None
  refresh,   \* the refresh under way
  reader,    \* the release each request is asking for
  life       \* "booting", "up" or "down", and how often it started

control == <<document, answer>>
caches  == <<cache, miss>>
vars    == <<document, answer, entries, etag, cache, miss, file, refresh, reader, life>>

Release == App \X Version

(***************************************************************************)
(* Control.  A document is the releases it offers, at most one of each     *)
(* application; items without a version, or disabled, are left out, as     *)
(* they never become entries.                                              *)
(***************************************************************************)
Edition == Cardinality(DOMAIN document)

Known(r) == answer[r] # "missing"

Complete(of) == {r \in of : answer[r] = "complete"}

OneOfEach(of) == \A a \in App : Cardinality({r \in of : r[1] = a}) =< 1

Publish(of) ==
  /\ Edition < MaxEdition
  /\ OneOfEach(of)
  /\ of # document[Edition]
  /\ document' = [n \in 1..(Edition + 1) |-> IF n > Edition THEN of ELSE document[n]]
  /\ UNCHANGED <<answer, entries, etag, caches, file, refresh, reader, life>>

Learn(r, as) ==
  /\ ~Known(r) /\ answer' = [answer EXCEPT ![r] = as]
  /\ UNCHANGED <<document, entries, etag, caches, file, refresh, reader, life>>

-----------------------------------------------------------------------------
Idle == [step |-> "idle", tag |-> None, edition |-> None, left |-> {}]

Start(first) ==
  /\ document = [n \in {1} |-> first]
  /\ answer = [r \in Release |-> "missing"]
  /\ entries = {} /\ etag = None /\ cache = {} /\ miss = {} /\ file = None
  /\ refresh = Idle
  /\ reader = [q \in Reader |-> None]
  /\ life = [state |-> "booting", starts |-> 0]

Init == \E first \in SUBSET Release : OneOfEach(first) /\ Start(first)

(***************************************************************************)
(* A refresh asks with the tag it holds only while it lists something.     *)
(***************************************************************************)
RefreshSend ==
  /\ life.state # "down" /\ refresh.step = "idle"
  /\ refresh' = [Idle EXCEPT !.step = "sent", !.tag = IF entries = {} THEN None ELSE etag]
  /\ UNCHANGED <<control, entries, etag, caches, file, reader, life>>

(***************************************************************************)
(* A refresh that failed changes nothing, except at start: there the       *)
(* cache file serves, if it lists anything, else the fallback, else the    *)
(* process ends.  A refresh that succeeded ends the start.                 *)
(***************************************************************************)
Failed ==
  /\ refresh' = Idle
  /\ LET loaded == IF file \in {None, {}} THEN Fallback ELSE file
     IN  IF life.state = "booting"
         THEN /\ entries' = loaded
              /\ life' = [life EXCEPT !.state = IF loaded = {} THEN "down" ELSE "up"]
         ELSE UNCHANGED <<entries, life>>

Succeeded ==
  /\ refresh' = Idle
  /\ life' = [life EXCEPT !.state = "up"]

RefreshAnswerSlip ==
  /\ refresh.step = "sent"
  /\ IF refresh.tag = Edition
     THEN Succeeded /\ UNCHANGED <<entries, etag>>
     ELSE /\ refresh' = [refresh EXCEPT !.step = "versions", !.edition = Edition,
                                        !.left = document[Edition]]
          /\ etag' = Edition
          /\ UNCHANGED <<entries, life>>
  /\ UNCHANGED <<control, caches, file, reader>>

RefreshAnswer ==
  /\ refresh.step = "sent"
  /\ IF refresh.tag = Edition
     THEN Succeeded /\ UNCHANGED entries
     ELSE /\ refresh' = [refresh EXCEPT !.step = "versions", !.edition = Edition,
                                        !.left = document[Edition]]
          /\ UNCHANGED <<entries, life>>
  /\ UNCHANGED <<control, etag, caches, file, reader>>

(***************************************************************************)
(* The transport fails, or the refresh meets its deadline: nothing is      *)
(* remembered of a lookup that was cut off.                                *)
(***************************************************************************)
RefreshCut ==
  /\ refresh.step \in {"sent", "asked"}
  /\ Failed
  /\ UNCHANGED <<control, etag, caches, file, reader>>

(***************************************************************************)
(* The lookup of one release (fetchMarketVersion), for the refresh and for *)
(* a request alike: the caches first, then Control, whose answer is        *)
(* recorded.  Another lookup of the same release may be under way.         *)
(***************************************************************************)
Remembered(r) == r \in cache
Missed(r) == r \notin cache /\ r \in miss

Recorded(r, found) ==
  /\ cache' = IF found THEN cache \cup {r} ELSE cache
  /\ miss' = IF found THEN miss \ {r} ELSE miss \cup {r}

VersionRemembered(r) ==
  /\ refresh.step = "versions" /\ r \in refresh.left
  /\ Remembered(r)
  /\ refresh' = [refresh EXCEPT !.left = @ \ {r}]
  /\ UNCHANGED <<control, entries, etag, caches, file, reader, life>>

VersionMissed(r) ==
  /\ refresh.step = "versions" /\ r \in refresh.left
  /\ Missed(r)
  /\ Failed
  /\ UNCHANGED <<control, etag, caches, file, reader>>

VersionAsk(r) ==
  /\ refresh.step = "versions" /\ r \in refresh.left
  /\ ~Remembered(r) /\ ~Missed(r)
  /\ refresh' = [refresh EXCEPT !.step = "asked", !.tag = r]
  /\ UNCHANGED <<control, entries, etag, caches, file, reader, life>>

(***************************************************************************)
(* Control's answer, or an error other than the refresh's own deadline.    *)
(***************************************************************************)
VersionAnswer(found) ==
  LET r == refresh.tag
  IN  /\ refresh.step = "asked"
      /\ found => Known(r)
      /\ Recorded(r, found)
      /\ IF found
         THEN /\ refresh' = [refresh EXCEPT !.step = "versions", !.tag = None, !.left = @ \ {r}]
              /\ UNCHANGED <<entries, life>>
         ELSE Failed
      /\ UNCHANGED <<control, etag, file, reader>>

(***************************************************************************)
(* With every release answered, the list is stored and, if the answer had  *)
(* one, its tag; without one the tag of an earlier list stays.  A release  *)
(* without a verified chart is not listed.                                 *)
(***************************************************************************)
RefreshStore(tagged) ==
  /\ refresh.step = "versions" /\ refresh.left = {}
  /\ entries' = Complete(document[refresh.edition])
  /\ etag' = IF tagged THEN refresh.edition ELSE etag
  /\ refresh' = [refresh EXCEPT !.step = "saving"]
  /\ life' = [life EXCEPT !.state = "up"]
  /\ UNCHANGED <<control, caches, file, reader>>

(***************************************************************************)
(* The file is replaced as a whole, or, when a step of that fails, kept.   *)
(***************************************************************************)
RefreshSave(written) ==
  /\ refresh.step = "saving"
  /\ written => Cached
  /\ file' = IF written THEN entries ELSE file
  /\ refresh' = Idle
  /\ UNCHANGED <<control, entries, etag, caches, reader, life>>

(***************************************************************************)
(* A request resolves a release (ResolveHelm): a listed one at once, any   *)
(* other through the lookup.                                               *)
(***************************************************************************)
ResolveAsk(q, r) ==
  /\ life.state = "up" /\ reader[q] = None
  /\ r \notin entries /\ ~Remembered(r) /\ ~Missed(r)
  /\ reader' = [reader EXCEPT ![q] = r]
  /\ UNCHANGED <<control, entries, etag, caches, file, refresh, life>>

ResolveAnswer(q, found) ==
  /\ reader[q] # None
  /\ found => Known(reader[q])
  /\ Recorded(reader[q], found)
  /\ reader' = [reader EXCEPT ![q] = None]
  /\ UNCHANGED <<control, entries, etag, file, refresh, life>>

ResolveCut(q) ==
  /\ reader[q] # None
  /\ reader' = [reader EXCEPT ![q] = None]
  /\ UNCHANGED <<control, entries, etag, caches, file, refresh, life>>

(***************************************************************************)
(* The time a failed lookup is remembered for passes.                      *)
(***************************************************************************)
Lapse(r) ==
  /\ r \in miss /\ miss' = miss \ {r}
  /\ UNCHANGED <<control, entries, etag, cache, file, refresh, reader, life>>

(***************************************************************************)
(* The process ends, or is started again with nothing but the file.        *)
(***************************************************************************)
Restart ==
  /\ life.starts < MaxRestart
  /\ life' = [state |-> "booting", starts |-> life.starts + 1]
  /\ entries' = {} /\ etag' = None /\ cache' = {} /\ miss' = {}
  /\ refresh' = Idle /\ reader' = [q \in Reader |-> None]
  /\ UNCHANGED <<control, file>>

Refreshing ==
  \/ RefreshSend \/ RefreshAnswer
  \/ \E r \in Release : VersionRemembered(r) \/ VersionMissed(r) \/ VersionAsk(r)
  \/ \E b \in BOOLEAN : RefreshStore(b) \/ RefreshSave(b)

Next ==
  \/ Refreshing \/ RefreshCut \/ Restart
  \/ \E b \in BOOLEAN : VersionAnswer(b)
  \/ \E r \in Release : Lapse(r) \/ Learn(r, "bare") \/ Learn(r, "complete")
  \/ \E of \in SUBSET Release : Publish(of)
  \/ \E q \in Reader :
       \/ \E r \in Release : ResolveAsk(q, r)
       \/ \E b \in BOOLEAN : ResolveAnswer(q, b)
       \/ ResolveCut(q)

Spec == Init /\ [][Next]_vars

(***************************************************************************)
(* The refresh loop keeps turning while the process is up, a call ends at  *)
(* its deadline, a failed lookup is forgotten in time, and Control is not  *)
(* out of reach for ever.                                                  *)
(***************************************************************************)
Fairness ==
  /\ WF_vars(Refreshing) /\ WF_vars(RefreshCut)
  /\ SF_vars(RefreshAnswer) /\ SF_vars(VersionAnswer(TRUE))
  /\ \A r \in Release : WF_vars(Lapse(r)) /\ SF_vars(VersionAsk(r))
  /\ \A q \in Reader : SF_vars(ResolveAnswer(q, TRUE))

-----------------------------------------------------------------------------
(***************************************************************************)
(* A refresh answered with "not modified" leaves Core with the verified    *)
(* releases of the current document: while the tag Core holds is that of   *)
(* the current document, so is the list, whatever failed, came without a   *)
(* tag or was restarted in between (RefreshMarket).                        *)
(***************************************************************************)
NotModifiedIsTrue ==
  etag = Edition /\ entries # {} => entries = Complete(document[Edition])

(***************************************************************************)
(* Once Control has settled and answers for every release it lists, and    *)
(* the process stays up, Core comes to list exactly the verified ones: no  *)
(* failed lookup, of the refresh or of a request, blocks it for good.      *)
(***************************************************************************)
Settled == /\ \A r \in document[Edition] : Known(r)
           /\ life.state = "up"

CatchesUp ==
  (<>[]Settled) => <>[](entries = Complete(document[Edition]))
=============================================================================
