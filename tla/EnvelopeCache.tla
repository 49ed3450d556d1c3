------------------------------ MODULE EnvelopeCache ------------------------------
(***************************************************************************)
(* The cache of governance envelopes (governance/GovernanceEnvelopeCache). *)
(* A load reads the table, awaits, and then fills the cache; an upsert     *)
(* writes the table, awaits, and then drops the entry.  Loads, refreshes   *)
(* and upserts of several callers interleave at their awaits.  A query may *)
(* be refused although the database runs it, at once or later.  The cache  *)
(* is the one place of the repository that writes the table; another       *)
(* process with a cache of its own is not modelled.                        *)
(***************************************************************************)
EXTENDS Naturals

CONSTANTS
  Envelope,     \* the ids of proposals
  Caller,       \* calls that may be under way together
  NoCall,       \* the id of a caller that makes no call
  MaxVersion    \* bound: upserts of an envelope, and those adrift

ASSUME EnvelopeConstants == MaxVersion \in Nat /\ NoCall \notin Envelope

VARIABLES
  table,     \* by id: the version in the table, 0 for none
  cache,     \* by id: the version in the cache, 0 for none
  doing,     \* by caller: what it does, for which id, with which version
  overlapped, \* the ids of which a load was between its read and its fill when an upsert wrote
  adrift,     \* by id: upserts whose call has failed and that the database may still run
  undropped   \* the ids an upsert wrote whose call had failed, since the entry was last dropped

envelopeVars == <<table, cache, doing, overlapped, adrift, undropped>>

Nobody == [op |-> "none", id |-> NoCall, version |-> 0]

EnvelopeInit ==
  /\ table = [e \in Envelope |-> 0] /\ cache = [e \in Envelope |-> 0]
  /\ doing = [c \in Caller |-> Nobody] /\ overlapped = {}
  /\ adrift = [e \in Envelope |-> 0] /\ undropped = {}

Doing(op, e) == \E c \in Caller : doing[c].op = op /\ doing[c].id = e

\* a hit returns at once and changes nothing; a miss queries, and the row it gets is the
\* one in the table when the query runs
LoadEnvelope(c, e) ==
  /\ doing[c] = Nobody /\ cache[e] = 0
  /\ doing' = [doing EXCEPT ![c] = [op |-> "query", id |-> e, version |-> 0]]
  /\ UNCHANGED <<table, cache, overlapped, adrift, undropped>>

\* refresh drops the entry, and then loads with no await between
RefreshEnvelope(c, e) ==
  /\ doing[c] = Nobody
  /\ cache' = [cache EXCEPT ![e] = 0]
  /\ doing' = [doing EXCEPT ![c] = [op |-> "query", id |-> e, version |-> 0]]
  /\ undropped' = undropped \ {e}
  /\ UNCHANGED <<table, overlapped, adrift>>

QueryRuns(c) ==
  LET e == doing[c].id IN
  /\ doing[c].op = "query"
  /\ doing' = [doing EXCEPT ![c] = IF table[e] = 0 THEN Nobody
                                   ELSE [op |-> "fill", id |-> e, version |-> table[e]]]
  /\ UNCHANGED <<table, cache, overlapped, adrift, undropped>>

FillCache(c) ==
  /\ doing[c].op = "fill"
  /\ cache' = [cache EXCEPT ![doing[c].id] = doing[c].version]
  /\ doing' = [doing EXCEPT ![c] = Nobody]
  /\ UNCHANGED <<table, overlapped, adrift, undropped>>

UpsertEnvelope(c, e) ==
  /\ doing[c] = Nobody /\ table[e] < MaxVersion
  /\ doing' = [doing EXCEPT ![c] = [op |-> "upsert", id |-> e, version |-> 0]]
  /\ UNCHANGED <<table, cache, overlapped, adrift, undropped>>

\* the database runs an upsert of e
Written(e) ==
  /\ table[e] < MaxVersion
  /\ table' = [table EXCEPT ![e] = @ + 1]
  /\ overlapped' = IF Doing("fill", e) THEN overlapped \union {e} ELSE overlapped

UpsertRuns(c) ==
  /\ doing[c].op = "upsert" /\ Written(doing[c].id)
  /\ doing' = [doing EXCEPT ![c].op = "drop"]
  /\ UNCHANGED <<cache, adrift, undropped>>

\* the query of a load, or the answer of either query, is lost: the call throws, and the
\* cache keeps what it has
QueryFails(c) ==
  /\ doing[c].op \in {"query", "upsert", "drop"}
  /\ doing' = [doing EXCEPT ![c] = Nobody]
  /\ undropped' = IF doing[c].op = "drop" THEN undropped \union {doing[c].id} ELSE undropped
  /\ UNCHANGED <<table, cache, overlapped, adrift>>

\* the call of an upsert throws while the query is on its way to the table
UpsertDrifts(c) ==
  LET e == doing[c].id IN
  /\ doing[c].op = "upsert" /\ adrift[e] < MaxVersion
  /\ doing' = [doing EXCEPT ![c] = Nobody]
  /\ adrift' = [adrift EXCEPT ![e] = @ + 1]
  /\ UNCHANGED <<table, cache, overlapped, undropped>>

AdriftRuns(e) ==
  /\ adrift[e] > 0 /\ Written(e)
  /\ adrift' = [adrift EXCEPT ![e] = @ - 1]
  /\ undropped' = undropped \union {e}
  /\ UNCHANGED <<cache, doing>>

\* Slip: an upsert leaves the entry where it is.
DropNothing(c) ==
  /\ doing[c].op = "drop"
  /\ doing' = [doing EXCEPT ![c] = Nobody]
  /\ UNCHANGED <<table, cache, overlapped, adrift, undropped>>

DropEntry(c) ==
  LET e == doing[c].id IN
  /\ doing[c].op = "drop"
  /\ cache' = [cache EXCEPT ![e] = 0] /\ undropped' = undropped \ {e}
  /\ doing' = [doing EXCEPT ![c] = Nobody]
  /\ UNCHANGED <<table, overlapped, adrift>>

ClearCache ==
  /\ cache' = [e \in Envelope |-> 0] /\ undropped' = {}
  /\ UNCHANGED <<table, doing, overlapped, adrift>>

EnvelopeNext ==
  \/ ClearCache
  \/ \E e \in Envelope : AdriftRuns(e)
  \/ \E c \in Caller :
       \/ QueryRuns(c) \/ FillCache(c) \/ UpsertRuns(c) \/ DropEntry(c)
       \/ QueryFails(c) \/ UpsertDrifts(c)
       \/ \E e \in Envelope : LoadEnvelope(c, e) \/ RefreshEnvelope(c, e) \/ UpsertEnvelope(c, e)

EnvelopeSpec == EnvelopeInit /\ [][EnvelopeNext]_envelopeVars

-----------------------------------------------------------------------------
\* Properties.

\* The cache never runs ahead of the table, and it is behind it for one of three causes
\* only: an upsert has still to drop the entry; a load had read its row when an upsert
\* wrote it, and filled the cache after the drop; or the call of an upsert was refused
\* although the database ran it, and nothing has dropped the entry since
\* (GovernanceEnvelopeCache.ts:26-49, 51-54, 72-109).
StaleHasCause ==
  \A e \in Envelope :
    /\ cache[e] <= table[e]
    /\ cache[e] \notin {0, table[e]} => Doing("drop", e) \/ e \in overlapped \/ e \in undropped
=============================================================================
