-------------------------------- MODULE Rag ---------------------------------
(***************************************************************************)
(* RagPipeline: each query runs in a task of its own that asks the          *)
(* EmbeddingCache and the CpuVectorIndex, with a timeout on every ask.  A   *)
(* timed-out message stays in the mailbox.  An embedding is represented by  *)
(* the text it was computed from; hashes are taken to be free of collisions.*)
(***************************************************************************)
EXTENDS Naturals, Sequences, FiniteSets, SequencesExt

CONSTANTS Texts,     \* the texts of the queries
          Docs,      \* the entries of the index
          Capacity,  \* capacity_entries
          MaxQueries \* bound on the queries

ASSUME RagAssumption == Capacity \in Nat /\ MaxQueries \in Nat

VARIABLES
    embCache,   \* EmbeddingCache.cache: the hash map
    lru,        \* EmbeddingCache.order, the least recent first
    cacheSize,  \* stats.size
    cacheBox,   \* the mailbox of the EmbeddingCache
    entries,    \* CpuVectorIndex.entries
    queries

ragVars == <<embCache, lru, cacheSize, cacheBox, entries, queries>>
cacheVars == <<embCache, lru, cacheSize>>

Queries == 1 .. MaxQueries
NoQuery == [step |-> "none"]
NoText  == "none"

RagInit ==
    /\ embCache = {}
    /\ lru = <<>>
    /\ cacheSize = 0
    /\ cacheBox = <<>>
    /\ entries = {}
    /\ queries = [q \in Queries |-> NoQuery]

QueryAt(q, step) == queries[q].step = step
QueryGoto(q, step) == queries' = [queries EXCEPT ![q].step = step]
QueryFails(q) == queries' = [queries EXCEPT ![q].step = "err"]

-----------------------------------------------------------------------------
(* EmbeddingCache *)

InCache(t) == \E e \in embCache : e.text = t
Touch(order, t) == Append(RemoveFirst(order, t), t)

\* Whoever still waits for the answer to message m gets it.
CacheGet ==
    LET m == Head(cacheBox)
        t == m.text IN
    /\ cacheBox # <<>> /\ m.type = "Get"
    /\ cacheBox' = Tail(cacheBox)
    /\ lru' = IF InCache(t) THEN Touch(lru, t) ELSE lru
    /\ IF ~QueryAt(m.query, "get") THEN UNCHANGED queries
       ELSE \/ \E e \in embCache : /\ e.text = t
                                   /\ queries' = [queries EXCEPT ![m.query].step = "search", ![m.query].emb = e.value]
            \/ ~InCache(t) /\ QueryGoto(m.query, "embed")
    /\ UNCHANGED <<embCache, cacheSize, entries>>

CacheInsert ==
    LET m    == Head(cacheBox)
        t    == m.text
        full == Cardinality(embCache) >= Capacity /\ ~InCache(t) /\ lru # <<>>
        kept == {e \in embCache : e.text # t /\ (full => e.text # Head(lru))} IN
    /\ cacheBox # <<>> /\ m.type = "Insert"
    /\ cacheBox' = Tail(cacheBox)
    /\ embCache' = kept \cup {[text |-> t, value |-> m.value]}
    /\ lru' = Touch(IF full THEN Tail(lru) ELSE lru, t)
    /\ cacheSize' = Cardinality(embCache')
    /\ IF QueryAt(m.query, "insert") THEN QueryGoto(m.query, "search") ELSE UNCHANGED queries
    /\ UNCHANGED entries

\* Mutant of Forget: the key stays in the order.
ForgetMapOnly(t) == lru

Forget(t) == RemoveFirst(lru, t)

Invalidate(t) ==
    /\ InCache(t)
    /\ embCache' = {e \in embCache : e.text # t}
    /\ lru' = Forget(t)
    /\ cacheSize' = Cardinality(embCache')
    /\ UNCHANGED <<cacheBox, entries, queries>>

-----------------------------------------------------------------------------
(* run_rag *)

Query(q, t) ==
    /\ queries[q] = NoQuery /\ \A p \in 1 .. q - 1 : queries[p] # NoQuery
    /\ queries' = [queries EXCEPT ![q] = [step |-> "get", text |-> t, emb |-> NoText]]
    /\ cacheBox' = Append(cacheBox, [type |-> "Get", query |-> q, text |-> t])
    /\ UNCHANGED <<cacheVars, entries>>

\* The embedding is computed, or the function fails; the insert is best effort.
Embed(q) ==
    LET t == queries[q].text IN
    /\ QueryAt(q, "embed")
    /\ \/ /\ queries' = [queries EXCEPT ![q].step = "insert", ![q].emb = t]
          /\ cacheBox' = Append(cacheBox, [type |-> "Insert", query |-> q, text |-> t, value |-> t])
       \/ QueryFails(q) /\ UNCHANGED cacheBox
    /\ UNCHANGED <<cacheVars, entries>>

\* A lost lookup or search ends the query, a lost insert does not.
AskTimeout(q) ==
    /\ \/ (QueryAt(q, "get") \/ QueryAt(q, "search")) /\ QueryFails(q)
       \/ QueryAt(q, "insert") /\ QueryGoto(q, "search")
    /\ UNCHANGED <<cacheVars, cacheBox, entries>>

\* The search, refused for a wrong dimension, and the call of the LLM.
Search(q) ==
    /\ QueryAt(q, "search")
    /\ QueryGoto(q, "ok") \/ QueryFails(q)
    /\ UNCHANGED <<cacheVars, cacheBox, entries>>

IndexInsert(d) ==
    /\ d \notin entries
    /\ entries' = entries \cup {d}
    /\ UNCHANGED <<cacheVars, cacheBox, queries>>

RagNext ==
    \/ CacheGet \/ CacheInsert
    \/ \E t \in Texts : Invalidate(t)
    \/ \E q \in Queries, t \in Texts : Query(q, t)
    \/ \E q \in Queries : Embed(q) \/ AskTimeout(q) \/ Search(q)
    \/ \E d \in Docs : IndexInsert(d)

RagSpec == RagInit /\ [][RagNext]_ragVars

-----------------------------------------------------------------------------
\* The hash map, the order and the statistics agree, the map keeps to its
\* capacity, and a query is searched with the embedding of its own text, with
\* queries, late inserts and invalidations in any order.  A cache of capacity 0
\* holds one entry.
CacheHonest ==
    /\ IsInjective(lru)
    /\ Range(lru) = {e.text : e \in embCache}
    /\ cacheSize = Cardinality(embCache) /\ cacheSize = Len(lru)
    /\ cacheSize <= IF Capacity > 0 THEN Capacity ELSE 1
    /\ \A e \in embCache : e.value = e.text
    /\ \A q \in Queries : QueryAt(q, "search") \/ QueryAt(q, "ok") => queries[q].emb = queries[q].text
=============================================================================
