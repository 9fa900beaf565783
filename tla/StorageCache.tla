---------------------------- MODULE StorageCache ----------------------------
(***************************************************************************)
(* StorageInstance::CacheAndDb: the key-value store of the node, a         *)
(* database behind an LRU cache that also remembers absent keys.  Each     *)
(* access to the cache and each access to the database is atomic, a whole  *)
(* operation is not: threads interleave between the two.                   *)
(***************************************************************************)
EXTENDS Naturals, Sequences, FiniteSets

CONSTANTS
    Thread,
    Key,
    Value,        \* what may be stored under each key: [Key -> a set]
    Absent,       \* the key is not in the database; CacheObject::None
    Capacity,     \* of the LRU cache
    Removed       \* the keys that may be removed

ASSUME StorageAssumption ==
    /\ \A k \in Key : Absent \notin Value[k]
    /\ Capacity \in Nat \ {0}
    /\ Removed \subseteq Key

VARIABLES
    db,      \* the database
    cache,   \* the LRU cache, most recently used first
    thread,  \* what each thread still has to do
    overlap  \* history: the keys two operations have met on since the start

vars == <<db, cache, thread, overlap>>

Idle == [pc |-> "idle", rows |-> <<>>]

Rows == UNION {[key : {k}, obj : Value[k] \cup {Absent}] : k \in Key}

Init ==
    /\ db = [k \in Key |-> Absent]
    /\ cache = <<>>
    /\ thread = [t \in Thread |-> Idle]
    /\ overlap = {}

-----------------------------------------------------------------------------
(* The LRU cache.                                                          *)

Cached(k) == \E i \in 1 .. Len(cache) : cache[i].key = k

Without(k) == SelectSeq(cache, LAMBDA e : e.key # k)

(* Mutant: nothing is evicted.                                             *)
lru_put_Unbounded(k, obj) == <<[key |-> k, obj |-> obj]>> \o Without(k)

(* LruCache::put: the key becomes the most recent, the oldest is evicted.  *)
lru_put(k, obj) ==
    LET all == <<[key |-> k, obj |-> obj]>> \o Without(k)
    IN  SubSeq(all, 1, IF Len(all) > Capacity THEN Capacity ELSE Len(all))

(* LruCache::get: the key becomes the most recent.                         *)
lru_get(k) == SelectSeq(cache, LAMBDA e : e.key = k) \o Without(k)

(* The keys among ks that an operation of another thread is still busy with.*)
Meets(t, ks) ==
    {k \in ks : \E u \in Thread \ {t} : \E i \in DOMAIN thread[u].rows : thread[u].rows[i].key = k}

-----------------------------------------------------------------------------
(* get: from the cache, else from the database into the cache, also when   *)
(* it is absent.                                                           *)

GetCached(t, k) ==
    /\ thread[t].pc = "idle"
    /\ Cached(k)
    /\ cache' = lru_get(k)
    /\ UNCHANGED <<db, thread, overlap>>

GetDb(t, k) ==
    /\ thread[t].pc = "idle"
    /\ ~Cached(k)
    /\ thread' = [thread EXCEPT ![t] = [pc |-> "db_get", rows |-> <<[key |-> k, obj |-> Absent]>>]]
    /\ overlap' = overlap \cup Meets(t, {k})
    /\ UNCHANGED <<db, cache>>

ReadDb(t) ==
    /\ thread[t].pc = "db_get"
    /\ LET k == thread[t].rows[1].key
       IN  thread' = [thread EXCEPT ![t] = [pc |-> "cache_put", rows |-> <<[key |-> k, obj |-> db[k]]>>]]
    /\ UNCHANGED <<db, cache, overlap>>

FillCache(t) ==
    /\ thread[t].pc = "cache_put"
    /\ LET row == thread[t].rows[1] IN cache' = lru_put(row.key, row.obj)
    /\ thread' = [thread EXCEPT ![t] = Idle]
    /\ UNCHANGED <<db, overlap>>

-----------------------------------------------------------------------------
(* put, remove and write_batch: the database first, then row by row the    *)
(* cache.                                                                  *)

Batches == {<<r>> : r \in Rows} \cup {<<r, s>> : r \in Rows, s \in Rows}

(* Mutant: the cache is written before the database.                       *)
write_batch_CacheFirst(t, rows) ==
    /\ thread[t].pc = "idle"
    /\ \A i \in DOMAIN rows : rows[i].obj = Absent => rows[i].key \in Removed
    /\ cache' = lru_put(rows[1].key, rows[1].obj)
    /\ thread' = [thread EXCEPT ![t] = [pc |-> "cache_rows", rows |-> rows]]
    /\ overlap' = overlap \cup Meets(t, {rows[i].key : i \in DOMAIN rows})
    /\ UNCHANGED db

write_batch(t, rows) ==
    /\ thread[t].pc = "idle"
    /\ \A i \in DOMAIN rows : rows[i].obj = Absent => rows[i].key \in Removed
    /\ db' = [k \in Key |->
                LET of == {i \in DOMAIN rows : rows[i].key = k}
                IN  IF of = {} THEN db[k]
                    ELSE rows[CHOOSE i \in of : \A j \in of : j <= i].obj]
    /\ thread' = [thread EXCEPT ![t] = [pc |-> "cache_rows", rows |-> rows]]
    /\ overlap' = overlap \cup Meets(t, {rows[i].key : i \in DOMAIN rows})
    /\ UNCHANGED cache

(* Mutant: a deletion leaves the cache alone.                              *)
CacheRow_KeepDeleted(t) ==
    /\ thread[t].pc = "cache_rows"
    /\ LET row == Head(thread[t].rows)
       IN  cache' = IF row.obj = Absent THEN cache ELSE lru_put(row.key, row.obj)
    /\ thread' = [thread EXCEPT ![t] =
                    IF Len(@.rows) = 1 THEN Idle ELSE [@ EXCEPT !.rows = Tail(@)]]
    /\ UNCHANGED <<db, overlap>>

CacheRow(t) ==
    /\ thread[t].pc = "cache_rows"
    /\ LET row == Head(thread[t].rows)
       IN  cache' = IF row.obj = Absent THEN Without(row.key) ELSE lru_put(row.key, row.obj)
    /\ thread' = [thread EXCEPT ![t] =
                    IF Len(@.rows) = 1 THEN Idle ELSE [@ EXCEPT !.rows = Tail(@)]]
    /\ UNCHANGED <<db, overlap>>

(* The process stops: the database stays, the cache and the threads do not.*)
Crash ==
    /\ cache' = <<>>
    /\ thread' = [t \in Thread |-> Idle]
    /\ overlap' = {}
    /\ UNCHANGED db

-----------------------------------------------------------------------------
Next ==
    \/ \E t \in Thread :
        \/ \E k \in Key : GetCached(t, k) \/ GetDb(t, k)
        \/ ReadDb(t) \/ FillCache(t)
        \/ \E rows \in Batches : write_batch(t, rows)
        \/ CacheRow(t)
    \/ Crash

Spec == Init /\ [][Next]_vars

-----------------------------------------------------------------------------
TypeOK ==
    /\ db \in [Key -> UNION {Value[k] : k \in Key} \cup {Absent}]
    /\ \A i \in 1 .. Len(cache) : cache[i] \in Rows
    /\ Len(cache) <= Capacity
    /\ \A i, j \in 1 .. Len(cache) : cache[i].key = cache[j].key => i = j

Quiet == \A t \in Thread : thread[t].pc = "idle"

(* When no operation is under way, what the cache says of a key is what    *)
(* the database holds, for values and for absent keys, unless operations   *)
(* of two threads have met on the key: get and contains_key answer from    *)
(* the cache alone when they hit it.                                       *)
Coherent ==
    Quiet => \A i \in 1 .. Len(cache) :
                cache[i].key \notin overlap => cache[i].obj = db[cache[i].key]

(* Where a key has only one possible value, as under a content hash, and   *)
(* is not removed: what a reader can find in the cache is in the database  *)
(* already and survives a crash, whatever the threads are doing.           *)
CachedIsDurable ==
    \A i \in 1 .. Len(cache) :
        LET k == cache[i].key
        IN  (/\ Cardinality(Value[k]) = 1
             /\ k \notin Removed
             /\ cache[i].obj # Absent) => cache[i].obj = db[k]

=============================================================================
