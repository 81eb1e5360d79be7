----------------------------- MODULE ShardCache -----------------------------
(***************************************************************************)
(* The gcache revision of the certificate database facade (src/unnamed/    *)
(* part_002 1-212). FilesystemDatabase keeps an ARC cache of CacheEntry    *)
(* objects, one per shard (expDate, issuer). The loader builds an entry    *)
(* whose issuer metadata is loaded from storage; eviction and Purge call   *)
(* Close, which saves the metadata under the entry's mutex. Store fetches  *)
(* the entry, asks the known set whether the serial is new, and if so      *)
(* accumulates the certificate's CRLs into the entry's metadata and writes *)
(* the PEM while holding the entry's mutex.                                *)
(*                                                                         *)
(* Entries are objects: an evicted entry stays reachable from a Store that *)
(* fetched it before the eviction.                                         *)
(***************************************************************************)
EXTENDS Naturals, FiniteSets

CONSTANTS
    Workers,    \* ingest goroutines calling Store concurrently
    Certs,      \* certificates to store
    ShardOf,    \* ShardOf[c]: the shard (expDate, issuer) of c
    UrlOf,      \* UrlOf[c]: c's http CRL distribution point
    CacheSize,  \* the gcache size (aCacheSize)
    MaxLoads,   \* bound on the CacheEntry objects the loader creates
    NoObj       \* a worker holds no entry

Shards == {ShardOf[c] : c \in Certs}
Urls   == {UrlOf[c] : c \in Certs}
Objs   == 1..MaxLoads

VARIABLES
    pending,  \* certificates not yet handed to a Store
    cur,      \* per worker: the certificate of its Store, or NoObj
    pc,       \* per worker: "idle", "fetched" or "new"
    held,     \* per worker: the CacheEntry its Store fetched, or NoObj
    loads,    \* CacheEntry objects created so far: 1..loads
    shardOf,  \* shardOf[o]: the shard of entry o
    meta,     \* meta[o]: the CRLs in entry o's in-memory metadata
    cached,   \* the entries currently in the gcache
    saved,    \* saved[s]: the metadata of shard s in storage
    known,    \* the known-serials set (a remote cache, one ZADD per call)
    pem       \* certificates whose PEM was written

vars == <<pending, cur, pc, held, loads, shardOf, meta, cached, saved, known, pem>>

Init ==
    /\ pending = Certs
    /\ cur = [w \in Workers |-> NoObj]
    /\ pc = [w \in Workers |-> "idle"]
    /\ held = [w \in Workers |-> NoObj]
    /\ loads = 0
    /\ shardOf = [o \in Objs |-> NoObj]
    /\ meta = [o \in Objs |-> {}]
    /\ cached = {}
    /\ saved = [s \in Shards |-> {}]
    /\ known = {}
    /\ pem = {}

(* The ingest loop hands a certificate to a Store call.                    *)
Receive(w) ==
    /\ pc[w] = "idle" /\ cur[w] = NoObj
    /\ \E c \in pending :
        /\ pending' = pending \ {c}
        /\ cur' = [cur EXCEPT ![w] = c]
    /\ UNCHANGED <<pc, held, loads, shardOf, meta, cached, saved, known, pem>>

(* CacheEntry.Close: Save the metadata of entry o to its shard's storage. *)
Close(o, sv) == [sv EXCEPT ![shardOf[o]] = meta[o]]

(* db.fetch: gcache Get. A hit returns the cached entry.                   *)
FetchHit(w) ==
    /\ pc[w] = "idle" /\ cur[w] # NoObj
    /\ \E o \in cached :
        /\ shardOf[o] = ShardOf[cur[w]]
        /\ held' = [held EXCEPT ![w] = o]
    /\ pc' = [pc EXCEPT ![w] = "fetched"]
    /\ UNCHANGED <<pending, cur, loads, shardOf, meta, cached, saved, known, pem>>

(* A miss runs the loader: NewCacheEntry, whose load() reads the metadata *)
(* from storage (a failed Load only logs). gcache then adds the entry; a  *)
(* full cache first evicts one, and EvictedFunc Closes it. Close takes    *)
(* the victim's mutex; the locked region of Store is one step here, so    *)
(* it is never held across this step.                                      *)
FetchMiss(w) ==
    /\ pc[w] = "idle" /\ cur[w] # NoObj
    /\ ~\E o \in cached : shardOf[o] = ShardOf[cur[w]]
    /\ loads < MaxLoads
    /\ LET o == loads + 1
           s == ShardOf[cur[w]]
       IN /\ loads' = o
          /\ shardOf' = [shardOf EXCEPT ![o] = s]
          /\ meta' = [meta EXCEPT ![o] = saved[s]]
          /\ held' = [held EXCEPT ![w] = o]
          /\ \/ /\ Cardinality(cached) < CacheSize
                /\ cached' = cached \cup {o}
                /\ UNCHANGED saved
             \/ /\ Cardinality(cached) = CacheSize
                /\ \E v \in cached :
                     /\ cached' = (cached \ {v}) \cup {o}
                     /\ saved' = Close(v, saved)
    /\ pc' = [pc EXCEPT ![w] = "fetched"]
    /\ UNCHANGED <<pending, cur, known, pem>>

(* ce.known.WasUnknown: a known serial ends the Store (markDirty is a      *)
(* no-op in this backend).                                                 *)
WasUnknown(w) ==
    /\ pc[w] = "fetched"
    /\ known' = known \cup {cur[w]}
    /\ IF cur[w] \in known
       THEN /\ pc' = [pc EXCEPT ![w] = "idle"]
            /\ cur' = [cur EXCEPT ![w] = NoObj]
            /\ held' = [held EXCEPT ![w] = NoObj]
       ELSE /\ pc' = [pc EXCEPT ![w] = "new"]
            /\ UNCHANGED <<cur, held>>
    /\ UNCHANGED <<pending, loads, shardOf, meta, cached, saved, pem>>

(* ce.mutex.Lock; ce.meta.Accumulate; StoreCertificatePEM; Unlock; the    *)
(* Store returns. The entry is the one fetched, cached or not.            *)
AccumulateAndStore(w) ==
    /\ pc[w] = "new"
    /\ meta' = [meta EXCEPT ![held[w]] = @ \cup {UrlOf[cur[w]]}]
    /\ pem' = pem \cup {cur[w]}
    /\ pc' = [pc EXCEPT ![w] = "idle"]
    /\ cur' = [cur EXCEPT ![w] = NoObj]
    /\ held' = [held EXCEPT ![w] = NoObj]
    /\ UNCHANGED <<pending, loads, shardOf, cached, saved, known>>

(* Cleanup: gcache Purge Closes every cached entry and empties the cache. *)
(* The follower calls it at shutdown, after its Stores have returned.     *)
Cleanup ==
    /\ pending = {} /\ \A w \in Workers : pc[w] = "idle" /\ cur[w] = NoObj
    /\ cached # {}
    /\ saved' = [s \in Shards |->
                    IF \E o \in cached : shardOf[o] = s
                    THEN meta[CHOOSE o \in cached : shardOf[o] = s]
                    ELSE saved[s]]
    /\ cached' = {}
    /\ UNCHANGED <<pending, cur, pc, held, loads, shardOf, meta, known, pem>>

Next ==
    \/ \E w \in Workers :
         Receive(w) \/ FetchHit(w) \/ FetchMiss(w) \/ WasUnknown(w)
         \/ AccumulateAndStore(w)
    \/ Cleanup

Spec == Init /\ [][Next]_vars

-----------------------------------------------------------------------------
(* Spec section 3 (Lifecycle): metadata sets grow monotonically, and shard *)
(* handles are released on eviction or shutdown. So once the follower has *)
(* stopped and Cleanup has purged the cache, the saved metadata of every  *)
(* shard holds the CRL of every certificate whose PEM was written there: no Accumulate is lost to an eviction that        *)
(* Closed the entry before the Store that fetched it took its mutex.       *)
MetadataPersisted ==
    (pending = {} /\ cached = {} /\ \A w \in Workers : pc[w] = "idle" /\ cur[w] = NoObj)
        => \A c \in pem : UrlOf[c] \in saved[ShardOf[c]]
=============================================================================
