------------------------------- MODULE Cache -------------------------------
(***************************************************************************)
(* The response cache of xds-relay (internal/app/cache): one entry per     *)
(* aggregated key with the last response of the key's upstream stream and  *)
(* the requests of the downstream watches that wait on the key.            *)
(*                                                                         *)
(* Every operation runs under cacheMu.  What makes the cache hard to use   *)
(* is that an eviction calls the owner's OnEvicted callback while cacheMu  *)
(* is still held: an operation that evicts leaves cacheMu with its caller, *)
(* the entry's key in evKey and its requests in evReqs, and it returns     *)
(* (EvictReturn) once the owner of the cache has run the callback.         *)
(*                                                                         *)
(* Which entry makes room for a new one is left open here; LruCache keeps  *)
(* the order of use and is shown to implement this module.                 *)
(***************************************************************************)
EXTENDS Naturals, FiniteSets

CONSTANTS
    Key,         \* aggregated keys
    Req,         \* requests: each one is a fresh pointer, hence unique
    MaxVersion,  \* bound: versions 1..MaxVersion of a key's resource
    MaxEntries,  \* cache.max_entries, 0 is "no limit"
    HasTTL,      \* cache.ttl > 0
    Free, Admin, \* cacheMu is free; the admin server's handlers
    NoKey        \* no key

\* The goroutines that call the cache: the CreateWatch call (or the cancel
\* function) of a request, the watchUpstream goroutine of the stream opened
\* for a request, and the admin handlers.
Watcher(r) == <<r, "watch">>
Upstream(s) == <<s, "upstream">>
Caller == {Watcher(r) : r \in Req} \union {Upstream(s) : s \in Req} \union {Admin}

ASSUME CacheAssumption ==
    /\ MaxVersion \in Nat
    /\ MaxEntries \in Nat
    /\ HasTTL \in BOOLEAN
    /\ Free \notin Caller
    /\ NoKey \notin Key

NoResp == 0
Version == 1..MaxVersion

VARIABLES
    cached,   \* the keys that have an entry
    resp,     \* resp[k]: version of the entry's response, NoResp before the first
    reqs,     \* reqs[k]: the entry's RequestsStore
    expired,  \* the entries whose ExpirationTime has passed
    cacheMu,  \* the caller whose eviction callback runs, Free otherwise
    evKey,    \* key and requests handed to that callback
    evReqs

cacheVars == <<cached, resp, reqs, expired, cacheMu, evKey, evReqs>>

CacheTypeOK ==
    /\ cached \subseteq Key
    /\ resp \in [Key -> Version \union {NoResp}]
    /\ reqs \in [Key -> SUBSET Req]
    /\ expired \subseteq Key
    /\ cacheMu \in Caller \union {Free}
    /\ evKey \in Key \union {NoKey}
    /\ evReqs \subseteq Req

CacheInit ==
    /\ cached = {}
    /\ resp = [k \in Key |-> NoResp]
    /\ reqs = [k \in Key |-> {}]
    /\ expired = {}
    /\ cacheMu = Free
    /\ evKey = NoKey
    /\ evReqs = {}

----------------------------------------------------------------------------
\* cacheMu can be taken: no eviction callback is running.
Unlocked == cacheMu = Free

\* lru.Cache: adding one more entry drops one.
Full == MaxEntries # 0 /\ Cardinality(cached) >= MaxEntries

\* The entry of k is dropped and t runs OnEvicted for it under cacheMu.
OnEvicted(k, t) ==
    /\ cacheMu' = t
    /\ evKey' = k
    /\ evReqs' = reqs[k]

\* The callback has returned; cacheMu is released.
EvictReturn ==
    /\ cacheMu' = Free
    /\ evKey' = NoKey
    /\ evReqs' = {}
    /\ UNCHANGED <<cached, resp, reqs, expired>>

\* lru.Remove.
Remove(k, t) ==
    /\ cached' = cached \ {k}
    /\ resp' = [resp EXCEPT ![k] = NoResp]
    /\ reqs' = [reqs EXCEPT ![k] = {}]
    /\ expired' = expired \ {k}
    /\ OnEvicted(k, t)

\* lru.Add of a key that has an entry: the new value replaces the old one.
Update(k, v, R, old) ==
    /\ k \in cached
    /\ resp' = [resp EXCEPT ![k] = v]
    /\ reqs' = [reqs EXCEPT ![k] = R]
    /\ expired' = old
    /\ UNCHANGED <<cached, cacheMu, evKey, evReqs>>

\* lru.Add of a key that has no entry, evicting some other key when full.
Insert(k, v, R, t) ==
    /\ k \notin cached
    /\ \/ /\ ~Full
          /\ cached' = cached \union {k}
          /\ resp' = [resp EXCEPT ![k] = v]
          /\ reqs' = [reqs EXCEPT ![k] = R]
          /\ UNCHANGED <<expired, cacheMu, evKey, evReqs>>
       \/ /\ Full
          /\ \E old \in cached :
                /\ cached' = (cached \ {old}) \union {k}
                /\ resp' = [resp EXCEPT ![old] = NoResp, ![k] = v]
                /\ reqs' = [reqs EXCEPT ![old] = {}, ![k] = R]
                /\ expired' = expired \ {old}
                /\ OnEvicted(old, t)

----------------------------------------------------------------------------
\* Mutant: the entries share one RequestsStore.
AddRequestSharesStore(k, r, t) ==
    /\ Unlocked
    /\ \/ Update(k, resp[k], reqs[k] \union {r}, expired)
       \/ Insert(k, NoResp, {r} \union UNION {reqs[j] : j \in cached}, t)

\* Registering a request does not extend the life of an entry.
AddRequest(k, r, t) ==
    /\ Unlocked
    /\ \/ Update(k, resp[k], reqs[k] \union {r}, expired)
       \/ Insert(k, NoResp, {r}, t)

\* Mutant: a response replaces the whole entry, its requests included.
SetResponseDropsRequests(k, v, t) ==
    /\ Unlocked
    /\ \/ Update(k, v, {}, expired \ {k})
       \/ Insert(k, v, {}, t)

\* A response restarts the life of its entry.
SetResponse(k, v, t) ==
    /\ Unlocked
    /\ \/ Update(k, v, reqs[k], expired \ {k})
       \/ Insert(k, v, {}, t)

DeleteRequest(k, r) ==
    /\ Unlocked
    /\ \/ Update(k, resp[k], reqs[k] \ {r}, expired)
       \/ k \notin cached /\ UNCHANGED cacheVars

DeleteKey(k, t) ==
    /\ Unlocked
    /\ k \in cached
    /\ Remove(k, t)

\* Fetch looks the key up under the read lock; an expired entry is looked up
\* again under the write lock (the caller takes that second step), and
\* removed when it is still expired.
FetchStale(k) == Unlocked /\ k \in expired

FetchLive(k) == Unlocked /\ k \notin expired

FetchExpired(k, t) ==
    /\ Unlocked
    /\ k \in expired
    /\ Remove(k, t)

\* The clock passes the ExpirationTime of some entries.
Expire(K) ==
    /\ HasTTL
    /\ expired' = expired \union K
    /\ UNCHANGED <<cached, resp, reqs, cacheMu, evKey, evReqs>>

----------------------------------------------------------------------------
CacheOp(t) ==
    \E k \in Key :
        \/ \E r \in Req : AddRequest(k, r, t) \/ DeleteRequest(k, r)
        \/ \E v \in Version : SetResponse(k, v, t)
        \/ DeleteKey(k, t)
        \/ FetchExpired(k, t)

CacheNext ==
    \/ \E t \in Caller : CacheOp(t)
    \/ \E K \in SUBSET (cached \ expired) : Expire(K)
    \/ ~Unlocked /\ EvictReturn

CacheSpec == CacheInit /\ [][CacheNext]_cacheVars

\* A key that has no entry has neither a response nor requests.
EntryInv == \A k \in Key \ cached : resp[k] = NoResp /\ reqs[k] = {}
=============================================================================
