---------------------------- MODULE Orchestrator ----------------------------
(***************************************************************************)
(* The orchestrator of xds-relay with its cache (Cache) and its two maps:  *)
(* downstreamResponseMap (the watch of each open request) and              *)
(* upstreamResponseMap (the one upstream stream of each aggregated key).   *)
(*                                                                         *)
(* The goroutines are                                                      *)
(*   - the CreateWatch call of each request, its cached-send goroutine and *)
(*     later its cancel function (cw, csend);                              *)
(*   - watchUpstream of each stream, with the fanout goroutines it waits   *)
(*     for (wu); a stream is named by the request that opened it;          *)
(*   - onCacheEvicted as the cache's callback (cb), run by whichever       *)
(*     goroutine evicted, with cacheMu held;                               *)
(*   - shutdown, and the admin server's cache handlers.                    *)
(* A step is what one goroutine does between two accesses to shared state. *)
(*                                                                         *)
(* The origin server is its latest version of each key's resource, a       *)
(* number; the upstream client is what OpenStream promises: responses      *)
(* until the stream is shut down, and a closed channel when the client     *)
(* cannot serve the stream (see StreamCloses).                             *)
(***************************************************************************)
EXTENDS Cache

CONSTANTS
    KeyOf,        \* mapper.GetKey: the aggregated key of each request
    Unmapped,     \* requests for which mapper.GetKey returns an error
    Unsupported,  \* requests of a type URL the upstream client rejects
    Reported,     \* bound: version_info values (and Nack) requests carry
    MayShutdown,  \* whether the process may be told to stop
    Reconnects,   \* whether a stream may break, reconnect and resend
    NoStream      \* no upstream stream

\* A request that carries an error_detail.
Nack == MaxVersion + 1

ASSUME OrchestratorAssumption ==
    /\ KeyOf \in [Req -> Key]
    /\ Unmapped \subseteq Req
    /\ Unsupported \subseteq Req
    /\ Reported \subseteq 0..Nack
    /\ MayShutdown \in BOOLEAN
    /\ Reconnects \in BOOLEAN
    /\ NoStream \notin Req

VARIABLES
    cw,       \* cw[r]: where the life of request r stands
    ver,      \* ver[r]: version_info of r, or Nack
    watch,    \* watch[r]: "none", "open" (r is in the map) or "closed"
    out,      \* out[r]: the last version sent on the watch's channel
    csend,    \* csend[r]: version the cached-send goroutine is about to send
    upmap,    \* upstreamResponseMap: key -> stream
    stream,   \* stream[s]: "none", "open", "cancelled" or "closed"
    done,     \* the streams whose done channel is closed
    wu,       \* wu[s]: where watchUpstream of stream s stands
    x,        \* x[s]: the last response received from stream s
    fan,      \* fan[s]: the response being fanned out
    live,     \* live[s]: s holds the RequestsStore of the entry of its key
    todo,     \* todo[s]: watchers still to serve; while s holds a store whose
              \*          entry is gone, what was in that store
    cb,       \* where onCacheEvicted, called by the cache, stands
    origin,   \* origin[k]: the latest version at the origin server
    down,     \* the root context is cancelled
    sdTodo,   \* keys deleteAll's Range has still to visit
    sdKey,    \* key between close(done) and Delete in deleteAll
    panic     \* why the process has crashed, "none" otherwise

watchVars == <<cw, ver, watch, out, csend>>
streamVars == <<upmap, stream, done>>
wuVars == <<wu, x, fan, live, todo>>
sdVars == <<down, sdTodo, sdKey>>
vars == <<cacheVars, watchVars, streamVars, wuVars, cb, origin, sdVars, panic>>

CwState == {"idle", "rejected", "created", "registered", "stale", "fetched",
            "opened", "returned", "canceling", "canceled"}
WuState == {"none", "select", "set", "fetch", "stale", "range", "fanout",
            "failed", "failStale", "failNil", "failWatches", "failClose",
            "failDelete", "exited"}

TypeOK ==
    /\ CacheTypeOK
    /\ cw \in [Req -> CwState]
    /\ ver \in [Req -> 0..Nack]
    /\ watch \in [Req -> {"none", "open", "closed"}]
    /\ out \in [Req -> Version \union {NoResp}]
    /\ csend \in [Req -> Version \union {NoResp}]
    /\ upmap \in [Key -> Req \union {NoStream}]
    /\ stream \in [Req -> {"none", "open", "cancelled", "closed"}]
    /\ done \subseteq Req
    /\ wu \in [Req -> WuState]
    /\ x \in [Req -> Version \union {NoResp}]
    /\ fan \in [Req -> Version \union {NoResp}]
    /\ live \in [Req -> BOOLEAN]
    /\ todo \in [Req -> SUBSET Req]
    /\ cb \in {"none", "watches", "close", "delete"}
    /\ origin \in [Key -> Version \union {NoResp}]
    /\ down \in BOOLEAN
    /\ sdTodo \subseteq Key
    /\ sdKey \in Key \union {NoKey}
    /\ panic \in {"none", "closeTwice", "nilResource"}

Init ==
    /\ CacheInit
    /\ cw = [r \in Req |-> "idle"]
    /\ ver = [r \in Req |-> 0]
    /\ watch = [r \in Req |-> "none"]
    /\ out = [r \in Req |-> NoResp]
    /\ csend = [r \in Req |-> NoResp]
    /\ upmap = [k \in Key |-> NoStream]
    /\ stream = [s \in Req |-> "none"]
    /\ done = {}
    /\ wu = [s \in Req |-> "none"]
    /\ x = [s \in Req |-> NoResp]
    /\ fan = [s \in Req |-> NoResp]
    /\ live = [s \in Req |-> FALSE]
    /\ todo = [s \in Req |-> {}]
    /\ cb = "none"
    /\ origin = [k \in Key |-> NoResp]
    /\ down = FALSE
    /\ sdTodo = {}
    /\ sdKey = NoKey
    /\ panic = "none"

----------------------------------------------------------------------------
\* Helpers.

\* A panic takes the whole process down.
Alive == panic = "none"

CwAt(r, pc) == Alive /\ cw[r] = pc
WuAt(s, pc) == Alive /\ wu[s] = pc
CbAt(pc) == Alive /\ cb = pc
CwGoto(r, pc) == cw' = [cw EXCEPT ![r] = pc]
WuGoto(s, pc) == wu' = [wu EXCEPT ![s] = pc]

\* Goroutine t is not inside an eviction callback of its own.
Running(t) == cacheMu # t

\* What a cache operation that evicted leaves behind: the callback is about to
\* start, and a watchUpstream that holds the store of the evicted entry keeps
\* that store, which nobody adds to any more.
Evicting ==
    LET loses(s) == ~Unlocked' /\ live[s] /\ KeyOf[s] = evKey' IN
    /\ cb' = IF Unlocked' THEN cb ELSE "watches"
    /\ live' = [s \in Req |-> live[s] /\ ~loses(s)]
    /\ todo' = [s \in Req |-> IF loses(s) THEN evReqs' ELSE todo[s]]

\* The requests in the store that watchUpstream of s holds.
Store(s) == IF live[s] THEN reqs[KeyOf[s]] ELSE todo[s]

\* downstreamResponseMap.deleteAll.
CloseWatches(R) ==
    watch' = [r \in Req |-> IF r \in R /\ watch[r] = "open" THEN "closed"
                                                            ELSE watch[r]]

\* watch.Send on the channel of r: nothing is sent on a closed one.
Send(r, v) ==
    out' = [out EXCEPT ![r] = IF watch[r] = "open" THEN v ELSE @]

\* close(done) of the stream found for k: closing a channel twice panics.
CloseDone(k) ==
    /\ panic' = IF upmap[k] \in done THEN "closeTwice" ELSE panic
    /\ done' = done \union {upmap[k]}

\* internal.Delete(k): whatever stream k has by now.
Unmap(k) == upmap' = [upmap EXCEPT ![k] = NoStream]

----------------------------------------------------------------------------
\* CreateWatch.

\* mapper.GetKey and createWatch; a request without a key is rejected with a
\* closed channel and no cancel function.
CreateWatch(r) ==
    /\ CwAt(r, "idle")
    /\ \E v \in Reported :
          /\ v # Nack => v <= origin[KeyOf[r]]
          /\ ver' = [ver EXCEPT ![r] = v]
    /\ IF r \in Unmapped
       THEN CwGoto(r, "rejected") /\ watch' = [watch EXCEPT ![r] = "closed"]
       ELSE CwGoto(r, "created") /\ watch' = [watch EXCEPT ![r] = "open"]
    /\ UNCHANGED <<cacheVars, out, csend, streamVars, wuVars, cb, origin, sdVars, panic>>

\* cache.AddRequest.  Its error (an entry that is not a Resource) cannot happen.
RegisterWatch(r) ==
    /\ CwAt(r, "created")
    /\ AddRequest(KeyOf[r], r, Watcher(r))
    /\ Evicting
    /\ CwGoto(r, "registered")
    /\ UNCHANGED <<ver, watch, out, csend, streamVars, wu, x, fan, origin, sdVars, panic>>

\* Mutant: a request without a version_info is taken to be up to date.
SpawnCachedSendSkipsNew(r) ==
    LET v == resp[KeyOf[r]] IN
    csend' = IF v \notin {NoResp, ver[r]} /\ ver[r] \notin {0, Nack}
             THEN [csend EXCEPT ![r] = v]
             ELSE csend

\* A cached response of another version is sent by a goroutine of its own,
\* unless the request is a NACK.
SpawnCachedSend(r) ==
    LET v == resp[KeyOf[r]] IN
    csend' = IF v \notin {NoResp, ver[r]} /\ ver[r] # Nack
             THEN [csend EXCEPT ![r] = v]
             ELSE csend

\* cache.Fetch: a hit or a miss.
FetchCached(r) ==
    /\ CwAt(r, "registered")
    /\ FetchLive(KeyOf[r])
    /\ SpawnCachedSend(r)
    /\ CwGoto(r, "fetched")
    /\ UNCHANGED <<cacheVars, ver, watch, out, streamVars, wuVars, cb, origin, sdVars, panic>>

\* cache.Fetch: the entry has expired, the write lock is needed.
FetchCachedStale(r) ==
    /\ CwAt(r, "registered")
    /\ FetchStale(KeyOf[r])
    /\ CwGoto(r, "stale")
    /\ UNCHANGED <<cacheVars, ver, watch, out, csend, streamVars, wuVars, cb, origin, sdVars, panic>>

\* cache.Fetch, with the write lock: removed, refreshed by now or gone.
FetchCachedAgain(r) ==
    /\ CwAt(r, "stale")
    /\ \/ FetchExpired(KeyOf[r], Watcher(r)) /\ UNCHANGED csend
       \/ FetchLive(KeyOf[r]) /\ SpawnCachedSend(r) /\ UNCHANGED cacheVars
    /\ Evicting
    /\ CwGoto(r, "fetched")
    /\ UNCHANGED <<ver, watch, out, streamVars, wu, x, fan, origin, sdVars, panic>>

\* The goroutine of the cached response.
CachedSend(r) ==
    /\ Alive /\ csend[r] # NoResp
    /\ Send(r, csend[r])
    /\ csend' = [csend EXCEPT ![r] = NoResp]
    /\ UNCHANGED <<cacheVars, cw, ver, watch, streamVars, wuVars, cb, origin, sdVars, panic>>

\* exists, and OpenStream when the key has no stream.
OpenStream(r) ==
    /\ CwAt(r, "fetched")
    /\ Running(Watcher(r))
    /\ IF upmap[KeyOf[r]] # NoStream
       THEN CwGoto(r, "returned") /\ UNCHANGED stream
       ELSE CwGoto(r, "opened") /\ stream' = [stream EXCEPT ![r] = "open"]
    /\ UNCHANGED <<cacheVars, ver, watch, out, csend, upmap, done, wuVars, cb, origin, sdVars, panic>>

\* Mutant: Store instead of LoadOrStore, the slower stream replaces the other.
AddStreamReplaces(r) ==
    /\ CwAt(r, "opened")
    /\ upmap' = [upmap EXCEPT ![KeyOf[r]] = r]
    /\ WuGoto(r, "select")
    /\ CwGoto(r, "returned")
    /\ UNCHANGED <<cacheVars, ver, watch, out, csend, stream, done, x, fan, live, todo, cb, origin, sdVars, panic>>

\* add: the slower of two streams is shut down again.
AddStream(r) ==
    /\ CwAt(r, "opened")
    /\ IF upmap[KeyOf[r]] # NoStream
       THEN /\ stream' = [stream EXCEPT ![r] = "cancelled"]
            /\ UNCHANGED <<upmap, wu>>
       ELSE /\ upmap' = [upmap EXCEPT ![KeyOf[r]] = r]
            /\ WuGoto(r, "select")
            /\ UNCHANGED stream
    /\ CwGoto(r, "returned")
    /\ UNCHANGED <<cacheVars, ver, watch, out, csend, done, x, fan, live, todo, cb, origin, sdVars, panic>>

\* Mutant: the request is removed from the cache, the watch stays open.
CancelKeepsWatch(r) ==
    /\ Alive /\ cw[r] \in {"returned", "canceled"}
    /\ CwGoto(r, "canceling")
    /\ UNCHANGED <<cacheVars, ver, watch, out, csend, streamVars, wuVars, cb, origin, sdVars, panic>>

\* The cancel function, which may be called again.
Cancel(r) ==
    /\ Alive /\ cw[r] \in {"returned", "canceled"}
    /\ CloseWatches({r})
    /\ CwGoto(r, "canceling")
    /\ UNCHANGED <<cacheVars, ver, out, csend, streamVars, wuVars, cb, origin, sdVars, panic>>

UnregisterWatch(r) ==
    /\ CwAt(r, "canceling")
    /\ DeleteRequest(KeyOf[r], r)
    /\ CwGoto(r, "canceled")
    /\ UNCHANGED <<ver, watch, out, csend, streamVars, wuVars, cb, origin, sdVars, panic>>

----------------------------------------------------------------------------
\* watchUpstream.

\* Go's select picks any ready case: a response can win over a closed done.
Selecting(s) == WuAt(s, "select") /\ Running(Upstream(s))

Receive(s) ==
    /\ Selecting(s)
    /\ stream[s] = "open" /\ s \notin Unsupported
    /\ \E v \in Version :
          /\ v > x[s] /\ v <= origin[KeyOf[s]]
          /\ x' = [x EXCEPT ![s] = v]
    /\ WuGoto(s, "set")
    /\ UNCHANGED <<cacheVars, watchVars, streamVars, fan, live, todo, cb, origin, sdVars, panic>>

\* The client has reconnected: the origin server sends its response anew.
ReceiveAgain(s) ==
    /\ Reconnects
    /\ Selecting(s)
    /\ stream[s] = "open" /\ x[s] # NoResp
    /\ WuGoto(s, "set")
    /\ UNCHANGED <<cacheVars, watchVars, streamVars, x, fan, live, todo, cb, origin, sdVars, panic>>

ReceiveClosed(s) ==
    /\ Selecting(s)
    /\ stream[s] = "closed"
    /\ WuGoto(s, "failed")
    /\ UNCHANGED <<cacheVars, watchVars, streamVars, x, fan, live, todo, cb, origin, sdVars, panic>>

\* Mutant: the goroutine ends and forgets the upstream stream.
ReceiveDoneLeaks(s) ==
    /\ Selecting(s)
    /\ s \in done
    /\ WuGoto(s, "exited")
    /\ UNCHANGED <<cacheVars, watchVars, streamVars, x, fan, live, todo, cb, origin, sdVars, panic>>

ReceiveDone(s) ==
    /\ Selecting(s)
    /\ s \in done
    /\ stream' = [stream EXCEPT ![s] = IF @ = "open" THEN "cancelled" ELSE @]
    /\ WuGoto(s, "exited")
    /\ UNCHANGED <<cacheVars, watchVars, upmap, done, x, fan, live, todo, cb, origin, sdVars, panic>>

CacheResponse(s) ==
    /\ WuAt(s, "set")
    /\ SetResponse(KeyOf[s], x[s], Upstream(s))
    /\ Evicting
    /\ WuGoto(s, "fetch")
    /\ UNCHANGED <<watchVars, streamVars, x, fan, origin, sdVars, panic>>

\* What Fetch returns is fanned out, with the store it points to; without a
\* response there is nothing to fan out.
Fetched(s) ==
    LET v == resp[KeyOf[s]] IN
    /\ fan' = [fan EXCEPT ![s] = v]
    /\ WuGoto(s, IF v = NoResp THEN "select" ELSE "range")

FetchFanout(s) ==
    /\ WuAt(s, "fetch")
    /\ FetchLive(KeyOf[s])
    /\ Fetched(s)
    /\ live' = [live EXCEPT ![s] = resp[KeyOf[s]] # NoResp]
    /\ UNCHANGED <<cacheVars, watchVars, streamVars, x, todo, cb, origin, sdVars, panic>>

FetchFanoutStale(s) ==
    /\ WuAt(s, "fetch")
    /\ FetchStale(KeyOf[s])
    /\ WuGoto(s, "stale")
    /\ UNCHANGED <<cacheVars, watchVars, streamVars, x, fan, live, todo, cb, origin, sdVars, panic>>

FetchFanoutAgain(s) ==
    /\ WuAt(s, "stale")
    /\ \/ /\ FetchExpired(KeyOf[s], Upstream(s))
          /\ Evicting
          /\ WuGoto(s, "select")
          /\ UNCHANGED fan
       \/ /\ FetchLive(KeyOf[s])
          /\ Fetched(s)
          /\ live' = [live EXCEPT ![s] = resp[KeyOf[s]] # NoResp]
          /\ UNCHANGED <<cacheVars, todo, cb>>
    /\ UNCHANGED <<watchVars, streamVars, x, origin, sdVars, panic>>

\* fanout: ForEach over the store starts one goroutine per watcher, and the
\* loop goes on when all of them are finished.
FanoutStart(s) ==
    /\ WuAt(s, "range")
    /\ todo' = [todo EXCEPT ![s] = Store(s)]
    /\ live' = [live EXCEPT ![s] = FALSE]
    /\ WuGoto(s, "fanout")
    /\ UNCHANGED <<cacheVars, watchVars, streamVars, x, fan, cb, origin, sdVars, panic>>

FanoutSend(s, r) ==
    /\ WuAt(s, "fanout")
    /\ r \in todo[s]
    /\ Send(r, fan[s])
    /\ todo' = [todo EXCEPT ![s] = @ \ {r}]
    /\ UNCHANGED <<cacheVars, cw, ver, watch, csend, streamVars, wu, x, fan, live, cb, origin, sdVars, panic>>

\* Mutant: the goroutine returns when it has served one response.
FanoutEndReturns(s) ==
    /\ WuAt(s, "fanout")
    /\ todo[s] = {}
    /\ fan' = [fan EXCEPT ![s] = NoResp]
    /\ WuGoto(s, "exited")
    /\ UNCHANGED <<cacheVars, watchVars, streamVars, x, live, todo, cb, origin, sdVars, panic>>

FanoutEnd(s) ==
    /\ WuAt(s, "fanout")
    /\ todo[s] = {}
    /\ fan' = [fan EXCEPT ![s] = NoResp]
    /\ WuGoto(s, "select")
    /\ UNCHANGED <<cacheVars, watchVars, streamVars, x, live, todo, cb, origin, sdVars, panic>>

----------------------------------------------------------------------------
\* watchUpstream after the response channel was closed.

\* cache.Fetch: an error ends the goroutine.
FailFetch(s) ==
    /\ WuAt(s, "failed")
    /\ FetchLive(KeyOf[s])
    /\ live' = [live EXCEPT ![s] = KeyOf[s] \in cached]
    /\ WuGoto(s, IF KeyOf[s] \in cached THEN "failWatches" ELSE "exited")
    /\ UNCHANGED <<cacheVars, watchVars, streamVars, x, fan, todo, cb, origin, sdVars, panic>>

FailFetchStale(s) ==
    /\ WuAt(s, "failed")
    /\ FetchStale(KeyOf[s])
    /\ WuGoto(s, "failStale")
    /\ UNCHANGED <<cacheVars, watchVars, streamVars, x, fan, live, todo, cb, origin, sdVars, panic>>

\* cache.Fetch returns neither a resource nor an error for an entry that was
\* removed between its two lookups, or by this very call.
FailFetchAgain(s) ==
    /\ WuAt(s, "failStale")
    /\ \/ /\ FetchExpired(KeyOf[s], Upstream(s))
          /\ Evicting
          /\ WuGoto(s, "failNil")
       \/ /\ FetchLive(KeyOf[s])
          /\ live' = [live EXCEPT ![s] = KeyOf[s] \in cached]
          /\ WuGoto(s, IF KeyOf[s] \in cached THEN "failWatches" ELSE "failNil")
          /\ UNCHANGED <<cacheVars, todo, cb>>
    /\ UNCHANGED <<watchVars, streamVars, x, fan, origin, sdVars, panic>>

\* *f with f = nil.
FailNil(s) ==
    /\ WuAt(s, "failNil")
    /\ Running(Upstream(s))
    /\ panic' = "nilResource"
    /\ UNCHANGED <<cacheVars, watchVars, streamVars, wuVars, cb, origin, sdVars>>

\* onCacheEvicted, called directly: cacheMu is not held and the entry stays.
FailWatches(s) ==
    /\ WuAt(s, "failWatches")
    /\ CloseWatches(Store(s))
    /\ live' = [live EXCEPT ![s] = FALSE]
    /\ todo' = [todo EXCEPT ![s] = {}]
    /\ WuGoto(s, "failClose")
    /\ UNCHANGED <<cacheVars, cw, ver, out, csend, streamVars, x, fan, cb, origin, sdVars, panic>>

FailClose(s) ==
    /\ WuAt(s, "failClose")
    /\ IF upmap[KeyOf[s]] = NoStream
       THEN WuGoto(s, "exited") /\ UNCHANGED <<done, panic>>
       ELSE WuGoto(s, "failDelete") /\ CloseDone(KeyOf[s])
    /\ UNCHANGED <<cacheVars, watchVars, upmap, stream, x, fan, live, todo, cb, origin, sdVars>>

FailDelete(s) ==
    /\ WuAt(s, "failDelete")
    /\ Unmap(KeyOf[s])
    /\ WuGoto(s, "exited")
    /\ UNCHANGED <<cacheVars, watchVars, stream, done, x, fan, live, todo, cb, origin, sdVars, panic>>

----------------------------------------------------------------------------
\* onCacheEvicted as the cache's callback, with cacheMu held.

\* Mutant: the watches of an evicted entry stay open.
EvictWatchesSkipped ==
    /\ CbAt("watches")
    /\ cb' = "close"
    /\ UNCHANGED <<cacheVars, watchVars, streamVars, wuVars, origin, sdVars, panic>>

EvictWatches ==
    /\ CbAt("watches")
    /\ CloseWatches(evReqs)
    /\ cb' = "close"
    /\ UNCHANGED <<cacheVars, cw, ver, out, csend, streamVars, wuVars, origin, sdVars, panic>>

\* Mutant: the presence of the stream is not checked.
EvictCloseUnchecked ==
    /\ CbAt("close")
    /\ cb' = "delete"
    /\ CloseDone(evKey)
    /\ UNCHANGED <<cacheVars, watchVars, upmap, stream, wuVars, origin, sdVars>>

EvictClose ==
    /\ CbAt("close")
    /\ IF upmap[evKey] = NoStream
       THEN cb' = "none" /\ EvictReturn /\ UNCHANGED <<done, panic>>
       ELSE cb' = "delete" /\ CloseDone(evKey) /\ UNCHANGED cacheVars
    /\ UNCHANGED <<watchVars, upmap, stream, wuVars, origin, sdVars>>

\* Mutant: the stream is stopped and stays in upstreamResponseMap.
EvictDeleteKeeps ==
    /\ CbAt("delete")
    /\ cb' = "none"
    /\ EvictReturn
    /\ UNCHANGED <<watchVars, streamVars, wuVars, origin, sdVars, panic>>

EvictDelete ==
    /\ CbAt("delete")
    /\ Unmap(evKey)
    /\ cb' = "none"
    /\ EvictReturn
    /\ UNCHANGED <<watchVars, stream, done, wuVars, origin, sdVars, panic>>

----------------------------------------------------------------------------
\* shutdown: deleteAll's Range visits each key once, in any order.

Shutdown ==
    /\ Alive /\ MayShutdown /\ ~down
    /\ down' = TRUE
    /\ sdTodo' = Key
    /\ UNCHANGED <<cacheVars, watchVars, streamVars, wuVars, cb, origin, sdKey, panic>>

ShutdownClose(k) ==
    /\ Alive /\ k \in sdTodo
    /\ sdKey = NoKey
    /\ sdTodo' = sdTodo \ {k}
    /\ IF upmap[k] = NoStream
       THEN UNCHANGED <<sdKey, done, panic>>
       ELSE sdKey' = k /\ CloseDone(k)
    /\ UNCHANGED <<cacheVars, watchVars, upmap, stream, wuVars, cb, origin, down>>


ShutdownDelete ==
    /\ Alive /\ sdKey # NoKey
    /\ Unmap(sdKey)
    /\ sdKey' = NoKey
    /\ UNCHANGED <<cacheVars, watchVars, stream, done, wuVars, cb, origin, down, sdTodo, panic>>

\* The admin server: ClearCacheEntries, and a read that evicts an expired key.
AdminClear(k) ==
    /\ Alive /\ DeleteKey(k, Admin)
    /\ Evicting
    /\ UNCHANGED <<watchVars, streamVars, wu, x, fan, origin, sdVars, panic>>

AdminFetch(k) ==
    /\ Alive /\ FetchExpired(k, Admin)
    /\ Evicting
    /\ UNCHANGED <<watchVars, streamVars, wu, x, fan, origin, sdVars, panic>>

----------------------------------------------------------------------------
\* The environment: time, the origin server, the upstream client.

TimePasses ==
    /\ Alive
    /\ \E K \in SUBSET (cached \ expired) : K # {} /\ Expire(K)
    /\ UNCHANGED <<watchVars, streamVars, wuVars, cb, origin, sdVars, panic>>

Publish(k) ==
    /\ Alive /\ origin[k] < MaxVersion
    /\ origin' = [origin EXCEPT ![k] = @ + 1]
    /\ UNCHANGED <<cacheVars, watchVars, streamVars, wuVars, cb, sdVars, panic>>

\* The client closes the response channel of a stream it cannot open and,
\* once the root context is cancelled, of every stream.
StreamCloses(s) ==
    /\ Alive /\ stream[s] = "open"
    /\ s \in Unsupported \/ down
    /\ stream' = [stream EXCEPT ![s] = "closed"]
    /\ UNCHANGED <<cacheVars, watchVars, upmap, done, wuVars, cb, origin, sdVars, panic>>

----------------------------------------------------------------------------
WatchStep(r) ==
    \/ RegisterWatch(r) \/ FetchCached(r) \/ FetchCachedStale(r)
    \/ FetchCachedAgain(r) \/ OpenStream(r) \/ AddStream(r) \/ UnregisterWatch(r)

UpstreamStep(s) ==
    \/ Receive(s) \/ ReceiveClosed(s) \/ ReceiveDone(s) \/ CacheResponse(s)
    \/ FetchFanout(s) \/ FetchFanoutStale(s) \/ FetchFanoutAgain(s)
    \/ FanoutStart(s) \/ (\E r \in Req : FanoutSend(s, r)) \/ FanoutEnd(s)
    \/ FailFetch(s) \/ FailFetchStale(s) \/ FailFetchAgain(s) \/ FailNil(s)
    \/ FailWatches(s) \/ FailClose(s) \/ FailDelete(s)

EvictStep == EvictWatches \/ EvictClose \/ EvictDelete

ShutdownStep == (\E k \in Key : ShutdownClose(k)) \/ ShutdownDelete

Environment ==
    \/ \E r \in Req : CreateWatch(r) \/ Cancel(r) \/ ReceiveAgain(r) \/ StreamCloses(r)
    \/ \E k \in Key : AdminClear(k) \/ AdminFetch(k) \/ Publish(k)
    \/ TimePasses
    \/ Shutdown

Next ==
    \/ \E r \in Req : WatchStep(r) \/ CachedSend(r) \/ UpstreamStep(r)
    \/ EvictStep
    \/ ShutdownStep
    \/ Environment

Spec == Init /\ [][Next]_vars
----------------------------------------------------------------------------
\* Properties.

\* The stream of key k failed: the client closed its response channel.
Failed(k) == \E s \in Req : KeyOf[s] = k /\ stream[s] = "closed"

\* watchUpstream of s is running.
Listening(s) == wu[s] \notin {"none", "exited"}

\* The downstream server holds an open watch for r.
Waiting(r) == cw[r] = "returned" /\ watch[r] = "open"

\* A watch that is open once its request was registered is in the store of
\* its key's entry, so that the next fanout reaches it, or it is about to be
\* closed by the callback that evicts that entry: an eviction between any two
\* steps of CreateWatch never leaves an open watch nobody serves
\* (orchestrator.go CreateWatch, onCacheEvicted).
WatchRegistered ==
    \A r \in Req :
        watch[r] = "open" /\ cw[r] # "created" =>
            \/ r \in reqs[KeyOf[r]]
            \/ cb = "watches" /\ r \in evReqs

\* When CreateWatch has returned an open watch, the key has an upstream stream
\* that some watchUpstream listens to and nobody has been told to shut down,
\* unless a stream of the key failed or the process is stopping (exists, add
\* and onCacheEvicted race for the entry of upstreamResponseMap).
WatchFed ==
    \A r \in Req :
        LET s == upmap[KeyOf[r]] IN
        Waiting(r) /\ ~Failed(KeyOf[r]) /\ ~down =>
            s # NoStream /\ s \notin done /\ Listening(s)

\* A watchUpstream that has not been told to stop is the one in
\* upstreamResponseMap: there is one per aggregated key ("One routine is opened
\* per aggregate key", orchestrator.go:228) and it can be reached to be stopped.
StreamTracked ==
    \A s \in Req : Listening(s) /\ s \notin done => upmap[KeyOf[s]] = s

\* No response falls between CreateWatch and fanout: once the streams of a key
\* are idle and the request's own cached send is over, a watch whose client
\* does not hold the cached version was sent something.
NoMissedResponse ==
    \A r \in Req :
        LET k == KeyOf[r] IN
        /\ Waiting(r) /\ csend[r] = NoResp
        /\ \A s \in Req : KeyOf[s] = k => wu[s] \in {"none", "select", "exited"}
        /\ resp[k] # NoResp /\ ver[r] \notin {resp[k], Nack}
        => out[r] # NoResp

\* A client is sent what was published for its own key: no fanout holds the store
\* of another key's entry, whatever was evicted or cached anew since its stream
\* fetched (orchestrator.go:326-345, cache.go:118-149).
OwnResponsesOnly ==
    /\ \A s \in Req : \A r \in Store(s) : KeyOf[r] = KeyOf[s]
    /\ \A r \in Req : out[r] <= origin[KeyOf[r]]

\* Evictions, cancellations and the races of CreateWatch never crash the
\* process: that takes a stream the client closed, or a shutdown.
PanicNeedsFailure ==
    panic # "none" => down \/ \E k \in Key : Failed(k)

\* The watches, as the admin server sees them.
WatchMap ==
    [r \in Req |-> CASE cw[r] \in {"idle", "rejected"} -> "none"
                     [] cw[r] = "created" -> "made"
                     [] OTHER -> IF watch[r] = "open" THEN "open" ELSE "closed"]

\* The orchestrator does to the cache and to the watches, in any of its races,
\* nothing but what AdminServer takes it to do: a watch that is registered stays in
\* its entry until it is closed, and is closed with it.
Abs == INSTANCE Relay WITH watch <- WatchMap, cb <- (cb = "watches"),
                           cacheMu <- IF Unlocked THEN Free ELSE Admin
ImplementsRelay == Abs!RelaySpec

----------------------------------------------------------------------------
\* Liveness.

\* Goroutines are scheduled.  Weak fairness is enough while responses are not
\* resent (Reconnects = FALSE): evictions and responses are then finitely many,
\* so cacheMu stays free and done is the only ready case in the end.  Requests,
\* cancellations, the clock, the admin and the origin server owe nothing.
Fairness ==
    /\ \A r \in Req :
          /\ WF_vars(WatchStep(r))
          /\ WF_vars(CachedSend(r))
          /\ WF_vars(UpstreamStep(r))
    /\ WF_vars(EvictStep)
    /\ WF_vars(ShutdownStep)

FairSpec == Spec /\ Fairness

\* A client that holds nothing and waits on a key the origin server has a
\* resource for is sent a version of it, or its watch is closed for it to ask
\* again: no interleaving of CreateWatch, fanout and eviction strands it,
\* short of a failed stream or a shutdown.
Served ==
    \A r \in Req :
        Waiting(r) /\ ver[r] = NoResp /\ origin[KeyOf[r]] # NoResp
            ~> \/ out[r] # NoResp \/ ~Waiting(r)
               \/ Failed(KeyOf[r]) \/ down

\* A stream told to stop is shut down and its goroutine ends: closing done is
\* enough, whatever the goroutine is doing and however many responses are
\* still to come (watchUpstream, orchestrator.go:273-282).
StreamStops ==
    \A s \in Req :
        s \in done ~> (wu[s] = "exited" /\ stream[s] # "open") \/ panic # "none"

----------------------------------------------------------------------------
\* What the code's comments claim and the code does not keep.

\* "we don't need worry about deleting a non-existent key due to concurrent race
\* conditions" (upstream.go:70-71): closing done and deleting the key are not
\* one step, and three goroutines may do it for one key: no two of them do.
CloseOnce == panic # "closeTwice"

\* "so that we always send the latest response" (watchv2.go:53-54): once the
\* key's streams are idle, the last version sent to a watch is the cached one.
\* (In no configuration file: README.md, section 4.)
NewestSent ==
    \A r \in Req :
        LET k == KeyOf[r] IN
        /\ Waiting(r) /\ csend[r] = NoResp /\ out[r] # NoResp
        /\ \A s \in Req : KeyOf[s] = k => wu[s] \in {"none", "select", "exited"}
        /\ resp[k] # NoResp
        => out[r] = resp[k]

\* "Orchestrator will populate the response channel with the corresponding
\* responses once new resources are available upstream" (orchestrator.go:121):
\* a failed stream closes the watches of its key, so that no open watch is left
\* without a stream when the cleanup is over.
NoStrandedWatch ==
    \A r \in Req :
        /\ Waiting(r) /\ cb = "none"
        /\ \A s \in Req : wu[s] \in {"none", "select", "exited"}
        => upmap[KeyOf[r]] # NoStream

----------------------------------------------------------------------------
\* The inductive invariant behind the theorems of OrchestratorProofs.

\* cacheMu is held exactly while the callback runs, and meanwhile the entry the
\* callback is about stays gone; a key without an entry has no requests.
LockInv ==
    /\ \A k \in Key \ cached : reqs[k] = {}
    /\ cb = "none" <=> Unlocked
    /\ cb # "none" => evKey \in Key /\ reqs[evKey] = {}

\* A watch is open from createWatch to the cancel function at most.
OpenInv ==
    \A r \in Req : watch[r] = "open" =>
        cw[r] \in {"created", "registered", "stale", "fetched", "opened", "returned"}

\* Nobody closes a watch before its request is registered: it is in no store.
MadeInv == \A r \in Req : cw[r] = "created" => watch[r] = "open"

\* Streams: what is in upstreamResponseMap was started by AddStream for that
\* key, and a goroutine ends or fails for a reason.
StreamInv ==
    /\ \A k \in Key : upmap[k] # NoStream =>
           KeyOf[upmap[k]] = k /\ wu[upmap[k]] # "none"
    /\ \A s \in Req :
           /\ wu[s] # "none" => cw[s] \in {"returned", "canceling", "canceled"}
           /\ s \in done => wu[s] # "none"
           /\ wu[s] = "exited" => s \in done \/ stream[s] = "closed"
           /\ wu[s] \in {"failed", "failStale", "failNil", "failWatches",
                         "failClose", "failDelete"} => stream[s] = "closed"

\* A goroutine between close(done) and Delete for key k: the cache's callback,
\* a watchUpstream that failed, deleteAll.
EvictCloses(k) == cb = "delete" /\ evKey = k
FailCloses(s, k) == wu[s] = "failDelete" /\ KeyOf[s] = k
Closing(k) == EvictCloses(k) \/ (\E s \in Req : FailCloses(s, k)) \/ sdKey = k

\* While the process lives, a key's stream has its done closed exactly while
\* one goroutine, and only one, is about to delete it.
CloseInv ==
    panic = "none" =>
        \A k \in Key :
            /\ upmap[k] \in done <=> Closing(k)
            /\ ~(EvictCloses(k) /\ sdKey = k)
            /\ \A s \in Req : FailCloses(s, k) =>
                  /\ ~EvictCloses(k) /\ sdKey # k
                  /\ \A t \in Req : FailCloses(t, k) => t = s

ShutdownInv == sdKey # NoKey \/ sdTodo # {} => down

\* A failure that watchUpstream was, or will be, told of.
FailedFor(k) == \E s \in Req : KeyOf[s] = k /\ stream[s] = "closed" /\ wu[s] # "none"

FedInv ==
    \A r \in Req :
        LET s == upmap[KeyOf[r]] IN
        Waiting(r) /\ ~FailedFor(KeyOf[r]) /\ ~down =>
            s # NoStream /\ s \notin done /\ Listening(s)

PanicInv == panic # "none" => down \/ \E k \in Key : FailedFor(k)

\* The entry of its key has another version than the client of r, which does not
\* NACK, and CreateWatch has looked there before.
Owed(r) ==
    /\ watch[r] = "open" /\ cw[r] \in {"fetched", "opened", "returned"}
    /\ resp[KeyOf[r]] # NoResp /\ ver[r] \notin {resp[KeyOf[r]], Nack}

\* watchUpstream of s is to fan out to r: before it has fetched, to whoever is in
\* the entry by then; while it holds the store, to who is in that.
Delivers(s, r) ==
    /\ KeyOf[s] = KeyOf[r]
    /\ \/ wu[s] \in {"fetch", "stale"}
       \/ wu[s] = "range" /\ r \in Store(s)
       \/ wu[s] = "fanout" /\ r \in todo[s]

\* NoMissedResponse, while streams and cached sends are busy.
DeliveryInv ==
    /\ \A s \in Req : wu[s] \in {"range", "fanout"} => fan[s] # NoResp
    /\ \A r \in Req : Owed(r) =>
           out[r] # NoResp \/ csend[r] # NoResp \/ \E s \in Req : Delivers(s, r)

\* What is in an entry, is handed to a callback, or is fanned out to, has been
\* registered, for that key.
Registered(r, k) == KeyOf[r] = k /\ cw[r] \notin {"idle", "rejected", "created"}
StoreInv ==
    /\ \A k \in Key : \A r \in reqs[k] : Registered(r, k)
    /\ \A r \in evReqs : Registered(r, evKey)
    /\ \A s \in Req : \A r \in todo[s] : Registered(r, KeyOf[s])

\* A failed stream that holds the store of an entry which is gone has no watch to
\* close: the callback closes it first, or has.
StaleInv ==
    \A s \in Req : wu[s] = "failWatches" /\ ~live[s] =>
        \/ cb = "watches" /\ evKey = KeyOf[s] /\ evReqs = todo[s]
        \/ \A r \in todo[s] : watch[r] # "open"

\* Every version on its way was published.
VersionInv ==
    /\ \A k \in Key : resp[k] <= origin[k]
    /\ \A s \in Req :
           /\ x[s] <= origin[KeyOf[s]] /\ fan[s] <= origin[KeyOf[s]]
           /\ wu[s] = "set" => x[s] # NoResp
    /\ \A r \in Req : csend[r] <= origin[KeyOf[r]] /\ out[r] <= origin[KeyOf[r]]

IInv ==
    /\ TypeOK
    /\ LockInv
    /\ OpenInv
    /\ MadeInv
    /\ WatchRegistered
    /\ StreamInv
    /\ CloseInv
    /\ StreamTracked
    /\ ShutdownInv
    /\ FedInv
    /\ PanicInv
    /\ DeliveryInv
    /\ StoreInv
    /\ StaleInv
    /\ VersionInv
=============================================================================
