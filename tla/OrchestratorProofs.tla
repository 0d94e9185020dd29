------------------------- MODULE OrchestratorProofs -------------------------
(***************************************************************************)
(* Theorems about Orchestrator, for every set of keys and requests, every  *)
(* cache size, with and without a TTL, failing streams and a shutdown.     *)
(***************************************************************************)
EXTENDS Orchestrator, CacheProofs

USE CacheAssumption, OrchestratorAssumption DEF Version, NoResp, Nack

----------------------------------------------------------------------------
\* Type correctness.

\* An eviction leaves the orchestrator's callback and stores well typed.
LEMMA EvictingType ==
    ASSUME TypeOK, CacheTypeOK', Evicting
    PROVE  /\ cb' \in {"none", "watches", "close", "delete"}
           /\ live' \in [Req -> BOOLEAN]
           /\ todo' \in [Req -> SUBSET Req]
BY DEF TypeOK, CacheTypeOK, Evicting

LEMMA TypeStep ==
    ASSUME TypeOK, LockInv, [Next]_vars
    PROVE  TypeOK'
<1> USE DEF CwAt, WuAt, CbAt, CwGoto, WuGoto, CwState, WuState, CloseWatches,
            watchVars, streamVars, wuVars, sdVars
<1>1. ASSUME NEW r \in Req, WatchStep(r)
      PROVE  TypeOK'
  <2>1. CASE RegisterWatch(r)
    <3>1. CacheTypeOK'
      BY <2>1, AddRequestType, CallerType DEF RegisterWatch, TypeOK
    <3> QED BY <2>1, <3>1, EvictingType DEF TypeOK, RegisterWatch
  <2>2. CASE FetchCached(r)
    BY <2>2, CacheUnchangedType DEF TypeOK, CacheTypeOK, FetchCached, SpawnCachedSend
  <2>3. CASE FetchCachedStale(r)
    BY <2>3, CacheUnchangedType DEF TypeOK, FetchCachedStale
  <2>4. CASE FetchCachedAgain(r)
    <3>1. CacheTypeOK'
      BY <2>4, RemoveType, CacheUnchangedType, CallerType
      DEF FetchCachedAgain, FetchExpired, TypeOK
    <3>2. csend' \in [Req -> Version \union {NoResp}]
      BY <2>4 DEF FetchCachedAgain, SpawnCachedSend, TypeOK, CacheTypeOK
    <3> QED BY <2>4, <3>1, <3>2, EvictingType DEF TypeOK, FetchCachedAgain
  <2>5. CASE OpenStream(r)
    BY <2>5, CacheUnchangedType DEF TypeOK, OpenStream
  <2>6. CASE AddStream(r)
    BY <2>6, CacheUnchangedType DEF TypeOK, AddStream
  <2>7. CASE UnregisterWatch(r)
    BY <2>7, DeleteRequestType DEF TypeOK, UnregisterWatch
  <2> QED BY <1>1, <2>1, <2>2, <2>3, <2>4, <2>5, <2>6, <2>7 DEF WatchStep
<1>2. ASSUME NEW r \in Req, CachedSend(r)
      PROVE  TypeOK'
  BY <1>2, CacheUnchangedType DEF TypeOK, CachedSend, Send
<1>3. ASSUME NEW s \in Req, UpstreamStep(s)
      PROVE  TypeOK'
  <2>1. CASE Receive(s)
    BY <2>1, CacheUnchangedType DEF TypeOK, Receive
  <2>2. CASE ReceiveClosed(s)
    BY <2>2, CacheUnchangedType DEF TypeOK, ReceiveClosed
  <2>3. CASE ReceiveDone(s)
    BY <2>3, CacheUnchangedType DEF TypeOK, ReceiveDone
  <2>4. CASE CacheResponse(s)
    <3>1. CacheTypeOK'
      BY <2>4, SetResponseType, CallerType DEF CacheResponse, TypeOK
    <3> QED BY <2>4, <3>1, EvictingType DEF TypeOK, CacheResponse
  <2>5. CASE FetchFanout(s)
    BY <2>5, CacheUnchangedType DEF TypeOK, CacheTypeOK, FetchFanout, Fetched
  <2>6. CASE FetchFanoutStale(s)
    BY <2>6, CacheUnchangedType DEF TypeOK, FetchFanoutStale
  <2>7. CASE FetchFanoutAgain(s)
    <3>1. CASE FetchExpired(KeyOf[s], Upstream(s)) /\ Evicting /\ WuGoto(s, "select") /\ UNCHANGED fan
      <4>1. CacheTypeOK'
        BY <3>1, RemoveType, CallerType DEF FetchExpired, TypeOK
      <4> QED BY <2>7, <3>1, <4>1, EvictingType DEF TypeOK, FetchFanoutAgain
    <3>2. CASE UNCHANGED <<cacheVars, todo, cb>> /\ Fetched(s)
               /\ live' = [live EXCEPT ![s] = resp[KeyOf[s]] # NoResp]
      BY <2>7, <3>2, CacheUnchangedType DEF TypeOK, CacheTypeOK, FetchFanoutAgain, Fetched
    <3> QED BY <2>7, <3>1, <3>2 DEF FetchFanoutAgain
  <2>8. CASE FanoutStart(s)
    BY <2>8, CacheUnchangedType DEF TypeOK, CacheTypeOK, FanoutStart, Store
  <2>9. CASE \E r \in Req : FanoutSend(s, r)
    BY <2>9, CacheUnchangedType DEF TypeOK, FanoutSend, Send
  <2>10. CASE FanoutEnd(s)
    BY <2>10, CacheUnchangedType DEF TypeOK, FanoutEnd
  <2>11. CASE FailFetch(s)
    BY <2>11, CacheUnchangedType DEF TypeOK, FailFetch
  <2>12. CASE FailFetchStale(s)
    BY <2>12, CacheUnchangedType DEF TypeOK, FailFetchStale
  <2>13. CASE FailFetchAgain(s)
    <3>1. CASE FetchExpired(KeyOf[s], Upstream(s)) /\ Evicting /\ WuGoto(s, "failNil")
      <4>1. CacheTypeOK'
        BY <3>1, RemoveType, CallerType DEF FetchExpired, TypeOK
      <4> QED BY <2>13, <3>1, <4>1, EvictingType DEF TypeOK, FailFetchAgain
    <3>2. CASE /\ UNCHANGED <<cacheVars, todo, cb>>
               /\ live' = [live EXCEPT ![s] = KeyOf[s] \in cached]
               /\ WuGoto(s, IF KeyOf[s] \in cached THEN "failWatches" ELSE "failNil")
      BY <2>13, <3>2, CacheUnchangedType DEF TypeOK, FailFetchAgain
    <3> QED BY <2>13, <3>1, <3>2 DEF FailFetchAgain
  <2>14. CASE FailNil(s)
    BY <2>14, CacheUnchangedType DEF TypeOK, FailNil
  <2>15. CASE FailWatches(s)
    BY <2>15, CacheUnchangedType DEF TypeOK, FailWatches
  <2>16. CASE FailClose(s)
    BY <2>16, CacheUnchangedType DEF TypeOK, FailClose, CloseDone
  <2>17. CASE FailDelete(s)
    BY <2>17, CacheUnchangedType DEF TypeOK, FailDelete, Unmap
  <2> QED BY <1>3, <2>1, <2>2, <2>3, <2>4, <2>5, <2>6, <2>7, <2>8, <2>9, <2>10,
             <2>11, <2>12, <2>13, <2>14, <2>15, <2>16, <2>17 DEF UpstreamStep
<1>4. CASE EvictStep
  <2>1. CASE EvictWatches
    BY <2>1, CacheUnchangedType DEF TypeOK, EvictWatches
  <2>2. CASE EvictClose
    BY <2>2, CacheUnchangedType, EvictReturnType DEF TypeOK, LockInv, EvictClose, CloseDone
  <2>3. CASE EvictDelete
    BY <2>3, EvictReturnType DEF TypeOK, EvictDelete, Unmap
  <2> QED BY <1>4, <2>1, <2>2, <2>3 DEF EvictStep
<1>5. CASE ShutdownStep
  <2>1. ASSUME NEW k \in Key, ShutdownClose(k)
        PROVE  TypeOK'
    BY <2>1, CacheUnchangedType DEF TypeOK, ShutdownClose, CloseDone
  <2>2. CASE ShutdownDelete
    BY <2>2, CacheUnchangedType DEF TypeOK, ShutdownDelete, Unmap
  <2> QED BY <1>5, <2>1, <2>2 DEF ShutdownStep
<1>6. ASSUME NEW r \in Req,
             CreateWatch(r) \/ Cancel(r) \/ ReceiveAgain(r) \/ StreamCloses(r)
      PROVE  TypeOK'
  <2>1. CASE CreateWatch(r)
    BY <2>1, CacheUnchangedType DEF TypeOK, CreateWatch
  <2>2. CASE Cancel(r)
    BY <2>2, CacheUnchangedType DEF TypeOK, Cancel
  <2>3. CASE ReceiveAgain(r)
    BY <2>3, CacheUnchangedType DEF TypeOK, ReceiveAgain
  <2>4. CASE StreamCloses(r)
    BY <2>4, CacheUnchangedType DEF TypeOK, StreamCloses
  <2> QED BY <1>6, <2>1, <2>2, <2>3, <2>4
<1>7. ASSUME NEW k \in Key,
             AdminClear(k) \/ AdminFetch(k) \/ Publish(k)
      PROVE  TypeOK'
  <2>1. CASE AdminClear(k) \/ AdminFetch(k)
    <3>1. CacheTypeOK' /\ Evicting
      BY <2>1, RemoveType, CallerType
      DEF TypeOK, AdminClear, AdminFetch, DeleteKey, FetchExpired
    <3> QED BY <2>1, <3>1, EvictingType DEF TypeOK, AdminClear, AdminFetch
  <2>2. CASE Publish(k)
    BY <2>2, CacheUnchangedType DEF TypeOK, Publish
  <2> QED BY <1>7, <2>1, <2>2
<1>8. CASE Shutdown
  BY <1>8, CacheUnchangedType DEF TypeOK, Shutdown
<1>10. CASE TimePasses
  BY <1>10 DEF TypeOK, CacheTypeOK, TimePasses, Expire
<1>9. CASE UNCHANGED vars
  BY <1>9, CacheUnchangedType DEF TypeOK, vars
<1> QED BY <1>1, <1>2, <1>3, <1>4, <1>5, <1>6, <1>7, <1>8, <1>9, <1>10
        DEF Next, Environment

----------------------------------------------------------------------------
\* Every open watch is registered.

\* What the watches need to know of a cache operation that may evict: the
\* entry it drops goes to the callback with all its requests, the other
\* entries keep theirs.
Keeps ==
    /\ Unlocked
    /\ \A k \in Key \ cached' : reqs'[k] = {}
    /\ ~Unlocked' => evKey' \in Key /\ reqs'[evKey'] = {}
    /\ \A k \in Key : \/ reqs[k] \subseteq reqs'[k]
                      \/ ~Unlocked' /\ evKey' = k /\ evReqs' = reqs[k]

LEMMA UpdateKeeps ==
    ASSUME CacheTypeOK, LockInv, Unlocked, NEW k \in Key, NEW v, NEW R, NEW old,
           reqs[k] \subseteq R, Update(k, v, R, old)
    PROVE  Keeps /\ reqs'[k] = R
BY DEF CacheTypeOK, LockInv, Update, Keeps, Unlocked

LEMMA InsertKeeps ==
    ASSUME CacheTypeOK, LockInv, Unlocked, NEW k \in Key, NEW v,
           NEW R \in SUBSET Req, NEW t \in Caller, Insert(k, v, R, t)
    PROVE  Keeps /\ reqs'[k] = R
<1>1. CASE ~Full
  BY <1>1 DEF CacheTypeOK, LockInv, Insert, Keeps, Unlocked
<1>2. CASE Full
  <2>1. PICK old \in cached :
           /\ cached' = (cached \ {old}) \union {k}
           /\ reqs' = [reqs EXCEPT ![old] = {}, ![k] = R]
           /\ OnEvicted(old, t)
    BY <1>2 DEF Insert
  <2>2. old \in Key /\ old # k
    BY <1>2 DEF CacheTypeOK, Insert
  <2> QED BY <1>2, <2>1, <2>2 DEF CacheTypeOK, LockInv, Insert, OnEvicted, Keeps, Unlocked
<1> QED BY <1>1, <1>2

LEMMA AddRequestKeeps ==
    ASSUME CacheTypeOK, LockInv, NEW k \in Key, NEW r \in Req, NEW t \in Caller,
           AddRequest(k, r, t)
    PROVE  Keeps /\ r \in reqs'[k]
BY UpdateKeeps, InsertKeeps DEF CacheTypeOK, AddRequest

LEMMA SetResponseKeeps ==
    ASSUME CacheTypeOK, LockInv, NEW k \in Key, NEW v, NEW t \in Caller,
           SetResponse(k, v, t)
    PROVE  Keeps
BY UpdateKeeps, InsertKeeps DEF CacheTypeOK, SetResponse

LEMMA RemoveKeeps ==
    ASSUME CacheTypeOK, LockInv, NEW k \in Key, NEW t \in Caller, Unlocked,
           Remove(k, t)
    PROVE  Keeps
BY DEF CacheTypeOK, LockInv, Remove, OnEvicted, Keeps, Unlocked

WatchInv == LockInv /\ OpenInv /\ WatchRegistered

\* An operation that keeps the requests keeps the invariant, whatever moves the
\* goroutine of an already registered request makes meanwhile.
LEMMA KeepsWatchInv ==
    ASSUME TypeOK, WatchInv, Keeps, Evicting, watch' = watch,
           \A r \in Req : watch[r] = "open" =>
               /\ cw'[r] \in {"created", "registered", "stale", "fetched", "opened", "returned"}
               /\ cw'[r] # "created" => cw[r] # "created" \/ r \in reqs'[KeyOf[r]]
    PROVE  WatchInv'
<1>1. cb = "none" /\ LockInv'
  BY DEF WatchInv, LockInv, Keeps, Evicting
<1>2. OpenInv'
  BY DEF OpenInv
<1>3. ASSUME NEW r \in Req, watch'[r] = "open", cw'[r] # "created"
      PROVE  r \in reqs'[KeyOf[r]] \/ (cb' = "watches" /\ r \in evReqs')
  <2>1. r \in reqs[KeyOf[r]] \/ r \in reqs'[KeyOf[r]]
    BY <1>1, <1>3 DEF WatchInv, WatchRegistered
  <2> QED BY <2>1 DEF Keeps, Evicting
<1> QED BY <1>1, <1>2, <1>3 DEF WatchInv, WatchRegistered

\* So does a step that leaves the cache and its callback alone and opens no
\* watch of a request past createWatch.
LEMMA QuietWatchInv ==
    ASSUME TypeOK, WatchInv, UNCHANGED <<cached, reqs, cacheMu, evKey, evReqs, cb>>,
           \A r \in Req : watch'[r] = "open" =>
               /\ cw'[r] \in {"created", "registered", "stale", "fetched", "opened", "returned"}
               /\ cw'[r] # "created" => cw[r] # "created" /\ watch[r] = "open"
    PROVE  WatchInv'
BY DEF WatchInv, LockInv, OpenInv, WatchRegistered, Unlocked

LEMMA WatchInvStep ==
    ASSUME TypeOK, WatchInv, [Next]_vars
    PROVE  WatchInv'
<1> USE DEF CwAt, WuAt, CbAt, CwGoto, WuGoto, CwState, WuState, CloseWatches,
            cacheVars, watchVars, streamVars, wuVars, sdVars
<1>1. ASSUME NEW r \in Req, WatchStep(r)
      PROVE  WatchInv'
  <2>1. CASE RegisterWatch(r)
    <3>1. Keeps /\ r \in reqs'[KeyOf[r]]
      BY <2>1, AddRequestKeeps, CallerType DEF RegisterWatch, TypeOK, WatchInv
    <3> QED BY <2>1, <3>1, KeepsWatchInv DEF TypeOK, RegisterWatch, WatchInv, OpenInv
  <2>2. CASE FetchCached(r) \/ FetchCachedStale(r) \/ OpenStream(r) \/ AddStream(r)
    BY <2>2, QuietWatchInv
    DEF TypeOK, FetchCached, FetchCachedStale, OpenStream, AddStream, WatchInv, OpenInv
  <2>3. CASE FetchCachedAgain(r)
    <3>1. CASE FetchExpired(KeyOf[r], Watcher(r))
      <4>1. Keeps
        BY <3>1, RemoveKeeps, CallerType DEF FetchExpired, TypeOK, WatchInv
      <4> QED BY <2>3, <4>1, KeepsWatchInv DEF TypeOK, FetchCachedAgain, WatchInv, OpenInv
    <3>2. CASE FetchLive(KeyOf[r]) /\ UNCHANGED cacheVars
      <4>1. UNCHANGED cb
        BY <2>3, <3>2 DEF FetchCachedAgain, Evicting, FetchLive, Unlocked
      <4> QED BY <2>3, <3>2, <4>1, QuietWatchInv DEF TypeOK, FetchCachedAgain, WatchInv, OpenInv
    <3> QED BY <2>3, <3>1, <3>2 DEF FetchCachedAgain
  <2>4. CASE UnregisterWatch(r)
    <3>1. /\ UNCHANGED <<cacheMu, evKey, evReqs, cb>> /\ Unlocked
          /\ \A q \in Req \ {r} : q \in reqs[KeyOf[q]] => q \in reqs'[KeyOf[q]]
      BY <2>4 DEF TypeOK, CacheTypeOK, UnregisterWatch, DeleteRequest, Update
    <3>2. watch[r] # "open" /\ watch' = watch
      BY <2>4 DEF UnregisterWatch, WatchInv, OpenInv
    <3>3. LockInv'
      BY <2>4, <3>1 DEF TypeOK, CacheTypeOK, UnregisterWatch, DeleteRequest, Update,
                        WatchInv, LockInv, Unlocked
    <3> QED BY <2>4, <3>1, <3>2, <3>3 DEF TypeOK, UnregisterWatch, WatchInv, OpenInv, WatchRegistered
  <2> QED BY <1>1, <2>1, <2>2, <2>3, <2>4 DEF WatchStep
<1>2. ASSUME NEW r \in Req, CachedSend(r)
      PROVE  WatchInv'
  BY <1>2, QuietWatchInv DEF CachedSend, WatchInv, OpenInv
<1>3. ASSUME NEW s \in Req, UpstreamStep(s)
      PROVE  WatchInv'
  <2>1. CASE \/ Receive(s) \/ ReceiveClosed(s) \/ ReceiveDone(s)
             \/ FetchFanout(s) \/ FetchFanoutStale(s) \/ FanoutStart(s)
             \/ (\E r \in Req : FanoutSend(s, r)) \/ FanoutEnd(s)
    BY <2>1, QuietWatchInv
    DEF Receive, ReceiveClosed, ReceiveDone, FetchFanout, FetchFanoutStale,
        FanoutStart, FanoutSend, FanoutEnd, WatchInv, OpenInv
  <2>2. CASE \/ FailFetch(s) \/ FailFetchStale(s) \/ FailNil(s)
             \/ FailWatches(s) \/ FailClose(s) \/ FailDelete(s)
    BY <2>2, QuietWatchInv
    DEF TypeOK, FailFetch, FailFetchStale, FailNil, FailWatches, FailClose,
        FailDelete, WatchInv, OpenInv
  <2>3. CASE CacheResponse(s)
    <3>1. Keeps
      BY <2>3, SetResponseKeeps, CallerType DEF CacheResponse, TypeOK, WatchInv
    <3> QED BY <2>3, <3>1, KeepsWatchInv DEF CacheResponse, WatchInv, OpenInv
  <2>4. CASE FetchFanoutAgain(s) \/ FailFetchAgain(s)
    <3>1. CASE FetchExpired(KeyOf[s], Upstream(s)) /\ Evicting
      <4>1. Keeps
        BY <3>1, RemoveKeeps, CallerType DEF FetchExpired, TypeOK, WatchInv
      <4> QED BY <2>4, <3>1, <4>1, KeepsWatchInv
              DEF FetchFanoutAgain, FailFetchAgain, WatchInv, OpenInv
    <3>2. CASE UNCHANGED <<cacheVars, todo, cb>>
      BY <2>4, <3>2, QuietWatchInv DEF FetchFanoutAgain, FailFetchAgain, WatchInv, OpenInv
    <3> QED BY <2>4, <3>1, <3>2 DEF FetchFanoutAgain, FailFetchAgain
  <2> QED BY <1>3, <2>1, <2>2, <2>3, <2>4 DEF UpstreamStep
<1>4. CASE EvictStep
  <2>1. CASE EvictWatches
    BY <2>1 DEF TypeOK, EvictWatches, WatchInv, LockInv, OpenInv, WatchRegistered, Unlocked
  <2>2. CASE EvictClose
    BY <2>2, CacheAssumption
    DEF EvictClose, EvictReturn, WatchInv, LockInv, OpenInv, WatchRegistered, Unlocked
  <2>3. CASE EvictDelete
    BY <2>3 DEF EvictDelete, EvictReturn, WatchInv, LockInv, OpenInv, WatchRegistered, Unlocked
  <2> QED BY <1>4, <2>1, <2>2, <2>3 DEF EvictStep
<1>5. CASE ShutdownStep
  BY <1>5, QuietWatchInv DEF ShutdownStep, ShutdownClose, ShutdownDelete, WatchInv, OpenInv
<1>6. ASSUME NEW r \in Req,
             CreateWatch(r) \/ Cancel(r) \/ ReceiveAgain(r) \/ StreamCloses(r)
      PROVE  WatchInv'
  BY <1>6, QuietWatchInv
  DEF TypeOK, CreateWatch, Cancel, ReceiveAgain, StreamCloses, WatchInv, OpenInv
<1>7. ASSUME NEW k \in Key,
             AdminClear(k) \/ AdminFetch(k) \/ Publish(k)
      PROVE  WatchInv'
  <2>1. CASE AdminClear(k) \/ AdminFetch(k)
    <3>1. Keeps
      BY <2>1, RemoveKeeps, CallerType
      DEF TypeOK, WatchInv, AdminClear, AdminFetch, DeleteKey, FetchExpired
    <3> QED BY <2>1, <3>1, KeepsWatchInv DEF AdminClear, AdminFetch, WatchInv, OpenInv
  <2>2. CASE Publish(k)
    BY <2>2, QuietWatchInv DEF Publish, WatchInv, OpenInv
  <2> QED BY <1>7, <2>1, <2>2
<1>8. CASE TimePasses \/ Shutdown \/ UNCHANGED vars
  BY <1>8, QuietWatchInv DEF TimePasses, Expire, Shutdown, vars, WatchInv, OpenInv
<1> QED BY <1>1, <1>2, <1>3, <1>4, <1>5, <1>6, <1>7, <1>8 DEF Next, Environment

----------------------------------------------------------------------------
\* The upstream streams.

LEMMA StreamInvStep ==
    ASSUME TypeOK, LockInv, StreamInv, [Next]_vars
    PROVE  StreamInv'
<1> USE DEF CwAt, WuAt, CbAt, CwGoto, WuGoto, cacheVars, watchVars, streamVars,
            wuVars, sdVars, TypeOK, StreamInv
<1>1. ASSUME NEW r \in Req, WatchStep(r)
      PROVE  StreamInv'
  <2>1. CASE \/ RegisterWatch(r) \/ FetchCached(r) \/ FetchCachedStale(r)
             \/ FetchCachedAgain(r) \/ UnregisterWatch(r)
    BY <2>1 DEF RegisterWatch, FetchCached, FetchCachedStale, FetchCachedAgain, UnregisterWatch
  <2>2. CASE OpenStream(r)
    BY <2>2 DEF OpenStream
  <2>3. CASE AddStream(r)
    BY <2>3 DEF AddStream
  <2> QED BY <1>1, <2>1, <2>2, <2>3 DEF WatchStep
<1>2. ASSUME NEW r \in Req, CachedSend(r)
      PROVE  StreamInv'
  BY <1>2 DEF CachedSend
<1>3. ASSUME NEW s \in Req, UpstreamStep(s)
      PROVE  StreamInv'
  <2>1. CASE \/ Receive(s) \/ ReceiveClosed(s) \/ CacheResponse(s) \/ FetchFanout(s)
             \/ FetchFanoutStale(s) \/ FetchFanoutAgain(s) \/ FanoutStart(s)
             \/ (\E r \in Req : FanoutSend(s, r)) \/ FanoutEnd(s)
    BY <2>1 DEF Receive, ReceiveClosed, Selecting, CacheResponse, FetchFanout, Fetched,
                FetchFanoutStale, FetchFanoutAgain, FanoutStart, FanoutSend, FanoutEnd
  <2>2. CASE ReceiveDone(s)
    BY <2>2 DEF ReceiveDone, Selecting
  <2>3. CASE \/ FailFetch(s) \/ FailFetchStale(s) \/ FailFetchAgain(s)
             \/ FailNil(s) \/ FailWatches(s)
    BY <2>3 DEF FailFetch, FailFetchStale, FailFetchAgain, FailNil, FailWatches
  <2>4. CASE FailClose(s)
    BY <2>4 DEF FailClose, CloseDone
  <2>5. CASE FailDelete(s)
    BY <2>5 DEF FailDelete, Unmap
  <2> QED BY <1>3, <2>1, <2>2, <2>3, <2>4, <2>5 DEF UpstreamStep
<1>4. CASE EvictStep
  BY <1>4 DEF LockInv, EvictStep, EvictWatches, EvictClose, EvictDelete, CloseDone, Unmap
<1>5. CASE ShutdownStep
  BY <1>5 DEF ShutdownStep, ShutdownClose, ShutdownDelete, CloseDone, Unmap
<1>6. CASE Environment
  <2>1. ASSUME NEW r \in Req, CreateWatch(r) \/ Cancel(r)
        PROVE  StreamInv'
    BY <2>1 DEF CreateWatch, Cancel
  <2>2. ASSUME NEW s \in Req, ReceiveAgain(s) \/ StreamCloses(s)
        PROVE  StreamInv'
    BY <2>2 DEF ReceiveAgain, Selecting, StreamCloses
  <2>3. ASSUME NEW k \in Key, AdminClear(k) \/ AdminFetch(k) \/ Publish(k)
        PROVE  StreamInv'
    BY <2>3 DEF AdminClear, AdminFetch, Publish
  <2>4. CASE TimePasses \/ Shutdown
    BY <2>4 DEF TimePasses, Shutdown
  <2> QED BY <1>6, <2>1, <2>2, <2>3, <2>4 DEF Environment
<1>7. CASE UNCHANGED vars
  BY <1>7 DEF vars
<1> QED BY <1>1, <1>2, <1>3, <1>4, <1>5, <1>6, <1>7 DEF Next

\* A step that neither maps, closes nor deletes a stream.
LEMMA QuietCloseInv ==
    ASSUME CloseInv, UNCHANGED <<upmap, done, sdKey, panic>>,
           cb' = "delete" <=> cb = "delete",
           cb = "delete" => evKey' = evKey,
           \A s \in Req : wu'[s] = "failDelete" <=> wu[s] = "failDelete"
    PROVE  CloseInv'
BY DEF CloseInv, Closing, EvictCloses, FailCloses

\* One of the three closers closes done of the stream of key k and becomes the
\* one that is about to delete it; a second one would have panicked.
LEMMA CloseDoneCloseInv ==
    ASSUME TypeOK, StreamInv, CloseInv, Alive, NEW k \in Key, CloseDone(k),
           upmap[k] # NoStream, UNCHANGED upmap
    PROVE  /\ panic' = "none" => ~Closing(k) /\ upmap[k] \notin done
           /\ upmap[k] \in done'
           /\ \A j \in Key \ {k} : upmap[j] \in done' <=> upmap[j] \in done
BY DEF TypeOK, StreamInv, CloseInv, Alive, CloseDone

\* The same goroutine deletes it.
LEMMA UnmapCloseInv ==
    ASSUME TypeOK, NEW k \in Key, Unmap(k), UNCHANGED done
    PROVE  /\ upmap'[k] \notin done'
           /\ \A j \in Key \ {k} : upmap'[j] \in done' <=> upmap[j] \in done
BY DEF TypeOK, Unmap

LEMMA CloseInvStep ==
    ASSUME TypeOK, LockInv, StreamInv, CloseInv, [Next]_vars
    PROVE  CloseInv'
<1> USE DEF CwAt, WuAt, CbAt, CwGoto, WuGoto, cacheVars, watchVars, streamVars,
            wuVars, sdVars
<1>1. ASSUME NEW r \in Req, WatchStep(r)
      PROVE  CloseInv'
  <2>1. CASE RegisterWatch(r) \/ FetchCachedAgain(r)
    BY <2>1, QuietCloseInv
    DEF RegisterWatch, FetchCachedAgain, AddRequest, FetchExpired, FetchLive, Evicting, LockInv
  <2>2. CASE FetchCached(r) \/ FetchCachedStale(r) \/ OpenStream(r) \/ UnregisterWatch(r)
    BY <2>2, QuietCloseInv
    DEF FetchCached, FetchCachedStale, OpenStream, UnregisterWatch, DeleteRequest, Update
  <2>3. CASE AddStream(r)
    <3>1. wu[r] = "none" /\ r \notin done
      BY <2>3 DEF AddStream, StreamInv
    <3>2. CASE upmap[KeyOf[r]] # NoStream
      BY <2>3, <3>2, QuietCloseInv DEF AddStream
    <3>3. CASE upmap[KeyOf[r]] = NoStream
      BY <2>3, <3>1, <3>3
      DEF TypeOK, AddStream, CloseInv, Closing, EvictCloses, FailCloses
    <3> QED BY <3>2, <3>3
  <2> QED BY <1>1, <2>1, <2>2, <2>3 DEF WatchStep
<1>2. ASSUME NEW r \in Req, CachedSend(r)
      PROVE  CloseInv'
  BY <1>2, QuietCloseInv DEF CachedSend
<1>3. ASSUME NEW s \in Req, UpstreamStep(s)
      PROVE  CloseInv'
  <2>1. CASE \/ Receive(s) \/ ReceiveClosed(s) \/ ReceiveDone(s) \/ FetchFanout(s)
             \/ FetchFanoutStale(s) \/ FanoutStart(s)
             \/ (\E r \in Req : FanoutSend(s, r)) \/ FanoutEnd(s)
    BY <2>1, QuietCloseInv
    DEF TypeOK, Receive, ReceiveClosed, ReceiveDone, Selecting, FetchFanout, Fetched,
        FetchFanoutStale, FanoutStart, FanoutSend, FanoutEnd
  <2>2. CASE CacheResponse(s) \/ FetchFanoutAgain(s) \/ FailFetchAgain(s)
    BY <2>2, QuietCloseInv
    DEF TypeOK, CacheResponse, FetchFanoutAgain, Fetched, FailFetchAgain, SetResponse,
        FetchExpired, FetchLive, Evicting, LockInv
  <2>3. CASE FailFetch(s) \/ FailFetchStale(s) \/ FailWatches(s)
    BY <2>3, QuietCloseInv DEF TypeOK, FailFetch, FailFetchStale, FailWatches
  <2>4. CASE FailNil(s)
    BY <2>4 DEF FailNil, CloseInv
  <2>5. CASE FailClose(s)
    <3>1. CASE upmap[KeyOf[s]] = NoStream
      BY <2>5, <3>1, QuietCloseInv DEF TypeOK, FailClose
    <3>2. CASE upmap[KeyOf[s]] # NoStream
      <4>1. CloseDone(KeyOf[s]) /\ KeyOf[s] \in Key /\ Alive /\ UNCHANGED upmap
        BY <2>5, <3>2 DEF FailClose
      <4>2. /\ panic' = "none" => ~Closing(KeyOf[s]) /\ upmap[KeyOf[s]] \notin done
            /\ upmap[KeyOf[s]] \in done'
            /\ \A j \in Key \ {KeyOf[s]} : upmap[j] \in done' <=> upmap[j] \in done
        BY <3>2, <4>1, CloseDoneCloseInv
      <4> QED BY <2>5, <3>2, <4>1, <4>2
              DEF TypeOK, FailClose, Alive, CloseInv, Closing, EvictCloses, FailCloses
    <3> QED BY <3>1, <3>2
  <2>6. CASE FailDelete(s)
    BY <2>6, UnmapCloseInv
    DEF TypeOK, FailDelete, Alive, CloseInv, Closing, EvictCloses, FailCloses
  <2> QED BY <1>3, <2>1, <2>2, <2>3, <2>4, <2>5, <2>6 DEF UpstreamStep
<1>4. CASE EvictStep
  <2>1. CASE EvictWatches
    BY <2>1, QuietCloseInv DEF EvictWatches
  <2>2. CASE EvictClose
    <3>1. CASE upmap[evKey] = NoStream
      BY <2>2, <3>1, QuietCloseInv DEF EvictClose
    <3>2. CASE upmap[evKey] # NoStream
      <4>1. CloseDone(evKey) /\ evKey \in Key /\ Alive /\ UNCHANGED upmap
        BY <2>2, <3>2 DEF EvictClose, LockInv
      <4>2. /\ panic' = "none" => ~Closing(evKey) /\ upmap[evKey] \notin done
            /\ upmap[evKey] \in done'
            /\ \A j \in Key \ {evKey} : upmap[j] \in done' <=> upmap[j] \in done
        BY <3>2, <4>1, CloseDoneCloseInv
      <4> QED BY <2>2, <3>2, <4>1, <4>2
              DEF EvictClose, Alive, CloseInv, Closing, EvictCloses, FailCloses
    <3> QED BY <3>1, <3>2
  <2>3. CASE EvictDelete
    BY <2>3, UnmapCloseInv
    DEF EvictDelete, LockInv, Alive, CloseInv, Closing, EvictCloses, FailCloses
  <2> QED BY <1>4, <2>1, <2>2, <2>3 DEF EvictStep
<1>5. CASE ShutdownStep
  <2>1. ASSUME NEW k \in Key, ShutdownClose(k)
        PROVE  CloseInv'
    <3>1. CASE upmap[k] = NoStream
      BY <2>1, <3>1, QuietCloseInv DEF ShutdownClose
    <3>2. CASE upmap[k] # NoStream
      <4>1. CloseDone(k) /\ Alive /\ UNCHANGED upmap
        BY <2>1, <3>2 DEF ShutdownClose
      <4>2. /\ panic' = "none" => ~Closing(k) /\ upmap[k] \notin done
            /\ upmap[k] \in done'
            /\ \A j \in Key \ {k} : upmap[j] \in done' <=> upmap[j] \in done
        BY <3>2, <4>1, CloseDoneCloseInv
      <4> QED BY <2>1, <3>2, <4>1, <4>2
              DEF ShutdownClose, Alive, CloseInv, Closing, EvictCloses, FailCloses
    <3> QED BY <3>1, <3>2
  <2>2. CASE ShutdownDelete
    BY <2>2, UnmapCloseInv
    DEF TypeOK, ShutdownDelete, Alive, CloseInv, Closing, EvictCloses, FailCloses
  <2> QED BY <1>5, <2>1, <2>2 DEF ShutdownStep
<1>6. CASE Environment
  <2>1. ASSUME NEW r \in Req, CreateWatch(r) \/ Cancel(r)
        PROVE  CloseInv'
    BY <2>1, QuietCloseInv DEF CreateWatch, Cancel
  <2>2. ASSUME NEW s \in Req, ReceiveAgain(s) \/ StreamCloses(s)
        PROVE  CloseInv'
    BY <2>2, QuietCloseInv DEF TypeOK, ReceiveAgain, Selecting, StreamCloses
  <2>3. ASSUME NEW k \in Key, AdminClear(k) \/ AdminFetch(k) \/ Publish(k)
        PROVE  CloseInv'
    BY <2>3, QuietCloseInv
    DEF AdminClear, AdminFetch, DeleteKey, FetchExpired, Evicting, LockInv, Publish
  <2>4. CASE TimePasses \/ Shutdown
    BY <2>4, QuietCloseInv DEF TimePasses, Expire, Shutdown
  <2> QED BY <1>6, <2>1, <2>2, <2>3, <2>4 DEF Environment
<1>7. CASE UNCHANGED vars
  BY <1>7, QuietCloseInv DEF vars
<1> QED BY <1>1, <1>2, <1>3, <1>4, <1>5, <1>6, <1>7 DEF Next

\* The stream a closer is about to delete has its done closed already.
LEMMA TrackedStep ==
    ASSUME TypeOK, LockInv, StreamInv, CloseInv, StreamTracked, [Next]_vars
    PROVE  StreamTracked'
<1> USE DEF CwAt, WuAt, CbAt, CwGoto, WuGoto, cacheVars, watchVars, streamVars,
            wuVars, sdVars, StreamTracked, Listening
<1>1. ASSUME NEW r \in Req, WatchStep(r)
      PROVE  StreamTracked'
  <2>1. CASE AddStream(r)
    BY <2>1 DEF TypeOK, AddStream
  <2>2. CASE ~AddStream(r)
    BY <1>1, <2>2
    DEF WatchStep, RegisterWatch, FetchCached, FetchCachedStale, FetchCachedAgain,
        OpenStream, UnregisterWatch
  <2> QED BY <2>1, <2>2
<1>2. ASSUME NEW r \in Req, CachedSend(r)
      PROVE  StreamTracked'
  BY <1>2 DEF CachedSend
<1>3. ASSUME NEW s \in Req, UpstreamStep(s)
      PROVE  StreamTracked'
  <2>1. CASE \/ Receive(s) \/ ReceiveClosed(s) \/ ReceiveDone(s) \/ CacheResponse(s)
             \/ FetchFanout(s) \/ FetchFanoutStale(s) \/ FetchFanoutAgain(s)
             \/ FanoutStart(s) \/ (\E r \in Req : FanoutSend(s, r)) \/ FanoutEnd(s)
    BY <2>1
    DEF TypeOK, Receive, ReceiveClosed, ReceiveDone, Selecting, CacheResponse, FetchFanout,
        Fetched, FetchFanoutStale, FetchFanoutAgain, FanoutStart, FanoutSend, FanoutEnd
  <2>2. CASE \/ FailFetch(s) \/ FailFetchStale(s) \/ FailFetchAgain(s) \/ FailNil(s)
             \/ FailWatches(s) \/ FailClose(s)
    BY <2>2
    DEF TypeOK, FailFetch, FailFetchStale, FailFetchAgain, FailNil, FailWatches, FailClose,
        CloseDone
  <2>3. CASE FailDelete(s)
    <3>1. upmap[KeyOf[s]] \in done
      BY <2>3 DEF FailDelete, Alive, CloseInv, Closing, FailCloses
    <3> QED BY <2>3, <3>1 DEF TypeOK, FailDelete, Unmap
  <2> QED BY <1>3, <2>1, <2>2, <2>3 DEF UpstreamStep
<1>4. CASE EvictStep
  <2>1. CASE EvictWatches \/ EvictClose
    BY <2>1 DEF EvictWatches, EvictClose, CloseDone
  <2>2. CASE EvictDelete
    <3>1. evKey \in Key /\ upmap[evKey] \in done
      BY <2>2 DEF EvictDelete, Alive, LockInv, CloseInv, Closing, EvictCloses
    <3> QED BY <2>2, <3>1 DEF TypeOK, EvictDelete, Unmap
  <2> QED BY <1>4, <2>1, <2>2 DEF EvictStep
<1>5. CASE ShutdownStep
  <2>1. CASE \E k \in Key : ShutdownClose(k)
    BY <2>1 DEF ShutdownClose, CloseDone
  <2>2. CASE ShutdownDelete
    <3>1. sdKey \in Key /\ upmap[sdKey] \in done
      BY <2>2 DEF TypeOK, ShutdownDelete, Alive, CloseInv, Closing
    <3>2. upmap' = [upmap EXCEPT ![sdKey] = NoStream]
      BY <2>2 DEF ShutdownDelete, Unmap
    <3>3. UNCHANGED <<done, wu, stream>>
      BY <2>2 DEF ShutdownDelete
    <3>4. upmap \in [Key -> Req \union {NoStream}]
      BY DEF TypeOK
    <3> QED BY ONLY StreamTracked, <3>1, <3>2, <3>3, <3>4 DEF StreamTracked, Listening
  <2> QED BY <1>5, <2>1, <2>2 DEF ShutdownStep
<1>6. CASE Environment
  <2>1. ASSUME NEW r \in Req, CreateWatch(r) \/ Cancel(r)
        PROVE  StreamTracked'
    BY <2>1 DEF CreateWatch, Cancel
  <2>2. ASSUME NEW s \in Req, ReceiveAgain(s) \/ StreamCloses(s)
        PROVE  StreamTracked'
    BY <2>2 DEF TypeOK, ReceiveAgain, Selecting, StreamCloses
  <2>3. ASSUME NEW k \in Key, AdminClear(k) \/ AdminFetch(k) \/ Publish(k)
        PROVE  StreamTracked'
    BY <2>3 DEF AdminClear, AdminFetch, Publish
  <2>4. CASE TimePasses \/ Shutdown
    BY <2>4 DEF TimePasses, Shutdown
  <2> QED BY <1>6, <2>1, <2>2, <2>3, <2>4 DEF Environment
<1>7. CASE UNCHANGED vars
  BY <1>7 DEF vars
<1> QED BY <1>1, <1>2, <1>3, <1>4, <1>5, <1>6, <1>7 DEF Next

LEMMA ShutdownInvStep ==
    ASSUME ShutdownInv, [Next]_vars
    PROVE  ShutdownInv' /\ (down => down')
<1> USE DEF ShutdownInv, sdVars
<1>1. ASSUME NEW r \in Req, WatchStep(r) \/ CachedSend(r)
      PROVE  UNCHANGED sdVars
  BY <1>1 DEF WatchStep, CachedSend, RegisterWatch, FetchCached, FetchCachedStale,
              FetchCachedAgain, OpenStream, AddStream, UnregisterWatch
<1>2. ASSUME NEW s \in Req, UpstreamStep(s)
      PROVE  UNCHANGED sdVars
  BY <1>2 DEF UpstreamStep, Receive, ReceiveClosed, ReceiveDone, CacheResponse,
              FetchFanout, FetchFanoutStale, FetchFanoutAgain, FanoutStart, FanoutSend,
              FanoutEnd, FailFetch, FailFetchStale, FailFetchAgain, FailNil, FailWatches,
              FailClose, FailDelete
<1>3. CASE EvictStep
  BY <1>3 DEF EvictStep, EvictWatches, EvictClose, EvictDelete
<1>4. CASE ShutdownStep
  BY <1>4 DEF ShutdownStep, ShutdownClose, ShutdownDelete
<1>5. CASE Environment
  BY <1>5 DEF Environment, CreateWatch, Cancel, ReceiveAgain, StreamCloses, AdminClear,
              AdminFetch, TimePasses, Publish, Shutdown
<1> QED BY <1>1, <1>2, <1>3, <1>4, <1>5 DEF Next, vars

\* A failed stream stays failed.
LEMMA FailedForStays ==
    ASSUME TypeOK, StreamInv, [Next]_vars, NEW k \in Key, FailedFor(k)
    PROVE  FailedFor(k)'
<1> USE DEF CwAt, WuAt, CbAt, CwGoto, WuGoto, streamVars, wuVars, FailedFor, TypeOK
<1>1. ASSUME NEW r \in Req, WatchStep(r) \/ CachedSend(r)
      PROVE  FailedFor(k)'
  <2>1. CASE AddStream(r)
    <3>1. wu[r] = "none"
      BY <2>1 DEF AddStream, StreamInv
    <3> QED BY <2>1, <3>1 DEF AddStream
  <2>2. CASE OpenStream(r)
    <3>1. wu[r] = "none"
      BY <2>2 DEF OpenStream, StreamInv
    <3> QED BY <2>2, <3>1 DEF OpenStream
  <2>3. CASE ~AddStream(r) /\ ~OpenStream(r)
    BY <1>1, <2>3 DEF WatchStep, CachedSend, RegisterWatch, FetchCached, FetchCachedStale,
                      FetchCachedAgain, UnregisterWatch
  <2> QED BY <2>1, <2>2, <2>3
<1>2. ASSUME NEW s \in Req, UpstreamStep(s)
      PROVE  FailedFor(k)'
  <2> DEFINE Stay == /\ \A q \in Req : wu[q] # "none" => wu'[q] # "none"
                     /\ \A q \in Req : stream[q] = "closed" => stream'[q] = "closed"
  <2>1. CASE Receive(s) \/ ReceiveClosed(s)
    <3> Stay
      BY <2>1 DEF Receive, ReceiveClosed
    <3> QED OBVIOUS
  <2>6. CASE ReceiveDone(s) \/ CacheResponse(s)
    <3> Stay
      BY <2>6 DEF ReceiveDone, CacheResponse
    <3> QED OBVIOUS
  <2>2. CASE FetchFanout(s) \/ FetchFanoutStale(s) \/ FetchFanoutAgain(s)
    <3> Stay
      BY <2>2 DEF FetchFanout, Fetched, FetchFanoutStale, FetchFanoutAgain
    <3> QED OBVIOUS
  <2>3. CASE FanoutStart(s) \/ (\E r \in Req : FanoutSend(s, r)) \/ FanoutEnd(s)
    <3> Stay
      BY <2>3 DEF FanoutStart, FanoutSend, FanoutEnd
    <3> QED OBVIOUS
  <2>4. CASE FailFetch(s) \/ FailFetchStale(s) \/ FailFetchAgain(s) \/ FailNil(s)
    <3> Stay
      BY <2>4 DEF FailFetch, FailFetchStale, FailFetchAgain, FailNil
    <3> QED OBVIOUS
  <2>5. CASE FailWatches(s) \/ FailClose(s) \/ FailDelete(s)
    <3> Stay
      BY <2>5 DEF FailWatches, FailClose, FailDelete
    <3> QED OBVIOUS
  <2> QED BY <1>2, <2>1, <2>2, <2>3, <2>4, <2>5, <2>6 DEF UpstreamStep
<1>3. CASE EvictStep \/ ShutdownStep
  <2>1. CASE EvictStep
    <3> UNCHANGED <<wu, stream>>
      BY <2>1 DEF EvictStep, EvictWatches, EvictClose, EvictDelete
    <3> QED OBVIOUS
  <2>2. CASE ShutdownStep
    <3> UNCHANGED <<wu, stream>>
      BY <2>2 DEF ShutdownStep, ShutdownClose, ShutdownDelete
    <3> QED OBVIOUS
  <2> QED BY <1>3, <2>1, <2>2
<1>4. CASE Environment
  <2>1. ASSUME NEW r \in Req, CreateWatch(r) \/ Cancel(r)
        PROVE  FailedFor(k)'
    BY <2>1 DEF CreateWatch, Cancel
  <2>2. ASSUME NEW s \in Req, ReceiveAgain(s) \/ StreamCloses(s)
        PROVE  FailedFor(k)'
    BY <2>2 DEF ReceiveAgain, StreamCloses
  <2>3. ASSUME NEW j \in Key, AdminClear(j) \/ AdminFetch(j) \/ Publish(j)
        PROVE  FailedFor(k)'
    BY <2>3 DEF AdminClear, AdminFetch, Publish
  <2>4. CASE TimePasses \/ Shutdown
    BY <2>4 DEF TimePasses, Shutdown
  <2> QED BY <1>4, <2>1, <2>2, <2>3, <2>4 DEF Environment
<1>5. CASE UNCHANGED vars
  <2>1. UNCHANGED <<wu, stream>>
    BY ONLY <1>5 DEF vars, streamVars, wuVars
  <2> QED BY <2>1
<1> QED BY <1>1, <1>2, <1>3, <1>4, <1>5 DEF Next

\* While the callback closes the stream of a key no watch waits on that key:
\* the callback closed the registered ones first, and none can register.
LEMMA NobodyWaits ==
    ASSUME WatchInv, NEW r \in Req, Waiting(r), cb \in {"close", "delete"}
    PROVE  KeyOf[r] # evKey
BY DEF WatchInv, LockInv, WatchRegistered, Waiting

\* A step that maps, closes and ends no stream and completes no CreateWatch.
LEMMA QuietFedInv ==
    ASSUME TypeOK, StreamInv, ShutdownInv, FedInv, [Next]_vars, UNCHANGED <<upmap, done>>,
           \A s \in Req : Listening(s) => Listening(s)',
           \A r \in Req : Waiting(r)' => Waiting(r)
    PROVE  FedInv'
<1> SUFFICES ASSUME NEW r \in Req, Waiting(r)', ~FailedFor(KeyOf[r])', ~down'
             PROVE  (LET s == upmap[KeyOf[r]]
                     IN  s # NoStream /\ s \notin done /\ Listening(s))'
  BY DEF FedInv
<1>1. Waiting(r) /\ ~FailedFor(KeyOf[r]) /\ ~down
  BY FailedForStays, ShutdownInvStep
<1>2. upmap[KeyOf[r]] \in Req \union {NoStream}
  BY DEF TypeOK
<1>3. upmap[KeyOf[r]] # NoStream /\ upmap[KeyOf[r]] \notin done /\ Listening(upmap[KeyOf[r]])
  BY <1>1 DEF FedInv
<1> QED BY <1>2, <1>3

LEMMA FedInvStep ==
    ASSUME TypeOK, WatchInv, StreamInv, CloseInv, ShutdownInv, FedInv, [Next]_vars
    PROVE  FedInv'
<1> USE DEF CwAt, WuAt, CbAt, CwGoto, WuGoto, CloseWatches, cacheVars, watchVars,
            streamVars, wuVars, sdVars, TypeOK
<1>1. ASSUME NEW r \in Req, WatchStep(r) \/ CachedSend(r)
      PROVE  FedInv'
  <2>1. CASE \/ RegisterWatch(r) \/ FetchCached(r) \/ FetchCachedStale(r)
             \/ FetchCachedAgain(r) \/ UnregisterWatch(r) \/ CachedSend(r)
    BY <2>1, QuietFedInv
    DEF RegisterWatch, FetchCached, FetchCachedStale, FetchCachedAgain, UnregisterWatch,
        CachedSend, Waiting, Listening
  <2>2. CASE OpenStream(r)
    <3> DEFINE k == KeyOf[r]
               s == upmap[k]
    <3>1. CASE s = NoStream
      BY <2>2, <3>1, QuietFedInv DEF OpenStream, Waiting, Listening
    <3>2. CASE s # NoStream /\ watch[r] # "open"
      BY <2>2, <3>2, QuietFedInv DEF OpenStream, Waiting, Listening
    <3>3. CASE s # NoStream /\ watch[r] = "open"
      <4>1. UNCHANGED <<upmap, done, stream, wu, down>>
        BY <2>2, <3>3 DEF OpenStream
      <4>2. ASSUME ~FailedFor(k), ~down
            PROVE  s \notin done /\ Listening(s)
        <5>1. r \in reqs[k] \/ cb = "watches"
          BY <2>2, <3>3 DEF OpenStream, WatchInv, WatchRegistered
        <5>2. ~EvictCloses(k)
          BY <2>2, <5>1 DEF EvictCloses, WatchInv, LockInv
        <5>3. \A t \in Req : ~FailCloses(t, k)
          BY <4>2 DEF FailCloses, FailedFor, StreamInv
        <5>4. sdKey # k
          BY <4>2 DEF ShutdownInv
        <5>5. s \notin done
          BY <2>2, <5>2, <5>3, <5>4 DEF OpenStream, Alive, CloseInv, Closing
        <5>6. wu[s] # "none" /\ KeyOf[s] = k
          BY <3>3 DEF StreamInv
        <5>7. wu[s] # "exited"
          BY <3>3, <4>2, <5>5, <5>6 DEF StreamInv, FailedFor
        <5> QED BY <5>5, <5>6, <5>7 DEF Listening
      <4>3. \A q \in Req : Waiting(q)' => Waiting(q) \/ q = r
        BY <2>2 DEF OpenStream, Waiting
      <4>4. \A j \in Key : FailedFor(j)' <=> FailedFor(j)
        BY <4>1 DEF FailedFor
      <4> QED BY <3>3, <4>1, <4>2, <4>3, <4>4 DEF FedInv, Listening
    <3> QED BY <3>1, <3>2, <3>3
  <2>3. CASE AddStream(r)
    <3>1. wu[r] = "none" /\ r \notin done
      BY <2>3 DEF AddStream, StreamInv
    <3>2. \A j \in Key : FailedFor(j) => FailedFor(j)'
      BY FailedForStays
    <3>3. \A q \in Req : Waiting(q)' => Waiting(q) \/ (q = r /\ watch[r] = "open")
      BY <2>3 DEF AddStream, Waiting
    <3>4. CASE upmap[KeyOf[r]] = NoStream
      <4>1. /\ upmap' = [upmap EXCEPT ![KeyOf[r]] = r]
            /\ UNCHANGED <<done, down>>
            /\ wu' = [wu EXCEPT ![r] = "select"]
        BY <2>3, <3>4 DEF AddStream
      <4>2. \A q \in Req : KeyOf[q] = KeyOf[r] =>
               upmap'[KeyOf[q]] = r /\ r # NoStream /\ r \notin done' /\ Listening(r)'
        BY <3>1, <4>1 DEF Listening
      <4>3. \A q \in Req : KeyOf[q] # KeyOf[r] => upmap'[KeyOf[q]] = upmap[KeyOf[q]]
        BY <4>1
      <4>4. \A t \in Req : Listening(t) => Listening(t)'
        BY <4>1 DEF Listening
      <4> QED BY <3>2, <3>3, <4>1, <4>2, <4>3, <4>4 DEF FedInv
    <3>5. CASE upmap[KeyOf[r]] # NoStream
      <4> DEFINE k == KeyOf[r]
                 s == upmap[k]
      <4>1. UNCHANGED <<upmap, done, wu, down>>
        BY <2>3, <3>5 DEF AddStream
      <4>2. ASSUME ~FailedFor(k), ~down, watch[r] = "open"
            PROVE  s \notin done /\ Listening(s)
        <5>1. r \in reqs[k] \/ cb = "watches"
          BY <2>3, <4>2 DEF AddStream, WatchInv, WatchRegistered
        <5>2. ~EvictCloses(k)
          BY <2>3, <5>1 DEF EvictCloses, WatchInv, LockInv
        <5>3. \A t \in Req : ~FailCloses(t, k)
          BY <4>2 DEF FailCloses, FailedFor, StreamInv
        <5>4. sdKey # k
          BY <4>2 DEF ShutdownInv
        <5>5. s \notin done
          BY <2>3, <5>2, <5>3, <5>4 DEF AddStream, Alive, CloseInv, Closing
        <5>6. wu[s] # "none" /\ KeyOf[s] = k
          BY <3>5 DEF StreamInv
        <5>7. wu[s] # "exited"
          BY <3>5, <4>2, <5>5, <5>6 DEF StreamInv, FailedFor
        <5> QED BY <5>5, <5>6, <5>7 DEF Listening
      <4> QED BY <3>2, <3>3, <3>5, <4>1, <4>2 DEF FedInv, Listening
    <3> QED BY <3>4, <3>5
  <2> QED BY <1>1, <2>1, <2>2, <2>3 DEF WatchStep
<1>2. ASSUME NEW s \in Req, UpstreamStep(s)
      PROVE  FedInv'
  <2>0. UNCHANGED <<cw, down>> /\ \A q \in Req : watch'[q] = "open" => watch[q] = "open"
    BY <1>2 DEF UpstreamStep, Receive, ReceiveClosed, ReceiveDone, CacheResponse,
              FetchFanout, FetchFanoutStale, FetchFanoutAgain, FanoutStart, FanoutSend,
              FanoutEnd, FailFetch, FailFetchStale, FailFetchAgain, FailNil, FailWatches,
              FailClose, FailDelete
  <2>1. CASE \/ Receive(s) \/ ReceiveClosed(s) \/ CacheResponse(s) \/ FetchFanout(s)
             \/ FetchFanoutStale(s) \/ FetchFanoutAgain(s)
             \/ FanoutStart(s) \/ (\E r \in Req : FanoutSend(s, r)) \/ FanoutEnd(s)
    <3>1. UNCHANGED <<upmap, done>> /\ \A t \in Req : Listening(t) => Listening(t)'
      BY <2>1
      DEF Receive, ReceiveClosed, Selecting, CacheResponse, FetchFanout, Fetched,
          FetchFanoutStale, FetchFanoutAgain, FanoutStart, FanoutSend, FanoutEnd, Listening
    <3> QED BY <2>0, <3>1, QuietFedInv DEF Waiting
  <2>2. CASE ReceiveDone(s)
    <3>1. s \in done /\ UNCHANGED <<upmap, done>>
      BY <2>2 DEF ReceiveDone
    <3>2. \A t \in Req \ {s} : Listening(t) => Listening(t)'
      BY <2>2 DEF ReceiveDone, Listening
    <3>3. \A k \in Key : FailedFor(k) => FailedFor(k)'
      BY FailedForStays
    <3> QED BY <2>0, <3>1, <3>2, <3>3 DEF FedInv, Waiting
  <2>3. CASE \/ FailFetch(s) \/ FailFetchStale(s) \/ FailFetchAgain(s) \/ FailNil(s)
             \/ FailWatches(s) \/ FailClose(s) \/ FailDelete(s)
    <3>1. stream[s] = "closed" /\ wu[s] # "none"
      BY <2>3 DEF FailFetch, FailFetchStale, FailFetchAgain, FailNil, FailWatches,
                  FailClose, FailDelete, StreamInv
    <3>2. FailedFor(KeyOf[s]) /\ \A k \in Key : FailedFor(k) => FailedFor(k)'
      BY <3>1, FailedForStays DEF FailedFor
    <3>3. \A t \in Req \ {s} : Listening(t) => Listening(t)'
      BY <2>3 DEF FailFetch, FailFetchStale, FailFetchAgain, FailNil, FailWatches,
                  FailClose, FailDelete, Listening
    <3>4. \A k \in Key \ {KeyOf[s]} : upmap'[k] = upmap[k]
      BY <2>3 DEF FailFetch, FailFetchStale, FailFetchAgain, FailNil, FailWatches,
                  FailClose, FailDelete, Unmap
    <3>5. \A k \in Key \ {KeyOf[s]} : upmap[k] \in Req => (upmap[k] \in done' => upmap[k] \in done)
      BY <2>3 DEF FailFetch, FailFetchStale, FailFetchAgain, FailNil, FailWatches,
                  FailClose, FailDelete, CloseDone, StreamInv
    <3>6. \A k \in Key \ {KeyOf[s]} : upmap[k] # s
      BY <3>1 DEF StreamInv
    <3> QED BY <2>0, <3>1, <3>2, <3>3, <3>4, <3>5, <3>6 DEF FedInv, Waiting
  <2> QED BY <1>2, <2>1, <2>2, <2>3 DEF UpstreamStep
<1>3. CASE EvictStep
  <2>1. /\ UNCHANGED <<cw, wu, stream, down>>
        /\ \A q \in Req : watch'[q] = "open" => watch[q] = "open"
    BY <1>3 DEF EvictStep, EvictWatches, EvictClose, EvictDelete
  <2>2. CASE EvictWatches
    BY <2>1, <2>2, QuietFedInv DEF EvictWatches, Waiting, Listening
  <2>3. CASE EvictClose \/ EvictDelete
    <3>1. evKey \in Key /\ \A q \in Req : Waiting(q) => KeyOf[q] # evKey
      BY <2>3, NobodyWaits DEF EvictClose, EvictDelete, WatchInv, LockInv
    <3>2. \A k \in Key \ {evKey} :
             upmap'[k] = upmap[k] /\ (upmap[k] \in Req => (upmap[k] \in done' => upmap[k] \in done))
      BY <2>3, <3>1 DEF EvictClose, EvictDelete, CloseDone, Unmap, StreamInv
    <3> QED BY <2>1, <3>1, <3>2 DEF FedInv, Waiting, Listening, FailedFor
  <2> QED BY <1>3, <2>2, <2>3 DEF EvictStep
<1>4. CASE ShutdownStep
  BY <1>4, ShutdownInvStep DEF ShutdownStep, ShutdownClose, ShutdownDelete, ShutdownInv, FedInv
<1>5. CASE Environment
  <2>1. CASE ~Shutdown
    BY <1>5, <2>1, QuietFedInv
    DEF Environment, CreateWatch, Cancel, ReceiveAgain, Selecting, StreamCloses, AdminClear,
        AdminFetch, TimePasses, Publish, Waiting, Listening
  <2>2. CASE Shutdown
    BY <2>2 DEF Shutdown, FedInv
  <2> QED BY <2>1, <2>2
<1>6. CASE UNCHANGED vars
  BY <1>6, QuietFedInv DEF vars, Waiting, Listening
<1> QED BY <1>1, <1>2, <1>3, <1>4, <1>5, <1>6 DEF Next

\* A second close of done needs a second closer, which is never the callback.
LEMMA PanicInvStep ==
    ASSUME TypeOK, LockInv, StreamInv, CloseInv, ShutdownInv, PanicInv, [Next]_vars
    PROVE  PanicInv'
<1> USE DEF CwAt, WuAt, CbAt, TypeOK
<1>1. ASSUME panic' = panic
      PROVE  PanicInv'
  BY <1>1, FailedForStays, ShutdownInvStep DEF PanicInv
<1>2. ASSUME NEW s \in Req, FailNil(s) \/ FailClose(s)
      PROVE  PanicInv'
  <2>1. FailedFor(KeyOf[s])
    BY <1>2 DEF FailNil, FailClose, StreamInv, FailedFor
  <2> QED BY <2>1, FailedForStays DEF PanicInv
<1>3. ASSUME EvictClose, panic' # panic
      PROVE  PanicInv'
  <2>1. evKey \in Key /\ upmap[evKey] \in done /\ cb = "close" /\ Alive
    BY <1>3 DEF EvictClose, CloseDone, LockInv
  <2>2. sdKey = evKey \/ \E s \in Req : FailCloses(s, evKey)
    BY <2>1 DEF Alive, CloseInv, Closing, EvictCloses
  <2>3. down \/ FailedFor(evKey)
    BY <2>1, <2>2 DEF ShutdownInv, FailCloses, StreamInv, FailedFor
  <2> QED BY <2>1, <2>3, FailedForStays, ShutdownInvStep DEF PanicInv
<1>4. ASSUME NEW k \in Key, ShutdownClose(k)
      PROVE  PanicInv'
  BY <1>4, ShutdownInvStep DEF ShutdownClose, ShutdownInv, PanicInv
<1>5. \/ panic' = panic
      \/ \E s \in Req : FailNil(s) \/ FailClose(s)
      \/ EvictClose
      \/ \E k \in Key : ShutdownClose(k)
  <2>1. ASSUME NEW r \in Req, WatchStep(r) \/ CachedSend(r)
        PROVE  panic' = panic
    BY <2>1 DEF WatchStep, CachedSend, RegisterWatch, FetchCached, FetchCachedStale,
                FetchCachedAgain, OpenStream, AddStream, UnregisterWatch
  <2>2. ASSUME NEW s \in Req, UpstreamStep(s), ~FailNil(s), ~FailClose(s)
        PROVE  panic' = panic
    BY <2>2 DEF UpstreamStep, Receive, ReceiveClosed, ReceiveDone, CacheResponse,
                FetchFanout, FetchFanoutStale, FetchFanoutAgain, FanoutStart, FanoutSend,
                FanoutEnd, FailFetch, FailFetchStale, FailFetchAgain, FailWatches, FailDelete
  <2>3. ASSUME EvictStep, ~EvictClose
        PROVE  panic' = panic
    BY <2>3 DEF EvictStep, EvictWatches, EvictDelete
  <2>4. ASSUME ShutdownStep, ~ \E k \in Key : ShutdownClose(k)
        PROVE  panic' = panic
    BY <2>4 DEF ShutdownStep, ShutdownDelete
  <2>5. ASSUME Environment
        PROVE  panic' = panic
    BY <2>5 DEF Environment, CreateWatch, Cancel, ReceiveAgain, StreamCloses, AdminClear,
                AdminFetch, TimePasses, Publish, Shutdown
  <2> QED BY <2>1, <2>2, <2>3, <2>4, <2>5 DEF Next, vars
<1> QED BY <1>1, <1>2, <1>3, <1>4, <1>5

----------------------------------------------------------------------------
\* No response falls between CreateWatch and fanout.

\* An entry that has a response after an operation of the cache has the one it
\* had, with the requests it had, and is not the one that was evicted.
Stays(k) ==
    resp'[k] # NoResp =>
        /\ resp'[k] = resp[k] /\ reqs[k] \subseteq reqs'[k]
        /\ Unlocked' \/ evKey' # k

\* Only a response changes the response of an entry, and only of its own.
LEMMA AddRequestStays ==
    ASSUME CacheTypeOK, NEW k \in Key, NEW r \in Req, NEW t \in Caller, AddRequest(k, r, t)
    PROVE  \A j \in Key : Stays(j)
BY DEF CacheTypeOK, AddRequest, Update, Insert, OnEvicted, Unlocked, Stays

LEMMA SetResponseStays ==
    ASSUME CacheTypeOK, NEW k \in Key, NEW v, NEW t \in Caller, SetResponse(k, v, t)
    PROVE  \A j \in Key \ {k} : Stays(j)
BY DEF CacheTypeOK, SetResponse, Update, Insert, OnEvicted, Unlocked, Stays

LEMMA RemoveStays ==
    ASSUME CacheTypeOK, NEW k \in Key, NEW t \in Caller, Remove(k, t)
    PROVE  \A j \in Key : Stays(j) /\ (j = k => resp'[j] = NoResp)
BY DEF CacheTypeOK, Remove, OnEvicted, Stays

Serving == {"fetch", "stale", "range", "fanout"}
Looked == {"fetched", "opened", "returned"}

\* An operation of the cache that may evict: the fanouts of the entries that stay
\* go on, or a stream is about to fetch the new response.
LEMMA EvictingDelivery ==
    ASSUME TypeOK, DeliveryInv, Evicting, UNCHANGED <<ver, watch, out, csend, fan>>,
           \A s \in Req : wu'[s] \in {"range", "fanout"} => wu'[s] = wu[s],
           \A r \in Req : Owed(r)' => cw[r] \in Looked,
           \A k \in Key :
               \/ /\ Stays(k)
                  /\ resp'[k] # NoResp =>
                         \A s \in Req : KeyOf[s] = k /\ wu[s] \in Serving => wu'[s] = wu[s]
               \/ \E s \in Req : KeyOf[s] = k /\ wu'[s] = "fetch"
    PROVE  DeliveryInv'
<1>1. \A s \in Req : wu'[s] \in {"range", "fanout"} => fan'[s] # NoResp
  BY DEF DeliveryInv
<1>2. ASSUME NEW r \in Req, Owed(r)'
      PROVE  (out[r] # NoResp \/ csend[r] # NoResp \/ \E s \in Req : Delivers(s, r))'
  <2> DEFINE k == KeyOf[r]
  <2>1. k \in Key /\ resp'[k] # NoResp
    BY <1>2, OrchestratorAssumption DEF Owed
  <2>2. CASE \E s \in Req : KeyOf[s] = k /\ wu'[s] = "fetch"
    BY <2>2 DEF Delivers
  <2>3. CASE /\ Stays(k)
             /\ \A s \in Req : KeyOf[s] = k /\ wu[s] \in Serving => wu'[s] = wu[s]
    <3>1. Owed(r)
      BY <1>2, <2>1, <2>3 DEF Owed, Stays, Looked
    <3>2. ASSUME NEW s \in Req, Delivers(s, r) PROVE Delivers(s, r)'
      <4>1. KeyOf[s] = k /\ wu'[s] = wu[s] /\ wu[s] \in Serving
        BY <2>3, <3>2 DEF Delivers, Serving
      <4>2. live'[s] = live[s] /\ todo'[s] = todo[s]
        BY <2>1, <2>3, <4>1 DEF TypeOK, Stays, Evicting
      <4>3. Store(s) \subseteq Store(s)'
        BY <2>1, <2>3, <4>1, <4>2 DEF Store, Stays
      <4> QED BY <3>2, <4>1, <4>2, <4>3 DEF Delivers
    <3> QED BY <3>1, <3>2 DEF DeliveryInv
  <2> QED BY <2>1, <2>2, <2>3
<1> QED BY <1>1, <1>2 DEF DeliveryInv

\* A step that leaves the responses and who is to have them alone.
LEMMA QuietDelivery ==
    ASSUME TypeOK, DeliveryInv, UNCHANGED <<resp, csend>>,
           \A r \in Req : Owed(r)' =>
               /\ Owed(r) /\ (out[r] # NoResp => out'[r] # NoResp)
               /\ \A k \in Key : r \in reqs[k] => r \in reqs'[k],
           \A s \in Req :
               /\ wu[s] \in Serving => wu'[s] = wu[s] /\ live'[s] = live[s] /\ todo'[s] = todo[s]
               /\ wu'[s] \in {"range", "fanout"} => wu'[s] = wu[s] /\ fan'[s] = fan[s]
    PROVE  DeliveryInv'
<1>1. \A s \in Req : wu'[s] \in {"range", "fanout"} => fan'[s] # NoResp
  BY DEF DeliveryInv
<1>2. ASSUME NEW r \in Req, Owed(r)'
      PROVE  (out[r] # NoResp \/ csend[r] # NoResp \/ \E s \in Req : Delivers(s, r))'
  <2>1. ASSUME NEW s \in Req, Delivers(s, r) PROVE Delivers(s, r)'
    BY <1>2, <2>1, OrchestratorAssumption DEF Delivers, Store, Serving
  <2> QED BY <1>2, <2>1 DEF DeliveryInv
<1> QED BY <1>1, <1>2 DEF DeliveryInv

\* A step of one stream that leaves the watches and the cache alone, and goes on
\* serving whom it was to.
LEMMA StreamDelivery ==
    ASSUME TypeOK, DeliveryInv, UNCHANGED <<cacheVars, watchVars>>, NEW s \in Req,
           \A q \in Req \ {s} : /\ wu'[q] = wu[q] /\ fan'[q] = fan[q]
                                /\ live'[q] = live[q] /\ todo'[q] = todo[q],
           wu'[s] \in {"range", "fanout"} => fan'[s] # NoResp,
           \A r \in Req : Owed(r) /\ Delivers(s, r) => Delivers(s, r)'
    PROVE  DeliveryInv'
<1>1. \A q \in Req : wu'[q] \in {"range", "fanout"} => fan'[q] # NoResp
  BY DEF DeliveryInv
<1>2. ASSUME NEW r \in Req, Owed(r)'
      PROVE  (out[r] # NoResp \/ csend[r] # NoResp \/ \E q \in Req : Delivers(q, r))'
  <2>1. Owed(r)
    BY <1>2 DEF Owed, cacheVars, watchVars
  <2>2. ASSUME NEW q \in Req \ {s}, Delivers(q, r) PROVE Delivers(q, r)'
    BY <2>2 DEF Delivers, Store, cacheVars
  <2> QED BY <2>1, <2>2 DEF DeliveryInv, watchVars
<1> QED BY <1>1, <1>2 DEF DeliveryInv

\* Every watch that is owed a response is in the entry while cacheMu is free.
LEMMA OwedIsStored ==
    ASSUME WatchInv, Unlocked, NEW r \in Req, Owed(r)
    PROVE  r \in reqs[KeyOf[r]]
BY DEF WatchInv, LockInv, WatchRegistered, Owed

\* CreateWatch looks at the entry: what it owes, it is about to send.
LEMMA LookedDelivery ==
    ASSUME TypeOK, DeliveryInv, NEW r \in Req, SpawnCachedSend(r), CwGoto(r, "fetched"),
           UNCHANGED <<cacheVars, ver, watch, out, wu, fan, live, todo>>
    PROVE  DeliveryInv'
<1>1. \A s \in Req : wu'[s] \in {"range", "fanout"} => fan'[s] # NoResp
  BY DEF DeliveryInv
<1>2. ASSUME Owed(r)' PROVE csend'[r] # NoResp
  BY <1>2 DEF TypeOK, Owed, SpawnCachedSend, cacheVars
<1>3. ASSUME NEW q \in Req \ {r}, Owed(q)'
      PROVE  (out[q] # NoResp \/ csend[q] # NoResp \/ \E s \in Req : Delivers(s, q))'
  <2>1. Owed(q) /\ csend'[q] = csend[q]
    BY <1>3 DEF TypeOK, Owed, SpawnCachedSend, CwGoto, cacheVars
  <2>2. \A s \in Req : Delivers(s, q) => Delivers(s, q)'
    BY DEF Delivers, Store, cacheVars
  <2> QED BY <2>1, <2>2 DEF DeliveryInv
<1> QED BY <1>1, <1>2, <1>3 DEF DeliveryInv

\* What was sent is not owed.
LEMMA SentDelivery ==
    ASSUME TypeOK, DeliveryInv, NEW r \in Req, NEW v, v # NoResp, Send(r, v),
           UNCHANGED <<cacheVars, cw, ver, watch, wu, fan, live>>,
           \A q \in Req \ {r} : /\ csend'[q] = csend[q]
                                /\ \A s \in Req : q \in todo[s] => q \in todo'[s]
    PROVE  DeliveryInv'
<1>1. \A s \in Req : wu'[s] \in {"range", "fanout"} => fan'[s] # NoResp
  BY DEF DeliveryInv
<1>2. ASSUME Owed(r)' PROVE out'[r] # NoResp
  BY <1>2 DEF TypeOK, Owed, Send
<1>3. ASSUME NEW q \in Req \ {r}, Owed(q)'
      PROVE  (out[q] # NoResp \/ csend[q] # NoResp \/ \E s \in Req : Delivers(s, q))'
  <2>1. Owed(q) /\ csend'[q] = csend[q] /\ out'[q] = out[q]
    BY <1>3 DEF TypeOK, Owed, Send, cacheVars
  <2>2. \A s \in Req : Delivers(s, q) => Delivers(s, q)'
    BY DEF Delivers, Store, cacheVars
  <2> QED BY <2>1, <2>2 DEF DeliveryInv
<1> QED BY <1>1, <1>2, <1>3 DEF DeliveryInv

LEMMA DeliveryStep ==
    ASSUME TypeOK, WatchInv, StreamInv, DeliveryInv, [Next]_vars
    PROVE  DeliveryInv'
<1> USE OrchestratorAssumption
    DEF CwAt, WuAt, CbAt, CwGoto, WuGoto, watchVars, streamVars, wuVars, sdVars
<1>1. ASSUME NEW r \in Req, WatchStep(r)
      PROVE  DeliveryInv'
  <2>1. CASE RegisterWatch(r)
    <3>1. \A j \in Key : Stays(j)
      BY <2>1, AddRequestStays, CallerType DEF RegisterWatch, TypeOK
    <3> QED BY <2>1, <3>1, EvictingDelivery DEF RegisterWatch, TypeOK, Owed, Looked
  <2>2. CASE FetchCached(r)
    BY <2>2, LookedDelivery DEF FetchCached
  <2>3. CASE FetchCachedStale(r) \/ OpenStream(r)
    <3>1. UNCHANGED <<resp, reqs, csend, out, wu, live, todo, fan>>
      BY <2>3 DEF FetchCachedStale, OpenStream, cacheVars
    <3>2. \A q \in Req : Owed(q)' => Owed(q)
      BY <2>3 DEF FetchCachedStale, OpenStream, TypeOK, Owed, cacheVars
    <3> QED BY <3>1, <3>2, QuietDelivery
  <2>4. CASE AddStream(r)
    <3>1. wu[r] = "none"
      BY <2>4 DEF AddStream, StreamInv
    <3>2. UNCHANGED <<resp, reqs, csend, out, live, todo, fan>>
      BY <2>4 DEF AddStream, cacheVars
    <3>3. \A q \in Req : Owed(q)' => Owed(q)
      BY <2>4 DEF AddStream, TypeOK, Owed, cacheVars
    <3> QED BY <2>4, <3>1, <3>2, <3>3, QuietDelivery DEF AddStream, TypeOK, Serving
  <2>5. CASE FetchCachedAgain(r) /\ FetchExpired(KeyOf[r], Watcher(r)) /\ UNCHANGED csend
    <3>1. \A j \in Key : Stays(j) /\ (j = KeyOf[r] => resp'[j] = NoResp)
      BY <2>5, RemoveStays, CallerType DEF FetchExpired, TypeOK
    <3> QED BY <2>5, <3>1, EvictingDelivery DEF FetchCachedAgain, TypeOK, Owed, Looked
  <2>6. CASE FetchCachedAgain(r) /\ FetchLive(KeyOf[r]) /\ SpawnCachedSend(r) /\ UNCHANGED cacheVars
    <3>1. Unlocked /\ Unlocked'
      BY <2>6 DEF FetchLive, Unlocked, cacheVars
    <3>2. UNCHANGED <<live, todo>>
      BY <2>6, <3>1 DEF FetchCachedAgain, Evicting, TypeOK
    <3> QED BY <2>6, <3>2, LookedDelivery DEF FetchCachedAgain
  <2>7. CASE UnregisterWatch(r)
    <3>1. resp' = resp /\ \A q \in Req \ {r}, k \in Key : q \in reqs[k] => q \in reqs'[k]
      BY <2>7 DEF UnregisterWatch, DeleteRequest, Update, cacheVars, TypeOK, CacheTypeOK
    <3>2. \A q \in Req : Owed(q)' => Owed(q) /\ q # r
      BY <2>7, <3>1 DEF UnregisterWatch, TypeOK, Owed
    <3> QED BY <2>7, <3>1, <3>2, QuietDelivery DEF UnregisterWatch
  <2> QED BY <1>1, <2>1, <2>2, <2>3, <2>4, <2>5, <2>6, <2>7 DEF WatchStep, FetchCachedAgain
<1>2. ASSUME NEW r \in Req, CachedSend(r)
      PROVE  DeliveryInv'
  BY <1>2, SentDelivery DEF CachedSend, TypeOK
<1>3. ASSUME NEW s \in Req, UpstreamStep(s)
      PROVE  DeliveryInv'
  <2> DEFINE others == \A q \in Req \ {s} : /\ wu'[q] = wu[q] /\ fan'[q] = fan[q]
                                            /\ live'[q] = live[q] /\ todo'[q] = todo[q]
  <2>1. CASE \/ Receive(s) \/ ReceiveClosed(s) \/ ReceiveDone(s)
             \/ FailFetch(s) \/ FailFetchStale(s) \/ FailNil(s) \/ FailClose(s) \/ FailDelete(s)
    <3>1. others /\ UNCHANGED <<cacheVars, watchVars>>
      BY <2>1 DEF TypeOK, Receive, ReceiveClosed, ReceiveDone, FailFetch, FailFetchStale,
                  FailNil, FailClose, FailDelete
    <3>2. wu[s] \notin Serving /\ wu'[s] \notin Serving
      BY <2>1 DEF TypeOK, Receive, ReceiveClosed, ReceiveDone, FailFetch, FailFetchStale,
                  FailNil, FailClose, FailDelete, Selecting, Serving
    <3> QED BY <3>1, <3>2, StreamDelivery DEF Delivers, Serving
  <2>2. CASE FailWatches(s)
    <3>1. \A q \in Req : Owed(q)' => Owed(q)
      BY <2>2 DEF FailWatches, CloseWatches, Owed, cacheVars
    <3> QED BY <2>2, <3>1, QuietDelivery DEF FailWatches, TypeOK, cacheVars, Serving
  <2>3. CASE CacheResponse(s)
    <3>1. \A j \in Key \ {KeyOf[s]} : Stays(j)
      BY <2>3, SetResponseStays, CallerType DEF CacheResponse, TypeOK
    <3>2. wu'[s] = "fetch" /\ \A q \in Req \ {s} : wu'[q] = wu[q]
      BY <2>3 DEF CacheResponse, TypeOK
    <3> QED BY <2>3, <3>1, <3>2, EvictingDelivery DEF CacheResponse, Owed, Looked
  <2>4. ASSUME UNCHANGED <<cacheVars, watchVars, todo>>, FetchLive(KeyOf[s]), Fetched(s),
               live' = [live EXCEPT ![s] = resp[KeyOf[s]] # NoResp]
        PROVE  DeliveryInv'
    <3>1. others /\ (wu'[s] \in {"range", "fanout"} => fan'[s] # NoResp)
      BY <2>4 DEF Fetched, TypeOK
    <3>2. ASSUME NEW r \in Req, Owed(r), Delivers(s, r) PROVE Delivers(s, r)'
      <4>1. r \in reqs[KeyOf[s]] /\ resp[KeyOf[s]] # NoResp /\ KeyOf[s] = KeyOf[r]
        BY <2>4, <3>2, OwedIsStored DEF FetchLive, Delivers, Owed
      <4>2. wu'[s] = "range" /\ live'[s]
        BY <2>4, <4>1 DEF Fetched, TypeOK
      <4> QED BY <2>4, <4>1, <4>2 DEF Delivers, Store, cacheVars
    <3> QED BY <2>4, <3>1, <3>2, StreamDelivery
  <2>5. CASE FetchFanout(s)
    BY <2>4, <2>5 DEF FetchFanout
  <2>6. CASE FetchFanoutStale(s)
    <3>1. others /\ wu'[s] = "stale" /\ UNCHANGED <<cacheVars, watchVars>>
      BY <2>6 DEF FetchFanoutStale, TypeOK
    <3> QED BY <3>1, StreamDelivery DEF Delivers
  <2>7. ASSUME FetchExpired(KeyOf[s], Upstream(s)), Evicting, UNCHANGED <<watchVars, fan>>,
               \E pc \in {"select", "failNil"} : WuGoto(s, pc)
        PROVE  DeliveryInv'
    <3>1. \A j \in Key : Stays(j) /\ (j = KeyOf[s] => resp'[j] = NoResp)
      BY <2>7, RemoveStays, CallerType DEF FetchExpired, TypeOK
    <3>2. wu'[s] \notin {"range", "fanout"} /\ \A q \in Req \ {s} : wu'[q] = wu[q]
      BY <2>7 DEF TypeOK
    <3> QED BY <2>7, <3>1, <3>2, EvictingDelivery DEF Owed, Looked
  <2>8. CASE FetchFanoutAgain(s)
    BY <2>4, <2>7, <2>8 DEF FetchFanoutAgain
  <2>9. CASE FanoutStart(s)
    <3>1. others /\ wu'[s] = "fanout" /\ todo'[s] = Store(s) /\ UNCHANGED <<cacheVars, watchVars>>
      BY <2>9 DEF FanoutStart, TypeOK
    <3>2. wu[s] = "range" /\ fan'[s] # NoResp
      BY <2>9 DEF FanoutStart, DeliveryInv
    <3> QED BY <3>1, <3>2, StreamDelivery DEF Delivers
  <2>10. ASSUME NEW r \in Req, FanoutSend(s, r) PROVE DeliveryInv'
    <3>1. fan[s] # NoResp
      BY <2>10 DEF FanoutSend, DeliveryInv
    <3> QED BY <2>10, <3>1, SentDelivery DEF FanoutSend, TypeOK
  <2>11. CASE FanoutEnd(s)
    <3>1. others /\ wu'[s] = "select" /\ UNCHANGED <<cacheVars, watchVars>>
      BY <2>11 DEF FanoutEnd, TypeOK
    <3>2. \A r \in Req : ~Delivers(s, r)
      BY <2>11 DEF FanoutEnd, Delivers
    <3> QED BY <3>1, <3>2, StreamDelivery
  <2>12. CASE FailFetchAgain(s)
    <3>1. CASE FetchExpired(KeyOf[s], Upstream(s)) /\ Evicting /\ WuGoto(s, "failNil")
      BY <2>7, <2>12, <3>1 DEF FailFetchAgain
    <3>2. CASE /\ live' = [live EXCEPT ![s] = KeyOf[s] \in cached]
               /\ UNCHANGED <<cacheVars, todo, cb>>
      <4>1. others /\ UNCHANGED <<cacheVars, watchVars>>
        BY <2>12, <3>2 DEF FailFetchAgain, TypeOK
      <4>2. wu[s] \notin Serving /\ wu'[s] \notin Serving
        BY <2>12 DEF FailFetchAgain, TypeOK, Serving
      <4> QED BY <4>1, <4>2, StreamDelivery DEF Delivers, Serving
    <3> QED BY <2>12, <3>1, <3>2 DEF FailFetchAgain
  <2> QED BY <1>3, <2>1, <2>2, <2>3, <2>5, <2>6, <2>8, <2>9, <2>10, <2>11, <2>12 DEF UpstreamStep
<1>4. CASE EvictStep \/ ShutdownStep
  <2>1. UNCHANGED <<resp, reqs, cw, ver, out, csend, wuVars>>
    BY <1>4 DEF EvictStep, EvictWatches, EvictClose, EvictDelete, EvictReturn,
                ShutdownStep, ShutdownClose, ShutdownDelete, cacheVars
  <2>2. \A q \in Req : watch'[q] = "open" => watch[q] = "open"
    BY <1>4 DEF EvictStep, EvictWatches, EvictClose, EvictDelete, CloseWatches,
                ShutdownStep, ShutdownClose, ShutdownDelete
  <2> QED BY <2>1, <2>2, QuietDelivery DEF Owed
<1>5. ASSUME NEW r \in Req,
             CreateWatch(r) \/ Cancel(r) \/ ReceiveAgain(r) \/ StreamCloses(r)
      PROVE  DeliveryInv'
  <2>1. UNCHANGED <<resp, reqs, out, csend, fan, live, todo>>
    BY <1>5 DEF CreateWatch, Cancel, ReceiveAgain, StreamCloses, cacheVars
  <2>2. \A q \in Req : Owed(q)' => Owed(q)
    BY <1>5 DEF CreateWatch, Cancel, CloseWatches, ReceiveAgain, StreamCloses, cacheVars, TypeOK, Owed
  <2>3. \A q \in Req : wu'[q] = wu[q] \/ (wu[q] = "select" /\ wu'[q] = "set")
    BY <1>5 DEF CreateWatch, Cancel, ReceiveAgain, StreamCloses, Selecting, TypeOK
  <2> QED BY <2>1, <2>2, <2>3, QuietDelivery DEF Serving
<1>6. ASSUME NEW k \in Key, AdminClear(k) \/ AdminFetch(k)
      PROVE  DeliveryInv'
  <2>1. \A j \in Key : Stays(j)
    BY <1>6, RemoveStays, CallerType DEF AdminClear, AdminFetch, DeleteKey, FetchExpired, TypeOK
  <2> QED BY <1>6, <2>1, EvictingDelivery DEF AdminClear, AdminFetch, Owed, Looked
<1>7. ASSUME UNCHANGED <<resp, reqs, watchVars, wuVars>> PROVE DeliveryInv'
  BY <1>7, QuietDelivery DEF Owed
<1>8. CASE TimePasses \/ Shutdown \/ (\E k \in Key : Publish(k)) \/ UNCHANGED vars
  BY <1>7, <1>8 DEF TimePasses, Expire, Shutdown, Publish, vars, cacheVars
<1> QED BY <1>1, <1>2, <1>3, <1>4, <1>5, <1>6, <1>8 DEF Next, Environment

----------------------------------------------------------------------------
\* Who is in a store, and which versions are on their way.

\* An operation of the cache moves requests from an entry to its callback at most.
Moves ==
    /\ \A k \in Key : reqs'[k] \subseteq reqs[k] /\ resp'[k] \in {resp[k], NoResp}
    /\ \/ UNCHANGED <<evKey, evReqs>>
       \/ evKey' \in Key /\ evReqs' = reqs[evKey']

\* AddRequest adds its request, and SetResponse its response.
LEMMA AddRequestMoves ==
    ASSUME CacheTypeOK, NEW k \in Key, NEW r \in Req, NEW t \in Caller, AddRequest(k, r, t)
    PROVE  /\ \A j \in Key : /\ \A q \in reqs'[j] : q \in reqs[j] \/ (j = k /\ q = r)
                             /\ resp'[j] \in {resp[j], NoResp}
           /\ UNCHANGED <<evKey, evReqs>> \/ (evKey' \in Key /\ evReqs' = reqs[evKey'])
BY DEF CacheTypeOK, AddRequest, Update, Insert, OnEvicted

LEMMA SetResponseMoves ==
    ASSUME CacheTypeOK, NEW k \in Key, NEW v, NEW t \in Caller, SetResponse(k, v, t)
    PROVE  /\ \A j \in Key : /\ reqs'[j] \subseteq reqs[j]
                             /\ resp'[j] \in {resp[j], NoResp} \/ (j = k /\ resp'[j] = v)
           /\ UNCHANGED <<evKey, evReqs>> \/ (evKey' \in Key /\ evReqs' = reqs[evKey'])
BY DEF CacheTypeOK, SetResponse, Update, Insert, OnEvicted

LEMMA RemoveMoves ==
    ASSUME CacheTypeOK, NEW k \in Key, NEW t \in Caller, Remove(k, t)
    PROVE  Moves
BY DEF CacheTypeOK, Remove, OnEvicted, Moves

LEMMA DeleteRequestMoves ==
    ASSUME CacheTypeOK, NEW k \in Key, NEW r \in Req, DeleteRequest(k, r)
    PROVE  Moves
BY DEF CacheTypeOK, DeleteRequest, Update, cacheVars, Moves

Unregistered == {"idle", "rejected", "created"}

\* A step that registers at most the request it puts into an entry.
LEMMA KeepsStore ==
    ASSUME TypeOK, StoreInv,
           \A r \in Req : cw[r] \notin Unregistered => cw'[r] \notin Unregistered,
           \A k \in Key : \A r \in reqs'[k] : r \in reqs[k] \/ Registered(r, k)',
           \/ UNCHANGED <<evKey, evReqs>>
           \/ evKey' \in Key /\ evReqs' = reqs[evKey']
           \/ evReqs' = {},
           \A s \in Req : \/ todo'[s] \subseteq todo[s] \union reqs[KeyOf[s]]
                          \/ todo'[s] = evReqs' /\ evKey' = KeyOf[s]
    PROVE  StoreInv'
<1>1. \A r \in Req, k \in Key : Registered(r, k) => Registered(r, k)'
  BY DEF Registered, Unregistered
<1>2. \A k \in Key : \A r \in reqs'[k] : Registered(r, k)'
  BY <1>1 DEF StoreInv, TypeOK, CacheTypeOK
<1>3. \A r \in evReqs' : Registered(r, evKey)'
  <2>1. CASE UNCHANGED <<evKey, evReqs>>
    BY <2>1 DEF StoreInv, TypeOK, CacheTypeOK, Registered, Unregistered
  <2>2. CASE evKey' \in Key /\ evReqs' = reqs[evKey']
    BY <2>2 DEF StoreInv, TypeOK, CacheTypeOK, Registered, Unregistered
  <2> QED BY <2>1, <2>2
<1>4. ASSUME NEW s \in Req, NEW r \in todo'[s] PROVE Registered(r, KeyOf[s])'
  <2>1. CASE r \in todo[s] \/ r \in reqs[KeyOf[s]]
    BY <1>1, <2>1 DEF StoreInv, TypeOK, CacheTypeOK
  <2>2. CASE r \in evReqs' /\ evKey' = KeyOf[s]
    BY <1>3, <2>2
  <2> QED BY <1>4, <2>1, <2>2
<1> QED BY <1>2, <1>3, <1>4 DEF StoreInv

LEMMA MovesStore ==
    ASSUME TypeOK, StoreInv, Moves, Evicting \/ UNCHANGED todo,
           \A r \in Req : cw[r] \notin Unregistered => cw'[r] \notin Unregistered
    PROVE  StoreInv'
BY KeepsStore DEF Moves, Evicting, TypeOK

LEMMA QuietStore ==
    ASSUME TypeOK, StoreInv, UNCHANGED <<reqs, evKey, evReqs>>,
           \A s \in Req : todo'[s] \subseteq todo[s] \union reqs[KeyOf[s]],
           \A r \in Req : cw[r] \notin Unregistered => cw'[r] \notin Unregistered
    PROVE  StoreInv'
BY KeepsStore

LEMMA StoreStep ==
    ASSUME TypeOK, StoreInv, [Next]_vars
    PROVE  StoreInv'
<1> USE DEF CwAt, WuAt, CbAt, CwGoto, WuGoto, cacheVars, watchVars, wuVars, Unregistered
<1>1. ASSUME NEW r \in Req, WatchStep(r)
      PROVE  StoreInv'
  <2>1. CASE RegisterWatch(r)
    <3>1. \A k \in Key : \A q \in reqs'[k] : q \in reqs[k] \/ (k = KeyOf[r] /\ q = r)
      BY <2>1, AddRequestMoves, CallerType DEF RegisterWatch, TypeOK
    <3>2. UNCHANGED <<evKey, evReqs>> \/ (evKey' \in Key /\ evReqs' = reqs[evKey'])
      BY <2>1, AddRequestMoves, CallerType DEF RegisterWatch, TypeOK
    <3>3. cw'[r] = "registered" /\ \A q \in Req \ {r} : cw'[q] = cw[q]
      BY <2>1 DEF RegisterWatch, TypeOK
    <3>4. \A k \in Key : \A q \in reqs'[k] : q \in reqs[k] \/ Registered(q, k)'
      BY <3>1, <3>3 DEF Registered
    <3>5. \A s \in Req : todo'[s] = todo[s] \/ (todo'[s] = evReqs' /\ evKey' = KeyOf[s])
      BY <2>1 DEF RegisterWatch, Evicting, TypeOK
    <3> QED BY <3>2, <3>3, <3>4, <3>5, KeepsStore
  <2>2. CASE FetchCached(r) \/ FetchCachedStale(r) \/ OpenStream(r) \/ AddStream(r)
    BY <2>2, QuietStore DEF FetchCached, FetchCachedStale, OpenStream, AddStream, TypeOK
  <2>3. CASE FetchCachedAgain(r)
    <3>1. Moves
      BY <2>3, RemoveMoves, CallerType DEF FetchCachedAgain, FetchExpired, Moves, TypeOK
    <3> QED BY <2>3, <3>1, MovesStore DEF FetchCachedAgain, TypeOK
  <2>4. CASE UnregisterWatch(r)
    <3>1. Moves
      BY <2>4, DeleteRequestMoves DEF UnregisterWatch, TypeOK
    <3> QED BY <2>4, <3>1, MovesStore DEF UnregisterWatch, TypeOK
  <2> QED BY <1>1, <2>1, <2>2, <2>3, <2>4 DEF WatchStep
<1>2. ASSUME NEW r \in Req, CachedSend(r)
      PROVE  StoreInv'
  BY <1>2, QuietStore DEF CachedSend
<1>3. ASSUME NEW s \in Req, UpstreamStep(s)
      PROVE  StoreInv'
  <2>1. CASE \/ Receive(s) \/ ReceiveClosed(s) \/ ReceiveDone(s) \/ FetchFanout(s)
             \/ FetchFanoutStale(s) \/ FanoutEnd(s) \/ FailFetch(s) \/ FailFetchStale(s)
             \/ FailNil(s) \/ FailClose(s) \/ FailDelete(s)
    BY <2>1, QuietStore
    DEF Receive, ReceiveClosed, ReceiveDone, FetchFanout, FetchFanoutStale, FanoutEnd,
        FailFetch, FailFetchStale, FailNil, FailClose, FailDelete
  <2>2. CASE FanoutStart(s) \/ (\E r \in Req : FanoutSend(s, r)) \/ FailWatches(s)
    <3>1. \A q \in Req : todo'[q] \subseteq todo[q] \union reqs[KeyOf[q]]
      BY <2>2 DEF FanoutStart, FanoutSend, FailWatches, Store, TypeOK
    <3> QED BY <2>2, <3>1, QuietStore DEF FanoutStart, FanoutSend, FailWatches
  <2>3. CASE CacheResponse(s)
    <3>1. /\ \A k \in Key : reqs'[k] \subseteq reqs[k]
          /\ UNCHANGED <<evKey, evReqs>> \/ (evKey' \in Key /\ evReqs' = reqs[evKey'])
      BY <2>3, SetResponseMoves, CallerType DEF CacheResponse, TypeOK
    <3>2. \A q \in Req : todo'[q] = todo[q] \/ (todo'[q] = evReqs' /\ evKey' = KeyOf[q])
      BY <2>3 DEF CacheResponse, Evicting, TypeOK
    <3> QED BY <2>3, <3>1, <3>2, KeepsStore DEF CacheResponse
  <2>4. CASE FetchFanoutAgain(s) \/ FailFetchAgain(s)
    <3>1. Moves
      BY <2>4, RemoveMoves, CallerType
      DEF FetchFanoutAgain, FailFetchAgain, FetchExpired, Moves, TypeOK
    <3> QED BY <2>4, <3>1, MovesStore DEF FetchFanoutAgain, FailFetchAgain
  <2> QED BY <1>3, <2>1, <2>2, <2>3, <2>4 DEF UpstreamStep
<1>4. CASE EvictStep \/ ShutdownStep
  <2>1. UNCHANGED <<reqs, cw, todo>> /\ (UNCHANGED <<evKey, evReqs>> \/ evReqs' = {})
    BY <1>4 DEF EvictStep, EvictWatches, EvictClose, EvictDelete, EvictReturn,
                ShutdownStep, ShutdownClose, ShutdownDelete
  <2> QED BY <2>1, KeepsStore
<1>5. ASSUME NEW r \in Req,
             CreateWatch(r) \/ Cancel(r) \/ ReceiveAgain(r) \/ StreamCloses(r)
      PROVE  StoreInv'
  BY <1>5, QuietStore DEF CreateWatch, Cancel, ReceiveAgain, StreamCloses, TypeOK
<1>6. ASSUME NEW k \in Key, AdminClear(k) \/ AdminFetch(k)
      PROVE  StoreInv'
  <2>1. Moves
    BY <1>6, RemoveMoves, CallerType DEF AdminClear, AdminFetch, DeleteKey, FetchExpired, TypeOK
  <2> QED BY <1>6, <2>1, MovesStore DEF AdminClear, AdminFetch
<1>7. CASE TimePasses \/ Shutdown \/ (\E k \in Key : Publish(k)) \/ UNCHANGED vars
  BY <1>7, QuietStore DEF TimePasses, Expire, Shutdown, Publish, vars
<1> QED BY <1>1, <1>2, <1>3, <1>4, <1>5, <1>6, <1>7 DEF Next, Environment

\* An operation of the cache that may evict: a failed stream that loses its store has
\* what the callback has.
LEMMA EvictingStale ==
    ASSUME TypeOK, LockInv, StaleInv, Unlocked, Evicting, watch' = watch,
           \A s \in Req : wu'[s] = "failWatches" => wu[s] = "failWatches"
    PROVE  StaleInv'
BY DEF TypeOK, LockInv, StaleInv, Evicting

LEMMA QuietStale ==
    ASSUME TypeOK, StoreInv, StaleInv,
           UNCHANGED <<cb, evKey, evReqs>> \/ cb # "watches",
           \A s \in Req : wu'[s] = "failWatches" /\ ~live'[s] =>
               wu[s] = "failWatches" /\ live'[s] = live[s] /\ todo'[s] = todo[s],
           \A r \in Req : watch'[r] = "open" => watch[r] = "open" \/ cw[r] = "idle"
    PROVE  StaleInv'
<1> SUFFICES ASSUME NEW s \in Req, (wu[s] = "failWatches" /\ ~live[s])'
             PROVE  \/ cb = "watches" /\ UNCHANGED <<cb, evKey, evReqs>>
                       /\ evKey = KeyOf[s] /\ evReqs = todo'[s]
                    \/ \A r \in todo'[s] : watch'[r] # "open"
  BY DEF StaleInv
<1>1. todo'[s] = todo[s] /\ \A r \in todo[s] : cw[r] # "idle" /\ r \in Req
  BY DEF TypeOK, StoreInv, Registered
<1> QED BY <1>1 DEF StaleInv

LEMMA StaleStep ==
    ASSUME TypeOK, LockInv, StoreInv, StaleInv, [Next]_vars
    PROVE  StaleInv'
<1> USE DEF CwAt, WuAt, CbAt, CwGoto, WuGoto, cacheVars, watchVars, wuVars
<1>1. ASSUME NEW r \in Req, WatchStep(r)
      PROVE  StaleInv'
  <2>1. CASE RegisterWatch(r) \/ FetchCachedAgain(r)
    BY <2>1, EvictingStale
    DEF RegisterWatch, AddRequest, FetchCachedAgain, FetchExpired, FetchLive
  <2>2. CASE \/ FetchCached(r) \/ FetchCachedStale(r) \/ OpenStream(r)
    BY <2>2, QuietStale DEF FetchCached, FetchCachedStale, OpenStream
  <2>3. CASE AddStream(r)
    BY <2>3, QuietStale DEF AddStream, TypeOK
  <2>4. CASE UnregisterWatch(r)
    BY <2>4, QuietStale DEF UnregisterWatch, DeleteRequest, Update
  <2> QED BY <1>1, <2>1, <2>2, <2>3, <2>4 DEF WatchStep
<1>2. ASSUME NEW r \in Req, CachedSend(r)
      PROVE  StaleInv'
  BY <1>2, QuietStale DEF CachedSend
<1>3. ASSUME NEW s \in Req, UpstreamStep(s)
      PROVE  StaleInv'
  <2>1. CASE \/ Receive(s) \/ ReceiveClosed(s) \/ ReceiveDone(s) \/ FetchFanout(s)
             \/ FetchFanoutStale(s) \/ FanoutStart(s) \/ (\E r \in Req : FanoutSend(s, r))
             \/ FanoutEnd(s)
    BY <2>1, QuietStale
    DEF TypeOK, Receive, ReceiveClosed, ReceiveDone, Selecting, FetchFanout, Fetched,
        FetchFanoutStale, FanoutStart, FanoutSend, FanoutEnd
  <2>2. CASE FailFetch(s) \/ FailFetchStale(s) \/ FailNil(s) \/ FailClose(s) \/ FailDelete(s)
    BY <2>2, QuietStale DEF TypeOK, FailFetch, FailFetchStale, FailNil, FailClose, FailDelete
  <2>3. CASE FailWatches(s)
    BY <2>3, QuietStale DEF TypeOK, FailWatches, CloseWatches
  <2>4. ASSUME UNCHANGED watchVars, FetchExpired(KeyOf[s], Upstream(s)), Evicting,
               \E pc \in {"select", "failNil"} : WuGoto(s, pc)
        PROVE  StaleInv'
    BY <2>4, EvictingStale DEF FetchExpired, TypeOK
  <2>5. CASE CacheResponse(s)
    BY <2>5, EvictingStale DEF CacheResponse, SetResponse, TypeOK
  <2>6. ASSUME UNCHANGED <<cacheVars, watchVars, todo, cb>>,
               \A q \in Req \ {s} : wu'[q] = wu[q] /\ live'[q] = live[q],
               wu'[s] = "failWatches" => live'[s]
        PROVE  StaleInv'
    BY <2>6, QuietStale
  <2>7. CASE FetchFanoutAgain(s) \/ FailFetchAgain(s)
    BY <2>4, <2>6, <2>7 DEF FetchFanoutAgain, FailFetchAgain, Fetched, TypeOK
  <2> QED BY <1>3, <2>1, <2>2, <2>3, <2>5, <2>7 DEF UpstreamStep
<1>4. CASE EvictStep
  <2>1. CASE EvictWatches
    BY <2>1 DEF EvictWatches, CloseWatches, StaleInv, TypeOK
  <2>2. CASE EvictClose \/ EvictDelete
    BY <2>2, QuietStale DEF EvictClose, EvictDelete, EvictReturn
  <2> QED BY <1>4, <2>1, <2>2 DEF EvictStep
<1>5. CASE ShutdownStep
  BY <1>5, QuietStale DEF ShutdownStep, ShutdownClose, ShutdownDelete
<1>6. ASSUME NEW r \in Req,
             CreateWatch(r) \/ Cancel(r) \/ ReceiveAgain(r) \/ StreamCloses(r)
      PROVE  StaleInv'
  BY <1>6, QuietStale DEF CreateWatch, Cancel, CloseWatches, ReceiveAgain, StreamCloses, TypeOK
<1>7. ASSUME NEW k \in Key, AdminClear(k) \/ AdminFetch(k)
      PROVE  StaleInv'
  BY <1>7, EvictingStale DEF AdminClear, AdminFetch, DeleteKey, FetchExpired
<1>8. CASE TimePasses \/ Shutdown \/ (\E k \in Key : Publish(k)) \/ UNCHANGED vars
  BY <1>8, QuietStale DEF TimePasses, Expire, Shutdown, Publish, vars
<1> QED BY <1>1, <1>2, <1>3, <1>4, <1>5, <1>6, <1>7, <1>8 DEF Next, Environment

\* A watch is closed by its client, or because it is in a store.
LEMMA MadeStep ==
    ASSUME TypeOK, StoreInv, MadeInv, [Next]_vars
    PROVE  MadeInv'
<1> SUFFICES ASSUME NEW q \in Req, cw'[q] = "created"
             PROVE  watch'[q] = "open"
  BY DEF MadeInv
<1> USE DEF CwAt, WuAt, CbAt, CwGoto, WuGoto, CloseWatches, watchVars, TypeOK, MadeInv
<1>1. ASSUME NEW r \in Req, WatchStep(r) \/ CachedSend(r)
      PROVE  watch'[q] = "open"
  BY <1>1 DEF WatchStep, RegisterWatch, FetchCached, FetchCachedStale, FetchCachedAgain,
              OpenStream, AddStream, UnregisterWatch, CachedSend
<1>2. ASSUME NEW s \in Req, UpstreamStep(s) PROVE watch'[q] = "open"
  <2>1. CASE FailWatches(s)
    BY <2>1 DEF FailWatches, Store, StoreInv, Registered
  <2> QED BY <1>2, <2>1
          DEF UpstreamStep, Receive, ReceiveClosed, ReceiveDone, CacheResponse, FetchFanout,
              FetchFanoutStale, FetchFanoutAgain, FanoutStart, FanoutSend, FanoutEnd, FailFetch,
              FailFetchStale, FailFetchAgain, FailNil, FailClose, FailDelete
<1>3. CASE EvictStep
  BY <1>3 DEF EvictStep, EvictWatches, EvictClose, EvictDelete, StoreInv, Registered
<1>4. CASE ShutdownStep
  BY <1>4 DEF ShutdownStep, ShutdownClose, ShutdownDelete
<1>5. CASE Environment
  BY <1>5 DEF Environment, CreateWatch, Cancel, ReceiveAgain, StreamCloses, AdminClear,
              AdminFetch, Publish, TimePasses, Shutdown
<1>6. CASE UNCHANGED vars
  BY <1>6 DEF vars
<1> QED BY <1>1, <1>2, <1>3, <1>4, <1>5, <1>6 DEF Next

\* A version is where it was, or comes from where one hands it on.
LEMMA KeepsVersions ==
    ASSUME TypeOK, TypeOK', StoreInv, VersionInv,
           \A k \in Key : /\ origin[k] <= origin'[k]
                          /\ \/ resp'[k] \in {resp[k], NoResp}
                             \/ \E s \in Req : KeyOf[s] = k /\ resp'[k] = x[s],
           \A s \in Req :
               /\ x'[s] = x[s] \/ (x'[s] # NoResp /\ x'[s] <= origin[KeyOf[s]])
               /\ fan'[s] \in {fan[s], NoResp, resp[KeyOf[s]]}
               /\ wu'[s] = "set" => wu[s] = "set" \/ x'[s] # NoResp,
           \A r \in Req :
               /\ csend'[r] \in {csend[r], NoResp, resp[KeyOf[r]]}
               /\ \/ out'[r] \in {out[r], csend[r]}
                  \/ \E s \in Req : KeyOf[s] = KeyOf[r] /\ out'[r] = fan[s]
    PROVE  VersionInv'
<1> DEFINE Values == Version \union {NoResp}
<1>1. \A k \in Key : {origin[k], origin'[k], resp[k], resp'[k]} \subseteq Nat
  BY DEF TypeOK, CacheTypeOK
<1>2. \A s \in Req : {x[s], x'[s], fan[s], fan'[s], csend[s], csend'[s], out[s], out'[s]} \subseteq Nat
  BY DEF TypeOK
<1>3. \A s \in Req : KeyOf[s] \in Key
  OBVIOUS
<1>4. \A k \in Key : resp'[k] <= origin'[k]
  BY <1>1, <1>2 DEF VersionInv
<1>5. \A s \in Req :
          x'[s] <= origin'[KeyOf[s]] /\ fan'[s] <= origin'[KeyOf[s]]
          /\ (wu'[s] = "set" => x'[s] # NoResp)
  BY <1>1, <1>2, <1>3 DEF VersionInv
<1>6. \A r \in Req : csend'[r] <= origin'[KeyOf[r]] /\ out'[r] <= origin'[KeyOf[r]]
  BY <1>1, <1>2, <1>3 DEF VersionInv
<1> QED BY <1>4, <1>5, <1>6 DEF VersionInv

LEMMA VersionStep ==
    ASSUME TypeOK, TypeOK', StoreInv, VersionInv, [Next]_vars
    PROVE  VersionInv'
<1> USE DEF CwAt, WuAt, CbAt, CwGoto, WuGoto, cacheVars, watchVars, wuVars
<1>0. \A k \in Key : origin[k] \in Nat
  BY DEF TypeOK
<1>1. ASSUME NEW r \in Req, WatchStep(r)
      PROVE  VersionInv'
  <2>1. UNCHANGED <<origin, x, fan, out>>
    BY <1>1 DEF WatchStep, RegisterWatch, FetchCached, FetchCachedStale, FetchCachedAgain,
                OpenStream, AddStream, UnregisterWatch
  <2>2. \A s \in Req : wu'[s] = "set" => wu[s] = "set"
    BY <1>1 DEF WatchStep, RegisterWatch, FetchCached, FetchCachedStale, FetchCachedAgain,
                OpenStream, AddStream, UnregisterWatch, TypeOK
  <2>3. \A k \in Key : resp'[k] \in {resp[k], NoResp}
    <3>1. CASE RegisterWatch(r)
      BY <3>1, AddRequestMoves, CallerType DEF RegisterWatch, TypeOK
    <3>2. CASE FetchCachedAgain(r)
      BY <3>2, RemoveMoves, CallerType DEF FetchCachedAgain, FetchExpired, Moves, TypeOK
    <3>3. CASE UnregisterWatch(r)
      BY <3>3, DeleteRequestMoves DEF UnregisterWatch, Moves, TypeOK
    <3> QED BY <1>1, <3>1, <3>2, <3>3
            DEF WatchStep, FetchCached, FetchCachedStale, OpenStream, AddStream
  <2>4. \A q \in Req : csend'[q] \in {csend[q], NoResp, resp[KeyOf[q]]}
    BY <1>1 DEF WatchStep, RegisterWatch, FetchCached, FetchCachedStale, FetchCachedAgain,
                OpenStream, AddStream, UnregisterWatch, SpawnCachedSend, TypeOK
  <2> QED BY <1>0, <2>1, <2>2, <2>3, <2>4, KeepsVersions
<1>2. ASSUME NEW r \in Req, CachedSend(r)
      PROVE  VersionInv'
  <2>1. \A q \in Req : csend'[q] \in {csend[q], NoResp} /\ out'[q] \in {out[q], csend[q]}
    BY <1>2 DEF CachedSend, Send, TypeOK
  <2> QED BY <1>0, <1>2, <2>1, KeepsVersions DEF CachedSend
<1>3. ASSUME NEW s \in Req, UpstreamStep(s)
      PROVE  VersionInv'
  <2>1. CASE Receive(s)
    <3>1. UNCHANGED <<resp, origin, csend, out, fan>>
      BY <2>1 DEF Receive
    <3>2. x'[s] # NoResp /\ x'[s] <= origin[KeyOf[s]] /\ \A q \in Req \ {s} : x'[q] = x[q] /\ wu'[q] = wu[q]
      BY <2>1 DEF Receive, TypeOK
    <3> QED BY <1>0, <3>1, <3>2, KeepsVersions
  <2>2. CASE CacheResponse(s)
    <3>1. \A k \in Key : resp'[k] \in {resp[k], NoResp} \/ (k = KeyOf[s] /\ resp'[k] = x[s])
      BY <2>2, SetResponseMoves, CallerType DEF CacheResponse, TypeOK
    <3> QED BY <1>0, <2>2, <3>1, KeepsVersions DEF CacheResponse, TypeOK
  <2>3. CASE FetchFanout(s) \/ FetchFanoutAgain(s) \/ FailFetchAgain(s)
    <3>1. \A k \in Key : resp'[k] \in {resp[k], NoResp}
      BY <2>3, RemoveMoves, CallerType
      DEF FetchFanout, FetchFanoutAgain, FailFetchAgain, FetchExpired, Moves, TypeOK
    <3>2. \A q \in Req : fan'[q] \in {fan[q], resp[KeyOf[q]]} /\ (wu'[q] = "set" => wu[q] = "set")
      BY <2>3 DEF FetchFanout, FetchFanoutAgain, FailFetchAgain, Fetched, TypeOK
    <3>3. UNCHANGED <<origin, x, csend, out>>
      BY <2>3 DEF FetchFanout, FetchFanoutAgain, FailFetchAgain
    <3> QED BY <1>0, <3>1, <3>2, <3>3, KeepsVersions
  <2>4. ASSUME NEW r \in Req, FanoutSend(s, r)
        PROVE  VersionInv'
    <3>1. KeyOf[s] = KeyOf[r]
      BY <2>4 DEF FanoutSend, StoreInv, Registered
    <3>2. \A q \in Req \ {r} : out'[q] = out[q]
      BY <2>4 DEF FanoutSend, Send, TypeOK
    <3>3. out'[r] \in {out[r], fan[s]}
      BY <2>4 DEF FanoutSend, Send, TypeOK
    <3> QED BY <1>0, <2>4, <3>1, <3>2, <3>3, KeepsVersions DEF FanoutSend
  <2>5. CASE \/ ReceiveClosed(s) \/ ReceiveDone(s) \/ FetchFanoutStale(s) \/ FanoutStart(s)
             \/ FanoutEnd(s) \/ FailFetch(s) \/ FailFetchStale(s) \/ FailNil(s)
             \/ FailWatches(s) \/ FailClose(s) \/ FailDelete(s)
    <3>1. UNCHANGED <<resp, origin, x, csend, out>> /\ \A q \in Req : fan'[q] \in {fan[q], NoResp}
      BY <2>5 DEF ReceiveClosed, ReceiveDone, FetchFanoutStale, FanoutStart, FanoutEnd,
                  FailFetch, FailFetchStale, FailNil, FailWatches, FailClose, FailDelete, TypeOK
    <3>2. \A q \in Req : wu'[q] = "set" => wu[q] = "set"
      BY <2>5 DEF ReceiveClosed, ReceiveDone, FetchFanoutStale, FanoutStart, FanoutEnd,
                  FailFetch, FailFetchStale, FailNil, FailWatches, FailClose, FailDelete, TypeOK
    <3> QED BY <1>0, <3>1, <3>2, KeepsVersions
  <2> QED BY <1>3, <2>1, <2>2, <2>3, <2>4, <2>5 DEF UpstreamStep
<1>4. ASSUME UNCHANGED <<resp, csend, out, wuVars>>, \A k \in Key : origin[k] <= origin'[k]
      PROVE  VersionInv'
  BY <1>4, KeepsVersions
<1>5. CASE EvictStep \/ ShutdownStep
  BY <1>0, <1>4, <1>5 DEF EvictStep, EvictWatches, EvictClose, EvictDelete, EvictReturn,
                    ShutdownStep, ShutdownClose, ShutdownDelete
<1>6. ASSUME NEW r \in Req, CreateWatch(r) \/ Cancel(r) \/ StreamCloses(r)
      PROVE  VersionInv'
  BY <1>0, <1>4, <1>6 DEF CreateWatch, Cancel, StreamCloses
<1>7. ASSUME NEW s \in Req, ReceiveAgain(s) PROVE VersionInv'
  BY <1>0, <1>7, KeepsVersions DEF ReceiveAgain, TypeOK
<1>8. ASSUME NEW k \in Key, AdminClear(k) \/ AdminFetch(k)
      PROVE  VersionInv'
  <2>1. \A j \in Key : resp'[j] \in {resp[j], NoResp}
    BY <1>8, RemoveMoves, CallerType DEF AdminClear, AdminFetch, DeleteKey, FetchExpired, Moves, TypeOK
  <2> QED BY <1>0, <1>8, <2>1, KeepsVersions DEF AdminClear, AdminFetch
<1>9. CASE TimePasses \/ Shutdown \/ (\E k \in Key : Publish(k)) \/ UNCHANGED vars
  <2>1. \A k \in Key : origin[k] <= origin'[k]
    BY <1>0, <1>9 DEF TimePasses, Shutdown, Publish, TypeOK, vars
  <2> QED BY <1>4, <1>9, <2>1 DEF TimePasses, Expire, Shutdown, Publish, vars
<1> QED BY <1>1, <1>2, <1>3, <1>5, <1>6, <1>7, <1>8, <1>9 DEF Next, Environment

----------------------------------------------------------------------------
\* The theorems.

LEMMA InitIInv == Init => IInv
<1> SUFFICES ASSUME Init PROVE IInv
  OBVIOUS
<1> USE DEF Init, CacheInit
<1>1. TypeOK
  <2>1. CacheTypeOK
    BY DEF CacheTypeOK
  <2>2. 0 \in 0..Nack
    OBVIOUS
  <2> QED BY <2>1, <2>2 DEF TypeOK, CwState, WuState
<1>2. LockInv /\ OpenInv /\ WatchRegistered
  BY DEF LockInv, OpenInv, WatchRegistered, Unlocked
<1>3. StreamInv /\ StreamTracked /\ ShutdownInv
  BY DEF StreamInv, StreamTracked, ShutdownInv, Listening
<1>4. CloseInv
  <2> SUFFICES ASSUME NEW k \in Key
               PROVE  /\ upmap[k] \notin done /\ ~Closing(k) /\ ~EvictCloses(k)
                      /\ \A s \in Req : ~FailCloses(s, k)
    BY DEF CloseInv
  <2> QED BY DEF Closing, EvictCloses, FailCloses
<1>5. FedInv /\ PanicInv
  BY DEF FedInv, PanicInv, Waiting
<1>6. DeliveryInv
  BY DEF DeliveryInv, Owed
<1>7. StoreInv /\ MadeInv /\ StaleInv /\ VersionInv
  BY DEF StoreInv, MadeInv, StaleInv, VersionInv
<1> QED BY <1>1, <1>2, <1>3, <1>4, <1>5, <1>6, <1>7 DEF IInv

LEMMA StepIInv == IInv /\ [Next]_vars => IInv'
BY TypeStep, WatchInvStep, StreamInvStep, CloseInvStep, TrackedStep, ShutdownInvStep,
   FedInvStep, PanicInvStep, DeliveryStep, StoreStep, MadeStep, StaleStep, VersionStep
DEF IInv, WatchInv

\* The inductive invariant holds of every behaviour of the orchestrator.
THEOREM Invariance == Spec => []IInv
BY InitIInv, StepIInv, PTL DEF Spec

\* Types: in particular no map or store ever holds a stream or request that does
\* not exist, and close is never called on a channel that is not there.
THEOREM TypeCorrect == Spec => []TypeOK
<1>1. IInv => TypeOK
  BY DEF IInv
<1> QED BY <1>1, Invariance, PTL

\* CreateWatch against eviction: every open registered watch is in the store of
\* its key, or is about to be closed.
THEOREM WatchesRegistered == Spec => []WatchRegistered
<1>1. IInv => WatchRegistered
  BY DEF IInv
<1> QED BY <1>1, Invariance, PTL

\* One live watchUpstream per aggregated key, which is the mapped one.
THEOREM StreamsTracked == Spec => []StreamTracked
<1>1. IInv => StreamTracked
  BY DEF IInv
<1> QED BY <1>1, Invariance, PTL

\* Every open watch CreateWatch has returned has a stream that is listened to,
\* unless a stream of its key failed or the process stops.
THEOREM WatchesFed == Spec => []WatchFed
<1>1. ASSUME NEW k \in Key, FailedFor(k)
      PROVE  Failed(k)
  BY <1>1 DEF FailedFor, Failed
<1>2. IInv => WatchFed
  BY <1>1 DEF IInv, FedInv, WatchFed
<1> QED BY <1>2, Invariance, PTL

\* Without a failed stream and without a shutdown the process does not crash.
THEOREM NoPanicWithoutFailure == Spec => []PanicNeedsFailure
<1>1. ASSUME NEW k \in Key, FailedFor(k)
      PROVE  Failed(k)
  BY <1>1 DEF FailedFor, Failed
<1>2. IInv => PanicNeedsFailure
  BY <1>1 DEF IInv, PanicInv, PanicNeedsFailure
<1> QED BY <1>2, Invariance, PTL

\* CreateWatch against fanout: once the streams of its key are idle and its cached
\* send is over, a watch whose client lacks the cached version was sent something.
THEOREM NothingMissed == Spec => []NoMissedResponse
<1>1. ASSUME IInv, NEW r \in Req,
             Waiting(r), csend[r] = NoResp,
             \A s \in Req : KeyOf[s] = KeyOf[r] => wu[s] \in {"none", "select", "exited"},
             resp[KeyOf[r]] # NoResp, ver[r] \notin {resp[KeyOf[r]], Nack}
      PROVE  out[r] # NoResp
  <2>1. Owed(r)
    BY <1>1 DEF Waiting, Owed
  <2>2. \A s \in Req : ~Delivers(s, r)
    BY <1>1 DEF Delivers
  <2> QED BY <1>1, <2>1, <2>2 DEF IInv, DeliveryInv
<1>2. IInv => NoMissedResponse
  BY <1>1 DEF NoMissedResponse
<1> QED BY <1>2, Invariance, PTL

\* Fanout against eviction: a client is sent what was published for its own key,
\* whichever stores the streams of the keys hold.
THEOREM OwnResponses == Spec => []OwnResponsesOnly
<1>1. ASSUME IInv, NEW s \in Req, NEW r \in Store(s)
      PROVE  KeyOf[r] = KeyOf[s]
  BY <1>1 DEF IInv, StoreInv, Store, Registered
<1>2. IInv => OwnResponsesOnly
  BY <1>1 DEF IInv, VersionInv, OwnResponsesOnly
<1> QED BY <1>2, Invariance, PTL

----------------------------------------------------------------------------
(***************************************************************************)
(* Orchestrator implements Relay, which AdminServer is proved on: whatever *)
(* its goroutines do, the cache and the watches change in one of the ways  *)
(* Relay has, and in no other.                                             *)
(*                                                                         *)
(* A step of Orchestrator is a step of Relay when it calls the cache or    *)
(* makes, closes or unregisters a watch, and stutters otherwise.  What     *)
(* needs the inductive invariant is that the watches a step closes are     *)
(* those Relay closes: registered ones (StoreInv), of the callback         *)
(* (StaleInv), and for a request of which the watch is still open          *)
(* (MadeInv).                                                              *)
(***************************************************************************)

\* FiniteSets is the same for both modules.
LEMMA SameCardinality == \A S : Abs!Cardinality(S) = Cardinality(S)
BY DEF Abs!Cardinality, Cardinality

\* cacheMu is free for the one when it is for the other.
LEMMA UnlockedRefines == Abs!Unlocked <=> Unlocked
BY CallerType DEF Abs!Unlocked, Unlocked

LEMMA UnlockedRefinesNext == Abs!Unlocked' <=> Unlocked'
BY UnlockedRefines, PTL

----------------------------------------------------------------------------
\* The operations of the cache.

\* Which caller evicts is not told.
LEMMA OnEvictedRefines ==
    ASSUME NEW k \in Key, NEW t \in Caller, OnEvicted(k, t)
    PROVE  Abs!OnEvicted(k, Admin)
BY DEF OnEvicted, Abs!OnEvicted, Unlocked

LEMMA UpdateRefines ==
    ASSUME NEW k, NEW v, NEW R, NEW old, Update(k, v, R, old)
    PROVE  Abs!Update(k, v, R, old)
BY DEF Update, Abs!Update, Unlocked

LEMMA InsertRefines ==
    ASSUME CacheTypeOK, NEW k \in Key, NEW v, NEW R, NEW t \in Caller, Insert(k, v, R, t)
    PROVE  Abs!Insert(k, v, R, Admin)
<1>1. Abs!Full <=> Full
  BY SameCardinality DEF Full, Abs!Full
<1>2. CASE ~Full
  BY <1>1, <1>2 DEF Insert, Abs!Insert, Unlocked
<1>3. CASE Full
  <2>1. PICK old \in cached :
           /\ cached' = (cached \ {old}) \union {k}
           /\ resp' = [resp EXCEPT ![old] = 0, ![k] = v]
           /\ reqs' = [reqs EXCEPT ![old] = {}, ![k] = R]
           /\ expired' = expired \ {old}
           /\ OnEvicted(old, t)
    BY <1>3 DEF Insert
  <2>2. Abs!OnEvicted(old, Admin)
    BY <2>1, OnEvictedRefines DEF CacheTypeOK
  <2>3. k \notin cached
    BY DEF Insert
  <2> QED BY <1>1, <1>3, <2>1, <2>2, <2>3 DEF Abs!Insert, Abs!NoResp
<1> QED BY <1>2, <1>3

LEMMA RemoveRefines ==
    ASSUME NEW k \in Key, NEW t \in Caller, Remove(k, t)
    PROVE  Abs!Remove(k, Admin)
BY OnEvictedRefines DEF Remove, Abs!Remove, Abs!NoResp

LEMMA CacheUnchangedRefines ==
    ASSUME UNCHANGED cacheVars PROVE UNCHANGED Abs!cacheVars
BY DEF cacheVars, Abs!cacheVars, Unlocked

LEMMA AddRequestRefines ==
    ASSUME CacheTypeOK, NEW k \in Key, NEW r \in Req, NEW t \in Caller, AddRequest(k, r, t)
    PROVE  Abs!AddRequest(k, r, Admin)
BY UnlockedRefines, UpdateRefines, InsertRefines DEF AddRequest, Abs!AddRequest, Abs!NoResp

LEMMA SetResponseRefines ==
    ASSUME CacheTypeOK, NEW k \in Key, NEW v, NEW t \in Caller, SetResponse(k, v, t)
    PROVE  Abs!SetResponse(k, v, Admin)
BY UnlockedRefines, UpdateRefines, InsertRefines DEF SetResponse, Abs!SetResponse

LEMMA DeleteRequestRefines ==
    ASSUME NEW k \in Key, NEW r \in Req, DeleteRequest(k, r)
    PROVE  Abs!DeleteRequest(k, r)
BY UnlockedRefines, UpdateRefines, CacheUnchangedRefines DEF DeleteRequest, Abs!DeleteRequest

LEMMA DeleteKeyRefines ==
    ASSUME NEW k \in Key, NEW t \in Caller, DeleteKey(k, t)
    PROVE  Abs!DeleteKey(k, Admin)
BY UnlockedRefines, RemoveRefines DEF DeleteKey, Abs!DeleteKey

LEMMA FetchExpiredRefines ==
    ASSUME NEW k \in Key, NEW t \in Caller, FetchExpired(k, t)
    PROVE  Abs!FetchExpired(k, Admin)
BY UnlockedRefines, RemoveRefines DEF FetchExpired, Abs!FetchExpired

LEMMA EvictReturnRefines ==
    ASSUME EvictReturn PROVE Abs!EvictReturn
BY DEF EvictReturn, Abs!EvictReturn, Unlocked

\* The callback runs when an operation has evicted.
LEMMA EvictingRefines ==
    ASSUME LockInv, Unlocked, Evicting PROVE Abs!Evicting
<1>1. cb = "none"
  BY DEF LockInv
<1>2. (cb' = "watches") <=> ~Unlocked'
  BY <1>1 DEF Evicting
<1> QED BY <1>1, <1>2, UnlockedRefinesNext DEF Abs!Evicting

----------------------------------------------------------------------------
\* The watches.

\* Goroutines that move while the watches stay.
LEMMA SameWatches ==
    ASSUME \A r \in Req : /\ (watch'[r] = "open") <=> (watch[r] = "open")
                          /\ cw'[r] = cw[r] \/ (cw[r] \notin Unregistered /\ cw'[r] \notin Unregistered)
    PROVE  WatchMap' = WatchMap
BY DEF WatchMap, Unregistered

\* One watch changes.
LEMMA OneWatch ==
    ASSUME NEW r \in Req, \A q \in Req \ {r} : cw'[q] = cw[q] /\ watch'[q] = watch[q]
    PROVE  WatchMap' = [WatchMap EXCEPT ![r] = WatchMap'[r]]
BY DEF WatchMap

\* Registered watches are closed.
LEMMA CloseRefines ==
    ASSUME TypeOK, NEW R \in SUBSET Req, \A r \in R : cw[r] \notin Unregistered,
           CloseWatches(R), UNCHANGED cw
    PROVE  Abs!CloseWatches(R)
<1>1. \A r \in Req : r \in R \intersect Abs!Open <=> r \in R /\ watch[r] = "open"
  BY DEF Abs!Open, WatchMap, Unregistered
<1>2. \A r \in Req : WatchMap'[r] = IF r \in R /\ watch[r] = "open" THEN "closed" ELSE WatchMap[r]
  BY DEF WatchMap, CloseWatches, Unregistered
<1>3. WatchMap' = [r \in Req |-> WatchMap'[r]]
  BY DEF WatchMap
<1> QED BY <1>1, <1>2, <1>3 DEF Abs!CloseWatches

----------------------------------------------------------------------------
\* The steps.

Stutters == UNCHANGED Abs!relayVars

LEMMA QuietRefines ==
    ASSUME UNCHANGED cacheVars, (cb' = "watches") <=> (cb = "watches"), WatchMap' = WatchMap
    PROVE  Stutters
BY CacheUnchangedRefines DEF Stutters, Abs!relayVars

\* Fetch of an expired entry, whoever looks.
LEMMA ExpelRefines ==
    ASSUME LockInv, NEW k \in Key, NEW t \in Caller, FetchExpired(k, t), Evicting,
           WatchMap' = WatchMap
    PROVE  Abs!Expel(k)
BY FetchExpiredRefines, EvictingRefines DEF Abs!Expel, FetchExpired

LEMMA InitRefines == Init => Abs!RelayInit
<1> SUFFICES ASSUME Init PROVE Abs!RelayInit
  OBVIOUS
<1>1. Abs!CacheInit
  BY DEF Init, CacheInit, Abs!CacheInit, Unlocked, Abs!NoResp
<1>2. WatchMap = [r \in Req |-> "none"]
  BY DEF Init, WatchMap
<1>3. (cb = "watches") = FALSE
  BY DEF Init
<1> QED BY <1>1, <1>2, <1>3 DEF Abs!RelayInit

LEMMA StepRefines == IInv /\ [Next]_vars => [Abs!RelayStep]_(Abs!relayVars)
<1> SUFFICES ASSUME IInv, [Next]_vars
             PROVE  Abs!RelayStep \/ Stutters
  BY DEF Stutters
<1>0. TypeOK /\ CacheTypeOK /\ LockInv
  BY DEF IInv, TypeOK
<1> USE DEF CwAt, WuAt, CbAt, CwGoto, WuGoto, watchVars, wuVars, TypeOK
<1>1. ASSUME NEW r \in Req, WatchStep(r)
      PROVE  Abs!RelayStep \/ Stutters
  <2>1. CASE RegisterWatch(r)
    <3>1. Abs!AddRequest(KeyOf[r], r, Admin)
      BY <1>0, <2>1, AddRequestRefines, CallerType DEF RegisterWatch
    <3>2. Abs!Evicting
      BY <1>0, <2>1, EvictingRefines DEF RegisterWatch, AddRequest
    <3>3. cw[r] = "created" /\ cw'[r] = "registered" /\ watch'[r] = "open"
      BY <1>0, <2>1 DEF RegisterWatch, IInv, MadeInv
    <3>4. WatchMap[r] = "made" /\ WatchMap'[r] = "open"
      BY <3>3 DEF WatchMap
    <3>5. WatchMap' = [WatchMap EXCEPT ![r] = "open"]
      BY <1>0, <2>1, <3>4, OneWatch DEF RegisterWatch
    <3> QED BY <3>1, <3>2, <3>4, <3>5 DEF Abs!RegisterWatch, Abs!WatchGoto, Abs!RelayStep
  <2>2. CASE FetchCached(r) \/ FetchCachedStale(r) \/ OpenStream(r) \/ AddStream(r)
    <3>1. WatchMap' = WatchMap
      BY <1>0, <2>2, SameWatches
      DEF FetchCached, FetchCachedStale, OpenStream, AddStream, Unregistered
    <3> QED BY <2>2, <3>1, QuietRefines DEF FetchCached, FetchCachedStale, OpenStream, AddStream
  <2>3. CASE FetchCachedAgain(r)
    <3>1. WatchMap' = WatchMap
      BY <1>0, <2>3, SameWatches DEF FetchCachedAgain, Unregistered
    <3>2. CASE FetchExpired(KeyOf[r], Watcher(r))
      <4>1. Abs!Expel(KeyOf[r])
        BY <1>0, <2>3, <3>1, <3>2, ExpelRefines, CallerType DEF FetchCachedAgain
      <4> QED BY <4>1 DEF Abs!RelayStep
    <3>3. CASE FetchLive(KeyOf[r]) /\ UNCHANGED cacheVars
      <4>1. cb' = cb
        BY <2>3, <3>3 DEF FetchCachedAgain, Evicting, FetchLive, Unlocked, cacheVars
      <4> QED BY <3>1, <3>3, <4>1, QuietRefines
    <3> QED BY <2>3, <3>2, <3>3 DEF FetchCachedAgain
  <2>4. CASE UnregisterWatch(r)
    <3>1. WatchMap' = WatchMap
      BY <1>0, <2>4, SameWatches DEF UnregisterWatch, Unregistered
    <3>2. WatchMap[r] = "closed"
      BY <2>4 DEF UnregisterWatch, WatchMap, IInv, OpenInv
    <3>3. Abs!DeleteRequest(KeyOf[r], r)
      BY <2>4, DeleteRequestRefines DEF UnregisterWatch
    <3>4. Abs!UnregisterWatch(r)
      BY <2>4, <3>1, <3>2, <3>3 DEF Abs!UnregisterWatch, UnregisterWatch
    <3> QED BY <3>4 DEF Abs!RelayStep
  <2> QED BY <1>1, <2>1, <2>2, <2>3, <2>4 DEF WatchStep
<1>2. ASSUME NEW r \in Req, CachedSend(r)
      PROVE  Abs!RelayStep \/ Stutters
  BY <1>2, SameWatches, QuietRefines DEF CachedSend
<1>3. ASSUME NEW s \in Req, UpstreamStep(s)
      PROVE  Abs!RelayStep \/ Stutters
  <2>1. CASE \/ Receive(s) \/ ReceiveClosed(s) \/ ReceiveDone(s) \/ FetchFanout(s)
             \/ FetchFanoutStale(s) \/ FanoutStart(s) \/ (\E r \in Req : FanoutSend(s, r))
             \/ FanoutEnd(s) \/ FailFetch(s) \/ FailFetchStale(s) \/ FailNil(s)
             \/ FailClose(s) \/ FailDelete(s)
    <3>1. UNCHANGED <<cacheVars, cw, watch, cb>>
      BY <2>1
      DEF Receive, ReceiveClosed, ReceiveDone, FetchFanout, FetchFanoutStale, FanoutStart,
          FanoutSend, FanoutEnd, FailFetch, FailFetchStale, FailNil, FailClose, FailDelete
    <3> QED BY <3>1, SameWatches, QuietRefines
  <2>2. CASE CacheResponse(s)
    <3>1. x[s] \in Version
      BY <1>0, <2>2 DEF CacheResponse, IInv, VersionInv
    <3>2. Abs!SetResponse(KeyOf[s], x[s], Admin)
      BY <1>0, <2>2, SetResponseRefines, CallerType DEF CacheResponse
    <3>3. Abs!Evicting
      BY <1>0, <2>2, EvictingRefines DEF CacheResponse, SetResponse
    <3>4. WatchMap' = WatchMap
      BY <2>2, SameWatches DEF CacheResponse
    <3>5. WatchMap[s] \notin {"none", "made"}
      BY <2>2 DEF CacheResponse, WatchMap, IInv, StreamInv
    <3>6. Abs!Asked(KeyOf[s])
      BY <3>5 DEF Abs!Asked
    <3>7. Abs!CacheResponse(KeyOf[s])
      BY <3>1, <3>2, <3>3, <3>4, <3>6 DEF Abs!CacheResponse, Abs!Version
    <3> QED BY <3>7 DEF Abs!RelayStep
  <2>3. ASSUME UNCHANGED watchVars, FetchExpired(KeyOf[s], Upstream(s)), Evicting
        PROVE  Abs!RelayStep
    <3>1. WatchMap' = WatchMap
      BY <2>3, SameWatches
    <3>2. Abs!Expel(KeyOf[s])
      BY <1>0, <2>3, <3>1, ExpelRefines, CallerType
    <3> QED BY <3>2 DEF Abs!RelayStep
  <2>4. CASE FetchFanoutAgain(s) \/ FailFetchAgain(s)
    BY <2>3, <2>4, SameWatches, QuietRefines DEF FetchFanoutAgain, FailFetchAgain
  <2>5. CASE FailWatches(s)
    <3>1. Store(s) \subseteq Req /\ \A r \in Store(s) : cw[r] \notin Unregistered
      BY <1>0 DEF CacheTypeOK, Store, IInv, StoreInv, Registered, Unregistered
    <3>2. Abs!CloseWatches(Store(s)) /\ UNCHANGED <<cacheVars, cb>>
      BY <1>0, <2>5, <3>1, CloseRefines DEF FailWatches
    <3>3. WatchMap[s] \notin {"none", "made"}
      BY <2>5 DEF FailWatches, WatchMap, IInv, StreamInv
    <3>4. Abs!Asked(KeyOf[s])
      BY <3>3 DEF Abs!Asked
    <3>5. CASE live[s] \/ (cb = "watches" /\ evKey = KeyOf[s] /\ evReqs = todo[s])
      <4>1. \/ Abs!CloseWatches(reqs[KeyOf[s]])
            \/ cb = "watches" /\ evKey = KeyOf[s] /\ Abs!CloseWatches(evReqs)
        BY <3>2, <3>5 DEF Store
      <4>2. Abs!FailWatches(KeyOf[s])
        BY <3>2, <3>4, <4>1, CacheUnchangedRefines DEF Abs!FailWatches
      <4> QED BY <4>2 DEF Abs!RelayStep
    <3>6. CASE ~live[s] /\ \A r \in todo[s] : watch[r] # "open"
      <4>1. \A r \in Req : watch'[r] = watch[r] /\ cw'[r] = cw[r]
        BY <2>5, <3>6 DEF FailWatches, CloseWatches, Store
      <4> QED BY <3>2, <4>1, SameWatches, QuietRefines
    <3> QED BY <2>5, <3>5, <3>6 DEF FailWatches, IInv, StaleInv
  <2> QED BY <1>3, <2>1, <2>2, <2>4, <2>5 DEF UpstreamStep
<1>4. CASE EvictStep
  <2>1. CASE EvictWatches
    <3>1. evReqs \subseteq Req /\ \A r \in evReqs : cw[r] \notin Unregistered
      BY <1>0 DEF CacheTypeOK, IInv, StoreInv, Registered, Unregistered
    <3>2. Abs!CloseWatches(evReqs)
      BY <1>0, <2>1, <3>1, CloseRefines DEF EvictWatches
    <3>3. Abs!EvictWatches
      BY <2>1, <3>2, CacheUnchangedRefines DEF EvictWatches, Abs!EvictWatches
    <3> QED BY <3>3 DEF Abs!RelayStep
  <2>2. CASE EvictClose \/ EvictDelete
    <3>1. WatchMap' = WatchMap /\ cb # "watches" /\ cb # "none" /\ cb' # "watches"
      BY <2>2, SameWatches DEF EvictClose, EvictDelete
    <3>2. CASE EvictReturn
      <4>1. ~Unlocked
        BY <1>0, <3>1 DEF LockInv
      <4>2. Abs!EvictReturns
        BY <3>1, <3>2, <4>1, EvictReturnRefines, UnlockedRefines DEF Abs!EvictReturns
      <4> QED BY <4>2 DEF Abs!RelayStep
    <3>3. CASE UNCHANGED cacheVars
      BY <3>1, <3>3, QuietRefines
    <3> QED BY <2>2, <3>2, <3>3 DEF EvictClose, EvictDelete
  <2> QED BY <1>4, <2>1, <2>2 DEF EvictStep
<1>5. CASE ShutdownStep
  BY <1>5, SameWatches, QuietRefines DEF ShutdownStep, ShutdownClose, ShutdownDelete
<1>6. ASSUME NEW r \in Req, CreateWatch(r)
      PROVE  Abs!RelayStep \/ Stutters
  <2>1. UNCHANGED <<cacheVars, cb>> /\ WatchMap[r] = "none"
    BY <1>6 DEF CreateWatch, WatchMap
  <2>2. \A q \in Req \ {r} : cw'[q] = cw[q] /\ watch'[q] = watch[q]
    BY <1>0, <1>6 DEF CreateWatch
  <2>3. CASE r \in Unmapped
    <3>1. WatchMap' = WatchMap
      BY <1>0, <1>6, <2>1, <2>2, <2>3 DEF CreateWatch, WatchMap
    <3> QED BY <2>1, <3>1, QuietRefines
  <2>4. CASE r \notin Unmapped
    <3>1. WatchMap'[r] = "made"
      BY <1>0, <1>6, <2>4 DEF CreateWatch, WatchMap
    <3>2. Abs!MakeWatch(r)
      BY <2>1, <2>2, <3>1, OneWatch, CacheUnchangedRefines DEF Abs!MakeWatch, Abs!WatchGoto
    <3> QED BY <3>2 DEF Abs!RelayStep
  <2> QED BY <2>3, <2>4
<1>7. ASSUME NEW r \in Req, Cancel(r)
      PROVE  Abs!RelayStep \/ Stutters
  <2>1. UNCHANGED <<cacheVars, cb>> /\ \A q \in Req \ {r} : cw'[q] = cw[q] /\ watch'[q] = watch[q]
    BY <1>0, <1>7 DEF Cancel, CloseWatches
  <2>2. cw[r] \notin Unregistered /\ cw'[r] \notin Unregistered /\ watch'[r] # "open"
    BY <1>0, <1>7 DEF Cancel, CloseWatches, Unregistered
  <2>3. CASE watch[r] = "open"
    <3>1. WatchMap[r] = "open" /\ WatchMap'[r] = "closed"
      BY <2>2, <2>3 DEF WatchMap, Unregistered
    <3>2. Abs!Cancel(r)
      BY <2>1, <3>1, OneWatch, CacheUnchangedRefines DEF Abs!Cancel, Abs!WatchGoto
    <3> QED BY <3>2 DEF Abs!RelayStep
  <2>4. CASE watch[r] # "open"
    BY <2>1, <2>2, <2>4, SameWatches, QuietRefines
  <2> QED BY <2>3, <2>4
<1>8. ASSUME NEW s \in Req, ReceiveAgain(s) \/ StreamCloses(s)
      PROVE  Abs!RelayStep \/ Stutters
  BY <1>8, SameWatches, QuietRefines DEF ReceiveAgain, StreamCloses
<1>9. ASSUME NEW k \in Key, AdminClear(k) \/ AdminFetch(k)
      PROVE  Abs!RelayStep \/ Stutters
  <2>1. WatchMap' = WatchMap
    BY <1>9, SameWatches DEF AdminClear, AdminFetch
  <2>2. CASE AdminClear(k)
    <3>1. Abs!Clear(k)
      BY <1>0, <2>1, <2>2, DeleteKeyRefines, EvictingRefines, CallerType
      DEF AdminClear, DeleteKey, Abs!Clear
    <3> QED BY <3>1 DEF Abs!RelayStep
  <2>3. CASE AdminFetch(k)
    <3>1. Abs!Expel(k)
      BY <1>0, <2>1, <2>3, ExpelRefines, CallerType DEF AdminFetch
    <3> QED BY <3>1 DEF Abs!RelayStep
  <2> QED BY <1>9, <2>2, <2>3
<1>10. CASE TimePasses
  <2>1. WatchMap' = WatchMap /\ cb' = cb
    BY <1>10, SameWatches DEF TimePasses
  <2>2. PICK K \in SUBSET (cached \ expired) : K # {} /\ Expire(K)
    BY <1>10 DEF TimePasses
  <2>3. Abs!Expire(K)
    BY <2>2 DEF Expire, Abs!Expire, Unlocked
  <2>4. Abs!TimePasses
    BY <2>1, <2>2, <2>3 DEF Abs!TimePasses
  <2> QED BY <2>4 DEF Abs!RelayStep
<1>11. CASE Shutdown \/ (\E k \in Key : Publish(k)) \/ UNCHANGED vars
  BY <1>11, SameWatches, QuietRefines DEF Shutdown, Publish, vars
<1> QED BY <1>1, <1>2, <1>3, <1>4, <1>5, <1>6, <1>7, <1>8, <1>9, <1>10, <1>11
        DEF Next, Environment

\* All the races of the orchestrator's goroutines change the cache and the watches
\* in no other way than Relay: a registered watch stays in the entry of its key until
\* it is closed, is closed with it, and only a stream that was asked for responds.
\* AdminServer's theorems are about Relay.
THEOREM OrchestratorImplementsRelay == Spec => ImplementsRelay
BY InitRefines, StepRefines, Invariance, PTL DEF Spec, ImplementsRelay, Abs!RelaySpec
=============================================================================
