------------------------------- MODULE Relay -------------------------------
(***************************************************************************)
(* The orchestrator, as the admin server sees it: the cache and the map of *)
(* the watches, and in which order a request, a response, an eviction or a *)
(* failure changes the two.  Streams and the sending of responses are left *)
(* out, so that a response may come in for a key at any time once the key  *)
(* has been asked for, and a failure close any of its watches.             *)
(*                                                                         *)
(* Orchestrator implements this module (ImplementsRelay), and AdminServer  *)
(* runs the handlers of the admin server on it.  Who holds cacheMu makes   *)
(* no difference to either: it is Admin, whoever evicts.                   *)
(***************************************************************************)
EXTENDS Cache

CONSTANT KeyOf  \* mapper.GetKey: the aggregated key of each request

ASSUME RelayAssumption == KeyOf \in [Req -> Key]

VARIABLES
    watch,   \* watch[r]: "none", "made", "open" once its request is registered, and
             \*           "closed" by its client or the relay
    cb       \* the callback of an eviction has still to close the watches

relayVars == <<cacheVars, watch, cb>>

RelayTypeOK ==
    /\ CacheTypeOK
    /\ watch \in [Req -> {"none", "made", "open", "closed"}]
    /\ cb \in BOOLEAN

RelayInit ==
    /\ CacheInit
    /\ watch = [r \in Req |-> "none"] /\ cb = FALSE

\* The watches in the map.
Open == {r \in Req : watch[r] \in {"made", "open"}}

WatchGoto(r, state) == watch' = [watch EXCEPT ![r] = state]
CloseWatches(R) ==
    watch' = [r \in Req |-> IF r \in R \intersect Open THEN "closed" ELSE watch[r]]

\* An operation of the cache that evicted leaves its callback to run.
Evicting == cb' = (cb \/ ~Unlocked')

\* CreateWatch: the watch, and then its request in the entry of its key.
MakeWatch(r) == watch[r] = "none" /\ WatchGoto(r, "made") /\ UNCHANGED <<cacheVars, cb>>
RegisterWatch(r) ==
    /\ watch[r] = "made"
    /\ AddRequest(KeyOf[r], r, Admin) /\ Evicting
    /\ WatchGoto(r, "open")

\* The cancel function, which may be called again, and after the relay has closed
\* the watch: the watch, and then its request.
Cancel(r) == watch[r] = "open" /\ WatchGoto(r, "closed") /\ UNCHANGED <<cacheVars, cb>>
UnregisterWatch(r) ==
    /\ watch[r] = "closed"
    /\ DeleteRequest(KeyOf[r], r)
    /\ UNCHANGED <<watch, cb>>

\* watchUpstream of a stream of k: a response, or the failure of the stream, which
\* closes the watches of the entry, of a callback that has not yet, or none.
Asked(k) == \E r \in Req : KeyOf[r] = k /\ watch[r] \notin {"none", "made"}
CacheResponse(k) ==
    /\ Asked(k)
    /\ \E v \in Version : SetResponse(k, v, Admin)
    /\ Evicting /\ UNCHANGED watch
FailWatches(k) ==
    /\ Asked(k)
    /\ CloseWatches(reqs[k]) \/ (cb /\ evKey = k /\ CloseWatches(evReqs))
    /\ UNCHANGED <<cacheVars, cb>>

\* onCacheEvicted, as the callback of the cache: it closes the watches, and
\* returns when it has done with the stream.
EvictWatches == cb /\ cb' = FALSE /\ CloseWatches(evReqs) /\ UNCHANGED cacheVars
EvictReturns == ~Unlocked /\ ~cb /\ EvictReturn /\ UNCHANGED <<watch, cb>>

\* ClearCacheEntries, and a read that removes an expired key.
Clear(k) == DeleteKey(k, Admin) /\ Evicting /\ UNCHANGED watch
Expel(k) == FetchExpired(k, Admin) /\ Evicting /\ UNCHANGED watch

TimePasses ==
    /\ \E K \in SUBSET (cached \ expired) : K # {} /\ Expire(K)
    /\ UNCHANGED <<watch, cb>>

RelayStep ==
    \/ \E r \in Req :
        MakeWatch(r) \/ RegisterWatch(r) \/ Cancel(r) \/ UnregisterWatch(r)
    \/ \E k \in Key : CacheResponse(k) \/ FailWatches(k) \/ Clear(k) \/ Expel(k)
    \/ EvictWatches \/ EvictReturns
    \/ TimePasses

RelaySpec == RelayInit /\ [][RelayStep]_relayVars
=============================================================================
