----------------------------- MODULE CacheProofs -----------------------------
(***************************************************************************)
(* What the proofs about the modules that use Cache need of each of its    *)
(* operations: it keeps the types, it leaves no response or request behind *)
(* without an entry, and the requests it takes from an entry are those it  *)
(* was told to, or are handed to the callback of the eviction.             *)
(***************************************************************************)
EXTENDS Cache, TLAPS

USE CacheAssumption DEF Version, NoResp

----------------------------------------------------------------------------
\* Type correctness.

\* The goroutines that call the cache are callers.
LEMMA CallerType ==
    /\ Admin \in Caller
    /\ \A r \in Req : Watcher(r) \in Caller /\ Upstream(r) \in Caller
BY DEF Caller

\* The operations of the cache keep its types.
LEMMA AddRequestType ==
    ASSUME CacheTypeOK, NEW k \in Key, NEW r \in Req, NEW t \in Caller,
           AddRequest(k, r, t)
    PROVE  CacheTypeOK'
BY DEF CacheTypeOK, AddRequest, Update, Insert, OnEvicted

LEMMA SetResponseType ==
    ASSUME CacheTypeOK, NEW k \in Key, NEW v \in Version \union {NoResp},
           NEW t \in Caller, SetResponse(k, v, t)
    PROVE  CacheTypeOK'
BY DEF CacheTypeOK, SetResponse, Update, Insert, OnEvicted

LEMMA RemoveType ==
    ASSUME CacheTypeOK, NEW k \in Key, NEW t \in Caller, Remove(k, t)
    PROVE  CacheTypeOK'
BY DEF CacheTypeOK, Remove, OnEvicted

LEMMA DeleteRequestType ==
    ASSUME CacheTypeOK, NEW k \in Key, NEW r \in Req, DeleteRequest(k, r)
    PROVE  CacheTypeOK'
BY DEF CacheTypeOK, DeleteRequest, Update, cacheVars

LEMMA EvictReturnType == CacheTypeOK /\ EvictReturn => CacheTypeOK'
BY DEF CacheTypeOK, EvictReturn

LEMMA CacheUnchangedType == CacheTypeOK /\ UNCHANGED cacheVars => CacheTypeOK'
BY DEF CacheTypeOK, cacheVars

LEMMA ExpireType ==
    ASSUME CacheTypeOK, NEW K \in SUBSET cached, Expire(K)
    PROVE  CacheTypeOK'
BY DEF CacheTypeOK, Expire

----------------------------------------------------------------------------
\* What becomes of the requests and of the responses of the entries.

\* No request is lost: it stays, or goes to the callback with its entry.
KeepsRequests ==
    \A k \in Key : \/ reqs[k] \subseteq reqs'[k]
                   \/ ~Unlocked' /\ reqs[k] \subseteq evReqs'

\* An entry that stays keeps having a response.
KeepsResponses == \A k \in cached' : resp[k] # NoResp => resp'[k] # NoResp

Keeping == EntryInv' /\ KeepsRequests /\ KeepsResponses

LEMMA UpdateKeeping ==
    ASSUME CacheTypeOK, EntryInv, NEW k \in Key, NEW v, NEW R, NEW old,
           reqs[k] \subseteq R, resp[k] # NoResp => v # NoResp, Update(k, v, R, old)
    PROVE  Keeping
BY DEF CacheTypeOK, EntryInv, Update, Keeping, KeepsRequests, KeepsResponses

LEMMA InsertKeeping ==
    ASSUME CacheTypeOK, EntryInv, NEW k \in Key, NEW v, NEW R, NEW t \in Caller, Insert(k, v, R, t)
    PROVE  Keeping
<1>1. resp[k] = NoResp /\ reqs[k] = {}
  BY DEF EntryInv, Insert
<1>2. CASE ~Full
  BY <1>1, <1>2 DEF CacheTypeOK, EntryInv, Insert, Keeping, KeepsRequests, KeepsResponses
<1>3. CASE Full
  <2>1. PICK old \in cached :
           /\ cached' = (cached \ {old}) \union {k}
           /\ resp' = [resp EXCEPT ![old] = NoResp, ![k] = v]
           /\ reqs' = [reqs EXCEPT ![old] = {}, ![k] = R]
           /\ OnEvicted(old, t)
    BY <1>3 DEF Insert
  <2>2. old \in Key /\ old # k /\ t # Free
    BY <2>1 DEF CacheTypeOK, Insert
  <2> QED BY <1>1, <2>1, <2>2
         DEF CacheTypeOK, EntryInv, OnEvicted, Unlocked, Keeping, KeepsRequests, KeepsResponses
<1> QED BY <1>2, <1>3

LEMMA AddRequestKeeping ==
    ASSUME CacheTypeOK, EntryInv, NEW k \in Key, NEW r \in Req, NEW t \in Caller, AddRequest(k, r, t)
    PROVE  Keeping
BY UpdateKeeping, InsertKeeping DEF AddRequest

LEMMA SetResponseKeeping ==
    ASSUME CacheTypeOK, EntryInv, NEW k \in Key, NEW v \in Version, NEW t \in Caller,
           SetResponse(k, v, t)
    PROVE  Keeping
<1>1. v # NoResp
  OBVIOUS
<1> QED BY <1>1, UpdateKeeping, InsertKeeping DEF SetResponse

LEMMA RemoveKeeping ==
    ASSUME CacheTypeOK, EntryInv, NEW k \in Key, NEW t \in Caller, Remove(k, t)
    PROVE  Keeping
BY DEF CacheTypeOK, EntryInv, Remove, OnEvicted, Unlocked, Keeping, KeepsRequests, KeepsResponses

\* DeleteRequest takes its request, and no other.
LEMMA DeleteRequestKeeping ==
    ASSUME CacheTypeOK, EntryInv, NEW k \in Key, NEW r \in Req, DeleteRequest(k, r)
    PROVE  /\ EntryInv' /\ KeepsResponses
           /\ \A j \in Key : reqs[j] \ {r} \subseteq reqs'[j]
BY DEF CacheTypeOK, EntryInv, DeleteRequest, Update, cacheVars, KeepsResponses

LEMMA QuietKeeping ==
    ASSUME EntryInv, UNCHANGED <<cached, resp, reqs>>
    PROVE  Keeping
BY DEF EntryInv, Keeping, KeepsRequests, KeepsResponses
=============================================================================
