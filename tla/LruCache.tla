------------------------------ MODULE LruCache ------------------------------
(***************************************************************************)
(* The response cache as it is built (internal/app/cache/cache.go): a list *)
(* of keys in order of use (groupcache's lru.Cache), entries with an       *)
(* ExpirationTime, a clock, and a Fetch that looks an expired entry up a   *)
(* second time under the write lock.  It implements Cache.                 *)
(***************************************************************************)
EXTENDS Naturals, Sequences, FiniteSets, Functions

CONSTANTS
    Key, Req, MaxVersion, MaxEntries, Free, Admin, NoKey,  \* as in Cache
    TTL,      \* cache.ttl, 0 is "no expiration time"
    MaxTime   \* bound: the clock stops here

NoResp == 0

VARIABLES
    order,    \* the keys of the lru list, the most recently used first
    entry,    \* key -> Resource, for the keys of the list
    now,      \* time.Now()
    cacheMu, evKey, evReqs,  \* as in Cache
    second,   \* second[t]: key caller t is about to look up again, or NoKey
    touched   \* history: the key of the last operation

vars == <<order, entry, now, cacheMu, evKey, evReqs, second, touched>>

cached == DOMAIN entry

\* An entry expires after the instant of its ExpirationTime, if it has one.
IsExpired(e) == TTL > 0 /\ e.exp < now

Abs == INSTANCE Cache WITH
    HasTTL  <- TTL > 0,
    resp    <- [k \in Key |-> IF k \in cached THEN entry[k].resp ELSE NoResp],
    reqs    <- [k \in Key |-> IF k \in cached THEN entry[k].reqs ELSE {}],
    expired <- {k \in cached : IsExpired(entry[k])}

Caller == Abs!Caller

ASSUME LruAssumption ==
    /\ TTL \in Nat /\ MaxTime \in Nat
    /\ MaxVersion \in Nat /\ MaxEntries \in Nat
    /\ Free \notin Caller
    /\ NoKey \notin Key

Resource == [resp : 0..MaxVersion, reqs : SUBSET Req, exp : 0..MaxTime + TTL]

TypeOK ==
    /\ order \in Seq(Key)
    /\ cached \subseteq Key
    /\ \A k \in cached : entry[k] \in Resource
    /\ now \in 0..MaxTime
    /\ Abs!CacheTypeOK
    /\ second \in [Caller -> Key \union {NoKey}]

Init ==
    /\ order = <<>>
    /\ entry = [k \in {} |-> NoResp]
    /\ now = 0
    /\ cacheMu = Free
    /\ evKey = NoKey
    /\ evReqs = {}
    /\ second = [t \in Caller |-> NoKey]
    /\ touched = NoKey

----------------------------------------------------------------------------
Unlocked == cacheMu = Free

\* Caller t starts an operation under cacheMu: it is not inside another one.
Enter(t) == Unlocked /\ second[t] = NoKey

\* list.Remove, of the element the map has for k.
Element(k) == CHOOSE i \in 1..Len(order) : order[i] = k
Without(k) ==
    [i \in 1..(Len(order) - 1) |-> IF i < Element(k) THEN order[i] ELSE order[i + 1]]

\* list.MoveToFront, or PushFront of a key that has no element.
ToFront(k) == <<k>> \o (IF k \in cached THEN Without(k) ELSE order)

\* getExpirationTime
ExpirationTime == IF TTL > 0 THEN now + TTL ELSE 0

OnEvicted(k, t) ==
    /\ cacheMu' = t
    /\ evKey' = k
    /\ evReqs' = entry[k].reqs

\* Mutant: one entry too many before the last one is dropped.
AddOneMore(k, e, t) ==
    LET full == MaxEntries # 0 /\ Len(order) > MaxEntries IN
    \/ /\ k \in cached \/ ~full
       /\ order' = ToFront(k)
       /\ entry' = [j \in cached \union {k} |-> IF j = k THEN e ELSE entry[j]]
       /\ UNCHANGED <<cacheMu, evKey, evReqs>>
    \/ /\ k \notin cached /\ full
       /\ order' = <<k>> \o Without(order[Len(order)])
       /\ entry' = [j \in (cached \ {order[Len(order)]}) \union {k} |->
                        IF j = k THEN e ELSE entry[j]]
       /\ OnEvicted(order[Len(order)], t)

\* lru.Add: the entry goes to the front; a new one beyond MaxEntries drops the
\* last one of the list.
Victim == order[Len(order)]
Add(k, e, t) ==
    LET full == MaxEntries # 0 /\ Len(order) + 1 > MaxEntries IN
    \/ /\ k \in cached \/ ~full
       /\ order' = ToFront(k)
       /\ entry' = [j \in cached \union {k} |-> IF j = k THEN e ELSE entry[j]]
       /\ UNCHANGED <<cacheMu, evKey, evReqs>>
    \/ /\ k \notin cached /\ full
       /\ order' = <<k>> \o Without(Victim)
       /\ entry' = [j \in (cached \ {Victim}) \union {k} |->
                        IF j = k THEN e ELSE entry[j]]
       /\ OnEvicted(Victim, t)

\* lru.Remove
Remove(k, t) ==
    /\ order' = Without(k)
    /\ entry' = Restrict(entry, cached \ {k})
    /\ OnEvicted(k, t)

----------------------------------------------------------------------------
\* Mutant: a request restarts the life of its entry.
AddRequestRenews(k, r, t) ==
    /\ Enter(t)
    /\ Add(k, IF k \in cached
              THEN [entry[k] EXCEPT !.reqs = @ \union {r}, !.exp = ExpirationTime]
              ELSE [resp |-> NoResp, reqs |-> {r}, exp |-> ExpirationTime], t)
    /\ touched' = k
    /\ UNCHANGED <<now, second>>

AddRequest(k, r, t) ==
    /\ Enter(t)
    /\ Add(k, IF k \in cached
              THEN [entry[k] EXCEPT !.reqs = @ \union {r}]
              ELSE [resp |-> NoResp, reqs |-> {r}, exp |-> ExpirationTime], t)
    /\ touched' = k
    /\ UNCHANGED <<now, second>>

SetResponse(k, v, t) ==
    /\ Enter(t)
    /\ Add(k, [resp |-> v, exp |-> ExpirationTime,
               reqs |-> IF k \in cached THEN entry[k].reqs ELSE {}], t)
    /\ touched' = k
    /\ UNCHANGED <<now, second>>

DeleteRequest(k, r, t) ==
    /\ Enter(t)
    /\ k \in cached
    /\ Add(k, [entry[k] EXCEPT !.reqs = @ \ {r}], t)
    /\ touched' = k
    /\ UNCHANGED <<now, second>>

DeleteKey(k, t) ==
    /\ Enter(t)
    /\ k \in cached
    /\ Remove(k, t)
    /\ touched' = k
    /\ UNCHANGED <<now, second>>

\* Mutant: a read does not count as a use.
FetchPeeks(k, t) ==
    /\ Enter(t)
    /\ k \in cached
    /\ second' = [second EXCEPT ![t] = IF IsExpired(entry[k]) THEN k ELSE NoKey]
    /\ touched' = k
    /\ UNCHANGED <<order, entry, now, cacheMu, evKey, evReqs>>

\* Fetch under the read lock: even a read moves the key to the front.
Fetch(k, t) ==
    /\ Enter(t)
    /\ k \in cached
    /\ order' = ToFront(k)
    /\ second' = [second EXCEPT ![t] = IF IsExpired(entry[k]) THEN k ELSE NoKey]
    /\ touched' = k
    /\ UNCHANGED <<entry, now, cacheMu, evKey, evReqs>>

\* Mutant: the entry seen expired is removed without looking again.
FetchAgainBlind(t) ==
    LET k == second[t] IN
    /\ Unlocked
    /\ k # NoKey
    /\ \/ k \notin cached /\ UNCHANGED <<order, entry, cacheMu, evKey, evReqs>>
       \/ k \in cached /\ Remove(k, t)
    /\ second' = [second EXCEPT ![t] = NoKey]
    /\ touched' = IF k \in cached THEN k ELSE touched
    /\ UNCHANGED now

\* Fetch under the write lock: gone by now, still expired, or refreshed.
FetchAgain(t) ==
    LET k == second[t] IN
    /\ Unlocked
    /\ k # NoKey
    /\ \/ k \notin cached /\ UNCHANGED <<order, entry, cacheMu, evKey, evReqs>>
       \/ k \in cached /\ IsExpired(entry[k]) /\ Remove(k, t)
       \/ /\ k \in cached /\ ~IsExpired(entry[k])
          /\ order' = ToFront(k)
          /\ UNCHANGED <<entry, cacheMu, evKey, evReqs>>
    /\ second' = [second EXCEPT ![t] = NoKey]
    /\ touched' = IF k \in cached THEN k ELSE touched
    /\ UNCHANGED now

\* OnEvicted returns and cacheMu is released.
EvictReturn ==
    /\ ~Unlocked
    /\ cacheMu' = Free
    /\ evKey' = NoKey
    /\ evReqs' = {}
    /\ UNCHANGED <<order, entry, now, second, touched>>

Tick ==
    /\ now < MaxTime
    /\ now' = now + 1
    /\ UNCHANGED <<order, entry, cacheMu, evKey, evReqs, second, touched>>

Next ==
    \/ \E t \in Caller, k \in Key :
          \/ \E r \in Req : AddRequest(k, r, t) \/ DeleteRequest(k, r, t)
          \/ \E v \in 1..MaxVersion : SetResponse(k, v, t)
          \/ DeleteKey(k, t)
          \/ Fetch(k, t)
    \/ \E t \in Caller : FetchAgain(t)
    \/ EvictReturn
    \/ Tick

Spec == Init /\ [][Next]_vars

----------------------------------------------------------------------------
\* The list and the map of lru.Cache always agree, hold each key once, and never
\* exceed MaxEntries, whatever mix of operations, expiries and evictions ran.
ListMatchesEntries ==
    /\ Len(order) = Cardinality(cached)
    /\ Range(order) = cached
    /\ MaxEntries # 0 => Len(order) <= MaxEntries

\* The cache behaves as Cache says: evictions hand the callback the requests of
\* the entry that goes, responses restart an entry's life, requests do not.
ImplementsCache == Abs!CacheSpec

\* "Without it, a key that was recently refreshed may be prematurely removed by
\* the goroutine calling Fetch" (cache.go:131-133): Fetch removes an entry only
\* when its time is over at that moment.
RemovesOnlyExpired ==
    [][\A t \in Caller :
         second[t] # NoKey /\ second'[t] = NoKey =>
             cached \ cached' \subseteq {k \in cached : entry[k].exp < now}]_vars

\* With room for two entries or more, the key of the last operation survives the
\* next insertion: every operation, reads included, counts as a use.
LastUsedSurvives ==
    [][MaxEntries > 1 /\ cached' \ cached # {} =>
         touched \notin cached \ cached']_vars

(***************************************************************************)
(* The inductive invariant of LruCacheProofs.                              *)
(***************************************************************************)
\* The list holds the keys of the map, each one once, from which it follows that
\* the two have as many.
ListInv ==
    /\ IsInjective(order)
    /\ Range(order) = cached
    /\ MaxEntries # 0 => Len(order) <= MaxEntries

\* The key of the last operation, while it has an entry, is in front.
UsedInv == touched \in cached => order[1] = touched

IInv == TypeOK /\ ListInv /\ UsedInv
=============================================================================
