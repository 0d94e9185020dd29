--------------------------- MODULE LruCacheProofs ---------------------------
(***************************************************************************)
(* Proofs about LruCache, for any keys, requests, time to live and number  *)
(* of entries: the inductive invariant IInv, the properties that follow    *)
(* from it, and that it implements Cache, step by step.                    *)
(***************************************************************************)
EXTENDS LruCache, SequenceTheorems, FiniteSetTheorems, TLAPS

(***************************************************************************)
(* Sequences without repetition.                                           *)
(***************************************************************************)
\* A function on an interval from 1 is a sequence.
LEMMA FunctionIsSeq ==
    ASSUME NEW S, NEW n \in Nat, NEW s \in [1..n -> S]
    PROVE  s \in Seq(S) /\ Len(s) = n
<1>1. s \in Seq(S)
  BY SeqDef
<1>2. DOMAIN s = 1..n /\ DOMAIN s = 1..Len(s) /\ Len(s) \in Nat
  BY <1>1, LenProperties
<1> QED BY <1>1, <1>2

\* Dropping one element leaves the others, each one once.
LEMMA DropElement ==
    ASSUME NEW S, NEW s \in Seq(S), IsInjective(s), NEW n \in 1..Len(s), NEW t,
           t = [i \in 1..(Len(s) - 1) |-> IF i < n THEN s[i] ELSE s[i + 1]]
    PROVE  /\ t \in Seq(S) /\ Len(t) = Len(s) - 1
           /\ IsInjective(t)
           /\ Range(t) = Range(s) \ {s[n]}
<1>1. Len(s) \in Nat /\ Len(s) - 1 \in Nat /\ DOMAIN s = 1..Len(s)
  BY LenProperties
<1>2. \A i \in 1..(Len(s) - 1) : (IF i < n THEN s[i] ELSE s[i + 1]) \in S
  BY <1>1, ElementOfSeq
<1>3. t \in [1..(Len(s) - 1) -> S]
  BY <1>2
<1>4. t \in Seq(S) /\ Len(t) = Len(s) - 1
  BY <1>1, <1>3, FunctionIsSeq
<1>5. IsInjective(t)
  <2> SUFFICES ASSUME NEW i \in DOMAIN t, NEW j \in DOMAIN t, t[i] = t[j] PROVE i = j
    BY DEF IsInjective
  <2>1. \A a, b \in 1..Len(s) : s[a] = s[b] => a = b
    BY <1>1 DEF IsInjective
  <2>2. i \in 1..(Len(s) - 1) /\ j \in 1..(Len(s) - 1)
    BY <1>3
  <2>3. CASE i < n /\ j < n
    BY <1>1, <2>1, <2>2, <2>3
  <2>4. CASE i < n /\ ~(j < n)
    BY <1>1, <2>1, <2>2, <2>4
  <2>5. CASE ~(i < n) /\ j < n
    BY <1>1, <2>1, <2>2, <2>5
  <2>6. CASE ~(i < n) /\ ~(j < n)
    BY <1>1, <2>1, <2>2, <2>6
  <2> QED BY <2>3, <2>4, <2>5, <2>6
<1>6. ASSUME NEW x \in Range(t) PROVE x \in Range(s) \ {s[n]}
  <2>1. PICK i \in 1..(Len(s) - 1) : x = t[i]
    BY <1>6 DEF Range
  <2>2. PICK j \in 1..Len(s) : x = s[j] /\ j # n
    <3>1. CASE i < n
      BY <1>1, <2>1, <3>1
    <3>2. CASE ~(i < n)
      BY <1>1, <2>1, <3>2
    <3> QED BY <3>1, <3>2
  <2> QED BY <1>1, <2>2 DEF Range, IsInjective
<1>7. ASSUME NEW x \in Range(s) \ {s[n]} PROVE x \in Range(t)
  <2>1. PICK j \in 1..Len(s) : x = s[j] /\ j # n
    BY <1>1, <1>7 DEF Range
  <2>2. CASE j < n
    <3>1. j \in 1..(Len(s) - 1) /\ t[j] = x
      BY <1>1, <2>1, <2>2
    <3> QED BY <3>1 DEF Range
  <2>3. CASE ~(j < n)
    <3>1. j - 1 \in 1..(Len(s) - 1) /\ t[j - 1] = s[j]
      BY <1>1, <2>1, <2>3
    <3> QED BY <2>1, <3>1 DEF Range
  <2> QED BY <2>2, <2>3
<1> QED BY <1>4, <1>5, <1>6, <1>7

\* An element that is not there yet can go to the front.
LEMMA PushFront ==
    ASSUME NEW S, NEW s \in Seq(S), IsInjective(s), NEW x \in S, x \notin Range(s)
    PROVE  /\ <<x>> \o s \in Seq(S) /\ Len(<<x>> \o s) = Len(s) + 1
           /\ IsInjective(<<x>> \o s)
           /\ Range(<<x>> \o s) = Range(s) \union {x}
           /\ (<<x>> \o s)[1] = x
<1> DEFINE t == <<x>> \o s
<1>1. <<x>> \in Seq(S) /\ Len(<<x>>) = 1 /\ Len(s) \in Nat /\ DOMAIN s = 1..Len(s)
  BY LenProperties
<1>2. t \in Seq(S) /\ Len(t) = Len(s) + 1 /\ DOMAIN t = 1..(Len(s) + 1)
  BY <1>1, ConcatProperties, LenProperties
<1>3. t[1] = x /\ \A i \in 2..(Len(s) + 1) : t[i] = s[i - 1]
  BY <1>1, ConcatProperties
<1>4. IsInjective(t)
  <2> SUFFICES ASSUME NEW a \in 1..(Len(s) + 1), NEW b \in 1..(Len(s) + 1), t[a] = t[b]
               PROVE  a = b
    BY <1>2 DEF IsInjective
  <2>1. \A i \in 2..(Len(s) + 1) : i - 1 \in DOMAIN s /\ t[i] = s[i - 1] /\ t[i] # x
    BY <1>1, <1>3 DEF Range
  <2>2. CASE a = 1 \/ b = 1
    BY <1>1, <1>3, <2>1, <2>2
  <2>3. CASE a # 1 /\ b # 1
    <3>1. a - 1 \in DOMAIN s /\ b - 1 \in DOMAIN s /\ s[a - 1] = s[b - 1]
      BY <1>1, <2>1, <2>3
    <3> QED BY <1>1, <3>1 DEF IsInjective
  <2> QED BY <2>2, <2>3
<1>5. Range(t) = Range(s) \union {x}
  <2>1. \A i \in 1..Len(s) : i + 1 \in 1..(Len(s) + 1) /\ t[i + 1] = s[i]
    BY <1>1, <1>3
  <2>2. \A y \in Range(s) : y \in Range(t)
    <3> HIDE DEF t
    <3> QED BY <1>1, <1>2, <2>1 DEF Range
  <2>3. x \in Range(t)
    BY <1>1, <1>2, <1>3 DEF Range
  <2>4. \A y \in Range(t) : y = x \/ y \in Range(s)
    BY <1>1, <1>2, <1>3 DEF Range
  <2> QED BY <2>2, <2>3, <2>4
<1> QED BY <1>2, <1>3, <1>4, <1>5

\* It is as long as the set of its elements is large.
LEMMA LengthIsCardinality ==
    ASSUME NEW S, NEW s \in Seq(S), IsInjective(s)
    PROVE  IsFiniteSet(Range(s)) /\ Cardinality(Range(s)) = Len(s)
<1>1. Len(s) \in Nat /\ DOMAIN s = 1..Len(s) /\ s \in [1..Len(s) -> S]
  BY LenProperties
<1>2. s \in Bijection(1..Len(s), Range(s))
  BY <1>1 DEF Bijection, Injection, Surjection, Range, IsInjective
<1>3. IsFiniteSet(1..Len(s)) /\ Cardinality(1..Len(s)) = Len(s)
  BY <1>1, FS_Interval
<1> QED BY <1>2, <1>3, FS_Bijection DEF ExistsBijection

----------------------------------------------------------------------------
\* The same of the list of the cache, without one of its keys ...
LEMMA ListWithout ==
    ASSUME TypeOK, ListInv, NEW k \in cached
    PROVE  /\ Without(k) \in Seq(Key) /\ Len(Without(k)) = Len(order) - 1
           /\ IsInjective(Without(k))
           /\ Range(Without(k)) = cached \ {k}
<1>1. order \in Seq(Key) /\ DOMAIN order = 1..Len(order)
  BY LenProperties DEF TypeOK
<1>2. \E i \in 1..Len(order) : order[i] = k
  BY <1>1 DEF ListInv, Range
<1>3. PICK n \in 1..Len(order) : n = Element(k) /\ order[n] = k
  BY <1>2, Zenon DEF Element
<1>4. Without(k) = [i \in 1..(Len(order) - 1) |-> IF i < n THEN order[i] ELSE order[i + 1]]
  BY <1>3 DEF Without
<1>5. /\ Without(k) \in Seq(Key) /\ Len(Without(k)) = Len(order) - 1
      /\ IsInjective(Without(k))
      /\ Range(Without(k)) = Range(order) \ {order[n]}
  <2> HIDE DEF Without
  <2> QED BY <1>1, <1>4, DropElement DEF ListInv
<1> QED BY <1>3, <1>5 DEF ListInv

\* ... and with one in front.
LEMMA ListToFront ==
    ASSUME TypeOK, ListInv, NEW k \in Key
    PROVE  /\ ToFront(k) \in Seq(Key)
           /\ Len(ToFront(k)) = IF k \in cached THEN Len(order) ELSE Len(order) + 1
           /\ IsInjective(ToFront(k))
           /\ Range(ToFront(k)) = cached \union {k}
           /\ ToFront(k)[1] = k
<1>1. order \in Seq(Key) /\ Len(order) \in Nat
  BY LenProperties DEF TypeOK
<1>2. CASE k \in cached
  BY <1>1, <1>2, ListWithout, PushFront DEF ToFront
<1>3. CASE k \notin cached
  BY <1>1, <1>3, PushFront DEF ToFront, ListInv
<1> QED BY <1>2, <1>3

\* What lru.Add does to the list and to the map.
Old(k) == IF k \notin cached /\ MaxEntries # 0 /\ Len(order) + 1 > MaxEntries THEN {Victim} ELSE {}
LEMMA AddList ==
    ASSUME TypeOK, ListInv, NEW k \in Key, NEW e, NEW t, Add(k, e, t)
    PROVE  /\ order' \in Seq(Key) /\ order'[1] = k
           /\ IsInjective(order') /\ Range(order') = cached'
           /\ MaxEntries # 0 => Len(order') <= MaxEntries
           /\ cached' = (cached \ Old(k)) \union {k}
           /\ entry' = [j \in cached' |-> IF j = k THEN e ELSE entry[j]]
           /\ Old(k) # {} => Victim \in cached /\ k \notin cached /\ Len(order) = MaxEntries
                             /\ OnEvicted(Victim, t)
           /\ Old(k) = {} => UNCHANGED <<cacheMu, evKey, evReqs>>
<1>1. order \in Seq(Key) /\ Len(order) \in Nat /\ DOMAIN order = 1..Len(order)
  BY LenProperties DEF TypeOK
<1>2. CASE Old(k) = {}
  <2>1. /\ order' = ToFront(k)
        /\ entry' = [j \in cached \union {k} |-> IF j = k THEN e ELSE entry[j]]
        /\ UNCHANGED <<cacheMu, evKey, evReqs>>
        /\ k \in cached \/ ~(MaxEntries # 0 /\ Len(order) + 1 > MaxEntries)
    BY <1>2 DEF Old, Add
  <2>2. cached' = cached \union {k}
    BY <2>1 DEF cached
  <2>3. MaxEntries # 0 => Len(order') <= MaxEntries
    <3>1. MaxEntries \in Nat /\ Len(order) \in Nat
      BY <1>1, LruAssumption
    <3>2. Len(order') = IF k \in cached THEN Len(order) ELSE Len(order) + 1
      BY <2>1, ListToFront
    <3> QED BY <2>1, <3>1, <3>2 DEF ListInv
  <2> QED BY <1>2, <2>1, <2>2, <2>3, ListToFront
<1>3. CASE Old(k) # {}
  <2>1. /\ order' = <<k>> \o Without(Victim)
        /\ entry' = [j \in (cached \ {Victim}) \union {k} |-> IF j = k THEN e ELSE entry[j]]
        /\ OnEvicted(Victim, t)
        /\ k \notin cached /\ MaxEntries # 0 /\ Len(order) + 1 > MaxEntries
        /\ Old(k) = {Victim}
    BY <1>3 DEF Old, Add
  <2>2. cached' = (cached \ {Victim}) \union {k}
    BY <2>1 DEF cached
  <2>3. Len(order) = MaxEntries /\ Len(order) \in 1..Len(order)
    <3>1. MaxEntries \in Nat /\ MaxEntries # 0
      BY <2>1, LruAssumption
    <3>2. Len(order) <= MaxEntries /\ Len(order) + 1 > MaxEntries
      BY <2>1 DEF ListInv
    <3>3. Len(order) \in Nat
      BY <1>1
    <3> QED BY <3>1, <3>2, <3>3
  <2>4. Victim \in cached
    BY <1>1, <2>3 DEF ListInv, Range, Victim
  <2>5. /\ Without(Victim) \in Seq(Key) /\ Len(Without(Victim)) = Len(order) - 1
        /\ IsInjective(Without(Victim)) /\ Range(Without(Victim)) = cached \ {Victim}
    BY <2>4, ListWithout
  <2>6. /\ order' \in Seq(Key) /\ Len(order') = MaxEntries
        /\ IsInjective(order') /\ Range(order') = cached' /\ order'[1] = k
    BY <1>1, <2>1, <2>2, <2>3, <2>5, PushFront
  <2> QED BY <1>3, <2>1, <2>2, <2>3, <2>4, <2>6
<1> QED BY <1>2, <1>3

(***************************************************************************)
(* The inductive invariant.                                                *)
(***************************************************************************)
\* TypeOK says what Cache does of its variables, seen through Abs: with entries that
\* are Resources, three of them have their types by construction.
Types ==
    /\ order \in Seq(Key)
    /\ cached \subseteq Key
    /\ \A k \in cached : entry[k] \in Resource
    /\ now \in 0..MaxTime
    /\ cacheMu \in Caller \union {Free}
    /\ evKey \in Key \union {NoKey}
    /\ evReqs \subseteq Req
    /\ second \in [Caller -> Key \union {NoKey}]

LEMMA TypesSuffice == TypeOK <=> Types
<1>1. ASSUME Types PROVE Abs!CacheTypeOK
  <2>1. \A k \in cached : entry[k].resp \in 0..MaxVersion /\ entry[k].reqs \in SUBSET Req
    BY <1>1 DEF Types, Resource
  <2>2. 0..MaxVersion = (1..MaxVersion) \union {0}
    BY LruAssumption
  <2>3. [k \in Key |-> IF k \in cached THEN entry[k].resp ELSE NoResp]
            \in [Key -> (1..MaxVersion) \union {0}]
    BY <2>1, <2>2 DEF NoResp
  <2>4. [k \in Key |-> IF k \in cached THEN entry[k].reqs ELSE {}] \in [Key -> SUBSET Req]
    BY <2>1
  <2>5. {k \in cached : IsExpired(entry[k])} \subseteq Key
    BY <1>1 DEF Types
  <2> QED BY <1>1, <2>3, <2>4, <2>5
         DEF Types, Caller, Abs!CacheTypeOK, Abs!Version, Abs!NoResp
<1>2. ASSUME TypeOK PROVE Types
  BY <1>2 DEF TypeOK, Types, Abs!CacheTypeOK, Caller
<1> QED BY <1>1, <1>2 DEF TypeOK, Types

LEMMA TypesSufficeNext == TypeOK' <=> Types'
BY TypesSuffice, PTL

\* An entry has a response, requests and an ExpirationTime within the bounds.
LEMMA NewExpiration == TypeOK => ExpirationTime \in 0..MaxTime + TTL
BY LruAssumption DEF TypeOK, ExpirationTime

LEMMA InitIInv == Init => IInv
<1> SUFFICES ASSUME Init PROVE IInv
  OBVIOUS
<1> USE LruAssumption
<1>1. cached = {} /\ order = <<>>
  BY DEF Init, cached
<1>2. order \in Seq(Key) /\ Len(order) = 0 /\ DOMAIN order = {}
  BY <1>1
<1>3. Types
  BY <1>1, <1>2 DEF Init, Types
<1>4. ListInv
  BY <1>1, <1>2 DEF ListInv, IsInjective, Range
<1>5. UsedInv
  BY <1>1 DEF UsedInv
<1> QED BY <1>3, <1>4, <1>5, TypesSuffice DEF IInv

\* An operation that adds, or replaces, an entry.
LEMMA AddInv ==
    ASSUME IInv, NEW k \in Key, NEW t \in Caller, NEW e \in Resource, Add(k, e, t),
           touched' = k, UNCHANGED <<now, second>>
    PROVE  IInv'
<1>1. TypeOK /\ Types /\ ListInv
  BY TypesSuffice DEF IInv
<1>2. ListInv' /\ UsedInv' /\ order' \in Seq(Key)
  BY <1>1, AddList DEF ListInv, UsedInv
<1>3. cached' \subseteq Key /\ \A j \in cached' : entry'[j] \in Resource
  BY <1>1, AddList DEF Types
<1>4. cacheMu' \in Caller \union {Free} /\ evKey' \in Key \union {NoKey} /\ evReqs' \subseteq Req
  <2>1. CASE Old(k) = {}
    BY <1>1, <2>1, AddList DEF Types
  <2>2. CASE Old(k) # {}
    <3>1. Victim \in cached /\ OnEvicted(Victim, t)
      BY <1>1, <2>2, AddList
    <3> QED BY <1>1, <3>1 DEF OnEvicted, Types, Resource
  <2> QED BY <2>1, <2>2
<1>5. Types'
  BY <1>1, <1>2, <1>3, <1>4 DEF Types
<1> QED BY <1>2, <1>5, TypesSufficeNext DEF IInv

\* One that removes an entry.
LEMMA RemoveInv ==
    ASSUME IInv, NEW k \in cached, NEW t \in Caller, Remove(k, t), touched' = k, now' = now,
           second' \in [Caller -> Key \union {NoKey}]
    PROVE  IInv'
<1>1. TypeOK /\ Types /\ ListInv
  BY TypesSuffice DEF IInv
<1>2. cached' = cached \ {k} /\ \A j \in cached' : entry'[j] = entry[j]
  BY DEF Remove, Restrict, cached
<1>3. ListInv' /\ order' \in Seq(Key)
  <2>1. MaxEntries # 0 => Len(order) - 1 <= MaxEntries
    <3>1. MaxEntries \in Nat /\ Len(order) \in Nat
      BY <1>1, LruAssumption, LenProperties DEF TypeOK
    <3> QED BY <1>1, <3>1 DEF ListInv
  <2> QED BY <1>1, <1>2, <2>1, ListWithout DEF Remove, ListInv
<1>4. UsedInv'
  BY <1>2 DEF UsedInv
<1>5. Types'
  BY <1>1, <1>2, <1>3 DEF Remove, OnEvicted, Types, Resource
<1> QED BY <1>3, <1>4, <1>5, TypesSufficeNext DEF IInv

\* One that only uses an entry.
LEMMA UseInv ==
    ASSUME IInv, NEW k \in cached, order' = ToFront(k), touched' = k,
           UNCHANGED <<entry, now, cacheMu, evKey, evReqs>>,
           second' \in [Caller -> Key \union {NoKey}]
    PROVE  IInv'
<1>1. TypeOK /\ Types /\ ListInv
  BY TypesSuffice DEF IInv
<1>2. cached' = cached /\ k \in Key
  BY <1>1 DEF cached, Types
<1>3. ListInv' /\ UsedInv' /\ order' \in Seq(Key)
  BY <1>1, <1>2, ListToFront DEF ListInv, UsedInv
<1>4. Types'
  BY <1>1, <1>2, <1>3 DEF Types
<1> QED BY <1>3, <1>4, TypesSufficeNext DEF IInv

\* And one that leaves list and map alone.
LEMMA QuietInv ==
    ASSUME IInv, UNCHANGED <<order, entry, touched>>, Types'
    PROVE  IInv'
BY TypesSufficeNext DEF IInv, ListInv, UsedInv, cached

\* The entry each operation of the cache puts in the map.
LEMMA AddRequestInv ==
    ASSUME IInv, NEW k \in Key, NEW t \in Caller, NEW r \in Req, AddRequest(k, r, t)
    PROVE  IInv'
<1> DEFINE e == IF k \in cached
                THEN [entry[k] EXCEPT !.reqs = @ \union {r}]
                ELSE [resp |-> NoResp, reqs |-> {r}, exp |-> ExpirationTime]
<1>1. Add(k, e, t) /\ touched' = k /\ UNCHANGED <<now, second>>
  BY DEF AddRequest
<1>2. e \in Resource
  <2>1. CASE k \in cached
    BY <2>1, TypesSuffice DEF IInv, Types, Resource
  <2>2. CASE k \notin cached
    BY <2>2, NewExpiration, LruAssumption DEF IInv, Resource, NoResp
  <2> QED BY <2>1, <2>2
<1> QED BY <1>1, <1>2, AddInv

LEMMA SetResponseInv ==
    ASSUME IInv, NEW k \in Key, NEW t \in Caller, NEW v \in 1..MaxVersion, SetResponse(k, v, t)
    PROVE  IInv'
<1> DEFINE e == [resp |-> v, exp |-> ExpirationTime,
                 reqs |-> IF k \in cached THEN entry[k].reqs ELSE {}]
<1>1. Add(k, e, t) /\ touched' = k /\ UNCHANGED <<now, second>>
  BY DEF SetResponse
<1>2. e \in Resource
  <2>1. (IF k \in cached THEN entry[k].reqs ELSE {}) \subseteq Req
    BY TypesSuffice DEF IInv, Types, Resource
  <2>2. v \in 0..MaxVersion /\ ExpirationTime \in 0..MaxTime + TTL
    BY NewExpiration, LruAssumption DEF IInv
  <2> QED BY <2>1, <2>2 DEF Resource
<1> QED BY <1>1, <1>2, AddInv

LEMMA DeleteRequestInv ==
    ASSUME IInv, NEW k \in Key, NEW t \in Caller, NEW r \in Req, DeleteRequest(k, r, t)
    PROVE  IInv'
<1> DEFINE e == [entry[k] EXCEPT !.reqs = @ \ {r}]
<1>1. Add(k, e, t) /\ touched' = k /\ k \in cached /\ UNCHANGED <<now, second>>
  BY DEF DeleteRequest
<1>2. e \in Resource
  BY <1>1, TypesSuffice DEF IInv, Types, Resource
<1> QED BY <1>1, <1>2, AddInv

LEMMA DeleteKeyInv ==
    ASSUME IInv, NEW k \in Key, NEW t \in Caller, DeleteKey(k, t)
    PROVE  IInv'
<1>1. second \in [Caller -> Key \union {NoKey}]
  BY DEF IInv, TypeOK
<1> QED BY <1>1, RemoveInv DEF DeleteKey

LEMMA FetchInv ==
    ASSUME IInv, NEW k \in Key, NEW t \in Caller, Fetch(k, t)
    PROVE  IInv'
<1>1. second' \in [Caller -> Key \union {NoKey}]
  BY DEF IInv, TypeOK, Fetch
<1> QED BY <1>1, UseInv DEF Fetch

LEMMA FetchAgainInv ==
    ASSUME IInv, NEW t \in Caller, FetchAgain(t)
    PROVE  IInv'
<1> DEFINE k == second[t]
<1>1. second' \in [Caller -> Key \union {NoKey}] /\ now' = now
  BY DEF IInv, TypeOK, FetchAgain
<1>2. CASE k \notin cached
  <2>1. UNCHANGED <<order, entry, touched, cacheMu, evKey, evReqs>>
    BY <1>2 DEF FetchAgain
  <2>2. Types'
    BY <1>1, <2>1, TypesSuffice DEF IInv, Types, cached
  <2> QED BY <2>1, <2>2, QuietInv
<1>3. CASE k \in cached /\ IsExpired(entry[k])
  BY <1>1, <1>3, RemoveInv DEF FetchAgain
<1>4. CASE k \in cached /\ ~IsExpired(entry[k])
  BY <1>1, <1>4, UseInv DEF FetchAgain
<1> QED BY <1>2, <1>3, <1>4

LEMMA StepIInv == IInv /\ [Next]_vars => IInv'
<1> SUFFICES ASSUME IInv, [Next]_vars PROVE IInv'
  OBVIOUS
<1>1. ASSUME NEW t \in Caller, NEW k \in Key, NEW r \in Req,
             AddRequest(k, r, t) \/ DeleteRequest(k, r, t)
      PROVE  IInv'
  BY <1>1, AddRequestInv, DeleteRequestInv
<1>2. ASSUME NEW t \in Caller, NEW k \in Key, NEW v \in 1..MaxVersion, SetResponse(k, v, t)
      PROVE  IInv'
  BY <1>2, SetResponseInv
<1>3. ASSUME NEW t \in Caller, NEW k \in Key, DeleteKey(k, t) \/ Fetch(k, t) PROVE IInv'
  BY <1>3, DeleteKeyInv, FetchInv
<1>4. ASSUME NEW t \in Caller, FetchAgain(t) PROVE IInv'
  BY <1>4, FetchAgainInv
<1>5. CASE EvictReturn
  <2>1. Types'
    BY <1>5, TypesSuffice DEF EvictReturn, IInv, Types, cached
  <2> QED BY <1>5, <2>1, QuietInv DEF EvictReturn
<1>6. CASE Tick
  <2>1. now' \in 0..MaxTime
    BY <1>6, LruAssumption DEF Tick, IInv, TypeOK
  <2>2. Types'
    BY <1>6, <2>1, TypesSuffice DEF Tick, IInv, Types, cached
  <2> QED BY <1>6, <2>2, QuietInv DEF Tick
<1>7. CASE UNCHANGED vars
  <2>1. Types'
    BY <1>7, TypesSuffice DEF vars, IInv, Types, cached
  <2> QED BY <1>7, <2>1, QuietInv DEF vars
<1> QED BY <1>1, <1>2, <1>3, <1>4, <1>5, <1>6, <1>7 DEF Next

\* For any keys, requests, time to live and number of entries, the inductive
\* invariant holds.
THEOREM LruInvariance == Spec => []IInv
BY InitIInv, StepIInv, PTL DEF Spec

\* Every variable keeps its type, and so do those of Cache, seen through Abs.
THEOREM LruTypeCorrect == Spec => []TypeOK
<1>1. IInv => TypeOK
  BY DEF IInv
<1> QED BY <1>1, LruInvariance, PTL

\* List and map of lru.Cache have the same keys, as many, and at most MaxEntries.
THEOREM ListsMatch == Spec => []ListMatchesEntries
<1>1. IInv => ListMatchesEntries
  BY LengthIsCardinality DEF IInv, TypeOK, ListInv, ListMatchesEntries
<1> QED BY <1>1, LruInvariance, PTL

(***************************************************************************)
(* Action properties.                                                      *)
(***************************************************************************)
\* What the last lookup of a Fetch removes.
RemovedExpired ==
    \A t \in Caller :
        second[t] # NoKey /\ second'[t] = NoKey =>
            cached \ cached' \subseteq {k \in cached : entry[k].exp < now}

\* Only the second lookup of caller t ends its Fetch.
LEMMA StepRemovedExpired == IInv /\ [Next]_vars => [RemovedExpired]_vars
<1> SUFFICES ASSUME IInv, Next PROVE RemovedExpired
  BY DEF vars
<1>1. second \in [Caller -> Key \union {NoKey}]
  BY DEF IInv, TypeOK
<1>2. CASE UNCHANGED second
  BY <1>2 DEF RemovedExpired
<1>3. ASSUME NEW t \in Caller, NEW k \in Key,
             \/ \E r \in Req : AddRequest(k, r, t) \/ DeleteRequest(k, r, t)
             \/ \E v \in 1..MaxVersion : SetResponse(k, v, t)
             \/ DeleteKey(k, t)
      PROVE  UNCHANGED second
  BY <1>3 DEF AddRequest, DeleteRequest, SetResponse, DeleteKey
<1>4. CASE EvictReturn \/ Tick
  BY <1>2, <1>4 DEF EvictReturn, Tick
<1>5. ASSUME NEW t \in Caller, NEW k \in Key, Fetch(k, t) PROVE RemovedExpired
  BY <1>1, <1>5 DEF Fetch, Enter, RemovedExpired
<1>6. ASSUME NEW t \in Caller, FetchAgain(t) PROVE RemovedExpired
  <2>1. cached \ cached' \subseteq {k \in cached : entry[k].exp < now}
    <3>1. CASE entry' = entry
      BY <3>1 DEF cached
    <3>2. CASE second[t] \in cached /\ IsExpired(entry[second[t]]) /\ Remove(second[t], t)
      BY <3>2 DEF Remove, Restrict, cached, IsExpired
    <3> QED BY <1>6, <3>1, <3>2 DEF FetchAgain
  <2> QED BY <2>1 DEF RemovedExpired
<1> QED BY <1>2, <1>3, <1>4, <1>5, <1>6 DEF Next

\* Fetch removes an entry only when its time is over at that very moment, not when
\* it was over at the first lookup (cache.go:131-133).
THEOREM FetchRemovesOnlyExpired == Spec => RemovesOnlyExpired
<1>1. IInv /\ [Next]_vars => [RemovedExpired]_vars
  BY StepRemovedExpired
<1>2. Spec => [][RemovedExpired]_vars
  BY <1>1, LruInvariance, PTL DEF Spec
<1> QED BY <1>2 DEF RemovesOnlyExpired, RemovedExpired

\* The last key of a list of two or more is not the first, and an insertion evicts
\* no other.
UsedSurvives ==
    MaxEntries > 1 /\ cached' \ cached # {} => touched \notin cached \ cached'

LEMMA AddUsed ==
    ASSUME IInv, NEW k \in Key, NEW t \in Caller, NEW e, Add(k, e, t)
    PROVE  UsedSurvives
<1>1. TypeOK /\ ListInv
  BY DEF IInv
<1>2. cached' = (cached \ Old(k)) \union {k}
  BY <1>1, AddList
<1>3. CASE Old(k) = {}
  BY <1>2, <1>3 DEF UsedSurvives
<1>4. CASE Old(k) # {}
  <2>1. Old(k) = {Victim} /\ Victim \in cached /\ Len(order) = MaxEntries
    BY <1>1, <1>4, AddList DEF Old
  <2>2. ASSUME MaxEntries > 1, touched \in cached PROVE Victim # touched
    <3>1. DOMAIN order = 1..MaxEntries /\ MaxEntries \in Nat
      BY <1>1, <2>1, LenProperties, LruAssumption DEF TypeOK
    <3>2. 1 \in DOMAIN order /\ MaxEntries \in DOMAIN order /\ MaxEntries # 1
      BY <2>2, <3>1
    <3>3. order[1] # order[MaxEntries]
      BY <1>1, <3>2 DEF ListInv, IsInjective
    <3> QED BY <2>1, <2>2, <3>3 DEF IInv, UsedInv, Victim
  <2> QED BY <1>2, <2>1, <2>2 DEF UsedSurvives
<1> QED BY <1>3, <1>4

LEMMA StepUsedSurvives == IInv /\ [Next]_vars => [UsedSurvives]_vars
<1> SUFFICES ASSUME IInv, Next PROVE UsedSurvives
  BY DEF vars
<1>1. ASSUME cached' \subseteq cached PROVE UsedSurvives
  BY <1>1 DEF UsedSurvives
<1>2. ASSUME NEW t \in Caller, NEW k \in Key, NEW r \in Req,
             AddRequest(k, r, t) \/ DeleteRequest(k, r, t)
      PROVE  UsedSurvives
  BY <1>2, AddUsed DEF AddRequest, DeleteRequest
<1>3. ASSUME NEW t \in Caller, NEW k \in Key, NEW v \in 1..MaxVersion, SetResponse(k, v, t)
      PROVE  UsedSurvives
  BY <1>3, AddUsed DEF SetResponse
<1>4. ASSUME NEW t \in Caller, NEW k \in Key, DeleteKey(k, t) \/ Fetch(k, t)
      PROVE  UsedSurvives
  BY <1>1, <1>4 DEF DeleteKey, Fetch, Remove, Restrict, cached
<1>5. ASSUME NEW t \in Caller, FetchAgain(t) PROVE UsedSurvives
  BY <1>1, <1>5 DEF FetchAgain, Remove, Restrict, cached
<1>6. CASE EvictReturn \/ Tick
  BY <1>1, <1>6 DEF EvictReturn, Tick, cached
<1> QED BY <1>2, <1>3, <1>4, <1>5, <1>6 DEF Next

\* With room for two entries or more, the key of the last operation, a read included,
\* is not the one an insertion evicts.
THEOREM InsertionSparesLastUsed == Spec => LastUsedSurvives
<1>1. IInv /\ [Next]_vars => [UsedSurvives]_vars
  BY StepUsedSurvives
<1>2. Spec => [][UsedSurvives]_vars
  BY <1>1, LruInvariance, PTL DEF Spec
<1> QED BY <1>2 DEF LastUsedSurvives, UsedSurvives

(***************************************************************************)
(* The refinement of Cache.                                                *)
(***************************************************************************)
\* The variables of Cache, seen through Abs.
absResp == [k \in Key |-> IF k \in cached THEN entry[k].resp ELSE NoResp]
absReqs == [k \in Key |-> IF k \in cached THEN entry[k].reqs ELSE {}]
absExpired == {k \in cached : IsExpired(entry[k])}

\* FiniteSets is the same for both modules.
LEMMA SameCardinality == \A S : Abs!Cardinality(S) = Cardinality(S)
BY DEF Abs!Cardinality, Cardinality

\* The cache is full for the one when it is for the other.
LEMMA FullRefines ==
    ASSUME IInv PROVE Abs!Full <=> MaxEntries # 0 /\ Len(order) + 1 > MaxEntries
<1>1. order \in Seq(Key) /\ Len(order) \in Nat /\ MaxEntries \in Nat
  BY LenProperties, LruAssumption DEF IInv, TypeOK
<1>2. Cardinality(cached) = Len(order)
  BY <1>1, LengthIsCardinality DEF IInv, ListInv
<1>3. Abs!Full <=> MaxEntries # 0 /\ Len(order) >= MaxEntries
  BY <1>2, SameCardinality DEF Abs!Full
<1>4. Len(order) \in Nat /\ MaxEntries \in Nat
  BY <1>1
<1> QED BY <1>3, <1>4

\* lru.Add is one of the two steps Cache has for it.
LEMMA AddRefines ==
    ASSUME IInv, NEW k \in Key, NEW t \in Caller, NEW e \in Resource, Add(k, e, t),
           now' = now, k \notin cached => ~IsExpired(e)
    PROVE  \/ Abs!Update(k, e.resp, e.reqs, {j \in cached : IsExpired(IF j = k THEN e ELSE entry[j])})
           \/ Abs!Insert(k, e.resp, e.reqs, t)
<1>1. TypeOK /\ ListInv /\ cached \subseteq Key
  BY DEF IInv, TypeOK
<1>2. /\ cached' = (cached \ Old(k)) \union {k}
      /\ entry' = [j \in cached' |-> IF j = k THEN e ELSE entry[j]]
  BY <1>1, AddList
<1>3. \A x : IsExpired(x)' <=> IsExpired(x)
  BY DEF IsExpired
<1>4. absResp' = [j \in Key |-> IF j = k THEN e.resp ELSE IF j \in Old(k) THEN NoResp ELSE absResp[j]]
  BY <1>2 DEF absResp
<1>5. absReqs' = [j \in Key |-> IF j = k THEN e.reqs ELSE IF j \in Old(k) THEN {} ELSE absReqs[j]]
  BY <1>2 DEF absReqs
<1>6. absExpired' = {j \in cached' : IsExpired(IF j = k THEN e ELSE entry[j])}
  BY <1>2 DEF absExpired, IsExpired
<1>7. CASE k \in cached
  <2>1. Old(k) = {} /\ cached' = cached /\ UNCHANGED <<cacheMu, evKey, evReqs>>
    BY <1>1, <1>2, <1>7, AddList DEF Old
  <2>2. absResp' = [absResp EXCEPT ![k] = e.resp] /\ absReqs' = [absReqs EXCEPT ![k] = e.reqs]
    BY <1>4, <1>5, <2>1 DEF absResp, absReqs
  <2> QED BY <1>6, <1>7, <2>1, <2>2 DEF Abs!Update, absResp, absReqs, absExpired
<1>8. CASE k \notin cached /\ Old(k) = {}
  <2>1. cached' = cached \union {k} /\ UNCHANGED <<cacheMu, evKey, evReqs>> /\ ~Abs!Full
    BY <1>1, <1>2, <1>8, AddList, FullRefines DEF Old
  <2>2. absResp' = [absResp EXCEPT ![k] = e.resp] /\ absReqs' = [absReqs EXCEPT ![k] = e.reqs]
    BY <1>4, <1>5, <1>8 DEF absResp, absReqs
  <2>3. absExpired' = absExpired
    BY <1>6, <1>8, <2>1 DEF absExpired
  <2> QED BY <1>8, <2>1, <2>2, <2>3 DEF Abs!Insert, absResp, absReqs, absExpired
<1>9. CASE k \notin cached /\ Old(k) # {}
  <2>1. Old(k) = {Victim} /\ Victim \in cached /\ Victim # k /\ OnEvicted(Victim, t) /\ Abs!Full
    BY <1>1, <1>9, AddList, FullRefines DEF Old
  <2>2. /\ absResp' = [absResp EXCEPT ![Victim] = NoResp, ![k] = e.resp]
        /\ absReqs' = [absReqs EXCEPT ![Victim] = {}, ![k] = e.reqs]
    BY <1>1, <1>4, <1>5, <2>1 DEF absResp, absReqs
  <2>3. absExpired' = absExpired \ {Victim} /\ cached' = (cached \ {Victim}) \union {k}
    BY <1>2, <1>6, <1>9, <2>1 DEF absExpired
  <2>4. Abs!OnEvicted(Victim, t)
    BY <1>1, <2>1 DEF OnEvicted, Abs!OnEvicted
  <2> QED BY <1>9, <2>1, <2>2, <2>3, <2>4 DEF Abs!Insert, absResp, absReqs, absExpired, Abs!NoResp, NoResp
<1> QED BY <1>7, <1>8, <1>9

\* lru.Remove is Remove.
LEMMA RemoveRefines ==
    ASSUME IInv, NEW k \in cached, NEW t \in Caller, Remove(k, t), now' = now
    PROVE  Abs!Remove(k, t)
<1>1. cached \subseteq Key
  BY DEF IInv, TypeOK
<1>2. cached' = cached \ {k} /\ \A j \in cached' : entry'[j] = entry[j]
  BY DEF Remove, Restrict, cached
<1>3. absResp' = [absResp EXCEPT ![k] = NoResp] /\ absReqs' = [absReqs EXCEPT ![k] = {}]
  BY <1>1, <1>2 DEF absResp, absReqs
<1>4. absExpired' = absExpired \ {k}
  BY <1>2 DEF absExpired, IsExpired
<1>5. Abs!OnEvicted(k, t)
  BY <1>1 DEF Remove, OnEvicted, Abs!OnEvicted
<1> QED BY <1>2, <1>3, <1>4, <1>5 DEF Abs!Remove, absResp, absReqs, absExpired, Abs!NoResp, NoResp

\* The operations of the cache.
LEMMA AddRequestRefines ==
    ASSUME IInv, NEW k \in Key, NEW t \in Caller, NEW r \in Req, AddRequest(k, r, t)
    PROVE  Abs!AddRequest(k, r, t)
<1> DEFINE e == IF k \in cached
                THEN [entry[k] EXCEPT !.reqs = @ \union {r}]
                ELSE [resp |-> NoResp, reqs |-> {r}, exp |-> ExpirationTime]
<1>1. Add(k, e, t) /\ now' = now /\ Abs!Unlocked
  BY DEF AddRequest, Enter, Unlocked, Abs!Unlocked
<1>2. CASE k \in cached
  <2>1. /\ e \in Resource /\ e.resp = absResp[k] /\ e.reqs = absReqs[k] \union {r}
        /\ e.exp = entry[k].exp
    BY <1>2, TypesSuffice DEF IInv, Types, Resource, absResp, absReqs
  <2>2. {j \in cached : IsExpired(IF j = k THEN e ELSE entry[j])} = absExpired
    BY <2>1 DEF IsExpired, absExpired
  <2>3. Abs!Update(k, absResp[k], absReqs[k] \union {r}, absExpired)
    <3> HIDE DEF e
    <3>1. \/ Abs!Update(k, e.resp, e.reqs, {j \in cached : IsExpired(IF j = k THEN e ELSE entry[j])})
          \/ Abs!Insert(k, e.resp, e.reqs, t)
      BY <1>1, <1>2, <2>1, AddRefines
    <3>2. ~Abs!Insert(k, e.resp, e.reqs, t)
      BY <1>2 DEF Abs!Insert
    <3> QED BY <2>1, <2>2, <3>1, <3>2 DEF Abs!Update
  <2> QED BY <1>1, <2>3 DEF Abs!AddRequest, absResp, absReqs, absExpired
<1>3. CASE k \notin cached
  <2>1. e \in Resource /\ e.resp = NoResp /\ e.reqs = {r} /\ e.exp = ExpirationTime
    BY <1>3, NewExpiration, LruAssumption DEF IInv, Resource, NoResp
  <2>2. ~IsExpired(e)
    BY <2>1, LruAssumption DEF IsExpired, ExpirationTime, IInv, TypeOK
  <2>3. Abs!Insert(k, NoResp, {r}, t)
    <3> HIDE DEF e
    <3>1. \/ Abs!Update(k, e.resp, e.reqs, {j \in cached : IsExpired(IF j = k THEN e ELSE entry[j])})
          \/ Abs!Insert(k, e.resp, e.reqs, t)
      BY <1>1, <2>1, <2>2, AddRefines
    <3> QED BY <1>3, <2>1, <3>1 DEF Abs!Update
  <2> QED BY <1>1, <2>3 DEF Abs!AddRequest, Abs!NoResp, NoResp
<1> QED BY <1>2, <1>3

LEMMA SetResponseRefines ==
    ASSUME IInv, NEW k \in Key, NEW t \in Caller, NEW v \in 1..MaxVersion, SetResponse(k, v, t)
    PROVE  Abs!SetResponse(k, v, t)
<1> DEFINE e == [resp |-> v, exp |-> ExpirationTime,
                 reqs |-> IF k \in cached THEN entry[k].reqs ELSE {}]
<1>1. Add(k, e, t) /\ now' = now /\ Abs!Unlocked
  BY DEF SetResponse, Enter, Unlocked, Abs!Unlocked
<1>2. e \in Resource /\ e.resp = v /\ e.exp = ExpirationTime
  <2>1. (IF k \in cached THEN entry[k].reqs ELSE {}) \subseteq Req
    BY TypesSuffice DEF IInv, Types, Resource
  <2>2. v \in 0..MaxVersion /\ ExpirationTime \in 0..MaxTime + TTL
    BY NewExpiration, LruAssumption DEF IInv
  <2> QED BY <2>1, <2>2 DEF Resource
<1>3. ~IsExpired(e)
  BY <1>2, LruAssumption DEF IsExpired, ExpirationTime, IInv, TypeOK
<1>4. e.reqs = absReqs[k]
  BY DEF absReqs
<1>5. {j \in cached : IsExpired(IF j = k THEN e ELSE entry[j])} = absExpired \ {k}
  <2> HIDE DEF e
  <2> QED BY <1>3 DEF absExpired
<1>6. \/ Abs!Update(k, v, absReqs[k], absExpired \ {k})
      \/ Abs!Insert(k, v, absReqs[k], t)
  <2> HIDE DEF e
  <2>1. \/ Abs!Update(k, e.resp, e.reqs, {j \in cached : IsExpired(IF j = k THEN e ELSE entry[j])})
        \/ Abs!Insert(k, e.resp, e.reqs, t)
    BY <1>1, <1>2, <1>3, AddRefines
  <2> QED BY <1>2, <1>4, <1>5, <2>1 DEF Abs!Update, Abs!Insert
<1>7. k \notin cached => absReqs[k] = {}
  BY DEF absReqs
<1>8. CASE k \in cached
  BY <1>1, <1>6, <1>8 DEF Abs!SetResponse, Abs!Insert, absReqs, absExpired
<1>9. CASE k \notin cached
  BY <1>1, <1>6, <1>7, <1>9 DEF Abs!SetResponse, Abs!Update
<1> QED BY <1>8, <1>9

LEMMA DeleteRequestRefines ==
    ASSUME IInv, NEW k \in Key, NEW t \in Caller, NEW r \in Req, DeleteRequest(k, r, t)
    PROVE  Abs!DeleteRequest(k, r)
<1> DEFINE e == [entry[k] EXCEPT !.reqs = @ \ {r}]
<1>1. Add(k, e, t) /\ now' = now /\ Abs!Unlocked /\ k \in cached
  BY DEF DeleteRequest, Enter, Unlocked, Abs!Unlocked
<1>2. /\ e \in Resource /\ e.resp = absResp[k] /\ e.reqs = absReqs[k] \ {r}
      /\ e.exp = entry[k].exp
  BY <1>1, TypesSuffice DEF IInv, Types, Resource, absResp, absReqs
<1>3. {j \in cached : IsExpired(IF j = k THEN e ELSE entry[j])} = absExpired
  BY <1>2 DEF IsExpired, absExpired
<1>4. Abs!Update(k, absResp[k], absReqs[k] \ {r}, absExpired)
  <2> HIDE DEF e
  <2>1. \/ Abs!Update(k, e.resp, e.reqs, {j \in cached : IsExpired(IF j = k THEN e ELSE entry[j])})
        \/ Abs!Insert(k, e.resp, e.reqs, t)
    BY <1>1, <1>2, AddRefines
  <2>2. ~Abs!Insert(k, e.resp, e.reqs, t)
    BY <1>1 DEF Abs!Insert
  <2> QED BY <1>2, <1>3, <2>1, <2>2 DEF Abs!Update
<1> QED BY <1>1, <1>4 DEF Abs!DeleteRequest, absResp, absReqs, absExpired

\* A read of an entry that is not expired, or not there, is no step of Cache.
LEMMA QuietRefines ==
    ASSUME UNCHANGED <<entry, now, cacheMu, evKey, evReqs>>
    PROVE  UNCHANGED Abs!cacheVars
BY DEF Abs!cacheVars, cached, IsExpired

LEMMA FetchAgainRefines ==
    ASSUME IInv, NEW t \in Caller, FetchAgain(t)
    PROVE  UNCHANGED Abs!cacheVars \/ \E k \in Key : Abs!FetchExpired(k, t)
<1> DEFINE k == second[t]
<1>1. CASE UNCHANGED <<entry, cacheMu, evKey, evReqs>>
  BY <1>1, QuietRefines DEF FetchAgain
<1>2. CASE k \in cached /\ IsExpired(entry[k]) /\ Remove(k, t)
  <2>1. k \in Key /\ k \in absExpired /\ Abs!Unlocked
    BY <1>2 DEF IInv, TypeOK, absExpired, FetchAgain, Unlocked, Abs!Unlocked
  <2>2. Abs!Remove(k, t)
    BY <1>2, RemoveRefines DEF FetchAgain
  <2> QED BY <2>1, <2>2 DEF Abs!FetchExpired, absExpired
<1> QED BY <1>1, <1>2 DEF FetchAgain

\* With the clock, entries expire, and none comes back to life.
LEMMA TickRefines ==
    ASSUME IInv, Tick
    PROVE  UNCHANGED Abs!cacheVars \/ \E K \in SUBSET (cached \ absExpired) : Abs!Expire(K)
<1>1. UNCHANGED <<cached, entry, cacheMu, evKey, evReqs>>
  BY DEF Tick, cached
<1>2. CASE TTL = 0
  <2>1. \A x : ~IsExpired(x) /\ ~IsExpired(x)'
    BY <1>2 DEF IsExpired
  <2> QED BY <1>1, <2>1 DEF Abs!cacheVars, cached
<1>3. CASE TTL > 0
  <2> DEFINE K == {k \in cached \ absExpired : entry[k].exp < now'}
  <2>1. now \in Nat /\ now' = now + 1 /\ \A k \in cached : entry[k].exp \in Nat
    <3>1. \A k \in cached : entry[k].exp \in 0..MaxTime + TTL
      BY DEF IInv, TypeOK, Resource
    <3> QED BY <3>1, LruAssumption DEF Tick, IInv, TypeOK
  <2>2. absExpired' = absExpired \union K
    BY <1>1, <1>3, <2>1 DEF absExpired, IsExpired
  <2>3. Abs!Expire(K)
    <3> HIDE DEF K
    <3> QED BY <1>1, <1>3, <2>2 DEF Abs!Expire, absExpired
  <2> QED BY <2>3
<1> QED BY <1>2, <1>3, LruAssumption

LEMMA InitRefines == Init => Abs!CacheInit
<1> SUFFICES ASSUME Init PROVE Abs!CacheInit
  OBVIOUS
<1>1. cached = {}
  BY DEF Init, cached
<1> QED BY <1>1 DEF Init, Abs!CacheInit, Abs!NoResp, NoResp

LEMMA StepRefines == IInv /\ [Next]_vars => [Abs!CacheNext]_Abs!cacheVars
<1> SUFFICES ASSUME IInv, [Next]_vars PROVE [Abs!CacheNext]_Abs!cacheVars
  OBVIOUS
<1>1. ASSUME NEW t \in Caller, NEW k \in Key, Abs!CacheOp(t) PROVE Abs!CacheNext
  BY <1>1 DEF Abs!CacheNext, Caller
<1>2. ASSUME NEW t \in Caller, NEW k \in Key, NEW r \in Req,
             AddRequest(k, r, t) \/ DeleteRequest(k, r, t)
      PROVE  Abs!CacheNext
  BY <1>1, <1>2, AddRequestRefines, DeleteRequestRefines DEF Abs!CacheOp
<1>3. ASSUME NEW t \in Caller, NEW k \in Key, NEW v \in 1..MaxVersion, SetResponse(k, v, t)
      PROVE  Abs!CacheNext
  BY <1>1, <1>3, SetResponseRefines DEF Abs!CacheOp, Abs!Version
<1>4. ASSUME NEW t \in Caller, NEW k \in Key, DeleteKey(k, t) PROVE Abs!CacheNext
  <2>1. Abs!DeleteKey(k, t)
    BY <1>4, RemoveRefines DEF DeleteKey, Enter, Unlocked, Abs!Unlocked, Abs!DeleteKey
  <2> QED BY <1>1, <2>1 DEF Abs!CacheOp
<1>5. ASSUME NEW t \in Caller, NEW k \in Key, Fetch(k, t) PROVE UNCHANGED Abs!cacheVars
  BY <1>5, QuietRefines DEF Fetch
<1>6. ASSUME NEW t \in Caller, FetchAgain(t) PROVE [Abs!CacheNext]_Abs!cacheVars
  BY <1>1, <1>6, FetchAgainRefines DEF Abs!CacheOp
<1>7. CASE EvictReturn
  BY <1>7 DEF EvictReturn, Unlocked, Abs!EvictReturn, Abs!Unlocked, Abs!CacheNext, cached, IsExpired
<1>8. CASE Tick
  BY <1>8, TickRefines DEF Abs!CacheNext, absExpired
<1>9. CASE UNCHANGED vars
  BY <1>9, QuietRefines DEF vars
<1> QED BY <1>2, <1>3, <1>4, <1>5, <1>6, <1>7, <1>8, <1>9 DEF Next

\* The list, the clock and the two lookups of Fetch implement the cache the
\* orchestrator is proved correct with: what leaves for want of room or of time,
\* and what the callback is handed, is what Cache says.
THEOREM LruImplementsCache == Spec => ImplementsCache
BY InitRefines, StepRefines, LruInvariance, PTL DEF Spec, ImplementsCache, Abs!CacheSpec
=============================================================================
