-------------------------- MODULE AdminServerProofs --------------------------
(***************************************************************************)
(* Proofs about AdminServer, for any keys, requests, patterns and          *)
(* responses: the inductive invariant IInv and the safety properties.      *)
(***************************************************************************)
EXTENDS AdminServer, CacheProofs

(***************************************************************************)
(* What the relay does between two steps of the handler, and what the      *)
(* handler does to the relay: every step is a RelayStep or leaves the      *)
(* cache and the watches alone.                                            *)
(***************************************************************************)
\* The watch of r, once made, is not made again; it stays served by its entry, or by
\* a callback that is to close it.
Follows(r) ==
    /\ watch[r] # "none" => watch'[r] # "none" /\ (r \in Open' => r \in Open)
    /\ r \in Open' /\ cb /\ r \in evReqs => cb' /\ r \in evReqs'
    /\ r \in Open' /\ r \in reqs[KeyOf[r]] => r \in reqs'[KeyOf[r]] \/ (cb' /\ r \in evReqs')

Kept == RelayTypeOK' /\ EvictInv' /\ KeepsResponses /\ \A r \in Req : Follows(r)

\* A cache operation that may evict.
LEMMA EvictingKept ==
    ASSUME RelayTypeOK, EvictInv, CacheTypeOK', Keeping, Evicting, Unlocked,
           \A r \in Req : watch[r] # "none" => watch'[r] # "none" /\ (r \in Open' => r \in Open),
           watch' \in [Req -> {"none", "made", "open", "closed"}]
    PROVE  Kept
<1>1. RelayTypeOK'
  BY DEF RelayTypeOK, Evicting
<1>2. EvictInv'
  BY DEF EvictInv, Evicting, Keeping, Unlocked
<1>3. ASSUME NEW r \in Req PROVE Follows(r)
  <2>1. ~cb /\ KeyOf[r] \in Key
    BY RelayAssumption DEF EvictInv
  <2>2. reqs[KeyOf[r]] \subseteq reqs'[KeyOf[r]] \/ (cb' /\ reqs[KeyOf[r]] \subseteq evReqs')
    BY <2>1 DEF Keeping, KeepsRequests, Evicting
  <2> QED BY <2>1, <2>2 DEF Follows
<1> QED BY <1>1, <1>2, <1>3 DEF Kept, Keeping

\* A step that leaves the cache alone.
LEMMA WatchKept ==
    ASSUME RelayTypeOK, EvictInv, UNCHANGED <<cacheVars, cb>>,
           \A r \in Req : watch[r] # "none" => watch'[r] # "none" /\ (r \in Open' => r \in Open),
           watch' \in [Req -> {"none", "made", "open", "closed"}]
    PROVE  Kept
<1>1. RelayTypeOK'
  BY CacheUnchangedType DEF RelayTypeOK
<1>2. EvictInv' /\ KeepsResponses
  BY QuietKeeping DEF cacheVars, EvictInv, Keeping, Unlocked
<1>3. \A r \in Req : Follows(r)
  BY DEF cacheVars, Follows
<1> QED BY <1>1, <1>2, <1>3 DEF Kept

LEMMA RelayKept ==
    ASSUME RelayTypeOK, EvictInv, RelayStep \/ UNCHANGED relayVars
    PROVE  Kept
<1> USE DEF WatchGoto, Open
<1>1. ASSUME NEW r \in Req, MakeWatch(r) PROVE Kept
  BY <1>1, WatchKept DEF MakeWatch, RelayTypeOK
<1>2. ASSUME NEW r \in Req, RegisterWatch(r) PROVE Kept
  <2>1. KeyOf[r] \in Key /\ Admin \in Caller /\ Unlocked
    BY <1>2, CallerType, RelayAssumption DEF RegisterWatch, AddRequest
  <2>2. CacheTypeOK' /\ Keeping
    BY <1>2, <2>1, AddRequestType, AddRequestKeeping DEF RegisterWatch, RelayTypeOK, EvictInv
  <2> QED BY <1>2, <2>1, <2>2, EvictingKept DEF RegisterWatch, RelayTypeOK
<1>3. ASSUME NEW r \in Req, Cancel(r) PROVE Kept
  BY <1>3, WatchKept DEF Cancel, RelayTypeOK
<1>4. ASSUME NEW r \in Req, UnregisterWatch(r) PROVE Kept
  <2>1. KeyOf[r] \in Key /\ ~cb /\ ~cb' /\ Unlocked
    BY <1>4, RelayAssumption DEF UnregisterWatch, DeleteRequest, EvictInv
  <2>2. RelayTypeOK'
    BY <1>4, <2>1, DeleteRequestType DEF UnregisterWatch, RelayTypeOK
  <2>3. EvictInv' /\ KeepsResponses
    BY <1>4, <2>1, DeleteRequestKeeping DEF UnregisterWatch, RelayTypeOK, EvictInv
  <2>4. ASSUME NEW q \in Req PROVE Follows(q)
    <3>1. KeyOf[q] \in Key /\ reqs[KeyOf[q]] \ {r} \subseteq reqs'[KeyOf[q]]
      BY <1>4, <2>1, DeleteRequestKeeping, RelayAssumption DEF UnregisterWatch, RelayTypeOK, EvictInv
    <3>2. r \notin Open'
      BY <1>4 DEF UnregisterWatch, RelayTypeOK
    <3> QED BY <1>4, <2>1, <3>1, <3>2 DEF UnregisterWatch, Follows
  <2> QED BY <2>2, <2>3, <2>4 DEF Kept
<1>5. ASSUME NEW k \in Key, CacheResponse(k) PROVE Kept
  <2>1. PICK v \in Version : SetResponse(k, v, Admin)
    BY <1>5 DEF CacheResponse
  <2>2. Admin \in Caller /\ Unlocked
    BY <2>1, CallerType DEF SetResponse
  <2>3. CacheTypeOK' /\ Keeping
    BY <2>1, <2>2, SetResponseType, SetResponseKeeping DEF RelayTypeOK, EvictInv
  <2> QED BY <1>5, <2>2, <2>3, EvictingKept DEF CacheResponse, RelayTypeOK
<1>6. ASSUME NEW R, CloseWatches(R), UNCHANGED cacheVars, cb' \in BOOLEAN, cb' => cb,
             cb => cb' \/ R = evReqs
      PROVE  Kept
  <2>1. RelayTypeOK'
    BY <1>6, CacheUnchangedType DEF CloseWatches, RelayTypeOK
  <2>2. EvictInv' /\ KeepsResponses
    BY <1>6, QuietKeeping DEF cacheVars, EvictInv, Keeping, Unlocked
  <2>3. \A r \in Req : Follows(r)
    BY <1>6 DEF CloseWatches, Follows, cacheVars, RelayTypeOK
  <2> QED BY <2>1, <2>2, <2>3 DEF Kept
<1>7. ASSUME EvictWatches \/ \E k \in Key : FailWatches(k) PROVE Kept
  <2>1. CASE EvictWatches
    BY <1>6, <2>1 DEF EvictWatches
  <2>2. ASSUME NEW k \in Key, FailWatches(k) PROVE Kept
    BY <1>6, <2>2 DEF FailWatches, RelayTypeOK
  <2> QED BY <1>7, <2>1, <2>2
<1>8. CASE EvictReturns
  <2>1. RelayTypeOK'
    BY <1>8, EvictReturnType DEF EvictReturns, RelayTypeOK
  <2>2. EvictInv' /\ KeepsResponses
    BY <1>8, QuietKeeping DEF EvictReturns, EvictReturn, EvictInv, Keeping
  <2>3. \A r \in Req : Follows(r)
    BY <1>8 DEF EvictReturns, EvictReturn, Follows
  <2> QED BY <2>1, <2>2, <2>3 DEF Kept
<1>9. ASSUME NEW k \in Key, Clear(k) \/ Expel(k) PROVE Kept
  <2>1. Remove(k, Admin) /\ Evicting /\ UNCHANGED watch /\ Unlocked
    BY <1>9 DEF Clear, Expel, DeleteKey, FetchExpired
  <2>2. CacheTypeOK' /\ Keeping
    BY <2>1, CallerType, RemoveType, RemoveKeeping DEF RelayTypeOK, EvictInv
  <2> QED BY <2>1, <2>2, EvictingKept DEF RelayTypeOK
<1>10. CASE TimePasses
  <2>1. RelayTypeOK'
    BY <1>10, ExpireType DEF TimePasses, RelayTypeOK, CacheTypeOK
  <2>2. EvictInv' /\ KeepsResponses
    BY <1>10, QuietKeeping DEF TimePasses, Expire, EvictInv, Keeping, Unlocked
  <2>3. \A r \in Req : Follows(r)
    BY <1>10 DEF TimePasses, Expire, Follows
  <2> QED BY <2>1, <2>2, <2>3 DEF Kept
<1>11. CASE UNCHANGED relayVars
  BY <1>11, WatchKept DEF relayVars, RelayTypeOK
<1> QED BY <1>1, <1>2, <1>3, <1>4, <1>5, <1>7, <1>8, <1>9, <1>10, <1>11 DEF RelayStep

LEMMA EveryStepKept ==
    ASSUME TypeOK, EvictInv, [Next]_vars
    PROVE  Kept
<1>1. RelayTypeOK
  BY DEF TypeOK
<1>2. RelayStep \/ UNCHANGED relayVars
  <2>1. ASSUME NEW k \in Key, ClearEntry(k) \/ FetchEntry(k) PROVE RelayStep \/ UNCHANGED relayVars
    BY <2>1 DEF ClearEntry, FetchEntry, RelayStep
  <2>2. CASE FetchAgain
    BY <2>2 DEF FetchAgain, RelayStep, TypeOK
  <2> QED BY <2>1, <2>2 DEF Next, Handler, Ask, List, Finish, vars
<1> QED BY <1>1, <1>2, RelayKept

(***************************************************************************)
(* The parts of the invariant.                                             *)
(***************************************************************************)
\* A command comes with a pattern of keys.
LEMMA PatternKeys ==
    ASSUME NEW c \in Command, NEW p \in PatternOf(c)
    PROVE  p.keys \subseteq Key
BY AdminAssumption DEF Command, PatternOf

LEMMA InitIInv == Init => IInv
<1> SUFFICES ASSUME Init PROVE IInv
  OBVIOUS
<1>1. TypeOK
  BY DEF Init, RelayInit, CacheInit, TypeOK, RelayTypeOK, CacheTypeOK
<1>2. EvictInv /\ HandlerInv
  BY DEF Init, RelayInit, CacheInit, EvictInv, EntryInv, HandlerInv
<1>3. ClearInv /\ DumpInv /\ SteadyInv /\ OnlyDeadEntriesBreak
  BY DEF Init, ClearInv, DumpInv, SteadyInv, OnlyDeadEntriesBreak
<1> QED BY <1>1, <1>2, <1>3 DEF IInv

\* An answer about a key leaves the handler where it was, or broken.
LEMMA AnswerType ==
    ASSUME TypeOK, h = "visit", NEW k \in Key, NEW resource, Answer(k, resource)
    PROVE  /\ h' \in {"visit", "broken"} /\ at' \in Key \union {NoKey}
           /\ pending' \subseteq Key /\ shown' \subseteq Key
BY DEF TypeOK, Answer

LEMMA HistoryType ==
    ASSUME TypeOK, History
    PROVE  held' \subseteq Req /\ open' \subseteq Req /\ steady' \subseteq Key /\ had' \subseteq Key
BY DEF TypeOK, History

LEMMA TypeStep ==
    ASSUME TypeOK, EvictInv, [Next]_vars
    PROVE  TypeOK'
<1>1. RelayTypeOK'
  BY EveryStepKept DEF Kept
<1>2. CASE Ask
  <2>1. held' \subseteq Req /\ open' \subseteq Req /\ steady' \subseteq Key /\ had' \subseteq Key
    BY <1>2 DEF Ask, Open, Fresh, TypeOK, RelayTypeOK, CacheTypeOK
  <2> QED BY <1>1, <1>2, <2>1 DEF Ask, TypeOK
<1>3. CASE List
  <2>1. AggregatedKeys \subseteq Key
    BY RelayAssumption DEF AggregatedKeys, Open
  <2>2. RelevantKeys(arg) \subseteq Key
    BY <1>3, <2>1, PatternKeys DEF List, RelevantKeys, TypeOK
  <2> QED BY <1>1, <1>3, <2>1, <2>2, HistoryType DEF List, TypeOK
<1>4. ASSUME NEW k \in Key, ClearEntry(k) PROVE TypeOK'
  BY <1>1, <1>4, HistoryType DEF ClearEntry, TypeOK
<1>5. ASSUME NEW k \in Key, FetchEntry(k) PROVE TypeOK'
  <2>1. CASE Answer(k, Entry(k))
    BY <1>1, <1>5, <2>1, AnswerType, HistoryType DEF FetchEntry, Visiting, TypeOK
  <2>2. CASE UNCHANGED <<h, shown>> /\ pending' \subseteq pending /\ at' \in {at, k}
    BY <1>1, <1>5, <2>2, HistoryType DEF FetchEntry, TypeOK
  <2> QED BY <1>5, <2>1, <2>2 DEF FetchEntry
<1>6. CASE FetchAgain
  <2>1. at \in Key /\ h = "visit"
    BY <1>6 DEF FetchAgain, TypeOK
  <2>2. Answer(at, Entry(at)) \/ Answer(at, Nothing)
    BY <1>6 DEF FetchAgain
  <2> QED BY <1>1, <1>6, <2>1, <2>2, AnswerType, HistoryType DEF FetchAgain, TypeOK
<1>7. CASE Finish
  BY <1>1, <1>7, HistoryType DEF Finish, TypeOK
<1>8. CASE RelayStep /\ UNCHANGED handlerVars /\ History
  BY <1>1, <1>8, HistoryType DEF handlerVars, TypeOK
<1>9. CASE UNCHANGED vars
  BY <1>1, <1>9 DEF vars, handlerVars, historyVars, TypeOK
<1> QED BY <1>2, <1>3, <1>4, <1>5, <1>6, <1>7, <1>8, <1>9 DEF Next, Handler

LEMMA HandlerStep ==
    ASSUME TypeOK, HandlerInv, [Next]_vars
    PROVE  HandlerInv'
<1> USE DEF HandlerInv
<1>1. CASE Ask
  BY <1>1 DEF Ask
<1>2. CASE List
  BY <1>2 DEF List
<1>3. ASSUME NEW k \in Key, ClearEntry(k) PROVE HandlerInv'
  BY <1>3 DEF ClearEntry, Visiting
<1>4. ASSUME NEW k \in Key, FetchEntry(k) PROVE HandlerInv'
  BY <1>4 DEF FetchEntry, Visiting, Answer
<1>5. CASE FetchAgain
  BY <1>5 DEF FetchAgain, Answer
<1>6. CASE Finish
  BY <1>6 DEF Finish
<1>7. CASE UNCHANGED handlerVars
  BY <1>7 DEF handlerVars
<1> QED BY <1>1, <1>2, <1>3, <1>4, <1>5, <1>6, <1>7 DEF Next, Handler, vars

LEMMA ClearStep ==
    ASSUME TypeOK, EvictInv, HandlerInv, ClearInv, [Next]_vars
    PROVE  ClearInv'
<1>1. Kept
  BY EveryStepKept
<1>2. (\A r \in held : watch[r] # "none") /\ held \subseteq Req
  BY DEF ClearInv, TypeOK
<1>3. held' = held => \A r \in held' : watch'[r] # "none" /\ Follows(r)
  BY <1>1, <1>2 DEF Kept, Follows
<1>4. CASE Ask
  <2>1. \A r \in held' : watch'[r] # "none"
    BY <1>4 DEF Ask, Open, relayVars
  <2> QED BY <1>4, <2>1 DEF Ask, Open, relayVars, cacheVars, ClearInv
<1>5. CASE List
  <2>1. h' = "over" => cmd' # "clear"
    BY <1>5 DEF List
  <2>2. ASSUME NEW r \in held', cmd' = "clear", KeyOf[r] \in arg'.keys, r \in Open'
        PROVE  h' # "over" /\ ((cb' /\ r \in evReqs') \/ (r \in reqs'[KeyOf[r]] /\ KeyOf[r] \in pending'))
    <3>1. r \in held /\ r \in Open /\ cmd = "clear" /\ KeyOf[r] \in arg.keys /\ UNCHANGED relayVars /\ h = "list"
      BY <1>5, <2>2 DEF List, History, Open, relayVars
    <3>2. (cb /\ r \in evReqs) \/ r \in reqs[KeyOf[r]]
      BY <3>1 DEF ClearInv
    <3>3. KeyOf[r] \in pending'
      BY <1>5, <3>1 DEF List, RelevantKeys, AggregatedKeys
    <3> QED BY <2>1, <2>2, <3>1, <3>2, <3>3 DEF relayVars, cacheVars
  <2>3. \A r \in held' : watch'[r] # "none"
    BY <1>3, <1>5 DEF List, History
  <2> QED BY <2>1, <2>2, <2>3 DEF ClearInv
<1>6. ASSUME held' = held, UNCHANGED <<cmd, arg>>, h' = h,
             \A r \in held : r \in Open' /\ r \in reqs'[KeyOf[r]] /\ KeyOf[r] \in pending => KeyOf[r] \in pending'
      PROVE  ClearInv'
  <2>1. ASSUME NEW r \in held', cmd' = "clear", h' \in {"list", "visit", "over"}, KeyOf[r] \in arg'.keys
        PROVE  \/ r \notin Open'
               \/ h' # "over" /\ cb' /\ r \in evReqs'
               \/ h' # "over" /\ r \in reqs'[KeyOf[r]] /\ (h' = "list" \/ KeyOf[r] \in pending')
    <3>1. Follows(r) /\ watch[r] # "none"
      BY <1>2, <1>3, <1>6
    <3>2. \/ r \notin Open
          \/ h # "over" /\ cb /\ r \in evReqs
          \/ h # "over" /\ r \in reqs[KeyOf[r]] /\ (h = "list" \/ KeyOf[r] \in pending)
      BY <1>6, <2>1 DEF ClearInv
    <3> QED BY <1>6, <3>1, <3>2 DEF Follows
  <2> QED BY <1>3, <1>6, <2>1 DEF ClearInv
<1>7. ASSUME NEW k \in Key, ClearEntry(k) PROVE ClearInv'
  <2>1. k \notin cached'
    BY <1>7 DEF ClearEntry, Clear, DeleteKey, Remove, relayVars, cacheVars
  <2>2. reqs'[k] = {}
    BY <1>1, <2>1 DEF Kept, EvictInv, EntryInv
  <2> QED BY <1>6, <1>7, <2>2 DEF ClearEntry, History
<1>8. ASSUME cmd' # "clear", held' = held PROVE ClearInv'
  BY <1>3, <1>8 DEF ClearInv
<1>9. ASSUME NEW k \in Key, FetchEntry(k) PROVE ClearInv'
  BY <1>8, <1>9 DEF FetchEntry, History
<1>10. CASE FetchAgain
  BY <1>8, <1>10 DEF FetchAgain, HandlerInv, History
<1>11. CASE Finish
  <2>1. UNCHANGED <<relayVars, cmd, arg, held>> /\ h = "visit" /\ pending = {} /\ ~cb
    BY <1>11 DEF Finish, History, EvictInv
  <2>2. ASSUME NEW r \in held', cmd' = "clear", KeyOf[r] \in arg'.keys PROVE r \notin Open'
    BY <2>1, <2>2 DEF ClearInv, relayVars, Open
  <2> QED BY <1>3, <2>1, <2>2 DEF ClearInv
<1>12. CASE UNCHANGED handlerVars /\ held' = held
  BY <1>6, <1>12 DEF handlerVars
<1> QED BY <1>4, <1>5, <1>7, <1>9, <1>10, <1>11, <1>12 DEF Next, Handler, History, vars, historyVars

LEMMA SteadyStep ==
    ASSUME TypeOK, EvictInv, SteadyInv, [Next]_vars
    PROVE  SteadyInv'
<1>1. Kept
  BY EveryStepKept
<1>2. CASE Ask
  BY <1>2 DEF Ask, SteadyInv, relayVars, cacheVars
<1>3. ASSUME History, h' \in {"list", "visit"} => h \in {"list", "visit"}
      PROVE  SteadyInv'
  BY <1>1, <1>3 DEF Kept, KeepsResponses, SteadyInv, History, Fresh
<1>4. CASE UNCHANGED vars
  BY <1>4 DEF vars, relayVars, cacheVars, handlerVars, historyVars, SteadyInv
<1>5. ASSUME NEW k \in Key, ClearEntry(k) \/ FetchEntry(k) PROVE SteadyInv'
  BY <1>3, <1>5 DEF ClearEntry, FetchEntry, Visiting
<1> QED BY <1>2, <1>3, <1>4, <1>5 DEF Next, Handler, List, FetchAgain, Finish, handlerVars

LEMMA DumpStep ==
    ASSUME TypeOK, HandlerInv, DumpInv, [Next]_vars
    PROVE  DumpInv'
<1>1. CASE Ask
  BY <1>1 DEF Ask, HandlerInv, DumpInv
<1>2. CASE List
  <2>1. ASSUME cmd = "dump" PROVE pending' \subseteq arg.keys /\ shown' \subseteq arg.keys
    BY <1>2, <2>1 DEF List, RelevantKeys, DumpInv
  <2>2. ASSUME cmd = "dump", NEW k \in arg.keys \intersect steady', k \notin pending'
        PROVE  arg.wild /\ \A r \in open' : KeyOf[r] # k
    BY <1>2, <2>2 DEF List, RelevantKeys, AggregatedKeys, History, Open, relayVars
  <2>3. cmd' = cmd /\ arg' = arg /\ (cmd = "dump" => h' = "visit")
    BY <1>2 DEF List
  <2> QED BY <2>1, <2>2, <2>3 DEF DumpInv
<1>3. ASSUME NEW k \in Key, ClearEntry(k) PROVE DumpInv'
  BY <1>3 DEF ClearEntry, DumpInv
\* A key that is visited is shown, or was gone, or stays to be visited.
<1>4. ASSUME UNCHANGED <<cmd, arg>>, History, h = "visit", NEW k \in pending,
             \/ h' = "visit" /\ pending' = pending \ {k} /\ shown' = shown \union {k}
             \/ h' = "visit" /\ pending' = pending \ {k} /\ shown' = shown /\ k \notin steady'
             \/ h' \in {"visit", "broken"} /\ UNCHANGED <<pending, shown>>
      PROVE  DumpInv'
  BY <1>4 DEF DumpInv, History
<1>5. ASSUME NEW k \in Key, FetchEntry(k) PROVE DumpInv'
  BY <1>4, <1>5 DEF FetchEntry, Visiting, Answer, History, Fresh, relayVars, cacheVars
<1>6. CASE FetchAgain
  BY <1>4, <1>6 DEF FetchAgain, HandlerInv, Answer
<1>7. CASE Finish
  BY <1>7 DEF Finish, DumpInv, History
<1>8. CASE UNCHANGED handlerVars /\ (History \/ UNCHANGED historyVars)
  BY <1>8 DEF handlerVars, historyVars, DumpInv, History
<1> QED BY <1>1, <1>2, <1>3, <1>5, <1>6, <1>7, <1>8 DEF Next, Handler, vars

\* What there is in the way of an answer about a key whose entry is there.
LEMMA EntryBreaks ==
    ASSUME SteadyInv, HandlerInv, h = "visit", NEW k \in Key, cmd \in {"dump", "version", "eds"},
           Answer(k, Entry(k)), History, cmd' = cmd
    PROVE  OnlyDeadEntriesBreak'
<1>1. steady' \subseteq steady /\ had' = had
  BY DEF History
<1>2. CASE h' = "broken"
  <2>1. at' = k /\ Breaks(k, Entry(k))
    BY <1>2 DEF Answer
  <2>2. CASE resp[k] = NoResp /\ cmd # "dump"
    BY <1>1, <2>1, <2>2 DEF SteadyInv, OnlyDeadEntriesBreak
  <2>3. CASE cmd = "eds" /\ "other" \in Addresses(Payload[k])
    <3>1. PICK r \in marshalResources(Payload[k].resources)["endpoints"] : "other" \in r.addresses
      BY <2>3 DEF Addresses
    <3>2. r \in Payload[k].resources
      BY <3>1 DEF marshalResources, Section
    <3> QED BY <2>1, <2>3, <3>1, <3>2 DEF OnlyDeadEntriesBreak
  <2> QED BY <2>1, <2>2, <2>3 DEF Breaks, Entry
<1>3. CASE h' # "broken"
  BY <1>3 DEF OnlyDeadEntriesBreak
<1> QED BY <1>2, <1>3

LEMMA BreakStep ==
    ASSUME TypeOK, SteadyInv, HandlerInv, OnlyDeadEntriesBreak, [Next]_vars
    PROVE  OnlyDeadEntriesBreak'
<1>1. ASSUME NEW k \in Key, FetchEntry(k) PROVE OnlyDeadEntriesBreak'
  <2>1. CASE Answer(k, Entry(k))
    BY <1>1, <2>1, EntryBreaks DEF FetchEntry, Visiting
  <2>2. CASE h' = h
    BY <1>1, <2>2 DEF FetchEntry, Visiting, OnlyDeadEntriesBreak
  <2> QED BY <1>1, <2>1, <2>2 DEF FetchEntry
<1>2. CASE FetchAgain
  <2>1. at \in Key /\ cmd \in {"dump", "version", "eds"} /\ h = "visit" /\ History /\ UNCHANGED <<cmd, arg>>
    BY <1>2 DEF FetchAgain, HandlerInv, TypeOK
  <2>2. CASE Answer(at, Entry(at))
    BY <2>1, <2>2, EntryBreaks
  <2>3. CASE at \notin cached' /\ Answer(at, Nothing)
    <3>1. at \notin steady' /\ (h' = "broken" => at' = at)
      BY <2>1, <2>3 DEF History, Fresh, Answer
    <3> QED BY <3>1 DEF OnlyDeadEntriesBreak
  <2>4. Expel(at) \/ (at \notin cached /\ UNCHANGED relayVars) => at \notin cached'
    BY DEF Expel, FetchExpired, Remove, relayVars, cacheVars
  <2> QED BY <1>2, <2>2, <2>3, <2>4 DEF FetchAgain
<1>3. ASSUME h' # "broken" PROVE OnlyDeadEntriesBreak'
  BY <1>3 DEF OnlyDeadEntriesBreak
<1>4. ASSUME NEW k \in Key, ClearEntry(k) PROVE OnlyDeadEntriesBreak'
  BY <1>3, <1>4 DEF ClearEntry, Visiting
<1>5. CASE UNCHANGED vars
  BY <1>5 DEF vars, handlerVars, historyVars, OnlyDeadEntriesBreak
<1> QED BY <1>1, <1>2, <1>3, <1>4, <1>5 DEF Next, Handler, Ask, List, Finish, handlerVars

LEMMA StepIInv == IInv /\ [Next]_vars => IInv'
<1> SUFFICES ASSUME IInv, [Next]_vars PROVE IInv'
  OBVIOUS
<1> USE DEF IInv
<1>1. TypeOK' /\ HandlerInv'
  BY TypeStep, HandlerStep
<1>2. EvictInv'
  BY EveryStepKept DEF Kept
<1>3. ClearInv' /\ DumpInv'
  BY ClearStep, DumpStep
<1>4. SteadyInv' /\ OnlyDeadEntriesBreak'
  BY SteadyStep, BreakStep
<1> QED BY <1>1, <1>2, <1>3, <1>4

(***************************************************************************)
(* The theorems.                                                           *)
(***************************************************************************)
\* The invariant, of all the interleavings of a request to the admin server with
\* the orchestrator, the cache and other requests.
THEOREM AdminInvariance == Spec => []IInv
<1>1. IInv /\ [Next]_vars => IInv'
  BY StepIInv
<1> QED BY InitIInv, <1>1, PTL DEF Spec

\* The handlers keep the types of the state, and a pattern its command.
THEOREM AdminTypeCorrect == Spec => []TypeOK
<1>1. IInv => TypeOK
  BY DEF IInv
<1> QED BY <1>1, AdminInvariance, PTL

\* A clear that has been answered has closed every watch that was open and served
\* when it came, whatever ran in between (cache.go:202-214).
THEOREM ClearsCloseWatches == Spec => []ClearClosesWatches
<1>1. IInv => ClearClosesWatches
  BY DEF IInv, ClearInv, ClearClosesWatches
<1> QED BY <1>1, AdminInvariance, PTL

\* A dump shows every key of its pattern with a lasting entry and, if it has to be
\* found, a lasting watch, and nothing else (cache.go:82-141).
THEOREM DumpsShow == Spec => []DumpShows
<1>1. IInv => DumpShows
  BY DEF IInv, DumpInv, DumpShows
<1> QED BY <1>1, AdminInvariance, PTL

\* A handler breaks only at an entry that went or came while it ran, or had no
\* response, or at an endpoint without a socket address (cache.go:54, :72, :132).
THEOREM BreaksExplained == Spec => []OnlyDeadEntriesBreak
<1>1. IInv => OnlyDeadEntriesBreak
  BY DEF IInv
<1> QED BY <1>1, AdminInvariance, PTL
=============================================================================
