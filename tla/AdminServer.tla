---------------------------- MODULE AdminServer -----------------------------
(***************************************************************************)
(* The cache handlers of the admin server, step by step, over the cache    *)
(* and the map of the watches: what Orchestrator leaves open, the removal  *)
(* or the reading of any key at any time, is here what a request to the    *)
(* admin server does between two accesses to shared state.  The rest of    *)
(* the process is Relay: what the orchestrator, which implements it, does  *)
(* to the two.  The handler of one request is followed.                    *)
(*                                                                         *)
(* A handler that panics breaks: net/http recovers, its request gets no    *)
(* answer, and the process goes on.                                        *)
(***************************************************************************)
EXTENDS Relay

CONSTANTS
    Pattern,   \* what may follow a command in a path, see AdminAssumption
    Payload    \* Payload[k]: the api of the responses for k and their resources

\* A pattern is empty or ends in a *, and then stands for the keys with the
\* prefix before it, or else it is one key.
Command == {"clear", "dump", "version", "eds", "keys"}
PatternOf(c) ==
    CASE c = "keys" -> {[wild |-> TRUE, keys |-> Key]}
      [] c \in {"version", "eds"} -> {p \in Pattern : ~p.wild}
      [] OTHER -> Pattern

\* A resource is what its type URL says, decodes as that or does not, and, if it
\* is one of endpoints, has addresses: "socket", "other" (a pipe, or none at
\* all), or "named" for an endpoint that is only a name.
Section == {"endpoints", "clusters", "routes", "listeners", "secrets", "runtimes"}
Api == {"v2", "v3"}
ResourceOK(r) ==
    /\ r.api \in Api /\ r.decodes \in BOOLEAN
    /\ r.type \in Section \union {"unknown"}
    /\ r.addresses \subseteq {"socket", "other", "named"}

ASSUME AdminAssumption ==
    /\ DOMAIN Payload = Key
    /\ \A k \in Key : Payload[k].api \in Api /\ \A r \in Payload[k].resources : ResourceOK(r)
    /\ \A p \in Pattern :
        /\ p.wild \in BOOLEAN
        /\ p.keys \subseteq Key
        /\ ~p.wild => \E k \in Key : p.keys = {k}

VARIABLES
    h,       \* the handler: "idle", "list", "visit", "over" or "broken"
    cmd,     \* its command, and what follows that
    arg,
    pending, \* the keys it has still to visit
    at,      \* the key it found expired, or broke at
    shown,   \* the keys its answer shows
    \* Not in the code: since the request came in,
    held,    \* the requests that had an open watch, served by an entry, when it came
    open,    \* the requests whose watch has been open
    steady,  \* the keys that have had an entry that is not expired
    had      \* the keys whose entry had a response when it came

handlerVars == <<h, cmd, arg, pending, at, shown>>
historyVars == <<held, open, steady, had>>
vars == <<relayVars, handlerVars, historyVars>>

Fresh == cached \ expired

Init ==
    /\ RelayInit
    /\ h = "idle" /\ cmd = "none" /\ arg = [wild |-> FALSE, keys |-> {}]
    /\ pending = {} /\ at = NoKey /\ shown = {}
    /\ held = {} /\ open = {} /\ steady = {} /\ had = {}

History ==
    /\ open' = open \intersect Open'
    /\ steady' = steady \intersect Fresh'
    /\ UNCHANGED <<held, had>>

-----------------------------------------------------------------------------
(***************************************************************************)
(* The handler.                                                            *)
(***************************************************************************)
\* The request comes in.
Ask ==
    /\ h = "idle"
    /\ h' = "list"
    /\ cmd' \in Command /\ arg' \in PatternOf(cmd')
    /\ open' = Open /\ steady' = Fresh
    /\ held' = {r \in Open : r \in reqs[KeyOf[r]]}
    /\ had' = {k \in Key : resp[k] # NoResp}
    /\ UNCHANGED <<relayVars, pending, at, shown>>

\* GetDownstreamAggregatedKeys, under the read lock of the watches: every
\* request in the map had a key when its watch was made.
AggregatedKeys == {KeyOf[r] : r \in Open}

\* getRelevantKeys.
RelevantKeys(p) == IF p.wild THEN AggregatedKeys \intersect p.keys ELSE p.keys

List ==
    /\ h = "list"
    /\ IF cmd = "keys"
       THEN h' = "over" /\ shown' = AggregatedKeys /\ UNCHANGED pending
       ELSE h' = "visit" /\ pending' = RelevantKeys(arg) /\ UNCHANGED shown
    /\ UNCHANGED <<relayVars, cmd, arg, at>>
    /\ History

Visiting(k) == h = "visit" /\ at = NoKey /\ k \in pending /\ Unlocked

\* Mutant: the first key without an entry ends the loop.
ClearEntryOrStop(k) ==
    /\ Visiting(k) /\ cmd = "clear"
    /\ \/ Clear(k) /\ pending' = pending \ {k}
       \/ k \notin cached /\ pending' = {} /\ UNCHANGED relayVars
    /\ UNCHANGED <<h, cmd, arg, at, shown>>
    /\ History
\* ClearCacheEntries, key by key in any order: a key without an entry is an
\* error in the answer.
ClearEntry(k) ==
    /\ Visiting(k) /\ cmd = "clear"
    /\ Clear(k) \/ (k \notin cached /\ UNCHANGED relayVars)
    /\ pending' = pending \ {k}
    /\ UNCHANGED <<h, cmd, arg, at, shown>>
    /\ History

\* What FetchReadOnly returns without an error: the entry, or nothing at all.
Entry(k) == [requests |-> TRUE, resp |-> resp[k]]
Nothing == [requests |-> FALSE, resp |-> NoResp]

\* marshalResources: a resource that does not decode, or has another type, is
\* kept as it is.
marshalResources(resources) ==
    [s \in Section \union {"unmarshalled"} |->
        {r \in resources :
            s = IF r.decodes /\ r.type \in Section THEN r.type ELSE "unmarshalled"}]

\* The addresses the eds handler reads: of the endpoints that have the api of
\* the response and are more than a name.
Addresses(payload) ==
    UNION {r.addresses : r \in {e \in marshalResources(payload.resources)["endpoints"] :
                                    e.api = payload.api}} \ {"named"}

\* Mutant: a response that is not there yet is not expected in a dump.
BreaksOnNoResponse(k, resource) ==
    IF cmd = "dump" THEN ~resource.requests \/ resource.resp = NoResp ELSE resource.resp = NoResp
\* What a nil is dereferenced of: resourceToPayload reads the requests, and
\* checks the response; the version and eds handlers read the response, and the
\* latter the socket address of every endpoint.
Breaks(k, resource) ==
    CASE cmd = "dump" -> ~resource.requests
      [] cmd = "version" -> resource.resp = NoResp
      [] OTHER -> resource.resp = NoResp \/ "other" \in Addresses(Payload[k])

Answer(k, resource) ==
    IF Breaks(k, resource)
    THEN h' = "broken" /\ at' = k /\ UNCHANGED <<pending, shown>>
    ELSE /\ at' = NoKey /\ pending' = pending \ {k} /\ shown' = shown \union {k}
         /\ UNCHANGED h

\* Mutant: the first key without an entry ends the loop.
FetchEntryOrStop(k) ==
    /\ Visiting(k) /\ cmd \in {"dump", "version", "eds"}
    /\ \/ k \notin cached /\ pending' = {} /\ UNCHANGED <<h, at, shown>>
       \/ k \in Fresh /\ Answer(k, Entry(k))
       \/ FetchStale(k) /\ at' = k /\ UNCHANGED <<h, pending, shown>>
    /\ UNCHANGED <<relayVars, cmd, arg>>
    /\ History
\* FetchReadOnly for the keys of a dump, or for the one of the two others: a
\* miss is an error, which leaves the key out; or the entry has expired.
FetchEntry(k) ==
    /\ Visiting(k) /\ cmd \in {"dump", "version", "eds"}
    /\ \/ k \notin cached /\ pending' = pending \ {k} /\ UNCHANGED <<h, at, shown>>
       \/ k \in Fresh /\ Answer(k, Entry(k))
       \/ FetchStale(k) /\ at' = k /\ UNCHANGED <<h, pending, shown>>
    /\ UNCHANGED <<relayVars, cmd, arg>>
    /\ History

\* FetchReadOnly, with the write lock: refreshed by now, removed, or gone; of
\* the last two it returns neither a resource nor an error.
FetchAgain ==
    /\ h = "visit" /\ at # NoKey /\ Unlocked
    /\ \/ at \in Fresh /\ Answer(at, Entry(at)) /\ UNCHANGED relayVars
       \/ Expel(at) /\ Answer(at, Nothing)
       \/ at \notin cached /\ Answer(at, Nothing) /\ UNCHANGED relayVars
    /\ UNCHANGED <<cmd, arg>>
    /\ History

\* The answer is written, once the callback of the last removal has returned.
Finish ==
    /\ h = "visit" /\ at = NoKey /\ pending = {} /\ Unlocked
    /\ h' = "over"
    /\ UNCHANGED <<relayVars, cmd, arg, pending, at, shown>>
    /\ History

Handler ==
    \/ Ask \/ List \/ FetchAgain \/ Finish
    \/ \E k \in Key : ClearEntry(k) \/ FetchEntry(k)

\* What the relay does after the answer is not followed.
Next ==
    \/ Handler
    \/ h \notin {"over", "broken"} /\ RelayStep /\ UNCHANGED handlerVars /\ History

Spec == Init /\ [][Next]_vars

-----------------------------------------------------------------------------
(***************************************************************************)
(* Properties.                                                             *)
(***************************************************************************)
TypeOK ==
    /\ RelayTypeOK
    /\ h \in {"idle", "list", "visit", "over", "broken"}
    /\ h # "idle" => cmd \in Command /\ arg \in PatternOf(cmd)
    /\ pending \subseteq Key /\ at \in Key \union {NoKey} /\ shown \subseteq Key
    /\ held \subseteq Req /\ open \subseteq Req /\ steady \subseteq Key /\ had \subseteq Key

\* When a clear has been answered, every client that an entry of a key of its
\* pattern served when it came has had its watch closed, and asks again: no
\* eviction, expiry, cancellation or new request in between keeps a client on
\* an entry that was to go (cache.go:202-214, orchestrator.go:251-260).
ClearClosesWatches ==
    h = "over" /\ cmd = "clear" =>
        \A r \in held : KeyOf[r] \in arg.keys => r \notin Open

\* When a dump has been answered, it shows every key of its pattern that had an
\* entry, not expired, and (unless the key was named) a client with an open
\* watch all the time the request took; and none outside its pattern.
DumpShows ==
    h = "over" /\ cmd = "dump" =>
        /\ shown \subseteq arg.keys
        /\ \A k \in arg.keys \intersect steady :
              k \in shown \/ (arg.wild /\ \A r \in open : KeyOf[r] # k)

\* A handler breaks only at a key whose entry expired, was removed or added
\* while the request took, or, if it reads the response, had none when it came,
\* or at an endpoint without a socket address (cache.go:54, :72, :132, :303).
OnlyDeadEntriesBreak ==
    h = "broken" =>
        \/ at \notin (IF cmd = "dump" THEN steady ELSE steady \intersect had)
        \/ cmd = "eds" /\ \E r \in Payload[at].resources : "other" \in r.addresses

(***************************************************************************)
(* The inductive invariant of AdminServerProofs, in parts.                 *)
(***************************************************************************)
\* The callback of an eviction runs while cacheMu is held, and a key that has no
\* entry has neither requests nor a response.
EvictInv ==
    /\ cb => ~Unlocked
    /\ EntryInv

\* How far the handler is, and at which key.
HandlerInv ==
    /\ h \in {"idle", "list"} => pending = {} /\ shown = {} /\ at = NoKey
    /\ h = "visit" /\ at # NoKey => at \in pending /\ cmd \in {"dump", "version", "eds"}

\* ClearClosesWatches, while the request takes: a watch it is to close is closed, or
\* with the callback, or its request is in an entry still to visit.
ClearInv ==
    /\ \A r \in held : watch[r] # "none"
    /\ cmd = "clear" /\ h \in {"list", "visit", "over"} =>
        \A r \in held : KeyOf[r] \in arg.keys =>
            \/ r \notin Open
            \/ h # "over" /\ cb /\ r \in evReqs
            \/ h # "over" /\ r \in reqs[KeyOf[r]] /\ (h = "list" \/ KeyOf[r] \in pending)

\* DumpShows, while the request takes: what is not shown yet is still to visit.
DumpInv ==
    cmd = "dump" =>
        /\ pending \subseteq arg.keys /\ shown \subseteq arg.keys
        /\ h \in {"visit", "over"} =>
            \A k \in arg.keys \intersect steady :
                \/ k \in shown
                \/ h = "visit" /\ k \in pending
                \/ arg.wild /\ \A r \in open : KeyOf[r] # k

\* An entry that has stayed has kept a response.
SteadyInv ==
    h \in {"list", "visit"} => \A k \in steady \intersect had : resp[k] # NoResp

IInv ==
    /\ TypeOK
    /\ EvictInv /\ HandlerInv /\ ClearInv /\ DumpInv /\ SteadyInv
    /\ OnlyDeadEntriesBreak
=============================================================================
