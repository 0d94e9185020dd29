# xds-relay in TLA+

xds-relay stands between Envoys and an xDS management server (the origin
server). It maps every downstream request to an *aggregated key*, opens one
upstream stream per key, caches the last response of each key, and fans each
response out to all the watches of the key. This directory holds a TLA+ model
of that core and of the process around it (configuration, start-up, server,
admin handlers), the TLC runs that check it on small instances, and TLAPS
proofs of the properties that matter most.

    tlc -workers 2 -config MCOrchestrator_safe.cfg MCOrchestrator
    tlapm OrchestratorProofs.tla

`PROJECT.json` lists the components, the runs, the mutants (one bug per
property that the property detects), the source lines each definition models,
the findings, the hazards and the theorems.

## 1. The system

### Components

Paths are under `src/internal/app/` unless they say otherwise.

| component | state | operations | module |
|---|---|---|---|
| orchestrator (`orchestrator/orchestrator.go`) | its two maps and the cache; goroutines | `CreateWatch`, its cancel function, `watchUpstream`, `fanout`, `onCacheEvicted`, `shutdown`, `ClearCacheEntries` | `Orchestrator` |
| upstream response map (`orchestrator/upstream.go`) | key -> response channel and `done` channel (a `sync.Map`) | `exists`, `add`, `delete`, `deleteAll` | `Orchestrator` |
| downstream response map (`orchestrator/downstream.go`) | request -> watch, under a mutex | `createWatch`, `get`, `delete`, `deleteAll` | `Orchestrator` |
| response cache (`cache/`) | LRU list of key -> (response, `RequestsStore`, expiration time), under `cacheMu` | `Fetch`, `FetchReadOnly`, `SetResponse`, `AddRequest`, `DeleteRequest`, `DeleteKey`, eviction callback | `Cache`, `LruCache` |
| upstream client (`upstream/client.go`) | per stream: contexts, the response channel, the signal channel, two goroutines | `OpenStream`, `handleStreamsWithRetry`, `send`, `recv`, `shutDown` | `ResponseStream`, `UpstreamClient` |
| transport streams (`transport/stream*.go`) | the shared initial request | `SendMsg`, `RecvMsg`, `CloseSend` | `UpstreamClient`, `Mapper` (node metadata) |
| transport watches (`transport/watch*.go`) | a one-element channel, `closed`, an RWMutex | `Send`, `Close` | `Watch`; atomic in `Orchestrator` |
| transport requests and responses | one protobuf message | getters | `Mapper`'s `Request`; the rest is data |
| mapper (`mapper/mapper.go`) | none: a function of configuration and request | `GetKey` | `Mapper`; in `Orchestrator` the constant `KeyOf` |
| server (`server/server.go`), ready endpoint (`admin/http/ready.go`), command line (`src/main.go`) | the gRPC server, wanted and actual state, `weboff`, signals | start-up, main loop, `startServer`, `GracefulStop`, ready handler | `Server` |
| admin handlers (`admin/http/cache.go`, `handler.go`) | none of their own | clear, dump, version, eds, keys | `AdminServer`, over `Relay`; what they do to the core at large: `Orchestrator` (`AdminClear`, `AdminFetch`), `Mapper` (`ClearAll`) |
| keyer configuration (`src/pkg/api/aggregation/`, `src/internal/pkg/util/yamlproto/`) | the rules | `Validate` | `KeyerConfig` |
| bootstrap configuration (`src/pkg/api/bootstrap/`, `src/internal/pkg/util/duration.go`) | limits, addresses, durations | `Validate`, `StringToDuration` | `Bootstrap` |
| go-control-plane adapters (`orchestrator/v2.go`, `v3.go`) | none | `CreateWatch` of a fresh request object | the uniqueness of requests |
| metrics, statistics, logging; tools, example | nothing the program's behaviour depends on | | not modelled, but for what may fail at start-up (`Server`) |

### How they interact

- go-control-plane calls `CreateWatch` for each downstream request, reads the
  watch's channel, and calls the cancel function; a new request of the same
  Envoy is a new `CreateWatch` with a new request object.
- `CreateWatch` registers the watch, adds the request to the cache entry of
  its key, sends a cached response from a goroutine of its own, and opens the
  key's stream when there is none, with a `watchUpstream` goroutine for it.
- `watchUpstream` caches each response and sends it to the watches in the
  entry's `RequestsStore`, one goroutine per watch, and waits for them all.
- The cache evicts for capacity (inside an operation on *another* key), for
  expiry (inside a `Fetch`) and on the admin's request. Each eviction calls
  `onCacheEvicted` **while `cacheMu` is held**: it closes the entry's watches
  and stops and removes the key's stream.
- When the client closes the response channel, `watchUpstream` calls the same
  `onCacheEvicted` itself, **without** `cacheMu`.
- Shutdown cancels the root context: the client closes its connection and
  every response channel, and `deleteAll` closes every `done` channel.
- The ready handler puts a demand in `weboff`, a channel of one; the main loop
  takes it and makes a gRPC server or stops the one it has, and the same loop
  takes signals. `startServer` runs `Serve` in a goroutine of its own.
- The cache handlers list the keys of the open watches, and then fetch or clear
  them one by one, each a call of its own into the cache.
- `main` reads both files, validates them, and hands them to `RunWithContext`,
  which reads their messages without further checks.

Locks are taken in the order `cacheMu`, the mutex of the downstream map, the
mutex of a watch, and no goroutine blocks on a channel while it holds one of
them, so the locks themselves cannot deadlock; the model keeps `cacheMu`, whose
critical sections span several steps, and makes the other critical sections
single actions.

### What is hard

The goroutines above meet in two maps and a cache with different locks, or
none: check-then-act on the upstream map, evictions between any two steps of
`CreateWatch`, callbacks under a lock, a fanout on a store whose entry is gone,
late responses of replaced streams, three paths that close one channel, and
lazily expiring entries that are looked up twice. In the client: timeouts that
leave work running, a channel that can fill up, a context that is done while a
hand-over is pending. In the watch: concurrent `Send`s under a read lock, and a
`Close`. In the server: one goroutine that waits for clients while demands and
signals come in, and a `Serve` that may come after its `GracefulStop`. In the
admin handlers: a list of keys that is out of date when it is used.
`PROJECT.json` lists each hazard at its line with the
properties that watch it.

What makes each component correct:

- *cache*: it never exceeds its limit, its list and map agree, an entry is
  dropped only for a reason, and the callback gets exactly what was dropped;
- *orchestrator*: an open watch is always reachable by the next fanout, its key
  has a live stream, there is one stream per key and it can be stopped, no
  response is missed, clients are eventually served or released, and no
  interleaving crashes the process;
- *mapper*: the key of a request depends on what the configuration reads of it
  and on nothing else, and is the same whenever it is computed;
- *watch*: nobody sends on a closed channel, a later call's response is never
  kept waiting behind an earlier one's, and no call waits for the client;
- *server*: what the ready handler answered is what the server does, nothing
  accepts clients when out of service, signals end the process, and a valid
  configuration starts;
- *admin handlers*: a clear reaches every client it should, a dump shows every
  entry it should, whatever happens meanwhile;
- *configuration*: what the validation accepts, the program can use;
- *upstream client*: versions do not go back, only received responses are
  acknowledged, the channel is closed only for a reason and eventually is, and
  nobody sends on a closed channel.

## 2. Modules

How they compose:

    Cache          what the cache promises        <- LruCache implements it
    Orchestrator   the relay, extends Cache       -> implements Relay
    Relay          cache and watches, coarsely    <- AdminServer extends it
    ResponseStream what OpenStream promises       <- UpstreamClient implements it
    Server         extends Bootstrap; Mapper extends KeyerConfig; Watch alone

Each `X` with a module `XProofs` has theorems there. The lemmas about the
operations of `Cache` are in `CacheProofs`, that `Orchestrator` implements `Relay` in
the second part of `OrchestratorProofs`.

### Cache

The cache as its callers see it. An entry is `resp[k]` (a version, `NoResp`
before the first response) and `reqs[k]`; `expired` is the set of entries whose
time has passed. An operation that evicts keeps `cacheMu` for its caller and
leaves key and requests of the dropped entry in `evKey` and `evReqs`; it returns
(`EvictReturn`) when the owner has run the callback. Which entry makes room is
any of the others. `Fetch` is `FetchLive`, or `FetchStale` and then, as a step of
its own under the write lock, `FetchExpired` or `FetchLive`.

### Orchestrator

Extends `Cache` with every goroutine of the orchestrator. One action is what one
goroutine does between two accesses to shared state.

| code | variables | actions |
|---|---|---|
| `CreateWatch` | `cw[r]` (program counter), `watch`, `ver`, `csend` | `CreateWatch`, `RegisterWatch`, `FetchCached`, `FetchCachedStale`, `FetchCachedAgain`, `CachedSend`, `OpenStream`, `AddStream` |
| cancel function | `cw[r]` | `Cancel`, `UnregisterWatch` |
| `watchUpstream`, `fanout` | `wu[s]`, `x`, `fan`, `live`, `todo` | `Receive`, `ReceiveAgain`, `ReceiveDone`, `CacheResponse`, `FetchFanout...`, `FanoutStart`, `FanoutSend`, `FanoutEnd` |
| `watchUpstream`, channel closed | `wu[s]` | `ReceiveClosed`, `FailFetch...`, `FailNil`, `FailWatches`, `FailClose`, `FailDelete` |
| `onCacheEvicted` as callback | `cb`, `cacheMu`, `evKey`, `evReqs` | `EvictWatches`, `EvictClose`, `EvictDelete` |
| `shutdown`, `deleteAll` | `down`, `sdTodo`, `sdKey` | `Shutdown`, `ShutdownClose`, `ShutdownDelete` |
| admin | | `AdminClear`, `AdminFetch` |
| upstream map; streams | `upmap`, `done`; `stream` | |
| environment | `origin`, `expired`, `stream` | `Publish`, `TimePasses`, `StreamCloses` |

Abstractions, and why they are sound:

- A request is the pointer go-control-plane's adapter makes for it, hence
  unique. A stream is named by the request that opened it: a request opens one
  at most. A version is a number: the origin server's versions of one key are
  ordered in time, and the code only compares them for equality.
- `close(done)` is one step with the `Load` before it. Splitting them would add
  interleavings only where two goroutines already close one channel in the
  model.
- `get` and `Send` of one watch in the fanout are one step: a `Send` on a watch
  closed in between does nothing. Two concurrent `Send`s count as one after the
  other. A `RequestsStore` is read as a snapshot when `ForEach` starts.
- `Fetch` returns a struct with a *pointer* to the store, so the fanout sees
  requests added after the `Fetch`, and after an eviction the store as it was:
  `live` and `todo`.
- `select` picks either of two ready cases: `Receive` and `ReceiveDone`.
- A panic (`panic`) ends the process: no action is enabled after it.
- `StreamCloses` is the client closing the response channel: for an unsupported
  type URL, or when the root context is cancelled. `UpstreamClient` shows that
  there is no other reason (the third one, the caller's own cancellation, ends a
  stream nobody reads any more). Requests of one key may differ in type URL, as
  the rules of the mapper need not mention it.

`ImplementsRelay` maps `cw` and `watch` to the watches of `Relay` (`WatchMap`), the
callback to whether it has still to close them, and whoever holds `cacheMu` to
`Admin`.

### Relay

The orchestrator as the admin server needs it: the cache, the watches, and the
callback's half that closes them. Streams and sends are left out, so that a
response may come for any key that was asked for, and a failure close the watches
of an entry, or of an eviction whose callback has not come to it, at any time.
Where `Orchestrator` has a goroutine with several steps, `Relay` has `RegisterWatch`,
`Cancel` and `UnregisterWatch`, `CacheResponse`, `FailWatches`, `EvictWatches` and
`EvictReturns`, `Clear` and `Expel`: one for each way cache and watches change.

### LruCache

The cache as it is built: the list in order of use, entries with an
`ExpirationTime`, a clock, two-phase `Fetch`, `RemoveOldest`. `Abs` maps it to
`Cache` (`ImplementsCache`). groupcache's `lru.Cache` is external.

### ResponseStream and UpstreamClient

`ResponseStream` is the contract of `OpenStream`. `UpstreamClient` is one stream
of the client: the retry loop (`hs`, `att`), `send`, `recv`, the `signal` channel,
and the goroutines of `SendMsg` (`calls`) that may outlive the attempt that
started them and that write into one shared request (`msg`). `KeepsContract` is
the refinement. A stream that cannot be created leaves the state unchanged (the
loop tries again), so it has no action.

### Mapper

`GetKey` as an operator: match predicates with the outcomes true, false and error
and the early returns of `and` and `or`, result predicates, and the join. A
string is a sequence of atoms, so that concatenation with and without separators
is what it is in the code; a regular expression is an unanchored atom, or one
that does not compile. A metadata value is what the protobuf getters return of
it. `GetLocality` never returns nil, so the error for a nil locality has no
counterpart. The configuration is any of a set that `KeyerConfig`, the generated
validation as an operator, accepts (`Accepted`).

Predicates hold predicates, and the code recurses on them. `isMatch` and `getResult`
are recursive functions over all the predicates of the configurations
(`MatchPredicate`, `ResultPredicate`); what is done with a predicate, given the results
for its members, is an operator (`MatchOf`, `ResultOf`), so that theorems can be proved
about the recursion. Constants are the strings' atoms (`Atom`) and the values metadata
fields hold (`Value`).

The state machine is about computing a key twice. `CreateWatch` computes the key
of a request; `SendMsg` of the stream that request opened writes a field into its
node (`WithField`), which go-control-plane may share with later requests of the
same downstream stream; `getAggregatedKeys` computes the keys of the open watches
again for the admin's wildcard requests (`ClearAll`). A watch and its stream are
otherwise as coarse as possible: `Orchestrator` has their details.

### KeyerConfig and Bootstrap

The two generated validators, message by message: one operator per `Validate`.
A message is a record of its fields, an absent one is `Nil` (in `KeyerConfig`: a
record of kind "nil"), a oneof is the record's `kind`, and of a string only what a
check looks at is kept. `Bootstrap` also has the duration strings and what a
negative jitter does. Both are pure; `Mapper` and `Server` start from what they
accept. The messages of a keyer configuration are finite trees: `Height` falls from a
predicate to its `Members` (`KeyerAssumption`).

### Watch

| code | variables | actions |
|---|---|---|
| `Send` | `at[c]`, `result[c]` | `Invoke`, `RLock`, `Check`, `Dequeue`, `Enqueue`, `RUnlock` |
| `Close` | `closing`, `closed`, `outClosed` | `Lock`, `Acquire`, `SetClosed`, `CloseChannel`, `Unlock` |
| `mu` | `readers`, `writer` | a waiting writer keeps out later readers |
| the client's stream | `out`, `got` | `Receive` |

`Orchestrator` has `Send` and `Close` as one step each. `DrainedBeforeClose` makes
that right for `Close`; `StaleDropped`, `BlockedByOverlap` and `NothingLost` say what
overlapping `Send`s may do: one may fail, its response dropped, but only as if it
had been the one replaced.

### Server

One process: `boot` (the file), `mode`, and the step of main (`pc`), from `Load` to
one of the three ends; `cause` says why it ended. Start-up is one action per part
(`InitLogger`, `InitMetrics`, `InitUpstream`, `InitOrchestrator`, `SetUp`), each of which
panics where the code dereferences what is not there.

| code | variables | actions |
|---|---|---|
| `case state := <-weboff` | `weboff`, `current` | `TakeDemand`, `StartServer`, `StopServer`, `FinishStop` |
| `case sig := <-sigs` | `sigs`, `cancelled` | `Signal`, `CloseAdmin`, `AdminClosed`, `Cancel`, `FinishLastStop` |
| return, deferred calls | `closed` | `Return` |
| `startServer`, gRPC servers | `grpc` (a sequence), `conn` | `Serve` |
| `RunAdminServer` | `admin` | `RunAdminServer` |
| ready handler | `req`, `ready` | `Post`, `HandleReady` |
| environment | | `Connect`, `Disconnect`, `EndStream`, `OpenStream`, `Kill` |

A gRPC server is "bound" once its port is taken, "serving" in `Serve`,
"draining" in a `GracefulStop` that waits for clients, "stopped"; "unserved" is one
that was stopped before `Serve`, whose listener nobody closes and whose `Serve` will
fail. A client is one open stream. GET of the ready handler changes nothing. The
clients' requests are `Orchestrator`'s business, except that the first opens an
upstream stream, which a negative jitter turns into a panic.

### AdminServer

`Relay`, and one request to a cache handler, step by step: `Ask`, `List` (the keys
of the open watches), then `ClearEntry` or `FetchEntry` and `FetchAgain` per key in any
order, as Go ranges over a map, and `Finish`. A handler that dereferences nil is
"broken": net/http recovers, and the client has no answer. Four history variables
(`held`, `open`, `steady`, `had`) remember what was so when the request came in and
has been since, so that the properties say what the answer owes to whom.
Of a payload only what a handler may break at is kept: the api, section and
addresses of each resource (`marshalResources`, `Addresses`).

## 3. Runs

| run | instance | checks |
|---|---|---|
| `safe` | one key, two requests, two versions, NACKs, ttl, streams that resend | `TypeOK`, `NoMissedResponse`, `PanicNeedsFailure` |
| `stop` | one key, three requests: one with an unsupported type URL, one without a key; ttl, shutdown | `WatchRegistered`, `WatchFed`, `StreamTracked`, `ImplementsRelay` |
| `live` | two keys, a request for each, a cache of one entry, ttl, `FairSpec` | `OwnResponsesOnly`, `Served`, `StreamStops` |
| `lru` | three keys, two entries, ttl 1, clock to 3 | `ImplementsCache`, `ListMatchesEntries`, `RemovesOnlyExpired`, `LastUsedSurvives` |
| `client` | two attempts, two versions, `FairSpec` | `NoSendOnClosed`, `AcksDelivered`, `KeepsContract`, `SendEnds`, `StreamEnds` |
| `mapper` | nine configurations the validation must accept and one or more for each of its checks that it must not, twelve nodes, two types, two clients | `KeysAgree`, `AggregatesAlike`, `SharesOnlyEqualFragments`, `MatchesAsWritten`, `AcceptedIsUsable` |
| `watch` | three `Send`s and a `Close`, `FairSpec` | the six properties of `Watch` |
| `server` | a valid configuration with one of its messages replaced by any of a set, valid or not; three POSTs, two clients, `FairSpec` | the seven properties of `Server` |
| `admin` | two keys, three requests, room for both entries, ttl; patterns for all keys, for a prefix, and for each key | `ClearClosesWatches`, `DumpShows`, `OnlyDeadEntriesBreak` |
| `close_twice`, `strand` | as `stop` or `safe` | one claim of a comment each, violated |
| `recv_leak` | one attempt | one claim of a comment, violated |

Bounds. `Req` bounds the number of `CreateWatch` calls: two of one key meet in
every race on a map entry, and the first one's stream, evicted, meets the second
one's; requests of two keys evict each other's entries when `MaxEntries` is one.
`MaxVersion` is two where order matters and one elsewhere. The clock of `LruCache`
lets an entry expire, be refreshed and expire again. The configurations of
`mapper` contain every kind of predicate and action, each error, and pairs of
strings whose concatenations collide; the nodes differ from a base node in one
respect each. Two attempts of the client are enough for what one leaves behind
to meet the next. Three `Send`s let one overlap two that do not overlap each
other. Three POSTs take the server out of service, back, and find `weboff` full;
the number of gRPC servers is bounded by them. In `server` each configuration
differs from a valid one in one message, as each check of the validation looks at
one. In `admin` one request is followed, and the relay's steps after its answer
are not. `Reported` are the versions requests carry. Deadlock is not checked:
requests are bounded and the process may crash or stop. Requests of one key that
are treated alike are symmetric (`SameKey`), in runs without liveness.

Fairness. Goroutines are scheduled (weak fairness for each goroutine's steps);
`FairSpec` of `Orchestrator` owes nothing of clients, clock, admin or origin
server. `select` and mutexes get no strong fairness there: the `live` run bounds
responses and evictions (`Reconnects` is false), so weak fairness is enough, and
what is claimed is claimed for finitely many of them. `FairSpec` of
`UpstreamClient` also has timers fire and `RecvMsg` return once its stream is
over, which gRPC promises; it owes no new attempt, no answer and no reader.
`FairSpec` of `Watch` owes no caller and no reader: the lock is granted to who
waits, which `sync.RWMutex` promises. `FairSpec` of `Server` has one strong fairness:
`select` picks at random among ready cases, so a pending signal is taken in the
end; and streams end once their context is cancelled. It owes no client that
leaves, no demand and no signal.

## 4. What the runs found

Three claims of comments do not hold; each has a run that finds the execution.

1. `close_twice`: `upstreamResponseMap.delete` and `deleteAll` may close one
   `done` channel twice and crash the process. It takes a failed stream or a
   shutdown: evictions alone, serialised by `cacheMu`, never do
   (`PanicNeedsFailure`, proved).
2. `strand`: a `CreateWatch` between the two halves of the clean-up of a failed
   stream keeps an open watch that nobody feeds or closes.
3. `recv_leak`: `recv` may wait for ever on a full `signal` channel, and the
   stream is then neither reopened nor closed. It takes an origin server that
   sends a second response before the ACK of the first.

Three more are stated in the modules and have no run of their own; add the
property to the configuration named and TLC finds the execution.

4. `NewestSent` (`Orchestrator`, `MCOrchestrator_safe.cfg`): the goroutine that
   sends the cached response may replace a newer response in the watch's queue.
   `Watch` has the rest of the story: the later of two calls wins, whatever it
   carries.
5. `SlowReceiverTolerated` (`UpstreamClient`, `MCUpstreamClient.cfg`): the receive
   timeout logs a nil error and panics.
6. `OneRulePerFragment` (`Mapper`, `MCMapper.cfg`): `aggregation.proto:25` says that
   the first rule of a fragment that matches is applied; `GetKey` applies every one.

What the models show in passing, of behaviour the code does not rule out:

- *orchestrator*: an evicted stream's goroutine may cache an old response over a
  newer one (`CacheResponse` compares no versions); `*f` at `orchestrator.go:302`
  dereferences the nil that `Fetch` returns for an entry that expires in that very
  call (`FailNil`; `PanicNeedsFailure` bounds it to failed streams).
- *watch*: "channel is blocked", which "should never happen" (`watchv2.go:67`), is
  reached by two overlapping `Send`s (`BlockedByOverlap`).
- *mapper*: `SendMsg` panics on a node whose metadata has no fields, as it writes
  into a nil map; `aggregation.proto:128-134` describes and as or, and or as and;
  an empty `exact_match` never matches; a regular expression that does not compile
  and a locality action without parts are accepted and then always fail.
- *admin*: `handler.go:54` and `:59` say that omitting the key clears, or outputs, all
  cache entries: they are those with an open watch. An entry that expires in the
  `Fetch` of a dump ends the dump for all keys, with a nil dereference at
  `cache.go:303`; the eds handler has another for an endpoint whose address is no
  socket address (`cache.go:72`, `:88`).
- *server*: while main waits in `GracefulStop` for clients to leave, neither a
  demand nor a signal is taken, though the ready handler answers 200 to the next
  one (`Stopping` in `ReadyServed` and `SignalStops`). A stop before `Serve` ends the
  process as fatal, and a signal before the first demand as a panic. The branch
  "ignoring desired state" (`server.go:147`) is never taken (`ReadyMatches`).
- *configuration*: a negative `stream_timeout_jitter` is accepted and panics at the
  first stream; `FlushInterval` is passed without its seconds (`server.go:79`); a
  negative `max_entries` is accepted.
- *logging*, which is not modelled: loggers derived by `Named` or `With` do not follow
  a later `UpdateLogLevel` (`src/internal/pkg/log/zap.go:70`).

## 5. Proofs

For all values of the constants, with sets of keys, requests, calls, clients and
configurations that may be infinite:

| module | theorem | property |
|---|---|---|
| `OrchestratorProofs` | `Invariance` | `IInv` |
| | `TypeCorrect` | `TypeOK` |
| | `WatchesRegistered` | `WatchRegistered` |
| | `StreamsTracked` | `StreamTracked` |
| | `WatchesFed` | `WatchFed` |
| | `NoPanicWithoutFailure` | `PanicNeedsFailure` |
| | `NothingMissed` | `NoMissedResponse` |
| | `OwnResponses` | `OwnResponsesOnly` |
| | `OrchestratorImplementsRelay` | `ImplementsRelay` |
| `LruCacheProofs` | `LruInvariance`, `LruTypeCorrect` | `IInv`, `TypeOK` |
| | `ListsMatch` | `ListMatchesEntries` |
| | `FetchRemovesOnlyExpired` | `RemovesOnlyExpired` |
| | `InsertionSparesLastUsed` | `LastUsedSurvives` |
| | `LruImplementsCache` | `ImplementsCache` |
| `UpstreamClientProofs` | `ClientInvariance`, `ClientTypeCorrect` | `IInv`, `TypeOK` |
| | `ChannelsClosedSafely` | `NoSendOnClosed` |
| | `AcksFollowDelivery` | `AcksDelivered` |
| | `ClientKeepsContract` | `KeepsContract` |
| `AdminServerProofs` | `AdminInvariance`, `AdminTypeCorrect` | `IInv`, `TypeOK` |
| | `ClearsCloseWatches` | `ClearClosesWatches` |
| | `DumpsShow` | `DumpShows` |
| | `BreaksExplained` | `OnlyDeadEntriesBreak` |
| `WatchProofs` | `WatchTypeCorrect` | `TypeOK` |
| | `CloseDrains` | `DrainedBeforeClose` |
| | `SendDropsStale` | `StaleDropped` |
| | `SendFailsByOverlap` | `BlockedByOverlap` |
| | `SendKeepsLatest` | `NothingLost` |
| `MapperProofs` | `Types` | `TypeOK` |
| | `AdminFindsTheKeys` | `KeysAgree` |
| | `OneKeyForTheSame` | `AggregatesAlike` |
| | `KeysKeepFragmentsApart` | `SharesOnlyEqualFragments` |
| | `LogicIsKept` | `MatchesAsWritten` |
| | `AcceptedConfigurations` | `AcceptedIsUsable` |
| `ServerProofs` | `ServerTypeCorrect` | `TypeOK` |
| | `ValidatedStarts` | `AcceptedStarts` |
| | `ReadyAnswers` | `ReadyMatches` |
| | `StopsDrain` | `StoppedMeansDrained` |
| | `WeboffSafe` | `NoSendOnClosed` |
| | `EndsExplained` | `EndExplained` |

The assumptions are the types of the constants, and that the names for "none" are
none of the values (`CacheAssumption`, `OrchestratorAssumption`, `LruAssumption`,
`RelayAssumption`, `UpstreamAssumption`); for `AdminServer` (`AdminAssumption`) also
that a path names one key or a prefix, and that every key has a payload; for
`Server` (`ServerAssumption`) that a file is read into a message that is there;
none for `Watch`. For `Mapper` they are the shape of the messages of
`aggregation.proto`. `KeyerAssumption`: messages are finite trees, and what is in a
oneof or in a list is never nil, as `protojson` reads null as an absent field and
refuses it in a list; whether a message is valid is not assumed. `MapperAssumption`:
strings and paths are sequences, a field of a node's metadata and what is inside it is
a `Value`, and the string `SendMsg` writes is one.

### Orchestrator

Its properties are not inductive. The strengthening `IInv` says in addition

- `LockInv`: `cacheMu` is held exactly while the callback runs, and the entry
  the callback is about stays gone meanwhile;
- `OpenInv`: a watch is open only between `createWatch` and the cancel function;
  `MadeInv`: before its request is registered nobody closes it;
- `StreamInv`: what is in the upstream map was started for that key, and a
  `watchUpstream` ends or cleans up only when told to or when its channel closed;
- `CloseInv`: while the process lives, a key's stream has its `done` closed
  exactly while one goroutine, and only one, is between `close(done)` and
  `Delete`. This is what makes evictions safe, and what a failed stream breaks,
  by ending the process;
- `ShutdownInv`, `FedInv`, `PanicInv`: the failure that excuses a watch without
  a stream, or a crash, is one `watchUpstream` was, or will be, told of;
- `DeliveryInv`: `NoMissedResponse` while streams are busy. A watch whose client
  lacks the version of the entry (`Owed`) was sent something, or its cached send is
  still to come, or some `watchUpstream` is to fan out to it (`Delivers`): one that
  has not fetched yet, as the watch is in the entry by then, or one that has and
  whose store it is in. The argument is about what an operation of the cache
  leaves alone (`Stays`): an entry that still has a response afterwards is not
  evicted, so the fanouts that hold its store go on, unless the response is new,
  and then the goroutine that cached it is about to fetch;
- `StoreInv`: whoever is in an entry, with a callback, or in a store that is fanned
  out, has been registered for that key; `VersionInv`: every version on its way was
  published, for that key. Together they give `OwnResponsesOnly`;
- `StaleInv`: a failed stream with the store of an entry that is gone closes
  watches the callback closes too, or has closed.

Each conjunct has a lemma of its own (`TypeStep` ... `VersionStep`), with a case
per action; `StepIInv` combines them.

The refinement of `Relay` needs no invariant of its own: `MadeInv`, `StoreInv`,
`StaleInv` and `VersionInv` are what a step of `Orchestrator` needs in order to be
one of `Relay`. What each operation of the cache does is the same in both, but for
who evicts (`AddRequestRefines` ... `EvictReturnRefines`).

### LruCache

`ListInv` has the list without repetitions (`IsInjective`) in place of the equal sizes
of `ListMatchesEntries`, and `UsedInv` the last used key in front. The lemmas about
`Without`, `ToFront` and dropping the last element say what they do to the range, the
length and the order of such a list; `LengthIsCardinality` connects the length of
the list with the size of the map, on which "full" depends in `Cache`. The
refinement maps an `ExpirationTime` to whether it has passed, so that a tick of the
clock becomes `Expire`, and an `Add` becomes `Update` or `Insert`.

### UpstreamClient

`HeldInv` says what the response in `recv`'s hands is at each of its steps, and
`AckInv` that whatever may still be sent as a version, in `signal`, in a `SendMsg` of
an earlier attempt or in the request they share, was received by the orchestrator:
`AcksDelivered` is not inductive without the calls left over. `AttemptInv` and these
give the steps of `ResponseStream`.

### Mapper

Two arguments meet, one about data and one about steps.

*Data.* What a recursive function computes of a predicate is proved by induction on
`Height`. `Lowest` is the induction: a claim that fails somewhere fails at a lowest
predicate, whose members satisfy it. `Recursion` says that a definition whose value at
a place depends on lower places only has a solution, from which `MatchUnfolds`,
`ResultUnfolds`, `InsideUnfolds`, `HoldsUnfolds`, `ValidMatchUnfolds` and
`ValidResultUnfolds` follow: each recursive function is what its body says.
`FlattenUnfolds` does the same for `FlattenSeq`. On these rest

- `LogicIsKept`: the outcome of `and`, `or` and `not` is theirs if it is that of the
  members (`LogicalStep`), for any request;
- `AcceptedConfigurations`: a lowest valid predicate that lacks its oneof, or that
  comes to nothing and is no literal, does not exist (`ValidMatches`, `ValidResults`),
  and the rules of an accepted configuration are valid (`ValidRules`);
- `SameMatches`, `SameResults`: requests that agree on the leaves agree on the whole;
- `JoinTellsApart`: a join can be taken apart at its separators from the end
  (`LastPart`), so equal keys have equal fragments.

*Steps.* `KeysAgree`, `AggregatesAlike` and `SharesOnlyEqualFragments` are not
inductive: the request of a watch changes after its key was computed. `KeyInv` says
what stays: unless the rules read what `SendMsg` writes, the key of a watch is the key
of the request *as the client sent it* (`KeyIsOfSent`), and a node that `SendMsg` has
written into or may write into (`Exposed`) belongs to requests on which no rule fails
(`SentAnswers`). The second half is needed because a request without metadata gets a
metadata struct from `SendMsg`, and an error of a rule on metadata could then become an
answer; but a request on which a rule fails has no key, and so no stream. With `TypeOK`,
which says that a node is the one sent but for the one field, `WrittenKey` carries a
key over a `SendMsg`. The types and `KeyInv` hold in TLC's instance as well.

### AdminServer

`ClearInv` and `DumpInv` say of each key what the loop over `pending` owes while it
runs: a watch a clear must close is closed, with the callback, or in an entry
still to visit. It holds because the relay takes a request from an entry only when
its watch is closed, which is `Relay`, and which `Orchestrator` is proved to
implement. `SteadyInv` says that an entry that has stayed keeps its response.

### Watch and Server

Watch. `LockInv` says who holds the lock and how far `Close` is; `CallInv` what a
call has done at each step; `OrderInv` that after its dequeue a call finds only
responses sent since it was made, which gives `StaleDropped` and
`BlockedByOverlap`; `LatestInv` that a call about to enqueue makes up for what it
dropped, which is `NothingLost` when none is under way.

Server. `StartInv`: nothing has happened before the loop, and past `Load` the
configuration is valid, from which each read of the start-up follows by the
definitions of `Bootstrap`. `GrpcInv`: only the last gRPC server is not over, it is
bound or serving only while main believes the relay in service, and a client's
stream is with a server that serves or drains. `AdminInv`: once `Shutdown` has
returned no handler runs. `StopInv`: there is a server to stop when main stops one,
because the first demand is in `weboff` from the start.

### Only model-checked

- all liveness: `Served`, `StreamStops`, `SendEnds`, `StreamEnds`, `SendReturns`,
  `CloseReturns`, `ReadyServed`, `SignalStops`, which needs `ENABLED`;
- the findings of section 4, which are executions.

The library's induction theorems have an operator as a parameter and cannot be used;
`Least` takes their place, by way of `WFMin`, which is about sets. `RECURSIVE` operators
are out of the prover's reach: only `MCMapper` has some.

`TypeOK` of `LruCache`, `UpstreamClient`, `AdminServer`, `Watch`, `Server` and `Mapper` are
proved, and in no configuration file.

## 6. Not modelled

- *The links of groupcache's list.* `Fetch` moves an entry to the front under the
  read lock, so two may tear the list. That is a data race in a library's memory,
  with no defined outcome to model; `LruCache` takes `Get` to be atomic.
- *Data races on maps*: `GetKey` reads a metadata map that `SendMsg` writes. `SendMsg`
  is one step of `Mapper`.
- *go-control-plane, gRPC, net/http, zap, tally*: modelled from how the code uses them,
  and marked external, or left out.
- *Metrics and logging*: no state the program reads depends on them.
- *YAML and protobuf decoding, the wording of answers, the rendering of dumps*: data.

## 7. Plan

Done: `Cache`, `CacheProofs`, `Orchestrator`, `OrchestratorProofs`, `Relay`, `LruCache`,
`LruCacheProofs`, `ResponseStream`, `UpstreamClient`, `UpstreamClientProofs`, `Mapper`,
`KeyerConfig`, `MapperProofs`, `Watch`, `WatchProofs`, `Bootstrap`, `Server`, `ServerProofs`,
`AdminServer`, `AdminServerProofs`. Every safety property that a run checks is proved,
and so is every refinement. What could follow:

1. `Orchestrator` over `Watch` in place of the one-step `Send` and `Close`, as a
   refinement.
2. `Mapper` composed with `AdminServer`, whose `List` takes the keys of the open watches
   as given: `AdminFindsTheKeys` says when they are the right ones.
