# Verification of aws-xray-yasdk-go

TLA+ models of the Go X-Ray SDK in `src/`, the TLC runs that check them on small
instances, and TLAPS proofs of the central invariants for instances of any size.
`PROJECT.json` names, for every definition, the lines it models.

## 1. The system

The SDK records *segments* (a root for each request that a service handles, and
subsegments for the work below it), decides by sampling which requests to trace,
and sends JSON documents to a local daemon over UDP. Everything runs inside the
application's process, on the application's goroutines, except the two pollers
of the centralized sampling strategy and the goroutines of `net/http`.

| Component (source) | State | Operations | Talks to | What is hard | What makes it correct |
|---|---|---|---|---|---|
| Segments (`xray/segment.go`) | tree of segments, end times, three counters in the root, flags, shared maps | Begin*, Close, AddError, AddPanic, Set*, Add* | strategy and client on Close | any goroutine may begin, close and write at any time; Close is several critical sections | one tree, exact counters, nothing stranded, panics reported |
| Streaming strategies (`xray/streaming_strategy.go`) | status of each segment | StreamSegment | reads and marks the tree under the root's lock | decides by counters that change between the sections of Close; documents share maps with live segments | batched within the limit, all reported, not reported twice |
| Client (`xray/client.go`) | default client, UDP socket, buffer pool | New, Configure, Emit, Close | daemon | emits race with Close and Configure; failed encodes, dials, writes | a socket is left open only by an emit that crosses Configure, documents are not mixed |
| Trace header and contexts (`xray/trace_header.go`, `xray/lambda.go`, `xray/capture.go`, `xray/detached_context.go`) | values in a context | String, Parse, DownstreamHeader, Capture, DetachContextSegment | next and previous service | decision and parent pass through services of different kinds | one trace id, real parents, one decision |
| Centralized sampling (`xray/sampling/centralized_*.go`) | manifest, quotas, pollers | ShouldTrace, refreshRule, refreshQuota, Close | X-Ray service over HTTP | requests use an old manifest; three refreshing goroutines; failing calls; a clock | counts conserved, manifest never older, fresh in the end, stops |
| Localized sampling (`localized_strategy.go`, `reservoir.go`, `manifest.go`) | one reservoir per rule | ShouldTrace, Validate, Copy, normalize | fallback of the centralized strategy | boundaries of seconds and reservoirs; two manifest versions | exactly the target per second, by the first rule that applies |
| Wildcard patterns (`pattern.go`) | none | match | both strategies | stars without going back, characters of several bytes, ends of strings | misses no match of a glob, and is one for characters of one byte |
| HTTP client (`xrayhttp/client.go`, `client_tracer.go`) | one open subsegment per kind of hook | RoundTrip, hooks, Cancel, Read, Close | `net/http.Transport` calls back | racing dials, retries, hooks after the end | every subsegment is closed |
| HTTP handler (`xrayhttp/handler.go`, generated `wrap.go`) | root and response subsegments, status, hijacked or not | ServeHTTP, Write, WriteHeader, Hijack, Flush, ... | `net/http.Server` | hijacking, optional interfaces, panics, clients that go away | both segments closed, the status that was sent, panics as faults |
| SQL (`xraysql/`) | attributes of the database; subsegment and transaction of a connection | Connect, Query, Exec, Prepare, Begin, Commit, Rollback, ResetSession, Close | `database/sql` and the driver | connections change hands; ErrSkip fallback; panics; rollback in the background | no request meets another's subsegment, none is lost, transactions enclose their calls |
| AWS clients (`xrayaws/`, `xrayaws-v2/`) | subsegments of one API call | handlers of the request's stages | AWS SDKs | retries and signatures reuse the record; stages fail or panic | every subsegment is closed with the call |
| Configuration (`xray/config.go`), plugins (`xray/plugin.go`, `plugins/`) | lists filled at start | choose strategies, add facts to documents | environment, metadata services | priority of origins | - |
| Logging, missing contexts, schema, test daemon | a global logger | output | - | - | - |

Interactions: `BeginSegment` asks the sampling strategy; `Close` asks the streaming
strategy and hands documents to the client; the HTTP, SQL and AWS packages are
clients of segments and contexts; `DownstreamHeader` links services.

## 2. Modules

| Module | Models | State and actions |
|---|---|---|
| `Segment` | one trace, all goroutines, both strategies, `Client.Emit` | a set or function per field; one action per region under `root.mu`; `pc` tells how far the `Close` call that ended a segment has got |
| `TraceReport` | abstract: what a trace promises | `Begin`, `Complete`, `Flush` (a report is never a part of what is complete) |
| `SegmentRefinement` | the mapping of `Segment` to `TraceReport`, and the inductive invariant `IInv` | - |
| `StructuredTrace` | `Segment` restricted to the discipline of the examples: `defer seg.Close()`, children finish before parents, siblings concurrent | `StructuredCall` |
| `TraceContext` | a request through several services | header as a set of parameters; one action per way to begin a segment, one for the outgoing call |
| `CentralizedSampling` | `CentralizedStrategy` with both pollers and `go s.refreshRule()` | `lock` is `muRefresh`; each refresh is split at its HTTP calls, the listing of the rules at its pages; `FetchError` is an error answer that decodes to no rules |
| `Quota` | one `centralizedQuota` | one action per outcome of `Sample`, `update`, `Stats` |
| `Wildcard` | `pattern.go`, over sequences of bytes | the chunk matcher and the loop over chunks as recursive functions; `Glob` is the definition it is compared with: the text can be cut into a piece for each sign of the pattern |
| `LocalizedStrategy` | `LocalizedStrategy`, its manifest and reservoirs | `NewLocalizedStrategy` validates and normalizes; `ShouldTrace` takes the rule that `Match` finds, then its reservoir, then its rate |
| `Client` | `emit`, `Close`, `Configure` | pool, socket, default client; one action per section under `c.mu`; `crossed` is history: the clients that an emit still had while they were replaced |
| `HttpClient` | one `RoundTrip` with its hooks, and the body's tracer | which fields hold a subsegment, how many are open, how many were `overwritten` (history: the field was given to another); the transport's goroutines are external |
| `HttpHandler` | `ServeHTTP` and the response writer of any number of requests | segments, status and flags of each request; one action per method that changes state; the server's own status is external |
| `SqlConn` | the connections of one DB: `driverConnector`, `driverConn`, `driverStmt`, `driverTx` | what each connection refers to and who has it; the pool, the driver with its panics, and `database/sql`'s retries are external |
| `AwsCall` | one call through `xrayaws` or `xrayaws-v2` | which fields hold a subsegment, how many are open; one action per handler |
| `Service` | composes `HttpHandler`, `HttpClient`, `SqlConn` and `AwsCall` | requests that call, and what goes on in the background after they end |
| `<module>Proofs` | the theorems about a module, and their proofs | the inductive invariant of the module, as named parts |
| `MC*` | values of constants and symmetry for TLC | - |

What is abstracted: names, ids, times and most fields of a document (an `Entry` of
`Segment` keeps whether the segment is complete, its fault, and whether the
document refers to maps of the live segment); the random numbers of sampling (a
choice); the JSON text. Critical sections are atomic, because every access to the
state in them holds the lock: `BeginSubsegmentAt`, `close()` and `StreamSegment`
all hold `root.mu`. What happens between two critical sections is a separate
action: `AddPanic` between `close()` and `StreamSegment`, and encoding, which
holds no segment lock. In `Segment` and `HttpClient` the client is enabled, its
documents can be encoded and written (`Client` has the failures), and the request is
sampled: otherwise there is no segment, and every operation on the nil segment
returns at once. `CentralizedSampling` counts requests per quota and leaves what a quota
decides to `Quota`.

In `Service` the application is free but for two things: a handler does not return
before a call of its own does, and it does one kind of work in a behaviour
(`Works`), because the packages share nothing but the request. The interfaces of
the server's writer, Hijack and the writes of a response matter only when the work
is writing; panics and cancelled requests are those of the main request, and left
out while it calls another service, whose hooks do not depend on them. Other
requests are served only when they compete for connections. `SqlConn` has one
subsegment per call and per transaction; those of CONNECT and of the detectors end
with `xray.Capture` and are left out. In `AwsCall` the marshal subsegment of v2
begins and ends in one action, as it does in the code.

What `database/sql` does with a connection when the driver panics decides what becomes of
its subsegments (`SqlConn`). `Exec` gives the connection back in a deferred call, so the next
reset closes what was left open. `Query`, a prepared statement, `Begin`, `Commit` and
`Rollback` do not: the connection is `"lost"`, and in a transaction a lock is kept for which
`Commit` and `Rollback` then wait, so that the transaction never ends.

The server of `HttpHandler` sends the first final status it is told, or 200. Two histories
note where the tracer's status and the server's may part: `past`, the server sent 200 by
itself (nothing was written, or `WriteString`, `ReadFrom`, `Flush` or a status below 200
came first), and `again`, another status was set after the response had begun.

The rules that X-Ray lists always have the default rule, which no user can remove. A listing
comes in pages: a rule that changes between two pages may or may not be in it.

A definition whose comment begins with "Faulty:" is a slip that the code does not
have: it is used by no specification. Each property is known to fail when the
definition that follows the faulty one is replaced by it (`PROJECT.json`,
`mutants`), so every property is one that the code could break.

## 3. Runs

| Run | Instance | Shows |
|---|---|---|
| `MCSegment` | root and 2 subsegments; BatchAll, and limits 0 and 1 | `TypeOK`, `OneTree`, `CountersAgree`, `NothingStranded`, `BatchedWithinLimit`, `TwiceByRootOnly`, and under fairness `ImplementsFairTrace` (refinement with liveness), `CompletedIsSent` |
| `MCStructured` | root and 3 subsegments, one that may fail or panic, two whose maps are written | `ReportedOnce`, `PanicReported`, `NoMapRace`, `AllSent` hold under the discipline |
| `MCReportedOnce` | root and 2 subsegments, limit 2 | violation: without it a segment is reported twice |
| `MCTraceContext` | up to 4 services, entered by HTTP, queue or Lambda; clients may be disabled | `OneTrace`, `ParentIsCaller`, `NotSampledStays`, `RoundTrips` |
| `MCSampledStays` | 2 services over HTTP | violation: a sampled request is dropped by the next service |
| `MCCentralizedSampling` | the default rule and another, 1 request in flight, one change of the rules or one error answer, chunks of one | `Conserved`, `OneQuota`, `NeverOlder`, `EventuallyFresh`, `CloseStops` |
| `MCChangeDetected` | the default rule and another, one change, 3 points of time | violation: a change in a refresh goes unnoticed |
| `MCQuota` | 3 seconds, 4 requests, quotas 0..2 | `BorrowOnePerSecond`, `ReservoirBound`, `StatsConserved` |
| `MCLocalizedStrategy` | manifests of both versions with 2 rules and a default, invalid ones, and one rule for each of many patterns; 2 seconds | `TargetMet`, `FirstMatchDecides`, `NoMatchMissed` |
| `MCClient` | 2 clients, 2 goroutines, 2 documents each | `OnlyCrossingEmitsLeak`, `DocumentsIntact` |
| `MCService` | 2 requests, 2 database connections, 2 subsegments of the database, 2 connections of 2 addresses each, 2 attempts of an AWS call | `StatusTrue`, `PanicShown`; `CancelCleansUp`, `ResponseClosed`, `NothingOverwritten`; `OwnRequest`, `HeldOrClosed`, `UnderTransaction`, `OneAttribute`; `AwsClosed`; `ChildrenFirst` across all of them |
| `MCRootClosed` | one call through either AWS SDK, 2 attempts | violation: a retried call of `xrayaws-v2` leaves a subsegment open |

Deadlock checking is off in every run: an application may stop calling the SDK,
and the bounds on time, requests and segments end every behaviour.

**Bounds.** Two subsegments below the root are enough for one that ends inside,
beside or after another and after the root, and for both sides of each limit; the
proofs below hold for any number. `MCStructured` has a third, for an outer, an
inner and a concurrent subsegment at once. Limit 0 batches nothing, limit 1 is the least
that batches a subsegment. In
`TraceContext` four hops give a sampled, an unsampled and again a sampled service
with one before them, and five ids give each of them a segment, some a subsegment.
In `CentralizedSampling` one change and one request suffice for a manifest that
is stale while a request uses it, and one error answer for a manifest that is emptied
(`MaxEvents` bounds the two together; an error answer can be repaired only if they end); `MaxTargets = 1` makes the two documents travel
in two calls, of which any may fail (the code's value is 25). Two connections and
two addresses are what a retry and a race need. In `MCService` two requests and two
connections make a connection change hands while both requests detect the
attributes, and two subsegments are a transaction and a call, or a call left open
and the next one; the statuses are an informational one, and one for each flag and
for none. In `MCLocalizedStrategy` the patterns
are all of two signs over two letters, star and question mark, and all of three over a
letter, star and question mark, which is every way in which a chunk follows a star; three
longer ones need the search to skip a place or a second chunk to come after it, and one ends
in a character of three bytes. The texts have up to four bytes. A reservoir of two and one request beyond it meet
both ends of a second. Symmetry is used only where no
temporal property is checked, over identifiers that the specification treats alike.

**Fairness.** In `Segment` a `Close` call that was made runs to its end: it is Go
code with no wait but for locks that are held for a bounded time (a dial is cut
off after 100 ms). Nothing is assumed of the application. In
`CentralizedSampling` goroutines run and timers fire; acquiring `muRefresh` needs
strong fairness, because it is free again and again between other holders, which
`sync.Mutex` gives (its starvation mode); and strong fairness of `FetchRules`
says that not every listing of the rules fails. That includes the minute that a refresh
has, which starts before `muRefresh` is taken (`centralized_strategy.go:407`): the code does
not exclude that every refresh finds it used up by another, and `EventuallyFresh` assumes
that this does not go on for ever. Nothing is assumed of requests, the user, the clock or the
calls for targets.

## 4. What the checks found

* **Reported twice** (`MCReportedOnce`). When a subsegment's `Close` reaches the
  strategy between the root's `close()` and the root's own `StreamSegment`, it
  reports everything that is complete, and the root then sends the whole tree
  again. `TwiceByRootOnly` bounds it: never three times, always through the
  root's tree, never with BatchAll or a limit of 0. Under the structured
  discipline it cannot happen.
* **The decision is lost below a subsegment** (`MCSampledStays`). Only the root
  keeps the incoming header, so a call from inside a subsegment carries no
  `Sampled` flag.
* **A change of the rules goes unnoticed** (`MCChangeDetected`) when it falls
  between the fetch and the time noted as `RefreshedAt`. `EventuallyFresh` shows
  that the five minute timer repairs it.
* **An error answer empties the manifest.** `getSamplingRules` does not look at the status
  (251-263): the JSON body of an error decodes to no rules, and refreshRule installs them
  (461). Requests then fall back to the local strategy; `refreshQuota` has no documents to
  send, makes no call and so detects nothing; the five minute timer brings the rules back
  (`EventuallyFresh`), with new quotas: what the old ones counted is never reported. `OneQuota`
  excepts these rules (`gone`), and `Conserved` finds their counts still in the old quotas.
  `getSamplingTargets` does not look at the status either; what follows is that the
  statistics are lost, as in `FailTargets`.
* **A socket nobody closes.** `Configure` closes the old client before it replaces it. An emit
  that has the old client, or takes it in between, dials again, and no one closes that socket.
  `OnlyCrossingEmitsLeak` says that this is the only way.
* **A driver's panic loses a subsegment.** `Commit` and `Rollback` of `tx.go` close the
  transaction's subsegment after the driver's call and not in a deferred one, and so does
  `BeginTx` on an error: a panic skips it. After a panic in a `Query` outside a
  transaction `database/sql` never uses the connection again, so no `ResetSession` or `Close` closes its subsegment. `HeldOrClosed` says which
  panics lose what.
* **Another status.** `WriteHeader` records each status it is given (`handler.go:239`), also
  those after the first, which the server ignores: then the document tells what nobody
  got. It is the only case that `StatusTrue` excludes.
* **A retried call stays open** (`MCRootClosed`). `endMarshal` of `xrayaws-v2` runs in
  every attempt and begins the call's subsegment anew. `AwsClosed` tells exactly
  what is left open by either SDK: `tries - 1` subsegments of the call with v2, and
  with v1 the attempt of a request that was signed twice.
* **Rules of version 1 lose their host.** `Validate` admits only rules with `host` and
  without `service_name` (`manifest.go:87`, though its error says otherwise), and
  `normalize` then overwrites `host` with the empty `service_name` (128): such a rule
  matches no request that has a host. `FirstMatchDecides` is about version 2.
* **Wildcards outside ASCII.** The search behind a star goes by bytes, so `*??` matches one
  character of three bytes. `NoMatchMissed` shows that no match is ever missed,
  `FirstMatchDecides` that matches are right for characters of one byte. `Glob` takes bytes
  that are no whole character one by one, as `utf8.DecodeRuneInString` does.
* **Status 0.** A response that starts with `WriteString`, `ReadFrom` or `Flush`, or has
  no body and no `WriteHeader`, is recorded with status 0 (`handler.go:106-113`); after a
  status below 200 it is recorded with that one. `StatusTrue` admits exactly this where
  the server sent 200 by itself.
* Two conditions in properties state limits of the code, not of the models:
  `PanicReported` holds within the limit (past it, another `Close` may report the
  segment between `close()` and `AddPanic`), and `NoMapRace` holds for structured
  programs only (the encoder reads live maps without a lock). Without raced dials
  and retries no hook's subsegment is lost (`NothingOverwritten`); with them a hook
  overwrites the subsegment of the hook before it, and `CancelCleansUp` says that after
  `Cancel` exactly those are open, and never that of the connection.

## 5. Proofs

TLAPS proves, for every value of the constants, every invariant that a run checks, and
the action property `NeverOlder`:

* `SegmentProofs`: type correctness, `OneTree`, `CountersAgree`, `NothingStranded`,
  `BatchedWithinLimit`, `TwiceByRootOnly`, and that `Segment` implements the safety
  part of `TraceReport` (`Refinement`); for structured programs `ReportedOnce`,
  `NoMapRace`, `AllSent` and `PanicReported`.
* `TraceContextProofs`: `OneTrace`, `ParentIsCaller`, `NotSampledStays`, `RoundTrips`, for any
  number of services of any kind.
* `ClientProofs`: `OnlyCrossingEmitsLeak`, `DocumentsIntact`, for any clients and emitters.
* `CentralizedSamplingProofs`: `OneQuota`, `NeverOlder`, `Conserved`, for any rules, requests
  and changes of the rules.
* `QuotaProofs`: type correctness, `BorrowOnePerSecond`, `ReservoirBound`,
  `StatsConserved`.
* `LocalizedStrategyProofs`: what the wildcard matcher computes, for any pattern and text
  (`NoneMissed`, `GlobDecides`); `TargetMet`, `FirstMatchDecides` and `NoMatchMissed`, for any
  manifests and requests.
* `CallProofs`: of the connections, `OwnRequest`, `HeldOrClosed`, `UnderTransaction` and
  `OneAttribute`, for any number of requests, connections and subsegments; of one HTTP
  request, `NothingOverwritten`, `CancelCleansUp` and `ResponseClosed`; of one AWS call,
  `AwsClosed`; both for any number of attempts.
* `ServiceProofs`: `StatusTrue` and `PanicShown`, for any requests, statuses and writers; that
  the service uses the four components as their own specifications allow
  (`UsesComponents`), hence all that is proved of them; and `ChildrenFirst`.

*The argument for a trace.* None of the invariants is inductive alone: whether a
`Close` may leave a segment to the root depends on the counters, on the tree (the
walk must reach what was counted) and on the stage of the root's own call. `IInv`
(module `SegmentRefinement`) conjoins them with the bounds of the sets
(`emitted \subseteq ended \subseteq begun`), the fact that exactly the ended
segments have a `Close` call, and `ReportsHaveReporter`: what is reported was
reported by a call that has left `StreamSegment`, with BatchAll by the root's.
`Reachable` is defined as a least fixed point without recursion, as the
intersection of all sets closed under `subsegments`; a lemma shows that a new
child adds exactly itself. One step per action, one per conjunct it can disturb.
`Refinement` follows from `IInv`: `StreamTree` and `StreamCompleted` mark
`Reachable \cap ended = ended`, hence all that is complete; `BatchedWithinLimit`
gives the guard of `Flush`.

*The argument for a structured trace.* `Structured` adds to `IInv` what the discipline gives.
`Nested` says that the `Close` calls of the children of an ended segment have returned. Since
every segment is reachable from the root, it follows by the least fixed point again that an
ended root is the last of all (`RootEnded`): no other call is then on its way that could
report before it, read what it encodes, or be overtaken. `RootLast` says that while the root
is to report everything nothing is reported before it, and that nothing is left
after it. A report passes from `docs` through `encoding` to `sent`; `Delivered` says that an
entry is in one of them, and three lemmas that no step loses one. `PanicDelivered` follows a fault the
same way, from `AddPanic` to the document.

*The argument for the client.* A pooled buffer changes hands at each step of `emit`.
`BuffersApart` says that it is in one pool, or in one emitter's hands; `Filled`, that it
then has that emitter's document; `Behind`, that what the daemon has of an emitter is older
than what the emitter is about to write. The last is what makes "once and in order"
inductive. The sockets need that no number is dialed twice (`OneSocketEach`), and, for
`OnlyCrossingEmitsLeak`, that while a client is replaced or was, only emits that crossed the
replacement have it or its socket (`CrossedOK`).

*The argument for the trace context.* The invariant follows one header through three forms.
Between services it is text with parameters that others may have added (`WireHolds`); in a
service it is in the context (`ContextHolds`); in a trace it is the root's. `Arriving` is what all
have in common: the trace of the first service, a parent in the service before, and
"not sampled" if that was decided. `RoundTrip` shows that `ParseTraceHeader` undoes `String`
for any header, with what a load balancer adds: so the three forms agree.

*The argument for the centralized strategy.* `LockHeld` says that one refresher is between
`Acquire` and `Release`, and that the manifest it has read is the current one: this is what makes
the copy it installs an update and no overwriting. `Fresh` and `FetchedFresh` relate the rules
in use, the rules fetched and those of the service by the number of changes each has seen;
`FetchedFresh` says of a listing that every rule in use will be in it, page after page, but for
those that are `gone`: removed, or left out by an error answer. `QuotasMade` and `HeldQuotas`
relate the quotas in use and those that requests hold with those ever made.
`Conserved` is about sums. `SumFunction` folds over a domain, so the proof first shows that
such a fold exists and is unique, by taking a minimal set that violates the claim
(`SumExists`, `SumUnique`; finite sets have minimal elements), and from it that a sum changes
by what one of its summands does (`SumUpdate`), and that a sum over two parts is the sum of
theirs (`SumSplits`).

*The argument for the wildcards.* Given cuts that show a match, the loop is never behind them:
a sign that matches from a place before its piece ends no later than the piece
(`AdvanceBehind`; here it matters that the cuts are between characters), so a chunk does
(`ChunkBehind`), and behind a star the loop finds a place that is not after the one that the
cuts give (`Greedy`). Taking the first place is thus safe, and never going back too. The
converse needs characters of one byte: the places at which the loop finds its chunks are
then cuts (`GlobDecides`). Inductions over positions are made with the least, or the minimal,
counterexample (`LeastNumber`), and that the recursive functions of `Wildcard` exist is itself
proved so (`AfterExists`, `LoopExists`). `FirstMatchDecides` and `NoMatchMissed` then need only
that the last request was decided by `Decides` with the manifest in use (`Decided`), and
that a manifest of version 2 is used as it was given.

*The argument for a quota.* `used` equals what this second has taken as soon as
the first request of the second was seen; switching between credit and reservoir
changes neither. The reservoirs of `LocalizedStrategy` are the same for each rule at
once, over a manifest whose targets and rates `Normalize` keeps.

*The argument for the connections.* That a request finds only its own subsegment on a
connection holds at each step because of what the pool does between two users, and
of what a connection may still refer to then. The invariant `SqlIInv` says for each
connection (`ConnOK`) that what it refers to is open, that a subsegment on a
connection at rest was left there by a call (`left`), and that one begun in a
transaction is below it. `Separate` says that no two connections, nor the subsegment
and the transaction of one, refer to the same: otherwise closing one would take
another's away. `TxAtTop` says that transactions are below the request itself, which
makes "still open" hold for the parents of calls when a transaction ends.
`AttributesKept` says that every connection, made or being made, has the attributes
of the connector once there are any. Lemmas about `Append` (`Grows`, `NewSegment`)
carry the facts of old subsegments over the beginning of a new one.

*The argument for the requests.* `ClientIInv` says which fields may hold a subsegment at
each stage of `RoundTrip` (`StageHolds`), that goroutines of attempts to come do not
run yet (`IdleAhead`), and that, while one address is dialed at a time, a hook's
subsegment is held only while its goroutine is in the stage that begins it
(`OneDial`): so no hook finds its field taken. `HandlerIInv` says what is known of a
request until its handler ends or takes the connection (`Undecided`): nothing is
recorded or closed, and the tracer's status is the server's unless the history
says otherwise. `AwsIInv` counts: the open subsegments of a kind are those begun over
another (`Lost`) and the field's own, at every stage. In `Service` a step moves one
component and leaves the others alone, so that their invariants carry over;
`OverAlone` adds that a request that is over waits for no call, whatever the others
and `database/sql` still do, and puts each component in a stage at which its
invariant leaves nothing open but what `ChildrenFirst` names.

The assumptions are those of the modules: the root is a segment; segments and rules are
finite sets; limits and bounds are naturals; the statuses have three digits; manifests and
requests have the fields of their Go types; and the values that mark something as absent or
free are none of the things it could be (a request, a trace, a client, a header's text).

Only model-checked, because it is out of the prover's reach: everything under fairness, which is
`CompletedIsSent`, `ImplementsFairTrace` (of which `Refinement` is the safety part),
`EventuallyFresh` and `CloseStops`. The runs that end in a violation have nothing to prove.

## 6. Not modelled, and the plan

Modelled: tracing (`Segment` to `StructuredTrace`), `TraceContext`, both sampling
strategies, `Client`, and the packages that use them, composed in `Service`.

Next, in this order:

1. `Configure` composed with the strategies of the client that it replaces.
2. The order of centralized rules and the rule a request matches, with `Wildcard`.
3. The whitelists of `xrayaws*/` as an abstract walk over a document's values.

Not modelled, and why: `xray/config.go` reads the environment once and picks
strategies; `plugins/` fetch metadata at start, which is I/O under a deadline of a
second (`ec2.go:298`); `origin()` is a loop over their answers, and takes the last
plugin where its comment asks for the strongest; logging and missing contexts are
output; the schema is data; the test daemon serves tests. The whitelists and the
copying of parameters in `xrayaws*/` walk values by reflection, and the default
whitelists are generated data. How `getURL` and `clientIP` (`handler.go:136-202`) read
forwarding headers is formatting. JSON is not modelled anywhere.
