# moq-go: TLA+ verification

This directory holds TLA+ models of the MOQT session library and relay in this
repository, the TLC configurations that check them, and TLAPS proofs about eleven
of them. Every definition is translated from the Go source; `PROJECT.json`
("map") gives the lines each one stands for. Section numbers (§) in comments are
those the code cites, of the MOQT draft.

## 1. The system

A relay (`pkg/relay`) accepts MOQT sessions (`pkg/moqt/session`), subscribes
upstream on behalf of its downstream subscribers, and forwards Objects.

| part | code | what runs concurrently |
| --- | --- | --- |
| delivery ledger | `registry/track_entry.go` | every data stream and datagram of every upstream of a track claims its Objects here |
| Subgroup fanout | `handler_fanout.go`, `handler_fill.go` | the contributors of one Subgroup, one per upstream stream, and the subscribers that join |
| Subgroup writer | `handler_fanout.go` 700-1433 | contributors that enqueue, the goroutine that writes, updates, cancellation, join |
| datagrams | `handler_datagram.go`, `datagram_writer.go` | receive loops, one sending worker per connection, terminations |
| downstream subscription | `registry/subscription.go` | writers that open streams, datagram sends, the request stream's reader, termination |
| FETCH | `handler_fetch.go`, `fetch_ranges.go`, `registry/fetch_router.go`, `registry/inflight.go` | the serving goroutine, the upstream response, the live streams it waits on, timers |
| object cache | `cache/cache.go` | one lock; long sequences of Put, replace, Delete |
| track registry | `registry/track_registry.go`, `handler_subscribe.go`, `handler_publish.go` | publishers and subscribers coming and going, on-demand upstream subscriptions, held SUBSCRIBEs, late publishers |
| track offers | `handler_forward.go`, `registry/namespace.go` | the goroutines that may each offer a track to a SUBSCRIBE_TRACKS holder |
| Forward state | `handler_subscribe.go`, `pause.go` | downstreams that pause and resume, the delayed pause, publishers that answer updates |
| TRACK_STATUS | `handler_track_status.go` | requests that share one round of upstream requests |
| namespaces, discovery | `registry/namespace*.go`, `discovery/`, `handler_namespace.go` | publishers, prefix subscribers, remote relays |
| relay lifecycle | `relay.go`, `relay_upstream_pool.go` | accept loop, session handlers, dials, Stop, stragglers |
| session | `pkg/moqt/session` | handshake, control loops, request streams, brokers, data streams, aliases, tokens, publications |
| formats and filters | `pkg/moqt/message`, `datastream_{in,out}.go` | nothing: encoders, stateful decoders, filters |

`PROJECT.json` lists every part with its status ("components") and the places
where it can go wrong that a test would hardly reach ("hazards").

## 2. Modules

The models abstract payloads, names and encodings to model values and keep the
control: each critical section of the code is one action, and where the code
releases a lock, blocks, or hands over to another goroutine, the model has a
separate action, so that every interleaving the code allows is explored.

Relay, data path:

| module | models | state | actions |
| --- | --- | --- | --- |
| `TrackLedger` | `ClaimDelivered`, `RecordGroupEnd`, `RecordTrackEnd`, the windows and gaps, and the reader of `runFanout` from claim to cache | the delivered Groups, their Objects, gaps and ends; what each reader holds | one per claim, announcement, cache Put and purge |
| `SubgroupFanout` | `subgroupWriterSet`: acquire, contributors' heads, joiners, fill, `finish` | the open streams, what each reads, each subscriber's `seq`, what the fill carries | header, read, forward, fail, end, join, fill |
| `SubgroupWriter` | `subgroupWriter`: `enqueue`, `drain`, `reopen`, `skip`, `close`, `join` | inbox, writer phase, current stream and what was sent on it | one per blocking point of the writing goroutine |
| `DatagramFanout` | receive loops and `datagramWriter` | ledger, queue, the worker's hand, reserves | receive, claim, enqueue, send, drop, terminate, stop |
| `DownstreamSub` | `DownstreamSub` | the request stream, open streams, reserved datagrams, pending updates, termination | one per method, split where `reqMu` or `doneMu` is released |
| `FetchRouter` | `Register`, `Deliver`, cleanup, grace timer | the map, the channels, each stream's fate | lookup and send are separate steps, as in the code |
| `FetchRanges` | `locationRange` algebra, `fetchElements`, the decoder of markers | none (operators) | |
| `FetchServe` | `handleFetch` from the first cache read to the response | what is known, asked and answered, per Location | the two cache reads, the upstream exchange, the stitching |
| `InFlight` | `inflight.go` | copies being read, waits, queued wake-ups | header, claim, put, abandon, register, wake, drain, time out |
| `ObjectCache` / `CacheQueue` | `cache.go` / what it promises: a queue of at most `Cap` places | ring, head, index, count, TTLs | Put, Delete, Tick |

Relay, control path:

| module | models | state | actions |
| --- | --- | --- | --- |
| `TrackRegistry` | `handlePublish`, `handleSubscribe`, `acquireUpstream` with the RENDEZVOUS_TIMEOUT hold, late-publisher SUBSCRIBEs, for one track | entry, upstreams, downstreams, claims, each handler's step | one per registry operation and per round trip |
| `TrackForward` | `forwardTrack` and its callers, for one holder | claim, skip epoch, offers and forwards under way | one per critical section of an offer |
| `CandidateErrors` | `preferCandidateErr`, `candidateErrRank`, `candidateRetry`, `upstreamRejection` | the error kept so far | one candidate fails |
| `ForwardState` | `reconcileForwardUpstream`, `propagateForwardUpstream`, `pauseUnwatched` | Forward of each downstream, recorded and actual Forward of each upstream, `ForwardMu` | join, leave, flip, decide, visit, answer, time out |
| `TrackStatus` | `forwardTrackStatus`, `trackStatusUpstream` | requests, the shared round, slots | arrive, join or start, answer, end |
| `Namespaces` | discovery store and watch, `NamespaceRegistry`, the stream writer, the subscriber's view | sources counted per name, queues, messages on the stream | announce, withdraw, consume, write, move the prefix |
| `Shutdown` | `Start`, `Connect`, `Stop`, stragglers, `upstreamPool` | each session's handler and owner, Stop's step, pool entries | accept, dial, serve, drain, force close, join |

Session:

| module | models | state | actions |
| --- | --- | --- | --- |
| `Handshake` | `handshake.go`, `open` | the two goroutines, arriving and held streams, AfterFunc | send, parse, hold, cancel, fire, check |
| `SessionControl` | `control.go`, `goaway.go`, `peerclose.go`, `terminate` | both ends' loops, GOAWAY, error and cause | send, receive, lose, close, register a handler |
| `RequestIDs` | `AllocRequestID`, `CheckPeerRequestID` | counter, high-water mark, gaps, requests in flight | allocate, deliver |
| `RequestStream` | `request.go` with its users in `fetch.go`, `namespace.go`, `track_status.go`, `requestmux.go` | both directions of a stream, both ends' steps | open, write, accept, answer, reject, follow up, cancel, the three steps of a final message, the two of Close |
| `RequestBroker` | `broker.go` | updates under way, unanswered queue, prefix | send, answer, give up, close |
| `TrackAliases` | `trackalias.go` and the early data streams of `handler_fanout.go` | aliases, their counts, waiting streams | register, release, await |
| `Tokens` | `token_cache.go`, `token_verify.go` | cache, the peer's view of it, messages unread | setup, request, update, reject, verify |
| `Demux` | `demux.go` | handlers, parked streams and their counts | accept, park, register, retire |
| `Publication` | `publish.go`, `datastream_out.go` | open streams, count, pause, PUBLISH_DONE | open, write, datagram, done |
| `SubgroupStream` | writer and reader of a subgroup stream | wire, deltas, timeouts, fate, whether all Objects written were well-formed | write, pause, reset, read, violate |
| `FetchCodec` | `fetch_object.go`, `ReadDecoded` | the previous element on both sides | send, read |
| `LocationFilters` | `filter.go`, `ForwardDecision`, `capFetchEndLocation`, the filter and Largest Object in `handleSubscribe` and `handleSubscribeUpdate` | the filter, the track's Largest Object, the one the live filter is anchored on and the one last reported, which a fill ends at | publish, register, anchor, the two steps of an update, refuse |
| `RangeFilters` | `rangefilter.go` | the filters and what they were meant to be | install, update |

`CacheQueue` is the abstract specification which `ObjectCache` implements.
Compositions: `TrackRegistry` (registry, namespace registry and four handlers),
`TrackForward` (registry, claims, three callers), `Namespaces` (store, watch,
registry, writer, peer), `Shutdown` (relay and pool), `DatagramFanout` (ledger,
cache, writer, subscription), `FetchServe` (ranges, cache, upstream, decoder),
`RequestStream` and `SessionControl` (both ends of a session).

Definitions under a comment that starts with "Fault:" are altered forms of the
definition that follows; no specification uses them. Replacing a definition by
its fault must break the property `PROJECT.json` pairs it with ("mutants"),
which shows that the property depends on that line of code.

## 3. Runs

A run answers the questions about one group of parts. Its MC module extends one
module, or the proofs about it, and instantiates the others; the variable `part` says which of them
moves, and the others stay in an initial state of theirs, so that a run has the
sum, not the product, of its parts' states. Parts in one run share no state; the
parts that do share some are composed in one module (section 2). Bounds are the
constants of each `.cfg` and of the `INSTANCE`s in the MC module.

| run | part and instance | property | what it says |
| --- | --- | --- | --- |
| `session` | `RequestIDs`: IDs to 11, two gaps remembered | `ClaimedOnce` | each ID is accepted once |
| | | `ReorderTolerated` | a peer that takes its IDs in turn is not refused for their order, until the cap drops a gap |
| | `RequestStream`: two requests, valid, reserved or bad, with careful and careless responders | `RequestsHonoured` | endpoints that keep the rules never close each other's session (`PeersKeepSession`), one request never ends the accept loop (`LoopOutlivesRequests`), rejections and follow-ups arrive (`RejectionArrives`, `FollowupsInOrder`), and a Close that begins once the final message is recorded as sent does not reset it (`FinalMessageKept`) |
| | | `CreditReturned` | both directions of a finished stream end |
| | `SessionControl`: both ends may close, one drains, two handlers | `TrueCause` | Err reports the peer's code (`PeerCodeReported`) and none the peer did not use (`RemoteIsPeers`) |
| | | `EndSpreads` | an end reaches the other side and all loops |
| | `Handshake`: three streams, one early data stream held | `SetupKeepsStreams` | no adopted stream is touched by the cancellation (`AdoptedUntouched`); early data is kept in order (`EarlyDataKept`), refused only past the limit (`RefusedBeyondLimit`) |
| | `Demux`: four streams, limits of two and three | `StreamsPlaced` | a stream is in one place (`OnePlace`), counts are exact (`ParkedCounted`), only early ones are parked (`ParkedIsEarly`) |
| | `TrackAliases`: three subscriptions, two aliases, two early streams of which one may wait | `AliasWhileLive` | a live alias resolves (`LiveAliasResolves`), a released one is gone (`ReleasedAliasGone`), a waiting stream misses no registration (`NoMissedRegistration`) |
| | `FetchRouter`: one requester, two responses | `RendezvousKept` | no entry is left (`NoEntryLeak`), the grace timer takes no requester's stream (`WaiterKeepsStream`) |
| `requests` | `TrackRegistry`: casts of up to four among three publishers, a PUBLISH, two SUBSCRIBEs and a held one | `UpstreamsInStep` | no subscriber without its end (`NoStrandedSubscriber`), no upstream without a subscriber (`NoOrphanUpstream`), the discovery record follows the entry (`DiscoveryInStep`) |
| | | `PublishersAsked` | no arrival is missed by a hold (`NoMissedArrival`), every publisher is asked where nothing is held (`PublishersAskedUnheld`) |
| | `TrackForward`: casts among two foreign feeds, one of the holder's own and two SUBSCRIBEs | `OfferedExactlyOnce` | one PUBLISH per entry (`OnePublishPerEntry`), none beside a SUBSCRIBE (`NoForwardBesideSubscribe`), no offer lost (`NoOfferLost`) |
| | `CandidateErrors`: three errors of every code | `CandidatesAgree` | the answer does not depend on their order (`AnswerOrderFree`), a hold goes on exactly if all await a publisher (`HoldIfAllAwait`) |
| | `Tokens`: two aliases, two values, cache sizes 0 and 3, four operations | `CachesAgree` | the size is what is stored (`CacheAccounting`), both ends agree on SETUP aliases (`SetupAliasesAgree`) and on the cache (`CacheInStep`) |
| | `RequestBroker`: three updates, two prefixes | `UpdatesInStep` | answers meet their updates (`AnswersPair`), none waits on a reader that has returned (`NoUpdateStranded`), prefix and namespaces are the peer's (`BrokerInStep`) |
| `fetch` | `FetchServe`: parts of three Groups of two Objects, both Group Orders, every cache content, one special or arriving Object, two range markers | `ResponseRight` | the response decodes to the truth (`Truthful`), carries what is held (`HeldIsServed`), in order (`OrderUnlessCapped`) |
| | `FetchCodec`, `SubgroupStream`: IDs to 2, every encoding, sums wrap | `ReadAsWritten` | decoded as sent (`DecodedAsSent`, `DecodedPrefix`); no honest sender of a FETCH stream costs the session (`HonestKeepsSession`), and no sender of well-formed Objects on a Subgroup stream that leaves the framing to the library (`FramedKeepsSession`) |
| | `LocationFilters`: IDs to 2, filters of every type, Objects published before and between a SUBSCRIBE and its updates | `PastMeetsLive` | a fill stays within what the live filter selects, and is all of that up to the Largest Object reported unless an update moved that (`FillIsTheFiltersPast`); with Next Object and a fill of everything each Location comes by the fill or live, by both only if it lies between the anchor and a later Largest Object that was reported (`ServedOnce`) |
| | `RangeFilters`: values to 2, two ranges, lists of two parameters | `FiltersAsMeant` | each type has its last update's word (`LastWordOfEachType`), bytes are never reread as other ranges (`NeverReinterpreted`), sets are alternatives (`SetsAreAlternatives`) |
| `writer` | `SubgroupWriter`: two sources, an inbox of one place, two Objects that may expire, one with Properties, one REQUEST_UPDATE, one drop | `StreamsTellTruth` | headers, run-on Objects and FINs are true (`HeaderHolds`, `NextOnly`, `FinComplete`) |
| | | `JoinReturns` | the contributors' join returns |
| `subscription` | `DownstreamSub`: two streams, one datagram, two updates | `DoneKept` | PUBLISH_DONE comes last with the exact count (`DoneIsLast`); the reset of a slow reader spares it (`ResetSparesDone`) |
| | | `OneAnswer` | one answer first, one end last |
| | | `PendingAnswered` | a subscription that ends is answered |
| | `DatagramFanout`: two publishers, two Objects, two subscriptions, a queue of one | `DatagramsAccounted` | each Object is offered once (`OfferedOnce`), reserves are exact (`ReservesExact`), none follows PUBLISH_DONE (`NoDatagramPastDone`), nothing is left in the queue (`NothingStranded`) |
| | `Publication`: two opens, two enders | `DoneIsTrue` | the Stream Count is exact (`StreamCountExact`), all is closed before PUBLISH_DONE (`AllClosedByDone`), which no datagram follows (`NoDatagramAfterDone`) |
| | `TrackStatus`: three requests, one of them routed back, two publishers | `ForwardSettles` | every forwarded request is answered |
| `cache` | `ObjectCache`: two slots, three keys, three durations | `CacheCoherent` | ring, index and count agree (`Coherent`), scan and lookup agree (`ReadsAgree`) |
| | | `IsQueue` | the ring is a queue of places |
| | `InFlight`: one FETCH, three copies of one Object and two of another that may not be cached | `WaitEnds` | the wait ends without its timer |
| | `ForwardState`: two downstreams, one PUBLISH, one timer, two flips | `ForwardFollowsWatchers` | the recorded state is the publisher's unless an update timed out (`RecordedIsActual`), watched tracks are resumed and others paused (`ResumedWhenWatched`, `PausedWhenUnwatched`) |
| `namespaces` | `Namespaces`: casts of three among two publishers, two peers, this relay and two prefix subscribers | `NamespacesInStep` | prefixes stay disjoint (`PrefixesDisjoint`), counts match sources (`CountsMatchSources`), a stream tells its sources (`StreamTellsSources`), a watch has no gap (`WatchHasNoGap`), what is published is advertised (`AdvertisedWhilePublished`) |
| | | `RemoteConverges` | this relay's view of the store converges however often the watch restarts |
| | `Shutdown`: casts among two connections, a local one, two dials and two requests for them | `SessionsOwned` | each session is drained by Stop or by its straggler, never both (`OneOwner`); a live upstream session is the pool's entry (`LiveSessionPooled`) |
| | | `StopCompletes` | Stop returns (`StopReturns`), all sessions end (`SessionsEnd`) |
| `fanout` | `SubgroupFanout`: two upstreams, two streams each way, three Objects with a hole, one subscriber that joins and is filled, aborts, the Group aging out | `HandedOnce` | a FIN carries every live Object (`FinCarriesLive`); an Object is missed, received twice or repeated only in the cases listed below (`NeitherOnlyIfCut`, `BothOnlyIfLate`, `RepeatOnlyIfAged`) |
| `ledger` | `TrackLedger`: two readers, four Groups against a window of two, a cache of one Object, ends of every kind and gaps of both | `ForwardedOnce` | no Location is forwarded twice |
| | | `EndsRespected` | nothing forwarded lies past an end held |
| | | `AbsentStays` | what was known not to exist is not forwarded later, unless the gap that said so lapsed |

`TypeOK` of each module is checked with its safety property. It holds too, and
is not listed, in `TrackLedger` (the proofs below establish its content), in
`RequestIDs` (where it is proved) and in `InFlight` and `TrackStatus`, whose
properties here are liveness.

Why the bounds are enough. Two actors of each kind suffice for every race
between a pair of critical sections, which is how deep the locking goes: no
operation holds a lock across two others. A window, an inbox, a queue or a cache
of one or two places overflows within the first three Objects, so that the cases
after an overflow are reached. Three Groups are needed for a Descending marker
to span one in the middle. `MaxID`, `MaxGroup` and `MaxUint64` are the largest
IDs, so the wrap-around at 2^64-1 is met at a small number. Where all actors
together are too many, a set of casts (`MCCasts`, `ForwardCasts`,
`ShutdownCasts`) lists which of them take part at a time. `MixedObjects` is
chosen so that each kind of end, a gap of either kind, a Group that ages out and
one that arrives late all occur; in `requests` parts share model values only to
be symmetric in the same ones. `FirstAliasFirst` (`MCSession`) lets the first
data stream that has an alias take the first one: `Demux` treats its aliases
alike, so this leaves out only renamings. `LocationRaws` (`MCFetch`) has every
filter type with every value of its fields, but for the start Object of an
absolute range, and each type with too few or too many fields. `WriteBound`
(`SubgroupStream`) ends a writer after as many Objects as there are IDs, or one
that is malformed, which the reader stops at.

Deadlock is checked in the `ledger` runs, whose readers always have a next step. In the
others the system rightly stops: a session ends, a FETCH is answered, an in-memory
stream is closed.

### Fairness

Weak fairness is assumed of goroutines of this code that are runnable, never of
the peer, the application or a timer unless said so. Liveness properties have
the form `[]<>` or `<>[]` (something bad does not last); in a run of several
parts the fairness of a part is its module's, stated for the steps of that part
where its frozen state would enable some.

* `DownstreamSub`: the goroutines that close streams, send datagrams and write
  answers. A write that the peer blocks is ended by the reset of a slow reader.
* `SubgroupWriter`: the writer's goroutine, the join's timeout and the failure of
  operations once I/O is cancelled. Nothing is assumed of a write that blocks
  while I/O is live.
* `InFlight`: each stream makes progress or fails, and a FETCH that can run
  does; the timer of the FETCH is not fair, so `WaitEnds` owes nothing to it.
* `TrackStatus`: the relay's steps, and that an upstream request is answered;
  a timeout is not needed.
* `Namespaces`: the watch consumer and the stream writers; a write returns, or
  fails once the stream is reset.
* `Shutdown`: Stop, stragglers and handlers. Peers need not react: the grace
  period and the force close end what they leave open.
* `RequestStream`: strong fairness of the accept loop for each stream, because
  streams are accepted in order, so none is passed over for ever; weak fairness of
  the reads and handlers. Cancellation is never forced.
* `SessionControl`: loops, `terminate` and the delivery of a close; not of GOAWAY.

The other modules state no fairness and are checked for safety only.

### Where code and comments differ

Three runs are expected to violate a property that a comment of the code states;
the "findings" of `PROJECT.json` quote the comments.

| run | property | where |
| --- | --- | --- |
| `ledger_cache_race` | `CondemnedNotCached` | `handler_fanout.go:606` |
| `fetch_router_leak` | `NoStreamLeak` | `fetch_router.go:103` |
| `ledger_gap_lapse` | `AbsentForever` | `track_entry.go:343` |

In the last, `addDeliveredGroupLocked` drops Group gaps below the Groups that
remain before it lowers the floor to the Group being added: with Groups 0 and 3
held, 3 announcing Group 2 absent, and Group 1 arriving in a window of two, an
Object of Group 2 is claimed Fresh. `lapsed` remembers such Groups; `AbsentStays`
says that nothing else absent is ever forwarded.

The modules also define, beside the property a run checks, the stronger one that
a comment states. TLC refutes each of these when it takes the place of the
part's property in its run; the last column says what holds instead.

| claim | where | what happens | holds |
| --- | --- | --- | --- |
| `NeverNeither` (`SubgroupFanout`) | `handler_fanout.go:502` | on a read error `EndInFlight` comes before `done`; a fill that starts in between misses that Object's other copy | `NeitherOnlyIfCut` |
| `StrictOrder` (`FetchServe`) | `handler_fetch.go:586` | Descending, an upstream that caps End Location and marks a timed-out range makes two markers at one Location | `OrderUnlessCapped` |
| `RoutableHasEntry` (`TrackRegistry`) | `handler_publish.go:58` | the end of any other session (`RemoveSession` visits every entry) deletes the entry while it has no upstream yet | `NoStrandedSubscriber` |
| `EveryPublisherAsked` (`TrackRegistry`) | `handler_namespace.go:102` | an arrival cuts the look of a held SUBSCRIBE short, and a publisher it had not reached is not asked | `PublishersAskedUnheld` |
| `AtMostOnePublish` (`TrackForward`) | `handler_forward.go:25` | an offer made on an entry since deleted and remade runs beside a forward of the new one | `OnePublishPerEntry` |
| `EveryHolderOffered` (`TrackForward`) | `handler_publish.go:23` | an offer declined for a downstream that is just ending is not repeated | `NoOfferLost` |
| `EveryWatcherResumes` (`ForwardState`) | `handler_publish.go:112` | a downstream whose own look opened an upstream does not reconcile when it registers; a paused publisher that arrived and checked in between stays paused | `ResumedWhenWatched` |
| `CacheNeverDiverges` (`Tokens`) | `broker.go:556` | updates behind a rejected request are drained unread, tokens included (`request.go`, `drainRejected`) | `CacheInStep` |
| `FinalNeverReset` (`RequestStream`) | `request.go:585` | `Close` loads `finished` before `writeThenClose` has stored it, or before the FIN, and resets the stream after it | `FinalMessageKept` |
| `NeverBoth` (`LocationFilters`) | `handler_fill.go:27` | the Largest Object a REQUEST_UPDATE_OK reports is not the one the live filter is anchored on, which stays that of the SUBSCRIBE: Objects in between are filled and pass the live filter | `ServedOnce` |
| `LaterHandlerFires` (`SessionControl`) | `goaway.go:36` | a handler registered after one has run is not run | |
| `StopJoinsHandlers` (`Shutdown`) | `relay.go:623` | a handler added after the join began may still run when Stop returns | `SessionsEnd` |

Smaller differences stay inside the models; the properties of the passing runs
name them as exceptions or the bounds stay clear of them:

* The contributor that created a writer set copies the subscribers after others
  may have read headers (`handler_fanout.go:395`): a subscriber that joins in
  between gets an Object live and in its fill. `BothOnlyIfLate`.
* `admitAgedOut` (`handler_fanout.go:212`) looks at what was forwarded and not
  at what is claimed: two copies of an Object may be forwarded when its Group
  ages out between their claims. `RepeatOnlyIfAged`.
* A stream that starts an Object after a FETCH has registered hands its copy to
  nobody (`inflight.go:105`): an Object that may not be cached is reported
  unknown although it arrived. `WaitEnds` only says that the wait ends.
* A Put takes the head slot of the ring whatever other slots Delete has freed
  (`cache.go:244`), so it may evict although the cache has room. `CacheQueue`
  promises places, not room.
* `skip` (`handler_fanout.go:952`) takes an Object below the last one admitted
  for a straggler. `FinComplete` excuses such an Object only when a later one
  was already sent; an Object skipped at the front of a Subgroup counts.
* Until it is anchored (`handler_subscribe.go:89`) a registered subscription takes
  Objects that a Next Object filter excludes, and the fill has them too.
  `ServedOnce` allows it.
* `WriteObjectAt` and its variants do not validate an Object, as `SendDatagram`
  does: one with a status that is not defined, or with Properties beside a
  status other than Normal, closes the session of its reader
  (`datastream_in.go:174`). `FramedKeepsSession` is about well-formed Objects.
* A Subgroup stream of `DownstreamSub` whose header was written just before it
  was reset counts as one that was not opened.
* An Update that gives up waiting leaves its answer to the next one
  (`broker.go:284`). `AnswersPair` promises the pairing while none has.
* An upstream Update that times out leaves the recorded Forward state behind
  the publisher's. `RecordedIsActual` excepts it.

## 4. Proofs

| module | theorem | for every |
| --- | --- | --- |
| `TrackLedgerProofs` | `ForwardedOnceHolds`, `EndsRespectedHolds` | set of Objects and of readers, window and cache size |
| `TrackLedgerAbsenceProofs` | `AbsentStaysHolds` | the same |
| `DownstreamSubProofs` | `DoneKeptHolds`, `OneAnswerHolds` | finite set of streams and of datagrams, bound on updates, set of codes |
| `OutboundProofs` | `DatagramsAccountedHolds` (`DatagramFanout`) | set of publishers and of subscriptions, finite set of Objects, queue size |
| | `DoneIsTrueHolds` (`Publication`) | finite set of opens, set of goroutines that call Done |
| `InboundProofs` | `StreamsPlacedHolds` (`Demux`) | number of streams, set of aliases and of callers, both limits |
| | `RendezvousKeptHolds` (`FetchRouter`) | set of response streams |
| `RequestIDsProofs` | `ClaimedOnceHolds`, `ReorderToleratedHolds`, `NewestClaimableHolds`, `GapsBoundedHolds` | number of gaps remembered, largest ID, order of delivery |
| | `AliasWhileLiveHolds` (`TrackAliases`) | finite set of subscriptions and of streams, set of aliases and tracks |
| `CacheProofs` | `CacheCoherentHolds`, `CacheIsQueue` (`ObjectCache`) | capacity, keys, durations |
| | `ForwardFollowsWatchersHolds` (`ForwardState`) | set of downstreams and of publishers, finite set of timers, bound on flips |
| `LocationFilters` | `PastMeetsLiveHolds` | largest ID, set of encoded filters |

A module that proves something of a second component instantiates it, with
names of its own for the constants and variables it would share with the first;
the MC module of the run extends that module, so that the run checks the very
definition the theorem names, and TLC evaluates the same assumptions. The
theorem of `LocationFilters` is about definitions that the run `fetch` checks
through an instance. `NewestClaimable` and `GapsBounded` are proved and not in a
run. The assumptions are the named `ASSUME`s of the modules: sizes are natural
numbers (a window, a cache and a ring are not empty), the sets whose members are
counted are finite, an Object's fields have their types, data streams are
numbered from 1 in the order they arrive (`DataStreamsAssumption`), the
goroutines of `ForwardState` are told apart (`ForwardAssumption`), and a gap is
not above the ID it is counted from (the session layer rejects that).
`LocationFilters` is only instantiated and has its assumptions, that the largest
ID is a natural number and that filters arrive as sequences of IDs after a type,
as hypotheses of its theorem; `FetchRouter` needs none.

**`TrackLedger`.** Three properties, three invariants, each resting on the ones
before.

* `ForwardedOnce` is not inductive: pruning forgets Groups, so an Object claimed
  before is not in the ledger. `LedgerInv` says where it went (`Remembered`): it
  is in its Group's entry, or its Group is below the floor of a window that is
  full, and `AddGroup` shows that such a Group stays there. `FreshIsNew`: a claim
  is Fresh only where neither holds.
* `EndsRespected` is not inductive because the ledger checks a new end against
  four maxima and not against the Objects. `EndsInv` adds that the maxima of a
  Group and of each Subgroup count every Object claimed (`Covers`);
  `CountedClear` then carries the check over to the Objects. `ReadersOK` types
  the Objects that a reader between two critical sections still holds, since the
  end they announce is recorded in the second.
* `AbsentStays` needs every reason for which a Location can be absent, and that
  none is lost but into another: an end is replaced by a lower one, a gap is
  absorbed, a Group ages out, or the gap lapses (`AbsentAt`, `Settled`). A status
  end does not exclude its own Location, and may replace a hard one, which did:
  `EndKnown` says that the ledger knows that Location, so a claim there is not
  Fresh.
  The same is needed of the last Object of a stream whose FIN has yet to come
  (`AbsInv`). `Carries` states the transfer, proved once for a Group that is
  extended (`CarriesExtend`) and once for one that is added (`CarriesAdd`);
  `FreshNotGone` shows that no Fresh claim is possible at such a Location.

**`FetchRouter`.** `RouterInv` says who answers for the channel in the map
(`Owned`): the requester until its cleanup, the Deliver that made it until it
sends, then its grace timer. The hand-over from Deliver to timer needs that a
Deliver which made a channel finds it empty when it sends, and that in turn that
the data loop is in one Deliver at a time. `ResetFor` gives the reason for every
reset of a stream that found a rendezvous: another stream was sent there before,
or the requester is done. That a timer runs only on a channel whose maker parked
a stream there makes the first case true of a timer that races a requester.
What is not true, that every stream is read or reset, is the finding above.

**`Demux`.** `StreamsPlaced` counts the places of a stream, sums over queues and
callers that no action is written in. `DemuxInv` says the same without sums
(`Placed`: which of parked, held by a caller, in Run's hands, handed over and
reset, each excluding the others), and adds what makes the count of the parked
streams the size of a set: no queue holds a stream twice, a stream is parked
under its own alias, and two callers hold different streams (`Queued`). The
park limit and the eviction of the oldest are where these meet (`ParkStep`).

**`TrackAliases`.** A subscription may be ended from two sides, and between the
swap of `released` and the call that unregisters its alias nothing in the table
has changed yet. `AliasInv` therefore counts as holders of an alias also the
subscriptions whose end has won the swap (`Holder`): the count of the alias is
their number, and it is bound while there is one (`Counted`). One end wins
(`EndsOnce`), the publisher uses an alias for one track (`OneTrack`), and a stream
asleep has an alias that is not bound (`Awaited`), which holds since a
registration wakes all that wait for it.

**`DatagramFanout`.** `DatagramInv` follows a datagram through its stages
(`OneAfterOther`): its Object not yet claimed or fanned out, offered, reserved,
sent. It is reserved in one of queue, worker's hand and drop (`Apart`), and a
subscription's reserve is the number of those (`ReservesRight`), so PUBLISH_DONE,
which waits for it to be zero, is the last. `Claims`: two receive loops never
work on one Object, since the ledger gave it to one.

**`Publication`.** `PublicationInv` splits at the moment in which Done takes the
set of open streams under the lock. Before it (`BeforeTake`) the set holds exactly the
streams that are open; after it (`AfterTake`) no stream is being opened, each
open one was reset or is about to be, and the count no longer moves. One
goroutine passes the latch (`OneEnder`), and Done waits for the opens that had
begun, which is why a stream whose header is written is counted, and for the
datagrams (`Settled`), none of which begins after the latch.

**`ForwardState`.** What `ForwardFollowsWatchers` says of a settled state,
`ForwardInv` says of every state as a debt: a paused upstream that a watching
downstream resumed has a goroutine that will resume it, at its decision or with
it on its list (`ResumesComing`), and a publisher that nobody watches has a pause
due, waiting, or with it on its list (`PausesComing`). A decision to pause that
is overtaken by a new watcher is made good by the reconciliation behind it on
`ForwardMu`, which is why the first also speaks of one that pauses.
`RecordsRight`: a record differs from the publisher's state only while the
update that changes it runs. A refused update ends the promise, one that timed
out ends that of the record too (`lapse`).

**`LocationFilters`.** The invariant is `TypeOK /\ ReportsInOrder`
(`AnchorsInOrder`): what is reported is no older than the anchor of the live
filter and no newer than the track. A fill resolves the filter from the
first, the live subscription from the second, so `StartMonotone` is what relates
them: a later Largest Object never moves a start back, hence a fill stays within
the live range. `FillAsForwarded` reduces both sides to comparisons with the start
and end a filter resolves to; `NextMeetsFill` shows that Next Object starts one
past the anchor, so nothing lies between it and a fill, and that what both have
came after the anchor, or is the anchor itself at the largest Object ID, where
the code does not increment. `ParsedTypes` bounds what a parsed filter holds, and
`NoWrap` the modular sums.

**`DownstreamSub`.** None of the properties is inductive. `SubInv` adds to
`TypeOK` that the counters are the cardinalities of the streams and datagrams in
each phase (`CountInv`: needed because `takeReadyDoneLocked` tests counters, and
the properties speak of streams), that a pending or dequeued PUBLISH_DONE means
the subscription has terminated and, once dequeued, that nothing is open
(`AnswerInv`), what the request stream holds in each phase of its handler
(`WireInv`), and that a writer about to cancel found no answer under way
(`CancelInv`). `ReadyDone` is the step they all meet in: the last close hands out
PUBLISH_DONE, once, with the final count.

**`ObjectCache`.** `IInv` of `CacheProofs` is `TypeOK /\ Coherent`, inductive together. `Onto` and
`Advance` do the arithmetic modulo `Cap`: places counted from the head visit each
slot once. `OneObject` shows that a scan and a lookup agree. `CacheIsQueue` is
the step simulation of `CacheQueue`.

**`RequestIDs`.** Three invariants that need each other. `IInv`: a gap was never
accepted, and nothing accepted or missing lies above the mark, so nothing passes
twice. `GInv`: until the cap drops a gap the gaps are exactly the IDs missing, and
after that the newest of them (`EvictLeaves` and `NewGapsCover` are about which
gaps an advance adds and drops). `TInv`: a peer that takes its IDs in turn has
each of them in flight or accepted, never both; with `GInv`, what arrives is
above the mark or a gap, and is accepted.

Only model-checked:

* liveness, since the proof system does not reason about fairness;
* what folds and recursive functions compute (`FetchRanges`, `FetchServe`,
  `RangeFilters`), which takes induction over data, and `Namespaces`, whose
  reading of a stream is a RECURSIVE operator;
* the safety of `Shutdown`, `SubgroupWriter`, `SubgroupFanout`, `TrackRegistry`,
  `TrackForward`, `RequestBroker`, `Tokens`, `CandidateErrors`, `RequestStream`,
  `SessionControl`, `Handshake`, `FetchCodec` and `SubgroupStream`, for which
  no inductive invariant has been worked out.

## 5. Not modelled

`PROJECT.json` lists each part with the reason. In short:

* Encoders and parsers of the remaining messages, of Properties and datagrams
  (`message`, `wire`), media formats (`msf`, `loc`) and names (`uri`, `track`):
  sequential, without state, covered by round-trip tests. The formats whose
  meaning depends on earlier messages (Subgroup and FETCH streams, range and
  location filters) are modelled.
* Transports (`quicconn`, `wtconn`, `relaynet`'s listener, the in-memory
  `memconn` with its pipes) and `cmd`: I/O of external libraries, test doubles
  and front ends. The models take from them that a stream is an ordered
  sequence which either side may reset.
* The pool of inbox channels (`subgroup_inbox.go`): `SubgroupWriter` has an
  inbox of its own.
* Hooks, metrics and logging; authorization callbacks, whose verdict is a
  nondeterministic choice where a handler waits for it.
* NEW_GROUP_REQUEST, delivery timeouts and Group Order passed upstream: values
  copied from request to request.
* Location Filters beside the fanout: `LocationFilters` has the window in which a
  subscription is registered and not anchored (`handler_subscribe.go:89`), and
  `SubgroupFanout` takes the start of a subscription as given; their product is
  beyond TLC at these bounds.
* Range Filters on a FETCH (`session_handler.go:805`): the request `FetchServe`
  answers has none.
* A track made malformed by the Properties of an Object: the readers of Subgroup
  and FETCH streams report it to the application, which ends the track.
