# Jaeger in TLA+

This directory is a verification development for the Jaeger backend in `src/`:
TLA+ modules of the parts in which goroutines, channels, locks, crashes and
timers interact, TLC configurations that check them on small instances, and
TLAPS proofs of what matters most for every instance. `PROJECT.json` maps each
definition to its lines of code and lists the components, runs, mutants,
hazards, findings and theorems.

Contents: 1 inventory, 2 modules and code, 3 runs, 4 fairness, 5 proofs,
6 what the checks found, 7 what is not modelled, 8 order of the work.

## 1. Inventory

Spans enter through an agent (UDP) or a collector (TChannel, HTTP, gRPC), are
queued and written to a storage, possibly by way of Kafka and an ingester, and
are read by the query service. The agent asks the collector for sampling
strategies, which may be computed adaptively.

| Component | State it keeps | Operations | Hard behaviour | What makes it correct |
|---|---|---|---|---|
| Bounded queue (`pkg/queue`) | a channel, an atomic length, a stopped flag, a stop channel | Produce, StartConsumers, Stop | check and send are not atomic; count after send and after receive; Stop against both | bounded; the counter never drifts; no nil for a consumer; Stop returns |
| Collector processor and handlers (`cmd/collector/app`) | the queue, its workers, counters; per request the results so far | ProcessSpans, enqueueSpan, saveSpan, SubmitBatches, SubmitZipkinBatch, PostSpans | concurrent requests, full queue, busy answers, Stop at any moment | each span has one fate; answers say what happened; an accepted span is written at most once, and at least once unless stopped |
| Sanitizers, alias cache (`cmd/collector/app/sanitizer`) | a map swapped by two tickers | refresh from the external source and from storage | stale answers of slow refreshes | newer mappings are not replaced by older ones |
| Ingester consumer (`cmd/ingester/app/consumer`) | partition map, lock, wait groups, detectors | Start loop, handleMessages, handleErrors, Close | rebalance, waits under the lock, detectors' timers | one session of a partition at a time; waits end; idle sessions end |
| Ingester pipeline (`consumer/offset`, `processor`) | worker pool, offset list, last marked offset | Process, retry, MarkOffset, tick, Close | out-of-order completion, crash, redelivery, exhausted retries, reassignment while a session drains | commits cover only handled messages; a lasting session commits everything |
| Agent UDP server (`cmd/agent/app/servers`, `processors`) | serving flag, buffer pool, channel, gauge | Serve, processBuffer, DataRecd, Stop | Stop against Serve, buffer reuse | a buffer has one owner; the queue is drained by Stop |
| Agent reporters, proxies | connections | EmitBatch, GetSamplingStrategy | failures of the remote side | none between requests |
| Discovery (`pkg/discovery`) | observers, known instances, connections | Register, Notify, Resolve, updatePeers | notification against initial read, Notify under the lock | the last update is the one in force |
| Leader election, lock (`plugin/sampling/internal`, `plugin/pkg/distributedlock`) | leader flag, lease | Acquire, Forfeit, extend | errors, expired leases | at most one leader that the lock agrees with |
| Adaptive sampling (`plugin/sampling/strategystore/adaptive`) | throughput, probabilities, QPS | leader's calculation, follower's load | several goroutines and several processes | followers converge to what the leader saved |
| Span stores (`plugin/storage`: badger, memory, Cassandra, Elasticsearch, Kafka, gRPC plugin), `storage/spanstore` | indices, write caches, rings, trace limits | WriteSpan, FindTraces, GetServices | caches against the store, partial failures of composite writes | a query finds what was written and matches |
| LRU (`pkg/cache`) | list, map, capacity, ttl | Put, Get, Delete, CompareAndSwap | capacity and expiry | never above capacity, newest value |
| Model, converters, adjusters (`model`) | none, but adjusters work in place | conversion, clock skew, id deduplication | traces adjusted again, by several at once, or while they are written; malformed traces | adjusting again changes nothing as long as no two passes overlap; adjusted spans fit into their parents |
| Query service (`cmd/query/app`) | none between requests; holds pointers into the memory store | HTTP and gRPC handlers | a trace that is evicted, extended or adjusted by another while it is adjusted | an answer is the adjustment of what was reported |
| Health check, flags, `main`s, all-in-one, crossdock, examples, generated code | a status, wiring | | shutdown order | |

Interactions: a handler calls the processor, which produces into the queue,
whose workers call the storage writer. The ingester's main loop receives
partition consumers from sarama, each with a handler that builds a pipeline;
the pipeline's manager marks offsets in sarama, which commits them to Kafka.
The agent's reader and processors share a channel and a pool of buffers. Its reporters
follow the collectors through the dispatcher's channels. Collectors share the
lease, throughput and probabilities tables; the election participant's flag
decides what each adaptive processor does. The query service adjusts the very
objects the in-memory store holds.

The hazards these interactions bring, each at its line, are in `PROJECT.json`.

## 2. Modules and code

Every action is one step that the code makes atomically: one atomic load or
store, one channel operation, one critical section, or the return of a call.
Code that touches only a goroutine's own data is folded into the step before.

**BoundedQueue** (`pkg/queue/bounded_queue.go`). `items` is the channel, head
first; `size` the atomic counter; `stopped`, `stopCh`, `itemsClosed` the flag
and the two closed channels. A producer is between the check of `stopped` and
the send (`sending`), or between the send and the add (`sent`); a consumer
between the receive and the add (`received`), or in its callback (`working`).
`panicked` is the process's death by a send on the closed channel. `Stop` is
three actions; between them everything else can run.

**SpanProcessor** EXTENDS the queue: a handler goroutine is a producer, a worker
a consumer. `RequestArrives` takes one of the requests of a constant set: a
request is its kind and the span lists it passes to ProcessSpans.
`EnqueueReturns` is the end of enqueueSpan in the loop of ProcessSpans,
including the early return with reportBusy. The three `...Responds` are the
ends of SubmitBatches, SubmitZipkinBatch and PostSpans. `metrics` has the code's
counters, per span where the code counts per service. A span of `Unnamed`, whose
process has an empty service name, is in none of them but the counter of dropped
spans, since ReportServiceNameForSpan returns early (`metrics.go:246-250`) and
the drop handler does not ask (`span_processor.go:82-84`). `events` is a history
variable: what happened to each span, counted or not. The panic of SubmitZipkinBatch is kept
to its request, as net/http does when it recovers one.

**SpanDelivery** is what the collector promises about a span, without
goroutines; `ImplementsDelivery` instantiates it with `Fate`, read off the
events and the queue.

**OffsetPipeline** (ProcessorFactory and what it builds, the message loop of
handleMessages) is one partition: the unbuffered hand-over (`HandOver`), each
attempt of the retry decorator, the insert into the list, and the manager's
tick in its three pieces: `TakeList` and `PutBack` are the two critical
sections of setToHighestContiguous with the computation between them, `Mark`
is the rest of the tick. `list` is a set: the code never reads its order and
an offset is in it once. `Assign` can come at any time: the client makes a
partition consumer whose resume offset is fixed then (`claims`), and the session
that is there goes on writing and marking until it has drained; only then does
the main loop, which waits for it (`consumer.go:80-93`), start the next
(`StartSession`). A session ends by `EndSession`, the deferred closes and
`Release`, or by `Crash`. Marks, commits and assignments are sarama's and
Kafka's, modelled from their use: the client keeps the larger mark, forgets the
marks of a partition that it is assigned anew, and commits at any time
(`CommitMarked`), not because a session ends. One host is assumed: between two
assignments no other host commits. `handled` are the messages written or given
up, `handledHere` (history) those of the present session.

**AtLeastOnce** is the promise about a partition: messages are handled in any
order, perhaps again, and the committed offset grows only over handled ones. A
session handles no message twice, and none that was committed when its
partition consumer was made (`from`). It may handle again what the session before
it committed later, while draining.

**IngesterConsumer** (`consumer.go`, `deadlock_detector.go`): sessions are
numbered in the order of assignment. The main loop, Close, each session's
message and error handler, the two kinds of monitor, and `lock`. The deferred
calls of handleMessages are actions of their own, in their order. The time a
handler spends inside Process and the processor's Close is not split up here:
OffsetPipeline has it, and `CloseCompletes` shows that it ends.

**AgentServer** (`tbuffered_server.go`, `thrift_processor.go`, `agent.go`): one
reader, the processors, the pool, Stop. A buffer that is dropped or whose read
failed is garbage, and the pool's New may hand out any buffer nobody holds.

**LeaderLease** (`plugin/pkg/distributedlock/cassandra/lock.go`,
`leaderelection/leader_election.go`). `owner` and `left` are the lease row and
what remains of its TTL; every duration counts down with a global `Tick`, so
time needs no bound. An attempt of a host is due when its `timer` is 0 and goes
through `Insert` (INSERT IF NOT EXISTS), `Extend` (UPDATE IF owner, only when the
INSERT found the host's own row) and `Answered` (Acquire returns, the flag and
the next interval are set). A statement takes effect at one instant; it may fail
before (`lost`) or after it (`unanswered`), and the attempt takes up to `MaxLag`
ticks. `Crash` leaves the row to its TTL, as the code does.

**AdaptiveProcessor** (`adaptive/processor.go`) is one collector. A set of
probabilities or QPS is the number of the calculation that made it, since only
whose set it is matters here; a bucket is the interval of throughput rows it
covers. The calculation loop is `InitializeThroughput`, `Fetch`, `Swap`,
`CalculatorReads`, `CalculatorPublishes`, the load loop `UpdateTick` to
`UpdaterPublishes`, one action for each critical section or storage call;
`saves` counts the goroutines of saveProbabilitiesAndQPS. `Elect` (the flag
changes at any time, more freely than LeaderLease would have it) and `OtherSaves`
(other collectors that believe to lead) are the surroundings.

**Discovery** (`pkg/discovery`). The dispatcher's lock is `notifying`: Notify
holds it over all its sends, each of which waits for room in the observer's
channel. The manager's two goroutines are `UpdatePeersAdds`/`UpdatePeersRemoves`
and `EnsureConnections` with one `Connects` or `ConnectFails` for each peer;
New and Stop are split where they take the lock or wait. The resolver is
registered in New and reads in Build, the manager reads first and registers
after: `missed` remembers that a change fell in between.

**SpanAdjusters** (`model/adjuster/span_id_deduper.go`, `clockskew.go`): the two
adjusters that depend on the whole trace, as operators on a sequence of spans:
what a pass makes of a trace that nobody else is at.
The recursion over the tree is a recursive function of the depth (`SkewsTo`, a
level by `SkewsBelow`), so spans on a cycle of parents are left alone as in the
code.

**MemoryStore** EXTENDS it (`plugin/storage/memory/memory.go`, `querysvc`).
`heap` has an object per trace begun, `traces` the pointers: a reader goes on
with an object that was evicted meanwhile. `held` are the objects a query has yet
to adjust and `pass` is where its adjuster is in the first of them: the stage,
the span, and the local maps the code keeps (`group`, `new`, `nodes`, `parent`,
`skews`). Nothing of this runs under the store's lock, so each test of a span
(`TestSpan`), each comparison of a span with its parent (`CompareNode`) and each
statement that writes a field (`ReparentSpan`, `RenameSpan`, `SwapParent`,
`MoveNode`) is a step of its own, and the passes of other readers, of
GetDependencies (which holds the lock, against writers) and the writes of further
spans come in between. A loop that only reads (groupSpansByID, buildNodesMap,
buildSubGraphs) is one step. A Go `range` loop ends with the last span there was
when it began (`last`). History variables are in the object: `raw` is what was
reported, `seen` that a pass has begun, `orderly` that since then no span came and
no two passes overlapped, `alone` that the latest pass has met nobody.

**BadgerStore** (`plugin/storage/badger/spanstore`). Keys are derived from the
stored spans because one transaction writes them with one expiry. Writers run
`Transaction`, then `Update` of the names cache; `GetServices` and
`GetOperations` prune it, `Restart` rebuilds it. FindTraceIDs is built as in the
reader: one scan per index (`ServiceScan`, `TagScan`), the `DurationScan`,
`MergeJoin` of the lists from their ends, one `MergeStep` for each round of the
loop, and the limit. `InOrder`, the order of Badger's keys, places each element
of a set by the number of those before it.

## 3. Runs

All are exhaustive on their instance.

| Run | Instance | Question |
|---|---|---|
| `collector` | 2 handlers (2 Jaeger batches with 3 spans of which one is filtered; a gRPC or Zipkin batch with one span), of which one span has no service name, 2 workers, capacity 1, reportBusy on and off, Stop at any moment | all of the collector's safety, its refinement of SpanDelivery, that Stop returns and accepted spans are written |
| `zipkin_answers` | the same with Zipkin requests of one or two wire spans that make two model spans | is every wire span answered? No (section 6) |
| `offset_pipeline` | 2 workers, 3 messages, 1 retry, 2 assignments, the second also while the first session drains, 1 crash | commits, the list, refinement of AtLeastOnce, progress and closing |
| `ingester_consumer` | 2 sessions, of one partition or of two, detectors on and off, Close at any moment | wait groups, sessions apart, the lock, idle sessions |
| `ingester_close` | the same, detectors off | does Close return? No (section 6) |
| `agent_server` | 2 processors, queue of 1, 4 buffers | ownership of buffers, the gauge, draining, the reader's end |
| `agent_stop` | the same | does Stop end the reader? No (section 6) |
| `leader_lease` | 3 hosts, renewal after 1 tick as leader and 4 as follower (and TTL), attempts of up to 1 tick, 2 failing statements, 1 crash | is the lease ever stolen, how far apart can two hosts' beliefs be, does one leader remain? |
| `adaptive` | 2 buckets, 2 rows of throughput, 3 calculations | do the buckets tile the past, does a follower end with what was saved? |
| `discovery` | 2 collectors, channels of 1 place, 1 wanted peer, 2 changes, 1 fault | does a quiet observer have the current instances, can Notify meet a closed channel, do both observers converge, do Notify and Stop return, are connections restored? |
| `memory_store` | 5 spans of 3 traces, 2 of which are stored, 4 writes, 2 readers and GetDependencies, 2 queries; readers symmetric | the ring against the map, adjusting in place by passes that overlap |
| `badger_store` | 5 spans, 7 searches, 2 writers (symmetric), TTL 1, clock to 2, 3 writes, 1 failed transaction, 1 restart | are live names listed, do searches find what they should and answer only with what meets them? |

Bounds. A capacity of one makes every second span meet a full queue, and two
handlers with two workers give each race of section 1 both its parties; the
proofs remove the bound for safety. Three messages with two workers are the
least for which completions overtake each other while a third is still to come;
the second assignment and the crash bring redelivery, and an assignment to a
session that still drains the window of section 6. Two sessions are what a
wait for the previous session needs. Four buffers are one more than can be
queued or being handled. With three hosts a lease can run out under its
leader and be taken by one while another waits; a TTL of 4 leaves the slack of
one tick that `LeaseOutlivesRenewal` demands. Two buckets are the least that
can overlap or be dropped, three calculations let an old one overwrite a newer
one that replaced a third. A channel of one place is full after one change, so
the second blocks Notify. Four writes to a store of two traces evict twice, or
extend a trace after it was read; two queries are two passes that overlap in
every way, or one after the other. A TTL of one within a clock of two lets a
name expire, come back and be rebuilt. Constants that begin with `Max` and are
not options (`MaxSessions`, `MaxCrashes`, `MaxFaults`, `MaxRows`, `MaxBatches`,
`MaxChanges`, `MaxWrites`, `MaxCopies`, `MaxQueries`, `MaxTime`, `MaxRestarts`) are bounds of
the model and not of the code; `MaxLag` is an assumption about it. Nothing else
counts up without end, except counters that the finite input bounds.

CHECK_DEADLOCK is FALSE where the system really may stop. In the two ingester
configurations Close and a handler waiting for each other is one such state, a
consumer after Close another. An adaptive processor, a manager or a resolver
that was closed does nothing more, and a resolver whose Build failed can block
the dispatcher for ever. The two stores stand still when the bounded writes
and queries are used up. The other modules name their final states in
`Finished`, or never stop (the lease's clock goes on), so any other standstill
is an error.

Every property of a passing run has a mutant, in the module of the definition
it changes (marked `Mutant:`): the run fails with it.

## 4. Fairness

Weak fairness of each goroutine's next step says that the Go scheduler runs
whoever can run. It is stated per goroutine, never per transition, so a `select`
with two ready cases may always choose the same one; only where progress needs
the other case (the manager's loop, whose ticks compete with `m.close`) strong
fairness of that case states that Go's select chooses at random. Tickers tick.
Calls of storage and handlers return. Not assumed: that requests, packets,
messages, rebalances, assignments or crashes come, or that Stop or Close is
ever called; once called it goes on. `EverythingCommitted` assumes that Kafka
delivers what is in the log and that its client commits; the pipeline's fairness
also says that the main loop starts the next session once the last has gone, and
that the client closes the Messages channel of a partition consumer it has
replaced, so that its session ends.

In LeaderLease time passes and a running host's loop goes on: within `MaxLag`,
which is a safety bound on `Tick` and not a fairness condition. Failing
statements are finitely many, as `OneLeaderInTheEnd` says "once the faults
stop". In AdaptiveProcessor the two loops go on, and strong fairness of
`LoadSucceeds` states that a query that is tried for ever succeeds now and then;
nothing makes a collector lead or save. In Discovery each goroutine, and a call
of New, Build, Stop or Close once begun, goes on and gets the lock in its turn
(Go's mutex is fair to waiters); that Build succeeds is not assumed. The stores'
properties are invariants and action properties and need no fairness.

## 5. Proofs

TLAPS proves for every value of the constants (the ASSUMEs of the modules, all
evaluated by the runs, are: a positive capacity (a channel without places, which
some unit tests use, is a hand-over and not covered), finite sets of goroutines and
collectors, a nil that is no item, requests of the shape the handlers build whose places hold
distinct spans, natural bounds, a follower interval longer than the leader's
plus two delays, spans that are records of the fields the stores read with
numbers for ids and times, and searches as validateQuery lets them through):

* **CollectorProofs, part 1 (the queue).** `QInv` is QTypeOK, the three safety properties and
  what makes them inductive: the phases of Stop determine `stopped`, `stopCh`
  and `itemsClosed`; a goroutine holds an item exactly between the right two of
  its steps; after the release every consumer has exited. `SizeAccounting`
  is inductive because each channel operation and each add moves one goroutine
  into or out of `Uncounted` or `Undiscounted` (finite cardinalities).
* **CollectorProofs, part 2 (the processor).** `CInv` adds TypeOK of the handlers and ties a
  handler's place in its request to its place in Produce. Each step of the
  collector is a step of the queue or leaves the queue alone
  (`CollectorUsesQueue`), from which the queue's theorems carry over.
* **CollectorProofs, part 3 (the spans).** `CollectorBalances`: per span, received equals being
  sent, plus queued, plus in hand, plus the outcomes, in the code's counters for
  a span with a service name; of one without, the counters know only the drop, and
  the same balance holds of its events. One lemma per kind of
  step says how the cardinality of each place changes (append, tail, a function
  updated at one point). `CollectorAnswersTruthfully` builds on it. `AllAnswers`
  says, per handler, that a span it has not looked at is in no counter
  (`Waits`, `Coming`), that the span inside Produce was received and not dropped
  (`Offers`), that the results so far agree with the counters (`Told`,
  `EndedBusy`) and so do the responses made of them (`Responses`). It is
  preserved because handlers have no span in common (`SpansAreDistinct`: an item
  of the model is a place of a request, not its content); with the balance, a
  received span that is past its send and was not dropped has exactly one other
  outcome. `CollectorImplementsDelivery` needs one more fact (`Once`): no span is
  received twice. Then a span is in one place or has one outcome, so `Fate` reads
  it off without a doubt (`Tells`); a full channel means at least Capacity
  pending spans because none is queued twice (`PendingAtLeast`), and a channel
  with room at most Capacity - 1 plus one per worker (`PendingAtMost`). Each step
  then is a step of SpanDelivery or none.
* **OffsetPipelineProofs.** `IInv` has six parts: TypeOK; Phases (what is empty
  or unset in which phase of handler and manager); Assignments (`from` and the
  offsets in `claims` are in order and at most `committed`); Frontier (everything
  up to `marked` and up to `lastCommitted` is handled); ListOrder (the offsets in `list` and
  `taken` are handled, at or above `lastCommitted`, which is one of them);
  Flights (workers hold distinct offsets, below `next`, above the frontier and
  in neither list). `NothingSkipped` alone is not inductive: a mark is safe only
  because the run of offsets that was computed starts at the frontier, and stays
  so while workers insert. The invariant was model-checked before it was proved.
  The refinement of AtLeastOnce follows step by step; Assignments is what lets a
  session begin below what was committed while the last one drained, and never
  below its own `from`.
* **IngesterConsumerProofs.** `IInv` is TypeOK, GroupsCount, OneSessionAtATime
  and four facts they rest on: a session that runs is registered (Registered),
  the map holds the newest session of a partition (MapIsNewest), a handler that
  looks its partition up finds its own session (FindsItsOwn), and the message
  handler's last steps come after the error handler's (ErrorsLast).
  OneSessionAtATime needs all of them: a new session starts only when the wait
  group of the last is 0, and that group counts exactly the last's handlers, so
  that it stays between 0 and 2 (ConsumerTypeCorrect says so). The monitors are in
  `IInv` by their types only; `LockIsReleased` and `IdleSessionEnds`, which are
  about them, are model-checked.
* **AgentProofs, part 1 (the server).** `AInv` is the types, what Stop closes in
  which phase (ClosedByStop), who holds a buffer (Owners), QueueSizeAccounting
  and StopEmptiesQueue. Owners is stronger than BufferHasOneOwner: the places of the
  channel hold distinct buffers too, or a receive could hand out a buffer that
  is still queued.
* **AgentProofs, part 2 (discovery).** `ObserversSettle` speaks of an observer to
  which nothing is under way; the invariant `Followed` says where the instances
  answered now are in every other state: in a change not yet passed to Notify,
  in Notify's list of observers to send to, last in the observer's channel, in
  the set being applied, or in use (ManagerHears, ResolverHears). It needs to
  know who is registered (RegisteredWhile: a change is passed to the observers
  of that moment only) and that Notify's list names registered observers
  (NotifyUnderLock), which holds because Unregister takes the same lock;
  NoSendOnClosed is the consequence of both. Registered once is part of it:
  Unregister removes the first match only. `missed` is the one exception, of
  the manager that reads before it registers. Lemmas on Append, Tail and
  RemoveFirst stand before the proof. The types are proved beside it (`DTyped`):
  a run of ensureConnections lasts while a connection is missing, so its count
  stays between 0 and minPeers. Discovery's DInit, DNext and DSpec bear their
  letter so that both specifications can be extended here.
* **LeaderLeaseProofs.** `LInv` is TypeOK, AnswerIsPending (an answer is there
  exactly within an attempt), AppliedStands (a host about to learn that its
  statement applied owns the row) and LeaseLasts: a leader in good standing owns
  the row, and what is left of its TTL exceeds what is left until it has renewed.
  The last is where `LeaderInterval + 2 * MaxLag < FollowerInterval` is used, and
  it is what LeadersExcludeEachOther needs to be inductive.
* **AdaptiveProcessorProofs.** `PInv` is TypeOK, BucketsTile and two facts about
  the numbers of calculations (LatestWasMade, SavesAreOwed) that keep them within
  their types. The tiling is preserved by `Prepend` because the start of a fetch
  is the end of the newest bucket; a failed fetch changes neither.

* **MemoryStoreProofs.** First the adjusters, for traces of any length and shape.
  The recursive function of the depth exists and satisfies its equation
  (`SkewsToEquation`); on every level a span's skew is what calculateSkew makes
  of its parent as adjusted, or the parent's on one host (`EveryLevelGood`), so an adjusted trace fits (`AdjustedFits`), a second
  adjustment moves nothing (`AdjustTwice`), new span ids can always be found
  (`UniqueSpanIDExists`) and none is needed twice (`DedupeOnce`); `Settled` sums
  this up: the adjusters map what was reported, its deduped form and its adjusted
  form into one another. Then the passes, statement by statement. `Deduping` and
  `Skewing` say of a pass that is alone what it has made so far of the trace it
  began with: the spans before the present one renamed, or those in the domain of
  `skews` moved, whatever order the nodes were come to in. Every reading or
  writing step keeps them, and at the end they are DedupeSpanIDs (`LoopsEnd`) and
  AdjustClockSkew (`SkewingEnds`) of that trace. Then the store. `SInv` is
  StoreTyped; Passing (whoever is in a pass has in hand an object that the pass's
  record fits, and in a lone pass Deduping or Skewing holds of them); OneAlone (a
  lone pass is the only one); and Orderly (an orderly object that nobody is at
  is in one of the three forms, and the pass at it is alone otherwise).
  AnswersSettle and SkewFits are read off a pass at its end. Of passes that overlap only the
  types are claimed, and they are needed: the steps of a pass index a trace that
  others write to, which is safe because a trace never gets shorter.
  `RInv` is RingMatches: the ring's place
  of each of the newest MaxTraces objects holds its trace id, the ring has no
  other, and the map leads from those ids to those objects. RingKeepsNewest
  without the places is not inductive: which id the next write evicts depends on
  where it is.
* **BadgerStoreProofs.** `NInv` is the types and, for each row that has not run
  out, that its writer has yet to cache its names or that they are cached until
  the row's expiry at least. LiveNamesListed itself is not inductive, as time
  passes: a name cached for less than its row would be dropped first. For
  SearchFinds the state matters little (`RowsTyped`: finitely many spans); the
  work is in the reader. A strict order on a finite set gives each rank to one
  element (`RankOnto`), so a scan has every key of its index and after a key come
  only those that are not before it (`ScanFinds`, `DurationScanFinds`), whose
  number is what CrowdedOut counts. The join's loop keeps `MergeInv`: of two
  ascending lists a common element has been found or lies below both positions,
  and every round takes one from them (`MergeStepKeeps`, `MergeJoinFinds`).
  ListsAre splits the searches by what they scan. The converse needs no order:
  AnswersMeet says that each id of an answer is a trace that has, for the
  service or operation, for the tag and for the duration asked for, a span that
  meets it, not always the same one, and that an answer is no longer than
  NumTraces. The join, of lists in any order and of as many as there are, puts
  out only what all of them have (`Matched`, `MergeJoinMatches`,
  `IntersectedMatches`), and the scans have only what is indexed (`ScanOnly`,
  `DurationScanOnly`).

Induction in the last two modules is over sets of natural numbers: a set with 0
and every successor is all of Nat (`Induct`, from the library's well-founded
induction for <). The library's own induction theorems take an operator as a
parameter, which these provers cannot instantiate.

Every invariant that a passing run checks is thereby proved for all values of the
constants, and every action property. Two are refinements (`ImplementsDelivery`,
`ImplementsAtLeastOnce`). Only model-checked: all liveness (`StopReturns`,
`AcceptedIsWritten`, `EverythingCommitted`, `CloseCompletes`, `LockIsReleased`,
`IdleSessionEnds`, `QueuedIsHandled`, `ReaderEnds`, `OneLeaderInTheEnd`,
`FollowersConverge`, `PeersConverge`, `AddressesConverge`, `CallsReturn` and
`ConnectionsRestored`), which rests on fairness and so on ENABLED, beyond these
provers. The type invariants that no run checks (the collector's, the pipeline's,
the ingester consumer's, discovery's) are proved. What the three failing runs show is a counterexample and needs none.

## 6. What the checks found

* `ingester_close`: Close holds the partition lock and waits for handlers that
  need it for their first step (`consumer.go:100-103`, `:113`, `:170`). The main
  loop can do the same when a partition is assigned again before the handlers of
  its last session have started (`:80-86`). `LockIsReleased` shows it is the only
  way the lock is held for ever.
* `zipkin_answers`: SubmitZipkinBatch sizes its responses by wire spans and
  indexes them by model spans (`thrift_span_handler.go:121-125`).
* `agent_stop`: Serve sets `serving` whatever Stop did before
  (`tbuffered_server.go:82`).

Seen while reading, within the models: the comment on BoundedQueue
(`bounded_queue.go:25-29`) says the earliest items are dropped, and the code
drops the new one (`:85-89`), which is what `SendDropped` models; a producer
past its check of `stopped` panics when Stop closes the channel, although the
comment at `:96` says "disable producer" (`SendOnClosed`, `panicked`); exhausted
retries are committed as handled (`retry.go:122-129`), which is why `handled`
is written or given up (`RecordHandled`); a span without a service name is counted as
dropped but never as received, so that the collector's counters do not balance by
themselves (`Unnamed`, in SpansBalance).

Of the later modules, shown by a condition in a property rather than by a run
of its own:

* The lock does not exclude two believers. A leader whose attempts fail keeps
  its flag (`leader_election.go:101`) while the lease passes on;
  LeadersExcludeEachOther says how far that goes, and that it goes no further
  only while attempts are quick enough for the chosen intervals.
* PeerListManager's New reads the instances before it registers its channel: a
  change in between is not heard of until the next (`missed`, in
  PeersConverge). The resolver registers first and has no such gap.
* A resolver whose Build fails leaves a registered channel that nobody reads;
  when it is full Notify blocks with the dispatcher's lock, and with it every
  Register and Unregister (the exception in CallsReturn).
* loadProbabilities replaces a collector's probabilities and not its QPS
  (`processor.go:267`), and a save takes both as they are by then: a saved row
  may pair sets of different calculations, and a load begun before becoming
  leader overwrites what the leader has calculated. FollowersConverge holds
  through both.
* Badger's sortMergeIds joins lists as if they were in the order of trace ids
  (`reader.go:343-369`), but an index scan is in the order of start times, and a
  third list meets the descending result of the first join: such searches can
  miss matches. SearchFinds is about the rest (`WellOrdered`).
* The limit of such a search does not always keep the newest traces. The comment
  before it says "the slice is now in descending timestamp order"
  (`reader.go:379`), which is so for a service's index; durationQueries sorts its
  ids (`:331`), so that a search by duration alone keeps those with the greatest
  trace ids, whenever they began. CrowdedOut tells the two apart.
* sortMergeIds says "to remove duplicates" (`reader.go:342`) and FindTraceIDs "a
  list of TraceIDs without duplicates" (`:436`). Only durationQueries makes ids
  unique. An index scan has a key for each start time, so a trace with several
  spans of a service is answered once for each, and each counts towards
  NumTraces: an answer of two ids may be one trace twice. CrowdedOut counts spans
  and not traces for that reason, and AnswersMeet does not say that ids differ.
* Messages can be handled again though they were committed. The main loop lets the
  handlers of the last session drain before it starts those of the next ("to avoid
  the cases where messages are processed by more than one handler",
  `consumer.go:82-86`), but the next partition consumer exists by then, its resume
  offset fixed: what the old session commits while it drains is read again. AtLeastOnce
  promises no more than that (`from`).
* An answer of the in-memory store is changed by later readers. It is still the
  adjustment of what was reported, unless a span was written after the first
  reading or two passes overlapped.
* querysvc runs the adjusters without a lock on spans it shares with other readers
  (`query_service.go:112-114`). Two passes of ClockSkew can compute one delta and
  both add it (`clockskew.go:133-179`), so that a child lies outside its parent; of
  two passes of SpanIDDeduper one can take the other's new id for the old one and
  make a span its own parent (`span_id_deduper.go:77-105`). The run reaches both,
  which is why AnswersSettle asks that the object is `orderly` and SkewFits that
  the pass was `alone`. With one reader after the other neither can happen.

## 7. What is not modelled

Torn reads: a statement of the adjusters on a span that another goroutine
writes is one step, though Go defines no such thing of a data race. Rows of
throughput that become visible later than they are stamped. Decoding, conversion and sanitizing of spans, HTTP and RPC status, the split
of counters by service and transport, logging, gauges' publication order,
backoff times, the agent's HTTP server. A second Stop or Close of the same
object, which would panic on closing a channel twice and which no caller
makes. Kafka beyond what section 2 says: offsets without gaps (a
compacted topic, or `PropagateError`, leaves gaps that stall the commits; the
hazard is listed without a property), no loss of a committed offset. Cassandra beyond atomic conditional statements and TTLs.

Components without a module, and why:

* Cassandra, Elasticsearch and Kafka stores, the gRPC plugin: they build
  queries, batches and messages for clients whose behaviour is not in this
  repository; the code keeps no protocol state. Only the write cache of service
  names has a hazard, and it is listed.
* The sanitizers, converters and the other adjusters rewrite one span at a time.
  AutoRefreshCache lets two tickers overwrite each other and says nowhere which
  should win, so there is nothing to state beyond the hazard.
* LRU, downsampling, the composite writer, static strategies, the health check:
  sequential code, or one critical section or atomic value, that unit tests reach.
* `main`s, flags, metrics, all-in-one, crossdock, examples: wiring.
* Generated Thrift and protobuf code, which is most of the repository's lines.

Parts of modelled components: the floating-point calculation of QPS and
probabilities, whose rounding is beyond these tools, is one step that yields a
new set; the bound on a follower's first interval; Lock.Forfeit, which nothing
calls; the participant's Close, which ends its loop; badger's getTraces and
scanTimeRange (decoding), its maintenance goroutine and the concatenation of names
into keys; the in-memory store's search criteria other than the service.

## 8. Order of the work

Modelled and proved in this order: the queue, the collector with SpanDelivery,
the ingester's pipeline with AtLeastOnce, the ingester's consumer, the agent's
server; then leader election and the adaptive processor above it, discovery,
the in-memory store with the adjusters, badger's store; last the proofs about the
two stores and discovery. What would come next, if
the code it concerns grows control of its own: the caches (LRU, AutoRefreshCache)
against a reference map, and AdaptiveProcessor composed with LeaderLease, so that
a calculation's claim to lead is the lease's.
