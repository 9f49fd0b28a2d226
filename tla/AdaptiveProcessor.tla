------------------------- MODULE AdaptiveProcessor -------------------------
(***************************************************************************)
(* The adaptive sampling processor of one collector (plugin/sampling/      *)
(* strategystore/adaptive) over the tables of samplingstore, among other   *)
(* collectors.  It runs a calculation loop, a loop that loads what the     *)
(* leader saved, and a goroutine for every save; they share the            *)
(* probabilities, the QPS and the strategy responses under one RWMutex,    *)
(* taken for each access and never across two.                             *)
(*                                                                         *)
(* A set of probabilities, or of QPS, is the number of the calculation     *)
(* that made it, 0 for the empty one.  The throughput table is a log: row  *)
(* k is the k-th to be stamped, and a point in time is the number of rows  *)
(* stamped by then.  The flag of the election participant (LeaderLease)    *)
(* may change at any time, and the other collectors may save at any time.  *)
(***************************************************************************)
EXTENDS Integers, Sequences

CONSTANTS
    AggregationBuckets,  \* buckets of throughput kept in memory
    MaxRows,             \* bound: rows of throughput
    MaxBatches           \* bound: calculations of all the collectors

ASSUME BucketsAssumption == AggregationBuckets \in Nat \ {0}
ASSUME BoundAssumption == MaxRows \in Nat /\ MaxBatches \in Nat

VARIABLES
    leader,         \* what IsLeader returns
    rows,           \* rows in the throughput table
    latest,         \* latest row of the probabilities table
    batches,        \* calculations made so far
    throughputs,    \* buckets, the newest first
    lastChecked,    \* end of the newest interval fetched
    probabilities,
    qps,
    responses,      \* the calculation that strategyResponses were made from
    calculator,     \* where runCalculationLoop stands
    calculated,     \* its local result
    updater,        \* where runUpdateProbabilitiesLoop stands
    loaded,         \* its local result
    saves           \* goroutines in saveProbabilitiesAndQPS

bucketVars    == <<throughputs, lastChecked>>
sharedVars    == <<probabilities, qps, responses>>
calculateVars == <<calculator, calculated>>
updateVars    == <<updater, loaded>>
vars == <<leader, rows, latest, batches, bucketVars, sharedVars, calculateVars, updateVars, saves>>

Batch == 0 .. MaxBatches
Row == [probabilities : Batch, qps : Batch]
Bucket == [from : 0 .. MaxRows, to : 0 .. MaxRows]

TypeOK ==
    /\ leader \in BOOLEAN
    /\ rows \in 0 .. MaxRows
    /\ latest \in Row
    /\ batches \in Batch
    /\ throughputs \in Seq(Bucket)
    /\ lastChecked \in 0 .. rows
    /\ {probabilities, qps, responses, calculated, loaded} \subseteq 0 .. batches
    /\ calculator \in {"off", "starting", "ticking", "calculated", "swapped", "generating", "done"}
    /\ updater \in {"off", "ticking", "loading", "loaded", "stored", "generating", "done"}
    /\ saves \in Batch

Init ==
    /\ leader = FALSE
    /\ rows \in 0 .. MaxRows
    /\ batches = 0
    /\ latest = [probabilities |-> 0, qps |-> 0]
    /\ throughputs = <<>>
    /\ lastChecked = 0
    /\ probabilities = 0
    /\ qps = 0
    /\ responses = 0
    /\ calculator = "off"
    /\ calculated = 0
    /\ updater = "off"
    /\ loaded = 0
    /\ saves = 0

----------------------------------------------------------------------------
(* The surroundings                                                         *)

\* The election participant of this collector sets its flag.
Elect ==
    /\ updater \notin {"off", "done"}
    /\ leader' = ~leader
    /\ UNCHANGED <<rows, latest, batches, bucketVars, sharedVars, calculateVars, updateVars, saves>>

\* A collector inserts a row of throughput, stamped with the time of the call.
InsertThroughput ==
    /\ rows < MaxRows
    /\ rows' = rows + 1
    /\ UNCHANGED <<leader, latest, batches, bucketVars, sharedVars, calculateVars, updateVars, saves>>

\* Another collector that believes to lead calculates and saves.
OtherSaves ==
    /\ batches < MaxBatches
    /\ batches' = batches + 1
    /\ latest' = [probabilities |-> batches + 1, qps |-> batches + 1]
    /\ UNCHANGED <<leader, rows, bucketVars, sharedVars, calculateVars, updateVars, saves>>

----------------------------------------------------------------------------
(* Start and Close                                                          *)

\* Start: load (a failed load keeps the empty set), generate, and start the two
\* loops.  Nobody else sees the processor before it returns.
Start ==
    /\ updater = "off"
    /\ probabilities' \in {latest.probabilities, 0}
    /\ responses' = probabilities'
    /\ calculator' = "starting"
    /\ updater' = "ticking"
    /\ UNCHANGED <<leader, rows, latest, batches, bucketVars, qps, calculated, loaded, saves>>

\* Close: each loop leaves when it is back at its select.
CloseUpdater ==
    /\ updater = "ticking"
    /\ updater' = "done"
    /\ UNCHANGED <<leader, rows, latest, batches, bucketVars, sharedVars, calculateVars, loaded, saves>>

CloseCalculator ==
    /\ updater = "done" /\ calculator = "ticking"
    /\ calculator' = "done"
    /\ UNCHANGED <<leader, rows, latest, batches, bucketVars, sharedVars, calculated, updateVars, saves>>

----------------------------------------------------------------------------
(* runCalculationLoop                                                       *)

\* The buckets initializeThroughput finds walking back from `end`: it stops at
\* AggregationBuckets, at an interval without rows, and at an error.
Walks(end) ==
    {b \in UNION {[1 .. n -> Bucket] : n \in 0 .. AggregationBuckets} :
        \A i \in DOMAIN b :
            /\ b[i].from < b[i].to
            /\ b[i].to = IF i = 1 THEN end ELSE b[i - 1].from}

\* initializeThroughput, from the time (now - Delay) at which the loop begins.
InitializeThroughput ==
    /\ calculator = "starting"
    /\ \E end \in 0 .. rows :
        /\ throughputs' \in Walks(end)
        /\ lastChecked' = end
    /\ calculator' = "ticking"
    /\ UNCHANGED <<leader, rows, latest, batches, sharedVars, calculated, updateVars, saves>>

\* prependThroughputBucket: the newest first, the oldest dropped.
Prepend(buckets, b) ==
    LET n == Len(buckets) + 1
    IN  SubSeq(<<b>> \o buckets, 1, IF n > AggregationBuckets THEN AggregationBuckets ELSE n)

\* Mutant: an interval reaches back over the row before it.
StartTimeBefore == IF lastChecked > 0 THEN lastChecked - 1 ELSE 0

\* startTime of a tick is lastCheckedTime.
StartTime == lastChecked

\* A tick: fetch the throughput since the last successful fetch (a failed one
\* changes nothing, and the next starts where it did), then ask for the flag.  A
\* leader calculates from what it has, outside the lock.
Fetch ==
    /\ calculator = "ticking"
    /\ \E end \in lastChecked .. rows :
        /\ throughputs' = Prepend(throughputs, [from |-> StartTime, to |-> end])
        /\ lastChecked' = end
    /\ IF leader /\ batches < MaxBatches
       THEN /\ batches' = batches + 1
            /\ calculated' = batches + 1
            /\ calculator' = "calculated"
       ELSE UNCHANGED <<batches, calculateVars>>
    /\ UNCHANGED <<leader, rows, latest, sharedVars, updateVars, saves>>

\* The new sets are stored under the lock.
Swap ==
    /\ calculator = "calculated"
    /\ probabilities' = calculated
    /\ qps' = calculated
    /\ calculator' = "swapped"
    /\ UNCHANGED <<leader, rows, latest, batches, bucketVars, responses, calculated, updateVars, saves>>

\* generateStrategyResponses reads the probabilities under the read lock ...
CalculatorReads ==
    /\ calculator = "swapped"
    /\ calculated' = probabilities
    /\ calculator' = "generating"
    /\ UNCHANGED <<leader, rows, latest, batches, bucketVars, sharedVars, updateVars, saves>>

\* ... and stores the responses under the lock; then a save is started.
CalculatorPublishes ==
    /\ calculator = "generating"
    /\ responses' = calculated
    /\ saves' = saves + 1
    /\ calculator' = "ticking"
    /\ UNCHANGED <<leader, rows, latest, batches, bucketVars, probabilities, qps, calculated, updateVars>>

\* saveProbabilitiesAndQPS: whatever the two sets are by then; it may fail.
Save ==
    /\ saves > 0
    /\ saves' = saves - 1
    /\ latest' \in {latest, [probabilities |-> probabilities, qps |-> qps]}
    /\ UNCHANGED <<leader, rows, batches, bucketVars, sharedVars, calculateVars, updateVars>>

----------------------------------------------------------------------------
(* runUpdateProbabilitiesLoop                                               *)

\* A tick: only a follower goes on.
UpdateTick ==
    /\ updater = "ticking" /\ ~leader
    /\ updater' = "loading"
    /\ UNCHANGED <<leader, rows, latest, batches, bucketVars, sharedVars, calculateVars, loaded, saves>>

\* loadProbabilities, the query.
LoadSucceeds ==
    /\ updater = "loading"
    /\ loaded' = latest.probabilities
    /\ updater' = "loaded"
    /\ UNCHANGED <<leader, rows, latest, batches, bucketVars, sharedVars, calculateVars, saves>>

\* When it fails the probabilities stay, and the responses are generated from
\* them all the same.
LoadFails ==
    /\ updater = "loading"
    /\ updater' = "stored"
    /\ UNCHANGED <<leader, rows, latest, batches, bucketVars, sharedVars, calculateVars, loaded, saves>>

\* Mutant: the set that was read is not kept.
StoreNothing ==
    /\ updater = "loaded"
    /\ updater' = "stored"
    /\ UNCHANGED <<leader, rows, latest, batches, bucketVars, sharedVars, calculateVars, loaded, saves>>

\* The set that was read replaces the collector's own, which may be newer.
Store ==
    /\ updater = "loaded"
    /\ probabilities' = loaded
    /\ updater' = "stored"
    /\ UNCHANGED <<leader, rows, latest, batches, bucketVars, qps, responses, calculateVars, loaded, saves>>

\* generateStrategyResponses, its two critical sections.
UpdaterReads ==
    /\ updater = "stored"
    /\ loaded' = probabilities
    /\ updater' = "generating"
    /\ UNCHANGED <<leader, rows, latest, batches, bucketVars, sharedVars, calculateVars, saves>>

UpdaterPublishes ==
    /\ updater = "generating"
    /\ responses' = loaded
    /\ updater' = "ticking"
    /\ UNCHANGED <<leader, rows, latest, batches, bucketVars, probabilities, qps, calculateVars, loaded, saves>>

----------------------------------------------------------------------------
Calculator ==
    InitializeThroughput \/ Fetch \/ Swap \/ CalculatorReads \/ CalculatorPublishes

Updater ==
    UpdateTick \/ LoadSucceeds \/ LoadFails \/ Store \/ UpdaterReads \/ UpdaterPublishes

Next ==
    \/ Elect \/ InsertThroughput \/ OtherSaves
    \/ Start \/ CloseUpdater \/ CloseCalculator
    \/ Calculator \/ Updater \/ Save

\* The loops go on, and a load that is tried for ever succeeds now and then.
Fairness == WF_vars(Calculator) /\ WF_vars(Updater) /\ SF_vars(LoadSucceeds)

Spec == Init /\ [][Next]_vars /\ Fairness

----------------------------------------------------------------------------
(* Properties                                                               *)

\* The buckets in memory tile the past: each begins where the one before it
\* ends, and the newest ends where the next fetch will start.  No throughput is
\* weighed twice or left out, whatever fetches failed and however late they ran.
BucketsTile ==
    /\ Len(throughputs) <= AggregationBuckets
    /\ throughputs # <<>> => throughputs[1].to = lastChecked
    /\ \A i \in 1 .. Len(throughputs) - 1 : throughputs[i].from = throughputs[i + 1].to

\* A collector that stays a follower in the end serves the probabilities saved
\* last, whatever its own loops, and loads that were under way when it lost the
\* lead, have overwritten before.
FollowersConverge ==
    <>[](updater \notin {"off", "done"} /\ ~leader) => <>[](responses = latest.probabilities)

============================================================================
