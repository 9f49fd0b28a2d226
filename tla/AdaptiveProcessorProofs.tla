---------------------- MODULE AdaptiveProcessorProofs ----------------------
(***************************************************************************)
(* Proofs about AdaptiveProcessor, for any number of buckets, rows and     *)
(* calculations: the throughput in memory covers the past once, without    *)
(* gap or overlap.                                                         *)
(***************************************************************************)
EXTENDS AdaptiveProcessor, TLAPS

\* What is saved comes from a calculation that was made.
LatestWasMade == {latest.probabilities, latest.qps} \subseteq 0 .. batches

\* Every save under way, and the calculation that will start the next, has its
\* own number.
SavesAreOwed ==
  saves + (IF calculator \in {"calculated", "swapped", "generating"} THEN 1 ELSE 0) <= batches

PInv == TypeOK /\ LatestWasMade /\ SavesAreOwed /\ BucketsTile

-----------------------------------------------------------------------------
(* The buckets                                                             *)

LEMMA BoundFacts ==
  /\ AggregationBuckets \in Nat /\ AggregationBuckets > 0
  /\ MaxRows \in Nat /\ MaxBatches \in Nat
BY BucketsAssumption, BoundAssumption

\* Prepending keeps a sequence of at most AggregationBuckets buckets: the new
\* one, then the old ones in their places.
LEMMA PrependIs ==
  ASSUME NEW s \in Seq(Bucket), NEW b \in Bucket
  PROVE  LET t == Prepend(s, b)
         IN  /\ t \in Seq(Bucket)
             /\ Len(t) >= 1 /\ Len(t) <= AggregationBuckets /\ Len(t) <= Len(s) + 1
             /\ t[1] = b
             /\ \A i \in 1 .. Len(t) - 1 : t[i + 1] = s[i]
<1> DEFINE long == <<b>> \o s
           n == IF Len(s) + 1 > AggregationBuckets THEN AggregationBuckets ELSE Len(s) + 1
<1>1. /\ long \in Seq(Bucket) /\ Len(long) = Len(s) + 1
      /\ long[1] = b /\ \A i \in 1 .. Len(s) : long[i + 1] = s[i]
  OBVIOUS
<1>2. n \in 1 .. Len(long) /\ n <= AggregationBuckets
  BY <1>1, BoundFacts
<1>3. Prepend(s, b) = SubSeq(long, 1, n)
  BY DEF Prepend
<1> HIDE DEF long, n
<1>4. /\ SubSeq(long, 1, n) \in Seq(Bucket) /\ Len(SubSeq(long, 1, n)) = n
      /\ \A i \in 1 .. n : SubSeq(long, 1, n)[i] = long[i]
  BY <1>1, <1>2
<1> QED
  BY <1>1, <1>2, <1>3, <1>4

\* What the walk back from `end` finds tiles the past of `end`.
LEMMA WalksTile ==
  ASSUME NEW end \in 0 .. MaxRows, NEW b \in Walks(end)
  PROVE  /\ b \in Seq(Bucket) /\ Len(b) <= AggregationBuckets
         /\ b # <<>> => b[1].to = end
         /\ \A i \in 1 .. Len(b) - 1 : b[i].from = b[i + 1].to
<1>1. PICK n \in 0 .. AggregationBuckets : b \in [1 .. n -> Bucket]
  BY DEF Walks
<1>2. b \in Seq(Bucket) /\ Len(b) = n /\ DOMAIN b = 1 .. n
  BY <1>1, BoundFacts
<1>3. \A i \in 1 .. n : b[i].to = IF i = 1 THEN end ELSE b[i - 1].from
  BY <1>2 DEF Walks
<1>4. b # <<>> => n >= 1
  BY <1>2
<1>5. \A i \in 1 .. n - 1 : b[i].from = b[i + 1].to
  <2> SUFFICES ASSUME NEW i \in 1 .. n - 1 PROVE b[i].from = b[i + 1].to
    OBVIOUS
  <2>1. i + 1 \in 1 .. n /\ i + 1 # 1 /\ (i + 1) - 1 = i
    OBVIOUS
  <2> QED
    BY <1>3, <2>1
<1> QED
  BY <1>2, <1>3, <1>4, <1>5

\* A tick's fetch adds the interval since the last one.
LEMMA FetchTiles ==
  ASSUME TypeOK, BucketsTile, NEW end \in lastChecked .. rows
  PROVE  LET t == Prepend(throughputs, [from |-> lastChecked, to |-> end])
         IN  /\ t \in Seq(Bucket) /\ Len(t) <= AggregationBuckets
             /\ t # <<>> => t[1].to = end
             /\ \A i \in 1 .. Len(t) - 1 : t[i].from = t[i + 1].to
<1> DEFINE b == [from |-> lastChecked, to |-> end]
           t == Prepend(throughputs, b)
<1>1. lastChecked \in 0 .. MaxRows /\ end \in 0 .. MaxRows /\ throughputs \in Seq(Bucket)
  BY BoundFacts DEF TypeOK
<1>2. b \in Bucket /\ b.from = lastChecked /\ b.to = end
  BY <1>1 DEF Bucket
<1> HIDE DEF b
<1>3. /\ t \in Seq(Bucket) /\ Len(t) <= AggregationBuckets /\ Len(t) <= Len(throughputs) + 1
      /\ t[1] = b /\ \A i \in 1 .. Len(t) - 1 : t[i + 1] = throughputs[i]
  BY <1>1, <1>2, PrependIs
<1> HIDE DEF t
<1>4. ASSUME NEW i \in 1 .. Len(t) - 1 PROVE t[i].from = t[i + 1].to
  <2>1. Len(t) \in Nat /\ Len(throughputs) \in Nat
    BY <1>1, <1>3
  <2>2. CASE i = 1
    <3>1. throughputs # <<>>
      BY <1>1, <1>3, <2>1, <2>2
    <3> QED
      BY <1>2, <1>3, <2>2, <3>1 DEF BucketsTile
  <2>3. CASE i # 1
    <3>1. i - 1 \in 1 .. Len(t) - 1 /\ (i - 1) + 1 = i /\ i - 1 \in 1 .. Len(throughputs) - 1
      BY <1>3, <2>1, <2>3
    <3>2. t[i] = throughputs[i - 1] /\ t[i + 1] = throughputs[i]
      BY <1>3, <3>1
    <3> QED
      BY <3>1, <3>2 DEF BucketsTile
  <2> QED
    BY <2>2, <2>3
<1>5. t = Prepend(throughputs, [from |-> lastChecked, to |-> end])
  BY DEF t, b
<1> HIDE DEF BucketsTile
<1> QED
  BY <1>2, <1>3, <1>4, <1>5

-----------------------------------------------------------------------------
(* The invariant                                                           *)

LEMMA PInvInit == Init => PInv
<1> SUFFICES ASSUME Init PROVE PInv
  OBVIOUS
<1>1. TypeOK
  <2>1. latest \in Row /\ batches \in Batch /\ saves \in Batch
    BY BoundFacts DEF Init, Row, Batch
  <2>2. throughputs \in Seq(Bucket)
    BY DEF Init
  <2>3. rows \in 0 .. MaxRows /\ lastChecked \in 0 .. rows
    BY BoundFacts DEF Init
  <2>4. {probabilities, qps, responses, calculated, loaded} \subseteq 0 .. batches
    BY DEF Init
  <2> QED
    BY <2>1, <2>2, <2>3, <2>4 DEF Init, TypeOK
<1>2. LatestWasMade /\ SavesAreOwed
  BY DEF Init, LatestWasMade, SavesAreOwed
<1>3. BucketsTile
  BY BoundFacts DEF Init, BucketsTile
<1> QED
  BY <1>1, <1>2, <1>3 DEF PInv

\* The surroundings, Start, Close, the shared sets and the saves leave the
\* buckets alone.
LEMMA BucketsStay ==
  ASSUME BucketsTile, UNCHANGED bucketVars
  PROVE  BucketsTile'
BY DEF bucketVars, BucketsTile

LEMMA PInvStep == PInv /\ [Next]_vars => PInv'
<1> SUFFICES ASSUME PInv, [Next]_vars PROVE PInv'
  OBVIOUS
<1> USE BoundFacts DEF PInv
<1>1. CASE Elect
  BY <1>1, BucketsStay DEF Elect, TypeOK, LatestWasMade, SavesAreOwed, bucketVars, sharedVars, calculateVars, updateVars
<1>2. CASE InsertThroughput
  BY <1>2, BucketsStay DEF InsertThroughput, TypeOK, LatestWasMade, SavesAreOwed, bucketVars, sharedVars, calculateVars, updateVars
<1>3. CASE OtherSaves
  BY <1>3, BucketsStay DEF OtherSaves, TypeOK, LatestWasMade, SavesAreOwed, bucketVars, sharedVars, calculateVars, updateVars, Row, Batch
<1>4. CASE Start
  <2>1. probabilities' \in 0 .. batches
    BY <1>4 DEF Start, TypeOK, LatestWasMade, Batch
  <2>2. BucketsTile'
    BY <1>4, BucketsStay DEF Start
  <2>3. SavesAreOwed' /\ LatestWasMade'
    BY <1>4 DEF Start, TypeOK, LatestWasMade, SavesAreOwed, Batch
  <2>4. TypeOK'
    BY <1>4, <2>1 DEF Start, TypeOK, bucketVars
  <2> QED
    BY <2>2, <2>3, <2>4
<1>5. CASE CloseUpdater
  BY <1>5, BucketsStay DEF CloseUpdater, TypeOK, LatestWasMade, SavesAreOwed, bucketVars, sharedVars, calculateVars
<1>6. CASE CloseCalculator
  BY <1>6, BucketsStay DEF CloseCalculator, TypeOK, LatestWasMade, SavesAreOwed, bucketVars, sharedVars, updateVars
<1>7. CASE InitializeThroughput
  <2>1. PICK end \in 0 .. rows : throughputs' \in Walks(end) /\ lastChecked' = end
    BY <1>7 DEF InitializeThroughput
  <2>2. BucketsTile' /\ throughputs' \in Seq(Bucket)
    BY <2>1, WalksTile DEF BucketsTile, TypeOK
  <2> QED
    BY <1>7, <2>1, <2>2 DEF InitializeThroughput, TypeOK, LatestWasMade, SavesAreOwed, sharedVars, updateVars
<1>8. CASE Fetch
  <2>1. PICK end \in lastChecked .. rows :
          /\ throughputs' = Prepend(throughputs, [from |-> lastChecked, to |-> end])
          /\ lastChecked' = end
    BY <1>8 DEF Fetch, StartTime
  <2>2. BucketsTile' /\ throughputs' \in Seq(Bucket)
    BY <2>1, FetchTiles DEF BucketsTile
  <2>3. lastChecked' \in 0 .. rows
    BY <2>1 DEF TypeOK
  <2> HIDE DEF BucketsTile
  <2>4. /\ UNCHANGED <<leader, rows, latest, sharedVars, updateVars, saves>>
        /\ \/ /\ batches < MaxBatches /\ batches' = batches + 1
              /\ calculated' = batches + 1 /\ calculator' = "calculated"
           \/ UNCHANGED <<batches, calculated, calculator>>
        /\ calculator = "ticking"
    BY <1>8 DEF Fetch, calculateVars
  <2>5. LatestWasMade' /\ SavesAreOwed'
    BY <2>4 DEF TypeOK, LatestWasMade, SavesAreOwed, Batch
  <2>6. TypeOK'
    BY <2>2, <2>3, <2>4 DEF TypeOK, sharedVars, updateVars, Batch, Row
  <2> QED
    BY <2>2, <2>5, <2>6
<1>9. CASE Swap
  BY <1>9, BucketsStay DEF Swap, TypeOK, LatestWasMade, SavesAreOwed, bucketVars, updateVars
<1>10. CASE CalculatorReads
  BY <1>10, BucketsStay DEF CalculatorReads, TypeOK, LatestWasMade, SavesAreOwed, bucketVars, sharedVars, updateVars
<1>11. CASE CalculatorPublishes
  BY <1>11, BucketsStay DEF CalculatorPublishes, TypeOK, LatestWasMade, SavesAreOwed, bucketVars, updateVars, Batch
<1>12. CASE Save
  BY <1>12, BucketsStay DEF Save, TypeOK, LatestWasMade, SavesAreOwed, bucketVars, sharedVars, calculateVars, updateVars, Batch, Row
<1>13. CASE UpdateTick
  BY <1>13, BucketsStay DEF UpdateTick, TypeOK, LatestWasMade, SavesAreOwed, bucketVars, sharedVars, calculateVars
<1>14. CASE LoadSucceeds
  BY <1>14, BucketsStay DEF LoadSucceeds, TypeOK, LatestWasMade, SavesAreOwed, bucketVars, sharedVars, calculateVars
<1>15. CASE LoadFails
  BY <1>15, BucketsStay DEF LoadFails, TypeOK, LatestWasMade, SavesAreOwed, bucketVars, sharedVars, calculateVars
<1>16. CASE Store
  BY <1>16, BucketsStay DEF Store, TypeOK, LatestWasMade, SavesAreOwed, bucketVars, calculateVars
<1>17. CASE UpdaterReads
  BY <1>17, BucketsStay DEF UpdaterReads, TypeOK, LatestWasMade, SavesAreOwed, bucketVars, sharedVars, calculateVars
<1>18. CASE UpdaterPublishes
  BY <1>18, BucketsStay DEF UpdaterPublishes, TypeOK, LatestWasMade, SavesAreOwed, bucketVars, calculateVars
<1>19. CASE UNCHANGED vars
  BY <1>19, BucketsStay DEF vars, TypeOK, LatestWasMade, SavesAreOwed, bucketVars, sharedVars, calculateVars, updateVars
<1> QED
  BY <1>1, <1>2, <1>3, <1>4, <1>5, <1>6, <1>7, <1>8, <1>9, <1>10, <1>11, <1>12, <1>13, <1>14,
     <1>15, <1>16, <1>17, <1>18, <1>19 DEF Next, Calculator, Updater

-----------------------------------------------------------------------------
(* The theorems                                                            *)

\* The processor keeps its inductive invariant.
THEOREM ProcessorInvariant == Spec => []PInv
BY PInvInit, PInvStep, PTL DEF Spec

\* The processor's state has its type; the collector never has more saves under
\* way than calculations were made.
THEOREM ProcessorTypeCorrect == Spec => []TypeOK
<1>1. PInv => TypeOK
  BY DEF PInv
<1> QED
  BY ProcessorInvariant, <1>1, PTL

\* The buckets in memory tile the past up to the last fetch: no throughput is
\* weighed twice or left out, whatever fetches failed.
THEOREM BucketsTileThePast == Spec => []BucketsTile
<1>1. PInv => BucketsTile
  BY DEF PInv
<1> QED
  BY ProcessorInvariant, <1>1, PTL
============================================================================
