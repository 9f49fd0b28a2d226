---------------------------- MODULE CollectorProofs ----------------------------
(***************************************************************************)
(* Proofs about the collector's intake, for any handlers, workers, spans,  *)
(* requests and capacity, in three parts:                                  *)
(*   1. the bounded queue on its own (BoundedQueue);                       *)
(*   2. the collector uses its queue as BoundedQueue specifies, so what    *)
(*      part 1 shows holds in the collector (SpanProcessor);               *)
(*   3. no interleaving of handlers and workers loses a span that was      *)
(*      received, or has it twice; from it, the counters balance for the   *)
(*      spans they count (SpansBalance), what a handler answers is what    *)
(*      happened (AnswersTruthful), and the collector implements           *)
(*      SpanDelivery (ImplementsDelivery).                                 *)
(***************************************************************************)
EXTENDS SpanProcessor, FiniteSetTheorems, FunctionTheorems, TLAPS

-----------------------------------------------------------------------------
(***************************************************************************)
(* PART 1.  The bounded queue: QInv, four parts kept given one another     *)
(***************************************************************************)

\* QTypeOK is inductive once a producer at its send is known to have an item.
ItemToSend == \A p \in Producers : ppc[p] = "sending" => pitem[p] \in Items
Typed == QTypeOK /\ ItemToSend

\* What NoNilDelivered rests on: the channel is closed by Stop's last step
\* only, and an exited consumer never comes back.
ClosedByStop ==
  /\ itemsClosed <=> stopper = "released"
  /\ stopper = "released" => \A c \in Consumers : cpc[c] = "exited"

QInv == Typed /\ SizeAccounting /\ WithinCapacity /\ ClosedByStop /\ NoNilDelivered

-----------------------------------------------------------------------------
(* Type correctness                                                        *)

LEMMA TypedInit == QInit => Typed
<1> SUFFICES ASSUME QInit PROVE Typed
  OBVIOUS
<1>1. items \in Seq(Items)
  BY DEF QInit
<1>2. stopped \in BOOLEAN /\ stopCh \in BOOLEAN /\ itemsClosed \in BOOLEAN
      /\ panicked \in BOOLEAN
  BY Zenon DEF QInit
<1>3. /\ size \in Int
      /\ stopper \in {"idle", "disabled", "signalled", "released"}
      /\ ppc \in [Producers -> {"idle", "sending", "sent"}]
      /\ pitem \in [Producers -> Items \union {NoItem}]
      /\ cpc \in [Consumers -> {"unstarted", "select", "received", "working", "exited"}]
      /\ citem \in [Consumers -> Items \union {NoItem}]
      /\ ItemToSend
  BY DEF QInit, ItemToSend
<1> QED
  BY <1>1, <1>2, <1>3 DEF Typed, QTypeOK

LEMMA TypedStep == Typed /\ [QNext]_qvars => Typed'
<1> SUFFICES ASSUME Typed, [QNext]_qvars PROVE Typed'
  OBVIOUS
<1> USE DEF Typed, QTypeOK, ItemToSend, channel, stopFlags, producers, consumers
<1>1. ASSUME NEW p \in Producers, ProduceDisabled(p) PROVE Typed'
  BY <1>1 DEF ProduceDisabled, qvars
<1>2. ASSUME NEW p \in Producers, NEW i \in Items, ProduceEnabled(p, i) PROVE Typed'
  BY <1>2 DEF ProduceEnabled
<1>3. ASSUME NEW p \in Producers, SendAccepted(p) PROVE Typed'
  BY <1>3 DEF SendAccepted
<1>4. ASSUME NEW p \in Producers, SendDropped(p) PROVE Typed'
  BY <1>4 DEF SendDropped
<1>5. ASSUME NEW p \in Producers, SendOnClosed(p) PROVE Typed'
  BY <1>5 DEF SendOnClosed
<1>6. ASSUME NEW p \in Producers, CountIn(p) PROVE Typed'
  BY <1>6 DEF CountIn
<1>7. ASSUME StartConsumers PROVE Typed'
  BY <1>7 DEF StartConsumers
<1>8. ASSUME NEW c \in Consumers, Receive(c) PROVE Typed'
  BY <1>8 DEF Receive
<1>9. ASSUME NEW c \in Consumers, CountOut(c) PROVE Typed'
  BY <1>9 DEF CountOut
<1>10. ASSUME NEW c \in Consumers, CallbackReturns(c) PROVE Typed'
  BY <1>10 DEF CallbackReturns
<1>11. ASSUME NEW c \in Consumers, ConsumerExits(c) PROVE Typed'
  BY <1>11 DEF ConsumerExits
<1>12. ASSUME Stop PROVE Typed'
  BY <1>12 DEF Stop, StopDisables, StopSignals, StopReleases
<1>13. CASE UNCHANGED qvars
  BY <1>13 DEF qvars
<1> QED
  BY <1>1, <1>2, <1>3, <1>4, <1>5, <1>6, <1>7, <1>8, <1>9, <1>10, <1>11, <1>12, <1>13
  DEF QNext, Produce, Consume

-----------------------------------------------------------------------------
(* The size counter                                                        *)

\* A producer that enters or leaves the gap between its send and its add
\* changes their number by one; the same for consumers.
LEMMA UncountedGrows ==
  ASSUME Typed, NEW p \in Producers, ppc[p] # "sent",
         ppc' = [ppc EXCEPT ![p] = "sent"]
  PROVE  Cardinality(Uncounted') = Cardinality(Uncounted) + 1
<1>1. Uncounted' = Uncounted \union {p} /\ p \notin Uncounted
  BY DEF Uncounted, Typed, QTypeOK
<1>2. IsFiniteSet(Uncounted)
  BY FiniteGoroutines, FS_Subset DEF Uncounted
<1> QED
  BY <1>1, <1>2, FS_AddElement

LEMMA UncountedShrinks ==
  ASSUME Typed, NEW p \in Producers, ppc[p] = "sent",
         NEW s, s # "sent", ppc' = [ppc EXCEPT ![p] = s]
  PROVE  Cardinality(Uncounted') = Cardinality(Uncounted) - 1
<1>1. Uncounted' = Uncounted \ {p} /\ p \in Uncounted
  BY DEF Uncounted, Typed, QTypeOK
<1>2. IsFiniteSet(Uncounted)
  BY FiniteGoroutines, FS_Subset DEF Uncounted
<1> QED
  BY <1>1, <1>2, FS_RemoveElement

LEMMA UndiscountedGrows ==
  ASSUME Typed, NEW c \in Consumers, cpc[c] # "received",
         cpc' = [cpc EXCEPT ![c] = "received"]
  PROVE  Cardinality(Undiscounted') = Cardinality(Undiscounted) + 1
<1>1. Undiscounted' = Undiscounted \union {c} /\ c \notin Undiscounted
  BY DEF Undiscounted, Typed, QTypeOK
<1>2. IsFiniteSet(Undiscounted)
  BY FiniteGoroutines, FS_Subset DEF Undiscounted
<1> QED
  BY <1>1, <1>2, FS_AddElement

LEMMA UndiscountedShrinks ==
  ASSUME Typed, NEW c \in Consumers, cpc[c] = "received",
         NEW s, s # "received", cpc' = [cpc EXCEPT ![c] = s]
  PROVE  Cardinality(Undiscounted') = Cardinality(Undiscounted) - 1
<1>1. Undiscounted' = Undiscounted \ {c} /\ c \in Undiscounted
  BY DEF Undiscounted, Typed, QTypeOK
<1>2. IsFiniteSet(Undiscounted)
  BY FiniteGoroutines, FS_Subset DEF Undiscounted
<1> QED
  BY <1>1, <1>2, FS_RemoveElement

LEMMA GapsAreNumbers ==
  ASSUME Typed
  PROVE  Cardinality(Uncounted) \in Nat /\ Cardinality(Undiscounted) \in Nat
<1>1. IsFiniteSet(Uncounted) /\ IsFiniteSet(Undiscounted)
  BY FiniteGoroutines, FS_Subset DEF Uncounted, Undiscounted
<1> QED
  BY <1>1, FS_CardinalityType

\* A step that moves no goroutine into or out of a gap leaves both alone.
LEMMA SameGaps ==
  ASSUME Typed, Typed',
         \A p \in Producers : ppc[p] = "sent" <=> ppc'[p] = "sent",
         \A c \in Consumers : cpc[c] = "received" <=> cpc'[c] = "received"
  PROVE  Uncounted' = Uncounted /\ Undiscounted' = Undiscounted
BY DEF Uncounted, Undiscounted

LEMMA SizeInit == QInit => SizeAccounting
<1> SUFFICES ASSUME QInit PROVE SizeAccounting
  OBVIOUS
<1>1. Uncounted = {} /\ Undiscounted = {}
  BY DEF QInit, Uncounted, Undiscounted
<1>2. size = 0 /\ Len(items) = 0
  BY DEF QInit
<1> QED
  BY <1>1, <1>2, FS_EmptySet DEF SizeAccounting

\* The channel operations and the additions to the counter come in pairs, and
\* whoever is between the two is in one of the gaps.  A closed channel is only
\* received from by nobody (ClosedByStop), so a receive really takes an item.
LEMMA SizeStep ==
  Typed /\ Typed' /\ SizeAccounting /\ ClosedByStop /\ [QNext]_qvars => SizeAccounting'
<1> SUFFICES ASSUME Typed, Typed', SizeAccounting, ClosedByStop, [QNext]_qvars
             PROVE  SizeAccounting'
  OBVIOUS
<1> USE DEF SizeAccounting, channel, stopFlags, producers, consumers
<1> DEFINE Steady == /\ \A p \in Producers : ppc[p] = "sent" <=> ppc'[p] = "sent"
                     /\ \A c \in Consumers : cpc[c] = "received" <=> cpc'[c] = "received"
                     /\ UNCHANGED <<items, size>>
<1>0. ASSUME Steady PROVE SizeAccounting'
  BY <1>0, SameGaps
<1>1. ASSUME NEW p \in Producers, ProduceDisabled(p) PROVE SizeAccounting'
  BY <1>0, <1>1 DEF ProduceDisabled, qvars
<1>2. ASSUME NEW p \in Producers, NEW i \in Items, ProduceEnabled(p, i)
      PROVE  SizeAccounting'
  <2>1. Steady
    BY <1>2 DEF ProduceEnabled, Typed, QTypeOK
  <2> QED BY <1>0, <2>1
<1>3. ASSUME NEW p \in Producers, SendAccepted(p) PROVE SizeAccounting'
  <2>1. Cardinality(Uncounted') = Cardinality(Uncounted) + 1
    BY <1>3, UncountedGrows DEF SendAccepted
  <2>2. Undiscounted' = Undiscounted
    BY <1>3 DEF SendAccepted, Undiscounted
  <2>3. Len(items') = Len(items) + 1 /\ size' = size
    BY <1>3 DEF SendAccepted, Typed, QTypeOK, ItemToSend
  <2> QED
    BY <2>1, <2>2, <2>3, GapsAreNumbers DEF Typed, QTypeOK
<1>4. ASSUME NEW p \in Producers, SendDropped(p) PROVE SizeAccounting'
  <2>1. Steady
    BY <1>4 DEF SendDropped, Typed, QTypeOK
  <2> QED BY <1>0, <2>1
<1>5. ASSUME NEW p \in Producers, SendOnClosed(p) PROVE SizeAccounting'
  BY <1>0, <1>5 DEF SendOnClosed
<1>6. ASSUME NEW p \in Producers, CountIn(p) PROVE SizeAccounting'
  <2>1. Cardinality(Uncounted') = Cardinality(Uncounted) - 1
    BY <1>6, UncountedShrinks DEF CountIn
  <2>2. Undiscounted' = Undiscounted /\ items' = items /\ size' = size + 1
    BY <1>6 DEF CountIn, Undiscounted
  <2> QED
    BY <2>1, <2>2, GapsAreNumbers DEF Typed, QTypeOK
<1>7. ASSUME StartConsumers PROVE SizeAccounting'
  <2>1. Steady
    BY <1>7 DEF StartConsumers, Typed, QTypeOK
  <2> QED BY <1>0, <2>1
<1>8. ASSUME NEW c \in Consumers, Receive(c) PROVE SizeAccounting'
  <2>1. Cardinality(Undiscounted') = Cardinality(Undiscounted) + 1
    BY <1>8, UndiscountedGrows DEF Receive
  <2>2. Uncounted' = Uncounted /\ size' = size
    BY <1>8 DEF Receive, Uncounted
  <2>3. items # <<>>
    BY <1>8 DEF Receive, ClosedByStop
  <2>4. Len(items') = Len(items) - 1
    BY <1>8, <2>3 DEF Receive, Typed, QTypeOK
  <2> QED
    BY <2>1, <2>2, <2>4, GapsAreNumbers DEF Typed, QTypeOK
<1>9. ASSUME NEW c \in Consumers, CountOut(c) PROVE SizeAccounting'
  <2>1. Cardinality(Undiscounted') = Cardinality(Undiscounted) - 1
    BY <1>9, UndiscountedShrinks DEF CountOut
  <2>2. Uncounted' = Uncounted /\ items' = items /\ size' = size - 1
    BY <1>9 DEF CountOut, Uncounted
  <2> QED
    BY <2>1, <2>2, GapsAreNumbers DEF Typed, QTypeOK
<1>10. ASSUME NEW c \in Consumers, CallbackReturns(c) PROVE SizeAccounting'
  <2>1. Steady
    BY <1>10 DEF CallbackReturns, Typed, QTypeOK
  <2> QED BY <1>0, <2>1
<1>11. ASSUME NEW c \in Consumers, ConsumerExits(c) PROVE SizeAccounting'
  <2>1. Steady
    BY <1>11 DEF ConsumerExits, Typed, QTypeOK
  <2> QED BY <1>0, <2>1
<1>12. ASSUME Stop PROVE SizeAccounting'
  BY <1>0, <1>12 DEF Stop, StopDisables, StopSignals, StopReleases
<1>13. CASE UNCHANGED qvars
  BY <1>0, <1>13 DEF qvars
<1> QED
  BY <1>1, <1>2, <1>3, <1>4, <1>5, <1>6, <1>7, <1>8, <1>9, <1>10, <1>11, <1>12, <1>13
  DEF QNext, Produce, Consume

-----------------------------------------------------------------------------
(* The capacity, and Stop's order                                          *)

LEMMA CapacityInit == QInit => WithinCapacity
BY CapacityAssumption DEF QInit, WithinCapacity

LEMMA CapacityStep == Typed /\ WithinCapacity /\ [QNext]_qvars => WithinCapacity'
<1> SUFFICES ASSUME Typed, WithinCapacity, [QNext]_qvars PROVE WithinCapacity'
  OBVIOUS
<1> USE CapacityAssumption DEF WithinCapacity, Typed, QTypeOK, channel
<1>1. ASSUME NEW p \in Producers, SendAccepted(p) PROVE WithinCapacity'
  BY <1>1 DEF SendAccepted, ItemToSend
<1>2. ASSUME NEW c \in Consumers, Receive(c) PROVE WithinCapacity'
  BY <1>2 DEF Receive
<1>3. ASSUME UNCHANGED items PROVE WithinCapacity'
  BY <1>3
<1> QED
  BY <1>1, <1>2, <1>3
  DEF QNext, Produce, Consume, ProduceDisabled, ProduceEnabled, SendDropped,
      SendOnClosed, CountIn, StartConsumers, CountOut, CallbackReturns,
      ConsumerExits, Stop, StopDisables, StopSignals, StopReleases, qvars

LEMMA StopOrderInit == QInit => ClosedByStop /\ NoNilDelivered
BY DEF QInit, ClosedByStop, NoNilDelivered

LEMMA StopOrderStep ==
  Typed /\ ClosedByStop /\ NoNilDelivered /\ [QNext]_qvars
    => ClosedByStop' /\ NoNilDelivered'
<1> SUFFICES ASSUME Typed, ClosedByStop, NoNilDelivered, [QNext]_qvars
             PROVE  ClosedByStop' /\ NoNilDelivered'
  OBVIOUS
<1> USE DEF ClosedByStop, NoNilDelivered, Typed, QTypeOK, channel, stopFlags,
            producers, consumers
<1>1. ASSUME NEW p \in Producers, Produce(p) PROVE ClosedByStop' /\ NoNilDelivered'
  BY <1>1 DEF Produce, ProduceDisabled, ProduceEnabled, SendAccepted, SendDropped,
              SendOnClosed, CountIn, qvars
<1>2. ASSUME StartConsumers PROVE ClosedByStop' /\ NoNilDelivered'
  BY <1>2 DEF StartConsumers
<1>3. ASSUME NEW c \in Consumers, Receive(c) PROVE ClosedByStop' /\ NoNilDelivered'
  <2>1. items # <<>> /\ ~itemsClosed
    BY <1>3 DEF Receive
  <2>2. Head(items) \in Items
    BY <2>1
  <2>3. citem'[c] # NoItem
    BY <1>3, <2>1, <2>2, NilIsNoItem DEF Receive
  <2> QED
    BY <1>3, <2>1, <2>3 DEF Receive
<1>4. ASSUME NEW c \in Consumers, CountOut(c) PROVE ClosedByStop' /\ NoNilDelivered'
  BY <1>4 DEF CountOut
<1>5. ASSUME NEW c \in Consumers, CallbackReturns(c)
      PROVE  ClosedByStop' /\ NoNilDelivered'
  BY <1>5 DEF CallbackReturns
<1>6. ASSUME NEW c \in Consumers, ConsumerExits(c)
      PROVE  ClosedByStop' /\ NoNilDelivered'
  BY <1>6 DEF ConsumerExits
<1>7. ASSUME StopDisables \/ StopSignals PROVE ClosedByStop' /\ NoNilDelivered'
  BY <1>7 DEF StopDisables, StopSignals
<1>8. ASSUME StopReleases PROVE ClosedByStop' /\ NoNilDelivered'
  BY <1>8 DEF StopReleases
<1>9. CASE UNCHANGED qvars
  BY <1>9 DEF qvars
<1> QED
  BY <1>1, <1>2, <1>3, <1>4, <1>5, <1>6, <1>7, <1>8, <1>9 DEF QNext, Consume, Stop

-----------------------------------------------------------------------------
(* The theorems                                                            *)

\* The queue keeps its inductive invariant: its state has its type, the size
\* counter is off by exactly the goroutines in a gap, the channel keeps to its
\* capacity and is closed after the last consumer has gone.
THEOREM QueueInvariant == QSpec => []QInv
<1>1. QInit => QInv
  BY TypedInit, SizeInit, CapacityInit, StopOrderInit DEF QInv
<1>2. QInv /\ [QNext]_qvars => QInv'
  BY TypedStep, SizeStep, CapacityStep, StopOrderStep DEF QInv
<1> QED
  BY <1>1, <1>2, PTL DEF QSpec

\* The queue's state has its type.
THEOREM QTypeCorrect == QSpec => []QTypeOK
BY QueueInvariant, PTL DEF QInv, Typed

\* Size() never drifts from the channel's length (bounded_queue.go Produce and
\* StartConsumers: the add follows the send and the receive).
THEOREM SizeIsAccurate == QSpec => []SizeAccounting
BY QueueInvariant, PTL DEF QInv

\* The channel keeps to its capacity.
THEOREM QueueIsBounded == QSpec => []WithinCapacity
BY QueueInvariant, PTL DEF QInv

\* Stop closes the channel after the last consumer has returned, so none is
\* handed the nil of a closed channel.
THEOREM ConsumersNeverSeeNil == QSpec => []NoNilDelivered
BY QueueInvariant, PTL DEF QInv

-----------------------------------------------------------------------------
(***************************************************************************)
(* PART 2.  The collector uses its queue as BoundedQueue specifies         *)
(***************************************************************************)

\* A report both counts and records; reporting nothing leaves both alone.
USE DEF Report, tally

\* A handler that serves a request is inside one of its calls, and only a
\* handler inside a call is inside Produce.
Serving ==
  \A h \in Producers :
    /\ hpc[h] = "waiting" => call[h] = 1
    /\ hpc[h] # "waiting" => req[h] \in Requests[h] /\ call[h] \in 1..Len(req[h].calls)
    /\ ppc[h] # "idle" => hpc[h] = "calling"

CInv == TypeOK /\ QInv /\ Serving

\* The span a handler offers next is an item of the queue.
LEMMA NextSpanIsItem ==
  ASSUME CInv, NEW h \in Producers, AtNextSpan(h)
  PROVE  Span(h) \in Items
<1>1. req[h] \in Requests[h] /\ call[h] \in 1..Len(req[h].calls)
  BY DEF CInv, Serving, AtNextSpan
<1>2. req[h].calls \in Seq(Seq(Items))
  BY <1>1, RequestsAssumption
<1>3. Batch(h) \in Seq(Items)
  BY <1>1, <1>2 DEF Batch
<1>4. Len(retMe[h]) \in Nat /\ Len(retMe[h]) < Len(Batch(h))
  BY DEF CInv, TypeOK, AtNextSpan
<1> QED
  BY <1>3, <1>4 DEF Span

\* Every step of the collector is a step of the queue or leaves it alone.
LEMMA StepsUseQueue == CInv /\ [Next]_vars => [QNext]_qvars
<1> SUFFICES ASSUME CInv, [Next]_vars PROVE [QNext]_qvars
  OBVIOUS
<1>1. ASSUME NEW h \in Producers, Handle(h) PROVE [QNext]_qvars
  <2>1. CASE SpanOffered(h)
    <3>1. Span(h) \in Items /\ ProduceEnabled(h, Span(h))
      BY <2>1, NextSpanIsItem DEF SpanOffered
    <3> QED
      BY <3>1 DEF QNext, Produce
  <2>2. CASE SpanRefused(h) \/ SpanSent(h) \/ SpanDropped(h) \/ SpanQueued(h)
             \/ HandlerCrashes(h)
    BY <2>2 DEF SpanRefused, SpanSent, SpanDropped, SpanQueued, HandlerCrashes,
                QNext, Produce
  <2>3. CASE RequestArrives(h) \/ SpanRejected(h) \/ JaegerResponds(h)
             \/ ZipkinResponds(h) \/ GRPCResponds(h)
    BY <2>3 DEF RequestArrives, SpanRejected, JaegerResponds, ZipkinResponds, GRPCResponds
  <2> QED
    BY <1>1, <2>1, <2>2, <2>3 DEF Handle
<1>2. ASSUME NEW c \in Consumers, Work(c) PROVE [QNext]_qvars
  BY <1>2 DEF Work, WorkerReceives, WorkerCountsOut, WorkerSaves, WorkerExits,
              QNext, Consume
<1>3. ASSUME ProcessorStarts \/ ProcessorStops PROVE [QNext]_qvars
  BY <1>3 DEF ProcessorStarts, ProcessorStops, QNext
<1>4. CASE UNCHANGED vars
  BY <1>4 DEF vars
<1> QED
  BY <1>1, <1>2, <1>3, <1>4 DEF Next, Finished

-----------------------------------------------------------------------------
(* The collector's own state                                               *)

LEMMA CInvInit == Init => CInv
<1> SUFFICES ASSUME Init PROVE CInv
  OBVIOUS
<1>1. QInv
  BY TypedInit, SizeInit, CapacityInit, StopOrderInit DEF Init, QInv
<1>2. Serving
  BY DEF Init, QInit, Serving
<1>3. /\ metrics \in [Counters -> [Items -> Nat]]
      /\ events \in [Counters -> [Items -> Nat]]
  BY DEF Init
<1>4. /\ hpc \in [Producers -> {"waiting", "calling", "answered", "busy", "panicked"}]
      /\ call \in [Producers -> Nat]
  BY DEF Init
<1>5. req \in [Producers -> (UNION {Requests[h] : h \in Producers}) \union {NoRequest}]
  <2> DEFINE Known == UNION {Requests[h] : h \in Producers}
  <2>1. req = [h \in Producers |-> NoRequest]
    BY DEF Init
  <2> HIDE DEF Known
  <2>2. req \in [Producers -> Known \union {NoRequest}]
    BY <2>1
  <2> QED
    BY Zenon, <2>2 DEF Known
<1>6. retMe \in [Producers -> Seq(BOOLEAN)] /\ oks \in [Producers -> Seq(BOOLEAN)]
  BY DEF Init
<1> QED
  BY <1>1, <1>2, <1>3, <1>4, <1>5, <1>6 DEF CInv, TypeOK, QInv, Typed, Init

\* Reporting keeps the type of the counters and of their history, whatever
\* is reported.
LEMMA ReportTyped ==
  ASSUME metrics \in [Counters -> [Items -> Nat]], events \in [Counters -> [Items -> Nat]],
         NEW kinds, NEW s, Report(kinds, s)
  PROVE  /\ metrics' \in [Counters -> [Items -> Nat]]
         /\ events' \in [Counters -> [Items -> Nat]]
<1>1. ASSUME NEW f \in [Items -> Nat] PROVE [f EXCEPT ![s] = @ + 1] \in [Items -> Nat]
  <2>1. CASE s \in Items
    BY <2>1
  <2>2. CASE s \notin Items
    BY <2>2
  <2> QED
    BY <2>1, <2>2
<1>2. metrics' \in [Counters -> [Items -> Nat]]
  <2>1. ASSUME NEW k \in Counters PROVE metrics[k] \in [Items -> Nat]
    BY <2>1
  <2> QED
    BY <1>1, <2>1 DEF Count
<1>3. events' \in [Counters -> [Items -> Nat]]
  <2>1. ASSUME NEW k \in Counters PROVE events[k] \in [Items -> Nat]
    BY <2>1
  <2> QED
    BY <1>1, <2>1 DEF Record
<1> QED
  BY <1>2, <1>3

\* What a request's results do to the handler's state.
LEMMA ReturnTyped ==
  ASSUME CInv, NEW h \in Producers, NEW ok \in BOOLEAN, hpc[h] = "calling",
         EnqueueReturns(h, ok)
  PROVE  /\ hpc' \in [Producers -> {"waiting", "calling", "answered", "busy", "panicked"}]
         /\ retMe' \in [Producers -> Seq(BOOLEAN)]
         /\ UNCHANGED <<reportBusy, req, call, oks>>
         /\ \A g \in Producers : hpc'[g] # "waiting" <=> hpc[g] # "waiting"
<1>1. CASE ~ok /\ reportBusy
  BY <1>1 DEF EnqueueReturns, CInv, TypeOK
<1>2. CASE ~(~ok /\ reportBusy)
  <2>1. retMe' = [retMe EXCEPT ![h] = Append(@, ok)]
        /\ UNCHANGED <<reportBusy, hpc, req, call, oks>>
    BY Zenon, <1>2 DEF EnqueueReturns
  <2>2. Append(retMe[h], ok) \in Seq(BOOLEAN)
    BY DEF CInv, TypeOK
  <2> QED
    BY <2>1, <2>2 DEF CInv, TypeOK
<1> QED
  BY <1>1, <1>2

\* Every action leaves the handlers inside their calls.
LEMMA ServingStep == CInv /\ [Next]_vars => Serving'
<1> SUFFICES ASSUME CInv, [Next]_vars PROVE Serving'
  OBVIOUS
<1> USE DEF CInv, TypeOK, QTypeOK, Serving
<1>1. ASSUME NEW h \in Producers, RequestArrives(h) PROVE Serving'
  <2>1. \A r \in Requests[h] : r.calls \in Seq(Seq(Items)) /\ r.calls # <<>>
    BY RequestsAssumption
  <2>2. \A r \in Requests[h] : 1 \in 1..Len(r.calls)
    BY <2>1
  <2> QED
    BY <1>1, <2>2 DEF RequestArrives, qvars
<1>2. ASSUME NEW h \in Producers, JaegerResponds(h) PROVE Serving'
  BY <1>2 DEF JaegerResponds, AllEnqueued, qvars
<1>3. ASSUME NEW h \in Producers, ZipkinResponds(h) \/ GRPCResponds(h) PROVE Serving'
  BY <1>3 DEF ZipkinResponds, GRPCResponds, AllEnqueued, qvars
<1>4. ASSUME NEW h \in Producers, NEW ok \in BOOLEAN, hpc[h] = "calling",
             EnqueueReturns(h, ok), ppc' = [ppc EXCEPT ![h] = "idle"]
      PROVE  Serving'
  BY <1>4, ReturnTyped DEF EnqueueReturns
<1>5. ASSUME NEW h \in Producers, SpanRejected(h) \/ SpanRefused(h) PROVE Serving'
  BY <1>4, <1>5 DEF SpanRejected, SpanRefused, ProduceDisabled, AtNextSpan, qvars
<1>6. ASSUME NEW h \in Producers, SpanDropped(h) \/ SpanQueued(h) PROVE Serving'
  BY <1>4, <1>6 DEF SpanDropped, SendDropped, SpanQueued, CountIn
<1>7. ASSUME NEW h \in Producers, SpanOffered(h) PROVE Serving'
  BY <1>7 DEF SpanOffered, ProduceEnabled, AtNextSpan, hvars
<1>8. ASSUME NEW h \in Producers, SpanSent(h) PROVE Serving'
  BY <1>8 DEF SpanSent, SendAccepted, hvars
<1>9. ASSUME UNCHANGED <<hpc, req, call, ppc>> PROVE Serving'
  BY <1>9
<1>10. ASSUME NEW h \in Producers, HandlerCrashes(h) PROVE Serving'
  BY <1>9, <1>10 DEF HandlerCrashes, SendOnClosed, hvars, producers
<1>11. ASSUME NEW c \in Consumers, Work(c) PROVE Serving'
  BY <1>9, <1>11 DEF Work, WorkerReceives, Receive, WorkerCountsOut, CountOut,
                     WorkerSaves, CallbackReturns, WorkerExits, ConsumerExits,
                     hvars, producers
<1>12. ASSUME ProcessorStarts \/ ProcessorStops PROVE Serving'
  BY <1>9, <1>12 DEF ProcessorStarts, StartConsumers, ProcessorStops, Stop, StopDisables,
                     StopSignals, StopReleases, hvars, producers
<1>13. CASE UNCHANGED vars
  BY <1>9, <1>13 DEF vars, hvars, qvars
<1> QED
  BY <1>1, <1>2, <1>3, <1>5, <1>6, <1>7, <1>8, <1>10, <1>11, <1>12, <1>13
  DEF Next, Handle, Finished

\* Every action keeps the types of the collector's own variables.
LEMMA HandlersTyped == CInv /\ QTypeOK' /\ [Next]_vars => TypeOK'
<1> SUFFICES ASSUME CInv, QTypeOK', [Next]_vars PROVE TypeOK'
  OBVIOUS
<1> USE DEF CInv, TypeOK
<1> DEFINE TallyTyped == /\ metrics' \in [Counters -> [Items -> Nat]]
                         /\ events' \in [Counters -> [Items -> Nat]]
<1>1. ASSUME UNCHANGED hvars, TallyTyped PROVE TypeOK'
  BY <1>1 DEF hvars
<1>2. ASSUME NEW h \in Producers, NEW ok \in BOOLEAN, hpc[h] = "calling",
             EnqueueReturns(h, ok), TallyTyped
      PROVE  TypeOK'
  <2>1. /\ hpc' \in [Producers -> {"waiting", "calling", "answered", "busy", "panicked"}]
        /\ retMe' \in [Producers -> Seq(BOOLEAN)]
        /\ UNCHANGED <<reportBusy, req, call, oks>>
    BY <1>2, ReturnTyped
  <2> QED
    BY <1>2, <2>1
<1>3. ASSUME NEW h \in Producers, RequestArrives(h) PROVE TypeOK'
  BY <1>3 DEF RequestArrives
<1>4. ASSUME NEW h \in Producers, SpanRejected(h) \/ SpanRefused(h) PROVE TypeOK'
  BY <1>2, <1>4, ReportTyped DEF SpanRejected, SpanRefused, AtNextSpan
<1>5. ASSUME NEW h \in Producers, SpanDropped(h) \/ SpanQueued(h) PROVE TypeOK'
  <2>1. hpc[h] = "calling"
    BY <1>5 DEF SpanDropped, SendDropped, SpanQueued, CountIn, Serving
  <2> QED
    BY <1>2, <1>5, <2>1, ReportTyped DEF SpanDropped, SpanQueued
<1>6. ASSUME NEW h \in Producers, SpanOffered(h) \/ SpanSent(h) \/ HandlerCrashes(h)
      PROVE  TypeOK'
  BY <1>1, <1>6, ReportTyped DEF SpanOffered, SpanSent, HandlerCrashes
<1>7. ASSUME NEW h \in Producers, JaegerResponds(h) PROVE TypeOK'
  <2> DEFINE ok == \A i \in DOMAIN retMe[h] : retMe[h][i]
  <2>1. oks' = [oks EXCEPT ![h] = Append(@, ok)] /\ ok \in BOOLEAN
    BY Zenon, <1>7 DEF JaegerResponds
  <2> HIDE DEF ok
  <2>2. oks' \in [Producers -> Seq(BOOLEAN)]
    BY <2>1
  <2>3. hpc' \in [Producers -> {"waiting", "calling", "answered", "busy", "panicked"}]
        /\ call' \in [Producers -> Nat] /\ retMe' \in [Producers -> Seq(BOOLEAN)]
    <3>1. CASE call[h] = Len(req[h].calls)
      BY <1>7, <3>1 DEF JaegerResponds
    <3>2. CASE call[h] # Len(req[h].calls)
      <4>1. /\ call' = [call EXCEPT ![h] = @ + 1]
            /\ retMe' = [retMe EXCEPT ![h] = <<>>]
            /\ UNCHANGED hpc
        BY Zenon, <1>7, <3>2 DEF JaegerResponds
      <4>2. <<>> \in Seq(BOOLEAN)
        OBVIOUS
      <4>3. retMe' \in [Producers -> Seq(BOOLEAN)]
        BY <4>1, <4>2
      <4> QED
        BY <4>1, <4>3
    <3> QED
      BY <3>1, <3>2
  <2>4. UNCHANGED <<reportBusy, req, metrics, events>>
    BY <1>7 DEF JaegerResponds
  <2> QED
    BY <2>2, <2>3, <2>4
<1>8. ASSUME NEW h \in Producers, ZipkinResponds(h) \/ GRPCResponds(h) PROVE TypeOK'
  BY <1>8 DEF ZipkinResponds, GRPCResponds
<1>9. ASSUME NEW c \in Consumers, Work(c) PROVE TypeOK'
  BY <1>1, <1>9, ReportTyped DEF Work, WorkerReceives, WorkerCountsOut, WorkerSaves,
                                WorkerExits
<1>10. ASSUME ProcessorStarts \/ ProcessorStops PROVE TypeOK'
  BY <1>1, <1>10 DEF ProcessorStarts, ProcessorStops
<1>11. CASE UNCHANGED vars
  BY <1>1, <1>11 DEF vars
<1> QED
  BY <1>3, <1>4, <1>5, <1>6, <1>7, <1>8, <1>9, <1>10, <1>11 DEF Next, Handle, Finished

-----------------------------------------------------------------------------
(* The theorems                                                            *)

LEMMA CInvStep == CInv /\ [Next]_vars => CInv'
<1> SUFFICES ASSUME CInv, [Next]_vars PROVE CInv'
  OBVIOUS
<1>1. QInv'
  BY StepsUseQueue, TypedStep, SizeStep, CapacityStep, StopOrderStep DEF CInv, QInv
<1>2. TypeOK'
  BY <1>1, HandlersTyped DEF QInv, Typed
<1> QED
  BY <1>1, <1>2, ServingStep DEF CInv

\* The collector keeps its inductive invariant.
THEOREM CollectorInvariant == Spec => []CInv
BY CInvInit, CInvStep, PTL DEF Spec

\* The collector's handlers and workers use the queue as BoundedQueue says.
THEOREM CollectorUsesQueue == Spec => QSpec
<1>1. Init => QInit
  BY DEF Init
<1> QED
  BY CollectorInvariant, StepsUseQueue, <1>1, PTL DEF Spec, QSpec

\* The collector's state has its type.
THEOREM CollectorTypeCorrect == Spec => []TypeOK
BY CollectorInvariant, PTL DEF CInv

\* In the collector, the queue_length gauge never drifts from the queue.
THEOREM CollectorSizeIsAccurate == Spec => []SizeAccounting
BY CollectorUsesQueue, SizeIsAccurate, PTL

\* In the collector, the queue keeps to the configured size.
THEOREM CollectorIsBounded == Spec => []WithinCapacity
BY CollectorUsesQueue, QueueIsBounded, PTL

\* No worker of the collector is handed a nil span, not even during Stop.
THEOREM WorkersNeverSeeNil == Spec => []NoNilDelivered
BY CollectorUsesQueue, ConsumersNeverSeeNil, PTL

-----------------------------------------------------------------------------
(***************************************************************************)
(* PART 3.  Every span is in one place, and what follows from it           *)
(***************************************************************************)

\* The three places of a received span that has no outcome yet.
Sending(s) == {h \in Producers : pitem[h] = s /\ ppc[h] = "sending"}
Queued(s)  == {i \in DOMAIN items : items[i] = s}
Done(s)    == events["rejected"][s] + events["dropped"][s]
              + events["savedOk"][s] + events["savedErr"][s]

\* The balance of one span, counted by the code or not.
Balanced(s) ==
  events["received"][s] =
    Cardinality(Sending(s)) + Cardinality(Queued(s)) + Cardinality(InHand(s)) + Done(s)

\* A worker that is in its select, or has not begun or has ended, has nothing.
EmptyHands ==
  \A c \in Consumers : cpc[c] \notin {"received", "working"} => citem[c] = NoItem

BInv == CInv /\ EmptyHands /\ \A s \in Items : Balanced(s)

One(b) == IF b THEN 1 ELSE 0

-----------------------------------------------------------------------------
(* How each place changes                                                  *)

LEMMA PlacesFinite ==
  ASSUME CInv, NEW s \in Items
  PROVE  /\ IsFiniteSet(Sending(s)) /\ IsFiniteSet(Queued(s)) /\ IsFiniteSet(InHand(s))
         /\ Cardinality(Sending(s)) \in Nat /\ Cardinality(Queued(s)) \in Nat
         /\ Cardinality(InHand(s)) \in Nat
         /\ \A k \in Counters : events[k][s] \in Nat
<1>1. IsFiniteSet(Sending(s)) /\ IsFiniteSet(InHand(s))
  BY FiniteGoroutines, FS_Subset DEF Sending, InHand
<1>2. Queued(s) \subseteq 1..Len(items) /\ Len(items) \in Nat
  BY DEF CInv, TypeOK, QTypeOK, Queued
<1>3. IsFiniteSet(Queued(s))
  <2>1. IsFiniteSet(1..Len(items))
    BY <1>2, FS_Interval
  <2> QED
    BY <1>2, <2>1, FS_Subset
<1>4. \A k \in Counters : events[k][s] \in Nat
  BY DEF CInv, TypeOK
<1> QED
  BY <1>1, <1>3, <1>4, FS_CardinalityType

\* Appending an item to the channel.
LEMMA QueuedGrows ==
  ASSUME CInv, NEW s \in Items, NEW e \in Items, items' = Append(items, e)
  PROVE  Cardinality(Queued(s)') = Cardinality(Queued(s)) + One(e = s)
<1>1. IsFiniteSet(Queued(s)) /\ Cardinality(Queued(s)) \in Nat
  BY PlacesFinite
<1>2. items \in Seq(Items) /\ Len(items) \in Nat /\ Len(items) + 1 \notin Queued(s)
  BY DEF CInv, TypeOK, QTypeOK, Queued
<1>3. CASE e = s
  <2>1. Queued(s)' = Queued(s) \union {Len(items) + 1}
    BY <1>2, <1>3 DEF Queued
  <2> QED
    BY <1>1, <1>2, <1>3, <2>1, FS_AddElement DEF One
<1>4. CASE e # s
  <2>1. Queued(s)' = Queued(s)
    BY <1>2, <1>4 DEF Queued
  <2> QED
    BY <1>1, <1>4, <2>1 DEF One
<1> QED
  BY <1>3, <1>4

\* Two sets in one-to-one correspondence, the second of which is finite.
LEMMA SameSize ==
  ASSUME NEW S, NEW T, IsFiniteSet(T), NEW f \in [S -> T],
         \A a, b \in S : f[a] = f[b] => a = b, \A t \in T : \E a \in S : f[a] = t
  PROVE  Cardinality(S) = Cardinality(T)
<1>1. f \in Bijection(S, T)
  BY Fun_IsBij DEF Surjection
<1>2. ExistsBijection(T, S)
  BY <1>1, Fun_ExistsBijSymmetric DEF ExistsBijection
<1> QED
  BY <1>2, FS_Bijection

\* Taking the head of the channel shifts the rest by one.
LEMMA QueuedShrinks ==
  ASSUME CInv, NEW s \in Items, items # <<>>, items' = Tail(items)
  PROVE  Cardinality(Queued(s)') = Cardinality(Queued(s)) - One(Head(items) = s)
<1> DEFINE Rest == Queued(s) \ {1}
           shift == [i \in Queued(s)' |-> i + 1]
<1>1. IsFiniteSet(Queued(s)) /\ Cardinality(Queued(s)) \in Nat
  BY PlacesFinite
<1>2. items \in Seq(Items) /\ Len(items) \in Nat \ {0}
  BY DEF CInv, TypeOK, QTypeOK
<1>3. Queued(s)' = {i \in 1..(Len(items) - 1) : items[i + 1] = s}
  BY <1>2 DEF Queued
<1>4. Rest = {i \in 2..Len(items) : items[i] = s}
  BY <1>2 DEF Queued
<1>5. shift \in [Queued(s)' -> Rest]
  BY <1>2, <1>3, <1>4
<1>6. \A i, j \in Queued(s)' : shift[i] = shift[j] => i = j
  BY <1>2, <1>3
<1>7. \A j \in Rest : j - 1 \in Queued(s)' /\ shift[j - 1] = j
  BY <1>2, <1>3, <1>4
<1>8. IsFiniteSet(Rest) /\ Cardinality(Rest) = Cardinality(Queued(s)) - One(1 \in Queued(s))
  <2>1. CASE 1 \in Queued(s)
    BY <1>1, <2>1, FS_RemoveElement DEF One
  <2>2. CASE 1 \notin Queued(s)
    BY <1>1, <2>2, FS_RemoveElement DEF One
  <2> QED
    BY <2>1, <2>2
<1>9. 1 \in Queued(s) <=> Head(items) = s
  BY <1>2 DEF Queued
<1>10. Cardinality(Queued(s)') = Cardinality(Rest)
  <2> HIDE DEF shift, Rest
  <2> QED
    BY <1>5, <1>6, <1>7, <1>8, SameSize
<1> QED
  BY <1>8, <1>9, <1>10 DEF One

\* A handler passes its check with an item, or leaves its send.
LEMMA SendingGrows ==
  ASSUME CInv, NEW s \in Items, NEW h \in Producers, NEW e \in Items, ppc[h] # "sending",
         ppc' = [ppc EXCEPT ![h] = "sending"], pitem' = [pitem EXCEPT ![h] = e]
  PROVE  Cardinality(Sending(s)') = Cardinality(Sending(s)) + One(e = s)
<1>0. IsFiniteSet(Sending(s)) /\ Cardinality(Sending(s)) \in Nat
  BY PlacesFinite
<1>. /\ ppc \in [Producers -> {"idle", "sending", "sent"}]
     /\ pitem \in [Producers -> Items \union {NoItem}]
  BY DEF CInv, TypeOK, QTypeOK
<1>1. CASE e = s
  <2>1. Sending(s)' = Sending(s) \union {h} /\ h \notin Sending(s)
    BY <1>1 DEF Sending
  <2> QED
    BY <1>0, <1>1, <2>1, FS_AddElement DEF One
<1>2. CASE e # s
  <2>1. Sending(s)' = Sending(s)
    BY <1>2 DEF Sending
  <2> QED
    BY <1>0, <1>2, <2>1 DEF One
<1> QED
  BY <1>1, <1>2

LEMMA SendingShrinks ==
  ASSUME CInv, NEW s \in Items, NEW h \in Producers, ppc[h] = "sending",
         NEW p \in {"idle", "sent"}, ppc' = [ppc EXCEPT ![h] = p],
         \A g \in Producers : g # h => pitem'[g] = pitem[g]
  PROVE  Cardinality(Sending(s)') = Cardinality(Sending(s)) - One(pitem[h] = s)
<1> USE DEF CInv, TypeOK, QTypeOK
<1>0. IsFiniteSet(Sending(s)) /\ Cardinality(Sending(s)) \in Nat
  BY PlacesFinite
<1>1. Sending(s)' = Sending(s) \ {h}
  BY DEF Sending
<1>2. CASE pitem[h] = s
  <2>1. h \in Sending(s)
    BY <1>2 DEF Sending
  <2>2. Cardinality(Sending(s) \ {h}) = Cardinality(Sending(s)) - 1
    BY <1>0, <2>1, FS_RemoveElement
  <2> QED
    BY <1>1, <1>2, <2>2 DEF One
<1>3. CASE pitem[h] # s
  <2>1. Sending(s)' = Sending(s)
    BY <1>1, <1>3 DEF Sending
  <2> QED
    BY <1>0, <1>3, <2>1 DEF One
<1> QED
  BY <1>2, <1>3

\* A worker takes an item into its empty hands, or is done with it.
LEMMA InHandGrows ==
  ASSUME CInv, NEW s \in Items, NEW c \in Consumers, NEW e \in Items, citem[c] = NoItem,
         citem' = [citem EXCEPT ![c] = e]
  PROVE  Cardinality(InHand(s)') = Cardinality(InHand(s)) + One(e = s)
<1> USE NilIsNoItem DEF CInv, TypeOK, QTypeOK
<1>1. CASE e = s
  <2>1. InHand(s)' = InHand(s) \union {c} /\ c \notin InHand(s)
    BY <1>1 DEF InHand
  <2> QED
    BY <1>1, <2>1, PlacesFinite, FS_AddElement DEF One
<1>2. CASE e # s
  <2>1. InHand(s)' = InHand(s)
    BY <1>2 DEF InHand
  <2> QED
    BY <1>2, <2>1, PlacesFinite DEF One
<1> QED
  BY <1>1, <1>2

LEMMA InHandShrinks ==
  ASSUME CInv, NEW s \in Items, NEW c \in Consumers, citem' = [citem EXCEPT ![c] = NoItem]
  PROVE  Cardinality(InHand(s)') = Cardinality(InHand(s)) - One(citem[c] = s)
<1> USE NilIsNoItem DEF CInv, TypeOK, QTypeOK
<1>0. IsFiniteSet(InHand(s)) /\ Cardinality(InHand(s)) \in Nat
  BY PlacesFinite
<1>1. InHand(s)' = InHand(s) \ {c}
  BY DEF InHand
<1>2. CASE citem[c] = s
  <2>1. c \in InHand(s)
    BY <1>2 DEF InHand
  <2>2. Cardinality(InHand(s) \ {c}) = Cardinality(InHand(s)) - 1
    BY <1>0, <2>1, FS_RemoveElement
  <2> QED
    BY <1>1, <1>2, <2>2 DEF One
<1>3. CASE citem[c] # s
  <2>1. InHand(s)' = InHand(s)
    BY <1>1, <1>3 DEF InHand
  <2> QED
    BY <1>0, <1>3, <2>1 DEF One
<1> QED
  BY <1>2, <1>3

\* What Record does to the history of one span.
LEMMA CountsOne ==
  ASSUME CInv, NEW s \in Items, NEW e \in Items, NEW kinds, Record(kinds, e)
  PROVE  /\ \A k \in Counters \ kinds : events'[k][s] = events[k][s]
         /\ \A k \in Counters \cap kinds : events'[k][s] = events[k][s] + One(e = s)
<1> USE DEF CInv, TypeOK
<1>1. ASSUME NEW k \in Counters \ kinds PROVE events'[k][s] = events[k][s]
  BY <1>1 DEF Record
<1>2. ASSUME NEW k \in Counters \cap kinds
      PROVE  events'[k][s] = events[k][s] + One(e = s)
  <2>1. events'[k] = [events[k] EXCEPT ![e] = @ + 1] /\ events[k] \in [Items -> Nat]
    BY <1>2 DEF Record
  <2>2. CASE e = s
    BY <2>1, <2>2 DEF One
  <2>3. CASE e # s
    BY <2>1, <2>3 DEF One
  <2> QED
    BY <2>2, <2>3
<1> QED
  BY <1>1, <1>2

\* What it does to the sum of the outcomes and to the count of the received.
LEMMA CountsOutcome ==
  ASSUME CInv, NEW s \in Items, NEW e \in Items,
         NEW k \in {"rejected", "dropped", "savedOk", "savedErr"}, Record({k}, e)
  PROVE  Done(s)' = Done(s) + One(e = s) /\ events'["received"][s] = events["received"][s]
<1>0. \A j \in Counters : events[j][s] \in Nat
  BY PlacesFinite
<1>1. /\ \A j \in Counters \ {k} : events'[j][s] = events[j][s]
      /\ \A j \in Counters \cap {k} : events'[j][s] = events[j][s] + One(e = s)
  <2> DEFINE K == {k}
  <2>1. Record(K, e)
    OBVIOUS
  <2> HIDE DEF K
  <2>2. /\ \A j \in Counters \ K : events'[j][s] = events[j][s]
        /\ \A j \in Counters \cap K : events'[j][s] = events[j][s] + One(e = s)
    BY <2>1, CountsOne
  <2> QED
    BY <2>2 DEF K
<1>2. events'["received"][s] = events["received"][s]
  BY <1>1 DEF Counters
<1>3. One(e = s) \in Nat
  BY DEF One
<1>4. CASE k = "rejected"
  BY <1>0, <1>1, <1>2, <1>3, <1>4 DEF Done, Counters
<1>5. CASE k = "dropped"
  BY <1>0, <1>1, <1>2, <1>3, <1>5 DEF Done, Counters
<1>6. CASE k = "savedOk"
  BY <1>0, <1>1, <1>2, <1>3, <1>6 DEF Done, Counters
<1>7. CASE k = "savedErr"
  BY <1>0, <1>1, <1>2, <1>3, <1>7 DEF Done, Counters
<1> QED
  BY <1>4, <1>5, <1>6, <1>7

LEMMA CountsReceived ==
  ASSUME CInv, NEW s \in Items, NEW e \in Items, Record({"received"}, e)
  PROVE  Done(s)' = Done(s) /\ events'["received"][s] = events["received"][s] + One(e = s)
<1>1. /\ \A j \in Counters \ {"received"} : events'[j][s] = events[j][s]
      /\ events'["received"][s] = events["received"][s] + One(e = s)
  <2> DEFINE K == {"received"}
  <2>1. Record(K, e)
    OBVIOUS
  <2> HIDE DEF K
  <2>2. /\ \A j \in Counters \ K : events'[j][s] = events[j][s]
        /\ \A j \in Counters \cap K : events'[j][s] = events[j][s] + One(e = s)
    BY <2>1, CountsOne
  <2> QED
    BY <2>2 DEF K, Counters
<1> QED
  BY <1>1 DEF Done, Counters

LEMMA CountsBoth ==
  ASSUME CInv, NEW s \in Items, NEW e \in Items, NEW k \in {"rejected", "dropped"},
         Record({"received", k}, e)
  PROVE  /\ Done(s)' = Done(s) + One(e = s)
         /\ events'["received"][s] = events["received"][s] + One(e = s)
<1>0. \A j \in Counters : events[j][s] \in Nat
  BY PlacesFinite
<1>1. /\ \A j \in Counters \ {"received", k} : events'[j][s] = events[j][s]
      /\ \A j \in Counters \cap {"received", k} :
           events'[j][s] = events[j][s] + One(e = s)
  <2> DEFINE K == {"received", k}
  <2>1. Record(K, e)
    OBVIOUS
  <2> HIDE DEF K
  <2>2. /\ \A j \in Counters \ K : events'[j][s] = events[j][s]
        /\ \A j \in Counters \cap K : events'[j][s] = events[j][s] + One(e = s)
    BY <2>1, CountsOne
  <2> QED
    BY <2>2 DEF K
<1>2. events'["received"][s] = events["received"][s] + One(e = s)
  BY <1>1 DEF Counters
<1>3. One(e = s) \in Nat
  BY DEF One
<1>4. CASE k = "rejected"
  BY <1>0, <1>1, <1>2, <1>3, <1>4 DEF Done, Counters
<1>5. CASE k = "dropped"
  BY <1>0, <1>1, <1>2, <1>3, <1>5 DEF Done, Counters
<1> QED
  BY <1>4, <1>5

-----------------------------------------------------------------------------
(* Every action preserves the balance                                      *)

LEMMA EmptyHandsStep == CInv /\ EmptyHands /\ [QNext]_qvars => EmptyHands'
<1> SUFFICES ASSUME CInv, EmptyHands, [QNext]_qvars PROVE EmptyHands'
  OBVIOUS
<1> USE DEF CInv, TypeOK, QTypeOK, EmptyHands
<1>1. ASSUME NEW c \in Consumers, Consume(c) PROVE EmptyHands'
  BY <1>1 DEF Consume, Receive, CountOut, CallbackReturns, ConsumerExits
<1>2. ASSUME StartConsumers PROVE EmptyHands'
  BY <1>2 DEF StartConsumers
<1>3. ASSUME UNCHANGED consumers PROVE EmptyHands'
  BY <1>3 DEF consumers
<1> QED
  BY <1>1, <1>2, <1>3
  DEF QNext, Produce, ProduceDisabled, ProduceEnabled, SendAccepted, SendDropped,
      SendOnClosed, CountIn, Stop, StopDisables, StopSignals, StopReleases, qvars, consumers

\* The handlers' steps.
LEMMA HandlerBalances ==
  ASSUME BInv, NEW s \in Items, NEW h \in Producers, Handle(h)
  PROVE  Balanced(s)'
<1> DEFINE S == Cardinality(Sending(s))
           Q == Cardinality(Queued(s))
           I == Cardinality(InHand(s))
<1>0. /\ S \in Nat /\ Q \in Nat /\ I \in Nat
      /\ Done(s) \in Nat /\ events["received"][s] \in Nat
  BY PlacesFinite DEF BInv, Done, Counters
<1>1. events["received"][s] = S + Q + I + Done(s)
  BY DEF BInv, Balanced
<1>2. CInv
  BY DEF BInv
<1> HIDE DEF S, Q, I
<1>3. CASE SpanRejected(h) \/ SpanRefused(h)
  <2>1. Span(h) \in Items
    BY <1>2, <1>3, NextSpanIsItem DEF SpanRejected, SpanRefused
  <2>2. PICK k \in {"rejected", "dropped"} : Record({"received", k}, Span(h))
    BY <1>3 DEF SpanRejected, SpanRefused
  <2>3. S' = S /\ Q' = Q /\ I' = I
    BY <1>3 DEF SpanRejected, SpanRefused, ProduceDisabled, qvars, S, Q, I, Sending,
                Queued, InHand
  <2>4. /\ Done(s)' = Done(s) + One(Span(h) = s)
        /\ events'["received"][s] = events["received"][s] + One(Span(h) = s)
    BY <1>2, <2>1, <2>2, CountsBoth
  <2> QED
    BY <1>0, <1>1, <2>3, <2>4 DEF Balanced, S, Q, I, One
<1>4. CASE SpanOffered(h)
  <2>1. Span(h) \in Items
    BY <1>2, <1>4, NextSpanIsItem DEF SpanOffered
  <2>2. S' = S + One(Span(h) = s)
    BY <1>2, <1>4, <2>1, SendingGrows DEF SpanOffered, ProduceEnabled, S
  <2>3. Q' = Q /\ I' = I
    BY <1>4 DEF SpanOffered, ProduceEnabled, channel, consumers, Q, I, Queued, InHand
  <2>4. Record({"received"}, Span(h))
    BY <1>4 DEF SpanOffered
  <2>5. /\ Done(s)' = Done(s)
        /\ events'["received"][s] = events["received"][s] + One(Span(h) = s)
    BY <1>2, <2>1, <2>4, CountsReceived
  <2> QED
    BY <1>0, <1>1, <2>2, <2>3, <2>5 DEF Balanced, S, Q, I, One
<1>5. CASE SpanSent(h)
  <2>1. pitem[h] \in Items
    BY <1>2, <1>5 DEF SpanSent, SendAccepted, CInv, QInv, Typed, ItemToSend
  <2>2. S' = S - One(pitem[h] = s)
    BY <1>2, <1>5, SendingShrinks DEF SpanSent, SendAccepted, S
  <2>3. Q' = Q + One(pitem[h] = s)
    BY <1>2, <1>5, <2>1, QueuedGrows DEF SpanSent, SendAccepted, Q
  <2>4. I' = I /\ events' = events
    BY <1>5 DEF SpanSent, SendAccepted, consumers, I, InHand
  <2> QED
    BY <1>0, <1>1, <1>2, <2>2, <2>3, <2>4 DEF Balanced, Done, S, Q, I, One
<1>6. CASE SpanDropped(h)
  <2>1. pitem[h] \in Items
    BY <1>2, <1>6 DEF SpanDropped, SendDropped, CInv, QInv, Typed, ItemToSend
  <2>2. S' = S - One(pitem[h] = s)
    <3>1. /\ ppc[h] = "sending" /\ ppc' = [ppc EXCEPT ![h] = "idle"]
          /\ \A g \in Producers : g # h => pitem'[g] = pitem[g]
      BY <1>2, <1>6 DEF SpanDropped, SendDropped, CInv, TypeOK, QTypeOK
    <3> QED
      BY <1>2, <3>1, SendingShrinks DEF S
  <2>3. Q' = Q /\ I' = I
    BY <1>6 DEF SpanDropped, SendDropped, channel, consumers, Q, I, Queued, InHand
  <2>4. Record({"dropped"}, pitem[h])
    BY <1>6 DEF SpanDropped
  <2>5. /\ Done(s)' = Done(s) + One(pitem[h] = s)
        /\ events'["received"][s] = events["received"][s]
    BY <1>2, <2>1, <2>4, CountsOutcome
  <2> QED
    BY <1>0, <1>1, <2>2, <2>3, <2>5 DEF Balanced, S, Q, I, One
<1>7. CASE SpanQueued(h)
  <2>1. Sending(s)' = Sending(s)
    BY <1>2, <1>7 DEF SpanQueued, CountIn, Sending, CInv, TypeOK, QTypeOK
  <2>2. UNCHANGED <<items, citem, events>>
    BY <1>7 DEF SpanQueued, CountIn, consumers
  <2> QED
    BY <1>1, <2>1, <2>2 DEF Balanced, Done, S, Q, I, Queued, InHand
<1>8. ASSUME UNCHANGED <<ppc, pitem, items, citem, events>> PROVE Balanced(s)'
  BY <1>1, <1>8 DEF Balanced, Done, S, Q, I, Sending, Queued, InHand
<1>9. CASE RequestArrives(h) \/ HandlerCrashes(h) \/ JaegerResponds(h)
           \/ ZipkinResponds(h) \/ GRPCResponds(h)
  BY <1>8, <1>9 DEF RequestArrives, HandlerCrashes, SendOnClosed, JaegerResponds,
                    ZipkinResponds, GRPCResponds, qvars, channel, producers, consumers
<1> QED
  BY <1>3, <1>4, <1>5, <1>6, <1>7, <1>9 DEF Handle

\* The workers' steps.
LEMMA WorkerBalances ==
  ASSUME BInv, NEW s \in Items, NEW c \in Consumers, Work(c)
  PROVE  Balanced(s)'
<1> DEFINE S == Cardinality(Sending(s))
           Q == Cardinality(Queued(s))
           I == Cardinality(InHand(s))
<1>0. /\ S \in Nat /\ Q \in Nat /\ I \in Nat
      /\ Done(s) \in Nat /\ events["received"][s] \in Nat
  BY PlacesFinite DEF BInv, Done, Counters
<1>1. events["received"][s] = S + Q + I + Done(s)
  BY DEF BInv, Balanced
<1>2. CInv
  BY DEF BInv
<1> HIDE DEF S, Q, I
<1>3. CASE WorkerReceives(c)
  <2>1. items # <<>> /\ citem[c] = NoItem
    BY <1>2, <1>3 DEF WorkerReceives, Receive, CInv, QInv, ClosedByStop, BInv, EmptyHands
  <2>2. Head(items) \in Items
    BY <1>2, <2>1 DEF CInv, TypeOK, QTypeOK
  <2>3. Q' = Q - One(Head(items) = s)
    BY <1>2, <1>3, <2>1, QueuedShrinks DEF WorkerReceives, Receive, Q
  <2>4. I' = I + One(Head(items) = s)
    BY <1>2, <1>3, <2>1, <2>2, InHandGrows DEF WorkerReceives, Receive, I
  <2>5. S' = S /\ events' = events
    BY <1>3 DEF WorkerReceives, Receive, producers, S, Sending
  <2> QED
    BY <1>0, <1>1, <1>2, <2>3, <2>4, <2>5 DEF Balanced, Done, S, Q, I, One
<1>4. CASE WorkerSaves(c)
  <2>1. citem[c] \in Items
    BY <1>2, <1>4 DEF WorkerSaves, CallbackReturns, CInv, TypeOK, QTypeOK, QInv,
                      NoNilDelivered
  <2>2. I' = I - One(citem[c] = s)
    BY <1>2, <1>4, InHandShrinks DEF WorkerSaves, CallbackReturns, I
  <2>3. S' = S /\ Q' = Q
    BY <1>4 DEF WorkerSaves, CallbackReturns, producers, channel, S, Q, Sending, Queued
  <2>4. PICK outcome \in {"savedOk", "savedErr"} : Record({outcome}, citem[c])
    BY <1>4 DEF WorkerSaves
  <2>5. /\ Done(s)' = Done(s) + One(citem[c] = s)
        /\ events'["received"][s] = events["received"][s]
    BY <1>2, <2>1, <2>4, CountsOutcome
  <2> QED
    BY <1>0, <1>1, <2>2, <2>3, <2>5 DEF Balanced, S, Q, I, One
<1>5. CASE WorkerCountsOut(c) \/ WorkerExits(c)
  <2>1. UNCHANGED <<ppc, pitem, items, citem, events>>
    BY <1>5 DEF WorkerCountsOut, CountOut, WorkerExits, ConsumerExits, producers, channel
  <2> QED
    BY <1>1, <2>1 DEF Balanced, Done, S, Q, I, Sending, Queued, InHand
<1> QED
  BY <1>3, <1>4, <1>5 DEF Work

LEMMA BInvStep == BInv /\ [Next]_vars => BInv'
<1> SUFFICES ASSUME BInv, [Next]_vars PROVE BInv'
  OBVIOUS
<1>1. CInv' /\ EmptyHands'
  BY CInvStep, StepsUseQueue, EmptyHandsStep DEF BInv
<1>2. ASSUME NEW s \in Items, UNCHANGED <<ppc, pitem, items, citem, events>>
      PROVE  Balanced(s)'
  BY <1>2 DEF BInv, Balanced, Done, Sending, Queued, InHand
<1>3. ASSUME NEW s \in Items PROVE Balanced(s)'
  <2>1. CASE ProcessorStarts \/ ProcessorStops \/ UNCHANGED vars
    BY <1>2, <2>1 DEF ProcessorStarts, StartConsumers, ProcessorStops, Stop, StopDisables,
                      StopSignals, StopReleases, producers, channel, consumers, vars, qvars
  <2> QED
    BY <2>1, HandlerBalances, WorkerBalances DEF Next, Finished
<1> QED
  BY <1>1, <1>3 DEF BInv

LEMMA BalanceInit == Init => BInv
<1> SUFFICES ASSUME Init PROVE BInv
  OBVIOUS
<1>1. CInv /\ EmptyHands
  BY CInvInit DEF Init, QInit, EmptyHands
<1>2. ASSUME NEW s \in Items PROVE Balanced(s)
  <2>1. Sending(s) = {} /\ Queued(s) = {} /\ InHand(s) = {}
    BY NilIsNoItem DEF Init, QInit, Sending, Queued, InHand
  <2>2. \A k \in Counters : events[k][s] = 0
    BY DEF Init
  <2> QED
    BY <2>1, <2>2, FS_EmptySet DEF Balanced, Done, Counters
<1> QED
  BY <1>1, <1>2 DEF BInv

-----------------------------------------------------------------------------
\* The counters follow the history where the code counts, and are zero
\* elsewhere.
CountersFollow ==
  \A k \in Counters, s \in Items :
    metrics[k][s] = IF Counted(k, s) THEN events[k][s] ELSE 0

LEMMA FollowStep == CInv /\ CountersFollow /\ [Next]_vars => CountersFollow'
<1> SUFFICES ASSUME CInv, CountersFollow, [Next]_vars PROVE CountersFollow'
  OBVIOUS
<1>1. ASSUME NEW kinds, NEW e, Report(kinds, e) PROVE CountersFollow'
  <2> SUFFICES ASSUME NEW k \in Counters, NEW s \in Items
               PROVE  metrics'[k][s] = IF Counted(k, s) THEN events'[k][s] ELSE 0
    BY DEF CountersFollow, Counted
  <2>1. metrics[k] \in [Items -> Nat] /\ events[k] \in [Items -> Nat]
    BY DEF CInv, TypeOK
  <2>2. metrics[k][s] = IF Counted(k, s) THEN events[k][s] ELSE 0
    BY DEF CountersFollow
  <2>3. CASE s # e
    <3>1. metrics'[k][s] = metrics[k][s]
      BY <1>1, <2>1, <2>3 DEF Count
    <3>2. events'[k][s] = events[k][s]
      BY <1>1, <2>1, <2>3 DEF Record
    <3> QED
      BY <2>2, <3>1, <3>2
  <2>4. CASE s = e
    <3>1. metrics'[k][s] = IF k \in kinds /\ Counted(k, s) THEN metrics[k][s] + 1
                                                         ELSE metrics[k][s]
      BY <1>1, <2>1, <2>4 DEF Count
    <3>2. events'[k][s] = IF k \in kinds THEN events[k][s] + 1 ELSE events[k][s]
      BY <1>1, <2>1, <2>4 DEF Record
    <3> QED
      BY <2>2, <3>1, <3>2
  <2> QED
    BY <2>3, <2>4
<1>2. ASSUME UNCHANGED tally PROVE CountersFollow'
  BY <1>2 DEF CountersFollow, Counted
<1>3. ASSUME NEW h \in Producers, Handle(h) PROVE CountersFollow'
  <2>1. CASE SpanRejected(h) \/ SpanRefused(h) \/ SpanOffered(h) \/ SpanDropped(h)
    BY <1>1, <2>1 DEF SpanRejected, SpanRefused, SpanOffered, SpanDropped
  <2>2. CASE RequestArrives(h) \/ SpanSent(h) \/ SpanQueued(h) \/ HandlerCrashes(h)
    BY <1>2, <2>2 DEF RequestArrives, SpanSent, SpanQueued, HandlerCrashes
  <2>3. CASE JaegerResponds(h) \/ ZipkinResponds(h) \/ GRPCResponds(h)
    BY <1>2, <2>3 DEF JaegerResponds, ZipkinResponds, GRPCResponds
  <2> QED
    BY <1>3, <2>1, <2>2, <2>3 DEF Handle
<1>4. ASSUME NEW c \in Consumers, Work(c) PROVE CountersFollow'
  BY <1>1, <1>2, <1>4 DEF Work, WorkerReceives, WorkerCountsOut, WorkerSaves, WorkerExits
<1>5. CASE ProcessorStarts \/ ProcessorStops \/ UNCHANGED vars
  BY <1>2, <1>5 DEF ProcessorStarts, ProcessorStops, vars
<1> QED
  BY <1>3, <1>4, <1>5 DEF Next, Finished

\* Every received span with a service name is in one place or has one counted
\* outcome, and a span without one is in no counter but the drops, however
\* the handlers, the workers and Stop interleave (span_processor.go
\* ProcessSpans, enqueueSpan, saveSpan; metrics.go ReportServiceNameForSpan;
\* bounded_queue.go Produce).
THEOREM CollectorBalances == Spec => []SpansBalance
<1>1. Init => CountersFollow
  BY DEF Init, CountersFollow
<1>2. BInv /\ CountersFollow => SpansBalance
  <2> SUFFICES ASSUME BInv, CountersFollow, NEW s \in Items
               PROVE  IF s \in Unnamed
                        THEN /\ \A k \in Counters \ {"dropped"} : metrics[k][s] = 0
                             /\ metrics["dropped"][s] = events["dropped"][s]
                        ELSE metrics["received"][s] =
                               Cardinality(Sending(s)) + Places(s)
                               + metrics["rejected"][s] + metrics["dropped"][s]
                               + metrics["savedOk"][s] + metrics["savedErr"][s]
    BY DEF SpansBalance, Sending
  <2>1. CASE s \in Unnamed
    BY <2>1 DEF CountersFollow, Counted, Counters
  <2>2. CASE s \notin Unnamed
    <3>1. Balanced(s)
      BY DEF BInv
    <3>2. Places(s) = Cardinality(Queued(s)) + Cardinality(InHand(s))
      BY DEF Places, Queued
    <3>3. \A k \in Counters : metrics[k][s] = events[k][s]
      BY <2>2 DEF CountersFollow, Counted
    <3>4. /\ metrics["received"][s] = events["received"][s]
          /\ metrics["rejected"][s] = events["rejected"][s]
          /\ metrics["dropped"][s] = events["dropped"][s]
          /\ metrics["savedOk"][s] = events["savedOk"][s]
          /\ metrics["savedErr"][s] = events["savedErr"][s]
      BY <3>3 DEF Counters
    <3> QED
      BY <2>2, <3>1, <3>2, <3>4, PlacesFinite DEF Balanced, Done, BInv, Counters
  <2> QED
    BY <2>1, <2>2
<1>3. CInv /\ CountersFollow /\ [Next]_vars => CountersFollow'
  BY FollowStep
<1> QED
  BY BalanceInit, CollectorInvariant, <1>1, <1>2, <1>3, BInvStep, PTL DEF Spec

-----------------------------------------------------------------------------
(* Answers                                                                 *)

\* What the answers rest on, for each handler.  A span that was not looked at
\* yet has not been counted ...
Unseen(s) == events["received"][s] = 0 /\ events["dropped"][s] = 0

Ahead(h, b, i) ==
  \/ b > call[h]
  \/ /\ b = call[h]
     /\ \/ i > Len(retMe[h]) + 1
        \/ i = Len(retMe[h]) + 1 /\ ppc[h] = "idle" /\ hpc[h] # "busy"

Waits(h) ==
  hpc[h] = "waiting" =>
    /\ retMe[h] = <<>> /\ oks[h] = <<>>
    /\ \A r \in Requests[h] : \A b \in 1..Len(r.calls) : \A i \in 1..Len(r.calls[b]) :
         Unseen(r.calls[b][i])

Coming(h) ==
  hpc[h] # "waiting" =>
    \A b \in 1..Len(req[h].calls) : \A i \in 1..Len(req[h].calls[b]) :
      Ahead(h, b, i) => Unseen(req[h].calls[b][i])

\* ... the span inside Produce is the next of its batch, and not dropped yet ...
Offers(h) ==
  ppc[h] # "idle" =>
    /\ Len(retMe[h]) < Len(Batch(h)) /\ pitem[h] = Span(h)
    /\ events["received"][Span(h)] = 1 /\ events["dropped"][Span(h)] = 0

\* ... a result says whether its span was dropped, and a call that ended with
\* ErrServerBusy ended at a dropped span ...
Told(h) ==
  hpc[h] # "waiting" =>
    /\ Len(retMe[h]) <= Len(Batch(h))
    /\ \A i \in 1..Len(retMe[h]) :
         /\ events["received"][Batch(h)[i]] = 1
         /\ events["dropped"][Batch(h)[i]] = IF retMe[h][i] THEN 0 ELSE 1

EndedBusy(h) ==
  hpc[h] = "busy" => Len(retMe[h]) < Len(Batch(h)) /\ events["dropped"][Span(h)] = 1

\* ... and the responses of the batches before are right.
Responses(h) ==
  hpc[h] # "waiting" /\ req[h].kind = "jaeger" =>
    /\ Len(oks[h]) = IF hpc[h] = "answered" THEN call[h] ELSE call[h] - 1
    /\ \A b \in 1..Len(oks[h]) :
         oks[h][b] <=> \A i \in 1..Len(req[h].calls[b]) :
                         events["dropped"][req[h].calls[b][i]] = 0

Answers(h) ==
  Waits(h) /\ Coming(h) /\ Offers(h) /\ Told(h) /\ EndedBusy(h) /\ Responses(h)

\* The spans a handler serves, or may be sent.
SpansOf(h) ==
  IF hpc[h] = "waiting"
    THEN {s \in Items : \E r \in Requests[h] : \E b \in 1..Len(r.calls) :
                          \E i \in 1..Len(r.calls[b]) : s = r.calls[b][i]}
    ELSE {s \in Items : \E b \in 1..Len(req[h].calls) :
                          \E i \in 1..Len(req[h].calls[b]) : s = req[h].calls[b][i]}

\* The shape of requests.
LEMMA RequestShape ==
  ASSUME NEW h \in Producers, NEW r \in Requests[h]
  PROVE  /\ r.calls \in Seq(Seq(Items)) /\ Len(r.calls) >= 1
         /\ \A b \in 1..Len(r.calls) :
              /\ r.calls[b] \in Seq(Items) /\ Len(r.calls[b]) \in Nat
              /\ \A i \in 1..Len(r.calls[b]) : r.calls[b][i] \in Items
<1>1. r.calls \in Seq(Seq(Items)) /\ r.calls # <<>>
  BY RequestsAssumption
<1>2. Len(r.calls) >= 1
  BY <1>1
<1>3. ASSUME NEW b \in 1..Len(r.calls)
      PROVE  r.calls[b] \in Seq(Items) /\ Len(r.calls[b]) \in Nat
             /\ \A i \in 1..Len(r.calls[b]) : r.calls[b][i] \in Items
  <2>1. r.calls[b] \in Seq(Items)
    BY <1>1
  <2> QED
    BY <2>1
<1> QED
  BY <1>1, <1>2, <1>3

\* What a serving handler has: its request, its batch, and the span it is at.
LEMMA ServingShape ==
  ASSUME CInv, NEW h \in Producers, hpc[h] # "waiting"
  PROVE  /\ req[h] \in Requests[h] /\ call[h] \in 1..Len(req[h].calls)
         /\ Len(req[h].calls) \in Nat /\ call[h] \in Nat
         /\ \A b \in 1..Len(req[h].calls) :
              /\ req[h].calls[b] \in Seq(Items) /\ Len(req[h].calls[b]) \in Nat
              /\ \A i \in 1..Len(req[h].calls[b]) : req[h].calls[b][i] \in Items
         /\ Batch(h) = req[h].calls[call[h]] /\ Batch(h) \in Seq(Items) /\ Len(Batch(h)) \in Nat
         /\ Len(retMe[h]) \in Nat /\ retMe[h] \in Seq(BOOLEAN) /\ oks[h] \in Seq(BOOLEAN)
<1>1. req[h] \in Requests[h] /\ call[h] \in 1..Len(req[h].calls)
  BY DEF CInv, Serving
<1>2. /\ req[h].calls \in Seq(Seq(Items)) /\ Len(req[h].calls) \in Nat
      /\ \A b \in 1..Len(req[h].calls) :
           /\ req[h].calls[b] \in Seq(Items) /\ Len(req[h].calls[b]) \in Nat
           /\ \A i \in 1..Len(req[h].calls[b]) : req[h].calls[b][i] \in Items
  BY <1>1, RequestShape
<1>3. retMe[h] \in Seq(BOOLEAN) /\ oks[h] \in Seq(BOOLEAN)
  BY DEF CInv, TypeOK
<1>4. Len(retMe[h]) \in Nat
  BY <1>3
<1>5. Batch(h) = req[h].calls[call[h]] /\ Batch(h) \in Seq(Items) /\ Len(Batch(h)) \in Nat
  BY <1>1, <1>2 DEF Batch
<1>6. call[h] \in Nat
  BY <1>1
<1> QED
  BY <1>1, <1>2, <1>3, <1>4, <1>5, <1>6

\* Two places that hold the same span are the same place.
LEMMA PlacesAreApart ==
  ASSUME CInv, NEW h \in Producers, hpc[h] # "waiting",
         NEW b \in 1..Len(req[h].calls), NEW i \in 1..Len(req[h].calls[b]),
         NEW c \in 1..Len(req[h].calls), NEW j \in 1..Len(req[h].calls[c]),
         req[h].calls[b][i] = req[h].calls[c][j]
  PROVE  b = c /\ i = j
<1>1. /\ req[h] \in Requests[h] /\ b \in DOMAIN req[h].calls /\ c \in DOMAIN req[h].calls
      /\ i \in DOMAIN req[h].calls[b] /\ j \in DOMAIN req[h].calls[c]
  <2>1. req[h] \in Requests[h] /\ req[h].calls \in Seq(Seq(Items))
    BY ServingShape, RequestShape
  <2>2. req[h].calls[b] \in Seq(Items) /\ req[h].calls[c] \in Seq(Items)
    BY ServingShape
  <2> QED
    BY <2>1, <2>2
<1> QED
  BY <1>1, SpansAreDistinct

\* Two handlers have no span in common.
LEMMA HandlersAreApart ==
  ASSUME CInv, NEW g \in Producers, NEW h \in Producers, g # h, hpc[g] # "waiting",
         NEW b \in 1..Len(req[g].calls), NEW i \in 1..Len(req[g].calls[b])
  PROVE  req[g].calls[b][i] \notin SpansOf(h)
<1> SUFFICES ASSUME req[g].calls[b][i] \in SpansOf(h) PROVE FALSE
  OBVIOUS
<1>1. PICK r \in Requests[h] : \E c \in 1..Len(r.calls) : \E j \in 1..Len(r.calls[c]) :
        req[g].calls[b][i] = r.calls[c][j]
  <2>1. CASE hpc[h] = "waiting"
    BY <2>1 DEF SpansOf
  <2>2. CASE hpc[h] # "waiting"
    BY <2>2, ServingShape DEF SpansOf
  <2> QED
    BY <2>1, <2>2
<1>2. PICK c \in 1..Len(r.calls) : \E j \in 1..Len(r.calls[c]) :
        req[g].calls[b][i] = r.calls[c][j]
  BY <1>1
<1>5. PICK j \in 1..Len(r.calls[c]) : req[g].calls[b][i] = r.calls[c][j]
  BY <1>2
<1>3. req[g] \in Requests[g] /\ req[g].calls \in Seq(Seq(Items)) /\ r.calls \in Seq(Seq(Items))
  BY ServingShape, RequestShape
<1>4. /\ b \in DOMAIN req[g].calls /\ c \in DOMAIN r.calls
      /\ i \in DOMAIN req[g].calls[b] /\ j \in DOMAIN r.calls[c]
  <2>1. req[g].calls[b] \in Seq(Items) /\ r.calls[c] \in Seq(Items)
    BY ServingShape, RequestShape
  <2>2. i \in DOMAIN req[g].calls[b] /\ j \in DOMAIN r.calls[c]
    BY <2>1
  <2>3. b \in DOMAIN req[g].calls /\ c \in DOMAIN r.calls
    BY <1>3
  <2> QED
    BY <2>2, <2>3
<1>6. \A d \in DOMAIN req[g].calls, e \in DOMAIN r.calls :
        \A k \in DOMAIN req[g].calls[d], l \in DOMAIN r.calls[e] :
          req[g].calls[d][k] = r.calls[e][l] => g = h
  <2> DEFINE q == req[g]
  <2>1. q \in Requests[g] /\ r \in Requests[h]
    BY <1>3
  <2> HIDE DEF q
  <2>2. \A d \in DOMAIN q.calls, e \in DOMAIN r.calls :
          \A k \in DOMAIN q.calls[d], l \in DOMAIN r.calls[e] :
            q.calls[d][k] = r.calls[e][l] => g = h
    BY <2>1, SpansAreDistinct
  <2> QED
    BY <2>2 DEF q
<1>7. g = h
  BY Zenon, <1>4, <1>5, <1>6
<1> QED
  BY <1>7

-----------------------------------------------------------------------------

\* The state of a handler and its producer.
Own(h) == <<hpc[h], req[h], call[h], retMe[h], oks[h], ppc[h], pitem[h]>>

\* A step that leaves a handler alone, and the counts of its spans.
LEMMA AnswersStay ==
  ASSUME CInv, NEW h \in Producers, Answers(h), UNCHANGED Own(h),
         \A s \in SpansOf(h) : /\ events'["received"][s] = events["received"][s]
                               /\ events'["dropped"][s] = events["dropped"][s]
  PROVE  Answers(h)'
<1>1. /\ hpc'[h] = hpc[h] /\ req'[h] = req[h] /\ call'[h] = call[h] /\ retMe'[h] = retMe[h]
      /\ oks'[h] = oks[h] /\ ppc'[h] = ppc[h] /\ pitem'[h] = pitem[h]
  BY DEF Own
<1>2. CASE hpc[h] = "waiting"
  <2>1. ASSUME NEW r \in Requests[h], NEW b \in 1..Len(r.calls), NEW i \in 1..Len(r.calls[b])
        PROVE  Unseen(r.calls[b][i])'
    <3>1. r.calls[b][i] \in SpansOf(h)
      BY <1>2, RequestShape DEF SpansOf
    <3>2. Unseen(r.calls[b][i])
      BY <1>2 DEF Answers, Waits
    <3> QED
      BY <3>1, <3>2 DEF Unseen
  <2>2. ppc[h] = "idle"
    BY <1>2 DEF CInv, Serving
  <2> QED
    BY <1>1, <1>2, <2>1, <2>2 DEF Answers, Waits, Coming, Offers, Told, EndedBusy, Responses
<1>3. CASE hpc[h] # "waiting"
  <2>1. \A b \in 1..Len(req[h].calls) : \A i \in 1..Len(req[h].calls[b]) :
          /\ events'["received"][req[h].calls[b][i]] = events["received"][req[h].calls[b][i]]
          /\ events'["dropped"][req[h].calls[b][i]] = events["dropped"][req[h].calls[b][i]]
    BY <1>3, ServingShape DEF SpansOf
  <2>2. Batch(h)' = Batch(h) /\ Span(h)' = Span(h)
    BY <1>1 DEF Batch, Span
  <2>3. \A i \in 1..Len(Batch(h)) :
          /\ events'["received"][Batch(h)[i]] = events["received"][Batch(h)[i]]
          /\ events'["dropped"][Batch(h)[i]] = events["dropped"][Batch(h)[i]]
    <3>1. Batch(h) = req[h].calls[call[h]] /\ call[h] \in 1..Len(req[h].calls)
      BY <1>3, ServingShape
    <3>2. \A i \in 1..Len(req[h].calls[call[h]]) :
            LET s == req[h].calls[call[h]][i]
            IN  /\ events'["received"][s] = events["received"][s]
                /\ events'["dropped"][s] = events["dropped"][s]
      BY <2>1, <3>1
    <3> QED
      BY <3>2 DEF Batch
  <2>4. Len(retMe[h]) < Len(Batch(h)) =>
          /\ events'["received"][Span(h)] = events["received"][Span(h)]
          /\ events'["dropped"][Span(h)] = events["dropped"][Span(h)]
    BY <1>3, <2>3, ServingShape DEF Span
  <2>5. Waits(h)'
    BY <1>1, <1>3 DEF Waits
  <2>6. Coming(h)'
    <3> SUFFICES ASSUME NEW b \in 1..Len(req[h].calls), NEW i \in 1..Len(req[h].calls[b]),
                        Ahead(h, b, i)'
                 PROVE  Unseen(req[h].calls[b][i])'
      BY <1>1, <1>3 DEF Coming
    <3>1. Ahead(h, b, i)
      BY <1>1 DEF Ahead
    <3>2. Unseen(req[h].calls[b][i])
      BY <1>3, <3>1 DEF Answers, Coming
    <3> QED
      BY <1>1, <2>1, <3>2 DEF Unseen
  <2>7. Offers(h)' /\ EndedBusy(h)'
    BY <1>1, <2>2, <2>4 DEF Answers, Offers, EndedBusy
  <2>8. Told(h)'
    <3>1. Told(h) /\ Len(retMe[h]) \in Nat /\ Len(Batch(h)) \in Nat
      BY <1>3, ServingShape DEF Answers
    <3>2. \A i \in 1..Len(retMe[h]) : i \in 1..Len(Batch(h))
      BY <1>3, <3>1 DEF Told
    <3> QED
      BY <1>1, <1>3, <2>2, <2>3, <3>1, <3>2 DEF Told
  <2>9. Responses(h)'
    <3> SUFFICES ASSUME req[h].kind = "jaeger" PROVE Responses(h)'
      BY <1>1 DEF Responses
    <3>1. Responses(h) /\ Len(oks[h]) = IF hpc[h] = "answered" THEN call[h] ELSE call[h] - 1
      BY <1>3 DEF Answers, Responses
    <3>2. \A b \in 1..Len(oks[h]) : b \in 1..Len(req[h].calls)
      BY <1>3, <3>1, ServingShape
    <3>3. \A b \in 1..Len(oks[h]) :
            (\A i \in 1..Len(req[h].calls[b]) : events'["dropped"][req[h].calls[b][i]] = 0)
            <=> (\A i \in 1..Len(req[h].calls[b]) : events["dropped"][req[h].calls[b][i]] = 0)
      BY <2>1, <3>2
    <3> QED
      BY <1>1, <1>3, <3>1, <3>3 DEF Responses
  <2> QED
    BY <2>5, <2>6, <2>7, <2>8, <2>9 DEF Answers
<1> QED
  BY <1>2, <1>3

\* Counting one span leaves the others' counts alone.
LEMMA CountsElsewhere ==
  ASSUME CInv, NEW e \in Items, NEW kinds, Record(kinds, e), NEW s \in Items, s # e
  PROVE  /\ events'["received"][s] = events["received"][s]
         /\ events'["dropped"][s] = events["dropped"][s]
<1>1. \A k \in Counters : events[k][s] \in Nat
  BY PlacesFinite
<1>2. One(e = s) = 0
  BY DEF One
<1>3. \A k \in Counters : events'[k][s] = events[k][s]
  BY <1>1, <1>2, CountsOne
<1> QED
  BY <1>3 DEF Counters

\* The place a serving handler is at.
LEMMA SpanAt ==
  ASSUME CInv, NEW h \in Producers, hpc[h] # "waiting", Len(retMe[h]) < Len(Batch(h))
  PROVE  /\ Len(retMe[h]) + 1 \in 1..Len(req[h].calls[call[h]])
         /\ Span(h) = req[h].calls[call[h]][Len(retMe[h]) + 1] /\ Span(h) \in Items
<1>1. Len(retMe[h]) + 1 \in 1..Len(req[h].calls[call[h]]) /\ call[h] \in 1..Len(req[h].calls)
  BY ServingShape
<1>2. Span(h) = req[h].calls[call[h]][Len(retMe[h]) + 1]
  BY DEF Span, Batch
<1> QED
  BY <1>1, <1>2, ServingShape

\* A step at the span of one handler is nothing to the others.
LEMMA OthersStay ==
  ASSUME CInv, NEW g \in Producers, hpc[g] # "waiting", Len(retMe[g]) < Len(Batch(g)),
         \A s \in Items \ {Span(g)} :
           /\ events'["received"][s] = events["received"][s]
           /\ events'["dropped"][s] = events["dropped"][s],
         NEW h \in Producers, h # g, Answers(h), UNCHANGED Own(h)
  PROVE  Answers(h)'
<1>1. Span(g) \notin SpansOf(h)
  <2>1. /\ call[g] \in 1..Len(req[g].calls)
        /\ Len(retMe[g]) + 1 \in 1..Len(req[g].calls[call[g]])
        /\ Span(g) = req[g].calls[call[g]][Len(retMe[g]) + 1]
    BY SpanAt, ServingShape
  <2> QED
    BY <2>1, HandlersAreApart
<1>2. SpansOf(h) \subseteq Items
  BY DEF SpansOf
<1> QED
  BY <1>1, <1>2, AnswersStay

\* The places of a handler before and after the one it is at.
LEMMA OtherPlaces ==
  ASSUME CInv, NEW g \in Producers, hpc[g] # "waiting", Len(retMe[g]) < Len(Batch(g)),
         NEW b \in 1..Len(req[g].calls), NEW i \in 1..Len(req[g].calls[b]),
         b # call[g] \/ i # Len(retMe[g]) + 1
  PROVE  req[g].calls[b][i] \in Items \ {Span(g)}
<1>1. /\ call[g] \in 1..Len(req[g].calls)
      /\ Len(retMe[g]) + 1 \in 1..Len(req[g].calls[call[g]])
      /\ Span(g) = req[g].calls[call[g]][Len(retMe[g]) + 1]
  BY SpanAt, ServingShape
<1>2. req[g].calls[b][i] \in Items
  BY ServingShape
<1>3. ASSUME req[g].calls[b][i] = Span(g) PROVE FALSE
  <2> DEFINE c == call[g]
             j == Len(retMe[g]) + 1
  <2>1. c \in 1..Len(req[g].calls) /\ j \in 1..Len(req[g].calls[c])
    BY <1>1
  <2>2. req[g].calls[b][i] = req[g].calls[c][j]
    BY <1>1, <1>3
  <2> HIDE DEF c, j
  <2>3. b = c /\ i = j
    BY <2>1, <2>2, PlacesAreApart
  <2> QED
    BY <2>3 DEF c, j
<1> QED
  BY <1>2, <1>3

\* What a handler's answers keep while only the span it is at is counted.
LEMMA OwnPlacesStay ==
  ASSUME CInv, NEW g \in Producers, hpc[g] # "waiting", Len(retMe[g]) < Len(Batch(g)),
         Answers(g),
         \A s \in Items \ {Span(g)} :
           /\ events'["received"][s] = events["received"][s]
           /\ events'["dropped"][s] = events["dropped"][s]
  PROVE  /\ \A b \in 1..Len(req[g].calls) : \A i \in 1..Len(req[g].calls[b]) :
              (b > call[g] \/ (b = call[g] /\ i > Len(retMe[g]) + 1))
                => /\ events'["received"][req[g].calls[b][i]] = 0
                   /\ events'["dropped"][req[g].calls[b][i]] = 0
         /\ \A i \in 1..Len(retMe[g]) :
              /\ events'["received"][Batch(g)[i]] = 1
              /\ events'["dropped"][Batch(g)[i]] = IF retMe[g][i] THEN 0 ELSE 1
         /\ hpc[g] # "answered" /\ req[g].kind = "jaeger" =>
              \A b \in 1..Len(oks[g]) :
                oks[g][b] <=> \A i \in 1..Len(req[g].calls[b]) :
                                events'["dropped"][req[g].calls[b][i]] = 0
<1>0. /\ call[g] \in 1..Len(req[g].calls) /\ Len(retMe[g]) \in Nat /\ Len(Batch(g)) \in Nat
      /\ Batch(g) = req[g].calls[call[g]]
      /\ Len(req[g].calls) \in Nat
      /\ \A b \in 1..Len(req[g].calls) : Len(req[g].calls[b]) \in Nat
  BY ServingShape
<1>1. ASSUME NEW b \in 1..Len(req[g].calls), NEW i \in 1..Len(req[g].calls[b]),
             b > call[g] \/ (b = call[g] /\ i > Len(retMe[g]) + 1)
      PROVE  /\ events'["received"][req[g].calls[b][i]] = 0
             /\ events'["dropped"][req[g].calls[b][i]] = 0
  <2>1. Ahead(g, b, i)
    BY <1>1 DEF Ahead
  <2>2. Unseen(req[g].calls[b][i])
    BY <2>1 DEF Answers, Coming
  <2>3. b # call[g] \/ i # Len(retMe[g]) + 1
    BY <1>0, <1>1
  <2>4. req[g].calls[b][i] \in Items \ {Span(g)}
    BY <2>3, OtherPlaces
  <2> QED
    BY <2>2, <2>4 DEF Unseen
<1>2. ASSUME NEW i \in 1..Len(retMe[g])
      PROVE  /\ events'["received"][Batch(g)[i]] = 1
             /\ events'["dropped"][Batch(g)[i]] = IF retMe[g][i] THEN 0 ELSE 1
  <2>1. i \in 1..Len(req[g].calls[call[g]]) /\ i # Len(retMe[g]) + 1
    BY <1>0
  <2>2. req[g].calls[call[g]][i] \in Items \ {Span(g)}
    BY <1>0, <2>1, OtherPlaces
  <2>3. Batch(g)[i] \in Items \ {Span(g)}
    BY <2>2 DEF Batch
  <2>4. /\ events["received"][Batch(g)[i]] = 1
        /\ events["dropped"][Batch(g)[i]] = IF retMe[g][i] THEN 0 ELSE 1
    BY DEF Answers, Told
  <2> QED
    BY <2>3, <2>4
<1>3. ASSUME hpc[g] # "answered", req[g].kind = "jaeger", NEW b \in 1..Len(oks[g])
      PROVE  oks[g][b] <=> \A i \in 1..Len(req[g].calls[b]) :
                             events'["dropped"][req[g].calls[b][i]] = 0
  <2>1. /\ Len(oks[g]) = call[g] - 1
        /\ oks[g][b] <=> \A i \in 1..Len(req[g].calls[b]) :
                           events["dropped"][req[g].calls[b][i]] = 0
    BY <1>3 DEF Answers, Responses
  <2>2. b \in 1..Len(req[g].calls) /\ b # call[g]
    BY <1>0, <2>1
  <2>3. \A i \in 1..Len(req[g].calls[b]) : req[g].calls[b][i] \in Items \ {Span(g)}
    BY <2>2, OtherPlaces
  <2>4. \A i \in 1..Len(req[g].calls[b]) :
          events'["dropped"][req[g].calls[b][i]] = events["dropped"][req[g].calls[b][i]]
    BY <2>3
  <2> QED
    BY <2>1, <2>4
<1> QED
  BY <1>1, <1>2, <1>3

-----------------------------------------------------------------------------
(* Every action preserves the answers                                      *)

LEMMA ResultAppended ==
  ASSUME NEW q \in Seq(BOOLEAN), NEW ok \in BOOLEAN
  PROVE  /\ Len(Append(q, ok)) = Len(q) + 1 /\ Append(q, ok)[Len(q) + 1] = ok
         /\ \A i \in 1..Len(q) : Append(q, ok)[i] = q[i]
OBVIOUS

\* enqueueSpan returns: the span was counted, and dropped exactly when the
\* result is false.
LEMMA ReturnAnswers ==
  ASSUME CInv, NEW g \in Producers, Answers(g), hpc[g] = "calling",
         Len(retMe[g]) < Len(Batch(g)),
         NEW ok \in BOOLEAN, EnqueueReturns(g, ok), ppc'[g] = "idle",
         events'["received"][Span(g)] = 1,
         events'["dropped"][Span(g)] = IF ok THEN 0 ELSE 1,
         \A s \in Items \ {Span(g)} :
           /\ events'["received"][s] = events["received"][s]
           /\ events'["dropped"][s] = events["dropped"][s]
  PROVE  Answers(g)'
<1> DEFINE n == Len(retMe[g])
<1>0. /\ n \in Nat /\ Len(Batch(g)) \in Nat /\ n < Len(Batch(g)) /\ retMe[g] \in Seq(BOOLEAN)
      /\ call[g] \in 1..Len(req[g].calls) /\ Batch(g) = req[g].calls[call[g]]
      /\ Span(g) = Batch(g)[n + 1]
  BY ServingShape DEF Span
<1>1. /\ \A b \in 1..Len(req[g].calls) : \A i \in 1..Len(req[g].calls[b]) :
            (b > call[g] \/ (b = call[g] /\ i > n + 1))
              => /\ events'["received"][req[g].calls[b][i]] = 0
                 /\ events'["dropped"][req[g].calls[b][i]] = 0
      /\ \A i \in 1..n : /\ events'["received"][Batch(g)[i]] = 1
                         /\ events'["dropped"][Batch(g)[i]] = IF retMe[g][i] THEN 0 ELSE 1
      /\ req[g].kind = "jaeger" =>
           \A b \in 1..Len(oks[g]) :
             oks[g][b] <=> \A i \in 1..Len(req[g].calls[b]) :
                             events'["dropped"][req[g].calls[b][i]] = 0
  BY OwnPlacesStay
<1>2. req' = req /\ call' = call /\ oks' = oks /\ Batch(g)' = Batch(g)
  BY DEF EnqueueReturns, Batch
<1>3. req[g].kind = "jaeger" => Len(oks[g]) = call[g] - 1
  BY DEF Answers, Responses
<1> HIDE DEF n
<1>4. CASE ~ok /\ reportBusy
  <2>1. hpc' = [hpc EXCEPT ![g] = "busy"] /\ retMe' = retMe
    BY <1>4 DEF EnqueueReturns
  <2>2. hpc'[g] = "busy" /\ retMe'[g] = retMe[g]
    BY <2>1 DEF CInv, TypeOK
  <2>3. Waits(g)' /\ Offers(g)'
    BY <2>2 DEF Waits, Offers
  <2>4. Coming(g)'
    <3> SUFFICES ASSUME NEW b \in 1..Len(req[g].calls), NEW i \in 1..Len(req[g].calls[b]),
                        Ahead(g, b, i)'
                 PROVE  /\ events'["received"][req[g].calls[b][i]] = 0
                        /\ events'["dropped"][req[g].calls[b][i]] = 0
      BY <1>2 DEF Coming, Unseen
    <3>1. b > call[g] \/ (b = call[g] /\ i > n + 1)
      BY <1>2, <2>2 DEF Ahead, n
    <3> QED
      BY <1>1, <3>1
  <2>5. Told(g)'
    <3> SUFFICES /\ Len(retMe'[g]) <= Len(Batch(g))
                 /\ \A i \in 1..Len(retMe'[g]) :
                      /\ events'["received"][Batch(g)[i]] = 1
                      /\ events'["dropped"][Batch(g)[i]] = IF retMe'[g][i] THEN 0 ELSE 1
      BY Zenon, <1>2 DEF Told
    <3>1. Len(retMe'[g]) = n
      BY Zenon, <2>2 DEF n
    <3>2. Len(retMe'[g]) <= Len(Batch(g))
      <4> DEFINE m == Len(Batch(g))
      <4>1. n \in Nat /\ m \in Nat /\ n < m
        BY Zenon, <1>0
      <4> HIDE DEF m
      <4>2. n <= m
        BY <4>1
      <4> QED
        BY Zenon, <3>1, <4>2 DEF m
    <3>3. \A i \in 1..n :
            /\ events'["received"][Batch(g)[i]] = 1
            /\ events'["dropped"][Batch(g)[i]] = IF retMe'[g][i] THEN 0 ELSE 1
      BY <1>1, <2>2
    <3> QED
      BY Zenon, <3>1, <3>2, <3>3
  <2>6. EndedBusy(g)'
    <3>1. Span(g)' = Span(g)
      BY <1>2, <2>2 DEF Span
    <3> QED
      BY <1>0, <1>2, <1>4, <2>2, <3>1 DEF EndedBusy, n
  <2>7. Responses(g)'
    BY <1>1, <1>2, <1>3, <2>2 DEF Responses
  <2> QED
    BY <2>3, <2>4, <2>5, <2>6, <2>7 DEF Answers
<1>5. CASE ~(~ok /\ reportBusy)
  <2>1. retMe' = [retMe EXCEPT ![g] = Append(@, ok)] /\ hpc' = hpc
    BY Zenon, <1>5 DEF EnqueueReturns
  <2>2. hpc'[g] = "calling" /\ retMe'[g] = Append(retMe[g], ok)
    BY <2>1 DEF CInv, TypeOK
  <2>3. /\ Len(retMe'[g]) = n + 1 /\ retMe'[g][n + 1] = ok
        /\ \A i \in 1..n : retMe'[g][i] = retMe[g][i]
    <3>1. /\ Len(Append(retMe[g], ok)) = n + 1 /\ Append(retMe[g], ok)[n + 1] = ok
          /\ \A i \in 1..n : Append(retMe[g], ok)[i] = retMe[g][i]
      BY Zenon, <1>0, ResultAppended DEF n
    <3> QED
      BY Zenon, <2>2, <3>1
  <2>4. Waits(g)' /\ Offers(g)' /\ EndedBusy(g)'
    BY <2>2 DEF Waits, Offers, EndedBusy
  <2>5. Coming(g)'
    <3> SUFFICES ASSUME NEW b \in 1..Len(req[g].calls), NEW i \in 1..Len(req[g].calls[b]),
                        Ahead(g, b, i)'
                 PROVE  /\ events'["received"][req[g].calls[b][i]] = 0
                        /\ events'["dropped"][req[g].calls[b][i]] = 0
      BY <1>2 DEF Coming, Unseen
    <3>1. i \in Nat
      BY ServingShape
    <3>2. b > call[g] \/ (b = call[g] /\ i > n + 1)
      BY <1>0, <1>2, <2>2, <2>3, <3>1 DEF Ahead
    <3> QED
      BY <1>1, <3>2
  <2>6. Told(g)'
    <3> SUFFICES /\ Len(retMe'[g]) <= Len(Batch(g))
                 /\ \A i \in 1..Len(retMe'[g]) :
                      /\ events'["received"][Batch(g)[i]] = 1
                      /\ events'["dropped"][Batch(g)[i]] = IF retMe'[g][i] THEN 0 ELSE 1
      BY Zenon, <1>2 DEF Told
    <3>1. events'["received"][Batch(g)[n + 1]] = 1
          /\ events'["dropped"][Batch(g)[n + 1]] = IF ok THEN 0 ELSE 1
      BY <1>0
    <3>2. ASSUME NEW i \in 1..(n + 1)
          PROVE  /\ events'["received"][Batch(g)[i]] = 1
                 /\ events'["dropped"][Batch(g)[i]] = IF retMe'[g][i] THEN 0 ELSE 1
      <4>1. CASE i = n + 1
        BY <2>3, <3>1, <4>1
      <4>2. CASE i # n + 1
        <5>1. i \in 1..n
          BY <1>0, <4>2
        <5> QED
          BY <1>1, <2>3, <5>1
      <4> QED
        BY <4>1, <4>2
    <3> QED
      <4>1. Len(retMe'[g]) <= Len(Batch(g))
        BY <1>0, <2>3
      <4> QED
        BY Zenon, <2>3, <3>2, <4>1
  <2>7. Responses(g)'
    BY <1>1, <1>2, <1>3, <2>2 DEF Responses
  <2> QED
    BY <2>4, <2>5, <2>6, <2>7 DEF Answers
<1> QED
  BY <1>4, <1>5

AllAnswers == \A h \in Producers : Answers(h)

\* What another handler has of its own is not touched by a step of this one.
LEMMA OthersKeepTheirOwn ==
  ASSUME CInv, NEW g \in Producers, Handle(g), NEW h \in Producers, h # g
  PROVE  UNCHANGED Own(h)
<1> USE DEF CInv, TypeOK, QTypeOK, Own, hvars, qvars, producers
<1>1. ASSUME NEW ok \in BOOLEAN, EnqueueReturns(g, ok)
      PROVE  UNCHANGED <<hpc[h], req[h], call[h], retMe[h], oks[h]>>
  BY <1>1 DEF EnqueueReturns
<1>2. CASE RequestArrives(g) \/ GRPCResponds(g) \/ ZipkinResponds(g)
  BY <1>2 DEF RequestArrives, GRPCResponds, ZipkinResponds
<1>3. CASE JaegerResponds(g)
  BY <1>3 DEF JaegerResponds
<1>4. CASE SpanRejected(g) \/ SpanRefused(g)
  BY <1>1, <1>4 DEF SpanRejected, SpanRefused, ProduceDisabled
<1>5. CASE SpanDropped(g) \/ SpanQueued(g)
  BY <1>1, <1>5 DEF SpanDropped, SendDropped, SpanQueued, CountIn
<1>6. CASE SpanOffered(g) \/ SpanSent(g) \/ HandlerCrashes(g)
  BY <1>6 DEF SpanOffered, ProduceEnabled, SpanSent, SendAccepted, HandlerCrashes, SendOnClosed
<1> QED
  BY <1>2, <1>3, <1>4, <1>5, <1>6 DEF Handle

\* The steps that count a span, at the place the handler is at.
LEMMA CountingStep ==
  ASSUME CInv, AllAnswers, NEW g \in Producers, Handle(g), hpc[g] # "waiting",
         Len(retMe[g]) < Len(Batch(g)),
         \A s \in Items \ {Span(g)} :
           /\ events'["received"][s] = events["received"][s]
           /\ events'["dropped"][s] = events["dropped"][s],
         Answers(g)'
  PROVE  AllAnswers'
<1> SUFFICES ASSUME NEW h \in Producers, h # g PROVE Answers(h)'
  BY DEF AllAnswers
<1>1. UNCHANGED Own(h) /\ Answers(h)
  BY OthersKeepTheirOwn DEF AllAnswers
<1> QED
  BY <1>1, OthersStay

\* The steps that count nothing.
LEMMA SilentStep ==
  ASSUME CInv, AllAnswers, NEW g \in Producers, Handle(g), UNCHANGED events, Answers(g)'
  PROVE  AllAnswers'
<1> SUFFICES ASSUME NEW h \in Producers, h # g PROVE Answers(h)'
  BY DEF AllAnswers
<1>1. UNCHANGED Own(h) /\ Answers(h)
  BY OthersKeepTheirOwn DEF AllAnswers
<1> QED
  BY <1>1, AnswersStay

\* The span a handler is about to look at has not been counted.
LEMMA NextIsUnseen ==
  ASSUME CInv, NEW g \in Producers, Answers(g), AtNextSpan(g)
  PROVE  /\ hpc[g] = "calling" /\ Len(retMe[g]) < Len(Batch(g)) /\ Span(g) \in Items
         /\ events["received"][Span(g)] = 0 /\ events["dropped"][Span(g)] = 0
<1>1. hpc[g] = "calling" /\ ppc[g] = "idle" /\ Len(retMe[g]) < Len(Batch(g))
  BY DEF AtNextSpan
<1> DEFINE b == call[g]
           i == Len(retMe[g]) + 1
<1>2. /\ b \in 1..Len(req[g].calls) /\ i \in 1..Len(req[g].calls[b])
      /\ Span(g) = req[g].calls[b][i] /\ Span(g) \in Items
  BY <1>1, SpanAt, ServingShape
<1>3. Ahead(g, b, i)
  BY <1>1 DEF Ahead
<1> HIDE DEF b, i
<1>4. Unseen(req[g].calls[b][i])
  BY <1>1, <1>2, <1>3 DEF Answers, Coming
<1> QED
  BY <1>1, <1>2, <1>4 DEF Unseen

LEMMA LookedAtAnswers ==
  ASSUME CInv, AllAnswers, NEW g \in Producers, Handle(g), SpanRejected(g) \/ SpanRefused(g)
  PROVE  AllAnswers'
<1>1. /\ hpc[g] = "calling" /\ Len(retMe[g]) < Len(Batch(g)) /\ Span(g) \in Items
      /\ events["received"][Span(g)] = 0 /\ events["dropped"][Span(g)] = 0
  BY NextIsUnseen DEF SpanRejected, SpanRefused, AllAnswers
<1>2. ppc'[g] = "idle"
  BY DEF SpanRejected, SpanRefused, ProduceDisabled, AtNextSpan, qvars, producers
<1>3. One(Span(g) = Span(g)) = 1
  BY DEF One
<1>4. CASE SpanRejected(g)
  <2> DEFINE K == {"received", "rejected"}
  <2>1. Record(K, Span(g)) /\ EnqueueReturns(g, TRUE)
    BY <1>4 DEF SpanRejected
  <2>2. "received" \in Counters \cap K /\ "dropped" \in Counters \ K
    BY DEF Counters
  <2> HIDE DEF K
  <2>3. events'["received"][Span(g)] = 1 /\ events'["dropped"][Span(g)] = 0
    BY <1>1, <1>3, <2>1, <2>2, CountsOne
  <2>4. \A s \in Items \ {Span(g)} :
           /\ events'["received"][s] = events["received"][s]
           /\ events'["dropped"][s] = events["dropped"][s]
    BY <1>1, <2>1, CountsElsewhere
  <2>5. Answers(g)'
    BY <1>1, <1>2, <2>1, <2>3, <2>4, ReturnAnswers DEF AllAnswers
  <2> QED
    BY <1>1, <2>4, <2>5, CountingStep
<1>5. CASE SpanRefused(g)
  <2> DEFINE K == {"received", "dropped"}
  <2>1. Record(K, Span(g)) /\ EnqueueReturns(g, FALSE)
    BY <1>5 DEF SpanRefused
  <2>2. "received" \in Counters \cap K /\ "dropped" \in Counters \cap K
    BY DEF Counters
  <2> HIDE DEF K
  <2>3. events'["received"][Span(g)] = 1 /\ events'["dropped"][Span(g)] = 1
    BY <1>1, <1>3, <2>1, <2>2, CountsOne
  <2>4. \A s \in Items \ {Span(g)} :
           /\ events'["received"][s] = events["received"][s]
           /\ events'["dropped"][s] = events["dropped"][s]
    BY <1>1, <2>1, CountsElsewhere
  <2>5. Answers(g)'
    BY <1>1, <1>2, <2>1, <2>3, <2>4, ReturnAnswers DEF AllAnswers
  <2> QED
    BY <1>1, <2>4, <2>5, CountingStep
<1> QED
  BY <1>4, <1>5

\* What a handler inside Produce knows of its span.
LEMMA InsideProduce ==
  ASSUME CInv, AllAnswers, NEW g \in Producers, ppc[g] # "idle"
  PROVE  /\ hpc[g] = "calling" /\ Len(retMe[g]) < Len(Batch(g)) /\ Span(g) \in Items
         /\ pitem[g] = Span(g)
         /\ events["received"][Span(g)] = 1 /\ events["dropped"][Span(g)] = 0
<1>1. hpc[g] = "calling"
  BY DEF CInv, Serving
<1>2. /\ Len(retMe[g]) < Len(Batch(g)) /\ pitem[g] = Span(g)
      /\ events["received"][Span(g)] = 1 /\ events["dropped"][Span(g)] = 0
  BY DEF AllAnswers, Answers, Offers
<1> QED
  BY <1>1, <1>2, SpanAt

LEMMA DroppedAnswers ==
  ASSUME CInv, AllAnswers, NEW g \in Producers, Handle(g), SpanDropped(g)
  PROVE  AllAnswers'
<1>1. /\ hpc[g] = "calling" /\ Len(retMe[g]) < Len(Batch(g)) /\ Span(g) \in Items
      /\ pitem[g] = Span(g)
      /\ events["received"][Span(g)] = 1 /\ events["dropped"][Span(g)] = 0
  BY InsideProduce DEF SpanDropped, SendDropped
<1>2. ppc'[g] = "idle"
  BY DEF SpanDropped, SendDropped, CInv, TypeOK, QTypeOK
<1> DEFINE K == {"dropped"}
<1>3. Record(K, Span(g)) /\ EnqueueReturns(g, FALSE)
  BY <1>1 DEF SpanDropped
<1>4. /\ "received" \in Counters \ K /\ "dropped" \in Counters \cap K
      /\ One(Span(g) = Span(g)) = 1
  BY DEF Counters, One
<1> HIDE DEF K
<1>5. events'["received"][Span(g)] = 1 /\ events'["dropped"][Span(g)] = 1
  BY <1>1, <1>3, <1>4, CountsOne
<1>6. \A s \in Items \ {Span(g)} :
         /\ events'["received"][s] = events["received"][s]
         /\ events'["dropped"][s] = events["dropped"][s]
  BY <1>1, <1>3, CountsElsewhere
<1>7. Answers(g)'
  BY <1>1, <1>2, <1>3, <1>5, <1>6, ReturnAnswers DEF AllAnswers
<1> QED
  BY <1>1, <1>6, <1>7, CountingStep

LEMMA QueuedAnswers ==
  ASSUME CInv, AllAnswers, NEW g \in Producers, Handle(g), SpanQueued(g)
  PROVE  AllAnswers'
<1>1. /\ hpc[g] = "calling" /\ Len(retMe[g]) < Len(Batch(g)) /\ Span(g) \in Items
      /\ events["received"][Span(g)] = 1 /\ events["dropped"][Span(g)] = 0
  BY InsideProduce DEF SpanQueued, CountIn
<1>2. ppc'[g] = "idle" /\ EnqueueReturns(g, TRUE) /\ events' = events
  BY DEF SpanQueued, CountIn, CInv, TypeOK, QTypeOK
<1>3. Answers(g)'
  BY <1>1, <1>2, ReturnAnswers DEF AllAnswers
<1> QED
  BY <1>2, <1>3, SilentStep

LEMMA OfferedAnswers ==
  ASSUME CInv, AllAnswers, NEW g \in Producers, Handle(g), SpanOffered(g)
  PROVE  AllAnswers'
<1> DEFINE n == Len(retMe[g])
<1>1. /\ hpc[g] = "calling" /\ n < Len(Batch(g)) /\ Span(g) \in Items
      /\ events["received"][Span(g)] = 0 /\ events["dropped"][Span(g)] = 0
  BY NextIsUnseen DEF SpanOffered, AllAnswers
<1> DEFINE K == {"received"}
<1>2. Record(K, Span(g))
  BY DEF SpanOffered
<1>3. /\ "received" \in Counters \cap K /\ "dropped" \in Counters \ K
      /\ One(Span(g) = Span(g)) = 1
  BY DEF Counters, One
<1> HIDE DEF K
<1>4. events'["received"][Span(g)] = 1 /\ events'["dropped"][Span(g)] = 0
  BY <1>1, <1>2, <1>3, CountsOne
<1>5. \A s \in Items \ {Span(g)} :
         /\ events'["received"][s] = events["received"][s]
         /\ events'["dropped"][s] = events["dropped"][s]
  BY <1>1, <1>2, CountsElsewhere
<1>6. /\ UNCHANGED <<hpc, req, call, retMe, oks>>
      /\ ppc'[g] = "sending" /\ pitem'[g] = Span(g)
      /\ Batch(g)' = Batch(g) /\ Span(g)' = Span(g)
  BY DEF SpanOffered, ProduceEnabled, hvars, CInv, TypeOK, QTypeOK, Batch, Span
<1>7. Answers(g)
  BY DEF AllAnswers
<1>8. /\ \A b \in 1..Len(req[g].calls) : \A i \in 1..Len(req[g].calls[b]) :
            (b > call[g] \/ (b = call[g] /\ i > n + 1))
              => /\ events'["received"][req[g].calls[b][i]] = 0
                 /\ events'["dropped"][req[g].calls[b][i]] = 0
      /\ \A i \in 1..n : /\ events'["received"][Batch(g)[i]] = 1
                         /\ events'["dropped"][Batch(g)[i]] = IF retMe[g][i] THEN 0 ELSE 1
      /\ req[g].kind = "jaeger" =>
           \A b \in 1..Len(oks[g]) :
             oks[g][b] <=> \A i \in 1..Len(req[g].calls[b]) :
                             events'["dropped"][req[g].calls[b][i]] = 0
  BY <1>1, <1>5, <1>7, OwnPlacesStay
<1> HIDE DEF n
<1>9. Waits(g)' /\ EndedBusy(g)'
  BY <1>1, <1>6 DEF Waits, EndedBusy
<1>10. Offers(g)'
  BY <1>1, <1>4, <1>6 DEF Offers, n
<1>11. Coming(g)'
  <2> SUFFICES ASSUME NEW b \in 1..Len(req[g].calls), NEW i \in 1..Len(req[g].calls[b]),
                      Ahead(g, b, i)'
               PROVE  /\ events'["received"][req[g].calls[b][i]] = 0
                      /\ events'["dropped"][req[g].calls[b][i]] = 0
    BY <1>6 DEF Coming, Unseen
  <2>1. b > call[g] \/ (b = call[g] /\ i > n + 1)
    BY <1>6 DEF Ahead, n
  <2> QED
    BY <1>8, <2>1
<1>12. Told(g)'
  <2>1. Len(retMe[g]) <= Len(Batch(g))
    BY <1>1, <1>7 DEF Answers, Told
  <2> SUFFICES /\ Len(retMe'[g]) <= Len(Batch(g))
               /\ \A i \in 1..Len(retMe'[g]) :
                    /\ events'["received"][Batch(g)[i]] = 1
                    /\ events'["dropped"][Batch(g)[i]] = IF retMe'[g][i] THEN 0 ELSE 1
    BY Zenon, <1>6 DEF Told
  <2>2. retMe'[g] = retMe[g]
    BY <1>6
  <2> QED
    BY Zenon, <1>8, <2>1, <2>2 DEF n
<1>13. Responses(g)'
  <2>1. req[g].kind = "jaeger" => Len(oks[g]) = call[g] - 1
    BY <1>1, <1>7 DEF Answers, Responses
  <2> QED
    BY <1>1, <1>6, <1>8, <2>1 DEF Responses
<1>14. Answers(g)'
  BY <1>9, <1>10, <1>11, <1>12, <1>13 DEF Answers
<1> QED
  BY <1>1, <1>5, <1>14, CountingStep DEF n

LEMMA SentAnswers ==
  ASSUME CInv, AllAnswers, NEW g \in Producers, Handle(g), SpanSent(g)
  PROVE  AllAnswers'
<1>1. /\ UNCHANGED <<hpc, req, call, retMe, oks, pitem, events>>
      /\ ppc[g] = "sending" /\ ppc'[g] = "sent"
      /\ Batch(g)' = Batch(g) /\ Span(g)' = Span(g)
  BY DEF SpanSent, SendAccepted, hvars, CInv, TypeOK, QTypeOK, Batch, Span
<1>2. Answers(g)
  BY DEF AllAnswers
<1>3. Coming(g)'
  <2>1. \A b, i : Ahead(g, b, i)' => Ahead(g, b, i)
    BY <1>1 DEF Ahead
  <2> QED
    BY <1>1, <1>2, <2>1 DEF Answers, Coming, Unseen
<1>4. Waits(g)' /\ Offers(g)' /\ EndedBusy(g)'
  BY <1>1, <1>2 DEF Answers, Waits, Offers, EndedBusy, Unseen
<1>5. Told(g)' /\ Responses(g)'
  <2>1. retMe' = retMe /\ Batch(g)' = Batch(g) /\ hpc' = hpc /\ req' = req /\ oks' = oks
        /\ call' = call /\ events' = events
    BY <1>1
  <2>2. Told(g)'
    BY Zenon, <1>2, <2>1 DEF Answers, Told
  <2>3. Responses(g)'
    BY Zenon, <1>2, <2>1 DEF Answers, Responses
  <2> QED
    BY <2>2, <2>3
<1>6. Answers(g)'
  BY <1>3, <1>4, <1>5 DEF Answers
<1> QED
  BY <1>1, <1>6, SilentStep

LEMMA ArrivalAnswers ==
  ASSUME CInv, AllAnswers, NEW g \in Producers, Handle(g), RequestArrives(g)
  PROVE  AllAnswers'
<1>1. PICK r \in Requests[g] : req' = [req EXCEPT ![g] = r]
  BY DEF RequestArrives
<1>2. /\ hpc[g] = "waiting" /\ hpc'[g] = "calling" /\ req'[g] = r
      /\ UNCHANGED <<call, retMe, oks, ppc, pitem, events>>
      /\ ppc[g] = "idle" /\ call[g] = 1
  BY <1>1 DEF RequestArrives, qvars, producers, CInv, TypeOK, Serving
<1>3. /\ retMe[g] = <<>> /\ oks[g] = <<>>
      /\ \A b \in 1..Len(r.calls) : \A i \in 1..Len(r.calls[b]) : Unseen(r.calls[b][i])
  BY <1>2 DEF AllAnswers, Answers, Waits
<1>4. Waits(g)' /\ Offers(g)' /\ EndedBusy(g)'
  BY <1>2 DEF Waits, Offers, EndedBusy
<1>5. Coming(g)'
  BY <1>2, <1>3 DEF Coming, Unseen
<1>6. Told(g)'
  <2>1. Batch(g)' = r.calls[1] /\ Len(r.calls[1]) \in Nat
    BY <1>2, RequestShape DEF Batch
  <2> QED
    BY <1>2, <1>3, <2>1 DEF Told
<1>7. Responses(g)'
  BY <1>2, <1>3 DEF Responses
<1>8. Answers(g)'
  BY <1>4, <1>5, <1>6, <1>7 DEF Answers
<1> QED
  BY <1>2, <1>8, SilentStep

\* A handler prepares its answer, or the answer to its batch.
LEMMA RespondedAnswers ==
  ASSUME CInv, AllAnswers, NEW g \in Producers, Handle(g),
         ZipkinResponds(g) \/ GRPCResponds(g)
  PROVE  AllAnswers'
<1>1. /\ hpc[g] = "calling" /\ hpc'[g] \in {"answered", "panicked"} /\ ppc[g] = "idle"
      /\ UNCHANGED <<req, call, retMe, ppc, pitem, events>>
      /\ req[g].kind # "jaeger" /\ Batch(g)' = Batch(g)
  BY DEF ZipkinResponds, GRPCResponds, AllEnqueued, qvars, producers, CInv, TypeOK, Batch
<1>2. Answers(g)
  BY DEF AllAnswers
<1>3. Coming(g)'
  <2>1. \A b, i : Ahead(g, b, i)' => Ahead(g, b, i)
    BY <1>1 DEF Ahead
  <2> QED
    BY <1>1, <1>2, <2>1 DEF Answers, Coming, Unseen
<1>4. Waits(g)' /\ Offers(g)' /\ EndedBusy(g)' /\ Responses(g)'
  BY <1>1 DEF Waits, Offers, EndedBusy, Responses
<1>5. Told(g)'
  BY Zenon, <1>1, <1>2 DEF Answers, Told
<1>6. Answers(g)'
  BY <1>3, <1>4, <1>5 DEF Answers
<1> QED
  BY <1>1, <1>6, SilentStep

LEMMA JaegerAnswers ==
  ASSUME CInv, AllAnswers, NEW g \in Producers, Handle(g), JaegerResponds(g)
  PROVE  AllAnswers'
<1> DEFINE ok == \A i \in DOMAIN retMe[g] : retMe[g][i]
           c == call[g]
<1>1. /\ hpc[g] = "calling" /\ ppc[g] = "idle" /\ Len(retMe[g]) = Len(Batch(g))
      /\ UNCHANGED <<req, ppc, pitem, events>> /\ req[g].kind = "jaeger"
  BY DEF JaegerResponds, AllEnqueued, qvars, producers
<1>2. oks'[g] = Append(oks[g], ok)
  BY Zenon DEF JaegerResponds, CInv, TypeOK
<1>3. Answers(g)
  BY DEF AllAnswers
<1>4. /\ c \in 1..Len(req[g].calls) /\ Len(req[g].calls) \in Nat /\ oks[g] \in Seq(BOOLEAN)
      /\ retMe[g] \in Seq(BOOLEAN)
      /\ \A b \in 1..Len(req[g].calls) : Len(req[g].calls[b]) \in Nat
      /\ Len(req[g].calls[c]) = Len(retMe[g]) /\ Len(retMe[g]) \in Nat
  BY <1>1, ServingShape DEF Batch
<1>5. ok <=> \A i \in 1..Len(req[g].calls[c]) : events["dropped"][req[g].calls[c][i]] = 0
  <2>1. \A i \in 1..Len(retMe[g]) :
          events["dropped"][req[g].calls[c][i]] = IF retMe[g][i] THEN 0 ELSE 1
    BY <1>1, <1>3 DEF Answers, Told, Batch
  <2>2. DOMAIN retMe[g] = 1..Len(retMe[g]) /\ \A i \in 1..Len(retMe[g]) : retMe[g][i] \in BOOLEAN
    BY <1>4
  <2>3. \A i \in 1..Len(retMe[g]) : retMe[g][i] <=> events["dropped"][req[g].calls[c][i]] = 0
    BY <2>1, <2>2
  <2> QED
    BY Zenon, <1>4, <2>2, <2>3
<1>6. ok \in BOOLEAN
  OBVIOUS
<1> HIDE DEF ok, c
<1>7. Len(oks[g]) = c - 1 /\ Len(oks'[g]) = c
  BY <1>1, <1>2, <1>3, <1>4, <1>6 DEF Answers, Responses, c
<1>8. \A b \in 1..c :
        oks'[g][b] <=> \A i \in 1..Len(req[g].calls[b]) :
                         events["dropped"][req[g].calls[b][i]] = 0
  <2> SUFFICES ASSUME NEW b \in 1..c
               PROVE  oks'[g][b] <=> \A i \in 1..Len(req[g].calls[b]) :
                                       events["dropped"][req[g].calls[b][i]] = 0
    OBVIOUS
  <2>1. CASE b = c
    <3>1. oks'[g][b] = ok
      BY <1>2, <1>4, <1>6, <1>7, <2>1
    <3> QED
      BY Zenon, <1>5, <2>1, <3>1
  <2>2. CASE b # c
    <3>1. b \in 1..Len(oks[g])
      BY <1>4, <1>7, <2>2
    <3>2. oks'[g][b] = oks[g][b]
      BY <1>2, <1>4, <1>6, <3>1
    <3>3. oks[g][b] <=> \A i \in 1..Len(req[g].calls[b]) :
                          events["dropped"][req[g].calls[b][i]] = 0
      BY <1>1, <1>3, <3>1 DEF Answers, Responses
    <3> QED
      BY Zenon, <3>2, <3>3
  <2> QED
    BY <2>1, <2>2
<1>9. CASE c = Len(req[g].calls)
  <2>1. hpc'[g] = "answered" /\ call' = call /\ retMe' = retMe /\ Batch(g)' = Batch(g)
    BY <1>9 DEF JaegerResponds, CInv, TypeOK, Batch, c
  <2>2. Coming(g)'
    <3>1. \A b, i : Ahead(g, b, i)' => Ahead(g, b, i)
      BY <1>1, <2>1 DEF Ahead
    <3> QED
      BY <1>1, <1>3, <3>1 DEF Answers, Coming, Unseen
  <2>3. Waits(g)' /\ Offers(g)' /\ EndedBusy(g)'
    BY <1>1, <2>1 DEF Waits, Offers, EndedBusy
  <2>4. Told(g)'
    BY Zenon, <1>1, <1>3, <2>1 DEF Answers, Told
  <2>5. Responses(g)'
    BY Zenon, <1>1, <1>7, <1>8, <2>1 DEF Responses, c
  <2>6. Answers(g)'
    BY <2>2, <2>3, <2>4, <2>5 DEF Answers
  <2> QED
    BY <1>1, <2>6, SilentStep
<1>10. CASE c # Len(req[g].calls)
  <2>1. hpc' = hpc /\ call'[g] = c + 1 /\ retMe'[g] = <<>>
    BY <1>10 DEF JaegerResponds, CInv, TypeOK, c
  <2>2. c + 1 \in 1..Len(req[g].calls)
    BY <1>4, <1>10
  <2>3. Coming(g)'
    <3> SUFFICES ASSUME NEW b \in 1..Len(req[g].calls), NEW i \in 1..Len(req[g].calls[b]),
                        Ahead(g, b, i)'
                 PROVE  Unseen(req[g].calls[b][i])
      BY <1>1 DEF Coming, Unseen
    <3>1. Ahead(g, b, i)
      BY <1>4, <2>1, <2>2 DEF Ahead, c
    <3> QED
      BY <1>1, <1>3, <3>1 DEF Answers, Coming
  <2>4. Waits(g)' /\ Offers(g)' /\ EndedBusy(g)'
    BY <1>1, <2>1 DEF Waits, Offers, EndedBusy
  <2>5. Told(g)'
    <3>1. Batch(g)' = req[g].calls[c + 1]
      BY <1>1, <2>1 DEF Batch
    <3> QED
      BY <1>4, <2>1, <2>2, <3>1 DEF Told
  <2>6. Responses(g)'
    <3>1. c = (c + 1) - 1
      BY <1>4
    <3>2. hpc'[g] # "answered"
      BY <1>1, <2>1
    <3> QED
      BY Zenon, <1>1, <1>7, <1>8, <2>1, <3>1, <3>2 DEF Responses
  <2>7. Answers(g)'
    BY <2>3, <2>4, <2>5, <2>6 DEF Answers
  <2> QED
    BY <1>1, <2>7, SilentStep
<1> QED
  BY <1>9, <1>10

\* Steps of the workers, of Stop, and of a process that dies.
LEMMA QuietAnswers ==
  ASSUME CInv, AllAnswers, UNCHANGED hvars, UNCHANGED producers,
         \A s \in Items : /\ events'["received"][s] = events["received"][s]
                          /\ events'["dropped"][s] = events["dropped"][s]
  PROVE  AllAnswers'
<1> SUFFICES ASSUME NEW h \in Producers PROVE Answers(h)'
  BY DEF AllAnswers
<1>1. UNCHANGED Own(h) /\ Answers(h)
  BY DEF AllAnswers, Own, hvars, producers
<1>2. SpansOf(h) \subseteq Items
  BY DEF SpansOf
<1> QED
  BY <1>1, <1>2, AnswersStay

LEMMA AnswersStep == CInv /\ QInv /\ AllAnswers /\ [Next]_vars => AllAnswers'
<1> SUFFICES ASSUME CInv, QInv, AllAnswers, [Next]_vars PROVE AllAnswers'
  OBVIOUS
<1>1. ASSUME NEW g \in Producers, Handle(g) PROVE AllAnswers'
  <2>1. CASE HandlerCrashes(g)
    BY <2>1, QuietAnswers DEF HandlerCrashes, SendOnClosed
  <2> QED
    BY <1>1, <2>1, LookedAtAnswers, DroppedAnswers, QueuedAnswers, OfferedAnswers, SentAnswers,
       ArrivalAnswers, RespondedAnswers, JaegerAnswers DEF Handle
<1>2. ASSUME NEW w \in Consumers, Work(w) PROVE AllAnswers'
  <2>1. CASE WorkerSaves(w)
    <3>1. citem[w] \in Items
      BY <2>1 DEF WorkerSaves, CallbackReturns, CInv, TypeOK, QTypeOK, QInv, NoNilDelivered
    <3>2. PICK k \in {"savedOk", "savedErr"} : Record({k}, citem[w])
      BY <2>1 DEF WorkerSaves
    <3> DEFINE K == {k}
    <3>3. Record(K, citem[w]) /\ "received" \in Counters \ K /\ "dropped" \in Counters \ K
      BY <3>2 DEF Counters
    <3> HIDE DEF K
    <3>4. \A s \in Items : /\ events'["received"][s] = events["received"][s]
                           /\ events'["dropped"][s] = events["dropped"][s]
      BY <3>1, <3>3, CountsOne
    <3> QED
      BY <2>1, <3>4, QuietAnswers DEF WorkerSaves, CallbackReturns
  <2>2. CASE ~WorkerSaves(w)
    BY <1>2, <2>2, QuietAnswers DEF Work, WorkerReceives, Receive, WorkerCountsOut, CountOut,
                                    WorkerExits, ConsumerExits
  <2> QED
    BY <2>1, <2>2
<1>3. CASE ProcessorStarts \/ ProcessorStops
  <2>1. UNCHANGED <<hvars, events>>
    BY <1>3 DEF ProcessorStarts, ProcessorStops
  <2>2. UNCHANGED producers
    BY <1>3 DEF ProcessorStarts, StartConsumers, ProcessorStops, Stop, StopDisables, StopSignals,
                StopReleases
  <2> QED
    BY <2>1, <2>2, QuietAnswers
<1>4. CASE UNCHANGED vars
  <2>1. UNCHANGED <<hvars, events>>
    BY <1>4 DEF vars
  <2>2. UNCHANGED qvars
    BY <1>4 DEF vars
  <2>3. UNCHANGED producers
    BY <2>2 DEF qvars, producers
  <2> QED
    BY <2>1, <2>3, QuietAnswers
<1> QED
  BY <1>1, <1>2, <1>3, <1>4 DEF Next, Finished

LEMMA AnswersInit == Init => AllAnswers
<1> SUFFICES ASSUME Init, NEW h \in Producers PROVE Answers(h)
  BY DEF AllAnswers
<1>1. /\ hpc[h] = "waiting" /\ ppc[h] = "idle" /\ retMe[h] = <<>> /\ oks[h] = <<>>
      /\ \A s \in Items : events["received"][s] = 0 /\ events["dropped"][s] = 0
  BY DEF Init, QInit, Counters
<1>2. Waits(h)
  BY <1>1, RequestShape DEF Waits, Unseen
<1> QED
  BY <1>1, <1>2 DEF Answers, Coming, Offers, Told, EndedBusy, Responses

\* A span whose result is known is not before its send.
LEMMA ToldIsNotSending ==
  ASSUME CInv, AllAnswers, NEW h \in Producers, hpc[h] # "waiting",
         NEW i \in 1..Len(retMe[h])
  PROVE  Batch(h)[i] \in Items /\ Sending(Batch(h)[i]) = {}
<1> DEFINE c == call[h]
<1>1. /\ c \in 1..Len(req[h].calls) /\ Batch(h) = req[h].calls[c]
      /\ Len(retMe[h]) \in Nat /\ Len(Batch(h)) \in Nat /\ Len(retMe[h]) <= Len(Batch(h))
  BY ServingShape DEF AllAnswers, Answers, Told
<1>2. i \in 1..Len(req[h].calls[c])
  BY <1>1
<1>3. req[h].calls[c][i] \in Items
  BY <1>1, <1>2, ServingShape
<1>4. Batch(h)[i] \in Items
  BY <1>3 DEF Batch
<1>5. ASSUME NEW g \in Sending(Batch(h)[i]) PROVE FALSE
  <2>1. g \in Producers /\ ppc[g] # "idle" /\ pitem[g] = Batch(h)[i]
    BY DEF Sending
  <2>2. hpc[g] = "calling" /\ Len(retMe[g]) < Len(Batch(g)) /\ Span(g) = Batch(h)[i]
    BY <2>1, InsideProduce
  <2>3. CASE g = h
    <3>0. /\ Len(retMe[h]) < Len(Batch(h)) /\ c \in 1..Len(req[h].calls)
          /\ i \in 1..Len(req[h].calls[c]) /\ hpc[h] # "waiting"
          /\ ~(c = call[h] /\ i = Len(retMe[h]) + 1)
      BY <1>1, <1>2, <2>2, <2>3
    <3> HIDE DEF c
    <3>1. req[h].calls[c][i] \in Items \ {Span(h)}
      BY <3>0, OtherPlaces
    <3> QED
      BY <2>2, <2>3, <3>1 DEF Batch, c
  <2>4. CASE g # h
    <3>1. Batch(h)[i] \in SpansOf(h)
      <4>1. req[h].calls[c][i] \in SpansOf(h)
        BY <1>1, <1>2, <1>3 DEF SpansOf
      <4> QED
        BY <4>1 DEF Batch
    <3>2. /\ call[g] \in 1..Len(req[g].calls)
          /\ Len(retMe[g]) + 1 \in 1..Len(req[g].calls[call[g]])
          /\ Span(g) = req[g].calls[call[g]][Len(retMe[g]) + 1]
      BY <2>1, <2>2, SpanAt, ServingShape
    <3>3. Span(g) \notin SpansOf(h)
      BY <2>1, <2>2, <2>4, <3>2, HandlersAreApart
    <3> QED
      BY <2>2, <3>1, <3>3
  <2> QED
    BY <2>3, <2>4
<1> QED
  BY <1>4, <1>5

\* The balance of a span that was received and is past its send.
LEMMA OneOutcome ==
  ASSUME BInv, NEW s \in Items, events["received"][s] = 1, Sending(s) = {}
  PROVE  /\ events["dropped"][s] = 0 => events["rejected"][s] = 1 \/ Accepted(s)
         /\ events["dropped"][s] = 1 => ~Accepted(s)
<1>1. CInv /\ Balanced(s)
  BY DEF BInv
<1>2. Cardinality(Sending(s)) = 0
  BY FS_EmptySet
<1>3. /\ Cardinality(Queued(s)) \in Nat /\ Cardinality(InHand(s)) \in Nat
      /\ events["rejected"][s] \in Nat /\ events["dropped"][s] \in Nat
      /\ events["savedOk"][s] \in Nat /\ events["savedErr"][s] \in Nat
  BY <1>1, PlacesFinite DEF Counters
<1> DEFINE q == Cardinality(Queued(s))
           n == Cardinality(InHand(s))
           r == events["rejected"][s]
           d == events["dropped"][s]
           o == events["savedOk"][s]
           e == events["savedErr"][s]
<1>4. Places(s) = q + n
  BY DEF Places, Queued
<1>5. events["received"][s] = Cardinality(Sending(s)) + q + n + Done(s)
  BY <1>1 DEF Balanced
<1>6. Done(s) = r + d + o + e
  BY DEF Done
<1>7. Accepted(s) <=> q + n + o + e = 1
  BY <1>4 DEF Accepted
<1>8. q \in Nat /\ n \in Nat /\ r \in Nat /\ d \in Nat /\ o \in Nat /\ e \in Nat
  BY <1>3
<1> HIDE DEF q, n, r, d, o, e
<1>9. 1 = 0 + q + n + (r + d + o + e)
  BY <1>2, <1>5, <1>6
<1>10. (d = 0 => r = 1 \/ q + n + o + e = 1) /\ (d = 1 => q + n + o + e # 1)
  BY <1>8, <1>9
<1> QED
  BY <1>7, <1>10 DEF d, r

LEMMA AnswersAreTrue == BInv /\ AllAnswers => AnswersTruthful
<1> SUFFICES ASSUME BInv, AllAnswers, NEW h \in Producers, hpc[h] # "waiting"
             PROVE  /\ \A i \in DOMAIN retMe[h] :
                         IF retMe[h][i]
                           THEN events["rejected"][Batch(h)[i]] = 1 \/ Accepted(Batch(h)[i])
                           ELSE events["dropped"][Batch(h)[i]] = 1 /\ ~Accepted(Batch(h)[i])
                    /\ hpc[h] = "busy" =>
                         \E i \in DOMAIN Batch(h) : events["dropped"][Batch(h)[i]] = 1
                    /\ req[h].kind = "jaeger" =>
                         \A b \in DOMAIN oks[h] :
                           oks[h][b] <=> \A i \in DOMAIN req[h].calls[b] :
                                           events["dropped"][req[h].calls[b][i]] = 0
  BY DEF AnswersTruthful
<1>1. CInv /\ Answers(h)
  BY DEF BInv, AllAnswers
<1>2. ASSUME NEW i \in DOMAIN retMe[h]
      PROVE  IF retMe[h][i]
               THEN events["rejected"][Batch(h)[i]] = 1 \/ Accepted(Batch(h)[i])
               ELSE events["dropped"][Batch(h)[i]] = 1 /\ ~Accepted(Batch(h)[i])
  <2>1. i \in 1..Len(retMe[h])
    BY <1>1 DEF CInv, TypeOK
  <2>2. /\ events["received"][Batch(h)[i]] = 1
        /\ events["dropped"][Batch(h)[i]] = IF retMe[h][i] THEN 0 ELSE 1
    BY <1>1, <2>1 DEF Answers, Told
  <2>3. Batch(h)[i] \in Items /\ Sending(Batch(h)[i]) = {}
    BY <1>1, <2>1, ToldIsNotSending
  <2>4. /\ events["dropped"][Batch(h)[i]] = 0 =>
             events["rejected"][Batch(h)[i]] = 1 \/ Accepted(Batch(h)[i])
        /\ events["dropped"][Batch(h)[i]] = 1 => ~Accepted(Batch(h)[i])
    BY <2>2, <2>3, OneOutcome
  <2> QED
    BY <2>2, <2>4
<1>3. ASSUME hpc[h] = "busy"
      PROVE  \E i \in DOMAIN Batch(h) : events["dropped"][Batch(h)[i]] = 1
  <2>1. Len(retMe[h]) < Len(Batch(h)) /\ events["dropped"][Span(h)] = 1
    BY <1>1, <1>3 DEF Answers, EndedBusy
  <2>2. Len(retMe[h]) + 1 \in DOMAIN Batch(h)
    BY <1>1, <2>1, ServingShape
  <2> QED
    BY <2>1, <2>2 DEF Span
<1>4. ASSUME req[h].kind = "jaeger", NEW b \in DOMAIN oks[h]
      PROVE  oks[h][b] <=> \A i \in DOMAIN req[h].calls[b] :
                             events["dropped"][req[h].calls[b][i]] = 0
  <2>1. b \in 1..Len(oks[h])
    BY <1>1 DEF CInv, TypeOK
  <2>2. /\ Len(oks[h]) = IF hpc[h] = "answered" THEN call[h] ELSE call[h] - 1
        /\ oks[h][b] <=> \A i \in 1..Len(req[h].calls[b]) :
                           events["dropped"][req[h].calls[b][i]] = 0
    BY <1>1, <1>4, <2>1 DEF Answers, Responses
  <2>3. b \in 1..Len(req[h].calls)
    BY <1>1, <2>1, <2>2, ServingShape
  <2>4. DOMAIN req[h].calls[b] = 1..Len(req[h].calls[b])
    BY <1>1, <2>3, ServingShape
  <2> QED
    BY Zenon, <2>2, <2>4
<1> QED
  BY <1>2, <1>3, <1>4

LEMMA AInvStep == BInv /\ AllAnswers /\ [Next]_vars => (BInv /\ AllAnswers)'
BY BInvStep, AnswersStep DEF BInv, CInv

\* What a handler answers is what happened to its spans: true only for a span
\* that was rejected by the filter or accepted by the queue, false only for one
\* that was dropped and is not written, and busy only after a drop
\* (span_processor.go ProcessSpans, thrift_span_handler.go SubmitBatches).
THEOREM CollectorAnswersTruthfully == Spec => []AnswersTruthful
<1>1. Init => BInv /\ AllAnswers
  BY BalanceInit, AnswersInit
<1> QED
  BY <1>1, AInvStep, AnswersAreTrue, PTL DEF Spec

-----------------------------------------------------------------------------
(* The collector implements SpanDelivery                                   *)

\* A span is received once: no place of a request is looked at twice.
Once == \A s \in Items : events["received"][s] \in {0, 1}

\* With the balance, the span then is in one place or has one outcome.
Exact(s) ==
  /\ \A k \in Counters : events[k][s] \in {0, 1}
  /\ events["received"][s] = One(Sending(s) # {}) + One(InPipeline(s)) + Done(s)

\* So Fate reads it off without a doubt.
Tells(s) ==
  /\ \A k \in Counters : events[k][s] \in {0, 1}
  /\ Fate(s) = "unseen" <=> events["received"][s] = 0
  /\ Fate(s) = "rejected" <=> events["rejected"][s] = 1
  /\ Fate(s) = "dropped" <=> events["dropped"][s] = 1
  /\ Fate(s) = "saved" <=> events["savedOk"][s] = 1
  /\ Fate(s) = "failed" <=> events["savedErr"][s] = 1
  /\ Fate(s) = "accepted" <=> InPipeline(s)
  /\ Fate(s) = "offered" <=> Sending(s) # {}

LEMMA OnceInit == Init => Once
BY DEF Init, Once, Counters

LEMMA OnceStep == BInv /\ AllAnswers /\ Once /\ [Next]_vars => Once'
<1> SUFFICES ASSUME BInv, AllAnswers, Once, [Next]_vars PROVE Once'
  OBVIOUS
<1>0. CInv /\ \A k \in Counters : events[k] \in [Items -> Nat]
  BY DEF BInv, CInv, TypeOK
<1>1. ASSUME NEW h \in Producers, SpanRejected(h) \/ SpanRefused(h) \/ SpanOffered(h)
      PROVE  Once'
  <2>1. Span(h) \in Items /\ events["received"][Span(h)] = 0
    BY <1>0, <1>1, NextIsUnseen DEF SpanRejected, SpanRefused, SpanOffered, AllAnswers
  <2>2. PICK kinds : Record(kinds, Span(h))
    BY <1>1 DEF SpanRejected, SpanRefused, SpanOffered
  <2>3. ASSUME NEW s \in Items PROVE events'["received"][s] \in {0, 1}
    <3>1. CASE "received" \in kinds
      <4>1. events'["received"][s] = events["received"][s] + One(Span(h) = s)
        BY <1>0, <2>1, <2>2, <3>1, CountsOne DEF Counters
      <4> QED
        BY <2>1, <4>1 DEF Once, One
    <3>2. CASE "received" \notin kinds
      <4>1. events'["received"][s] = events["received"][s]
        BY <1>0, <2>1, <2>2, <3>2, CountsOne DEF Counters
      <4> QED
        BY <4>1 DEF Once
    <3> QED
      BY <3>1, <3>2
  <2> QED
    BY <2>3 DEF Once
<1>2. ASSUME NEW kinds, "received" \notin kinds, NEW e, Record(kinds, e) PROVE Once'
  BY <1>2 DEF Record, Counters, Once
<1>3. ASSUME UNCHANGED events PROVE Once'
  BY <1>3 DEF Once
<1>4. ASSUME NEW h \in Producers, Handle(h) PROVE Once'
  <2>1. CASE SpanDropped(h)
    BY <1>2, <2>1 DEF SpanDropped
  <2>2. CASE RequestArrives(h) \/ SpanSent(h) \/ SpanQueued(h) \/ HandlerCrashes(h)
             \/ JaegerResponds(h) \/ ZipkinResponds(h) \/ GRPCResponds(h)
    BY <1>3, <2>2 DEF RequestArrives, SpanSent, SpanQueued, HandlerCrashes, JaegerResponds,
                      ZipkinResponds, GRPCResponds
  <2> QED
    BY <1>1, <1>4, <2>1, <2>2 DEF Handle
<1>5. ASSUME NEW c \in Consumers, Work(c) PROVE Once'
  <2>1. CASE WorkerSaves(c)
    BY <1>2, <2>1 DEF WorkerSaves
  <2> QED
    BY <1>3, <1>5, <2>1 DEF Work, WorkerReceives, WorkerCountsOut, WorkerExits
<1> QED
  BY <1>3, <1>4, <1>5 DEF Next, ProcessorStarts, ProcessorStops, Finished, vars

LEMMA FatesAreExact == BInv /\ Once => \A s \in Items : Exact(s)
<1> SUFFICES ASSUME BInv, Once, NEW s \in Items PROVE Exact(s)
  OBVIOUS
<1> DEFINE g == Cardinality(Sending(s))
           q == Cardinality(Queued(s))
           n == Cardinality(InHand(s))
           r == events["received"][s]
           j == events["rejected"][s]
           d == events["dropped"][s]
           o == events["savedOk"][s]
           e == events["savedErr"][s]
<1>1. CInv /\ r = g + q + n + (j + d + o + e)
  BY DEF BInv, Balanced, Done
<1>2. /\ g \in Nat /\ q \in Nat /\ n \in Nat
      /\ j \in Nat /\ d \in Nat /\ o \in Nat /\ e \in Nat /\ r \in {0, 1}
  BY <1>1, PlacesFinite DEF Counters, Once
<1>3. /\ g = 0 <=> Sending(s) = {}
      /\ q = 0 <=> Queued(s) = {}
      /\ n = 0 <=> InHand(s) = {}
  BY <1>1, PlacesFinite, FS_EmptySet
<1>4. InPipeline(s) <=> Queued(s) # {} \/ InHand(s) # {}
  BY DEF InPipeline, Queued, InHand
<1> DEFINE b == One(InPipeline(s))
           f == One(Sending(s) # {})
<1>5. /\ b = IF q = 0 /\ n = 0 THEN 0 ELSE 1
      /\ f = IF g = 0 THEN 0 ELSE 1
  BY <1>3, <1>4 DEF One
<1> HIDE DEF g, q, n, r, j, d, o, e, b, f
<1>6. /\ r = f + b + (j + d + o + e)
      /\ j \in {0, 1} /\ d \in {0, 1} /\ o \in {0, 1} /\ e \in {0, 1}
  BY <1>1, <1>2, <1>5
<1>7. \A k \in Counters : events[k][s] \in {0, 1}
  BY <1>2, <1>6 DEF Counters, r, j, d, o, e
<1> QED
  BY <1>6, <1>7 DEF Exact, Done, r, j, d, o, e, b, f

LEMMA FatesTell == BInv /\ Once => \A s \in Items : Tells(s)
<1> SUFFICES ASSUME BInv, Once, NEW s \in Items PROVE Tells(s)
  OBVIOUS
<1>1. Exact(s)
  BY FatesAreExact
<1> DEFINE r == events["received"][s]
           j == events["rejected"][s]
           d == events["dropped"][s]
           o == events["savedOk"][s]
           e == events["savedErr"][s]
           b == InPipeline(s)
           g == Sending(s) # {}
           t == Fate(s)
<1>2. /\ r \in {0, 1} /\ j \in {0, 1} /\ d \in {0, 1} /\ o \in {0, 1} /\ e \in {0, 1}
      /\ r = One(g) + One(b) + (j + d + o + e)
  BY <1>1 DEF Exact, Counters, Done
<1>3. t = CASE r = 0 -> "unseen"
            [] j = 1 -> "rejected"
            [] d = 1 -> "dropped"
            [] o = 1 -> "saved"
            [] e = 1 -> "failed"
            [] b -> "accepted"
            [] OTHER -> "offered"
  BY DEF Fate
<1> HIDE DEF r, j, d, o, e, b, g, t
<1>4. /\ t = "unseen" <=> r = 0
      /\ t = "rejected" <=> j = 1
      /\ t = "dropped" <=> d = 1
      /\ t = "saved" <=> o = 1
      /\ t = "failed" <=> e = 1
      /\ t = "accepted" <=> b
      /\ t = "offered" <=> g
  BY <1>2, <1>3 DEF One
<1>5. \A k \in Counters : events[k][s] \in {0, 1}
  BY <1>1 DEF Exact
<1> QED
  BY <1>4, <1>5 DEF Tells, r, j, d, o, e, b, g, t

-----------------------------------------------------------------------------
(* How many spans are pending                                              *)

PendingSpans == {s \in Items : InPipeline(s)}
QueuedSpans == {items[i] : i \in 1..Len(items)}
SpansInHand == {citem[c] : c \in Consumers}

LEMMA IntervalSize ==
  ASSUME NEW n \in Nat
  PROVE  IsFiniteSet(1..n) /\ Cardinality(1..n) = n
<1>1. IsFiniteSet(1..n) /\ Cardinality(1..n) = IF 1 > n THEN 0 ELSE n - 1 + 1
  BY FS_Interval
<1> QED
  BY <1>1

LEMMA PairSize ==
  ASSUME NEW i, NEW j, i # j
  PROVE  IsFiniteSet({i, j}) /\ Cardinality({i, j}) = 2
<1>1. IsFiniteSet({i}) /\ Cardinality({i}) = 1
  BY FS_Singleton
<1>2. {i, j} = {i} \union {j} /\ j \notin {i}
  OBVIOUS
<1>3. IsFiniteSet({i} \union {j}) /\ Cardinality({i} \union {j}) = Cardinality({i}) + 1
  BY <1>1, <1>2, FS_AddElement
<1>4. Cardinality({i} \union {j}) = 2
  BY <1>1, <1>3
<1> QED
  BY <1>2, <1>3, <1>4

LEMMA QueuedSpansBound ==
  ASSUME CInv
  PROVE  IsFiniteSet(QueuedSpans) /\ Cardinality(QueuedSpans) <= Len(items)
<1> DEFINE f == [i \in 1..Len(items) |-> items[i]]
<1>1. Len(items) \in Nat
  BY DEF CInv, TypeOK, QTypeOK
<1>2. f \in Surjection(1..Len(items), QueuedSpans)
  BY DEF Surjection, QueuedSpans
<1>3. IsFiniteSet(1..Len(items)) /\ Cardinality(1..Len(items)) = Len(items)
  BY <1>1, IntervalSize
<1> HIDE DEF f
<1> QED
  BY <1>2, <1>3, FS_Surjection

LEMMA SpansInHandBound ==
  IsFiniteSet(SpansInHand) /\ Cardinality(SpansInHand) <= Cardinality(Consumers)
<1> DEFINE f == [c \in Consumers |-> citem[c]]
<1>1. f \in Surjection(Consumers, SpansInHand)
  BY DEF Surjection, SpansInHand
<1> HIDE DEF f
<1> QED
  BY <1>1, FiniteGoroutines, FS_Surjection

LEMMA PendingAtMost ==
  ASSUME CInv
  PROVE  /\ IsFiniteSet(PendingSpans)
         /\ Cardinality(PendingSpans) \in Nat
         /\ Cardinality(PendingSpans) <= Len(items) + Cardinality(Consumers)
<1>1. PendingSpans \subseteq QueuedSpans \union SpansInHand
  <2>1. DOMAIN items = 1..Len(items)
    BY DEF CInv, TypeOK, QTypeOK
  <2>2. ASSUME NEW s \in Items, InPipeline(s) PROVE s \in QueuedSpans \union SpansInHand
    BY Zenon, <2>1, <2>2 DEF InPipeline, QueuedSpans, SpansInHand
  <2> QED
    BY <2>2 DEF PendingSpans
<1> DEFINE Both == QueuedSpans \union SpansInHand
           Common == QueuedSpans \cap SpansInHand
<1>2. /\ IsFiniteSet(Both)
      /\ Cardinality(Both) = Cardinality(QueuedSpans) + Cardinality(SpansInHand)
                               - Cardinality(Common)
  BY QueuedSpansBound, SpansInHandBound, FS_Union
<1>3. IsFiniteSet(Common)
  BY QueuedSpansBound, FS_Intersection
<1>4. IsFiniteSet(PendingSpans) /\ Cardinality(PendingSpans) <= Cardinality(Both)
  BY <1>1, <1>2, FS_Subset
<1>5. /\ Cardinality(QueuedSpans) \in Nat /\ Cardinality(SpansInHand) \in Nat
      /\ Cardinality(Common) \in Nat /\ Cardinality(PendingSpans) \in Nat
      /\ Cardinality(Both) \in Nat /\ Cardinality(Consumers) \in Nat
  BY <1>2, <1>3, <1>4, QueuedSpansBound, SpansInHandBound, FiniteGoroutines, FS_CardinalityType
<1>6. Len(items) \in Nat
  BY DEF CInv, TypeOK, QTypeOK
<1> HIDE DEF Both, Common
<1> QED
  BY <1>2, <1>4, <1>5, <1>6, QueuedSpansBound, SpansInHandBound

\* No span is queued twice.
LEMMA QueuedOnce ==
  ASSUME BInv, Once, NEW s \in Items
  PROVE  Cardinality(Queued(s)) <= 1
<1> DEFINE g == Cardinality(Sending(s))
           q == Cardinality(Queued(s))
           n == Cardinality(InHand(s))
           r == events["received"][s]
           d == Done(s)
<1>1. CInv /\ r = g + q + n + d
  BY DEF BInv, Balanced
<1>2. g \in Nat /\ q \in Nat /\ n \in Nat
  BY <1>1, PlacesFinite
<1>3. d \in Nat /\ r \in {0, 1}
  BY <1>1, PlacesFinite DEF Done, Counters, Once
<1> HIDE DEF g, q, n, r, d
<1>4. q <= 1
  BY <1>1, <1>2, <1>3
<1> QED
  BY <1>4 DEF q

LEMMA PendingAtLeast ==
  ASSUME BInv, Once
  PROVE  Cardinality(PendingSpans) >= Len(items)
<1>0. CInv
  BY DEF BInv
<1>1. items \in Seq(Items) /\ Len(items) \in Nat
  BY <1>0 DEF CInv, TypeOK, QTypeOK
<1>2. ASSUME NEW i \in 1..Len(items), NEW j \in 1..Len(items), items[i] = items[j], i # j
      PROVE  FALSE
  <2> DEFINE s == items[i]
  <2>1. s \in Items
    BY <1>1
  <2>2. i \in Queued(s) /\ j \in Queued(s)
    BY <1>1, <1>2 DEF Queued
  <2> HIDE DEF s
  <2>3. IsFiniteSet(Queued(s)) /\ Cardinality(Queued(s)) \in Nat
    BY <1>0, <2>1, PlacesFinite
  <2>4. Cardinality(Queued(s)) <= 1
    BY <2>1, QueuedOnce
  <2>5. IsFiniteSet({i, j}) /\ Cardinality({i, j}) = 2
    BY <1>2, PairSize
  <2>6. Cardinality({i, j}) <= Cardinality(Queued(s))
    BY <2>2, <2>3, FS_Subset
  <2> QED
    BY <2>3, <2>4, <2>5, <2>6
<1> DEFINE f == [i \in 1..Len(items) |-> items[i]]
<1>3. f \in Injection(1..Len(items), PendingSpans)
  <2>1. \A i \in 1..Len(items) : items[i] \in PendingSpans
    BY <1>1 DEF PendingSpans, InPipeline
  <2>2. f \in [1..Len(items) -> PendingSpans]
    BY <2>1
  <2>3. \A i, j \in 1..Len(items) : f[i] = f[j] => i = j
    BY <1>2
  <2> QED
    BY <2>2, <2>3 DEF Injection, IsInjective
<1>4. IsFiniteSet(1..Len(items)) /\ Cardinality(1..Len(items)) = Len(items)
  BY <1>1, IntervalSize
<1> HIDE DEF f
<1>5. Cardinality(1..Len(items)) <= Cardinality(PendingSpans)
  BY <1>0, <1>3, PendingAtMost, FS_Injection
<1> QED
  BY <1>0, <1>1, <1>4, <1>5, PendingAtMost

-----------------------------------------------------------------------------
(* The steps                                                               *)

FateMap == [s \in Items |-> Fate(s)]

LEMMA PendingIs ==
  ASSUME BInv, Once
  PROVE  Delivery!Pending = PendingSpans
BY FatesTell DEF Tells, Delivery!Pending, PendingSpans

\* A span that is not counted and stays in its place keeps its fate.
LEMMA FateStays ==
  ASSUME NEW s, \A k \in Counters : events'[k][s] = events[k][s],
         InPipeline(s)' <=> InPipeline(s)
  PROVE  Fate(s)' = Fate(s)
BY DEF Fate, Counters

LEMMA QuietFates ==
  ASSUME UNCHANGED events, \A s \in Items : InPipeline(s)' <=> InPipeline(s)
  PROVE  FateMap' = FateMap
<1>1. \A s \in Items : Fate(s)' = Fate(s)
  BY FateStays
<1> QED
  BY <1>1 DEF FateMap

\* What a step that counts or moves one span makes of it.
LEMMA OneFateChanges ==
  ASSUME NEW e \in Items,
         \A s \in Items \ {e} : /\ \A k \in Counters : events'[k][s] = events[k][s]
                                /\ InPipeline(s)' <=> InPipeline(s)
  PROVE  FateMap' = [FateMap EXCEPT ![e] = Fate(e)']
<1>1. \A s \in Items \ {e} : Fate(s)' = Fate(s)
  BY FateStays
<1> QED
  BY <1>1 DEF FateMap

LEMMA CountsOnly ==
  ASSUME CInv, NEW e \in Items, NEW kinds, Record(kinds, e)
  PROVE  /\ \A s \in Items \ {e} : \A k \in Counters : events'[k][s] = events[k][s]
         /\ \A k \in Counters \cap kinds : events'[k][e] = events[k][e] + 1
         /\ \A k \in Counters \ kinds : events'[k][e] = events[k][e]
<1>1. ASSUME NEW s \in Items \ {e}, NEW k \in Counters PROVE events'[k][s] = events[k][s]
  <2>1. events[k][s] \in Nat /\ One(e = s) = 0
    BY DEF CInv, TypeOK, One
  <2>2. CASE k \in kinds
    BY <2>1, <2>2, CountsOne
  <2>3. CASE k \notin kinds
    BY <2>3, CountsOne
  <2> QED
    BY <2>2, <2>3
<1> QED
  BY <1>1, CountsOne DEF One

LEMMA FateMapAt == \A s \in Items : FateMap[s] = Fate(s)
BY DEF FateMap

AllTell == \A s \in Items : Tells(s)

LEMMA AllTold == BInv /\ Once => AllTell
BY FatesTell DEF AllTell

\* A step that counts one span once, and moves no other.
LEMMA FateBecomes ==
  ASSUME BInv, NEW e \in Items, NEW kinds, Record(kinds, e),
         \A s \in Items \ {e} : InPipeline(s)' <=> InPipeline(s),
         NEW f, Fate(e)' = f
  PROVE  FateMap' = [FateMap EXCEPT ![e] = f]
<1>1. \A s \in Items \ {e} : \A k \in Counters : events'[k][s] = events[k][s]
  BY CountsOnly DEF BInv
<1>2. FateMap' = [FateMap EXCEPT ![e] = Fate(e)']
  BY <1>1, OneFateChanges
<1> QED
  BY <1>2

\* A span that leaves the handlers' side, counted from 0 to 1.
LEMMA CountedOnce ==
  ASSUME BInv, Once, AllTell', NEW e \in Items, NEW kinds, NEW k \in Counters \cap kinds,
         Record(kinds, e)
  PROVE  events'[k][e] = 1
<1>1. events[k][e] \in Nat /\ events'[k][e] = events[k][e] + 1
  BY CountsOnly DEF BInv, CInv, TypeOK
<1>2. events'[k][e] \in {0, 1}
  BY DEF AllTell, Tells
<1> QED
  BY <1>1, <1>2

LEMMA LookedAtRefines ==
  ASSUME BInv, Once, AllAnswers, AllTell', NEW h \in Producers, NEW e, e = Span(h),
         SpanRejected(h) \/ SpanRefused(h)
  PROVE  e \in Items /\ (Delivery!Reject(e) \/ Delivery!Refuse(e))
<1>0. CInv
  BY DEF BInv
<1>1. /\ AtNextSpan(h) /\ UNCHANGED <<items, citem, stopped>>
  BY DEF SpanRejected, SpanRefused, ProduceDisabled, qvars
<1>2. e \in Items /\ events["received"][e] = 0
  BY <1>0, <1>1, NextIsUnseen DEF AllAnswers
<1>3. PICK k \in {"rejected", "dropped"} :
        /\ Record({"received", k}, e)
        /\ k = "rejected" \/ stopped
  BY DEF SpanRejected, SpanRefused, ProduceDisabled
<1>4. FateMap[e] = "unseen"
  <2>1. Tells(e)
    BY <1>2, AllTold DEF AllTell
  <2> QED
    BY <1>2, <2>1, FateMapAt DEF Tells
<1>5. events'[k][e] = 1
  <2> DEFINE K == {"received", k}
  <2>1. k \in Counters \cap K /\ Record(K, e)
    BY <1>3 DEF Counters
  <2> HIDE DEF K
  <2> QED
    BY <1>2, <2>1, CountedOnce
<1>6. Fate(e)' = k
  BY <1>2, <1>3, <1>5 DEF AllTell, Tells
<1>7. FateMap' = [FateMap EXCEPT ![e] = k]
  <2>1. \A s \in Items \ {e} : InPipeline(s)' <=> InPipeline(s)
    BY <1>1 DEF InPipeline
  <2> DEFINE K == {"received", k}
  <2>2. Record(K, e)
    BY <1>3
  <2> HIDE DEF K
  <2> QED
    BY <1>2, <1>6, <2>1, <2>2, FateBecomes
<1> QED
  BY <1>1, <1>2, <1>3, <1>4, <1>7
     DEF Delivery!Reject, Delivery!Refuse, Delivery!Becomes, FateMap

LEMMA OfferedRefines ==
  ASSUME BInv, Once, AllAnswers, AllTell', NEW h \in Producers, NEW e, e = Span(h),
         SpanOffered(h)
  PROVE  e \in Items /\ Delivery!Offer(e)
<1>0. CInv
  BY DEF BInv
<1>1. /\ AtNextSpan(h) /\ UNCHANGED <<items, citem, stopped>> /\ ~stopped
      /\ Record({"received"}, e)
  BY DEF SpanOffered, ProduceEnabled, channel, consumers, stopFlags
<1>2. e \in Items /\ events["received"][e] = 0
  BY <1>0, <1>1, NextIsUnseen DEF AllAnswers
<1>3. ppc'[h] = "sending" /\ pitem'[h] = e
  BY <1>0 DEF SpanOffered, ProduceEnabled, CInv, TypeOK, QTypeOK
<1>4. FateMap[e] = "unseen"
  <2>1. Tells(e)
    BY <1>2, AllTold DEF AllTell
  <2> QED
    BY <1>2, <2>1, FateMapAt DEF Tells
<1>5. Fate(e)' = "offered"
  <2>1. Sending(e)' # {}
    BY <1>3 DEF Sending
  <2> QED
    BY <1>2, <2>1 DEF AllTell, Tells
<1>6. FateMap' = [FateMap EXCEPT ![e] = "offered"]
  <2>1. \A s \in Items \ {e} : InPipeline(s)' <=> InPipeline(s)
    BY <1>1 DEF InPipeline
  <2> DEFINE K == {"received"}
  <2>2. Record(K, e)
    BY <1>1
  <2> HIDE DEF K
  <2> QED
    BY <1>2, <1>5, <2>1, <2>2, FateBecomes
<1> QED
  BY <1>1, <1>2, <1>4, <1>6 DEF Delivery!Offer, Delivery!Becomes, FateMap

\* A span in a send is offered.
LEMMA SendingIsOffered ==
  ASSUME BInv, Once, NEW h \in Producers, ppc[h] = "sending"
  PROVE  pitem[h] \in Items /\ FateMap[pitem[h]] = "offered"
<1>1. pitem[h] \in Items
  BY DEF BInv, CInv, QInv, Typed, ItemToSend
<1> DEFINE e == pitem[h]
<1>2. Sending(e) # {}
  BY DEF Sending
<1> HIDE DEF e
<1>3. CASE e \in Items
  <2>1. Tells(e)
    BY <1>3, AllTold DEF AllTell
  <2> QED
    BY <1>1, <1>2, <1>3, <2>1, FateMapAt DEF Tells, e
<1> QED
  BY <1>1, <1>3 DEF e

\* SpanDelivery's Cardinality is this module's.
LEMMA SameCardinality == \A S : Delivery!Cardinality(S) = Cardinality(S)
BY DEF Delivery!Cardinality, Cardinality

LEMMA DroppedRefines ==
  ASSUME BInv, Once, AllTell', NEW h \in Producers, NEW e, e = pitem[h], SpanDropped(h)
  PROVE  e \in Items /\ Delivery!Drop(e)
<1>0. CInv
  BY DEF BInv
<1>1. /\ ppc[h] = "sending" /\ UNCHANGED <<items, citem, stopped>>
      /\ Record({"dropped"}, e) /\ Len(items) >= Capacity
  BY DEF SpanDropped, SendDropped, channel, consumers, stopFlags
<1>2. e \in Items /\ FateMap[e] = "offered"
  BY <1>1, SendingIsOffered
<1> DEFINE K == {"dropped"}
<1>3. Record(K, e) /\ "dropped" \in Counters \cap K
  BY <1>1 DEF Counters
<1> HIDE DEF K
<1>4. Fate(e)' = "dropped"
  <2>1. events'["dropped"][e] = 1
    BY <1>2, <1>3, CountedOnce
  <2> QED
    BY <1>2, <2>1 DEF AllTell, Tells
<1>5. FateMap' = [FateMap EXCEPT ![e] = "dropped"]
  <2>1. \A s \in Items \ {e} : InPipeline(s)' <=> InPipeline(s)
    BY <1>1 DEF InPipeline
  <2> QED
    BY <1>2, <1>3, <1>4, <2>1, FateBecomes
<1>6. Cardinality(Delivery!Pending) >= Capacity
  <2>1. /\ Cardinality(PendingSpans) >= Len(items) /\ Cardinality(PendingSpans) \in Nat
        /\ Len(items) \in Nat /\ Delivery!Pending = PendingSpans
    BY <1>0, PendingAtLeast, PendingAtMost, PendingIs DEF CInv, TypeOK, QTypeOK
  <2> QED
    BY <1>1, <2>1, CapacityAssumption
<1> QED
  BY <1>1, <1>2, <1>5, <1>6, SameCardinality
     DEF Delivery!Drop, Delivery!Becomes, FateMap

LEMMA SentRefines ==
  ASSUME BInv, Once, AllTell', NEW h \in Producers, NEW e, e = pitem[h], SpanSent(h)
  PROVE  e \in Items /\ Delivery!Accept(e)
<1>0. CInv
  BY DEF BInv
<1>1. /\ ppc[h] = "sending" /\ UNCHANGED <<citem, stopped, events>>
      /\ items' = Append(items, e) /\ Len(items) < Capacity
  BY DEF SpanSent, SendAccepted, consumers, stopFlags
<1>2. e \in Items /\ FateMap[e] = "offered"
  BY <1>1, SendingIsOffered
<1>3. items \in Seq(Items) /\ Len(items) \in Nat
  BY <1>0 DEF CInv, TypeOK, QTypeOK
<1>4. Fate(e)' = "accepted"
  <2>1. InPipeline(e)'
    <3>1. Len(items) + 1 \in DOMAIN items' /\ items'[Len(items) + 1] = e
      BY <1>1, <1>2, <1>3
    <3> QED
      BY <3>1 DEF InPipeline
  <2> QED
    BY <1>2, <2>1 DEF AllTell, Tells
<1>5. FateMap' = [FateMap EXCEPT ![e] = "accepted"]
  <2>1. ASSUME NEW s \in Items \ {e} PROVE InPipeline(s)' <=> InPipeline(s)
    <3>1. /\ DOMAIN items = 1..Len(items) /\ DOMAIN items' = 1..(Len(items) + 1)
          /\ \A i \in 1..Len(items) : items'[i] = items[i]
          /\ items'[Len(items) + 1] = e
      BY <1>1, <1>2, <1>3
    <3>2. (\E i \in DOMAIN items' : items'[i] = s) <=> (\E i \in DOMAIN items : items[i] = s)
      BY <1>3, <2>1, <3>1
    <3> QED
      BY <1>1, <3>2 DEF InPipeline
  <2>2. \A s \in Items \ {e} : /\ \A k \in Counters : events'[k][s] = events[k][s]
                               /\ InPipeline(s)' <=> InPipeline(s)
    BY <1>1, <2>1
  <2>3. FateMap' = [FateMap EXCEPT ![e] = Fate(e)']
    BY <1>2, <2>2, OneFateChanges
  <2> QED
    BY <1>4, <2>3
<1>6. Cardinality(Delivery!Pending) < Capacity + Cardinality(Consumers)
  <2>1. /\ Cardinality(PendingSpans) <= Len(items) + Cardinality(Consumers)
        /\ Cardinality(PendingSpans) \in Nat /\ Cardinality(Consumers) \in Nat
        /\ Delivery!Pending = PendingSpans
    BY <1>0, PendingAtMost, PendingIs, FiniteGoroutines, FS_CardinalityType
  <2> QED
    BY <1>1, <1>3, <2>1, CapacityAssumption
<1> QED
  BY <1>1, <1>2, <1>5, <1>6, SameCardinality
     DEF Delivery!Accept, Delivery!Becomes, FateMap

LEMMA SavedRefines ==
  ASSUME BInv, Once, AllTell', NEW c \in Consumers, NEW e, e = citem[c], WorkerSaves(c)
  PROVE  e \in Items /\ Delivery!Store(e)
<1>0. CInv
  BY DEF BInv
<1>1. /\ cpc[c] = "working" /\ UNCHANGED <<items, stopped>>
      /\ citem' = [citem EXCEPT ![c] = NoItem]
  BY DEF WorkerSaves, CallbackReturns, channel, stopFlags
<1>2. PICK k \in {"savedOk", "savedErr"} : Record({k}, e)
  BY DEF WorkerSaves
<1> DEFINE K == {k}
<1>3. Record(K, e) /\ k \in Counters \cap K
  BY <1>2 DEF Counters
<1> HIDE DEF K
<1>4. e \in Items /\ FateMap[e] = "accepted"
  <2>1. e \in Items
    BY <1>0, <1>1, NilIsNoItem DEF CInv, QInv, NoNilDelivered, TypeOK, QTypeOK
  <2>2. Tells(e) /\ InPipeline(e)
    BY <2>1, AllTold DEF AllTell, InPipeline
  <2> QED
    BY <2>1, <2>2, FateMapAt DEF Tells
<1>5. Fate(e)' = IF k = "savedOk" THEN "saved" ELSE "failed"
  <2>1. events'[k][e] = 1
    BY <1>3, <1>4, CountedOnce
  <2> QED
    BY <1>2, <1>4, <2>1 DEF AllTell, Tells
<1>6. FateMap' = [FateMap EXCEPT ![e] = IF k = "savedOk" THEN "saved" ELSE "failed"]
  <2>1. ASSUME NEW s \in Items \ {e} PROVE InPipeline(s)' <=> InPipeline(s)
    BY <1>0, <1>1, <2>1, NilIsNoItem DEF InPipeline, CInv, TypeOK, QTypeOK
  <2> QED
    BY <1>3, <1>4, <1>5, <2>1, FateBecomes
<1> QED
  BY <1>1, <1>4, <1>6 DEF Delivery!Store, Delivery!Becomes, FateMap

\* A worker that takes a span from the channel leaves it pending.
LEMMA ReceivedKeepsFates ==
  ASSUME BInv, NEW c \in Consumers, WorkerReceives(c)
  PROVE  FateMap' = FateMap /\ UNCHANGED stopped
<1>0. CInv /\ UNCHANGED <<events, stopped>>
  BY DEF BInv, WorkerReceives, Receive, stopFlags
<1>1. /\ cpc[c] = "select" /\ citem[c] = NoItem
  BY DEF BInv, EmptyHands, WorkerReceives, Receive
<1>2. items \in Seq(Items) /\ Len(items) \in Nat
      /\ citem \in [Consumers -> Items \union {NoItem}]
  BY <1>0 DEF CInv, TypeOK, QTypeOK
<1>3. CASE items = <<>>
  <2>1. items' = items /\ citem' = citem
    BY <1>1, <1>2, <1>3 DEF WorkerReceives, Receive
  <2> QED
    BY <1>0, <2>1, QuietFates DEF InPipeline
<1>4. CASE items # <<>>
  <2>1. items' = Tail(items) /\ citem' = [citem EXCEPT ![c] = Head(items)]
    BY <1>4 DEF WorkerReceives, Receive
  <2>2. /\ DOMAIN items = 1..Len(items) /\ DOMAIN items' = 1..(Len(items) - 1)
        /\ 1 \in DOMAIN items /\ Head(items) = items[1]
        /\ \A i \in 1..(Len(items) - 1) : items'[i] = items[i + 1]
    BY <1>2, <1>4, <2>1
  <2>3. ASSUME NEW s \in Items PROVE InPipeline(s)' <=> InPipeline(s)
    <3>1. ASSUME NEW i \in DOMAIN items', items'[i] = s PROVE InPipeline(s)
      <4>1. i + 1 \in DOMAIN items /\ items[i + 1] = s
        BY <1>2, <2>2, <3>1
      <4> QED
        BY <4>1 DEF InPipeline
    <3>2. ASSUME NEW d \in Consumers, citem'[d] = s PROVE InPipeline(s)
      BY <1>2, <2>1, <2>2, <3>2 DEF InPipeline
    <3>3. ASSUME NEW i \in DOMAIN items, items[i] = s PROVE InPipeline(s)'
      <4>1. CASE i = 1
        <5>1. citem'[c] = s
          BY <1>2, <2>1, <2>2, <3>3, <4>1
        <5> QED
          BY <5>1 DEF InPipeline
      <4>2. CASE i # 1
        <5>1. i - 1 \in DOMAIN items' /\ items'[i - 1] = s
          BY <1>2, <2>2, <3>3, <4>2
        <5> QED
          BY <5>1 DEF InPipeline
      <4> QED
        BY <4>1, <4>2
    <3>4. ASSUME NEW d \in Consumers, citem[d] = s PROVE InPipeline(s)'
      <4>1. citem'[d] = s
        BY <1>1, <1>2, <2>1, <3>4, NilIsNoItem
      <4> QED
        BY <4>1 DEF InPipeline
    <3>5. InPipeline(s) => InPipeline(s)'
      BY <3>3, <3>4 DEF InPipeline
    <3>6. InPipeline(s)' => InPipeline(s)
      BY <3>1, <3>2 DEF InPipeline
    <3> QED
      BY <3>5, <3>6
  <2> QED
    BY <1>0, <2>3, QuietFates
<1> QED
  BY <1>3, <1>4

\* Every step of the collector is a step of SpanDelivery, or none.
LEMMA StepsRefineDelivery ==
  BInv /\ AllAnswers /\ Once /\ AllTell' /\ [Next]_vars => [Delivery!DNext]_(Delivery!dvars)
<1> SUFFICES ASSUME BInv, AllAnswers, Once, AllTell', [Next]_vars
             PROVE  [Delivery!DNext]_(Delivery!dvars)
  OBVIOUS
<1>1. ASSUME FateMap' = FateMap, UNCHANGED stopped PROVE UNCHANGED Delivery!dvars
  BY <1>1 DEF Delivery!dvars, FateMap
<1>2. ASSUME UNCHANGED <<items, citem, stopped, events>> PROVE UNCHANGED Delivery!dvars
  BY <1>1, <1>2, QuietFates DEF InPipeline
<1>3. ASSUME NEW h \in Producers, Handle(h) PROVE [Delivery!DNext]_(Delivery!dvars)
  <2>1. CASE SpanRejected(h) \/ SpanRefused(h)
    BY <2>1, LookedAtRefines DEF Delivery!DNext
  <2>2. CASE SpanOffered(h)
    BY <2>2, OfferedRefines DEF Delivery!DNext
  <2>3. CASE SpanDropped(h)
    BY <2>3, DroppedRefines DEF Delivery!DNext
  <2>4. CASE SpanSent(h)
    BY <2>4, SentRefines DEF Delivery!DNext
  <2>5. CASE RequestArrives(h) \/ SpanQueued(h) \/ HandlerCrashes(h) \/ JaegerResponds(h)
             \/ ZipkinResponds(h) \/ GRPCResponds(h)
    <3>1. UNCHANGED <<items, citem, stopped, events>>
      BY <2>5 DEF RequestArrives, SpanQueued, CountIn, HandlerCrashes, SendOnClosed,
                  JaegerResponds, ZipkinResponds, GRPCResponds, qvars, channel, stopFlags,
                  consumers
    <3> QED
      BY <1>2, <3>1
  <2> QED
    BY <1>3, <2>1, <2>2, <2>3, <2>4, <2>5 DEF Handle
<1>4. ASSUME NEW c \in Consumers, Work(c) PROVE [Delivery!DNext]_(Delivery!dvars)
  <2>1. CASE WorkerSaves(c)
    BY <2>1, SavedRefines DEF Delivery!DNext
  <2>2. CASE WorkerReceives(c)
    BY <1>1, <2>2, ReceivedKeepsFates
  <2>3. CASE WorkerCountsOut(c) \/ WorkerExits(c)
    <3>1. UNCHANGED <<items, citem, stopped, events>>
      BY <2>3 DEF WorkerCountsOut, CountOut, WorkerExits, ConsumerExits, channel, stopFlags
    <3> QED
      BY <1>2, <3>1
  <2> QED
    BY <1>4, <2>1, <2>2, <2>3 DEF Work
<1>5. ASSUME StopDisables, UNCHANGED events PROVE [Delivery!DNext]_(Delivery!dvars)
  <2>1. stopped' = TRUE /\ stopped \in BOOLEAN /\ UNCHANGED <<items, citem>>
    BY <1>5 DEF StopDisables, channel, consumers, BInv, CInv, TypeOK, QTypeOK
  <2>2. FateMap' = FateMap
    BY <1>5, <2>1, QuietFates DEF InPipeline
  <2>3. CASE stopped
    BY <1>1, <2>1, <2>2, <2>3
  <2>4. CASE ~stopped
    BY <2>1, <2>2, <2>4 DEF Delivery!DNext, Delivery!Disable, FateMap
  <2> QED
    BY <2>3, <2>4
<1>6. ASSUME ProcessorStarts \/ StopSignals \/ StopReleases \/ Finished \/ UNCHANGED vars,
             UNCHANGED events
      PROVE  [Delivery!DNext]_(Delivery!dvars)
  <2>1. UNCHANGED <<items, citem, stopped>>
    BY <1>6 DEF ProcessorStarts, StartConsumers, StopSignals, StopReleases, Finished, vars,
                qvars, channel, stopFlags, consumers
  <2> QED
    BY <1>2, <1>6, <2>1
<1> QED
  BY <1>3, <1>4, <1>5, <1>6 DEF Next, ProcessorStarts, ProcessorStops, Stop, Finished, vars

\* Each span meets the fate SpanDelivery allows it: decided once, dropped only
\* by a full or a disabled queue, accepted within the bound, written once.
THEOREM CollectorImplementsDelivery == Spec => ImplementsDelivery
<1>1. Init => BInv /\ AllAnswers /\ Once
  BY BalanceInit, AnswersInit, OnceInit
<1>2. Init => Delivery!DInit
  <2>1. ASSUME Init, NEW s \in Items PROVE Fate(s) = "unseen"
    <3>1. events["received"][s] = 0
      BY <2>1 DEF Init, Counters
    <3>2. Tells(s)
      BY <1>1, <2>1, AllTold DEF AllTell
    <3> QED
      BY <3>1, <3>2 DEF Tells
  <2>2. Init => stopped = FALSE
    BY DEF Init, QInit
  <2> QED
    BY <2>1, <2>2 DEF Delivery!DInit
<1> QED
  BY AInvStep, OnceStep, AllTold, StepsRefineDelivery, <1>1, <1>2, PTL
  DEF Spec, ImplementsDelivery, Delivery!DSpec
=============================================================================
