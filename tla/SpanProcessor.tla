---------------------------- MODULE SpanProcessor ---------------------------
(***************************************************************************)
(* The collector's intake: the Jaeger, Zipkin and gRPC handlers turn a     *)
(* request into calls of ProcessSpans, which filters each span and         *)
(* produces it into the BoundedQueue; the queue's consumers sanitize and   *)
(* save the spans.  A handler goroutine is a producer of the queue, a      *)
(* worker goroutine is a consumer.                                         *)
(***************************************************************************)
EXTENDS BoundedQueue

CONSTANTS
  Requests,       \* [Producers -> set of [kind, calls, slots]]: what each may be sent
  NoRequest,
  FilterRejects,  \* the spans the configured SpanFilter rejects
  Unnamed,        \* the spans whose process has an empty service name
  BusyOptions     \* the values the ReportBusy option may have

Kinds == {"jaeger", "zipkin", "grpc"}
Counters == {"received", "rejected", "dropped", "savedOk", "savedErr"}

(* A span keeps its lack of a name on its way: the alias sanitizer replaces *)
(* a name it has an alias for, the UTF-8 sanitizer an invalid one, and the  *)
(* empty name is neither.                                                   *)

(* calls: the span lists passed to ProcessSpans, one per Jaeger batch; one *)
(* for a Zipkin request, whose wire spans become one or two spans each; one *)
(* for a gRPC request.  slots: the wire spans of a Zipkin request.          *)
ASSUME RequestsAssumption ==
  /\ \A h \in Producers : \A r \in Requests[h] :
       /\ r.kind \in Kinds
       /\ r.calls \in Seq(Seq(Items)) \ {<<>>}
       /\ r.kind # "jaeger" => Len(r.calls) = 1
       /\ r.kind = "zipkin" => r.slots <= Len(r.calls[1])
  /\ FilterRejects \subseteq Items
  /\ Unnamed \subseteq Items
  /\ BusyOptions \subseteq BOOLEAN

(* An item stands for one span of one request, whatever its content: no two *)
(* places of a request, or of the requests of two handlers, hold the same.  *)
ASSUME SpansAreDistinct ==
  \A g, h \in Producers : \A q \in Requests[g], r \in Requests[h] :
    \A b \in DOMAIN q.calls, c \in DOMAIN r.calls :
      \A i \in DOMAIN q.calls[b], j \in DOMAIN r.calls[c] :
        q.calls[b][i] = r.calls[c][j] => g = h /\ (q = r => b = c /\ i = j)

VARIABLES
  reportBusy, \* sp.reportBusy, fixed when the processor is built
  hpc,      \* each handler: "waiting", "calling", "answered", "busy", "panicked"
  req,      \* the request it serves
  call,     \* the ProcessSpans call of its request it is in
  retMe,    \* the results of that call so far
  oks,      \* the responses it has prepared
  metrics,  \* the SpanProcessorMetrics counters, by span
  events    \* history: how often each of these things happened to a span,
            \* counted by the code or not; no action's guard reads it

hvars == <<reportBusy, hpc, req, call, retMe, oks>>
tally == <<metrics, events>>
vars == <<qvars, hvars, tally>>

Batch(h) == req[h].calls[call[h]]
Span(h) == Batch(h)[Len(retMe[h]) + 1]

TypeOK ==
  /\ QTypeOK
  /\ reportBusy \in BusyOptions
  /\ hpc \in [Producers -> {"waiting", "calling", "answered", "busy", "panicked"}]
  /\ req \in [Producers -> (UNION {Requests[h] : h \in Producers}) \union {NoRequest}]
  /\ call \in [Producers -> Nat]
  /\ retMe \in [Producers -> Seq(BOOLEAN)]
  /\ oks \in [Producers -> Seq(BOOLEAN)]
  /\ metrics \in [Counters -> [Items -> Nat]]
  /\ events \in [Counters -> [Items -> Nat]]

Init ==
  /\ QInit
  /\ reportBusy \in BusyOptions
  /\ hpc = [h \in Producers |-> "waiting"]
  /\ req = [h \in Producers |-> NoRequest]
  /\ call = [h \in Producers |-> 1]
  /\ retMe = [h \in Producers |-> <<>>]
  /\ oks = [h \in Producers |-> <<>>]
  /\ metrics = [k \in Counters |-> [s \in Items |-> 0]]
  /\ events = [k \in Counters |-> [s \in Items |-> 0]]

\* ReportServiceNameForSpan returns without counting when the span has no
\* service name; the queue's drop handler counts every span.
Counted(k, s) == k = "dropped" \/ s \notin Unnamed

Count(kinds, s) ==
  metrics' = [k \in Counters |->
                IF k \in kinds /\ Counted(k, s) THEN [metrics[k] EXCEPT ![s] = @ + 1]
                                              ELSE metrics[k]]

Record(kinds, s) ==
  events' = [k \in Counters |->
               IF k \in kinds THEN [events[k] EXCEPT ![s] = @ + 1] ELSE events[k]]

Report(kinds, s) == Count(kinds, s) /\ Record(kinds, s)

-----------------------------------------------------------------------------
(* A request and ProcessSpans                                              *)

RequestArrives(h) ==
  /\ ~panicked /\ hpc[h] = "waiting"
  /\ hpc' = [hpc EXCEPT ![h] = "calling"]
  /\ \E r \in Requests[h] : req' = [req EXCEPT ![h] = r]
  /\ UNCHANGED <<qvars, reportBusy, call, retMe, oks, tally>>

AtNextSpan(h) ==
  hpc[h] = "calling" /\ ppc[h] = "idle" /\ Len(retMe[h]) < Len(Batch(h))

\* enqueueSpan returned ok: the loop goes on, unless a span was not accepted
\* and the processor reports busy: then the call and the request end with
\* ErrServerBusy, the results so far are lost and the rest is not looked at.
EnqueueReturns(h, ok) ==
  IF ~ok /\ reportBusy
    THEN hpc' = [hpc EXCEPT ![h] = "busy"] /\ UNCHANGED <<reportBusy, req, call, retMe, oks>>
    ELSE retMe' = [retMe EXCEPT ![h] = Append(@, ok)] /\ UNCHANGED <<reportBusy, hpc, req, call, oks>>

\* "as in not dropped, because it's actively rejected"
SpanRejected(h) ==
  /\ ~panicked /\ AtNextSpan(h) /\ Span(h) \in FilterRejects
  /\ Report({"received", "rejected"}, Span(h))
  /\ EnqueueReturns(h, TRUE)
  /\ UNCHANGED qvars

SpanRefused(h) ==
  /\ AtNextSpan(h) /\ Span(h) \notin FilterRejects
  /\ ProduceDisabled(h)
  /\ Report({"received", "dropped"}, Span(h))
  /\ EnqueueReturns(h, FALSE)

SpanOffered(h) ==
  /\ AtNextSpan(h) /\ Span(h) \notin FilterRejects
  /\ ProduceEnabled(h, Span(h))
  /\ Report({"received"}, Span(h))
  /\ UNCHANGED hvars

SpanSent(h) == SendAccepted(h) /\ UNCHANGED <<hvars, tally>>

SpanQueued(h) == CountIn(h) /\ EnqueueReturns(h, TRUE) /\ UNCHANGED tally

\* Mutant: onDroppedItem does not count the span.
SpanDroppedUncounted(h) ==
  /\ SendDropped(h) /\ Record({"dropped"}, pitem[h]) /\ EnqueueReturns(h, FALSE)
  /\ UNCHANGED metrics

\* Mutant: a dropped span is reported as accepted.
SpanDroppedReportedOk(h) ==
  SendDropped(h) /\ Report({"dropped"}, pitem[h]) /\ EnqueueReturns(h, TRUE)

SpanDropped(h) ==
  SendDropped(h) /\ Report({"dropped"}, pitem[h]) /\ EnqueueReturns(h, FALSE)

HandlerCrashes(h) == SendOnClosed(h) /\ UNCHANGED <<hvars, tally>>

-----------------------------------------------------------------------------
(* The handlers' answers                                                   *)

AllEnqueued(h) ==
  hpc[h] = "calling" /\ ppc[h] = "idle" /\ Len(retMe[h]) = Len(Batch(h))

\* SubmitBatches: one response per batch, ok when all its spans are.
JaegerResponds(h) ==
  /\ ~panicked /\ AllEnqueued(h) /\ req[h].kind = "jaeger"
  /\ oks' = [oks EXCEPT ![h] = Append(@, \A i \in DOMAIN retMe[h] : retMe[h][i])]
  /\ IF call[h] = Len(req[h].calls)
       THEN hpc' = [hpc EXCEPT ![h] = "answered"] /\ UNCHANGED <<call, retMe>>
       ELSE /\ call' = [call EXCEPT ![h] = @ + 1]
            /\ retMe' = [retMe EXCEPT ![h] = <<>>]
            /\ UNCHANGED hpc
  /\ UNCHANGED <<qvars, reportBusy, req, tally>>

\* SubmitZipkinBatch: a response slot per wire span, indexed by the results,
\* of which there is one per model span: one too many is out of range.
ZipkinResponds(h) ==
  /\ ~panicked /\ AllEnqueued(h) /\ req[h].kind = "zipkin"
  /\ IF Len(retMe[h]) > req[h].slots
       THEN hpc' = [hpc EXCEPT ![h] = "panicked"] /\ UNCHANGED oks
       ELSE /\ hpc' = [hpc EXCEPT ![h] = "answered"]
            /\ oks' = [oks EXCEPT ![h] = retMe[h]]
  /\ UNCHANGED <<qvars, reportBusy, req, call, retMe, tally>>

\* PostSpans: the results are ignored, the response is empty.
GRPCResponds(h) ==
  /\ ~panicked /\ AllEnqueued(h) /\ req[h].kind = "grpc"
  /\ hpc' = [hpc EXCEPT ![h] = "answered"]
  /\ UNCHANGED <<qvars, reportBusy, req, call, retMe, oks, tally>>

-----------------------------------------------------------------------------
(* The workers and the lifecycle                                           *)

WorkerReceives(c) == Receive(c) /\ UNCHANGED <<hvars, tally>>
WorkerCountsOut(c) == CountOut(c) /\ UNCHANGED <<hvars, tally>>
WorkerExits(c) == ConsumerExits(c) /\ UNCHANGED <<hvars, tally>>

\* processItemFromQueue: sanitize, then saveSpan, which only counts an error
\* of the writer: the span is not written again.
WorkerSaves(c) ==
  /\ CallbackReturns(c)
  /\ \E outcome \in {"savedOk", "savedErr"} : Report({outcome}, citem[c])
  /\ UNCHANGED hvars

ProcessorStarts == StartConsumers /\ UNCHANGED <<hvars, tally>>
ProcessorStops == Stop /\ UNCHANGED <<hvars, tally>>

Handle(h) ==
  \/ RequestArrives(h)
  \/ SpanRejected(h) \/ SpanRefused(h) \/ SpanOffered(h)
  \/ SpanSent(h) \/ SpanDropped(h) \/ SpanQueued(h) \/ HandlerCrashes(h)
  \/ JaegerResponds(h) \/ ZipkinResponds(h) \/ GRPCResponds(h)

Work(c) == WorkerReceives(c) \/ WorkerCountsOut(c) \/ WorkerSaves(c) \/ WorkerExits(c)

\* Nothing is left to do: the process is gone, or Stop is complete and every
\* request has its answer.
Finished ==
  /\ panicked \/ /\ stopper = "released"
                 /\ \A h \in Producers : hpc[h] \in {"answered", "busy", "panicked"}
  /\ UNCHANGED vars

Next ==
  \/ \E h \in Producers : Handle(h)
  \/ ProcessorStarts
  \/ \E c \in Consumers : Work(c)
  \/ ProcessorStops
  \/ Finished

\* Goroutines that can run are scheduled; that Stop is ever called is not
\* assumed, only that it goes on once it is.
Fairness ==
  /\ \A h \in Producers : WF_vars(Handle(h))
  /\ \A c \in Consumers : WF_vars(Work(c))
  /\ WF_vars(ProcessorStarts)
  /\ WF_vars(ProcessorStops /\ stopped)

Spec == Init /\ [][Next]_vars /\ Fairness

-----------------------------------------------------------------------------
(* Properties                                                              *)

InHand(s) == {c \in Consumers : citem[c] = s}
Places(s) ==
  Cardinality({i \in DOMAIN items : items[i] = s}) + Cardinality(InHand(s))

\* The counters balance: every span with a service name that is counted as
\* received is, at any moment and in any interleaving of handlers and workers,
\* in exactly one place: still before its send, in the channel, in a worker's
\* hands, or counted once as rejected, dropped or saved (with success or with
\* an error).  A span without one is in no counter but the drops, once when
\* the queue has refused it: received can fall short of dropped.
SpansBalance ==
  \A s \in Items :
    IF s \in Unnamed
      THEN /\ \A k \in Counters \ {"dropped"} : metrics[k][s] = 0
           /\ metrics["dropped"][s] = events["dropped"][s]
      ELSE metrics["received"][s] =
             Cardinality({h \in Producers : pitem[h] = s /\ ppc[h] = "sending"}) + Places(s)
             + metrics["rejected"][s] + metrics["dropped"][s]
             + metrics["savedOk"][s] + metrics["savedErr"][s]

Accepted(s) ==
  Places(s) + events["savedOk"][s] + events["savedErr"][s] = 1

\* The result a handler reports for a span is what happened to the span: true
\* means rejected by the filter or accepted by the queue, false means dropped
\* and never to be written; a busy answer means the queue really refused one
\* of the request's spans.
AnswersTruthful ==
  \A h \in {g \in Producers : hpc[g] # "waiting"} :
    /\ \A i \in DOMAIN retMe[h] :
         LET s == Batch(h)[i]
         IN  IF retMe[h][i] THEN events["rejected"][s] = 1 \/ Accepted(s)
                            ELSE events["dropped"][s] = 1 /\ ~Accepted(s)
    /\ hpc[h] = "busy" =>
         \E i \in DOMAIN Batch(h) : events["dropped"][Batch(h)[i]] = 1
    /\ req[h].kind = "jaeger" =>
         \A b \in DOMAIN oks[h] :
           LET batch == req[h].calls[b]
           IN  oks[h][b] <=> \A i \in DOMAIN batch : events["dropped"][batch[i]] = 0

InPipeline(s) ==
  (\E i \in DOMAIN items : items[i] = s) \/ (\E c \in Consumers : citem[c] = s)

Fate(s) ==
  CASE events["received"][s] = 0 -> "unseen"
    [] events["rejected"][s] = 1 -> "rejected"
    [] events["dropped"][s] = 1  -> "dropped"
    [] events["savedOk"][s] = 1  -> "saved"
    [] events["savedErr"][s] = 1 -> "failed"
    [] InPipeline(s) -> "accepted"
    [] OTHER -> "offered"

Delivery == INSTANCE SpanDelivery
  WITH Spans <- Items, Workers <- Cardinality(Consumers),
       fate <- [s \in Items |-> Fate(s)], disabled <- stopped

\* The collector implements SpanDelivery: one decision per span, at most one
\* write, drops only by a full or a disabled queue, and never more than
\* Capacity + workers spans pending.
ImplementsDelivery == Delivery!DSpec

\* Stop returns: once the producers are disabled the workers run dry and see
\* stopCh, however the random select chooses until then (or a producer that
\* was already past its check takes the process down).
StopReturns == stopped ~> (stopper = "released" \/ panicked)

\* An accepted span is written, or its write fails, unless Stop intervenes.
AcceptedIsWritten ==
  \A s \in Items :
    InPipeline(s) ~>
      (events["savedOk"][s] + events["savedErr"][s] = 1 \/ stopped)

\* The handler's test asserts one response per Zipkin span of the request: a
\* request is answered with as many responses as it has wire spans, or busy.
ZipkinAnswersEachSpan ==
  \A h \in {g \in Producers : hpc[g] # "waiting"} :
    req[h].kind = "zipkin" =>
      /\ hpc[h] # "panicked"
      /\ hpc[h] = "answered" => Len(oks[h]) = req[h].slots
=============================================================================
