---------------------------- MODULE MemoryStore ----------------------------
(***************************************************************************)
(* The in-memory span store (plugin/storage/memory/memory.go) and the      *)
(* query service's readers over it.  The store holds pointers: `heap` has  *)
(* one object for each trace ever begun, `traces` points from a trace id   *)
(* to its object, and a reader goes on with the object it was given when   *)
(* the trace has been evicted, or begun again, since.                      *)
(*                                                                         *)
(* The adjusters work in place on the spans of that object, after the      *)
(* store's lock has been released.  A pass of one adjuster over one object *)
(* takes a step for each test of a span, each comparison of two and each   *)
(* statement that writes one; a loop that only reads is one step.  Writes, *)
(* GetDependencies and the passes of other readers come in between.  What  *)
(* a pass makes of a trace that nobody else is at is DedupeSpanIDs and     *)
(* AdjustClockSkew of SpanAdjusters.                                       *)
(***************************************************************************)
EXTENDS SpanAdjusters

CONSTANTS
    Span,        \* spans that may be reported
    Reader,      \* concurrent queries
    Dependencies,\* the query for dependency links: it holds the store's lock
    MaxTraces,   \* the limit on stored traces; 0 is none
    MaxWrites,   \* bound: spans reported
    MaxCopies,   \* bound: how often each of them is
    MaxQueries   \* bound: queries made

NoTrace == 0
TraceID == {s.trace : s \in Span}
ServiceName == {s.service : s \in Span}

\* What a span of the store, reported or adjusted, can be.
SpanRecord ==
    [trace : TraceID, id : Nat, parent : Nat, kind : {s.kind : s \in Span},
     host : {s.host : s \in Span}, service : ServiceName, op : {s.op : s \in Span},
     start : Int, dur : Int]

ASSUME SpanAssumption == Span \subseteq SpanRecord /\ NoTrace \notin TraceID
ASSUME LimitAssumption == MaxTraces \in Nat
ASSUME ReaderAssumption == Dependencies \notin Reader

Adjuster == Reader \cup {Dependencies}

VARIABLES
    heap,        \* trace objects in the order they were begun
    traces,      \* traces[t]: the object of stored trace t
    ids,         \* the ring of trace ids, by position
    index,       \* the ring's newest position
    operations,  \* service and operation of every span written; never pruned
    held,        \* held[a]: objects a has yet to adjust
    pass,        \* pass[a]: where a's adjuster is in the first of them
    writes,      \* writes[s]: how often s was written
    queries      \* queries made

vars == <<heap, traces, ids, index, operations, held, pass, writes, queries>>
storeVars == <<traces, ids, index, operations, writes>>

\* Before SpanIDDeduper, and between it and ClockSkew.
Raw == [stage |-> "raw"]
Deduped == [stage |-> "deduped"]

Init ==
    /\ heap = <<>>
    /\ traces = <<>>
    /\ ids = [i \in 0 .. MaxTraces - 1 |-> NoTrace]
    /\ index = 0
    /\ operations = {}
    /\ held = [a \in Adjuster |-> <<>>]
    /\ pass = [a \in Adjuster |-> Raw]
    /\ writes = [s \in Span |-> 0] /\ queries = 0

\* A trace object.  The code has its spans only; the rest is history.  `raw` is
\* what was written to it.  It is orderly as long as no span comes after the first
\* adjuster has and no two passes overlap, and a pass over it is `alone` until a
\* second one or a span joins in.
Object(t) == [trace |-> t, spans |-> <<>>, raw |-> <<>>,
              seen |-> FALSE, orderly |-> TRUE, alone |-> FALSE]

\* a has begun a pass over object k, and not ended it.
At(a, k) == pass[a] \notin {Raw, Deduped} /\ Head(held[a]) = k

Reported == {s \in Span : writes[s] > 0}

Locked == held[Dependencies] # <<>>

\* Mutant: the entry the ring wraps onto is left in the map.
EvictedNone(position) == {}

\* The trace whose place in the ring is taken over.
Evicted(position) == {ids[position]} \ {NoTrace}

\* WriteSpan: the first span of a trace begins it, and at the limit the trace
\* that was begun longest ago goes.
WriteSpan(s) ==
    LET t       == s.trace
        begins  == t \notin DOMAIN traces
        limited == begins /\ MaxTraces > 0
        next    == IF limited THEN (index + 1) % MaxTraces ELSE index
        gone    == IF limited THEN Evicted(next) ELSE {}
        objects == IF begins THEN Append(heap, Object(t)) ELSE heap
        k       == IF begins THEN Len(objects) ELSE traces[t]
    IN  /\ ~Locked
        /\ writes[s] < MaxCopies /\ Cardinality(Reported \cup {s}) <= MaxWrites
        /\ writes' = [writes EXCEPT ![s] = @ + 1]
        /\ operations' = operations \cup {<<s.service, s.op>>}
        /\ index' = next
        /\ ids' = IF limited THEN [ids EXCEPT ![next] = t] ELSE ids
        /\ traces' = [u \in (DOMAIN traces \cup {t}) \ gone |->
                          IF u = t THEN k ELSE traces[u]]
        /\ heap' = [objects EXCEPT ![k].spans = Append(@, s),
                                   ![k].raw   = Append(@, s),
                                   ![k].orderly = @ /\ ~objects[k].seen,
                                   ![k].alone = FALSE]
        /\ UNCHANGED <<held, pass, queries>>

----------------------------------------------------------------------------
(* Queries                                                                  *)

Ask(a, objects) ==
    /\ ~Locked /\ held[a] = <<>> /\ queries < MaxQueries /\ objects # <<>>
    /\ held' = [held EXCEPT ![a] = objects]
    /\ queries' = queries + 1
    /\ UNCHANGED <<heap, storeVars, pass>>

\* GetTrace of the service and of the store: the pointer, whatever it points to.
GetTrace(r) == \E t \in DOMAIN traces : Ask(r, <<traces[t]>>)

\* validTrace for a query by service.
ValidTrace(k, service) ==
    \E i \in DOMAIN heap[k].spans : heap[k].spans[i].service = service

\* The objects of K in any order: Go's order over a map.
InAnyOrder(K) ==
    {objects \in [1 .. Cardinality(K) -> K] : \A k \in K : \E i \in DOMAIN objects : objects[i] = k}

\* FindTraces: every trace with a span of the service.
FindTraces(r) ==
    \E service \in ServiceName :
        LET valid == {k \in {traces[t] : t \in DOMAIN traces} : ValidTrace(k, service)}
        IN  /\ Cardinality(valid) > 1
            /\ \E objects \in InAnyOrder(valid) : Ask(r, objects)

\* GetDependencies: takes the lock and dedupes every stored trace in place; the
\* links it then reads off are left out.
GetDependencies ==
    \E objects \in InAnyOrder({traces[t] : t \in DOMAIN traces}) : Ask(Dependencies, objects)

----------------------------------------------------------------------------
(* A pass of an adjuster                                                    *)

Spans(a) == heap[Head(held[a])].spans

\* Function f with x mapped to y.
With(f, x, y) == [z \in DOMAIN f \cup {x} |-> IF z = x THEN y ELSE f[z]]

Step(a, p) == pass' = [pass EXCEPT ![a] = p]

\* A statement that writes field f of span i.
Set(a, i, f, value) == heap' = [heap EXCEPT ![Head(held[a])].spans[i][f] = value]

Reads == UNCHANGED <<heap, storeVars, held, queries>>
Writes == UNCHANGED <<storeVars, held, queries>>

\* The history of an object whose pass a begins.
Begun(o, others) == [o EXCEPT !.seen = TRUE, !.orderly = @ /\ ~others, !.alone = ~others]

Begin(a, p) ==
    /\ LET k == Head(held[a])
       IN  heap' = [heap EXCEPT ![k] = Begun(@, \E b \in Adjuster \ {a} : At(b, k))]
    /\ Step(a, p)
    /\ Writes

\* SpanIDDeduper, with groupSpansByID: ids and kinds as they are.
GroupSpans(a) ==
    /\ pass[a] = Raw
    /\ Begin(a, [stage |-> "dedupe", at |-> 1, last |-> Len(Spans(a)), fresh |-> 0, new |-> <<>>,
                 group |-> [i \in DOMAIN Spans(a) |-> [id |-> Spans(a)[i].id, kind |-> Spans(a)[i].kind]]])

\* A loop over the spans goes to the last one there was when it was entered.
Entered(a, p) == IF p.at = 1 THEN [p EXCEPT !.last = Len(Spans(a))] ELSE p

\* The next span of the loop of dedupeSpanIDs, or the first of swapParentIDs.
NextSpan(a, p) ==
    IF p.at < p.last THEN [p EXCEPT !.stage = "dedupe", !.at = @ + 1]
    ELSE [p EXCEPT !.stage = "swap", !.at = 1, !.last = Len(Spans(a))]

\* dedupeSpanIDs, the test; makeUniqueSpanID does not run out of ids.
TestSpan(a) ==
    LET p == Entered(a, pass[a])
        s == Spans(a)[p.at]
    IN  /\ pass[a].stage = "dedupe"
        /\ Step(a, IF s.kind = "server" /\ SharedWithClientSpan(p.group, s.id)
                   THEN [p EXCEPT !.stage = "reparent", !.fresh = @ + 1]
                   ELSE NextSpan(a, p))
        /\ Reads

\* oldToNewSpanIDs and ReplaceParentID, with the id the span has by now.
ReparentSpan(a) ==
    LET p  == pass[a]
        id == Spans(a)[p.at].id
    IN  /\ p.stage = "reparent"
        /\ Set(a, p.at, "parent", id)
        /\ Step(a, [p EXCEPT !.stage = "rename",
                             !.new = With(@, id, UniqueSpanID(p.group, p.fresh))])
        /\ Writes

RenameSpan(a) ==
    LET p == pass[a]
    IN  /\ p.stage = "rename"
        /\ Set(a, p.at, "id", UniqueSpanID(p.group, p.fresh))
        /\ Step(a, NextSpan(a, p))
        /\ Writes

\* swapParentIDs; after the last span a reader's trace goes to ClockSkew.
SwapParent(a) ==
    LET p    == pass[a]
        s    == Spans(a)[p.at]
        ends == p.at = p.last
    IN  /\ p.stage = "swap"
        /\ IF s.parent \in DOMAIN p.new /\ p.new[s.parent] # s.id
           THEN Set(a, p.at, "parent", p.new[s.parent])
           ELSE UNCHANGED heap
        /\ Step(a, IF ~ends THEN [p EXCEPT !.at = @ + 1]
                   ELSE IF a = Dependencies THEN Raw ELSE Deduped)
        /\ held' = IF ends /\ a = Dependencies THEN [held EXCEPT ![a] = Tail(@)] ELSE held
        /\ UNCHANGED <<storeVars, queries>>

\* ClockSkew, with buildNodesMap: of the spans with one id the first is a node.
BuildNodes(a) ==
    /\ pass[a] = Deduped
    /\ Begin(a, [stage |-> "graph", at |-> 0, skews |-> <<>>, roots |-> {}, parent |-> <<>>,
                 nodes |-> [id \in IDs(Spans(a)) |->
                              CHOOSE i \in Nodes(Spans(a)) : Spans(a)[i].id = id]])

\* buildSubGraphs; the roots are a map by id, which takes one of those that have,
\* by now, the same.
BuildSubGraphs(a) ==
    LET p     == pass[a]
        tr    == Spans(a)
        nodes == {p.nodes[id] : id \in DOMAIN p.nodes}
        below == {i \in nodes : tr[i].parent # NoParent /\ tr[i].parent \in DOMAIN p.nodes}
    IN  /\ p.stage = "graph"
        /\ \E roots \in SUBSET (nodes \ below) :
              /\ \A i \in nodes \ below : \E j \in roots : tr[j].id = tr[i].id
              /\ \A i, j \in roots : tr[i].id = tr[j].id => i = j
              /\ Step(a, [p EXCEPT !.stage = "adjust", !.roots = roots,
                                   !.parent = [i \in below |-> p.nodes[tr[i].parent]]])
        /\ Reads

\* The nodes adjustNode can come to next: roots, in any order of the map, and the
\* children of a node that is done.  Any order with parents first is allowed; the
\* code's goes on to a node's children before its siblings.
Reachable(p) ==
    (p.roots \ DOMAIN p.skews)
    \cup {i \in DOMAIN p.parent \ DOMAIN p.skews : p.parent[i] \in DOMAIN p.skews}

\* adjustNode: the skew of a node, from the starts as they are.
CompareNode(a, i) ==
    LET p == pass[a]
        s == Spans(a)[i]
        above == p.skews[p.parent[i]]
        skew == IF i \notin DOMAIN p.parent THEN [host |-> s.host, delta |-> 0]
                ELSE IF OtherHost(s, above.host)
                THEN [host |-> s.host, delta |-> CalculateSkew(s, Spans(a)[p.parent[i]])]
                ELSE above
    IN  /\ p.stage = "adjust" /\ i \in Reachable(p)
        /\ Step(a, [p EXCEPT !.stage = "move", !.at = i, !.skews = With(@, i, skew)])
        /\ Reads

\* adjustTimestamps.
MoveNode(a) ==
    LET p == pass[a]
    IN  /\ p.stage = "move"
        /\ Set(a, p.at, "start", Spans(a)[p.at].start + p.skews[p.at].delta)
        /\ Step(a, [p EXCEPT !.stage = "adjust"])
        /\ Writes

\* The reader has its answer, and goes on to the next trace.
EndSkew(a) ==
    /\ pass[a].stage = "adjust" /\ Reachable(pass[a]) = {}
    /\ held' = [held EXCEPT ![a] = Tail(@)]
    /\ Step(a, Raw)
    /\ UNCHANGED <<heap, storeVars, queries>>

Adjust(a) ==
    /\ held[a] # <<>>
    /\ \/ GroupSpans(a) \/ TestSpan(a) \/ ReparentSpan(a) \/ RenameSpan(a) \/ SwapParent(a)
       \/ BuildNodes(a) \/ BuildSubGraphs(a) \/ MoveNode(a) \/ EndSkew(a)
       \/ \E i \in DOMAIN Spans(a) : CompareNode(a, i)

Next ==
    \/ \E s \in Span : WriteSpan(s)
    \/ \E r \in Reader : GetTrace(r) \/ FindTraces(r)
    \/ GetDependencies
    \/ \E a \in Adjuster : Adjust(a)

Spec == Init /\ [][Next]_vars

----------------------------------------------------------------------------
(* Properties                                                               *)

\* The map and the ring agree, and what is stored is the MaxTraces traces begun
\* last: no trace is lost early, none outlives its place, and one that comes back
\* after its eviction is a new trace.
RingKeepsNewest ==
    /\ \A t \in DOMAIN traces : heap[traces[t]].trace = t
    /\ MaxTraces > 0 =>
        /\ {traces[t] : t \in DOMAIN traces} =
              {k \in DOMAIN heap : k > Len(heap) - MaxTraces}
        /\ {ids[i] : i \in DOMAIN ids} \ {NoTrace} = DOMAIN traces

\* Readers and GetDependencies adjust a trace again and again, in any order.  If
\* the trace was complete when it was first read and no two passes overlapped, every
\* answer is the adjustment of what was reported: doing it again adds nothing.
AnswersSettle ==
    [][\A r \in Reader : EndSkew(r) =>
          LET o == heap[Head(held[r])]
          IN  o.orderly => o.spans = Adjusted(o.raw)]_vars

\* Whatever came before, spans that were late and passes that overlapped: after a
\* pass of ClockSkew that was alone, the spans of an answer lie within their parents.
SkewFits ==
    [][\A r \in Reader : EndSkew(r) =>
          LET o == heap[Head(held[r])]
          IN  o.alone => ChildrenFit(o.spans)]_vars
=============================================================================
