--------------------------- MODULE SpanAdjusters ---------------------------
(***************************************************************************)
(* Two of the adjusters the query service applies to a trace before it     *)
(* answers (querysvc/adjusters.go): SpanIDDeduper gives Zipkin's server    *)
(* spans an id of their own, ClockSkew moves spans reported by another     *)
(* host's clock into their parent.  A trace is the sequence of its spans;  *)
(* of a span the model keeps what the adjusters read and write.            *)
(***************************************************************************)
EXTENDS Integers, Sequences, FiniteSets

NoParent == 0      \* ParentSpanID of a span without a child-of reference
NoHost == "none"   \* hostKey of a process without a usable "ip" tag

----------------------------------------------------------------------------
(* SpanIDDeduper                                                            *)

IDs(tr) == {tr[i].id : i \in DOMAIN tr}

\* Mutant: any span that has the id will do, the span itself included.
SharedWithAny(tr, id) == id \in IDs(tr)

\* isSharedWithClientSpan.
SharedWithClientSpan(tr, id) == \E i \in DOMAIN tr : tr[i].id = id /\ tr[i].kind = "client"

\* The server spans that need an id of their own.
Shared(tr) ==
    {i \in DOMAIN tr : tr[i].kind = "server" /\ SharedWithClientSpan(tr, tr[i].id)}

\* makeUniqueSpanID, called for the n-th time: the n-th id, from 1 up, that no
\* span of the trace had to begin with.
UniqueSpanID(tr, n) ==
    CHOOSE id \in 1 .. Len(tr) + n :
        /\ id \notin IDs(tr)
        /\ Cardinality((1 .. id) \ IDs(tr)) = n

NewID(tr, i) == UniqueSpanID(tr, Cardinality({j \in Shared(tr) : j <= i}))

\* oldToNewSpanIDs: of several servers with one id, the last one's new id stays.
OldToNew(tr) ==
    [id \in {tr[i].id : i \in Shared(tr)} |->
        NewID(tr, CHOOSE i \in Shared(tr) :
                    /\ tr[i].id = id
                    /\ \A j \in Shared(tr) : tr[j].id = id => j <= i)]

\* dedupeSpanIDs: the server becomes a child of the client it shared the id with;
\* then swapParentIDs hands the children of that id over to the server.
DedupeSpanIDs(tr) ==
    LET renamed == [i \in DOMAIN tr |->
            IF i \in Shared(tr)
            THEN [tr[i] EXCEPT !.id = NewID(tr, i), !.parent = tr[i].id]
            ELSE tr[i]]
        new == OldToNew(tr)
    IN  [i \in DOMAIN tr |->
            LET p == renamed[i].parent
            IN  IF p \in DOMAIN new /\ new[p] # renamed[i].id
                THEN [renamed[i] EXCEPT !.parent = new[p]]
                ELSE renamed[i]]

----------------------------------------------------------------------------
(* ClockSkew                                                                *)

\* buildNodesMap: of the spans with one id the first is a node.
Nodes(tr) == {i \in DOMAIN tr : \A j \in 1 .. i - 1 : tr[j].id # tr[i].id}

\* The nodes whose span is the parent of span i: one at most.
ParentNodes(tr, i) == {p \in Nodes(tr) : tr[p].id = tr[i].parent}

\* buildSubGraphs: no parent, or one that is not in the trace.
Roots(tr) ==
    {i \in Nodes(tr) : tr[i].parent = NoParent \/ ParentNodes(tr, i) = {}}

End(s) == s.start + s.dur
FitsIn(child, parent) == child.start >= parent.start /\ End(child) <= End(parent)

\* Mutant: the slack goes before the child whole, as if only requests took time.
SkewOneWay(child, parent) ==
    IF child.dur > parent.dur
    THEN IF child.start < parent.start THEN parent.start - child.start ELSE 0
    ELSE IF FitsIn(child, parent) THEN 0
         ELSE parent.start + 2 * (parent.dur - child.dur) - child.start

\* calculateSkew: what to add to the child's start.  A child that lasts longer
\* than its parent is only kept from starting first; one that fits is left alone;
\* any other is put in the middle of its parent.
CalculateSkew(child, parent) ==
    IF child.dur > parent.dur
    THEN IF child.start < parent.start THEN parent.start - child.start ELSE 0
    ELSE IF FitsIn(child, parent) THEN 0
         ELSE parent.start + (parent.dur - child.dur) \div 2 - child.start

Shift(s, delta) == [s EXCEPT !.start = @ + delta]

OtherHost(s, host) == s.host # host \/ s.host = NoHost

\* adjustNode for a root: nothing to compare it with.
RootSkews(tr) == [i \in Roots(tr) |-> [host |-> tr[i].host, delta |-> 0]]

\* adjustNode for a node below one whose skew is known: on its parent's host it
\* shares the parent's skew, otherwise it is compared with the parent as adjusted.
SkewBelow(tr, above, i) ==
    LET p == CHOOSE p \in ParentNodes(tr, i) : TRUE
    IN  IF OtherHost(tr[i], above[p].host)
        THEN [host |-> tr[i].host,
              delta |-> CalculateSkew(tr[i], Shift(tr[p], above[p].delta))]
        ELSE above[p]

\* One level further down.
SkewsBelow(tr, above) ==
    LET below == {i \in Nodes(tr) \ Roots(tr) : ParentNodes(tr, i) \subseteq DOMAIN above}
    IN  [i \in DOMAIN above \cup below |->
            IF i \in DOMAIN above THEN above[i] ELSE SkewBelow(tr, above, i)]

\* The skews of the nodes at most n levels below a root.  Nodes on a cycle of
\* parents are never reached.
SkewsTo(tr) ==
    LET skews[n \in 0 .. Len(tr)] ==
            IF n = 0 THEN RootSkews(tr) ELSE SkewsBelow(tr, skews[n - 1])
    IN  skews

Skews(tr) == SkewsTo(tr)[Len(tr)]

\* ClockSkew; adjustTimestamps moves the start (and the logs) of each node.
AdjustClockSkew(tr) ==
    LET skews == Skews(tr)
    IN  [i \in DOMAIN tr |-> IF i \in DOMAIN skews THEN Shift(tr[i], skews[i].delta) ELSE tr[i]]

\* The standard adjusters in their order.
Adjusted(tr) == AdjustClockSkew(DedupeSpanIDs(tr))

\* What ClockSkew is for: below a root, a span on another host than its parent
\* lies within the parent, or does not start before it when it lasts longer.
ChildrenFit(tr) ==
    \A i \in DOMAIN Skews(tr) \ Roots(tr) :
        \A p \in ParentNodes(tr, i) :
            OtherHost(tr[i], tr[p].host) =>
                IF tr[i].dur > tr[p].dur THEN tr[i].start >= tr[p].start
                ELSE FitsIn(tr[i], tr[p])
=============================================================================
