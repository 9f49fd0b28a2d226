---------------------------- MODULE BadgerStore ----------------------------
(***************************************************************************)
(* The Badger span store (plugin/storage/badger/spanstore): spans and      *)
(* their index keys with a time to live, the reader's search over the      *)
(* index scans, and the cache of service and operation names.  Several     *)
(* writers store spans at once; each one's transaction, and its update of  *)
(* the cache after it, are steps of their own.  All keys of a span are     *)
(* written in one transaction with one expiry, so the index keys are       *)
(* derived from the stored spans: the indexed value, the start time and    *)
(* the trace id.  That the code strings names together without a separator *)
(* is left out: no name is the beginning of another here.                  *)
(***************************************************************************)
EXTENDS Integers, Sequences, FiniteSets, SequencesExt

CONSTANTS
    Span,        \* spans that may be written
    Writer,      \* goroutines that write them
    Query,       \* searches
    Nothing,     \* a search criterion that is not given
    TTL,         \* how long a span is kept, in ticks
    MaxTime,     \* bound: the clock
    MaxWrites,   \* bound: transactions that succeed
    MaxFaults,   \* bound: transactions that fail
    MaxRestarts  \* bound: restarts of the process

ServiceName == {s.service : s \in Span}

ASSUME SpanAssumption ==
    \A s \in Span : s.trace \in Nat /\ s.start \in Nat /\ s.dur \in Nat

\* validateQuery and setQueryDefaults: an operation or a tag comes with a service,
\* and a search asks for a service or for a duration.
ASSUME QueryAssumption ==
    \A q \in Query :
        /\ q.limit \in Nat /\ q.durMin \in Nat /\ q.durMax \in Nat
        /\ q.service = Nothing => /\ q.op = Nothing /\ q.tag = Nothing
                                  /\ q.durMin # 0 \/ q.durMax # 0

ASSUME TTLAssumption == TTL \in Nat

VARIABLES
    now,        \* the clock, in seconds
    rows,       \* stored spans, each with its expiry
    services,   \* CacheStore.services: the expiry of each service
    opNames,    \* CacheStore.operations: the expiry of each operation of each service
    updating,   \* updating[w]: the span whose names writer w has yet to cache, or {}
    writes,     \* transactions that succeeded
    faults,     \* transactions that failed
    restarts    \* restarts

cache == <<services, opNames>>
bounds == <<writes, faults, restarts>>
vars == <<now, rows, cache, updating, bounds>>

Init ==
    /\ now = 0
    /\ rows = {}
    /\ services = <<>>
    /\ opNames = <<>>
    /\ updating = [w \in Writer |-> {}]
    /\ writes = 0 /\ faults = 0 /\ restarts = 0

----------------------------------------------------------------------------
(* The writer                                                               *)

Key(s) == <<s.trace, s.start, s.id>>

\* Badger no longer returns a key once its expiry has come.
Live == {r.span : r \in {row \in rows : row.exp > now}}

\* WriteSpan, the transaction: the span and its index keys, or none of them.  The
\* primary key is the trace, the start time and the span id: a span with the same
\* key is replaced.
Transaction(w, s) ==
    /\ updating[w] = {}
    /\ \/ /\ writes < MaxWrites /\ writes' = writes + 1
          /\ rows' = {row \in rows : Key(row.span) # Key(s)}
                        \cup {[span |-> s, exp |-> now + TTL]}
          /\ UNCHANGED faults
       \/ /\ faults < MaxFaults /\ faults' = faults + 1
          /\ UNCHANGED <<rows, writes>>
    /\ updating' = [updating EXCEPT ![w] = {s}]
    /\ UNCHANGED <<now, cache, restarts>>

Extended(f, x, v) == [y \in DOMAIN f \cup {x} |-> IF y = x THEN v ELSE f[y]]

\* Mutant: a name that is already there keeps its expiry.
SetNewName(names, name) ==
    IF name \in DOMAIN names THEN names ELSE Extended(names, name, now + TTL)

\* CacheStore.Update for one of the names: it lives as long as the span, or longer.
SetName(names, name) == Extended(names, name, now + TTL)

\* CacheStore.Update, after the transaction and whether or not it succeeded.
Update(w) ==
    /\ \E s \in updating[w] :
        /\ services' = SetName(services, s.service)
        /\ opNames'  = SetName(opNames, <<s.service, s.op>>)
    /\ updating' = [updating EXCEPT ![w] = {}]
    /\ UNCHANGED <<now, rows, bounds>>

----------------------------------------------------------------------------
(* The cache of names                                                       *)

Only(f, D) == [x \in DOMAIN f \cap D |-> f[x]]

\* GetServices: those that have run out are dropped, their operations are not.
GetServices ==
    /\ services' = Only(services, {s \in DOMAIN services : services[s] > now})
    /\ services' # services
    /\ UNCHANGED <<now, rows, opNames, updating, bounds>>

\* GetOperations: a service that has run out goes with its operations; of one
\* that has not, the operations that have.
GetOperations(s) ==
    /\ s \in DOMAIN services
    /\ IF services[s] < now
       THEN /\ services' = Only(services, DOMAIN services \ {s})
            /\ opNames' = Only(opNames, {o \in DOMAIN opNames : o[1] # s})
       ELSE /\ opNames' = Only(opNames, {o \in DOMAIN opNames : o[1] = s => opNames[o] > now})
            /\ UNCHANGED services
    /\ <<services', opNames'>> # cache
    /\ UNCHANGED <<now, rows, updating, bounds>>

LatestExpiry(spans) ==
    LET exps == {row.exp : row \in {r \in rows : r.exp > now /\ r.span \in spans}}
    IN  CHOOSE e \in exps : \A f \in exps : f <= e

\* The process is killed and starts again: NewCacheStore reads the names, each with
\* its latest expiry, back from the index keys (loadServices, loadOperations).
Restart ==
    /\ restarts < MaxRestarts /\ restarts' = restarts + 1
    /\ updating' = [w \in Writer |-> {}]
    /\ services' = [s \in {r.service : r \in Live} |->
                       LatestExpiry({r \in Live : r.service = s})]
    /\ opNames'  = [o \in {<<r.service, r.op>> : r \in Live} |->
                       LatestExpiry({r \in Live : <<r.service, r.op>> = o})]
    /\ UNCHANGED <<now, rows, writes, faults>>

Tick ==
    /\ now < MaxTime
    /\ now' = now + 1
    /\ UNCHANGED <<rows, cache, updating, bounds>>

Next ==
    \/ \E w \in Writer : Update(w) \/ \E s \in Span : Transaction(w, s)
    \/ GetServices
    \/ \E s \in ServiceName : GetOperations(s)
    \/ Restart
    \/ Tick

Spec == Init /\ [][Next]_vars

----------------------------------------------------------------------------
(* The reader.  A query q has a service, an operation, a tag (each may be   *)
(* Nothing), a range from .. to of start times, bounds on the duration with *)
(* 0 for none, and the number of traces wanted.                             *)

InRange(s, q) == s.start >= q.from /\ s.start <= q.to

\* The elements of a finite set in the order that relation R puts them: the i-th
\* has i - 1 before it.
InOrder(S, R) ==
    [i \in 1 .. Cardinality(S) |->
        CHOOSE x \in S : Cardinality({y \in S : <<y, x>> \in R}) = i - 1]

ByTimeThenTrace(keys) ==
    {p \in keys \X keys :
        LET a == p[1]  b == p[2]
        IN  a[1] < b[1] \/ (a[1] = b[1] /\ a[2] < b[2])}

\* scanIndexKeys: the keys <<start, trace>> of one index value within the range,
\* in the order of the keys; indexSeeksToTraceIDs keeps their trace ids.
ScanIndexKeys(spans, q) ==
    LET keys == {<<s.start, s.trace>> : s \in {t \in spans : InRange(t, q)}}
        scan == InOrder(keys, ByTimeThenTrace(keys))
    IN  [i \in DOMAIN scan |-> scan[i][2]]

\* The index of the service, or of the operation when one is given.
ServiceScan(q) ==
    ScanIndexKeys({s \in Live : s.service = q.service /\ (q.op = Nothing \/ s.op = q.op)}, q)

\* The index of the service's tag.
TagScan(q) == ScanIndexKeys({s \in Live : s.service = q.service /\ s.tag = q.tag}, q)

\* serviceQueries and indexSeeksToTraceIDs.
ServiceQueries(q) ==
    IF q.service = Nothing THEN <<>>
    ELSE IF q.tag = Nothing THEN <<ServiceScan(q)>>
    ELSE <<ServiceScan(q), TagScan(q)>>

HasDuration(s, q) == s.dur >= q.durMin /\ (q.durMax = 0 \/ s.dur <= q.durMax)

\* scanRangeIndex: the scan starts at the smallest duration and the start of the
\* range; further on only the end of the range is looked at.
OfDuration(q) ==
    {s \in Live : /\ HasDuration(s, q) /\ s.start <= q.to
                  /\ s.dur = q.durMin => s.start >= q.from}

ByTrace(ids) == {p \in ids \X ids : p[1] < p[2]}

\* durationQueries: the trace ids are made unique and sorted.
DurationScan(q) ==
    LET ids == {s.trace : s \in OfDuration(q)}
    IN  InOrder(ids, ByTrace(ids))

DurationQueries(q) ==
    IF q.durMin = 0 /\ q.durMax = 0 THEN <<>> ELSE <<DurationScan(q)>>

\* Mutant: of two different ids the wrong one is passed over.
MergeStepSwapped(a, b, m) ==
    CASE m.k = 0 \/ m.j = 0 -> m
      [] m.k > 0 /\ m.j > 0 /\ a[m.k] > b[m.j] -> [m EXCEPT !.j = @ - 1]
      [] m.k > 0 /\ m.j > 0 /\ a[m.k] < b[m.j] -> [m EXCEPT !.k = @ - 1]
      [] OTHER -> [k |-> m.k - 1, j |-> m.j, out |-> Append(m.out, a[m.k])]

\* Mutant: an id that is only smaller counts as the same.
MergeStepLoose(a, b, m) ==
    CASE m.k = 0 \/ m.j = 0 -> m
      [] m.k > 0 /\ m.j > 0 /\ a[m.k] > b[m.j] -> [m EXCEPT !.k = @ - 1]
      [] OTHER -> [k |-> m.k - 1, j |-> m.j, out |-> Append(m.out, a[m.k])]

\* One round of sortMergeIds' loop, which walks two lists from their ends as if they
\* were in the order of the trace ids.
MergeStep(a, b, m) ==
    CASE m.k = 0 \/ m.j = 0 -> m
      [] m.k > 0 /\ m.j > 0 /\ a[m.k] > b[m.j] -> [m EXCEPT !.k = @ - 1]
      [] m.k > 0 /\ m.j > 0 /\ a[m.k] < b[m.j] -> [m EXCEPT !.j = @ - 1]
      [] OTHER -> [k |-> m.k - 1, j |-> m.j, out |-> Append(m.out, a[m.k])]

\* The loop after n rounds; each takes one from k or from j, so it is over in time.
Merging(a, b) ==
    LET merge[n \in 0 .. Len(a) + Len(b)] ==
            IF n = 0 THEN [k |-> Len(a), j |-> Len(b), out |-> <<>>]
            ELSE MergeStep(a, b, merge[n - 1])
    IN  merge

MergeJoin(a, b) == Merging(a, b)[Len(a) + Len(b)].out

\* The first i lists joined one after another.
Intersected(lists) ==
    LET joined[i \in 1 .. Len(lists)] ==
        IF i = 1 THEN lists[1] ELSE MergeJoin(joined[i - 1], lists[i])
    IN  joined

\* sortMergeIds: a single list is reversed, several are joined; the first NumTraces
\* are kept.
SortMergeIds(q, lists) ==
    LET joined == IF Len(lists) = 1 THEN Reverse(lists[1])
                  ELSE Intersected(lists)[Len(lists)]
    IN  SubSeq(joined, 1, IF q.limit < Len(joined) THEN q.limit ELSE Len(joined))

Lists(q) == ServiceQueries(q) \o DurationQueries(q)

\* FindTraceIDs, for a query that has a service or a duration.
FindTraceIDs(q) == SortMergeIds(q, Lists(q))

\* Whether span s is what query q asks for.
Meets(s, q) ==
    /\ q.service # Nothing => s.service = q.service
    /\ q.op # Nothing => s.op = q.op
    /\ q.tag # Nothing => s.tag = q.tag
    /\ HasDuration(s, q)
    /\ InRange(s, q)

----------------------------------------------------------------------------
(* Properties                                                               *)

\* The names of span s are about to be put into the cache.
InFlight(s) ==
    \E w \in Writer : \E u \in updating[w] : u.service = s.service /\ u.op = s.op

\* The names offered for a search: the service and the operation of every span
\* that can still be found are listed, to the last second of its life and after a
\* restart, whatever GetServices and GetOperations have dropped meanwhile.
LiveNamesListed ==
    \A s \in Live : ~InFlight(s) =>
        /\ s.service \in DOMAIN services /\ services[s.service] > now
        /\ <<s.service, s.op>> \in DOMAIN opNames /\ opNames[<<s.service, s.op>>] > now

Ascending(list) == \A i, j \in DOMAIN list : i < j => list[i] <= list[j]

\* The searches sortMergeIds is right about: one index alone, or two whose scans
\* happen to come in the order of the trace ids.  Index scans come in the order of
\* start times, so in general they do not, and matches are then left out.
WellOrdered(q) ==
    \/ Len(Lists(q)) = 1
    \/ Len(Lists(q)) = 2 /\ \A i \in 1 .. 2 : Ascending(Lists(q)[i])

\* Why a trace with a matching span may be left out of an answer: there are more
\* than are wanted.  Of a service's index the newest are kept; of the duration index
\* those with the greatest ids, whenever they began; of a join, any.
CrowdedOut(s, q) ==
    IF Len(Lists(q)) = 2 THEN Len(FindTraceIDs(q)) = q.limit
    ELSE IF q.service # Nothing
    THEN Cardinality({t \in Live : Meets(t, q) /\ t.start >= s.start}) > q.limit
    ELSE Cardinality({i \in {t.trace : t \in OfDuration(q)} : i >= s.trace}) > q.limit

\* Such a search finds every trace with a span that meets all its criteria, unless
\* others have crowded it out.
SearchFinds ==
    \A q \in Query : WellOrdered(q) =>
        \A s \in {t \in Live : Meets(t, q)} :
            \/ \E i \in DOMAIN FindTraceIDs(q) : FindTraceIDs(q)[i] = s.trace
            \/ CrowdedOut(s, q)

\* Spans as the index of a search's service, or operation, and of its tag give them.
OfService(s, q) == s.service = q.service /\ (q.op = Nothing \/ s.op = q.op) /\ InRange(s, q)
OfTag(s, q) == s.service = q.service /\ s.tag = q.tag /\ InRange(s, q)

\* Whatever the order of the scans, a search answers with at most as many ids as are
\* wanted, and every one is a trace that has, for each criterion of the search, a span
\* that can still be found and meets it: one of the service and operation in the
\* range, one of the service's tag in the range, one of the duration.  They need not
\* be the same span.
AnswersMeet ==
    \A q \in Query :
        LET ids == FindTraceIDs(q)
        IN  /\ Len(ids) <= q.limit
            /\ \A i \in DOMAIN ids :
                  /\ q.service # Nothing => \E s \in Live : s.trace = ids[i] /\ OfService(s, q)
                  /\ q.tag # Nothing => \E s \in Live : s.trace = ids[i] /\ OfTag(s, q)
                  /\ q.durMin # 0 \/ q.durMax # 0 => \E s \in OfDuration(q) : s.trace = ids[i]
=============================================================================
