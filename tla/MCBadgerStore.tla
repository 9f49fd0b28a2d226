--------------------------- MODULE MCBadgerStore ---------------------------
EXTENDS BadgerStore

\* Two services, three traces; the second trace began before the first.
Get   == [trace |-> 1, id |-> 1, service |-> "front", op |-> "get", tag |-> "red",
          start |-> 10, dur |-> 8]
Again == [Get EXCEPT !.id = 2, !.op = "put", !.start = 12, !.dur = 1]
Early == [Get EXCEPT !.trace = 2, !.start = 5]
Back  == [Get EXCEPT !.trace = 3, !.service = "back", !.start = 20]
Late  == [Get EXCEPT !.trace = 3, !.id = 4, !.start = 21]

SpanDef == {Get, Again, Early, Back, Late}

\* Searches by service, by operation and with a shorter range, with a limit, by tag,
\* by duration, and by duration alone, with a limit and without.
Search == [service |-> "front", op |-> Nothing, tag |-> Nothing, from |-> 0, to |-> 40,
           durMin |-> 0, durMax |-> 0, limit |-> 9]
QueryDef == {Search,
             [Search EXCEPT !.limit = 1],
             [Search EXCEPT !.op = "get", !.from = 6, !.to = 20],
             [Search EXCEPT !.tag = "red"],
             [Search EXCEPT !.durMin = 2, !.limit = 1],
             [Search EXCEPT !.service = Nothing, !.durMax = 5],
             [Search EXCEPT !.service = Nothing, !.durMin = 1, !.limit = 1]}
WriterSymmetry == Permutations(Writer)
=============================================================================
