--------------------------- MODULE MCMemoryStore ---------------------------
EXTENDS MemoryStore, TLC

\* A Zipkin-style call whose two sides share an id, the server's clock ahead; a
\* child the server reports, from a third host; and two more traces.
Client == [trace |-> 1, id |-> 1, parent |-> 0, kind |-> "client", host |-> "h1",
           service |-> "front", op |-> "get", start |-> 10, dur |-> 8]
Server == [Client EXCEPT !.kind = "server", !.host = "h2", !.service = "back",
                         !.start = 30, !.dur = 4]
Child  == [Server EXCEPT !.id = 3, !.parent = 1, !.kind = "none", !.host = "h3",
                         !.start = 31, !.dur = 3]
Second == [Client EXCEPT !.trace = 2]
Third  == [Server EXCEPT !.trace = 3]

SpanDef == {Client, Server, Child, Second, Third}
ReaderSymmetry == Permutations(Reader)
=============================================================================
