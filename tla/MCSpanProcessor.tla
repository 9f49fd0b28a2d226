--------------------------- MODULE MCSpanProcessor --------------------------
(* Two concurrent requests for TLC: two Jaeger batches of which the filter  *)
(* rejects one span, against a gRPC or a Zipkin batch of one span.          *)
EXTENDS SpanProcessor, TLC

CONSTANTS hJaeger, hOther, w1, w2, j1, j2, j3, z1, z2

MCRequests ==
  hJaeger :> {[kind |-> "jaeger", calls |-> <<<<j1, j2>>, <<j3>>>>, slots |-> 0]}
  @@ hOther :> {[kind |-> k, calls |-> <<<<z1>>>>, slots |-> 1] : k \in {"grpc", "zipkin"}}

(* The Zipkin requests that two model spans can make: two wire spans, or    *)
(* one that is both client and server side.                                 *)
MCZipkinRequests ==
  hJaeger :> {[kind |-> "jaeger", calls |-> <<<<j1, j2>>, <<j3>>>>, slots |-> 0]}
  @@ hOther :> {[kind |-> "zipkin", calls |-> <<<<z1, z2>>>>, slots |-> n] : n \in 1..2}
=============================================================================
