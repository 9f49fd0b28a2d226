---------------------------- MODULE SpanDelivery ----------------------------
(***************************************************************************)
(* What the collector promises about one span, whatever its goroutines do: *)
(* the span is decided once (rejected, dropped or accepted), it is dropped *)
(* only by a full or a disabled queue, it is accepted only while fewer     *)
(* than Capacity + Workers spans are pending, and an accepted span is      *)
(* written at most once.  SpanProcessor implements this specification.     *)
(***************************************************************************)
EXTENDS Naturals, FiniteSets

CONSTANTS Spans, Capacity, Workers

VARIABLES fate, disabled

dvars == <<fate, disabled>>

Fates == {"unseen", "offered", "rejected", "dropped", "accepted", "saved", "failed"}

Pending == {s \in Spans : fate[s] = "accepted"}

DInit == fate = [s \in Spans |-> "unseen"] /\ disabled = FALSE

Becomes(s, f) == fate' = [fate EXCEPT ![s] = f] /\ UNCHANGED disabled

Reject(s) == fate[s] = "unseen" /\ Becomes(s, "rejected")
Offer(s)  == fate[s] = "unseen" /\ ~disabled /\ Becomes(s, "offered")
Refuse(s) == fate[s] = "unseen" /\ disabled /\ Becomes(s, "dropped")
Drop(s)   == fate[s] = "offered" /\ Cardinality(Pending) >= Capacity /\ Becomes(s, "dropped")
Accept(s) ==
  fate[s] = "offered" /\ Cardinality(Pending) < Capacity + Workers /\ Becomes(s, "accepted")
Store(s)  == fate[s] = "accepted" /\ (Becomes(s, "saved") \/ Becomes(s, "failed"))
Disable   == ~disabled /\ disabled' = TRUE /\ UNCHANGED fate

DNext ==
  \/ \E s \in Spans : Reject(s) \/ Offer(s) \/ Refuse(s) \/ Drop(s) \/ Accept(s) \/ Store(s)
  \/ Disable

DSpec == DInit /\ [][DNext]_dvars
=============================================================================
