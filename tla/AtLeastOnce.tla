----------------------------- MODULE AtLeastOnce ----------------------------
(***************************************************************************)
(* What the ingester promises about one Kafka partition, across sessions   *)
(* and crashes: the committed offset only grows, and it grows only over    *)
(* messages that were all handled (written, or given up after their        *)
(* retries); a session handles messages in any order, none of them twice   *)
(* and none that was committed when it was assigned the partition, and     *)
(* later sessions do not begin before earlier ones.  A session assigned    *)
(* while the one before it still drains can handle again what that one     *)
(* commits in the meantime: the promise is about what was committed at the *)
(* assignment.  OffsetPipeline implements this.                            *)
(***************************************************************************)
EXTENDS Integers

CONSTANT Offsets   \* the offsets of the partition's log

VARIABLES
  handled, committed,
  from,         \* the offset committed when the present session was assigned
  handledHere   \* the messages the present session has handled

avars == <<handled, committed, from, handledHere>>

AInit == handled = {} /\ committed = -1 /\ from = -1 /\ handledHere = {}

\* A session begins.  It was assigned after the last one, and perhaps before
\* the last commits.
Resume(o) ==
  /\ from <= o /\ o <= committed
  /\ from' = o /\ handledHere' = {}
  /\ UNCHANGED <<handled, committed>>

Handle(o) ==
  /\ o > from /\ o \notin handledHere
  /\ handled' = handled \union {o} /\ handledHere' = handledHere \union {o}
  /\ UNCHANGED <<committed, from>>

Commit(o) ==
  /\ o > committed
  /\ committed + 1 .. o \subseteq handled
  /\ committed' = o
  /\ UNCHANGED <<handled, from, handledHere>>

ANext ==
  \/ \E o \in Offsets \union {-1} : Resume(o)
  \/ \E o \in Offsets : Handle(o) \/ Commit(o)

ASpec == AInit /\ [][ANext]_avars
=============================================================================
