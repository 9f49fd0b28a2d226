--------------------------- MODULE OffsetPipeline ---------------------------
(***************************************************************************)
(* cmd/ingester: what becomes of the messages of one Kafka partition.  The *)
(* message handler passes them to the goroutines of a ParallelProcessor,   *)
(* each of which writes its span with retries and then inserts the offset  *)
(* into the offset manager's list; the manager's ticker marks the highest  *)
(* contiguous offset for commit.  A session ends by rebalance, inactivity  *)
(* or Close, or the process crashes.  The partition can be assigned again  *)
(* while a session still drains: the new partition consumer then has its   *)
(* resume offset already, and the main loop starts its handlers once the   *)
(* old ones are gone.                                                      *)
(***************************************************************************)
EXTENDS Integers, Sequences, FiniteSets

CONSTANTS
  Workers,         \* the goroutines of the ParallelProcessor
  LogEnd,          \* the last offset of the partition's log
  MaxAttempts,     \* retries after the first attempt
  PropagateError,  \* whether exhausted retries return the error
  MaxSessions,     \* bound on partition assignments
  MaxCrashes       \* bound on crashes

ASSUME PipelineAssumption ==
  /\ LogEnd \in Nat /\ MaxAttempts \in Nat
  /\ MaxSessions \in Nat /\ MaxCrashes \in Nat
  /\ PropagateError \in BOOLEAN

VARIABLES
  claims,         \* the partition consumers the client has made and no handler
                  \* has yet, each as the offset committed when it was made
  from,           \* that offset, for the partition consumer of the session
  handler,        \* handleMessages: "off", "select", "offering", "closing", "closed"
  started,        \* msgProcessor # nil
  next,           \* the offset the partition consumer delivers next
  message,        \* the message the handler offers to the workers
  worker,         \* each worker: "off", "idle", "processing", "succeeded", "exited"
  inHand,         \* each worker's message
  attempts,       \* each worker's retries of it
  manager,        \* the manager's loop: "off", "waiting", "computing", "marking"
  list,           \* ConcurrentList.offsets
  taken,          \* the slice setToHighestContiguous took out of the list
  highest,        \* the highest contiguous offset it computed
  lastCommitted,  \* lastCommittedOffset
  marked,         \* the offset marked with the client's newest partition consumer
  committed,      \* the offset Kafka has: the last message that is done with
  handled,        \* offsets whose span some attempt has written, or that some
                  \* worker has given up after its retries
  handledHere,    \* those of them that the session has handled itself (history)
  sessions, crashes

claimVars   == <<claims, from>>
handlerVars == <<handler, started, next, message>>
workerVars  == <<worker, inHand, attempts>>
managerVars == <<manager, list, taken, highest, lastCommitted>>
kafkaVars   == <<marked, committed>>
storeVars   == <<handled, handledHere>>
boundVars   == <<sessions, crashes>>
vars == <<claimVars, handlerVars, workerVars, managerVars, kafkaVars, storeVars, boundVars>>

Offsets == Nat \union {-1}

TypeOK ==
  /\ claims \in Seq(Offsets) /\ from \in Offsets
  /\ handler \in {"off", "select", "offering", "closing", "closed"}
  /\ started \in BOOLEAN
  /\ next \in Nat /\ message \in Offsets
  /\ worker \in [Workers -> {"off", "idle", "processing", "succeeded", "exited"}]
  /\ inHand \in [Workers -> Offsets]
  /\ attempts \in [Workers -> 0..MaxAttempts]
  /\ manager \in {"off", "waiting", "computing", "marking"}
  /\ highest \in Offsets /\ lastCommitted \in Offsets
  /\ list \subseteq Offsets /\ taken \subseteq Offsets
  /\ marked \in Offsets /\ committed \in Offsets
  /\ handled \subseteq Nat /\ handledHere \subseteq Nat
  /\ sessions \in Nat /\ crashes \in Nat

Init ==
  /\ claims = <<>> /\ from = -1
  /\ handler = "off" /\ started = FALSE /\ next = 0 /\ message = -1
  /\ worker = [w \in Workers |-> "off"]
  /\ inHand = [w \in Workers |-> -1]
  /\ attempts = [w \in Workers |-> 0]
  /\ manager = "off" /\ list = {} /\ taken = {}
  /\ highest = -1 /\ lastCommitted = -1
  /\ marked = -1 /\ committed = -1 /\ handled = {} /\ handledHere = {}
  /\ sessions = 0 /\ crashes = 0

\* Nothing is left of the session's goroutines.
SessionGone ==
  /\ handler' = "off" /\ started' = FALSE /\ next' = 0 /\ message' = -1
  /\ worker' = [w \in Workers |-> "off"]
  /\ inHand' = [w \in Workers |-> -1]
  /\ attempts' = [w \in Workers |-> 0]
  /\ manager' = "off" /\ list' = {} /\ taken' = {}
  /\ highest' = -1 /\ lastCommitted' = -1

-----------------------------------------------------------------------------
(* Assignment, and the session: handleMessages                             *)

\* Kafka assigns the partition, at any time: the client makes a partition
\* consumer that resumes after what is committed, and forgets the marks it has
\* not committed.  A session that is there goes on writing and marking, with
\* the new partition consumer, until it has drained.
Assign ==
  /\ sessions < MaxSessions
  /\ claims' = Append(claims, committed) /\ marked' = committed
  /\ sessions' = sessions + 1
  /\ UNCHANGED <<from, handlerVars, workerVars, managerVars, committed, storeVars, crashes>>

\* The main loop has waited for the last session of the partition and starts
\* the handlers of the next.
StartSession ==
  /\ handler = "off" /\ claims # <<>>
  /\ from' = Head(claims) /\ claims' = Tail(claims) /\ handledHere' = {}
  /\ handler' = "select" /\ next' = Head(claims) + 1
  /\ UNCHANGED <<started, message, workerVars, managerVars, kafkaVars, handled, boundVars>>

\* Mutant: the manager starts at the first message instead of before it.
StartProcessorAtMessage ==
  /\ started' = TRUE
  /\ list' = {next} /\ lastCommitted' = next
  /\ manager' = "waiting"
  /\ worker' = [w \in Workers |-> "idle"]
  /\ UNCHANGED <<taken, highest, inHand, attempts>>

\* The first message builds and starts the manager and the workers, with the
\* offset before it as the one everything up to is done with.
StartProcessor ==
  /\ started' = TRUE
  /\ list' = {next - 1} /\ lastCommitted' = next - 1
  /\ manager' = "waiting"
  /\ worker' = [w \in Workers |-> "idle"]
  /\ UNCHANGED <<taken, highest, inHand, attempts>>

ReadMessage ==
  /\ handler = "select" /\ next <= LogEnd
  /\ message' = next /\ next' = next + 1
  /\ handler' = "offering"
  /\ IF started THEN UNCHANGED <<started, workerVars, managerVars>> ELSE StartProcessor
  /\ UNCHANGED <<claimVars, kafkaVars, storeVars, boundVars>>

\* Process: the unbuffered send meets a worker's receive.
HandOver(w) ==
  /\ handler = "offering" /\ worker[w] = "idle"
  /\ handler' = "select" /\ message' = -1
  /\ worker' = [worker EXCEPT ![w] = "processing"]
  /\ inHand' = [inHand EXCEPT ![w] = message]
  /\ UNCHANGED <<claimVars, started, next, attempts, managerVars, kafkaVars, storeVars, boundVars>>

\* The Messages channel is closed (it is when the partition is assigned anew),
\* or the partition is inactive: handleMessages returns, and its deferred calls
\* close the processor if there is one.
EndSession ==
  /\ handler = "select"
  /\ handler' = IF started THEN "closing" ELSE "off"
  /\ UNCHANGED <<claimVars, started, next, message, workerVars, managerVars, kafkaVars,
                 storeVars, boundVars>>

-----------------------------------------------------------------------------
(* The workers: retry, write, insert                                       *)

WorkerFree(w) ==
  worker' = [worker EXCEPT ![w] = "idle"] /\ inHand' = [inHand EXCEPT ![w] = -1]

RecordHandled(o) ==
  handled' = handled \union {o} /\ handledHere' = handledHere \union {o}

\* One attempt to unmarshal and write the span succeeds.
AttemptSucceeds(w) ==
  /\ worker[w] = "processing"
  /\ RecordHandled(inHand[w])
  /\ worker' = [worker EXCEPT ![w] = "succeeded"]
  /\ attempts' = [attempts EXCEPT ![w] = 0]
  /\ UNCHANGED <<claimVars, inHand, handlerVars, managerVars, kafkaVars, boundVars>>

\* Mutant: the error of an attempt is swallowed before the retries.
AttemptFailsSilently(w) ==
  /\ worker[w] = "processing" /\ attempts[w] < MaxAttempts
  /\ worker' = [worker EXCEPT ![w] = "succeeded"]
  /\ UNCHANGED <<claimVars, attempts, inHand, handlerVars, managerVars, kafkaVars, storeVars, boundVars>>

\* It fails and there are retries left.
AttemptFails(w) ==
  /\ worker[w] = "processing" /\ attempts[w] < MaxAttempts
  /\ attempts' = [attempts EXCEPT ![w] = @ + 1]
  /\ UNCHANGED <<claimVars, worker, inHand, handlerVars, managerVars, kafkaVars, storeVars, boundVars>>

\* The last one fails.  Unless it propagates the error, the retry decorator
\* returns nil, and the committing processor cannot tell it from success.
RetriesExhausted(w) ==
  /\ worker[w] = "processing" /\ attempts[w] = MaxAttempts
  /\ RecordHandled(inHand[w])
  /\ IF PropagateError
       THEN WorkerFree(w)
       ELSE worker' = [worker EXCEPT ![w] = "succeeded"] /\ UNCHANGED inHand
  /\ attempts' = [attempts EXCEPT ![w] = 0]
  /\ UNCHANGED <<claimVars, handlerVars, managerVars, kafkaVars, boundVars>>

\* MarkOffset: the insert, under the list's mutex.
InsertOffset(w) ==
  /\ worker[w] = "succeeded"
  /\ list' = list \union {inHand[w]}
  /\ WorkerFree(w)
  /\ UNCHANGED <<claimVars, attempts, handlerVars, manager, taken, highest,
                 lastCommitted, kafkaVars, storeVars, boundVars>>

-----------------------------------------------------------------------------
(* The manager's ticker                                                    *)

\* Mutant: the highest offset, contiguous or not.
HighestOfAll(offsets, h) == \A o \in offsets : o <= h

\* getHighestContiguous(offsets): the end of the run that starts at the
\* smallest offset.
HighestContiguous(offsets, h) ==
  /\ h + 1 \notin offsets
  /\ \E lowest \in offsets :
       /\ \A o \in offsets : lowest <= o
       /\ lowest <= h /\ lowest..h \subseteq offsets

\* The tick, and the first critical section of setToHighestContiguous.  A tick
\* may still win the manager's select when m.close is closed already.
TakeList ==
  /\ manager = "waiting"
  /\ taken' = list /\ list' = {}
  /\ manager' = "computing"
  /\ UNCHANGED <<claimVars, highest, lastCommitted, handlerVars, workerVars, kafkaVars,
                 storeVars, boundVars>>

\* Mutant: the head is not kept in the list.
PutBackWithoutHead ==
  /\ manager = "computing"
  /\ \E h \in taken :
       /\ HighestContiguous(taken, h)
       /\ highest' = h
       /\ list' = list \union {o \in taken : o > h}
  /\ taken' = {}
  /\ manager' = "marking"
  /\ UNCHANGED <<claimVars, lastCommitted, handlerVars, workerVars, kafkaVars,
                 storeVars, boundVars>>

\* Mutant: the list is overwritten, with the inserts since it was taken.
PutBackOverInserts ==
  /\ manager = "computing"
  /\ \E h \in taken :
       /\ HighestContiguous(taken, h)
       /\ highest' = h
       /\ list' = {o \in taken : o >= h}
  /\ taken' = {}
  /\ manager' = "marking"
  /\ UNCHANGED <<claimVars, lastCommitted, handlerVars, workerVars, kafkaVars,
                 storeVars, boundVars>>

\* The computation, without the lock, and the second critical section.
PutBack ==
  /\ manager = "computing"
  /\ \E h \in taken :
       /\ HighestContiguous(taken, h)
       /\ highest' = h
       /\ list' = list \union {o \in taken : o >= h}
  /\ taken' = {}
  /\ manager' = "marking"
  /\ UNCHANGED <<claimVars, lastCommitted, handlerVars, workerVars, kafkaVars,
                 storeVars, boundVars>>

\* Mark, if it has changed.  The Kafka client keeps the larger offset.
Mark ==
  /\ manager = "marking"
  /\ IF highest # lastCommitted
       THEN /\ lastCommitted' = highest
            /\ marked' = IF highest > marked THEN highest ELSE marked
       ELSE UNCHANGED <<lastCommitted, marked>>
  /\ manager' = "waiting"
  /\ UNCHANGED <<claimVars, list, taken, highest, handlerVars, workerVars, committed,
                 storeVars, boundVars>>

-----------------------------------------------------------------------------
(* Closing a session, Kafka, crashes                                       *)

\* Mutant: k.closed is closed only after the wait for the workers.
WorkerExitsTooLate(w) ==
  /\ handler = "closed" /\ worker[w] = "idle"
  /\ worker' = [worker EXCEPT ![w] = "exited"]
  /\ UNCHANGED <<claimVars, inHand, attempts, handlerVars, managerVars, kafkaVars, storeVars, boundVars>>

\* The worker's select sees k.closed.
WorkerExits(w) ==
  /\ handler = "closing" /\ worker[w] = "idle"
  /\ worker' = [worker EXCEPT ![w] = "exited"]
  /\ UNCHANGED <<claimVars, inHand, attempts, handlerVars, managerVars, kafkaVars, storeVars, boundVars>>

\* ParallelProcessor.Close has waited for the workers; Manager.Close follows.
WorkersClosed ==
  /\ handler = "closing" /\ \A w \in Workers : worker[w] = "exited"
  /\ handler' = "closed"
  /\ UNCHANGED <<claimVars, started, next, message, workerVars, managerVars, kafkaVars,
                 storeVars, boundVars>>

\* The manager's select sees m.close: there is no last mark.
ManagerExits ==
  /\ handler = "closed" /\ manager = "waiting"
  /\ manager' = "off"
  /\ UNCHANGED <<claimVars, list, taken, highest, lastCommitted, handlerVars, workerVars,
                 kafkaVars, storeVars, boundVars>>

\* handleMessages closes its partition consumer and its wait group lets the
\* main loop go on.  What is marked stays with the client.
Release ==
  /\ handler = "closed" /\ manager = "off"
  /\ SessionGone
  /\ UNCHANGED <<claimVars, kafkaVars, storeVars, boundVars>>

\* The Kafka client commits, periodically or before a rebalance.
CommitMarked ==
  /\ committed # marked
  /\ committed' = marked
  /\ UNCHANGED <<claimVars, handlerVars, workerVars, managerVars, marked, storeVars, boundVars>>

\* The process dies anywhere; what was marked and not committed is forgotten,
\* as are the assignments.
Crash ==
  /\ crashes < MaxCrashes
  /\ crashes' = crashes + 1
  /\ claims' = <<>> /\ marked' = committed
  /\ SessionGone
  /\ UNCHANGED <<from, committed, storeVars, sessions>>

-----------------------------------------------------------------------------
Work(w) ==
  AttemptSucceeds(w) \/ AttemptFails(w) \/ RetriesExhausted(w) \/ InsertOffset(w)

Manage == TakeList \/ PutBack \/ Mark

Close == WorkersClosed \/ ManagerExits \/ Release

\* Every assignment and crash the bounds allow has happened.
Finished == handler = "off" /\ claims = <<>> /\ sessions = MaxSessions /\ UNCHANGED vars

Next ==
  \/ Assign \/ StartSession \/ ReadMessage \/ EndSession
  \/ \E w \in Workers : HandOver(w) \/ Work(w) \/ WorkerExits(w)
  \/ Manage
  \/ Close
  \/ CommitMarked \/ Crash
  \/ Finished

\* Goroutines that can run are scheduled, the ticker ticks, Kafka delivers
\* and commits, and closes the Messages channel of a partition consumer that
\* has been replaced.  Go's select chooses at random among the cases that are ready,
\* so the manager's ticks cannot win against m.close for ever.  Assignments,
\* other ends of sessions and crashes need not happen.
Fairness ==
  /\ WF_vars(StartSession) /\ WF_vars(ReadMessage)
  /\ WF_vars(EndSession /\ claims # <<>>)
  /\ WF_vars(\E w \in Workers : HandOver(w))
  /\ \A w \in Workers : WF_vars(Work(w)) /\ WF_vars(WorkerExits(w))
  /\ WF_vars(Manage)
  /\ WF_vars(WorkersClosed) /\ SF_vars(ManagerExits) /\ WF_vars(Release)
  /\ WF_vars(CommitMarked)

Spec == Init /\ [][Next]_vars /\ Fairness

-----------------------------------------------------------------------------
(* Properties                                                              *)

\* Whatever the order in which the workers finish, every offset up to the one
\* marked for commit has been written or given up: a crash after the commit
\* skips nothing.
NothingSkipped == marked >= committed /\ \A o \in 0..marked : o \in handled

\* setToHighestContiguous reads offsets[0]: the list is never empty when the
\* ticker takes it, although it is emptied and refilled outside one lock.
ListNotEmpty == manager = "waiting" => list # {}

\* An offset in a worker's hands or still to come is above everything the
\* manager has called done with: a late insert never falls below the head.
InFlight == {w \in Workers : worker[w] \in {"processing", "succeeded"}}

LateInsertsAreAbove ==
  /\ \A w \in InFlight : inHand[w] > lastCommitted /\ inHand[w] \notin list \union taken
  /\ manager = "marking" => /\ highest >= lastCommitted
                            /\ \A w \in InFlight : inHand[w] > highest

AtLeastOnceLog == INSTANCE AtLeastOnce WITH Offsets <- 0..LogEnd

\* The pipeline implements AtLeastOnce: commits grow, over handled messages
\* only, through reassignments and crashes, and a session handles no message
\* twice and none that was committed when its partition consumer was made.
ImplementsAtLeastOnce == AtLeastOnceLog!ASpec

\* A session that lasts commits the whole log: no order of completions leaves
\* a gap in the manager's list that stalls the commits for ever.
EverythingCommitted ==
  handler \in {"select", "offering"} ~>
    (committed = LogEnd \/ handler \notin {"select", "offering"})

\* Closing ends: the handler waits for the workers, the workers for their
\* bounded retries, the manager for its tick.
CloseCompletes == handler = "closing" ~> handler = "off"
=============================================================================
