-------------------------- MODULE IngesterConsumer --------------------------
(***************************************************************************)
(* cmd/ingester/app/consumer: the goroutines around the partitions that    *)
(* Kafka assigns.  The main loop registers each assignment under           *)
(* partitionMapLock and starts a message and an error handler; a partition *)
(* assigned again waits, under the lock, for the handlers of its last      *)
(* session; Close does the same for every partition.  Deadlock detectors   *)
(* close a partition, or kill the process, when nothing is consumed.       *)
(* What a handler does with its messages is OffsetPipeline's.              *)
(***************************************************************************)
EXTENDS Integers, Sequences, FiniteSets

CONSTANTS
  Partitions,
  Plans,            \* the partitions Kafka may assign, in order: a session each
  DetectorModes     \* "off": the deadlock check interval is 0, "running": not

ASSUME ConsumerAssumption ==
  /\ Plans \subseteq Seq(Partitions)
  /\ DetectorModes \subseteq {"off", "running"}

Sessions == UNION {DOMAIN plan : plan \in Plans}

VARIABLES
  plan,        \* what Kafka assigns in this behaviour
  assigned,    \* the sessions assigned so far are 1..assigned
  open,        \* open[s]: session s's partition consumer is not closed
  kafkaOpen,   \* the parent consumer: its Partitions channel is open
  mainLoop,    \* "receive", "locking", "waiting", "ended"
  mainAt,      \* the session the main loop is registering
  lock,        \* partitionMapLock: "free", or its holder "main", "close"
  current,     \* partitionIDToState: the session, 0 for none
  wg,          \* the wait group of each session's consumerState
  messages,    \* each session's handleMessages
  errors,      \* each session's handleErrors
  msgWg, errWg,   \* the session whose wait group each has looked up
  closer,      \* Close: "idle", "locking", "closing", "waiting", "detector",
               \* "parent", "done"
  closerLeft,  \* the partitions its loop has not reached
  closerAt,    \* the session whose wait group it waits for
  monitor,     \* monitorForPartition: "none", "running", "exited"
  consumed,    \* the partition detector's msgConsumed # 0
  signal,      \* its closePartition channel, of capacity 1, is full
  allMonitor,  \* the all-partitions detector: "off", "running", "exited"
  allConsumed, \* its msgConsumed # 0
  panicked

kafkaVars    == <<plan, assigned, open, kafkaOpen>>
mainVars     == <<mainLoop, mainAt>>
mapVars      == <<lock, current>>
handlerVars  == <<messages, errors, msgWg, errWg>>
closerVars   == <<closer, closerLeft, closerAt>>
detectorVars == <<monitor, consumed, signal, allMonitor, allConsumed, panicked>>
vars == <<kafkaVars, mainVars, mapVars, wg, handlerVars, closerVars, detectorVars>>

TypeOK ==
  /\ plan \in Plans /\ assigned \in 0..Len(plan)
  /\ open \in [Sessions -> BOOLEAN] /\ kafkaOpen \in BOOLEAN
  /\ mainLoop \in {"receive", "locking", "waiting", "ended"}
  /\ mainAt \in Sessions \union {0}
  /\ lock \in {"free", "main", "close"}
  /\ current \in [Partitions -> Sessions \union {0}]
  /\ wg \in [Sessions -> Int]
  /\ messages \in [Sessions -> {"none", "starting", "loop", "closing",
                                "closePartition", "wgDone", "uncount", "done"}]
  /\ errors \in [Sessions -> {"none", "starting", "draining", "done"}]
  /\ msgWg \in [Sessions -> Sessions \union {0}] /\ errWg \in [Sessions -> Sessions \union {0}]
  /\ closer \in {"idle", "locking", "closing", "waiting", "detector", "parent", "done"}
  /\ closerLeft \subseteq Partitions /\ closerAt \in Sessions \union {0}
  /\ monitor \in [Sessions -> {"none", "running", "exited"}]
  /\ consumed \in [Sessions -> BOOLEAN] /\ signal \in [Sessions -> BOOLEAN]
  /\ allMonitor \in {"off", "running", "exited"} /\ allConsumed \in BOOLEAN
  /\ panicked \in BOOLEAN

Partition(s) == plan[s]

DetectorEnabled == allMonitor # "off"

\* Start has started the global detector and the main loop.
Init ==
  /\ plan \in Plans /\ assigned = 0 /\ kafkaOpen = TRUE
  /\ open = [s \in Sessions |-> FALSE]
  /\ mainLoop = "receive" /\ mainAt = 0
  /\ lock = "free" /\ current = [p \in Partitions |-> 0]
  /\ wg = [s \in Sessions |-> 0]
  /\ messages = [s \in Sessions |-> "none"] /\ errors = [s \in Sessions |-> "none"]
  /\ msgWg = [s \in Sessions |-> 0] /\ errWg = [s \in Sessions |-> 0]
  /\ closer = "idle" /\ closerLeft = {} /\ closerAt = 0
  /\ monitor = [s \in Sessions |-> "none"]
  /\ consumed = [s \in Sessions |-> FALSE] /\ signal = [s \in Sessions |-> FALSE]
  /\ allMonitor \in DetectorModes
  /\ allConsumed = FALSE /\ panicked = FALSE

-----------------------------------------------------------------------------
(* Kafka: a rebalance closes a partition consumer, and may assign the      *)
(* partition to this consumer again.                                       *)

Rebalance(s) ==
  /\ ~panicked /\ open[s]
  /\ open' = [open EXCEPT ![s] = FALSE]
  /\ UNCHANGED <<plan, assigned, kafkaOpen, mainVars, mapVars, wg, handlerVars, closerVars,
                 detectorVars>>

-----------------------------------------------------------------------------
(* Start's main loop                                                       *)

MainReceives ==
  /\ ~panicked /\ mainLoop = "receive" /\ kafkaOpen
  /\ assigned < Len(plan)
  /\ \A s \in 1..assigned : Partition(s) = Partition(assigned + 1) => ~open[s]
  /\ assigned' = assigned + 1
  /\ open' = [open EXCEPT ![assigned'] = TRUE]
  /\ mainLoop' = "locking" /\ mainAt' = assigned'
  /\ UNCHANGED <<plan, kafkaOpen, mapVars, wg, handlerVars, closerVars, detectorVars>>

\* With the lock: if the partition was assigned before, wait for the wait
\* group of its last session, keeping the lock.
MainLocks ==
  /\ ~panicked /\ mainLoop = "locking" /\ lock = "free"
  /\ lock' = "main"
  /\ mainLoop' = "waiting"
  /\ UNCHANGED <<kafkaVars, mainAt, current, wg, handlerVars, closerVars, detectorVars>>

\* Mutant: no wait for the last session of the partition.
MainRegistersAtOnce ==
  LET p == Partition(mainAt) IN
  /\ ~panicked /\ mainLoop = "waiting"
  /\ current' = [current EXCEPT ![p] = mainAt]
  /\ wg' = [wg EXCEPT ![mainAt] = 2]
  /\ lock' = "free"
  /\ messages' = [messages EXCEPT ![mainAt] = "starting"]
  /\ errors' = [errors EXCEPT ![mainAt] = "starting"]
  /\ mainLoop' = "receive" /\ mainAt' = 0
  /\ UNCHANGED <<kafkaVars, msgWg, errWg, closerVars, detectorVars>>

\* Mutant: the wait group counts the message handler only.
MainRegistersOne ==
  LET p == Partition(mainAt) IN
  /\ ~panicked /\ mainLoop = "waiting"
  /\ current[p] # 0 => wg[current[p]] = 0
  /\ current' = [current EXCEPT ![p] = mainAt]
  /\ wg' = [wg EXCEPT ![mainAt] = 1]
  /\ lock' = "free"
  /\ messages' = [messages EXCEPT ![mainAt] = "starting"]
  /\ errors' = [errors EXCEPT ![mainAt] = "starting"]
  /\ mainLoop' = "receive" /\ mainAt' = 0
  /\ UNCHANGED <<kafkaVars, msgWg, errWg, closerVars, detectorVars>>

MainRegisters ==
  LET p == Partition(mainAt) IN
  /\ ~panicked /\ mainLoop = "waiting"
  /\ current[p] # 0 => wg[current[p]] = 0
  /\ current' = [current EXCEPT ![p] = mainAt]
  /\ wg' = [wg EXCEPT ![mainAt] = 2]
  /\ lock' = "free"
  /\ messages' = [messages EXCEPT ![mainAt] = "starting"]
  /\ errors' = [errors EXCEPT ![mainAt] = "starting"]
  /\ mainLoop' = "receive" /\ mainAt' = 0
  /\ UNCHANGED <<kafkaVars, msgWg, errWg, closerVars, detectorVars>>

MainEnds ==
  /\ ~panicked /\ mainLoop = "receive" /\ ~kafkaOpen
  /\ mainLoop' = "ended"
  /\ UNCHANGED <<kafkaVars, mainAt, mapVars, wg, handlerVars, closerVars, detectorVars>>

-----------------------------------------------------------------------------
(* handleMessages                                                          *)

At(s, here) == ~panicked /\ messages[s] = here
MessagesGoTo(s, there) == messages' = [messages EXCEPT ![s] = there]

\* Under the lock: count the partition and look up the wait group.  Then the
\* partition's detector starts.
MessagesStart(s) ==
  /\ At(s, "starting") /\ lock = "free"
  /\ msgWg' = [msgWg EXCEPT ![s] = current[Partition(s)]]
  /\ monitor' = [monitor EXCEPT ![s] = IF DetectorEnabled THEN "running" ELSE "none"]
  /\ MessagesGoTo(s, "loop")
  /\ UNCHANGED <<kafkaVars, mainVars, mapVars, wg, errors, errWg, closerVars,
                 consumed, signal, allMonitor, allConsumed, panicked>>

\* A message: count it for both detectors, build the processor on the first.
MessageConsumed(s) ==
  /\ At(s, "loop") /\ open[s]
  /\ consumed' = [consumed EXCEPT ![s] = TRUE]
  /\ allConsumed' = TRUE
  /\ UNCHANGED <<kafkaVars, mainVars, mapVars, wg, messages, errors, msgWg, errWg,
                 closerVars, monitor, signal, allMonitor, panicked>>

\* The loop returns: the message channel is closed, or the detector signals.
MessagesReturn(s) ==
  /\ At(s, "loop")
  /\ \/ ~open[s] /\ UNCHANGED signal
     \/ signal[s] /\ signal' = [signal EXCEPT ![s] = FALSE]
  /\ MessagesGoTo(s, "closing")
  /\ UNCHANGED <<kafkaVars, mainVars, mapVars, wg, errors, msgWg, errWg,
                 closerVars, monitor, consumed, allMonitor, allConsumed, panicked>>

\* The deferred calls, last deferred first: the message processor, if there is
\* one (OffsetPipeline), then the detector, whose monitor must take the
\* unbuffered send on done, ...
DetectorCloses(s) ==
  /\ At(s, "closing")
  /\ IF DetectorEnabled
       THEN monitor[s] = "running" /\ monitor' = [monitor EXCEPT ![s] = "exited"]
       ELSE UNCHANGED monitor
  /\ MessagesGoTo(s, "closePartition")
  /\ UNCHANGED <<kafkaVars, mainVars, mapVars, wg, errors, msgWg, errWg,
                 closerVars, consumed, signal, allMonitor, allConsumed, panicked>>

\* ... the partition consumer, ...
PartitionCloses(s) ==
  /\ At(s, "closePartition")
  /\ open' = [open EXCEPT ![s] = FALSE]
  /\ MessagesGoTo(s, "wgDone")
  /\ UNCHANGED <<plan, assigned, kafkaOpen, mainVars, mapVars, wg, errors, msgWg, errWg,
                 closerVars, detectorVars>>

\* Mutant: Done is called in the critical section that updates the gauge.
MessagesDoneUnderLock(s) ==
  /\ At(s, "wgDone") /\ lock = "free"
  /\ wg' = [wg EXCEPT ![msgWg[s]] = @ - 1]
  /\ MessagesGoTo(s, "uncount")
  /\ UNCHANGED <<kafkaVars, mainVars, mapVars, errors, msgWg, errWg, closerVars,
                 detectorVars>>

\* ... the wait group, before the lock is needed again, ...
MessagesDone(s) ==
  /\ At(s, "wgDone")
  /\ wg' = [wg EXCEPT ![msgWg[s]] = @ - 1]
  /\ MessagesGoTo(s, "uncount")
  /\ UNCHANGED <<kafkaVars, mainVars, mapVars, errors, msgWg, errWg,
                 closerVars, detectorVars>>

\* ... and the gauge, under the lock.
MessagesUncount(s) ==
  /\ At(s, "uncount") /\ lock = "free"
  /\ MessagesGoTo(s, "done")
  /\ UNCHANGED <<kafkaVars, mainVars, mapVars, wg, errors, msgWg, errWg,
                 closerVars, detectorVars>>

-----------------------------------------------------------------------------
(* handleErrors                                                            *)

ErrorsStart(s) ==
  /\ ~panicked /\ errors[s] = "starting" /\ lock = "free"
  /\ errWg' = [errWg EXCEPT ![s] = current[Partition(s)]]
  /\ errors' = [errors EXCEPT ![s] = "draining"]
  /\ UNCHANGED <<kafkaVars, mainVars, mapVars, wg, messages, msgWg,
                 closerVars, detectorVars>>

ErrorsDone(s) ==
  /\ ~panicked /\ errors[s] = "draining" /\ ~open[s]
  /\ wg' = [wg EXCEPT ![errWg[s]] = @ - 1]
  /\ errors' = [errors EXCEPT ![s] = "done"]
  /\ UNCHANGED <<kafkaVars, mainVars, mapVars, messages, msgWg, errWg,
                 closerVars, detectorVars>>

-----------------------------------------------------------------------------
(* Close, called once                                                      *)

CloseCalled ==
  /\ ~panicked /\ closer = "idle"
  /\ closer' = "locking"
  /\ UNCHANGED <<kafkaVars, mainVars, mapVars, wg, handlerVars, closerLeft, closerAt,
                 detectorVars>>

CloseLocks ==
  /\ closer = "locking" /\ lock = "free"
  /\ lock' = "close"
  /\ closer' = "closing"
  /\ closerLeft' = {p \in Partitions : current[p] # 0}
  /\ UNCHANGED <<kafkaVars, mainVars, current, wg, handlerVars, closerAt, detectorVars>>

\* One turn of the loop over the map: close the partition consumer ...
CloseNextPartition ==
  /\ closer = "closing"
  /\ \E p \in closerLeft :
       /\ open' = [open EXCEPT ![current[p]] = FALSE]
       /\ closerAt' = current[p]
       /\ closerLeft' = closerLeft \ {p}
  /\ closer' = "waiting"
  /\ UNCHANGED <<plan, assigned, kafkaOpen, mainVars, mapVars, wg, handlerVars, detectorVars>>

\* ... and wait for its handlers, keeping the lock.
CloseWaited ==
  /\ closer = "waiting" /\ wg[closerAt] = 0
  /\ closer' = "closing" /\ closerAt' = 0
  /\ UNCHANGED <<kafkaVars, mainVars, mapVars, wg, handlerVars, closerLeft, detectorVars>>

CloseUnlocks ==
  /\ closer = "closing" /\ closerLeft = {}
  /\ lock' = "free"
  /\ closer' = "detector"
  /\ UNCHANGED <<kafkaVars, mainVars, current, wg, handlerVars, closerLeft, closerAt,
                 detectorVars>>

CloseDetector ==
  /\ closer = "detector"
  /\ IF DetectorEnabled
       THEN allMonitor = "running" /\ allMonitor' = "exited"
       ELSE UNCHANGED allMonitor
  /\ closer' = "parent"
  /\ UNCHANGED <<kafkaVars, mainVars, mapVars, wg, handlerVars, closerLeft, closerAt,
                 monitor, consumed, signal, allConsumed, panicked>>

\* The parent consumer closes what is open and its Partitions channel.
CloseParent ==
  /\ closer = "parent"
  /\ kafkaOpen' = FALSE
  /\ open' = [s \in Sessions |-> FALSE]
  /\ closer' = "done"
  /\ UNCHANGED <<plan, assigned, mainVars, mapVars, wg, handlerVars, closerLeft, closerAt,
                 detectorVars>>

Close ==
  /\ ~panicked
  /\ \/ CloseLocks \/ CloseNextPartition \/ CloseWaited \/ CloseUnlocks
     \/ CloseDetector \/ CloseParent

-----------------------------------------------------------------------------
(* The deadlock detectors' tickers                                         *)

\* Mutant: an idle interval is not signalled.
MonitorTicksSilently(s) ==
  /\ ~panicked /\ monitor[s] = "running"
  /\ consumed' = [consumed EXCEPT ![s] = FALSE]
  /\ UNCHANGED <<kafkaVars, mainVars, mapVars, wg, handlerVars, closerVars, monitor,
                 signal, panicked, allMonitor, allConsumed>>

MonitorTicks(s) ==
  /\ ~panicked /\ monitor[s] = "running"
  /\ IF consumed[s]
       THEN consumed' = [consumed EXCEPT ![s] = FALSE] /\ UNCHANGED <<signal, panicked>>
       ELSE /\ signal' = [signal EXCEPT ![s] = TRUE]
            /\ panicked' = signal[s]
            /\ UNCHANGED consumed
  /\ UNCHANGED <<kafkaVars, mainVars, mapVars, wg, handlerVars, closerVars, monitor,
                 allMonitor, allConsumed>>

AllMonitorTicks ==
  /\ ~panicked /\ allMonitor = "running"
  /\ allConsumed' = FALSE
  /\ panicked' = ~allConsumed
  /\ UNCHANGED <<kafkaVars, mainVars, mapVars, wg, handlerVars, closerVars, monitor,
                 consumed, signal, allMonitor>>

-----------------------------------------------------------------------------
MainStep == MainLocks \/ MainRegisters \/ MainEnds

MessagesStep(s) ==
  \/ MessagesStart(s) \/ MessagesReturn(s) \/ DetectorCloses(s)
  \/ PartitionCloses(s) \/ MessagesDone(s) \/ MessagesUncount(s)

ErrorsStep(s) == ErrorsStart(s) \/ ErrorsDone(s)

Next ==
  \/ \E s \in Sessions : Rebalance(s)
  \/ MainReceives \/ MainStep
  \/ \E s \in Sessions : MessagesStep(s) \/ MessageConsumed(s) \/ ErrorsStep(s)
  \/ CloseCalled \/ Close
  \/ \E s \in Sessions : MonitorTicks(s)
  \/ AllMonitorTicks

\* Goroutines that can run are scheduled and tickers tick; assignments,
\* rebalances, messages and the call of Close need not come.
Fairness ==
  /\ WF_vars(MainStep)
  /\ \A s \in Sessions : WF_vars(MessagesStep(s)) /\ WF_vars(ErrorsStep(s))
  /\ WF_vars(Close)
  /\ \A s \in Sessions : WF_vars(MonitorTicks(s))
  /\ WF_vars(AllMonitorTicks)

Spec == Init /\ [][Next]_vars /\ Fairness

-----------------------------------------------------------------------------
(* Properties                                                              *)

\* A session's wait group counts exactly its two handlers that have not called
\* Done: each finds its own session's group in the map, however late it looks
\* it up, so the counter cannot go negative and no wait ends early.
WaitGroupsCount ==
  \A s \in Sessions :
    wg[s] = Cardinality({h \in {messages[s]} : h \notin {"none", "uncount", "done"}})
            + Cardinality({h \in {errors[s]} : h \notin {"none", "done"}})

\* The guard in Start: a partition assigned again is not handled before the
\* handlers of its last session have drained and cleaned up.
OneSessionAtATime ==
  \A s, t \in 1..assigned :
    s < t /\ Partition(s) = Partition(t) /\ messages[t] # "none" =>
      ~open[s] /\ messages[s] \in {"uncount", "done"} /\ errors[s] = "done"

\* The session whose wait group the holder of the lock waits for.
WaitedFor ==
  CASE lock = "main"  -> current[Partition(mainAt)]
    [] lock = "close" -> closerAt
    [] OTHER -> 0

\* The one way to hold the lock for ever: waiting for a handler that has not
\* yet got the lock for its own first step.
HandlerNeedsLock ==
  WaitedFor # 0 /\ (messages[WaitedFor] = "starting" \/ errors[WaitedFor] = "starting")

\* Apart from that, whoever waits under the lock gets to release it: the
\* handlers' clean-up, detectors included, needs nothing that waits for them.
LockIsReleased ==
  lock # "free" ~> (lock = "free" \/ HandlerNeedsLock \/ panicked)

\* With the detectors on, a session that consumes nothing is ended, or the
\* process is: no partition is held idle for ever.
IdleSessionEnds ==
  \A s \in Sessions :
    (messages[s] = "loop" /\ DetectorEnabled) ~>
      (messages[s] # "loop" \/ consumed[s] \/ panicked)

\* "Close closes the Consumer and underlying sarama consumer": a call of Close
\* returns.  It does not when a handler that was just started still waits for
\* the lock that Close, or the main loop, holds while waiting for the handler.
CloseReturns == closer # "idle" ~> (closer = "done" \/ panicked)
=============================================================================
