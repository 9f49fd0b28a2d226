---------------------------- MODULE AgentServer -----------------------------
(***************************************************************************)
(* The agent's UDP intake: TBufferedServer reads packets into pooled       *)
(* buffers and queues them without ever blocking, the goroutines of        *)
(* ThriftProcessor handle them and give the buffers back, and Agent starts *)
(* and stops the pair with `go processor.Serve()`, `go processor.Stop()`.  *)
(***************************************************************************)
EXTENDS Integers, Sequences, FiniteSets

CONSTANTS
  Processors,   \* the goroutines running processBuffer
  Buffers,      \* ReadBufs; enough that the pool's New never runs out
  NoBuffer,
  MaxQueueSize  \* capacity of dataChan

ASSUME AgentAssumption ==
  /\ IsFiniteSet(Processors) /\ IsFiniteSet(Buffers)
  /\ Processors # {}
  /\ MaxQueueSize \in Nat \ {0}
  /\ Cardinality(Buffers) > MaxQueueSize + Cardinality(Processors)
  /\ NoBuffer \notin Buffers

VARIABLES
  reader,       \* Serve: "unstarted", "launched", "loop", "reading", "sending",
                \* "counting", "exited"
  readBuf,      \* the buffer it fills
  serving,      \* s.serving = 1
  transport,    \* the UDP transport is open
  dataChan,     \* the queued buffers
  chanClosed,   \* dataChan is closed
  queueSize,    \* s.queueSize
  pool,         \* the buffers put back into the pool
  processor,    \* each goroutine: "unstarted", "range", "processing", "exited"
  procBuf,      \* the buffer it processes
  stopper,      \* Stop: "idle", "notServing", "closed", "waiting", "done"
  panicked

readerVars    == <<reader, readBuf>>
serverVars    == <<serving, transport, chanClosed>>
queueVars     == <<dataChan, queueSize, pool>>
processorVars == <<processor, procBuf>>
vars == <<readerVars, serverVars, queueVars, processorVars, stopper, panicked>>

TypeOK ==
  /\ reader \in {"unstarted", "launched", "loop", "reading", "sending", "counting", "exited"}
  /\ readBuf \in Buffers \union {NoBuffer}
  /\ serving \in BOOLEAN /\ transport \in BOOLEAN /\ chanClosed \in BOOLEAN
  /\ dataChan \in Seq(Buffers) /\ Len(dataChan) <= MaxQueueSize
  /\ queueSize \in Int
  /\ pool \subseteq Buffers
  /\ processor \in [Processors -> {"unstarted", "range", "processing", "exited"}]
  /\ procBuf \in [Processors -> Buffers \union {NoBuffer}]
  /\ stopper \in {"idle", "notServing", "closed", "waiting", "done"}
  /\ panicked \in BOOLEAN

Init ==
  /\ reader = "unstarted" /\ readBuf = NoBuffer
  /\ serving = FALSE /\ transport = TRUE /\ chanClosed = FALSE
  /\ dataChan = <<>> /\ queueSize = 0 /\ pool = {}
  /\ processor = [p \in Processors |-> "unstarted"]
  /\ procBuf = [p \in Processors |-> NoBuffer]
  /\ stopper = "idle" /\ panicked = FALSE

-----------------------------------------------------------------------------
(* Serve                                                                   *)

\* ThriftProcessor.Serve adds to the wait group and starts the processors.
Launch ==
  /\ ~panicked /\ reader = "unstarted"
  /\ reader' = "launched"
  /\ processor' = [p \in Processors |-> "range"]
  /\ UNCHANGED <<readBuf, serverVars, queueVars, procBuf, stopper, panicked>>

\* TBufferedServer.Serve stores 1 into serving, whatever Stop has done.
StartServing ==
  /\ ~panicked /\ reader = "launched"
  /\ serving' = TRUE
  /\ reader' = "loop"
  /\ UNCHANGED <<readBuf, transport, chanClosed, queueVars, processorVars, stopper, panicked>>

Held == {dataChan[i] : i \in DOMAIN dataChan} \union {procBuf[p] : p \in Processors}

\* Mutant: the loop does not look at serving.
GetBufferForEver ==
  /\ ~panicked /\ reader = "loop"
  /\ reader' = "reading"
  /\ \E b \in pool \union (Buffers \ Held) :
       readBuf' = b /\ pool' = pool \ {b}
  /\ UNCHANGED <<serverVars, dataChan, queueSize, processorVars, stopper, panicked>>

\* The loop's condition and the pool's Get: a buffer that was put back, or a
\* new one.
GetBuffer ==
  /\ ~panicked /\ reader = "loop" /\ serving
  /\ reader' = "reading"
  /\ \E b \in pool \union (Buffers \ Held) :
       readBuf' = b /\ pool' = pool \ {b}
  /\ UNCHANGED <<serverVars, dataChan, queueSize, processorVars, stopper, panicked>>

LeaveLoop ==
  /\ ~panicked /\ reader = "loop" /\ ~serving
  /\ reader' = "exited"
  /\ UNCHANGED <<readBuf, serverVars, queueVars, processorVars, stopper, panicked>>

ReadPacket ==
  /\ ~panicked /\ reader = "reading" /\ transport
  /\ reader' = "sending"
  /\ UNCHANGED <<readBuf, serverVars, queueVars, processorVars, stopper, panicked>>

BackToLoop == reader' = "loop" /\ readBuf' = NoBuffer

\* A read error, as every read of a closed transport is; the buffer is left to
\* the garbage collector.
ReadFails ==
  /\ ~panicked /\ reader = "reading"
  /\ BackToLoop
  /\ UNCHANGED <<serverVars, queueVars, processorVars, stopper, panicked>>

\* Mutant: off by one at the queue's capacity.
SendPacketOneMore ==
  /\ ~panicked /\ reader = "sending" /\ ~chanClosed
  /\ Len(dataChan) <= MaxQueueSize
  /\ dataChan' = Append(dataChan, readBuf)
  /\ reader' = "counting" /\ readBuf' = NoBuffer
  /\ UNCHANGED <<serverVars, queueSize, pool, processorVars, stopper, panicked>>

SendPacket ==
  /\ ~panicked /\ reader = "sending" /\ ~chanClosed
  /\ Len(dataChan) < MaxQueueSize
  /\ dataChan' = Append(dataChan, readBuf)
  /\ reader' = "counting" /\ readBuf' = NoBuffer
  /\ UNCHANGED <<serverVars, queueSize, pool, processorVars, stopper, panicked>>

\* Mutant: a dropped packet is counted in.
DropPacketCounted ==
  /\ ~panicked /\ reader = "sending" /\ ~chanClosed
  /\ Len(dataChan) >= MaxQueueSize
  /\ queueSize' = queueSize + 1
  /\ BackToLoop
  /\ UNCHANGED <<serverVars, dataChan, pool, processorVars, stopper, panicked>>

\* The default case: the packet is dropped, its buffer not put back.
DropPacket ==
  /\ ~panicked /\ reader = "sending" /\ ~chanClosed
  /\ Len(dataChan) >= MaxQueueSize
  /\ BackToLoop
  /\ UNCHANGED <<serverVars, queueVars, processorVars, stopper, panicked>>

\* Stop has closed the channel since the packet was read.
SendPanics ==
  /\ ~panicked /\ reader = "sending" /\ chanClosed
  /\ panicked' = TRUE
  /\ UNCHANGED <<readerVars, serverVars, queueVars, processorVars, stopper>>

CountPacket ==
  /\ ~panicked /\ reader = "counting"
  /\ queueSize' = queueSize + 1
  /\ BackToLoop
  /\ UNCHANGED <<serverVars, dataChan, pool, processorVars, stopper, panicked>>

-----------------------------------------------------------------------------
(* processBuffer                                                           *)

\* Mutant: the buffer is given back before it is handled.
TakeBufferPutEarly(p) ==
  /\ ~panicked /\ processor[p] = "range" /\ dataChan # <<>>
  /\ processor' = [processor EXCEPT ![p] = "processing"]
  /\ procBuf' = [procBuf EXCEPT ![p] = Head(dataChan)]
  /\ pool' = pool \union {Head(dataChan)}
  /\ dataChan' = Tail(dataChan)
  /\ UNCHANGED <<readerVars, serverVars, queueSize, stopper, panicked>>

TakeBuffer(p) ==
  /\ ~panicked /\ processor[p] = "range" /\ dataChan # <<>>
  /\ processor' = [processor EXCEPT ![p] = "processing"]
  /\ procBuf' = [procBuf EXCEPT ![p] = Head(dataChan)]
  /\ dataChan' = Tail(dataChan)
  /\ UNCHANGED <<readerVars, serverVars, queueSize, pool, stopper, panicked>>

\* The handler has returned, with success or not; DataRecd counts the buffer
\* out and puts it back into the pool.
ReleaseBuffer(p) ==
  /\ ~panicked /\ processor[p] = "processing"
  /\ queueSize' = queueSize - 1
  /\ pool' = pool \union {procBuf[p]}
  /\ processor' = [processor EXCEPT ![p] = "range"]
  /\ procBuf' = [procBuf EXCEPT ![p] = NoBuffer]
  /\ UNCHANGED <<readerVars, serverVars, dataChan, stopper, panicked>>

\* Mutant: the processor stops without draining the channel.
ProcessorExitsUndrained(p) ==
  /\ ~panicked /\ processor[p] = "range" /\ chanClosed
  /\ processor' = [processor EXCEPT ![p] = "exited"]
  /\ UNCHANGED <<readerVars, serverVars, queueVars, procBuf, stopper, panicked>>

\* The range over the channel ends when it is closed and drained.
ProcessorExits(p) ==
  /\ ~panicked /\ processor[p] = "range" /\ dataChan = <<>> /\ chanClosed
  /\ processor' = [processor EXCEPT ![p] = "exited"]
  /\ UNCHANGED <<readerVars, serverVars, queueVars, procBuf, stopper, panicked>>

-----------------------------------------------------------------------------
(* Stop, called once                                                       *)

StopServing ==
  /\ ~panicked /\ stopper = "idle"
  /\ serving' = FALSE
  /\ stopper' = "notServing"
  /\ UNCHANGED <<readerVars, transport, chanClosed, queueVars, processorVars, panicked>>

StopTransport ==
  /\ ~panicked /\ stopper = "notServing"
  /\ transport' = FALSE
  /\ stopper' = "closed"
  /\ UNCHANGED <<readerVars, serving, chanClosed, queueVars, processorVars, panicked>>

StopChannel ==
  /\ ~panicked /\ stopper = "closed"
  /\ chanClosed' = TRUE
  /\ stopper' = "waiting"
  /\ UNCHANGED <<readerVars, serving, transport, queueVars, processorVars, panicked>>

\* Mutant: Stop does not wait for the processors.
StopWaitedNot ==
  /\ ~panicked /\ stopper = "waiting"
  /\ stopper' = "done"
  /\ UNCHANGED <<readerVars, serverVars, queueVars, processorVars, panicked>>

\* processing.Wait(): nothing to wait for if Serve has not yet added to it.
StopWaited ==
  /\ ~panicked /\ stopper = "waiting"
  /\ \A p \in Processors : processor[p] \in {"unstarted", "exited"}
  /\ stopper' = "done"
  /\ UNCHANGED <<readerVars, serverVars, queueVars, processorVars, panicked>>

-----------------------------------------------------------------------------
Serve ==
  \/ Launch \/ StartServing \/ GetBuffer \/ LeaveLoop
  \/ SendPacket \/ DropPacket \/ SendPanics \/ CountPacket

ProcessBuffer(p) == TakeBuffer(p) \/ ReleaseBuffer(p) \/ ProcessorExits(p)

StopGoesOn == StopTransport \/ StopChannel \/ StopWaited

Finished ==
  /\ \/ panicked
     \/ /\ stopper = "done" /\ reader = "exited"
        /\ \A p \in Processors : processor[p] = "exited"
  /\ UNCHANGED vars

Next ==
  \/ Serve \/ ReadPacket \/ ReadFails
  \/ \E p \in Processors : ProcessBuffer(p)
  \/ StopServing \/ StopGoesOn
  \/ Finished

\* Goroutines that can run are scheduled, and reading a closed transport
\* fails; packets and the call of Stop need not come.
Fairness ==
  /\ WF_vars(Serve)
  /\ WF_vars(ReadFails /\ ~transport)
  /\ \A p \in Processors : WF_vars(ProcessBuffer(p))
  /\ WF_vars(StopGoesOn)

Spec == Init /\ [][Next]_vars /\ Fairness

-----------------------------------------------------------------------------
(* Properties                                                              *)

Places(b) ==
  Cardinality({i \in DOMAIN dataChan : dataChan[i] = b})
  + Cardinality({p \in Processors : procBuf[p] = b})
  + (IF readBuf = b THEN 1 ELSE 0) + (IF b \in pool THEN 1 ELSE 0)

\* The reader never fills a buffer that is queued or being handled: a buffer
\* is in at most one place, so every packet is handled as it was read.
BufferHasOneOwner == \A b \in Buffers : Places(b) <= 1

\* The queue_size gauge counts the queued packets and the ones being handled,
\* but for one that is queued and not yet counted: it may dip below zero.
QueueSizeAccounting ==
  queueSize = Len(dataChan) + Cardinality({p \in Processors : processor[p] = "processing"})
              - (IF reader = "counting" THEN 1 ELSE 0)

\* "Stop ... waits until the queue is emptied by the readers": when it has
\* returned, every packet that was queued has been handled.
StopEmptiesQueue ==
  stopper = "done" => dataChan = <<>> /\ \A p \in Processors : processor[p] # "processing"

\* A queued packet is handled, Stop or not (a panic of the reader apart).
QueuedIsHandled ==
  \A b \in Buffers :
    (\E i \in DOMAIN dataChan : dataChan[i] = b) ~>
      (panicked \/ \A i \in DOMAIN dataChan : dataChan[i] # b)

\* Once Stop has reset serving after Serve has set it, the reader's loop ends,
\* even if it was blocked in a read.
ReaderEnds ==
  (~serving /\ reader \notin {"unstarted", "launched"}) ~> (reader = "exited" \/ panicked)

\* "Stop forces all agent go routines to exit."  A Stop that overtakes the
\* start of Serve is undone by it: the reader then spins on read errors.
StopEndsReader == stopper = "done" ~> (reader = "exited" \/ panicked)
=============================================================================
