---------------------------- MODULE BoundedQueue ----------------------------
(***************************************************************************)
(* pkg/queue/bounded_queue.go: a channel of fixed capacity with a separate *)
(* atomic length counter, any number of producers, a fixed set of consumer *)
(* goroutines and a Stop that disables, signals, waits and closes.         *)
(*                                                                         *)
(* Every action is one atomic step of one goroutine: an atomic load or     *)
(* store, one channel operation, or the return of a callback.              *)
(***************************************************************************)
EXTENDS Integers, Sequences, FiniteSets

CONSTANTS
  Producers,   \* goroutines that call Produce
  Consumers,   \* goroutines started by StartConsumers
  Items,       \* what can be queued
  NoItem,      \* the nil a receive on a closed, empty channel returns
  Capacity     \* q.capacity

ASSUME CapacityAssumption == Capacity \in Nat \ {0}
ASSUME FiniteGoroutines == IsFiniteSet(Producers) /\ IsFiniteSet(Consumers)
ASSUME NilIsNoItem == NoItem \notin Items

VARIABLES
  items,        \* the buffered channel q.items, head first
  size,         \* q.size, counted after the send and after the receive
  stopped,      \* q.stopped # 0
  stopCh,       \* q.stopCh is closed
  itemsClosed,  \* q.items is closed
  stopper,      \* progress of the one call of Stop
  ppc, pitem,   \* each producer: where it is inside Produce, and its item
  cpc, citem,   \* each consumer: where its loop is, and the item in hand
  panicked      \* a goroutine panicked: the process is gone

qvars == <<items, size, stopped, stopCh, itemsClosed, stopper, ppc, pitem,
           cpc, citem, panicked>>

channel    == <<items, size, itemsClosed>>
stopFlags  == <<stopped, stopCh, stopper>>
producers  == <<ppc, pitem>>
consumers  == <<cpc, citem>>

QTypeOK ==
  /\ items \in Seq(Items)
  /\ size \in Int
  /\ stopped \in BOOLEAN /\ stopCh \in BOOLEAN /\ itemsClosed \in BOOLEAN
  /\ stopper \in {"idle", "disabled", "signalled", "released"}
  /\ ppc \in [Producers -> {"idle", "sending", "sent"}]
  /\ pitem \in [Producers -> Items \union {NoItem}]
  /\ cpc \in [Consumers -> {"unstarted", "select", "received", "working", "exited"}]
  /\ citem \in [Consumers -> Items \union {NoItem}]
  /\ panicked \in BOOLEAN

QInit ==
  /\ items = <<>> /\ size = 0
  /\ stopped = FALSE /\ stopCh = FALSE /\ itemsClosed = FALSE
  /\ stopper = "idle"
  /\ ppc = [p \in Producers |-> "idle"]
  /\ pitem = [p \in Producers |-> NoItem]
  /\ cpc = [c \in Consumers |-> "unstarted"]
  /\ citem = [c \in Consumers |-> NoItem]
  /\ panicked = FALSE

-----------------------------------------------------------------------------
(* Produce                                                                 *)

\* The load of q.stopped finds the queue disabled: the item goes to
\* onDroppedItem and Produce returns false.
ProduceDisabled(p) ==
  /\ ~panicked /\ ppc[p] = "idle" /\ stopped
  /\ UNCHANGED qvars

\* Mutant: Produce does not look at q.stopped.
ProduceEnabledUnchecked(p, i) ==
  /\ ~panicked /\ ppc[p] = "idle"
  /\ ppc' = [ppc EXCEPT ![p] = "sending"]
  /\ pitem' = [pitem EXCEPT ![p] = i]
  /\ UNCHANGED <<channel, stopFlags, consumers, panicked>>

\* The load of q.stopped finds the queue enabled.  Nothing keeps it so
\* until the send.
ProduceEnabled(p, i) ==
  /\ ~panicked /\ ppc[p] = "idle" /\ ~stopped
  /\ ppc' = [ppc EXCEPT ![p] = "sending"]
  /\ pitem' = [pitem EXCEPT ![p] = i]
  /\ UNCHANGED <<channel, stopFlags, consumers, panicked>>

\* The select's first case: there is room in the channel.
SendAccepted(p) ==
  /\ ~panicked /\ ppc[p] = "sending" /\ ~itemsClosed
  /\ Len(items) < Capacity
  /\ items' = Append(items, pitem[p])
  /\ ppc' = [ppc EXCEPT ![p] = "sent"]
  /\ UNCHANGED <<size, itemsClosed, stopFlags, pitem, consumers, panicked>>

\* Mutant: a dropped item is counted in.
SendDroppedCounted(p) ==
  /\ ~panicked /\ ppc[p] = "sending" /\ ~itemsClosed
  /\ Len(items) >= Capacity
  /\ size' = size + 1
  /\ ppc' = [ppc EXCEPT ![p] = "idle"]
  /\ pitem' = [pitem EXCEPT ![p] = NoItem]
  /\ UNCHANGED <<items, itemsClosed, stopFlags, consumers, panicked>>

\* The select's default case: the channel is full, the NEW item is dropped.
SendDropped(p) ==
  /\ ~panicked /\ ppc[p] = "sending" /\ ~itemsClosed
  /\ Len(items) >= Capacity
  /\ ppc' = [ppc EXCEPT ![p] = "idle"]
  /\ pitem' = [pitem EXCEPT ![p] = NoItem]
  /\ UNCHANGED <<channel, stopFlags, consumers, panicked>>

\* A send on a closed channel panics, in a select with a default case too.
SendOnClosed(p) ==
  /\ ~panicked /\ ppc[p] = "sending" /\ itemsClosed
  /\ panicked' = TRUE
  /\ UNCHANGED <<channel, stopFlags, producers, consumers>>

\* atomic.AddInt32(&q.size, 1), then Produce returns true.
CountIn(p) ==
  /\ ~panicked /\ ppc[p] = "sent"
  /\ size' = size + 1
  /\ ppc' = [ppc EXCEPT ![p] = "idle"]
  /\ pitem' = [pitem EXCEPT ![p] = NoItem]
  /\ UNCHANGED <<items, itemsClosed, stopFlags, consumers, panicked>>

-----------------------------------------------------------------------------
(* The consumer goroutines                                                 *)

\* StartConsumers returns once every goroutine runs (startWG).
StartConsumers ==
  /\ ~panicked /\ stopper = "idle"
  /\ \A c \in Consumers : cpc[c] = "unstarted"
  /\ cpc' = [c \in Consumers |-> "select"]
  /\ UNCHANGED <<channel, stopFlags, producers, citem, panicked>>

\* The select takes the oldest item, or nil from a closed empty channel.
Receive(c) ==
  /\ ~panicked /\ cpc[c] = "select"
  /\ items # <<>> \/ itemsClosed
  /\ cpc' = [cpc EXCEPT ![c] = "received"]
  /\ citem' = [citem EXCEPT ![c] = IF items = <<>> THEN NoItem ELSE Head(items)]
  /\ items' = IF items = <<>> THEN items ELSE Tail(items)
  /\ UNCHANGED <<size, itemsClosed, stopFlags, producers, panicked>>

\* atomic.AddInt32(&q.size, -1), then the consumer callback is entered.
CountOut(c) ==
  /\ ~panicked /\ cpc[c] = "received"
  /\ size' = size - 1
  /\ cpc' = [cpc EXCEPT ![c] = "working"]
  /\ UNCHANGED <<items, itemsClosed, stopFlags, producers, citem, panicked>>

\* The consumer callback returns and the loop goes back to its select.
CallbackReturns(c) ==
  /\ ~panicked /\ cpc[c] = "working"
  /\ cpc' = [cpc EXCEPT ![c] = "select"]
  /\ citem' = [citem EXCEPT ![c] = NoItem]
  /\ UNCHANGED <<channel, stopFlags, producers, panicked>>

\* Mutant: a consumer gives up although the queue is not stopped.
ConsumerExitsEarly(c) ==
  /\ ~panicked /\ cpc[c] = "select"
  /\ cpc' = [cpc EXCEPT ![c] = "exited"]
  /\ UNCHANGED <<channel, stopFlags, producers, citem, panicked>>

\* The select sees stopCh closed; it may, even while items are queued.
ConsumerExits(c) ==
  /\ ~panicked /\ cpc[c] = "select" /\ stopCh
  /\ cpc' = [cpc EXCEPT ![c] = "exited"]
  /\ UNCHANGED <<channel, stopFlags, producers, citem, panicked>>

-----------------------------------------------------------------------------
(* Stop, called once (a second call would close stopCh twice)              *)

StopDisables ==
  /\ ~panicked /\ stopper = "idle"
  /\ \A c \in Consumers : cpc[c] # "unstarted"
  /\ stopped' = TRUE
  /\ stopper' = "disabled"
  /\ UNCHANGED <<channel, stopCh, producers, consumers, panicked>>

\* Mutant: stopCh is not closed.
StopSignalsNobody ==
  /\ ~panicked /\ stopper = "disabled"
  /\ stopper' = "signalled"
  /\ UNCHANGED <<channel, stopped, stopCh, producers, consumers, panicked>>

StopSignals ==
  /\ ~panicked /\ stopper = "disabled"
  /\ stopCh' = TRUE
  /\ stopper' = "signalled"
  /\ UNCHANGED <<channel, stopped, producers, consumers, panicked>>

\* Mutant: Stop closes the channel without waiting for the consumers.
StopReleasesAtOnce ==
  /\ ~panicked /\ stopper = "signalled"
  /\ itemsClosed' = TRUE
  /\ stopper' = "released"
  /\ UNCHANGED <<items, size, stopped, stopCh, producers, consumers, panicked>>

\* stopWG.Wait() has returned; whatever is still queued is never consumed.
StopReleases ==
  /\ ~panicked /\ stopper = "signalled"
  /\ \A c \in Consumers : cpc[c] = "exited"
  /\ itemsClosed' = TRUE
  /\ stopper' = "released"
  /\ UNCHANGED <<items, size, stopped, stopCh, producers, consumers, panicked>>

Stop == StopDisables \/ StopSignals \/ StopReleases

-----------------------------------------------------------------------------
Produce(p) ==
  \/ ProduceDisabled(p)
  \/ \E i \in Items : ProduceEnabled(p, i)
  \/ SendAccepted(p) \/ SendDropped(p) \/ SendOnClosed(p) \/ CountIn(p)

Consume(c) ==
  Receive(c) \/ CountOut(c) \/ CallbackReturns(c) \/ ConsumerExits(c)

QNext ==
  \/ \E p \in Producers : Produce(p)
  \/ StartConsumers
  \/ \E c \in Consumers : Consume(c)
  \/ Stop

QSpec == QInit /\ [][QNext]_qvars

-----------------------------------------------------------------------------
Uncounted == {p \in Producers : ppc[p] = "sent"}      \* sent, not yet in size
Undiscounted == {c \in Consumers : cpc[c] = "received"} \* taken, still in size

\* Size() against the channel: the counter is off by exactly the goroutines
\* between their channel operation and their atomic add, so the gauge can
\* read below zero or above the capacity, but never drifts.
SizeAccounting ==
  size = Len(items) - Cardinality(Uncounted) + Cardinality(Undiscounted)

\* The channel never holds more than its capacity.
WithinCapacity == Len(items) <= Capacity

\* "Stop ... blocks until all consumers have stopped": the channel is closed
\* only once no consumer can receive from it, so no consumer is ever handed
\* the nil of a closed channel (its callback asserts the item's type).
NoNilDelivered ==
  /\ itemsClosed => \A c \in Consumers : cpc[c] = "exited"
  /\ \A c \in Consumers : cpc[c] \in {"received", "working"} => citem[c] # NoItem
=============================================================================
