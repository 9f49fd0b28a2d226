---------------------------- MODULE AgentProofs ----------------------------
(***************************************************************************)
(* Proofs about the agent.  Part 1: AgentServer, for any number of         *)
(* processors and buffers and any size of the queue: who holds which       *)
(* buffer, what the queue_size gauge counts, and what is left when Stop    *)
(* has returned.  Part 2: Discovery, for any set of collectors, capacity   *)
(* of the channels and number of changes: what its observers have heard,   *)
(* and that Notify never meets a closed channel.                           *)
(***************************************************************************)
EXTENDS AgentServer, Discovery, FiniteSetTheorems, SequenceTheorems, TLAPS

\* The reader and the processors hold a buffer in the phases that use one, and
\* nothing runs before Launch.
Phases ==
  /\ readBuf # NoBuffer <=> reader \in {"reading", "sending"}
  /\ \A p \in Processors : procBuf[p] # NoBuffer <=> processor[p] = "processing"
  /\ reader = "unstarted" => \A p \in Processors : processor[p] = "unstarted"
  /\ reader # "unstarted" => \A p \in Processors : processor[p] # "unstarted"
  /\ reader \in {"unstarted", "launched"} => dataChan = <<>>

Typed == TypeOK /\ Phases

\* The channel is closed by Stop, and a processor leaves a closed, drained one.
ClosedByStop ==
  /\ chanClosed <=> stopper \in {"waiting", "done"}
  /\ \A p \in Processors : processor[p] = "exited" => chanClosed /\ dataChan = <<>>

\* Where a buffer can be is told apart: the queue, the processors, the reader
\* and the pool share none, and neither do two of the first two kinds.
Owners ==
  /\ \A i, j \in DOMAIN dataChan : dataChan[i] = dataChan[j] => i = j
  /\ \A p, q \in Processors : procBuf[p] = procBuf[q] /\ procBuf[p] # NoBuffer => p = q
  /\ \A i \in DOMAIN dataChan :
       /\ dataChan[i] # readBuf /\ dataChan[i] \notin pool
       /\ \A p \in Processors : dataChan[i] # procBuf[p]
  /\ \A p \in Processors : procBuf[p] \notin pool
  /\ \A p \in Processors : procBuf[p] # NoBuffer => procBuf[p] # readBuf
  /\ readBuf \notin pool

AInv == Typed /\ ClosedByStop /\ Owners /\ QueueSizeAccounting /\ StopEmptiesQueue

-----------------------------------------------------------------------------
(* Types and phases                                                        *)

LEMMA TypedInit == Init => Typed
<1> SUFFICES ASSUME Init PROVE Typed
  OBVIOUS
<1>1. /\ serving \in BOOLEAN /\ transport \in BOOLEAN /\ chanClosed \in BOOLEAN
      /\ panicked \in BOOLEAN
  BY Zenon DEF Init
<1>2. dataChan \in Seq(Buffers) /\ Len(dataChan) <= MaxQueueSize /\ dataChan = <<>>
  BY AgentAssumption DEF Init
<1>3. /\ reader = "unstarted" /\ readBuf = NoBuffer /\ queueSize = 0 /\ pool = {}
      /\ processor \in [Processors -> {"unstarted", "range", "processing", "exited"}]
      /\ procBuf \in [Processors -> Buffers \union {NoBuffer}]
      /\ \A p \in Processors : processor[p] = "unstarted" /\ procBuf[p] = NoBuffer
      /\ stopper = "idle"
  BY DEF Init
<1> QED
  BY <1>1, <1>2, <1>3 DEF Typed, TypeOK, Phases

LEMMA TypedStep == Typed /\ [Next]_vars => Typed'
<1> SUFFICES ASSUME Typed, [Next]_vars PROVE Typed'
  OBVIOUS
<1> USE AgentAssumption DEF Typed, TypeOK, Phases, readerVars, serverVars, queueVars, processorVars
<1>1. ASSUME Launch PROVE Typed'
  BY <1>1 DEF Launch
<1>2. ASSUME StartServing PROVE Typed'
  BY <1>2 DEF StartServing
<1>3. ASSUME GetBuffer PROVE Typed'
  BY <1>3 DEF GetBuffer
<1>4. ASSUME LeaveLoop PROVE Typed'
  BY <1>4 DEF LeaveLoop
<1>5. ASSUME ReadPacket PROVE Typed'
  BY <1>5 DEF ReadPacket
<1>6. ASSUME ReadFails PROVE Typed'
  BY <1>6 DEF ReadFails, BackToLoop
<1>7. ASSUME SendPacket PROVE Typed'
  BY <1>7 DEF SendPacket
<1>8. ASSUME DropPacket PROVE Typed'
  BY <1>8 DEF DropPacket, BackToLoop
<1>9. ASSUME SendPanics PROVE Typed'
  BY <1>9 DEF SendPanics
<1>10. ASSUME CountPacket PROVE Typed'
  BY <1>10 DEF CountPacket, BackToLoop
<1>11. ASSUME NEW p \in Processors, TakeBuffer(p) PROVE Typed'
  <2>1. Head(dataChan) \in Buffers /\ Tail(dataChan) \in Seq(Buffers)
        /\ Len(Tail(dataChan)) <= MaxQueueSize
    BY <1>11 DEF TakeBuffer
  <2> QED
    BY <1>11, <2>1 DEF TakeBuffer
<1>12. ASSUME NEW p \in Processors, ReleaseBuffer(p) PROVE Typed'
  BY <1>12 DEF ReleaseBuffer
<1>13. ASSUME NEW p \in Processors, ProcessorExits(p) PROVE Typed'
  BY <1>13 DEF ProcessorExits
<1>14. ASSUME StopServing \/ StopGoesOn PROVE Typed'
  BY <1>14 DEF StopServing, StopGoesOn, StopTransport, StopChannel, StopWaited
<1>15. CASE UNCHANGED vars
  BY <1>15 DEF vars
<1> QED
  BY <1>1, <1>2, <1>3, <1>4, <1>5, <1>6, <1>7, <1>8, <1>9, <1>10, <1>11, <1>12, <1>13,
     <1>14, <1>15
  DEF Next, Serve, ProcessBuffer, Finished

-----------------------------------------------------------------------------
(* Stop                                                                    *)

LEMMA StopInit == Init => ClosedByStop /\ StopEmptiesQueue
BY DEF Init, ClosedByStop, StopEmptiesQueue

\* Stop's last step finds every processor gone, or none ever started; either
\* way the queue is empty, and it stays so since the channel is closed.
LEMMA StopStep ==
  Typed /\ ClosedByStop /\ StopEmptiesQueue /\ [Next]_vars
    => ClosedByStop' /\ StopEmptiesQueue'
<1> SUFFICES ASSUME Typed, ClosedByStop, StopEmptiesQueue, [Next]_vars
             PROVE  ClosedByStop' /\ StopEmptiesQueue'
  OBVIOUS
<1> DEFINE Goal == ClosedByStop' /\ StopEmptiesQueue'
<1> USE DEF Typed, TypeOK, Phases, ClosedByStop, StopEmptiesQueue,
            readerVars, serverVars, queueVars, processorVars
<1>1. ASSUME UNCHANGED <<chanClosed, stopper, dataChan, processor>> PROVE Goal
  BY <1>1
<1>2. ASSUME Launch PROVE Goal
  BY <1>2 DEF Launch
<1>3. ASSUME StartServing \/ GetBuffer \/ LeaveLoop \/ ReadPacket \/ ReadFails \/ DropPacket
             \/ SendPanics \/ CountPacket
      PROVE  Goal
  BY <1>1, <1>3 DEF StartServing, GetBuffer, LeaveLoop, ReadPacket, ReadFails, DropPacket,
                    SendPanics, CountPacket
<1>4. ASSUME SendPacket PROVE Goal
  BY <1>4 DEF SendPacket
<1>5. ASSUME NEW p \in Processors, TakeBuffer(p) PROVE Goal
  BY <1>5 DEF TakeBuffer
<1>6. ASSUME NEW p \in Processors, ReleaseBuffer(p) PROVE Goal
  BY <1>6 DEF ReleaseBuffer
<1>7. ASSUME NEW p \in Processors, ProcessorExits(p) PROVE Goal
  BY <1>7 DEF ProcessorExits
<1>8. ASSUME StopServing \/ StopTransport \/ StopChannel PROVE Goal
  BY <1>8 DEF StopServing, StopTransport, StopChannel
<1>9. ASSUME StopWaited PROVE Goal
  <2>1. PICK p \in Processors : processor[p] \in {"unstarted", "exited"}
    BY <1>9, AgentAssumption DEF StopWaited
  <2>2. dataChan = <<>>
    BY <2>1
  <2> QED
    BY <1>9, <2>2 DEF StopWaited
<1>10. CASE UNCHANGED vars
  BY <1>1, <1>10 DEF vars
<1> QED
  BY <1>2, <1>3, <1>4, <1>5, <1>6, <1>7, <1>8, <1>9, <1>10
  DEF Next, Serve, ProcessBuffer, StopGoesOn, Finished

-----------------------------------------------------------------------------
(* The buffers                                                             *)

LEMMA OwnersInit == Init => Owners
BY AgentAssumption DEF Init, Owners

\* A buffer goes from the pool (or from nowhere) to the reader, the queue, a
\* processor and back, and is in one of them at a time.
LEMMA OwnersStep == Typed /\ Owners /\ [Next]_vars => Owners'
<1> SUFFICES ASSUME Typed, Owners, [Next]_vars PROVE Owners'
  OBVIOUS
<1> USE AgentAssumption DEF Typed, TypeOK, Phases, Owners,
            readerVars, serverVars, queueVars, processorVars
<1>1. ASSUME UNCHANGED <<dataChan, procBuf, readBuf, pool>> PROVE Owners'
  BY <1>1
<1>2. ASSUME UNCHANGED <<dataChan, procBuf, pool>>, BackToLoop PROVE Owners'
  BY <1>2 DEF BackToLoop
<1>3. ASSUME GetBuffer PROVE Owners'
  BY <1>3 DEF GetBuffer, Held
<1>4. ASSUME SendPacket PROVE Owners'
  <2>1. /\ readBuf \in Buffers /\ readBuf' = NoBuffer
        /\ dataChan' = Append(dataChan, readBuf)
        /\ UNCHANGED <<procBuf, pool>>
    BY <1>4 DEF SendPacket
  <2>2. /\ DOMAIN dataChan' = DOMAIN dataChan \union {Len(dataChan) + 1}
        /\ \A i \in DOMAIN dataChan : dataChan'[i] = dataChan[i]
        /\ dataChan'[Len(dataChan) + 1] = readBuf
    BY <2>1
  <2>3. \A p \in Processors : procBuf[p] # readBuf
    BY <2>1
  <2> QED
    BY <2>1, <2>2, <2>3
<1>5. ASSUME NEW p \in Processors, TakeBuffer(p) PROVE Owners'
  <2>1. /\ procBuf' = [procBuf EXCEPT ![p] = dataChan[1]]
        /\ dataChan' = Tail(dataChan)
        /\ 1 \in DOMAIN dataChan /\ dataChan[1] \in Buffers
        /\ UNCHANGED <<readBuf, pool>>
    BY <1>5 DEF TakeBuffer
  <2>2. \A i \in DOMAIN dataChan' : i + 1 \in DOMAIN dataChan /\ i \in Nat \ {0}
                                    /\ dataChan'[i] = dataChan[i + 1]
    BY <2>1
  <2>3. \A i \in DOMAIN dataChan' : dataChan'[i] # dataChan[1]
    BY <2>1, <2>2
  <2>4. \A i, j \in DOMAIN dataChan' : dataChan'[i] = dataChan'[j] => i = j
    BY <2>2
  <2> QED
    BY <2>1, <2>2, <2>3, <2>4
<1>6. ASSUME NEW p \in Processors, ReleaseBuffer(p) PROVE Owners'
  BY <1>6 DEF ReleaseBuffer
<1>7. ASSUME Serve \/ ReadPacket \/ ReadFails PROVE Owners'
  BY <1>1, <1>2, <1>3, <1>4, <1>7 DEF Serve, Launch, StartServing, LeaveLoop, ReadPacket,
        ReadFails, DropPacket, SendPanics, CountPacket
<1>8. ASSUME StopServing \/ StopGoesOn \/ Finished PROVE Owners'
  BY <1>1, <1>8 DEF StopServing, StopGoesOn, StopTransport, StopChannel, StopWaited, Finished, vars
<1>9. ASSUME NEW p \in Processors, ProcessorExits(p) PROVE Owners'
  BY <1>1, <1>9 DEF ProcessorExits
<1>10. CASE UNCHANGED vars
  BY <1>1, <1>10 DEF vars
<1> QED
  BY <1>5, <1>6, <1>7, <1>8, <1>9, <1>10 DEF Next, ProcessBuffer

\* Told apart, the places of one buffer are one at most.
LEMMA OneOwner == Typed /\ Owners => BufferHasOneOwner
<1> SUFFICES ASSUME Typed, Owners, NEW b \in Buffers PROVE Places(b) <= 1
  BY DEF BufferHasOneOwner
<1> DEFINE I == {i \in DOMAIN dataChan : dataChan[i] = b}
           P == {p \in Processors : procBuf[p] = b}
<1>1. I = {} \/ \E i : I = {i}
  BY DEF Owners
<1>2. P = {} \/ \E p : P = {p}
  <2>1. b # NoBuffer
    BY AgentAssumption
  <2>2. \A p, q \in P : p = q
    BY <2>1 DEF Owners
  <2> HIDE DEF P
  <2>3. ASSUME NEW p \in P PROVE P = {p}
    BY <2>2, <2>3
  <2> QED
    BY <2>3
<1>3. /\ I # {} => P = {} /\ readBuf # b /\ b \notin pool
      /\ P # {} => readBuf # b /\ b \notin pool
      /\ readBuf = b => b \notin pool
  BY AgentAssumption DEF Owners
<1>4. /\ Cardinality(I) = IF I = {} THEN 0 ELSE 1
      /\ Cardinality(P) = IF P = {} THEN 0 ELSE 1
  BY <1>1, <1>2, FS_EmptySet, FS_Singleton
<1> HIDE DEF I, P
<1>5. Cardinality(I) + Cardinality(P) + (IF readBuf = b THEN 1 ELSE 0)
        + (IF b \in pool THEN 1 ELSE 0) <= 1
  BY <1>3, <1>4
<1> QED
  BY <1>5 DEF Places, I, P

-----------------------------------------------------------------------------
(* The gauge                                                               *)

Busy == {p \in Processors : processor[p] = "processing"}

LEMMA BusyFinite == IsFiniteSet(Busy) /\ Cardinality(Busy) \in Nat
<1>1. IsFiniteSet(Busy)
  BY AgentAssumption, FS_Subset DEF Busy
<1> QED
  BY <1>1, FS_CardinalityType

LEMMA GaugeInit == Init => QueueSizeAccounting
<1> SUFFICES ASSUME Init PROVE QueueSizeAccounting
  OBVIOUS
<1>1. Busy = {}
  BY DEF Init, Busy
<1>2. queueSize = 0 /\ Len(dataChan) = 0 /\ reader # "counting"
  BY DEF Init
<1> QED
  BY <1>1, <1>2, FS_EmptySet DEF QueueSizeAccounting, Busy

LEMMA GaugeStep == Typed /\ QueueSizeAccounting /\ [Next]_vars => QueueSizeAccounting'
<1> SUFFICES ASSUME Typed, QueueSizeAccounting, [Next]_vars PROVE QueueSizeAccounting'
  OBVIOUS
<1> USE DEF Typed, TypeOK, Phases, readerVars, serverVars, queueVars, processorVars
<1>0. queueSize = Len(dataChan) + Cardinality(Busy) - (IF reader = "counting" THEN 1 ELSE 0)
  BY DEF QueueSizeAccounting, Busy
<1>1. ASSUME queueSize' = Len(dataChan') + Cardinality(Busy')
                          - (IF reader' = "counting" THEN 1 ELSE 0)
      PROVE  QueueSizeAccounting'
  BY <1>1 DEF QueueSizeAccounting, Busy
<1>2. ASSUME UNCHANGED <<dataChan, queueSize>>, Busy' = Busy,
             reader' = "counting" <=> reader = "counting"
      PROVE  QueueSizeAccounting'
  BY <1>0, <1>1, <1>2
<1>3. ASSUME Launch PROVE QueueSizeAccounting'
  <2>1. Busy' = Busy
    BY <1>3 DEF Launch, Busy
  <2> QED
    BY <1>2, <1>3, <2>1 DEF Launch
<1>4. ASSUME StartServing \/ GetBuffer \/ LeaveLoop \/ ReadPacket \/ ReadFails \/ DropPacket
             \/ SendPanics \/ StopServing \/ StopGoesOn \/ UNCHANGED vars
      PROVE  QueueSizeAccounting'
  <2>1. UNCHANGED <<dataChan, queueSize, processor>>
    BY <1>4 DEF StartServing, GetBuffer, LeaveLoop, ReadPacket, ReadFails, DropPacket, SendPanics,
                StopServing, StopGoesOn, StopTransport, StopChannel, StopWaited, vars
  <2>2. reader' = "counting" <=> reader = "counting"
    BY <1>4 DEF StartServing, GetBuffer, LeaveLoop, ReadPacket, ReadFails, DropPacket, SendPanics,
                StopServing, StopGoesOn, StopTransport, StopChannel, StopWaited, BackToLoop, vars
  <2>3. Busy' = Busy
    BY <2>1 DEF Busy
  <2> QED
    BY <1>2, <2>1, <2>2, <2>3
<1>5. ASSUME SendPacket PROVE QueueSizeAccounting'
  <2>1. Busy' = Busy
    BY <1>5 DEF SendPacket, Busy
  <2>2. /\ Len(dataChan') = Len(dataChan) + 1 /\ queueSize' = queueSize
        /\ reader = "sending" /\ reader' = "counting"
    BY <1>5 DEF SendPacket
  <2> QED
    BY <1>0, <1>1, <2>1, <2>2, BusyFinite
<1>6. ASSUME CountPacket PROVE QueueSizeAccounting'
  <2>1. Busy' = Busy
    BY <1>6 DEF CountPacket, Busy
  <2>2. /\ dataChan' = dataChan /\ queueSize' = queueSize + 1
        /\ reader = "counting" /\ reader' = "loop"
    BY <1>6 DEF CountPacket, BackToLoop
  <2> QED
    BY <1>0, <1>1, <2>1, <2>2, BusyFinite
<1>7. ASSUME NEW p \in Processors, TakeBuffer(p) PROVE QueueSizeAccounting'
  <2>1. Busy' = Busy \union {p} /\ p \notin Busy
    BY <1>7 DEF TakeBuffer, Busy
  <2>2. Cardinality(Busy') = Cardinality(Busy) + 1
    BY <2>1, BusyFinite, FS_AddElement
  <2>3. Len(dataChan') = Len(dataChan) - 1 /\ UNCHANGED <<queueSize, reader>>
    BY <1>7 DEF TakeBuffer
  <2> QED
    BY <1>0, <1>1, <2>2, <2>3, BusyFinite
<1>8. ASSUME NEW p \in Processors, ReleaseBuffer(p) PROVE QueueSizeAccounting'
  <2>1. Busy' = Busy \ {p} /\ p \in Busy
    BY <1>8 DEF ReleaseBuffer, Busy
  <2>2. Cardinality(Busy') = Cardinality(Busy) - 1
    BY <2>1, BusyFinite, FS_RemoveElement
  <2>3. queueSize' = queueSize - 1 /\ UNCHANGED <<dataChan, reader>>
    BY <1>8 DEF ReleaseBuffer
  <2> QED
    BY <1>0, <1>1, <2>2, <2>3, BusyFinite
<1>9. ASSUME NEW p \in Processors, ProcessorExits(p) PROVE QueueSizeAccounting'
  <2>1. Busy' = Busy
    BY <1>9 DEF ProcessorExits, Busy
  <2> QED
    BY <1>2, <1>9, <2>1 DEF ProcessorExits
<1> QED
  BY <1>3, <1>4, <1>5, <1>6, <1>7, <1>8, <1>9 DEF Next, Serve, ProcessBuffer, Finished

-----------------------------------------------------------------------------
(* The theorems                                                            *)

LEMMA AInvInit == Init => AInv
BY TypedInit, StopInit, OwnersInit, GaugeInit DEF AInv

LEMMA AInvStep == AInv /\ [Next]_vars => AInv'
BY TypedStep, StopStep, OwnersStep, GaugeStep DEF AInv

\* The agent's intake keeps its inductive invariant.
THEOREM AgentInvariant == Spec => []AInv
BY AInvInit, AInvStep, PTL DEF Spec

\* The agent's state has its type.
THEOREM AgentTypeCorrect == Spec => []TypeOK
<1>1. AInv => TypeOK
  BY DEF AInv, Typed
<1> QED
  BY AgentInvariant, <1>1, PTL

\* No buffer is refilled by the reader, or queued a second time, while a packet
\* in it is queued or being handled.
THEOREM NoBufferIsShared == Spec => []BufferHasOneOwner
<1>1. AInv => BufferHasOneOwner
  BY OneOwner DEF AInv
<1> QED
  BY AgentInvariant, <1>1, PTL

\* The queue_size gauge is exact up to the packet being counted.
THEOREM GaugeIsExact == Spec => []QueueSizeAccounting
<1>1. AInv => QueueSizeAccounting
  BY DEF AInv
<1> QED
  BY AgentInvariant, <1>1, PTL

\* When Stop has returned, nothing is queued and nothing is being handled.
THEOREM StopLeavesNothing == Spec => []StopEmptiesQueue
<1>1. AInv => StopEmptiesQueue
  BY DEF AInv
<1> QED
  BY AgentInvariant, <1>1, PTL

-----------------------------------------------------------------------------
(* Part 2: Discovery                                                       *)

-----------------------------------------------------------------------------
(* Sequences                                                               *)

\* x is an element of s, none is twice in s, and the last one.
Among(s, x) == \E i \in DOMAIN s : s[i] = x
Once(s) == \A i, j \in DOMAIN s : s[i] = s[j] => i = j
Latest(s) == s[Len(s)]

\* What has been appended is the latest.
LEMMA Appended ==
  ASSUME NEW S, NEW s \in Seq(S), NEW e \in S
  PROVE  /\ Append(s, e) \in Seq(S) /\ Append(s, e) # <<>> /\ Latest(Append(s, e)) = e
         /\ \A x : Among(Append(s, e), x) <=> Among(s, x) \/ x = e
         /\ Once(s) /\ ~Among(s, e) => Once(Append(s, e))
<1> DEFINE a == Append(s, e)
           n == Len(s)
<1>1. /\ a \in Seq(S) /\ Len(a) = n + 1 /\ n \in Nat /\ a[n + 1] = e
      /\ \A i \in 1 .. n : a[i] = s[i]
  BY AppendProperties
<1>2. DOMAIN a = 1 .. n + 1 /\ DOMAIN s = 1 .. n
  BY <1>1
<1> HIDE DEF a, n
<1>3. a # <<>> /\ Latest(a) = e
  BY <1>1 DEF Latest
<1>4. ASSUME NEW x PROVE Among(a, x) <=> Among(s, x) \/ x = e
  <2>1. \A i \in 1 .. n + 1 : i \in 1 .. n \/ i = n + 1
    BY <1>1
  <2>2. \A i \in 1 .. n : i \in 1 .. n + 1
    BY <1>1
  <2>3. n + 1 \in 1 .. n + 1
    BY <1>1
  <2> QED
    BY <1>1, <1>2, <2>1, <2>2, <2>3 DEF Among
<1>5. ASSUME Once(s), ~Among(s, e), NEW i \in 1 .. n + 1, NEW j \in 1 .. n + 1, a[i] = a[j]
      PROVE  i = j
  <2>1. \A k \in 1 .. n : s[k] # e
    BY <1>2, <1>5 DEF Among
  <2>2. CASE i \in 1 .. n /\ j \in 1 .. n
    BY <1>1, <1>2, <1>5, <2>2 DEF Once
  <2>3. CASE i = n + 1 \/ j = n + 1
    <3>1. \A k \in 1 .. n + 1 : a[k] = e => k = n + 1
      BY <1>1, <2>1
    <3> QED
      BY <1>1, <1>5, <2>3, <3>1
  <2> QED
    BY <1>1, <2>2, <2>3
<1> QED
  BY <1>1, <1>2, <1>3, <1>4, <1>5 DEF a, Once

\* Without its first element a sequence has the same latest, if it has any.
LEMMA TailOf ==
  ASSUME NEW S, NEW s \in Seq(S), s # <<>>
  PROVE  /\ Head(s) \in S /\ Tail(s) \in Seq(S)
         /\ IF Tail(s) # <<>> THEN Latest(Tail(s)) = Latest(s) ELSE Head(s) = Latest(s)
         /\ \A x : Among(Tail(s), x) => Among(s, x)
         /\ \A x : Among(s, x) /\ x # Head(s) => Among(Tail(s), x)
         /\ Among(s, Head(s))
<1> DEFINE t == Tail(s)
           n == Len(s)
<1>1. /\ t \in Seq(S) /\ n \in Nat /\ n > 0 /\ Len(t) = n - 1
      /\ \A i \in 1 .. n - 1 : t[i] = s[i + 1]
      /\ Head(s) = s[1] /\ Head(s) \in S
  BY HeadTailProperties
<1>2. DOMAIN t = 1 .. n - 1 /\ DOMAIN s = 1 .. n
  BY <1>1
<1>3. t = <<>> <=> n = 1
  <2> HIDE DEF t, n
  <2>1. t = <<>> <=> Len(t) = 0
    BY <1>1, EmptySeq
  <2> QED
    BY <1>1, <2>1
<1> HIDE DEF t, n
<1>4. IF t # <<>> THEN Latest(t) = Latest(s) ELSE Head(s) = Latest(s)
  <2>1. CASE n = 1
    BY <1>1, <1>3, <2>1 DEF Latest, n
  <2>2. CASE n # 1
    <3>1. n - 1 \in 1 .. n - 1 /\ (n - 1) + 1 = n
      BY <1>1, <2>2
    <3>2. t[n - 1] = s[n]
      BY <1>1, <3>1
    <3> QED
      BY <1>1, <1>3, <2>2, <3>2 DEF Latest, n
  <2> QED
    BY <2>1, <2>2
<1>5. ASSUME NEW x, Among(t, x) PROVE Among(s, x)
  <2>1. PICK i \in 1 .. n - 1 : t[i] = x
    BY <1>2, <1>5 DEF Among
  <2>2. i + 1 \in 1 .. n
    BY <1>1
  <2> QED
    BY <1>1, <1>2, <2>1, <2>2 DEF Among
<1>6. ASSUME NEW x, Among(s, x), x # Head(s) PROVE Among(t, x)
  <2>1. PICK i \in 1 .. n : s[i] = x
    BY <1>2, <1>6 DEF Among
  <2>2. i - 1 \in 1 .. n - 1 /\ (i - 1) + 1 = i
    BY <1>1, <1>6, <2>1
  <2>3. t[i - 1] = x
    BY <1>1, <2>1, <2>2
  <2> QED
    BY <1>2, <2>2, <2>3 DEF Among
<1>7. Among(s, Head(s))
  <2>1. 1 \in 1 .. n
    BY <1>1
  <2> QED
    BY <1>1, <1>2, <2>1 DEF Among
<1> QED
  BY <1>1, <1>4, <1>5, <1>6, <1>7 DEF t

\* Cutting one element out.
LEMMA CutOut ==
  ASSUME NEW S, NEW s \in Seq(S), NEW k \in 1 .. Len(s)
  PROVE  /\ RemoveAt(s, k) \in Seq(S) /\ Len(RemoveAt(s, k)) = Len(s) - 1
         /\ \A i \in 1 .. Len(s) - 1 : RemoveAt(s, k)[i] = IF i < k THEN s[i] ELSE s[i + 1]
<1> DEFINE n == Len(s)
           a == SubSeq(s, 1, k - 1)
           b == SubSeq(s, k + 1, n)
<1>1. n \in Nat /\ k \in Nat /\ 1 <= k /\ k <= n /\ \A i \in 1 .. n : s[i] \in S
  OBVIOUS
<1> HIDE DEF n
<1>2. a \in Seq(S) /\ Len(a) = k - 1 /\ \A i \in 1 .. k - 1 : a[i] = s[i]
  <2>1. 1 \in Int /\ k - 1 \in Int /\ \A i \in 1 .. k - 1 : s[i] \in S
    BY <1>1
  <2>2. /\ a \in Seq(S) /\ Len(a) = IF 1 <= k - 1 THEN (k - 1) - 1 + 1 ELSE 0
        /\ \A i \in 1 .. (k - 1) - 1 + 1 : a[i] = s[1 + i - 1]
    <3> HIDE DEF a
    <3> QED
      BY <2>1, SubSeqProperties DEF a
  <2> HIDE DEF a
  <2>3. Len(a) = k - 1
    BY <1>1, <2>2
  <2>4. \A i \in 1 .. k - 1 : i \in 1 .. (k - 1) - 1 + 1 /\ 1 + i - 1 = i
    BY <1>1
  <2> QED
    BY <2>2, <2>3, <2>4
<1>3. b \in Seq(S) /\ Len(b) = n - k /\ \A i \in 1 .. n - k : b[i] = s[k + i]
  <2>1. k + 1 \in Int /\ n \in Int /\ \A i \in k + 1 .. n : s[i] \in S
    BY <1>1
  <2>2. /\ b \in Seq(S) /\ Len(b) = IF k + 1 <= n THEN n - (k + 1) + 1 ELSE 0
        /\ \A i \in 1 .. n - (k + 1) + 1 : b[i] = s[(k + 1) + i - 1]
    <3> HIDE DEF b
    <3> QED
      BY <2>1, SubSeqProperties DEF b
  <2> HIDE DEF b
  <2>3. Len(b) = n - k
    BY <1>1, <2>2
  <2>4. \A i \in 1 .. n - k : i \in 1 .. n - (k + 1) + 1 /\ (k + 1) + i - 1 = k + i
    BY <1>1
  <2> QED
    BY <2>2, <2>3, <2>4
<1>4. RemoveAt(s, k) = a \o b
  BY DEF RemoveAt, n
<1> HIDE DEF a, b
<1> DEFINE c == a \o b
<1>5. /\ c \in Seq(S) /\ Len(c) = Len(a) + Len(b)
      /\ \A i \in 1 .. Len(a) + Len(b) : c[i] = IF i <= Len(a) THEN a[i] ELSE b[i - Len(a)]
  BY <1>2, <1>3, ConcatProperties
<1> HIDE DEF c
<1>6. Len(c) = n - 1 /\ Len(a) + Len(b) = n - 1
  BY <1>1, <1>2, <1>3, <1>5
<1>7. ASSUME NEW i \in 1 .. n - 1 PROVE c[i] = IF i < k THEN s[i] ELSE s[i + 1]
  <2>1. c[i] = IF i <= Len(a) THEN a[i] ELSE b[i - Len(a)]
    BY <1>5, <1>6
  <2>2. CASE i < k
    <3>1. i <= Len(a) /\ i \in 1 .. k - 1
      BY <1>1, <1>2, <2>2
    <3> QED
      BY <1>2, <2>1, <2>2, <3>1
  <2>3. CASE ~(i < k)
    <3>1. ~(i <= Len(a)) /\ i - Len(a) = i - (k - 1) /\ i - (k - 1) \in 1 .. n - k
          /\ k + (i - (k - 1)) = i + 1
      BY <1>1, <1>2, <2>3
    <3> QED
      BY <1>3, <2>1, <2>3, <3>1
  <2> QED
    BY <2>2, <2>3
<1> QED
  BY <1>4, <1>5, <1>6, <1>7 DEF n, c

\* Removing an element that is there once, or not at all.
LEMMA FirstRemoved ==
  ASSUME NEW S, NEW s \in Seq(S), Once(s), NEW e
  PROVE  /\ RemoveFirst(s, e) \in Seq(S) /\ Once(RemoveFirst(s, e))
         /\ \A x : Among(RemoveFirst(s, e), x) <=> Among(s, x) /\ x # e
<1> DEFINE n == Len(s)
           r == RemoveFirst(s, e)
<1>1. n \in Nat /\ DOMAIN s = 1 .. n
  OBVIOUS
<1>2. CASE ~\E i \in 1 .. n : s[i] = e
  <2>1. r = s
    BY <1>2 DEF RemoveFirst
  <2> QED
    BY <1>1, <1>2, <2>1 DEF Among
<1>3. CASE \E i \in 1 .. n : s[i] = e
  <2>1. PICK k \in 1 .. n : s[k] = e
    BY <1>3
  <2>2. \A i \in 1 .. n : s[i] = e => i = k
    BY <1>1, <2>1 DEF Once
  <2>3. SelectInSeq(s, LAMBDA v : v = e) = k
    <3>1. {i \in 1 .. Len(s) : s[i] = e} = {k}
      BY <2>1, <2>2
    <3>2. Min({k}) = k
      BY <1>1 DEF Min
    <3> QED
      BY <3>1, <3>2 DEF SelectInSeq
  <2>4. r = RemoveAt(s, k)
    BY <1>3, <2>3 DEF RemoveFirst
  <2>5. /\ r \in Seq(S) /\ Len(r) = n - 1
        /\ \A i \in 1 .. n - 1 : r[i] = IF i < k THEN s[i] ELSE s[i + 1]
    BY <2>4, CutOut
  <2> HIDE DEF n, r
  <2>6. DOMAIN r = 1 .. n - 1
    BY <2>5
  <2>7. ASSUME NEW i \in 1 .. n - 1, NEW j \in 1 .. n - 1, r[i] = r[j] PROVE i = j
    <3> DEFINE at(l) == IF l < k THEN l ELSE l + 1
    <3>1. \A l \in 1 .. n - 1 : at(l) \in 1 .. n /\ r[l] = s[at(l)]
      BY <1>1, <2>5
    <3>2. \A l, m \in 1 .. n - 1 : at(l) = at(m) => l = m
      BY <1>1
    <3> HIDE DEF at
    <3>3. at(i) = at(j)
      BY <1>1, <2>7, <3>1 DEF Once
    <3> QED
      BY <3>2, <3>3
  <2>8. ASSUME NEW x, Among(r, x) PROVE Among(s, x) /\ x # e
    <3>1. PICK i \in 1 .. n - 1 : r[i] = x
      BY <2>6, <2>8 DEF Among
    <3>2. PICK j \in 1 .. n : s[j] = x /\ j # k
      BY <1>1, <2>5, <3>1
    <3> QED
      BY <1>1, <2>2, <3>2 DEF Among
  <2>9. ASSUME NEW x, Among(s, x), x # e PROVE Among(r, x)
    <3>1. PICK j \in 1 .. n : s[j] = x
      BY <1>1, <2>9 DEF Among
    <3>2. j # k
      BY <2>1, <2>9, <3>1
    <3>3. CASE j < k
      <4>1. j \in 1 .. n - 1 /\ r[j] = x
        BY <1>1, <2>5, <3>1, <3>3
      <4> QED
        BY <2>6, <4>1 DEF Among
    <3>4. CASE j > k
      <4>1. j - 1 \in 1 .. n - 1 /\ ~(j - 1 < k) /\ (j - 1) + 1 = j
        BY <1>1, <3>4
      <4>2. r[j - 1] = x
        BY <2>5, <3>1, <4>1
      <4> QED
        BY <2>6, <4>1, <4>2 DEF Among
    <3> QED
      BY <1>1, <3>2, <3>3, <3>4
  <2> QED
    BY <2>5, <2>6, <2>7, <2>8, <2>9 DEF r, Once
<1> QED
  BY <1>2, <1>3

-----------------------------------------------------------------------------
(* The inductive invariant                                                 *)

\* A run of ensureConnections lasts while a connection is missing.
TriesWhileMissing == trying # {} => missing > 0

DTyped == DTypeOK /\ TriesWhileMissing

\* Notify runs with the lock, on observers that are registered.
NotifyUnderLock ==
  /\ ~notifying => sending = <<>>
  /\ unsent => ~notifying
  /\ \A o \in Observer : Waiting(o) => Among(observers, o)

\* Who is registered, and whose channel is closed.
RegisteredWhile ==
  /\ Once(observers)
  /\ Among(observers, "manager") <=> manager \in {"running", "stopping"}
  /\ Among(observers, "resolver") <=> resolver \in {"new", "built", "failed"}
  /\ closed["manager"] => manager \in {"closing", "stopped"}
  /\ closed["resolver"] => resolver \in {"closing", "closed"}

\* Where the latest instances are for the manager: still to be sent, the last in its
\* channel, the set it is applying, or its peers.
ManagerHears ==
  /\ updating => listing \subseteq peers
  /\ manager \in {"new", "read"} => channel["manager"] = <<>> /\ ~updating
  /\ manager = "read" /\ ~missed => unsent \/ peers = instances
  /\ manager \in {"running", "stopping"} /\ ~missed =>
       \/ unsent \/ Waiting("manager")
       \/ IF channel["manager"] # <<>> THEN Latest(channel["manager"]) = instances
          ELSE IF updating THEN listing = instances ELSE peers = instances

\* And for the resolver, which reads them in Build.
ResolverHears ==
  /\ resolver = "none" => channel["resolver"] = <<>>
  /\ resolver \in {"new", "built"} =>
       \/ unsent \/ Waiting("resolver")
       \/ IF channel["resolver"] # <<>> THEN Latest(channel["resolver"]) = instances
          ELSE resolver = "built" => addresses \in Chosen(instances)

\* The invariant: where the instances that are answered now, or the duty to tell an
\* observer of them, can be.
Followed == NotifyUnderLock /\ RegisteredWhile /\ ManagerHears /\ ResolverHears

DiscoveryInv == DTyped /\ Followed

-----------------------------------------------------------------------------
(* Its types                                                               *)

\* The types hold at first.
LEMMA DTypedInit == ASSUME DInit PROVE DTyped
<1>1. /\ channel \in [Observer -> Seq(SUBSET Instance)]
      /\ \A o \in Observer : Len(channel[o]) <= Capacity
  BY SizeAssumption DEF DInit
<1>2. sending \in Seq(Observer) /\ observers \in Seq(Observer)
  BY DEF DInit
<1>3. changes \in 0 .. MaxChanges /\ missing \in 0 .. MinPeers /\ faults \in 0 .. MaxFaults
  BY SizeAssumption, BoundAssumption DEF DInit
<1> QED
  BY <1>1, <1>2, <1>3 DEF DInit, DTyped, DTypeOK, TriesWhileMissing

\* What ensureConnections starts with is at least one and at most minPeers.
LEMMA Missing ==
  ASSUME DTyped, NumConnected < Smaller(MinPeers, Cardinality(peers))
  PROVE  Smaller(MinPeers, Cardinality(peers)) - NumConnected \in 1 .. MinPeers
<1>1. IsFiniteSet(peers) /\ IsFiniteSet(peers \cap connected)
  BY InstanceAssumption, FS_Subset DEF DTyped, DTypeOK
<1>2. Cardinality(peers) \in Nat /\ Cardinality(peers \cap connected) \in Nat
  BY <1>1, FS_CardinalityType
<1>3. NumConnected = Cardinality(peers \cap connected)
  BY DEF NumConnected
<1> QED
  BY <1>2, <1>3, SizeAssumption DEF Smaller

\* A channel without its first set.
LEMMA Received ==
  ASSUME DTyped, NEW o \in Observer, channel[o] # <<>>,
         channel' = [channel EXCEPT ![o] = Tail(@)]
  PROVE  /\ channel' \in [Observer -> Seq(SUBSET Instance)]
         /\ \A p \in Observer : Len(channel'[p]) <= Capacity
         /\ Head(channel[o]) \in SUBSET Instance
         /\ IF channel'[o] # <<>> THEN Latest(channel'[o]) = Latest(channel[o])
            ELSE Head(channel[o]) = Latest(channel[o])
         /\ \A p \in Observer : p # o => channel'[p] = channel[p]
<1>1. /\ channel[o] \in Seq(SUBSET Instance) /\ Capacity \in Nat
      /\ channel \in [Observer -> Seq(SUBSET Instance)]
      /\ \A p \in Observer : Len(channel[p]) <= Capacity
  BY SizeAssumption DEF DTyped, DTypeOK
<1>2. channel'[o] = Tail(channel[o]) /\ \A p \in Observer : p # o => channel'[p] = channel[p]
  BY <1>1
<1>3. /\ Head(channel[o]) \in SUBSET Instance /\ Tail(channel[o]) \in Seq(SUBSET Instance)
      /\ IF Tail(channel[o]) # <<>> THEN Latest(Tail(channel[o])) = Latest(channel[o])
         ELSE Head(channel[o]) = Latest(channel[o])
  BY <1>1, TailOf
<1>4. Len(Tail(channel[o])) = Len(channel[o]) - 1 /\ Len(channel[o]) \in Nat
  BY <1>1, HeadTailProperties
<1>5. \A p \in Observer : Len(channel'[p]) <= Capacity
  BY <1>1, <1>2, <1>4
<1>6. channel' \in [Observer -> Seq(SUBSET Instance)]
  BY <1>1, <1>3
<1> QED
  BY <1>2, <1>3, <1>5, <1>6

\* Every step keeps the types; Unregister does because nobody is registered twice.
LEMMA DTypedStep ==
  ASSUME DTyped, Once(observers), [DNext]_dvars
  PROVE  DTyped'
<1> USE DEF DTyped, DTypeOK, TriesWhileMissing, systemVars, notifierVars, connectVars,
           managerVars, resolverVars
<1>1. "manager" \in Observer /\ "resolver" \in Observer /\ "manager" # "resolver"
      /\ \A o \in Observer : o = "manager" \/ o = "resolver"
  BY DEF Observer
<1>2. ASSUME Change PROVE DTyped'
  BY <1>2, BoundAssumption DEF Change
<1>3. ASSUME NotifyLocks PROVE DTyped'
  BY <1>3 DEF NotifyLocks
<1>4. ASSUME NotifySends PROVE DTyped'
  <2> DEFINE o == Head(sending)
  <2>1. o \in Observer /\ sending' \in Seq(Observer)
    BY <1>4, HeadTailProperties DEF NotifySends
  <2>2. /\ channel[o] \in Seq(SUBSET Instance) /\ instances \in SUBSET Instance
        /\ Len(channel[o]) < Capacity /\ channel' = [channel EXCEPT ![o] = Append(@, instances)]
    BY <1>4, <2>1 DEF NotifySends
  <2> HIDE DEF o
  <2>3. /\ Append(channel[o], instances) \in Seq(SUBSET Instance)
        /\ Len(Append(channel[o], instances)) = Len(channel[o]) + 1 /\ Len(channel[o]) \in Nat
    BY <2>2, AppendProperties
  <2>4. /\ channel' \in [Observer -> Seq(SUBSET Instance)]
        /\ \A p \in Observer : Len(channel'[p]) <= Capacity
    BY <2>1, <2>2, <2>3, SizeAssumption
  <2> QED
    BY <1>4, <2>1, <2>4 DEF NotifySends
<1>5. ASSUME NotifyUnlocks PROVE DTyped'
  BY <1>5 DEF NotifyUnlocks
<1>6. ASSUME NewReads PROVE DTyped'
  BY <1>6 DEF NewReads
<1>7. ASSUME NewRegisters \/ ResolverNew PROVE DTyped'
  <2>1. PICK o \in Observer : observers' = Append(observers, o)
    BY <1>1, <1>7 DEF NewRegisters, ResolverNew, Register
  <2>2. observers' \in Seq(Observer)
    BY <2>1, AppendProperties
  <2> QED
    BY <1>7, <2>2 DEF NewRegisters, ResolverNew
<1>8. ASSUME UpdatePeersAdds PROVE DTyped'
  <2>1. /\ channel["manager"] # <<>> /\ channel' = [channel EXCEPT !["manager"] = Tail(@)]
        /\ listing' = Head(channel["manager"]) /\ peers' = peers \cup Head(channel["manager"])
    BY <1>8 DEF UpdatePeersAdds
  <2>2. /\ channel' \in [Observer -> Seq(SUBSET Instance)]
        /\ \A p \in Observer : Len(channel'[p]) <= Capacity
        /\ listing' \subseteq Instance /\ peers' \subseteq Instance
    BY <1>1, <2>1, Received
  <2> QED
    BY <1>8, <2>2 DEF UpdatePeersAdds
<1>9. ASSUME UpdatePeersRemoves PROVE DTyped'
  BY <1>9 DEF UpdatePeersRemoves
<1>10. ASSUME EnsureConnections PROVE DTyped'
  <2>1. missing' \in 1 .. MinPeers /\ MinPeers \in Nat
    BY <1>10, Missing, SizeAssumption DEF EnsureConnections
  <2> QED
    BY <1>10, <2>1 DEF EnsureConnections
<1>11. ASSUME NEW i \in Instance, Connects(i) PROVE DTyped'
  BY <1>11, SizeAssumption, BoundAssumption DEF Connects
<1>12. ASSUME NEW i \in Instance, ConnectFails(i) PROVE DTyped'
  BY <1>12, SizeAssumption, BoundAssumption DEF ConnectFails
<1>13. ASSUME NEW i \in Instance, Drop(i) PROVE DTyped'
  BY <1>13, SizeAssumption, BoundAssumption DEF Drop
<1>14. ASSUME Stop \/ StopWaits PROVE DTyped'
  BY <1>14 DEF Stop, StopWaits
<1>15. ASSUME StopUnregisters PROVE DTyped'
  <2>1. observers' \in Seq(Observer)
    BY <1>15, FirstRemoved DEF StopUnregisters, Unregister
  <2> QED
    BY <1>15, <2>1 DEF StopUnregisters
<1>16. ASSUME Close PROVE DTyped'
  <2>1. observers' \in Seq(Observer)
    BY <1>16, FirstRemoved DEF Close, Unregister
  <2> QED
    BY <1>16, <2>1 DEF Close
<1>17. \A S : Chosen(S) \subseteq SUBSET S
  BY DEF Chosen
<1>18. ASSUME Build PROVE DTyped'
  BY <1>17, <1>18 DEF Build
<1>19. ASSUME Watch PROVE DTyped'
  <2>1. /\ channel["resolver"] # <<>> /\ channel' = [channel EXCEPT !["resolver"] = Tail(@)]
        /\ addresses' \in Chosen(Head(channel["resolver"]))
    BY <1>19 DEF Watch
  <2>2. /\ channel' \in [Observer -> Seq(SUBSET Instance)]
        /\ \A p \in Observer : Len(channel'[p]) <= Capacity
        /\ Head(channel["resolver"]) \subseteq Instance
    BY <1>1, <2>1, Received
  <2>3. addresses' \subseteq Instance
    BY <1>17, <2>1, <2>2
  <2> QED
    BY <1>19, <2>2, <2>3 DEF Watch
<1>20. ASSUME BuildFails \/ CloseWaits PROVE DTyped'
  BY <1>20 DEF BuildFails, CloseWaits
<1>21. CASE UNCHANGED dvars
  BY <1>21 DEF dvars
<1> QED
  BY <1>2, <1>3, <1>4, <1>5, <1>6, <1>7, <1>8, <1>9, <1>10, <1>11, <1>12, <1>13, <1>14, <1>15,
     <1>16, <1>18, <1>19, <1>20, <1>21
  DEF DNext, Notify, UpdatePeers, Try

-----------------------------------------------------------------------------
(* What observers hear                                                     *)

\* Before the first change the manager is yet to read and nobody is registered.
LEMMA FollowedInit == DInit => Followed
<1> SUFFICES ASSUME DInit PROVE Followed
  OBVIOUS
<1>1. \A x : ~Among(<<>>, x)
  BY DEF Among
<1> QED
  BY <1>1 DEF DInit, Followed, NotifyUnderLock, RegisteredWhile,
              ManagerHears, ResolverHears, Waiting, Once, Observer

\* A notification that has been sent is the latest of its observer's channel, and the
\* others' is still to come.
LEMMA NotifySendsKeeps ==
  ASSUME DTyped, Followed, NotifySends
  PROVE  Followed'
<1> DEFINE o == Head(sending)
<1>1. /\ sending # <<>> /\ notifying /\ sending' = Tail(sending)
      /\ channel' = [channel EXCEPT ![o] = Append(@, instances)]
      /\ missed' = (missed /\ o # "manager")
      /\ UNCHANGED <<systemVars, notifying, observers, closed, connectVars>>
      /\ UNCHANGED <<manager, peers, listing, updating, resolverVars>>
  BY DEF NotifySends
<1>2. /\ o \in Observer /\ Tail(sending) \in Seq(Observer)
      /\ \A x : Among(sending', x) => Among(sending, x)
      /\ \A x : Among(sending, x) /\ x # o => Among(sending', x)
      /\ Among(sending, o)
  BY <1>1, TailOf DEF DTyped, DTypeOK
<1> HIDE DEF o
<1>3. /\ channel[o] \in Seq(SUBSET Instance) /\ instances \in SUBSET Instance
      /\ instances' = instances /\ DOMAIN channel = Observer
  BY <1>1, <1>2 DEF DTyped, DTypeOK, systemVars
<1>4. /\ Append(channel[o], instances) \in Seq(SUBSET Instance)
      /\ Append(channel[o], instances) # <<>>
      /\ Latest(Append(channel[o], instances)) = instances
  BY <1>3, Appended
<1>5. /\ channel' \in [Observer -> Seq(SUBSET Instance)]
      /\ channel'[o] # <<>> /\ Latest(channel'[o]) = instances
      /\ \A p \in Observer : p # o => channel'[p] = channel[p]
  BY <1>1, <1>2, <1>4 DEF DTyped, DTypeOK
<1>6. \A p : (Waiting(p) <=> Among(sending, p)) /\ (Waiting(p)' <=> Among(sending', p))
  BY DEF Waiting, Among
<1>7. NotifyUnderLock'
  BY <1>1, <1>2, <1>6 DEF Followed, NotifyUnderLock, systemVars
<1>8. RegisteredWhile'
  BY <1>1 DEF Followed, RegisteredWhile, resolverVars
<1>9. o = "manager" => Among(observers, "manager")
  BY <1>2, <1>6 DEF Followed, NotifyUnderLock
<1>10. o = "resolver" => Among(observers, "resolver")
  BY <1>2, <1>6 DEF Followed, NotifyUnderLock
<1>11. ManagerHears'
  <2>1. CASE o = "manager"
    BY <1>1, <1>3, <1>5, <1>9, <2>1 DEF Followed, RegisteredWhile, ManagerHears, systemVars
  <2>2. CASE o # "manager"
    BY <1>1, <1>2, <1>3, <1>5, <1>6, <2>2 DEF Followed, ManagerHears, systemVars, Observer
  <2> QED
    BY <2>1, <2>2
<1>12. ResolverHears'
  <2>1. CASE o = "resolver"
    BY <1>1, <1>3, <1>5, <1>10, <2>1 DEF Followed, RegisteredWhile, ResolverHears, resolverVars
  <2>2. CASE o # "resolver"
    BY <1>1, <1>2, <1>3, <1>5, <1>6, <2>2
    DEF Followed, ResolverHears, systemVars, resolverVars, Observer
  <2> QED
    BY <2>1, <2>2
<1> QED
  BY <1>7, <1>8, <1>11, <1>12 DEF Followed

\* A list of observers with one more.
LEMMA RegisterKeeps ==
  ASSUME DTyped, Followed, NEW o \in Observer, Register(o), ~Among(observers, o)
  PROVE  /\ observers' \in Seq(Observer) /\ Once(observers')
         /\ \A p : Among(observers', p) <=> Among(observers, p) \/ p = o
BY Appended DEF Followed, DTyped, DTypeOK, RegisteredWhile, Register

\* A list of observers without one.
LEMMA UnregisterKeeps ==
  ASSUME DTyped, Followed, NEW o \in Observer, Unregister(o)
  PROVE  /\ observers' \in Seq(Observer) /\ Once(observers')
         /\ \A p : Among(observers', p) <=> Among(observers, p) /\ p # o
BY FirstRemoved DEF Followed, DTyped, DTypeOK, RegisteredWhile, Unregister

\* Every step of the dispatcher, the manager and the resolver keeps it.
LEMMA FollowedStep == DTyped /\ Followed /\ [DNext]_dvars => Followed'
<1> SUFFICES ASSUME DTyped, Followed, [DNext]_dvars PROVE Followed'
  OBVIOUS
<1> USE DEF Followed, DTyped, DTypeOK, NotifyUnderLock, RegisteredWhile, ManagerHears, ResolverHears,
           Waiting, systemVars, notifierVars, connectVars, managerVars,
           resolverVars
<1>1. "manager" \in Observer /\ "resolver" \in Observer /\ "manager" # "resolver"
      /\ \A o \in Observer : o = "manager" \/ o = "resolver"
  BY DEF Observer
<1>2. ASSUME Change PROVE Followed'
  BY <1>2 DEF Change
<1>3. ASSUME NotifyLocks PROVE Followed'
  BY <1>1, <1>3 DEF NotifyLocks, Among
<1>4. ASSUME NotifySends PROVE Followed'
  BY <1>4, NotifySendsKeeps
<1>5. ASSUME NotifyUnlocks PROVE Followed'
  BY <1>5 DEF NotifyUnlocks
<1>6. ASSUME NewReads PROVE Followed'
  BY <1>6 DEF NewReads
<1>7. ASSUME NewRegisters PROVE Followed'
  <2>1. /\ observers' \in Seq(Observer) /\ Once(observers')
        /\ \A p : Among(observers', p) <=> Among(observers, p) \/ p = "manager"
    BY <1>1, <1>7, RegisterKeeps DEF NewRegisters
  <2> QED
    BY <1>1, <1>7, <2>1 DEF NewRegisters
<1>8. ASSUME UpdatePeersAdds PROVE Followed'
  <2>1. /\ channel["manager"] # <<>> /\ channel' = [channel EXCEPT !["manager"] = Tail(@)]
        /\ listing' = Head(channel["manager"]) /\ peers' = peers \cup listing' /\ updating'
    BY <1>8 DEF UpdatePeersAdds
  <2>2. /\ channel' \in [Observer -> Seq(SUBSET Instance)]
        /\ IF channel'["manager"] # <<>>
           THEN Latest(channel'["manager"]) = Latest(channel["manager"])
           ELSE listing' = Latest(channel["manager"])
        /\ channel'["resolver"] = channel["resolver"]
    BY <1>1, <2>1, Received
  <2> QED
    BY <1>1, <1>8, <2>1, <2>2 DEF UpdatePeersAdds
<1>9. ASSUME UpdatePeersRemoves PROVE Followed'
  BY <1>9 DEF UpdatePeersRemoves
<1>10. ASSUME EnsureConnections \/ \E i \in Instance : Try(i) \/ Drop(i) PROVE Followed'
  <2>1. UNCHANGED <<systemVars, notifierVars, managerVars, resolverVars>>
    BY <1>10 DEF EnsureConnections, Try, Connects, ConnectFails, Drop
  <2> QED
    BY <2>1
<1>11. ASSUME Stop PROVE Followed'
  BY <1>11 DEF Stop
<1>12. ASSUME StopUnregisters PROVE Followed'
  <2>1. /\ observers' \in Seq(Observer) /\ Once(observers')
        /\ \A p : Among(observers', p) <=> Among(observers, p) /\ p # "manager"
    BY <1>1, <1>12, UnregisterKeeps DEF StopUnregisters
  <2>2. \A o \in Observer : ~Waiting(o)
    BY <1>12 DEF StopUnregisters, Unregister
  <2> QED
    BY <1>1, <1>12, <2>1, <2>2 DEF StopUnregisters
<1>13. ASSUME StopWaits PROVE Followed'
  BY <1>13 DEF StopWaits
<1>14. ASSUME ResolverNew PROVE Followed'
  <2>1. /\ observers' \in Seq(Observer) /\ Once(observers')
        /\ \A p : Among(observers', p) <=> Among(observers, p) \/ p = "resolver"
    BY <1>1, <1>14, RegisterKeeps DEF ResolverNew
  <2> QED
    BY <1>1, <1>14, <2>1 DEF ResolverNew
<1>15. ASSUME Build PROVE Followed'
  BY <1>15 DEF Build
<1>16. ASSUME BuildFails PROVE Followed'
  BY <1>16 DEF BuildFails
<1>17. ASSUME Watch PROVE Followed'
  <2>1. /\ channel["resolver"] # <<>> /\ channel' = [channel EXCEPT !["resolver"] = Tail(@)]
        /\ addresses' \in Chosen(Head(channel["resolver"])) /\ instances' = instances
    BY <1>17 DEF Watch
  <2>2. /\ channel' \in [Observer -> Seq(SUBSET Instance)]
        /\ IF channel'["resolver"] # <<>>
           THEN Latest(channel'["resolver"]) = Latest(channel["resolver"])
           ELSE Head(channel["resolver"]) = Latest(channel["resolver"])
        /\ channel'["manager"] = channel["manager"]
    BY <1>1, <2>1, Received
  <2>3. Chosen(instances)' = Chosen(instances)
    BY <2>1 DEF Chosen, Smaller
  <2> QED
    BY <1>1, <1>17, <2>1, <2>2, <2>3 DEF Watch
<1>18. ASSUME Close PROVE Followed'
  <2>1. /\ observers' \in Seq(Observer) /\ Once(observers')
        /\ \A p : Among(observers', p) <=> Among(observers, p) /\ p # "resolver"
    BY <1>1, <1>18, UnregisterKeeps DEF Close
  <2>2. \A o \in Observer : ~Waiting(o)
    BY <1>18 DEF Close, Unregister
  <2> QED
    BY <1>1, <1>18, <2>1, <2>2 DEF Close
<1>19. ASSUME CloseWaits PROVE Followed'
  BY <1>19 DEF CloseWaits
<1>20. CASE UNCHANGED dvars
  BY <1>20 DEF dvars
<1> QED
  BY <1>2, <1>3, <1>4, <1>5, <1>6, <1>7, <1>8, <1>9, <1>10, <1>11, <1>12, <1>13, <1>14, <1>15,
     <1>16, <1>17, <1>18, <1>19, <1>20
  DEF DNext, Notify, UpdatePeers

-----------------------------------------------------------------------------
(* The theorems                                                            *)

\* The types hold, and the latest instances are always with the manager (when it
\* missed no change) and with the resolver, or on their way to them.
THEOREM DiscoveryInvariant == DSpec => []DiscoveryInv
<1>1. DInit => DiscoveryInv
  BY DTypedInit, FollowedInit DEF DiscoveryInv
<1>2. DiscoveryInv /\ [DNext]_dvars => DiscoveryInv'
  BY DTypedStep, FollowedStep DEF DiscoveryInv, Followed, RegisteredWhile
<1> QED
  BY <1>1, <1>2, PTL DEF DSpec

\* The state of the dispatcher and its observers has its type.
THEOREM DiscoveryTypeCorrect == DSpec => []DTypeOK
<1>1. DiscoveryInv => DTypeOK
  BY DEF DiscoveryInv, DTyped
<1> QED
  BY <1>1, DiscoveryInvariant, PTL

\* The manager that missed no change and the resolver that was built have what
\* Instances() answers, or the right ones of it, whenever nothing is under way to them.
THEOREM ObserversAreSettled == DSpec => []ObserversSettle
<1>1. DiscoveryInv => ObserversSettle
  BY DEF DiscoveryInv, Followed, ManagerHears, ResolverHears, ObserversSettle, Coming
<1> QED
  BY <1>1, DiscoveryInvariant, PTL

\* Notify never sends to a channel that Stop or Close has closed.
THEOREM ChannelsStayOpen == DSpec => []NoSendOnClosed
<1>1. DiscoveryInv => NoSendOnClosed
  BY DEF DiscoveryInv, Followed, NotifyUnderLock, RegisteredWhile, NoSendOnClosed, Observer
<1> QED
  BY <1>1, DiscoveryInvariant, PTL
=============================================================================
