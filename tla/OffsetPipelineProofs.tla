------------------------ MODULE OffsetPipelineProofs ------------------------
(***************************************************************************)
(* Proofs about OffsetPipeline, for any number of workers, any log, any    *)
(* retry limit, any number of sessions and crashes: its inductive          *)
(* invariant IInv, the safety properties that follow from it, and that the *)
(* pipeline implements AtLeastOnce.                                        *)
(***************************************************************************)
EXTENDS OffsetPipeline, TLAPS

\* What of the session's goroutines exists, by the handler's progress.
Phases ==
  /\ handler = "off" => ~started
  /\ handler \in {"offering", "closing", "closed"} => started
  /\ ~started => /\ manager = "off" /\ list = {} /\ taken = {}
                 /\ \A w \in Workers : worker[w] = "off"
  /\ handler = "closed" => \A w \in Workers : worker[w] = "exited"

\* The offsets that assignments are made of come in the order of the
\* assignments, up to what is committed now.
Assignments ==
  /\ from <= committed
  /\ \A i \in 1..Len(claims) : from <= claims[i] /\ claims[i] <= committed
  /\ \A i, j \in 1..Len(claims) : i <= j => claims[i] <= claims[j]

\* The offsets of the commit are in order, and all below them is handled.  A
\* session's own frontier starts where its assignment says, which may lie
\* below what the session before it has marked in the meantime.
Frontier ==
  /\ committed <= marked /\ marked <= LogEnd /\ next <= LogEnd + 1
  /\ \A o \in 0..marked : o \in handled
  /\ handler = "select" /\ ~started => next = from + 1
  /\ started => /\ from <= lastCommitted /\ lastCommitted < next
                /\ \A o \in 0..lastCommitted : o \in handled

\* The list and what the manager has taken out of it: two disjoint sets of
\* handled offsets, of which the last committed one is the smallest.
ListOrder ==
  /\ \A o \in list : o \notin taken
  /\ \A o \in list \union taken : lastCommitted <= o /\ o < next
                                  /\ (o \in handled \/ o = -1)
  /\ manager = "waiting" => lastCommitted \in list /\ taken = {}
  /\ manager = "computing" => lastCommitted \in taken
  /\ manager = "marking" => /\ taken = {} /\ highest \in list
                            /\ lastCommitted <= highest
                            /\ \A o \in list : highest <= o
                            /\ \A o \in 0..highest : o \in handled

\* The offset o is still to come to the manager.
Above(o) ==
  /\ lastCommitted < o /\ o < next
  /\ o \notin list \union taken
  /\ manager = "marking" => highest < o

\* The offsets in the workers' hands and in the handler's are all different
\* and all still to come, and none is handled twice in a session.
Flights ==
  /\ \A w \in InFlight : /\ inHand[w] \in Nat /\ Above(inHand[w])
                         /\ worker[w] = "succeeded" => inHand[w] \in handled
                         /\ worker[w] = "processing" => inHand[w] \notin handledHere
                         /\ handler = "offering" => inHand[w] # message
  /\ \A v, w \in InFlight : v # w => inHand[v] # inHand[w]
  /\ handler = "offering" => message = next - 1 /\ Above(message) /\ message \notin handledHere
  /\ handler # "off" => \A o \in handledHere : o < next

IInv == TypeOK /\ Phases /\ Assignments /\ Frontier /\ ListOrder /\ Flights

\* What the manager computes starts at the last committed offset: the run up
\* to the highest contiguous offset leaves nothing out.
LEMMA HeadOfTheRun ==
  ASSUME IInv, manager = "computing", NEW h \in taken, HighestContiguous(taken, h)
  PROVE  lastCommitted <= h /\ lastCommitted..h \subseteq taken
<1>1. PICK lowest \in taken : /\ \A o \in taken : lowest <= o
                              /\ lowest <= h /\ lowest..h \subseteq taken
  BY DEF HighestContiguous
<1>2. lastCommitted \in taken /\ \A o \in taken : lastCommitted <= o
  BY DEF IInv, ListOrder
<1>3. lowest \in Int /\ lastCommitted \in Int
  BY DEF IInv, TypeOK, Offsets
<1>4. lowest = lastCommitted
  BY <1>1, <1>2, <1>3
<1> QED
  BY <1>1, <1>4

-----------------------------------------------------------------------------
(* Every action preserves every part of the invariant                      *)

\* The offsets handled are message offsets because what a worker
\* has in hand is (Flights).
LEMMA TypeStep == IInv /\ [Next]_vars => TypeOK'
<1> SUFFICES ASSUME IInv, [Next]_vars PROVE TypeOK'
  OBVIOUS
<1> USE PipelineAssumption DEF IInv, TypeOK, Offsets,
    claimVars, handlerVars, workerVars, managerVars, kafkaVars, storeVars, boundVars
<1>0. ASSUME StartSession PROVE TypeOK'
  BY <1>0 DEF StartSession
<1>1. ASSUME Assign PROVE TypeOK'
  BY <1>1 DEF Assign
<1>2. ASSUME ReadMessage PROVE TypeOK'
  <2>1. CASE started
    <3>1. UNCHANGED <<started, workerVars, managerVars>>
      BY Zenon, <1>2, <2>1 DEF ReadMessage
    <3> QED
      BY <1>2, <3>1 DEF ReadMessage
  <2>2. CASE ~started
    <3>1. StartProcessor
      BY Zenon, <1>2, <2>2 DEF ReadMessage
    <3>2. started' \in BOOLEAN
      BY Zenon, <3>1 DEF StartProcessor
    <3> QED
      BY <1>2, <3>1, <3>2 DEF ReadMessage, StartProcessor
  <2> QED
    BY <2>1, <2>2
<1>3. ASSUME EndSession PROVE TypeOK'
  BY <1>3 DEF EndSession
<1>4. ASSUME NEW w \in Workers, HandOver(w) PROVE TypeOK'
  BY <1>4 DEF HandOver
<1>5. ASSUME NEW w \in Workers, AttemptSucceeds(w) PROVE TypeOK'
  <2>1. inHand[w] \in Nat
    BY <1>5 DEF AttemptSucceeds, Flights, InFlight
  <2>2. handled' \subseteq Nat /\ handledHere' \subseteq Nat
    BY <1>5, <2>1 DEF AttemptSucceeds, RecordHandled
  <2>3. attempts' \in [Workers -> 0..MaxAttempts]
    BY <1>5 DEF AttemptSucceeds
  <2> QED
    BY <1>5, <2>2, <2>3 DEF AttemptSucceeds, RecordHandled
<1>6. ASSUME NEW w \in Workers, AttemptFails(w) PROVE TypeOK'
  BY <1>6 DEF AttemptFails
<1>7. ASSUME NEW w \in Workers, RetriesExhausted(w) PROVE TypeOK'
  <2>1. inHand[w] \in Nat
    BY <1>7 DEF RetriesExhausted, Flights, InFlight
  <2>2. handled' \subseteq Nat /\ handledHere' \subseteq Nat
    BY <1>7, <2>1 DEF RetriesExhausted, RecordHandled
  <2>3. attempts' \in [Workers -> 0..MaxAttempts]
    BY <1>7 DEF RetriesExhausted
  <2>4. UNCHANGED <<claimVars, handlerVars, managerVars, kafkaVars, boundVars>>
    BY <1>7 DEF RetriesExhausted
  <2>5. worker' \in [Workers -> {"off", "idle", "processing", "succeeded", "exited"}]
        /\ inHand' \in [Workers -> Offsets]
    <3>1. CASE PropagateError
      BY <1>7, <3>1 DEF RetriesExhausted, WorkerFree
    <3>2. CASE ~PropagateError
      BY <1>7, <3>2 DEF RetriesExhausted
    <3> QED
      BY <3>1, <3>2
  <2> QED
    BY <2>2, <2>3, <2>4, <2>5
<1>8. ASSUME NEW w \in Workers, InsertOffset(w) PROVE TypeOK'
  BY <1>8 DEF InsertOffset, WorkerFree
<1>9. ASSUME NEW w \in Workers, WorkerExits(w) PROVE TypeOK'
  BY <1>9 DEF WorkerExits
<1>10. ASSUME TakeList PROVE TypeOK'
  BY <1>10 DEF TakeList
<1>11. ASSUME PutBack PROVE TypeOK'
  BY <1>11 DEF PutBack
<1>12. ASSUME Mark PROVE TypeOK'
  BY <1>12 DEF Mark
<1>13. ASSUME WorkersClosed PROVE TypeOK'
  BY <1>13 DEF WorkersClosed
<1>14. ASSUME ManagerExits PROVE TypeOK'
  BY <1>14 DEF ManagerExits
<1>15. ASSUME Release PROVE TypeOK'
  <2>1. SessionGone /\ committed' \in Offsets
    BY <1>15 DEF Release
  <2>2. started' \in BOOLEAN
    BY Zenon, <2>1 DEF SessionGone
  <2> QED
    BY <1>15, <2>1, <2>2 DEF Release, SessionGone
<1>16. ASSUME CommitMarked PROVE TypeOK'
  BY <1>16 DEF CommitMarked
<1>17. ASSUME Crash PROVE TypeOK'
  <2>1. SessionGone /\ committed' \in Offsets
    BY <1>17 DEF Crash
  <2>2. started' \in BOOLEAN
    BY Zenon, <2>1 DEF SessionGone
  <2> QED
    BY <1>17, <2>1, <2>2 DEF Crash, SessionGone
<1>18. ASSUME UNCHANGED vars PROVE TypeOK'
  BY <1>18 DEF vars
<1> QED
  BY <1>0, <1>1, <1>2, <1>3, <1>4, <1>5, <1>6, <1>7, <1>8, <1>9,
     <1>10, <1>11, <1>12, <1>13, <1>14, <1>15, <1>16, <1>17, <1>18
  DEF Next, Work, Manage, Close, Finished

\* The commits grow, so each assignment lies above the last.
LEMMA AssignmentsStep == IInv /\ [Next]_vars => Assignments'
<1> SUFFICES ASSUME IInv, [Next]_vars PROVE Assignments'
  OBVIOUS
<1>0. /\ claims \in Seq(Offsets) /\ from \in Int /\ committed \in Int /\ marked \in Int
      /\ committed <= marked
      /\ \A i \in 1..Len(claims) : claims[i] \in Int
  BY DEF IInv, TypeOK, Offsets, Frontier
<1>1. ASSUME UNCHANGED claimVars, committed' \in {committed, marked} PROVE Assignments'
  <2>1. committed' \in Int /\ committed <= committed'
    BY <1>0, <1>1
  <2> QED
    BY <1>0, <1>1, <2>1 DEF IInv, Assignments, claimVars
<1>2. ASSUME Assign PROVE Assignments'
  <2>1. /\ claims' = Append(claims, committed) /\ UNCHANGED <<from, committed>>
    BY <1>2 DEF Assign
  <2>2. /\ Len(claims') = Len(claims) + 1 /\ Len(claims) \in Nat
        /\ claims'[Len(claims) + 1] = committed
        /\ \A i \in 1..Len(claims) : claims'[i] = claims[i]
    BY <1>0, <2>1
  <2> QED
    BY <1>0, <2>1, <2>2 DEF IInv, Assignments
<1>3. ASSUME StartSession PROVE Assignments'
  <2>1. /\ from' = Head(claims) /\ claims' = Tail(claims) /\ UNCHANGED committed
        /\ claims # <<>>
    BY <1>3 DEF StartSession, kafkaVars
  <2>2. /\ Len(claims) \in Nat /\ Len(claims) >= 1 /\ Len(claims') = Len(claims) - 1
        /\ from' = claims[1]
        /\ \A i \in 1..Len(claims') : claims'[i] = claims[i + 1]
    BY <1>0, <2>1
  <2>3. \A i, j \in 1..Len(claims) : i <= j => claims[i] <= claims[j]
    BY DEF IInv, Assignments
  <2>4. \A i \in 1..Len(claims) : claims[i] <= committed
    BY DEF IInv, Assignments
  <2>5. from' <= committed'
    BY <2>1, <2>2, <2>4
  <2>6. ASSUME NEW i \in 1..Len(claims') PROVE from' <= claims'[i] /\ claims'[i] <= committed'
    <3>1. i + 1 \in 1..Len(claims) /\ 1 \in 1..Len(claims) /\ 1 <= i + 1
      BY <2>2
    <3> QED
      BY <2>1, <2>2, <2>3, <2>4, <3>1
  <2>7. ASSUME NEW i \in 1..Len(claims'), NEW j \in 1..Len(claims'), i <= j
        PROVE  claims'[i] <= claims'[j]
    <3>1. i + 1 \in 1..Len(claims) /\ j + 1 \in 1..Len(claims) /\ i + 1 <= j + 1
      BY <2>2, <2>7
    <3> QED
      BY <2>2, <2>3, <3>1
  <2> QED
    BY <2>5, <2>6, <2>7 DEF Assignments
<1>4. ASSUME Crash PROVE Assignments'
  <2>1. claims' = <<>> /\ UNCHANGED <<from, committed>>
    BY <1>4 DEF Crash
  <2> QED
    BY <1>0, <2>1 DEF IInv, Assignments
<1>5. ASSUME CommitMarked PROVE Assignments'
  BY <1>1, <1>5 DEF CommitMarked
<1>6. ASSUME ReadMessage \/ EndSession \/ Manage \/ WorkersClosed \/ ManagerExits \/ Release
             \/ UNCHANGED vars
      PROVE  Assignments'
  BY <1>1, <1>6 DEF ReadMessage, EndSession, Manage, TakeList, PutBack, Mark, WorkersClosed,
                    ManagerExits, Release, vars, kafkaVars
<1>7. ASSUME NEW w \in Workers, HandOver(w) \/ Work(w) \/ WorkerExits(w) PROVE Assignments'
  BY <1>1, <1>7 DEF HandOver, Work, AttemptSucceeds, AttemptFails, RetriesExhausted,
                    InsertOffset, WorkerExits, kafkaVars
<1> QED
  BY <1>2, <1>3, <1>4, <1>5, <1>6, <1>7 DEF Next, Close, Finished

\* The manager and the workers exist between the first message of a session
\* and its end.
LEMMA PhasesStep == IInv /\ [Next]_vars => Phases'
<1> SUFFICES ASSUME IInv, [Next]_vars PROVE Phases'
  OBVIOUS
<1> USE DEF IInv, TypeOK, Phases,
    claimVars, handlerVars, workerVars, managerVars, kafkaVars, storeVars, boundVars
<1>0. ASSUME StartSession PROVE Phases'
  BY <1>0 DEF StartSession
<1>1. ASSUME Assign PROVE Phases'
  BY <1>1 DEF Assign
<1>2. ASSUME ReadMessage PROVE Phases'
  BY <1>2 DEF ReadMessage, StartProcessor
<1>3. ASSUME EndSession PROVE Phases'
  BY <1>3 DEF EndSession
<1>4. ASSUME NEW w \in Workers, HandOver(w) PROVE Phases'
  BY <1>4 DEF HandOver
<1>5. ASSUME NEW w \in Workers, AttemptSucceeds(w) PROVE Phases'
  BY <1>5 DEF AttemptSucceeds, RecordHandled
<1>6. ASSUME NEW w \in Workers, AttemptFails(w) PROVE Phases'
  BY <1>6 DEF AttemptFails
<1>7. ASSUME NEW w \in Workers, RetriesExhausted(w) PROVE Phases'
  BY <1>7 DEF RetriesExhausted, RecordHandled, WorkerFree
<1>8. ASSUME NEW w \in Workers, InsertOffset(w) PROVE Phases'
  BY <1>8 DEF InsertOffset, WorkerFree
<1>9. ASSUME NEW w \in Workers, WorkerExits(w) PROVE Phases'
  BY <1>9 DEF WorkerExits
<1>10. ASSUME TakeList PROVE Phases'
  BY <1>10 DEF TakeList
<1>11. ASSUME PutBack PROVE Phases'
  BY <1>11 DEF PutBack
<1>12. ASSUME Mark PROVE Phases'
  BY <1>12 DEF Mark
<1>13. ASSUME WorkersClosed PROVE Phases'
  BY <1>13 DEF WorkersClosed
<1>14. ASSUME ManagerExits PROVE Phases'
  BY <1>14 DEF ManagerExits
<1>15. ASSUME Release PROVE Phases'
  BY <1>15 DEF Release, SessionGone
<1>16. ASSUME CommitMarked PROVE Phases'
  BY <1>16 DEF CommitMarked
<1>17. ASSUME Crash PROVE Phases'
  BY <1>17 DEF Crash, SessionGone
<1>18. ASSUME UNCHANGED vars PROVE Phases'
  BY <1>18 DEF vars
<1> QED
  BY <1>0, <1>1, <1>2, <1>3, <1>4, <1>5, <1>6, <1>7, <1>8, <1>9,
     <1>10, <1>11, <1>12, <1>13, <1>14, <1>15, <1>16, <1>17, <1>18
  DEF Next, Work, Manage, Close, Finished

\* The marked offset moves to the highest contiguous one, below which all is
\* handled (ListOrder), or to what Kafka has.
LEMMA FrontierStep == IInv /\ [Next]_vars => Frontier'
<1> SUFFICES ASSUME IInv, [Next]_vars PROVE Frontier'
  OBVIOUS
<1> USE PipelineAssumption DEF IInv, TypeOK, Offsets, Phases, Frontier,
    claimVars, handlerVars, workerVars, managerVars, kafkaVars, storeVars, boundVars
<1>0. ASSUME StartSession PROVE Frontier'
  <2>1. Len(claims) >= 1 /\ Head(claims) = claims[1] /\ 1 \in 1..Len(claims)
    BY <1>0 DEF StartSession
  <2>2. claims[1] \in Int /\ claims[1] <= committed
    BY <2>1 DEF Assignments
  <2>3. /\ handler' = "select" /\ next' = claims[1] + 1 /\ from' = claims[1]
        /\ UNCHANGED <<started, marked, committed, handled>> /\ ~started
    BY <1>0, <2>1 DEF StartSession
  <2> QED
    BY <2>2, <2>3
<1>1. ASSUME Assign PROVE Frontier'
  BY <1>1 DEF Assign
<1>2. ASSUME ReadMessage PROVE Frontier'
  <2>1. /\ next <= LogEnd /\ next' = next + 1 /\ handler = "select" /\ handler' = "offering"
        /\ UNCHANGED <<from, marked, committed, handled>>
    BY <1>2 DEF ReadMessage
  <2>2. CASE started
    <3>1. UNCHANGED <<started, lastCommitted>>
      BY <1>2, <2>2 DEF ReadMessage
    <3> QED
      BY <2>1, <2>2, <3>1
  <2>3. CASE ~started
    <3>1. lastCommitted' = next - 1 /\ next = from + 1
      BY <1>2, <2>1, <2>3 DEF ReadMessage, StartProcessor
    <3>2. \A o \in 0..from : o \in handled
      BY DEF Assignments
    <3> QED
      BY <2>1, <3>1, <3>2
  <2> QED
    BY <2>2, <2>3
<1>3. ASSUME EndSession PROVE Frontier'
  BY <1>3 DEF EndSession
<1>4. ASSUME NEW w \in Workers, HandOver(w) PROVE Frontier'
  BY <1>4 DEF HandOver
<1>5. ASSUME NEW w \in Workers, AttemptSucceeds(w) PROVE Frontier'
  BY <1>5 DEF AttemptSucceeds, RecordHandled
<1>6. ASSUME NEW w \in Workers, AttemptFails(w) PROVE Frontier'
  BY <1>6 DEF AttemptFails
<1>7. ASSUME NEW w \in Workers, RetriesExhausted(w) PROVE Frontier'
  BY <1>7 DEF RetriesExhausted, RecordHandled, WorkerFree
<1>8. ASSUME NEW w \in Workers, InsertOffset(w) PROVE Frontier'
  BY <1>8 DEF InsertOffset, WorkerFree
<1>9. ASSUME NEW w \in Workers, WorkerExits(w) PROVE Frontier'
  BY <1>9 DEF WorkerExits
<1>10. ASSUME TakeList PROVE Frontier'
  BY <1>10 DEF TakeList
<1>11. ASSUME PutBack PROVE Frontier'
  BY <1>11 DEF PutBack
<1>12. ASSUME Mark PROVE Frontier'
  BY <1>12 DEF Mark, ListOrder
<1>13. ASSUME WorkersClosed PROVE Frontier'
  BY <1>13 DEF WorkersClosed
<1>14. ASSUME ManagerExits PROVE Frontier'
  BY <1>14 DEF ManagerExits
<1>15. ASSUME Release PROVE Frontier'
  BY <1>15 DEF Release, SessionGone
<1>16. ASSUME CommitMarked PROVE Frontier'
  BY <1>16 DEF CommitMarked
<1>17. ASSUME Crash PROVE Frontier'
  BY <1>17 DEF Crash, SessionGone
<1>18. ASSUME UNCHANGED vars PROVE Frontier'
  BY <1>18 DEF vars
<1> QED
  BY <1>0, <1>1, <1>2, <1>3, <1>4, <1>5, <1>6, <1>7, <1>8, <1>9,
     <1>10, <1>11, <1>12, <1>13, <1>14, <1>15, <1>16, <1>17, <1>18
  DEF Next, Work, Manage, Close, Finished

\* An insert adds a handled offset that is not there yet (Flights); what is
\* put back starts at the end of the run from the last committed offset.
LEMMA ListStep == IInv /\ [Next]_vars => ListOrder'
<1> SUFFICES ASSUME IInv, [Next]_vars PROVE ListOrder'
  OBVIOUS
<1> USE DEF IInv, TypeOK, Offsets, Phases, Frontier, ListOrder, Flights, InFlight, Above,
           claimVars, handlerVars, workerVars, managerVars, kafkaVars, storeVars, boundVars
<1>0. ASSUME StartSession PROVE ListOrder'
  BY <1>0 DEF StartSession
<1>1. ASSUME Assign PROVE ListOrder'
  BY <1>1 DEF Assign
<1>2. ASSUME ReadMessage PROVE ListOrder'
  <2>1. CASE started
    <3>1. UNCHANGED <<started, workerVars, managerVars>>
      BY Zenon, <1>2, <2>1 DEF ReadMessage
    <3> QED
      BY <1>2, <3>1 DEF ReadMessage
  <2>2. CASE ~started
    <3>0. StartProcessor
      BY Zenon, <1>2, <2>2 DEF ReadMessage
    <3>1. next = from + 1 /\ list' = {from} /\ taken' = {}
          /\ lastCommitted' = from /\ manager' = "waiting" /\ next' = next + 1
      BY <1>2, <2>2, <3>0 DEF ReadMessage, StartProcessor
    <3>2. from \in handled \/ from = -1
      BY DEF Assignments, Frontier
    <3>3. handled' = handled
      BY <1>2 DEF ReadMessage
    <3> QED
      BY <3>1, <3>2, <3>3
  <2> QED
    BY <2>1, <2>2
<1>3. ASSUME EndSession PROVE ListOrder'
  BY <1>3 DEF EndSession
<1>4. ASSUME NEW w \in Workers, HandOver(w) PROVE ListOrder'
  BY <1>4 DEF HandOver
<1>5. ASSUME NEW w \in Workers, AttemptSucceeds(w) PROVE ListOrder'
  BY <1>5 DEF AttemptSucceeds, RecordHandled
<1>6. ASSUME NEW w \in Workers, AttemptFails(w) PROVE ListOrder'
  BY <1>6 DEF AttemptFails
<1>7. ASSUME NEW w \in Workers, RetriesExhausted(w) PROVE ListOrder'
  BY <1>7 DEF RetriesExhausted, RecordHandled, WorkerFree
<1>8. ASSUME NEW w \in Workers, InsertOffset(w) PROVE ListOrder'
  BY <1>8 DEF InsertOffset, WorkerFree
<1>9. ASSUME NEW w \in Workers, WorkerExits(w) PROVE ListOrder'
  BY <1>9 DEF WorkerExits
<1>10. ASSUME TakeList PROVE ListOrder'
  BY <1>10 DEF TakeList
<1>11. ASSUME PutBack PROVE ListOrder'
  <2>1. PICK h \in taken : /\ HighestContiguous(taken, h)
                           /\ highest' = h
                           /\ list' = list \union {o \in taken : o >= h}
    BY <1>11 DEF PutBack
  <2>2. lastCommitted <= h /\ lastCommitted..h \subseteq taken
    BY <1>11, <2>1, HeadOfTheRun DEF PutBack
  <2>3. /\ manager' = "marking" /\ taken' = {} /\ handled' = handled
        /\ lastCommitted' = lastCommitted /\ next' = next
    BY <1>11 DEF PutBack
  <2>4. \A o \in list' : o \in list \union taken /\ highest' <= o
    BY <2>1, <2>2
  <2>5. \A o \in 0..highest' : o \in handled
    <3> SUFFICES ASSUME NEW o \in 0..h PROVE o \in handled
      BY <2>1
    <3>1. CASE o <= lastCommitted
      BY <3>1, <1>11 DEF PutBack
    <3>2. CASE o > lastCommitted
      BY <3>2, <2>2
    <3> QED
      BY <3>1, <3>2
  <2>6. highest' \in list'
    BY <2>1
  <2> QED
    BY <2>1, <2>2, <2>3, <2>4, <2>5, <2>6
<1>12. ASSUME Mark PROVE ListOrder'
  BY <1>12 DEF Mark
<1>13. ASSUME WorkersClosed PROVE ListOrder'
  BY <1>13 DEF WorkersClosed
<1>14. ASSUME ManagerExits PROVE ListOrder'
  BY <1>14 DEF ManagerExits
<1>15. ASSUME Release PROVE ListOrder'
  BY <1>15 DEF Release, SessionGone
<1>16. ASSUME CommitMarked PROVE ListOrder'
  BY <1>16 DEF CommitMarked
<1>17. ASSUME Crash PROVE ListOrder'
  BY <1>17 DEF Crash, SessionGone
<1>18. ASSUME UNCHANGED vars PROVE ListOrder'
  BY <1>18 DEF vars
<1> QED
  BY <1>0, <1>1, <1>2, <1>3, <1>4, <1>5, <1>6, <1>7, <1>8, <1>9,
     <1>10, <1>11, <1>12, <1>13, <1>14, <1>15, <1>16, <1>17, <1>18
  DEF Next, Work, Manage, Close, Finished

\* The manager passes only offsets of its own, so none in flight.
LEMMA FlightsStep == IInv /\ [Next]_vars => Flights'
<1> SUFFICES ASSUME IInv, [Next]_vars PROVE Flights'
  OBVIOUS
<1> USE DEF IInv, TypeOK, Offsets, Phases, Frontier, ListOrder, Flights, InFlight, Above,
           claimVars, handlerVars, workerVars, managerVars, kafkaVars, storeVars, boundVars
<1>0. ASSUME StartSession PROVE Flights'
  BY <1>0 DEF StartSession
<1>1. ASSUME Assign PROVE Flights'
  BY <1>1 DEF Assign
<1>2. ASSUME ReadMessage PROVE Flights'
  BY <1>2 DEF ReadMessage, StartProcessor
<1>3. ASSUME EndSession PROVE Flights'
  BY <1>3 DEF EndSession
<1>4. ASSUME NEW w \in Workers, HandOver(w) PROVE Flights'
  BY <1>4 DEF HandOver
<1>5. ASSUME NEW w \in Workers, AttemptSucceeds(w) PROVE Flights'
  BY <1>5 DEF AttemptSucceeds, RecordHandled
<1>6. ASSUME NEW w \in Workers, AttemptFails(w) PROVE Flights'
  BY <1>6 DEF AttemptFails
<1>7. ASSUME NEW w \in Workers, RetriesExhausted(w) PROVE Flights'
  BY <1>7 DEF RetriesExhausted, RecordHandled, WorkerFree
<1>8. ASSUME NEW w \in Workers, InsertOffset(w) PROVE Flights'
  BY <1>8 DEF InsertOffset, WorkerFree
<1>9. ASSUME NEW w \in Workers, WorkerExits(w) PROVE Flights'
  BY <1>9 DEF WorkerExits
<1>10. ASSUME TakeList PROVE Flights'
  BY <1>10 DEF TakeList
<1>11. ASSUME PutBack PROVE Flights'
  <2>1. PICK h \in taken : /\ HighestContiguous(taken, h)
                           /\ highest' = h
                           /\ list' = list \union {o \in taken : o >= h}
    BY <1>11 DEF PutBack
  <2>2. lastCommitted <= h /\ lastCommitted..h \subseteq taken
    BY <1>11, <2>1, HeadOfTheRun DEF PutBack
  <2>3. /\ UNCHANGED <<handler, message, worker, inHand, lastCommitted, next,
                        handled, handledHere>>
        /\ manager' = "marking" /\ taken' = {}
    BY <1>11 DEF PutBack
  <2>4. ASSUME NEW o \in Nat, Above(o) PROVE Above(o)'
    BY <2>1, <2>2, <2>3, <2>4
  <2>5. handler = "offering" => message \in Nat
    BY DEF Flights
  <2> QED
    BY <2>3, <2>4, <2>5 DEF Flights
<1>12. ASSUME Mark PROVE Flights'
  BY <1>12 DEF Mark
<1>13. ASSUME WorkersClosed PROVE Flights'
  BY <1>13 DEF WorkersClosed
<1>14. ASSUME ManagerExits PROVE Flights'
  BY <1>14 DEF ManagerExits
<1>15. ASSUME Release PROVE Flights'
  BY <1>15 DEF Release, SessionGone
<1>16. ASSUME CommitMarked PROVE Flights'
  BY <1>16 DEF CommitMarked
<1>17. ASSUME Crash PROVE Flights'
  BY <1>17 DEF Crash, SessionGone
<1>18. ASSUME UNCHANGED vars PROVE Flights'
  BY <1>18 DEF vars
<1> QED
  BY <1>0, <1>1, <1>2, <1>3, <1>4, <1>5, <1>6, <1>7, <1>8, <1>9,
     <1>10, <1>11, <1>12, <1>13, <1>14, <1>15, <1>16, <1>17, <1>18
  DEF Next, Work, Manage, Close, Finished

-----------------------------------------------------------------------------
(* The theorems                                                            *)

LEMMA InvariantInit == Init => IInv
<1> SUFFICES ASSUME Init PROVE IInv
  OBVIOUS
<1>1. started \in BOOLEAN /\ ~started
  BY Zenon DEF Init
<1>2. TypeOK
  BY PipelineAssumption, <1>1 DEF Init, TypeOK, Offsets
<1> QED
  BY PipelineAssumption, <1>1, <1>2
  DEF Init, IInv, Phases, Assignments, Frontier, ListOrder, Flights, InFlight

\* In every reachable state the inductive invariant holds.
THEOREM PipelineInvariant == Spec => []IInv
<1>1. IInv /\ [Next]_vars => IInv'
  BY TypeStep, PhasesStep, AssignmentsStep, FrontierStep, ListStep, FlightsStep DEF IInv
<1> QED
  BY InvariantInit, <1>1, PTL DEF Spec

\* The pipeline's state has its type.
THEOREM TypeCorrect == Spec => []TypeOK
BY PipelineInvariant, PTL DEF IInv

\* Every offset up to the marked one is written or given up, whatever the
\* order in which the workers finish (offset/manager.go, concurrent_list.go).
THEOREM MarksSkipNothing == Spec => []NothingSkipped
<1>1. IInv => NothingSkipped
  BY DEF IInv, TypeOK, Offsets, Frontier, NothingSkipped
<1> QED
  BY PipelineInvariant, <1>1, PTL

\* The list the manager takes has a head: getHighestContiguous is never given
\* an empty slice, although the list is empty between its critical sections.
THEOREM ListHasAHead == Spec => []ListNotEmpty
<1>1. IInv => ListNotEmpty
  BY DEF IInv, ListOrder, ListNotEmpty
<1> QED
  BY PipelineInvariant, <1>1, PTL

\* An offset inserted late is above every offset the manager has passed.
THEOREM InsertsAreNeverBelow == Spec => []LateInsertsAreAbove
<1>1. IInv => LateInsertsAreAbove
  BY DEF IInv, TypeOK, Offsets, ListOrder, Flights, Above, InFlight, LateInsertsAreAbove
<1> QED
  BY PipelineInvariant, <1>1, PTL

\* Every step of the pipeline is a step of AtLeastOnce or leaves it alone.
LEMMA StepsRefine ==
  IInv /\ IInv' /\ [Next]_vars => [AtLeastOnceLog!ANext]_(AtLeastOnceLog!avars)
<1> SUFFICES ASSUME IInv, IInv', [Next]_vars
             PROVE  [AtLeastOnceLog!ANext]_(AtLeastOnceLog!avars)
  OBVIOUS
<1> USE DEF AtLeastOnceLog!ANext, AtLeastOnceLog!avars, AtLeastOnceLog!Handle,
            AtLeastOnceLog!Commit, AtLeastOnceLog!Resume
<1> DEFINE Goal == [AtLeastOnceLog!ANext]_(AtLeastOnceLog!avars)
<1>1. ASSUME UNCHANGED <<handled, handledHere, from, committed>> PROVE Goal
  BY <1>1
<1>2. ASSUME NEW w \in InFlight PROVE inHand[w] \in 0..LogEnd /\ inHand[w] > from
  <2>1. /\ from \in Int /\ lastCommitted \in Int
        /\ next \in Int /\ LogEnd \in Int
    BY PipelineAssumption DEF IInv, TypeOK, Offsets
  <2>2. started
    BY DEF IInv, Phases, InFlight
  <2>3. from <= lastCommitted /\ next <= LogEnd + 1
    BY <2>2 DEF IInv, Frontier
  <2>4. inHand[w] \in Nat /\ lastCommitted < inHand[w] /\ inHand[w] < next
    BY DEF IInv, Flights, Above
  <2> QED
    BY <2>1, <2>3, <2>4
<1>3. ASSUME NEW w \in Workers, AttemptSucceeds(w) \/ RetriesExhausted(w) PROVE Goal
  <2>1. w \in InFlight /\ worker[w] = "processing"
    BY <1>3 DEF AttemptSucceeds, RetriesExhausted, InFlight
  <2>2. inHand[w] \notin handledHere
    BY <2>1 DEF IInv, Flights
  <2>3. /\ handled' = handled \union {inHand[w]}
        /\ handledHere' = handledHere \union {inHand[w]}
        /\ UNCHANGED <<committed, from>>
    BY <1>3 DEF AttemptSucceeds, RetriesExhausted, RecordHandled, claimVars, kafkaVars
  <2> QED
    BY <1>2, <2>1, <2>2, <2>3
<1>4. ASSUME StartSession PROVE Goal
  <2>1. /\ handledHere' = {} /\ from' = Head(claims)
        /\ UNCHANGED <<handled, committed>> /\ Len(claims) >= 1
    BY <1>4 DEF StartSession, kafkaVars, IInv, TypeOK
  <2>2. Head(claims) = claims[1] /\ 1 \in 1..Len(claims)
    BY <2>1 DEF IInv, TypeOK
  <2>3. from <= claims[1] /\ claims[1] <= committed
    BY <2>2 DEF IInv, Assignments
  <2>4. claims[1] \in 0..LogEnd \union {-1}
    <3>1. claims[1] \in Nat \union {-1} /\ committed \in Int /\ marked \in Int
      BY <2>2 DEF IInv, TypeOK, Offsets
    <3>2. committed <= marked /\ marked <= LogEnd
      BY DEF IInv, Frontier
    <3> QED
      BY <2>3, <3>1, <3>2, PipelineAssumption
  <2> QED
    BY <2>1, <2>2, <2>3, <2>4
<1>5. ASSUME CommitMarked PROVE Goal
  <2>1. /\ committed \in Int /\ marked \in Int /\ committed >= -1
        /\ committed <= marked /\ marked <= LogEnd
        /\ \A o \in 0..marked : o \in handled
    BY DEF IInv, TypeOK, Offsets, Frontier
  <2>2. /\ committed < marked /\ committed' = marked
        /\ UNCHANGED <<handled, handledHere, from>>
    BY <1>5, <2>1 DEF CommitMarked, claimVars, storeVars
  <2>3. marked \in 0..LogEnd /\ committed + 1..marked \subseteq handled
    BY <2>1, <2>2, PipelineAssumption
  <2> QED
    BY <2>1, <2>2, <2>3
<1>6. CASE UNCHANGED vars
  BY <1>1, <1>6 DEF vars, claimVars, kafkaVars, storeVars
<1> QED
  <2> USE DEF claimVars, kafkaVars, storeVars
  <2>1. ASSUME Assign \/ ReadMessage \/ EndSession \/ WorkersClosed \/ ManagerExits
               \/ Release \/ Manage \/ Crash
        PROVE  Goal
    BY <1>1, <2>1 DEF Assign, ReadMessage, EndSession, WorkersClosed, ManagerExits,
                      Release, Manage, TakeList, PutBack, Mark, Crash
  <2>2. ASSUME NEW w \in Workers,
               HandOver(w) \/ AttemptFails(w) \/ InsertOffset(w) \/ WorkerExits(w)
        PROVE  Goal
    BY <1>1, <2>2 DEF HandOver, AttemptFails, InsertOffset, WorkerExits
  <2> QED
    BY <1>3, <1>4, <1>5, <1>6, <2>1, <2>2 DEF Next, Work, Close, Finished

\* The pipeline implements AtLeastOnce: across reassignments and crashes,
\* commits grow, over handled messages only, and a session handles no message
\* twice, and none that was committed when it was assigned (consumer.go Start).
THEOREM PipelineImplementsAtLeastOnce == Spec => ImplementsAtLeastOnce
<1>1. Init => AtLeastOnceLog!AInit
  BY DEF Init, AtLeastOnceLog!AInit
<1> QED
  BY PipelineInvariant, StepsRefine, <1>1, PTL
  DEF Spec, ImplementsAtLeastOnce, AtLeastOnceLog!ASpec
=============================================================================
