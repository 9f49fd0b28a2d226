---------------------- MODULE IngesterConsumerProofs -----------------------
(***************************************************************************)
(* Proofs about IngesterConsumer, for any partitions and any plan of       *)
(* assignments: the wait groups count the handlers that are still at work, *)
(* and the sessions of one partition do not overlap.                       *)
(***************************************************************************)
EXTENDS IngesterConsumer, FiniteSetTheorems, TLAPS

\* The sessions with handlers are those the main loop has registered: all that
\* were assigned but the one it is about to register.
Registered ==
  /\ mainLoop \in {"locking", "waiting"} => mainAt = assigned /\ assigned > 0
  /\ mainLoop \in {"receive", "ended"} => mainAt = 0
  /\ \A s \in Sessions :
       /\ messages[s] # "none" <=> (s <= assigned /\ s # mainAt)
       /\ errors[s] # "none" <=> messages[s] # "none"

\* The map holds the newest registered session of each partition.
MapIsNewest ==
  \A p \in Partitions :
    /\ current[p] # 0 => messages[current[p]] # "none" /\ plan[current[p]] = p
    /\ \A s \in Sessions : messages[s] # "none" /\ plan[s] = p => s <= current[p]

\* A handler that has yet to look up its wait group will find its own, and one
\* that has looked it up has found its own.
FindsItsOwn ==
  \A s \in Sessions :
    /\ messages[s] = "starting" \/ errors[s] = "starting" => current[plan[s]] = s
    /\ messages[s] \notin {"none", "starting"} => msgWg[s] = s
    /\ errors[s] \notin {"none", "starting"} => errWg[s] = s

ErrorsLast == \A s \in Sessions : errors[s] = "done" => ~open[s]

\* WaitGroupsCount without cardinalities.
MessagesCount(s) == IF messages[s] \in {"none", "uncount", "done"} THEN 0 ELSE 1
ErrorsCount(s) == IF errors[s] \in {"none", "done"} THEN 0 ELSE 1
GroupsCount == \A s \in Sessions : wg[s] = MessagesCount(s) + ErrorsCount(s)

IInv ==
  /\ TypeOK /\ Registered /\ MapIsNewest /\ FindsItsOwn /\ ErrorsLast /\ GroupsCount
  /\ OneSessionAtATime

-----------------------------------------------------------------------------
(* Types                                                                   *)

LEMMA SessionsAreNumbers == \A s \in Sessions : s \in Nat /\ s > 0
<1> SUFFICES ASSUME NEW pl \in Plans, NEW s \in DOMAIN pl PROVE s \in Nat /\ s > 0
  BY DEF Sessions
<1>1. pl \in Seq(Partitions)
  BY ConsumerAssumption
<1> QED
  BY <1>1

LEMMA PlanGivesSessions ==
  ASSUME plan \in Plans
  PROVE  /\ plan \in Seq(Partitions) /\ Len(plan) \in Nat
         /\ \A s \in 1..Len(plan) : s \in Sessions /\ plan[s] \in Partitions
<1>1. plan \in Seq(Partitions)
  BY ConsumerAssumption
<1>2. DOMAIN plan \subseteq Sessions
  BY DEF Sessions
<1> QED
  BY <1>1, <1>2

LEMMA TypedInit == Init => TypeOK
<1> SUFFICES ASSUME Init PROVE TypeOK
  OBVIOUS
<1>1. plan \in Plans /\ assigned \in 0..Len(plan)
  BY PlanGivesSessions DEF Init
<1>2. kafkaOpen \in BOOLEAN /\ allConsumed \in BOOLEAN /\ panicked \in BOOLEAN
  BY Zenon DEF Init
<1>3. /\ open \in [Sessions -> BOOLEAN] /\ consumed \in [Sessions -> BOOLEAN]
      /\ signal \in [Sessions -> BOOLEAN]
  BY DEF Init
<1>4. allMonitor \in {"off", "running", "exited"}
  BY ConsumerAssumption DEF Init
<1>5. /\ mainLoop = "receive" /\ mainAt = 0 /\ lock = "free"
      /\ current \in [Partitions -> Sessions \union {0}] /\ wg \in [Sessions -> Int]
      /\ messages \in [Sessions -> {"none"}] /\ errors \in [Sessions -> {"none"}]
      /\ monitor \in [Sessions -> {"none"}]
      /\ msgWg \in [Sessions -> Sessions \union {0}] /\ errWg \in [Sessions -> Sessions \union {0}]
      /\ closer = "idle" /\ closerLeft = {} /\ closerAt = 0
  BY DEF Init
<1> QED
  BY <1>1, <1>2, <1>3, <1>4, <1>5 DEF TypeOK

LEMMA GroupsTyped ==
  ASSUME wg \in [Sessions -> Int], NEW x, wg' = [wg EXCEPT ![x] = @ - 1]
  PROVE  wg' \in [Sessions -> Int]
<1>1. CASE x \in Sessions
  BY <1>1
<1>2. CASE x \notin Sessions
  BY <1>2
<1> QED
  BY <1>1, <1>2

LEMMA OpenTyped ==
  ASSUME open \in [Sessions -> BOOLEAN], NEW x, open' = [open EXCEPT ![x] = FALSE]
  PROVE  open' \in [Sessions -> BOOLEAN]
OBVIOUS

\* Only the main loop's own actions need more than the types.
LEMMA TypedStep == TypeOK /\ Registered /\ [Next]_vars => TypeOK'
<1> SUFFICES ASSUME TypeOK, Registered, [Next]_vars PROVE TypeOK'
  OBVIOUS
<1> USE DEF TypeOK, kafkaVars, mainVars, mapVars, handlerVars, closerVars, detectorVars
<1>1. ASSUME NEW s \in Sessions, Rebalance(s) PROVE TypeOK'
  BY <1>1 DEF Rebalance
<1>2. ASSUME MainReceives PROVE TypeOK'
  <2>1. assigned' \in 0..Len(plan) /\ assigned' \in Sessions
    BY <1>2, PlanGivesSessions DEF MainReceives
  <2> QED
    BY <1>2, <2>1 DEF MainReceives
<1>3. ASSUME MainRegisters PROVE TypeOK'
  <2>1. mainAt \in Sessions
    BY <1>3, PlanGivesSessions DEF MainRegisters, Registered
  <2>2. wg' \in [Sessions -> Int]
    BY <1>3, <2>1 DEF MainRegisters
  <2>3. current' \in [Partitions -> Sessions \union {0}]
    BY <1>3, <2>1 DEF MainRegisters
  <2>4. /\ messages' \in [Sessions -> {"none", "starting", "loop", "closing",
                                       "closePartition", "wgDone", "uncount", "done"}]
        /\ errors' \in [Sessions -> {"none", "starting", "draining", "done"}]
    BY <1>3 DEF MainRegisters
  <2>5. /\ lock' = "free" /\ mainLoop' = "receive" /\ mainAt' = 0
        /\ UNCHANGED <<kafkaVars, msgWg, errWg, closerVars, detectorVars>>
    BY <1>3 DEF MainRegisters
  <2> QED
    BY <2>2, <2>3, <2>4, <2>5
<1>4. ASSUME MainLocks \/ MainEnds PROVE TypeOK'
  BY <1>4 DEF MainLocks, MainEnds
<1>5. ASSUME NEW s \in Sessions, MessagesStart(s) PROVE TypeOK'
  <2>1. s <= assigned /\ Partition(s) \in Partitions
    BY <1>5, PlanGivesSessions, SessionsAreNumbers DEF MessagesStart, At, Registered, Partition
  <2> QED
    BY <1>5, <2>1 DEF MessagesStart, MessagesGoTo, At
<1>6. ASSUME NEW s \in Sessions, MessagesReturn(s) \/ DetectorCloses(s) \/ PartitionCloses(s)
      PROVE  TypeOK'
  <2>1. CASE MessagesReturn(s)
    <3>1. signal' \in [Sessions -> BOOLEAN]
      BY <2>1 DEF MessagesReturn
    <3>2. messages' \in [Sessions -> {"none", "starting", "loop", "closing",
                                     "closePartition", "wgDone", "uncount", "done"}]
      BY <2>1 DEF MessagesReturn, MessagesGoTo
    <3>3. UNCHANGED <<kafkaVars, mainVars, mapVars, wg, errors, msgWg, errWg,
                      closerVars, monitor, consumed, allMonitor, allConsumed, panicked>>
      BY <2>1 DEF MessagesReturn
    <3> QED
      BY <3>1, <3>2, <3>3
  <2>2. CASE DetectorCloses(s)
    BY <2>2 DEF DetectorCloses, MessagesGoTo, At
  <2>3. CASE PartitionCloses(s)
    BY <2>3 DEF PartitionCloses, MessagesGoTo, At
  <2> QED
    BY <1>6, <2>1, <2>2, <2>3
<1>7. ASSUME NEW s \in Sessions, MessagesDone(s) \/ MessagesUncount(s) PROVE TypeOK'
  <2>1. wg' \in [Sessions -> Int]
    BY <1>7, GroupsTyped DEF MessagesDone, MessagesUncount
  <2>2. messages' \in [Sessions -> {"none", "starting", "loop", "closing",
                                   "closePartition", "wgDone", "uncount", "done"}]
    BY <1>7 DEF MessagesDone, MessagesUncount, MessagesGoTo
  <2> QED
    BY <1>7, <2>1, <2>2 DEF MessagesDone, MessagesUncount
<1>8. ASSUME NEW s \in Sessions, MessageConsumed(s) PROVE TypeOK'
  BY <1>8 DEF MessageConsumed, At
<1>9. ASSUME NEW s \in Sessions, ErrorsStart(s) PROVE TypeOK'
  <2>1. s <= assigned /\ Partition(s) \in Partitions
    BY <1>9, PlanGivesSessions, SessionsAreNumbers DEF ErrorsStart, Registered, Partition
  <2> QED
    BY <1>9, <2>1 DEF ErrorsStart
<1>10. ASSUME NEW s \in Sessions, ErrorsDone(s) PROVE TypeOK'
  <2>1. wg' \in [Sessions -> Int]
    BY <1>10, GroupsTyped DEF ErrorsDone
  <2> QED
    BY <1>10, <2>1 DEF ErrorsDone
<1>11. ASSUME CloseCalled \/ CloseLocks \/ CloseWaited \/ CloseUnlocks PROVE TypeOK'
  BY <1>11 DEF CloseCalled, CloseLocks, CloseWaited, CloseUnlocks
<1>12. ASSUME CloseNextPartition PROVE TypeOK'
  <2>1. PICK p \in closerLeft : /\ open' = [open EXCEPT ![current[p]] = FALSE]
                                /\ closerAt' = current[p]
                                /\ closerLeft' = closerLeft \ {p}
    BY <1>12 DEF CloseNextPartition
  <2>2. open' \in [Sessions -> BOOLEAN] /\ closerAt' \in Sessions \union {0}
    BY <2>1, OpenTyped
  <2>3. closerLeft' \subseteq Partitions
    BY <2>1
  <2>4. /\ closer' = "waiting"
        /\ UNCHANGED <<plan, assigned, kafkaOpen, mainVars, mapVars, wg, handlerVars, detectorVars>>
    BY <1>12 DEF CloseNextPartition
  <2>5. /\ plan' \in Plans /\ assigned' \in 0..Len(plan')
        /\ kafkaOpen' \in BOOLEAN /\ mainLoop' \in {"receive", "locking", "waiting", "ended"}
        /\ mainAt' \in Sessions \union {0} /\ lock' \in {"free", "main", "close"}
        /\ current' \in [Partitions -> Sessions \union {0}] /\ wg' \in [Sessions -> Int]
    BY <2>4
  <2>6. UNCHANGED <<handlerVars, detectorVars>> /\ closer' = "waiting"
    BY <2>4
  <2>7. /\ messages' \in [Sessions -> {"none", "starting", "loop", "closing",
                                       "closePartition", "wgDone", "uncount", "done"}]
        /\ errors' \in [Sessions -> {"none", "starting", "draining", "done"}]
        /\ msgWg' \in [Sessions -> Sessions \union {0}]
        /\ errWg' \in [Sessions -> Sessions \union {0}]
    BY <2>6
  <2>8. /\ monitor' \in [Sessions -> {"none", "running", "exited"}]
        /\ consumed' \in [Sessions -> BOOLEAN] /\ signal' \in [Sessions -> BOOLEAN]
        /\ allMonitor' \in {"off", "running", "exited"} /\ allConsumed' \in BOOLEAN
        /\ panicked' \in BOOLEAN
    BY <2>6
  <2>9. closer' \in {"idle", "locking", "closing", "waiting", "detector", "parent", "done"}
    BY <2>6
  <2> QED
    BY Zenon, <2>2, <2>3, <2>5, <2>7, <2>8, <2>9
<1>13. ASSUME CloseDetector \/ CloseParent PROVE TypeOK'
  <2>1. CASE CloseDetector
    <3>1. allMonitor' \in {"off", "running", "exited"} /\ closer' = "parent"
      BY <2>1 DEF CloseDetector
    <3>2. UNCHANGED <<kafkaVars, mainVars, mapVars, wg, handlerVars, closerLeft, closerAt,
                      monitor, consumed, signal, allConsumed, panicked>>
      BY <2>1 DEF CloseDetector
    <3> QED
      BY <3>1, <3>2
  <2>2. CASE CloseParent
    <3>1. open' \in [Sessions -> BOOLEAN] /\ kafkaOpen' = FALSE /\ closer' = "done"
      BY <2>2 DEF CloseParent
    <3>2. UNCHANGED <<plan, assigned, mainVars, mapVars, wg, handlerVars, closerLeft, closerAt,
                      detectorVars>>
      BY <2>2 DEF CloseParent
    <3> QED
      BY <3>1, <3>2
  <2> QED
    BY <1>13, <2>1, <2>2
<1>14. ASSUME NEW s \in Sessions, MonitorTicks(s) PROVE TypeOK'
  <2>1. consumed' \in [Sessions -> BOOLEAN] /\ signal' \in [Sessions -> BOOLEAN]
        /\ panicked' \in BOOLEAN
    <3>1. CASE consumed[s]
      BY <1>14, <3>1 DEF MonitorTicks
    <3>2. CASE ~consumed[s]
      BY <1>14, <3>2 DEF MonitorTicks
    <3> QED
      BY <3>1, <3>2
  <2>2. UNCHANGED <<kafkaVars, mainVars, mapVars, wg, handlerVars, closerVars, monitor,
                    allMonitor, allConsumed>>
    BY <1>14 DEF MonitorTicks
  <2> QED
    BY <2>1, <2>2
<1>15. ASSUME AllMonitorTicks PROVE TypeOK'
  BY <1>15 DEF AllMonitorTicks
<1>16. CASE UNCHANGED vars
  BY <1>16 DEF vars
<1> QED
  BY <1>1, <1>2, <1>3, <1>4, <1>5, <1>6, <1>7, <1>8, <1>9, <1>10, <1>11, <1>12, <1>13, <1>14,
     <1>15, <1>16
  DEF Next, MainStep, MessagesStep, ErrorsStep, Close

-----------------------------------------------------------------------------
(* The handlers and the map                                                *)

LEMMA HandlersInit ==
  Init => Registered /\ MapIsNewest /\ FindsItsOwn /\ ErrorsLast /\ GroupsCount
          /\ OneSessionAtATime
<1> SUFFICES ASSUME Init
             PROVE  Registered /\ MapIsNewest /\ FindsItsOwn /\ ErrorsLast /\ GroupsCount
                    /\ OneSessionAtATime
  OBVIOUS
<1> QED
  BY SessionsAreNumbers
  DEF Init, Registered, MapIsNewest, FindsItsOwn, ErrorsLast, GroupsCount, MessagesCount,
      ErrorsCount, OneSessionAtATime

\* What a step may do to the handlers, the map and the wait groups without
\* touching the invariant: nothing, or close partition consumers.
Quiet ==
  /\ UNCHANGED <<plan, assigned, mainAt, current, wg, messages, errors, msgWg, errWg>>
  /\ mainLoop' \in {"locking", "waiting"} <=> mainLoop \in {"locking", "waiting"}
  /\ mainLoop' \in {"receive", "ended"} <=> mainLoop \in {"receive", "ended"}
  /\ \A s \in Sessions : open'[s] => open[s]

Rest == Registered /\ MapIsNewest /\ FindsItsOwn /\ ErrorsLast /\ GroupsCount /\ OneSessionAtATime

LEMMA QuietSteps == TypeOK /\ Rest /\ Quiet => Rest'
<1> SUFFICES ASSUME TypeOK, Rest, Quiet PROVE Rest'
  OBVIOUS
<1> USE DEF Rest, Quiet
<1>1. Registered'
  BY DEF Registered
<1>2. MapIsNewest' /\ FindsItsOwn' /\ ErrorsLast'
  BY DEF MapIsNewest, FindsItsOwn, ErrorsLast
<1>3. GroupsCount'
  BY DEF GroupsCount, MessagesCount, ErrorsCount
<1>4. OneSessionAtATime'
  <2> SUFFICES ASSUME NEW s \in 1..assigned, NEW t \in 1..assigned,
                      s < t, plan[s] = plan[t], messages[t] # "none"
               PROVE  ~open'[s] /\ messages[s] \in {"uncount", "done"} /\ errors[s] = "done"
    BY DEF OneSessionAtATime, Partition
  <2>1. s \in Sessions
    BY PlanGivesSessions DEF TypeOK
  <2> QED
    BY <2>1 DEF OneSessionAtATime, Partition
<1> QED
  BY <1>1, <1>2, <1>3, <1>4

\* A new assignment has no handlers yet.
LEMMA ReceivePreserves == TypeOK /\ Rest /\ MainReceives => Rest'
<1> SUFFICES ASSUME TypeOK, Rest, MainReceives PROVE Rest'
  OBVIOUS
<1> USE DEF Rest
<1>1. /\ assigned' = assigned + 1 /\ assigned \in Nat /\ assigned' \in Sessions
      /\ mainAt = 0 /\ mainAt' = assigned' /\ mainLoop' = "locking"
      /\ open' = [open EXCEPT ![assigned'] = TRUE]
      /\ UNCHANGED <<plan, current, wg, messages, errors, msgWg, errWg>>
  BY PlanGivesSessions DEF MainReceives, TypeOK, mapVars, handlerVars, Registered
<1>2. messages[assigned'] = "none" /\ errors[assigned'] = "none"
  BY <1>1 DEF Registered
<1>3. Registered'
  BY <1>1, SessionsAreNumbers DEF Registered
<1>4. MapIsNewest' /\ FindsItsOwn'
  BY <1>1 DEF MapIsNewest, FindsItsOwn
<1>5. ErrorsLast'
  BY <1>1, <1>2 DEF ErrorsLast, TypeOK
<1>6. GroupsCount'
  BY <1>1 DEF GroupsCount, MessagesCount, ErrorsCount
<1>7. OneSessionAtATime'
  <2> SUFFICES ASSUME NEW s \in 1..assigned', NEW t \in 1..assigned',
                      s < t, plan[s] = plan[t], messages[t] # "none"
               PROVE  ~open'[s] /\ messages[s] \in {"uncount", "done"} /\ errors[s] = "done"
    BY <1>1 DEF OneSessionAtATime, Partition
  <2>1. s \in 1..assigned /\ t \in 1..assigned /\ s # assigned'
    BY <1>1, <1>2
  <2>2. s \in Sessions
    BY <2>1, PlanGivesSessions DEF TypeOK
  <2> QED
    BY <1>1, <2>1, <2>2 DEF OneSessionAtATime, Partition, TypeOK
<1> QED
  BY <1>3, <1>4, <1>5, <1>6, <1>7

\* The wait for the last session of the partition: its handlers have called
\* Done, so none of them will look into the map again.
LEMMA RegisterPreserves == TypeOK /\ Rest /\ MainRegisters => Rest'
<1> SUFFICES ASSUME TypeOK, Rest, MainRegisters PROVE Rest'
  OBVIOUS
<1> USE DEF Rest
<1> DEFINE p == plan[mainAt]
<1>1. /\ mainAt \in Sessions /\ mainAt = assigned /\ assigned \in Nat /\ assigned > 0
      /\ p \in Partitions /\ 1..assigned \subseteq Sessions
  BY PlanGivesSessions DEF MainRegisters, TypeOK, Registered
<1>2. /\ current' = [current EXCEPT ![p] = mainAt] /\ wg' = [wg EXCEPT ![mainAt] = 2]
      /\ messages' = [messages EXCEPT ![mainAt] = "starting"]
      /\ errors' = [errors EXCEPT ![mainAt] = "starting"]
      /\ mainLoop' = "receive" /\ mainAt' = 0
      /\ UNCHANGED <<plan, assigned, open, msgWg, errWg>>
      /\ current[p] # 0 => wg[current[p]] = 0
  BY DEF MainRegisters, Partition, kafkaVars
<1>3. messages[mainAt] = "none" /\ errors[mainAt] = "none"
  BY <1>1 DEF Registered
<1> HIDE DEF p
<1>4. ASSUME NEW s \in Sessions, messages[s] # "none", plan[s] = p
      PROVE  messages[s] \in {"uncount", "done"} /\ errors[s] = "done"
  <2>1. /\ s <= current[p] /\ current[p] \in Sessions /\ messages[current[p]] # "none"
        /\ plan[current[p]] = p /\ errors[current[p]] # "none"
    <3>1. s <= current[p] /\ s \in Nat /\ s > 0 /\ current[p] \in Sessions \union {0}
      BY <1>1, <1>4, SessionsAreNumbers DEF MapIsNewest, TypeOK
    <3>2. current[p] # 0
      BY <3>1
    <3> QED
      BY <1>1, <3>1, <3>2 DEF MapIsNewest, Registered
  <2>2. messages[current[p]] \in {"uncount", "done"} /\ errors[current[p]] = "done"
    <3>1. current[p] # 0
      BY <2>1, SessionsAreNumbers
    <3>2. MessagesCount(current[p]) + ErrorsCount(current[p]) = 0
      BY <1>2, <2>1, <3>1 DEF GroupsCount
    <3> QED
      BY <2>1, <3>2 DEF MessagesCount, ErrorsCount
  <2>3. s \in 1..assigned /\ current[p] \in 1..assigned
    <3>1. s \in Nat /\ s > 0 /\ current[p] \in Nat /\ current[p] > 0
      BY <2>1, SessionsAreNumbers
    <3>2. s <= assigned /\ current[p] <= assigned
      BY <1>4, <2>1 DEF Registered
    <3> QED
      BY <1>1, <3>1, <3>2
  <2> QED
    BY <1>4, <2>1, <2>2, <2>3, SessionsAreNumbers DEF OneSessionAtATime, Partition
<1>5. Registered'
  BY <1>1, <1>2, SessionsAreNumbers DEF Registered, TypeOK
<1>6. MapIsNewest'
  BY <1>1, <1>2, SessionsAreNumbers DEF MapIsNewest, Registered, TypeOK, p
<1>7. FindsItsOwn'
  <2> SUFFICES ASSUME NEW s \in Sessions
               PROVE  /\ messages'[s] = "starting" \/ errors'[s] = "starting"
                           => current'[plan[s]] = s
                      /\ messages'[s] \notin {"none", "starting"} => msgWg[s] = s
                      /\ errors'[s] \notin {"none", "starting"} => errWg[s] = s
    BY <1>2 DEF FindsItsOwn
  <2>1. CASE s = mainAt
    BY <1>1, <1>2, <2>1 DEF TypeOK, p
  <2>2. CASE s # mainAt
    <3>1. messages'[s] = messages[s] /\ errors'[s] = errors[s]
      BY <1>2, <2>2
    <3>2. messages[s] = "starting" \/ errors[s] = "starting" => plan[s] # p
      BY <1>4 DEF Registered
    <3> QED
      BY <1>2, <3>1, <3>2 DEF FindsItsOwn, TypeOK
  <2> QED
    BY <2>1, <2>2
<1>8. ErrorsLast'
  BY <1>2 DEF ErrorsLast, TypeOK
<1>9. GroupsCount'
  BY <1>1, <1>2 DEF GroupsCount, MessagesCount, ErrorsCount, TypeOK
<1>10. OneSessionAtATime'
  <2> SUFFICES ASSUME NEW s \in 1..assigned, NEW t \in 1..assigned,
                      s < t, plan[s] = plan[t], messages'[t] # "none"
               PROVE  ~open[s] /\ messages'[s] \in {"uncount", "done"} /\ errors'[s] = "done"
    BY <1>2 DEF OneSessionAtATime, Partition
  <2>1. s \in Sessions /\ t \in Sessions /\ s # mainAt
    BY <1>1
  <2>2. messages'[s] = messages[s] /\ errors'[s] = errors[s] /\ messages[s] # "none"
    BY <1>1, <1>2, <2>1 DEF TypeOK, Registered
  <2>3. CASE t = mainAt
    BY <1>4, <2>1, <2>2, <2>3 DEF ErrorsLast, p
  <2>4. CASE t # mainAt
    BY <1>2, <2>1, <2>2, <2>4 DEF OneSessionAtATime, Partition, TypeOK
  <2> QED
    BY <2>3, <2>4
<1> QED
  BY <1>5, <1>6, <1>7, <1>8, <1>9, <1>10

\* A step of one session's handlers: they move on, never back, and take
\* themselves off the wait group they have found, their own.
HandlerMoves(s) ==
  /\ UNCHANGED <<plan, assigned, mainLoop, mainAt, current>>
  /\ \A t \in Sessions : open'[t] => open[t]
  /\ \A t \in Sessions \ {s} :
       /\ messages'[t] = messages[t] /\ errors'[t] = errors[t] /\ wg'[t] = wg[t]
       /\ msgWg'[t] = msgWg[t] /\ errWg'[t] = errWg[t]
  /\ messages[s] # "none" /\ messages'[s] # "none" /\ errors[s] # "none" /\ errors'[s] # "none"
  /\ messages[s] # "starting" => messages'[s] # "starting"
  /\ errors[s] # "starting" => errors'[s] # "starting"
  /\ messages'[s] # "starting" => msgWg'[s] = s
  /\ errors'[s] # "starting" => errWg'[s] = s
  /\ errors'[s] = "done" => ~open'[s]
  /\ errors[s] = "done" => errors'[s] = "done"
  /\ messages[s] \in {"uncount", "done"} => messages'[s] \in {"uncount", "done"}
  /\ wg'[s] = MessagesCount(s)' + ErrorsCount(s)'

LEMMA MovesPreserve == ASSUME NEW s \in Sessions, TypeOK, Rest, HandlerMoves(s) PROVE Rest'
<1> USE DEF Rest, HandlerMoves
<1>1. Registered'
  BY DEF Registered
<1>2. MapIsNewest'
  BY DEF MapIsNewest, TypeOK
<1>3. FindsItsOwn'
  BY DEF FindsItsOwn
<1>4. ErrorsLast'
  BY DEF ErrorsLast
<1>5. GroupsCount'
  BY DEF GroupsCount, MessagesCount, ErrorsCount
<1>6. OneSessionAtATime'
  <2> SUFFICES ASSUME NEW r \in 1..assigned, NEW t \in 1..assigned,
                      r < t, plan[r] = plan[t], messages'[t] # "none"
               PROVE  ~open'[r] /\ messages'[r] \in {"uncount", "done"} /\ errors'[r] = "done"
    BY DEF OneSessionAtATime, Partition
  <2>1. r \in Sessions /\ t \in Sessions
    BY PlanGivesSessions DEF TypeOK
  <2>2. ~open[r] /\ messages[r] \in {"uncount", "done"} /\ errors[r] = "done"
    BY <2>1 DEF OneSessionAtATime, Partition
  <2> QED
    BY <2>1, <2>2
<1> QED
  BY <1>1, <1>2, <1>3, <1>4, <1>5, <1>6

LEMMA MessagesMove ==
  ASSUME NEW s \in Sessions, TypeOK, Rest, MessagesStep(s) PROVE HandlerMoves(s)
<1> USE DEF Rest, TypeOK, At, MessagesGoTo, HandlerMoves, MessagesCount, ErrorsCount,
            kafkaVars, mainVars, mapVars, handlerVars, detectorVars
<1>0. /\ messages[s] # "none" => errors[s] # "none"
      /\ wg[s] = MessagesCount(s) + ErrorsCount(s)
      /\ messages[s] \notin {"none", "starting"} => msgWg[s] = s
      /\ errors[s] \notin {"none", "starting"} => errWg[s] = s
      /\ errors[s] = "done" => ~open[s]
      /\ messages[s] = "starting" => current[plan[s]] = s
  BY DEF Registered, GroupsCount, FindsItsOwn, ErrorsLast
<1>1. ASSUME MessagesStart(s) PROVE HandlerMoves(s)
  BY <1>0, <1>1 DEF MessagesStart, Partition
<1>2. ASSUME MessagesReturn(s) \/ DetectorCloses(s) \/ MessagesUncount(s) PROVE HandlerMoves(s)
  BY <1>0, <1>2 DEF MessagesReturn, DetectorCloses, MessagesUncount
<1>3. ASSUME PartitionCloses(s) PROVE HandlerMoves(s)
  BY <1>0, <1>3 DEF PartitionCloses
<1>4. ASSUME MessagesDone(s) PROVE HandlerMoves(s)
  BY <1>0, <1>4 DEF MessagesDone
<1> QED
  BY <1>1, <1>2, <1>3, <1>4 DEF MessagesStep

LEMMA ErrorsMove ==
  ASSUME NEW s \in Sessions, TypeOK, Rest, ErrorsStep(s) PROVE HandlerMoves(s)
<1> USE DEF Rest, TypeOK, HandlerMoves, MessagesCount, ErrorsCount,
            kafkaVars, mainVars, mapVars
<1>0. /\ errors[s] # "none" => messages[s] # "none"
      /\ wg[s] = MessagesCount(s) + ErrorsCount(s)
      /\ messages[s] \notin {"none", "starting"} => msgWg[s] = s
      /\ errors[s] \notin {"none", "starting"} => errWg[s] = s
      /\ errors[s] = "starting" => current[plan[s]] = s
  BY DEF Registered, GroupsCount, FindsItsOwn
<1>1. ASSUME ErrorsStart(s) PROVE HandlerMoves(s)
  BY <1>0, <1>1 DEF ErrorsStart, Partition
<1>2. ASSUME ErrorsDone(s) PROVE HandlerMoves(s)
  BY <1>0, <1>2 DEF ErrorsDone
<1> QED
  BY <1>1, <1>2 DEF ErrorsStep

LEMMA RestStep == TypeOK /\ Rest /\ [Next]_vars => Rest'
<1> SUFFICES ASSUME TypeOK, Rest, [Next]_vars PROVE Rest'
  OBVIOUS
<1> USE DEF kafkaVars, mainVars, mapVars, handlerVars, closerVars, detectorVars
<1>1. ASSUME Quiet PROVE Rest'
  BY <1>1, QuietSteps
<1>2. ASSUME NEW s \in Sessions, Rebalance(s) \/ MessageConsumed(s) \/ MonitorTicks(s)
      PROVE  Rest'
  <2>1. Quiet
    BY <1>2 DEF Quiet, Rebalance, MessageConsumed, MonitorTicks, TypeOK
  <2> QED
    BY <1>1, <2>1
<1>3. ASSUME MainLocks \/ MainEnds \/ AllMonitorTicks PROVE Rest'
  <2>1. Quiet
    BY <1>3 DEF Quiet, MainLocks, MainEnds, AllMonitorTicks
  <2> QED
    BY <1>1, <2>1
<1>4. ASSUME CloseCalled \/ Close PROVE Rest'
  <2>1. Quiet
    BY <1>4 DEF Quiet, CloseCalled, Close, CloseLocks, CloseNextPartition, CloseWaited,
                CloseUnlocks, CloseDetector, CloseParent, TypeOK
  <2> QED
    BY <1>1, <2>1
<1>5. ASSUME NEW s \in Sessions, MessagesStep(s) \/ ErrorsStep(s) PROVE Rest'
  BY <1>5, MessagesMove, ErrorsMove, MovesPreserve
<1>6. CASE UNCHANGED vars
  BY <1>1, <1>6 DEF vars, Quiet
<1> QED
  BY <1>2, <1>3, <1>4, <1>5, <1>6, ReceivePreserves, RegisterPreserves DEF Next, MainStep

-----------------------------------------------------------------------------
(* The theorems                                                            *)

LEMMA IInvInit == Init => IInv
BY TypedInit, HandlersInit DEF IInv

LEMMA IInvStep == IInv /\ [Next]_vars => IInv'
BY TypedStep, RestStep DEF IInv, Rest

\* The ingester's partitions keep their inductive invariant.
THEOREM ConsumerInvariant == Spec => []IInv
BY IInvInit, IInvStep, PTL DEF Spec

\* The consumer's state has its type, and no wait group goes below zero (which would
\* panic) or above the two handlers of its session.
THEOREM ConsumerTypeCorrect == Spec => [](TypeOK /\ \A s \in Sessions : wg[s] \in 0 .. 2)
<1>1. IInv => TypeOK /\ \A s \in Sessions : wg[s] \in 0 .. 2
  BY DEF IInv, GroupsCount, MessagesCount, ErrorsCount
<1> QED
  BY ConsumerInvariant, <1>1, PTL

\* The two ways to count agree.
LEMMA CountsAgree == GroupsCount => WaitGroupsCount
<1> SUFFICES ASSUME GroupsCount, NEW s \in Sessions
             PROVE  wg[s] = Cardinality({h \in {messages[s]} : h \notin {"none", "uncount", "done"}})
                            + Cardinality({h \in {errors[s]} : h \notin {"none", "done"}})
  BY DEF WaitGroupsCount
<1> DEFINE M == {h \in {messages[s]} : h \notin {"none", "uncount", "done"}}
           E == {h \in {errors[s]} : h \notin {"none", "done"}}
<1>1. M = IF messages[s] \in {"none", "uncount", "done"} THEN {} ELSE {messages[s]}
  OBVIOUS
<1>2. E = IF errors[s] \in {"none", "done"} THEN {} ELSE {errors[s]}
  OBVIOUS
<1> HIDE DEF M, E
<1>3. Cardinality(M) = MessagesCount(s) /\ Cardinality(E) = ErrorsCount(s)
  BY <1>1, <1>2, FS_EmptySet, FS_Singleton DEF MessagesCount, ErrorsCount
<1>4. wg[s] = Cardinality(M) + Cardinality(E)
  BY <1>3 DEF GroupsCount
<1> QED
  BY <1>4 DEF M, E

\* Each session's wait group counts its own handlers, however late they look it
\* up in a map that a later session may have overwritten.
THEOREM GroupsAreExact == Spec => []WaitGroupsCount
<1>1. IInv => WaitGroupsCount
  BY CountsAgree DEF IInv
<1> QED
  BY ConsumerInvariant, <1>1, PTL

\* No partition is handled by two sessions at once.
THEOREM SessionsDoNotOverlap == Spec => []OneSessionAtATime
<1>1. IInv => OneSessionAtATime
  BY DEF IInv
<1> QED
  BY ConsumerInvariant, <1>1, PTL
=============================================================================
