------------------------- MODULE LeaderLeaseProofs -------------------------
(***************************************************************************)
(* Proofs about LeaderLease, for any number of hosts, any intervals that   *)
(* satisfy LeaseOutlivesRenewal, and any number of faults and crashes: a   *)
(* leader whose last attempt did not fail owns a lease that cannot run out *)
(* before its next attempt is over.                                        *)
(***************************************************************************)
EXTENDS LeaderLease, TLAPS

Good(h) == isLeader[h] /\ ~failed[h]

\* A host that is down or between two attempts has no answer to handle, and
\* only a host that runs leads.
AnswerIsPending ==
  \A h \in Host :
    /\ at[h] \in {"down", "waiting"} => answer[h] = "none"
    /\ at[h] = "down" => ~isLeader[h]
    /\ InAttempt(h) => timer[h] = 0

\* The answer "applied" is handled while the lease it speaks of still stands.
AppliedStands ==
  \A h \in Host : answer[h] = "applied" => owner = h /\ left >= FollowerInterval - lag[h]

\* A leader in good standing owns the row, and what is left of the TTL covers
\* the time to its next attempt and that attempt.
LeaseLasts ==
  \A h \in Host : Good(h) =>
    /\ owner = h /\ answer[h] # "other" /\ timer[h] <= LeaderInterval
    /\ left >= FollowerInterval - MaxLag - LeaderInterval + timer[h] - lag[h]

LInv == TypeOK /\ AnswerIsPending /\ AppliedStands /\ LeaseLasts

-----------------------------------------------------------------------------
(* The types                                                               *)

LEMMA IntervalFacts ==
  /\ LeaderInterval \in Nat /\ FollowerInterval \in Nat /\ MaxLag \in Nat
  /\ LeaderInterval > 0 /\ FollowerInterval > 0
  /\ LeaderInterval + 2 * MaxLag < FollowerInterval
  /\ NoHost \notin Host
  /\ MaxFaults \in Nat /\ MaxCrashes \in Nat
BY IntervalAssumption, LeaseOutlivesRenewal, HostAssumption, BudgetAssumption

LEMMA TypedInit == Init => TypeOK
BY IntervalFacts DEF Init, TypeOK, Where, Answers

\* What a statement does to the row.
LEMMA ExecuteTyped ==
  ASSUME TypeOK, NEW h \in Host, NEW applies \in BOOLEAN, Execute(h, applies)
  PROVE  /\ owner' \in Host \cup {NoHost} /\ left' \in 0 .. FollowerInterval
         /\ (owner' = NoHost) <=> (left' = 0)
BY IntervalFacts DEF Execute, TypeOK

LEMMA ChargeTyped ==
  ASSUME TypeOK, NEW fate \in Fate, Charge(fate)
  PROVE  faults' \in 0 .. MaxFaults
BY IntervalFacts DEF Charge, TypeOK

LEMMA TypedStep == TypeOK /\ [Next]_vars => TypeOK'
<1> SUFFICES ASSUME TypeOK, [Next]_vars PROVE TypeOK'
  OBVIOUS
<1>1. ASSUME NEW h \in Host, Start(h) PROVE TypeOK'
  BY <1>1, IntervalFacts DEF Start, TypeOK, Where
<1>2. ASSUME NEW h \in Host, Crash(h) PROVE TypeOK'
  BY <1>2, IntervalFacts DEF Crash, Running, TypeOK, Where, Answers
<1>3. ASSUME NEW h \in Host, Insert(h) PROVE TypeOK'
  <2>1. PICK fate \in Fate :
          /\ Charge(fate) /\ Execute(h, fate # "lost" /\ InsertApplies(h))
          /\ answer' = [answer EXCEPT ![h] = IF fate = "answered" THEN Found(h) ELSE "error"]
    BY <1>3 DEF Insert
  <2>2. answer' \in [Host -> Answers]
    BY <2>1 DEF TypeOK, Answers, Found
  <2>3. at' \in [Host -> Where] /\ UNCHANGED <<isLeader, timer, lag, failed, crashes>>
    BY <1>3 DEF Insert, TypeOK, Where
  <2>4. (fate # "lost" /\ InsertApplies(h)) \in BOOLEAN
    BY DEF InsertApplies
  <2> QED
    BY <2>1, <2>2, <2>3, <2>4, ExecuteTyped, ChargeTyped DEF TypeOK
<1>4. ASSUME NEW h \in Host, Extend(h) PROVE TypeOK'
  <2>1. PICK fate \in Fate :
          /\ Charge(fate) /\ Execute(h, fate # "lost" /\ UpdateApplies(h))
          /\ answer' = [answer EXCEPT ![h] =
                          IF fate = "answered" /\ UpdateApplies(h) THEN "applied" ELSE "error"]
    BY <1>4 DEF Extend
  <2>2. answer' \in [Host -> Answers]
    BY <2>1 DEF TypeOK, Answers, Found
  <2>3. at' \in [Host -> Where] /\ UNCHANGED <<isLeader, timer, lag, failed, crashes>>
    BY <1>4 DEF Extend, TypeOK, Where
  <2>4. (fate # "lost" /\ UpdateApplies(h)) \in BOOLEAN
    BY DEF UpdateApplies
  <2> QED
    BY <2>1, <2>2, <2>3, <2>4, ExecuteTyped, ChargeTyped DEF TypeOK
<1>5. ASSUME NEW h \in Host, Answered(h) PROVE TypeOK'
  <2>1. SetLeader(h) \in BOOLEAN
    BY DEF SetLeader, TypeOK
  <2>2. NextInterval(SetLeader(h)) \in 0 .. FollowerInterval
    BY IntervalFacts DEF NextInterval
  <2>3. /\ isLeader' = [isLeader EXCEPT ![h] = SetLeader(h)]
        /\ timer' = [timer EXCEPT ![h] = NextInterval(SetLeader(h))]
        /\ failed' = [failed EXCEPT ![h] = answer[h] = "error"]
        /\ at' = [at EXCEPT ![h] = "waiting"] /\ answer' = [answer EXCEPT ![h] = "none"]
        /\ lag' = [lag EXCEPT ![h] = 0] /\ UNCHANGED <<owner, left, faults, crashes>>
    BY <1>5 DEF Answered
  <2>4. isLeader' \in [Host -> BOOLEAN] /\ failed' \in [Host -> BOOLEAN]
    BY <2>1, <2>3 DEF TypeOK
  <2>5. timer' \in [Host -> 0 .. FollowerInterval] /\ lag' \in [Host -> 0 .. MaxLag]
    BY <2>2, <2>3, IntervalFacts DEF TypeOK
  <2> QED
    BY <2>3, <2>4, <2>5 DEF TypeOK, Where, Answers
<1>6. ASSUME Tick PROVE TypeOK'
  <2>1. timer' \in [Host -> 0 .. FollowerInterval] /\ lag' \in [Host -> 0 .. MaxLag]
    BY <1>6, IntervalFacts DEF Tick, TypeOK
  <2>2. /\ owner' \in Host \cup {NoHost} /\ left' \in 0 .. FollowerInterval
        /\ (owner' = NoHost) <=> (left' = 0)
    BY <1>6, IntervalFacts DEF Tick, TypeOK
  <2> QED
    BY <1>6, <2>1, <2>2 DEF Tick, TypeOK
<1>7. CASE UNCHANGED vars
  BY <1>7 DEF vars, TypeOK
<1> QED
  BY <1>1, <1>2, <1>3, <1>4, <1>5, <1>6, <1>7 DEF Next, Attempt

-----------------------------------------------------------------------------
(* The lease                                                               *)

LEMMA LeaseInit == Init => AnswerIsPending /\ AppliedStands /\ LeaseLasts
BY DEF Init, AnswerIsPending, AppliedStands, LeaseLasts, Good, InAttempt

\* While somebody is in good standing, or is about to be told that the lease is
\* its own, the row has time left.
LEMMA LeaseHasTime ==
  ASSUME LInv, NEW h \in Host, Good(h) \/ answer[h] = "applied"
  PROVE  owner = h /\ left > 0
BY IntervalFacts DEF LInv, TypeOK, AppliedStands, LeaseLasts

\* A statement that applies finds no row, or the host's own: no other host's
\* standing rests on that row.
LEMMA OthersKeepTheLease ==
  ASSUME LInv, NEW h \in Host, NEW applies \in BOOLEAN, Execute(h, applies),
         applies => owner \in {NoHost, h},
         \A g \in Host \ {h} : /\ answer'[g] = answer[g] /\ lag'[g] = lag[g] /\ timer'[g] = timer[g]
                               /\ isLeader'[g] = isLeader[g] /\ failed'[g] = failed[g],
         NEW g \in Host, g # h
  PROVE  /\ answer'[g] = "applied" => owner' = g /\ left' >= FollowerInterval - lag'[g]
         /\ Good(g)' => /\ owner' = g /\ answer'[g] # "other" /\ timer'[g] <= LeaderInterval
                        /\ left' >= FollowerInterval - MaxLag - LeaderInterval + timer'[g] - lag'[g]
<1>1. CASE Good(g) \/ answer[g] = "applied"
  <2>1. owner = g
    BY <1>1, LeaseHasTime
  <2>2. UNCHANGED <<owner, left>>
    BY <2>1, IntervalFacts DEF Execute
  <2> QED
    BY <2>2 DEF LInv, AppliedStands, LeaseLasts, Good
<1>2. CASE ~(Good(g) \/ answer[g] = "applied")
  BY <1>2 DEF Good
<1> QED
  BY <1>1, <1>2

LEMMA LeaseStep == LInv /\ TypeOK' /\ [Next]_vars => LInv'
<1> SUFFICES ASSUME LInv, TypeOK', [Next]_vars PROVE LInv'
  OBVIOUS
<1>1. ASSUME NEW h \in Host, Start(h) PROVE LInv'
  BY <1>1 DEF Start, LInv, TypeOK, AnswerIsPending, AppliedStands, LeaseLasts, Good, InAttempt
<1>2. ASSUME NEW h \in Host, Crash(h) PROVE LInv'
  BY <1>2 DEF Crash, LInv, TypeOK, AnswerIsPending, AppliedStands, LeaseLasts, Good, InAttempt
<1>3. ASSUME NEW h \in Host, Insert(h) PROVE LInv'
  <2>1. PICK fate \in Fate :
          /\ Execute(h, fate # "lost" /\ InsertApplies(h))
          /\ answer' = [answer EXCEPT ![h] = IF fate = "answered" THEN Found(h) ELSE "error"]
    BY <1>3 DEF Insert
  <2>2. /\ at[h] = "waiting" /\ timer[h] = 0 /\ at' = [at EXCEPT ![h] = "inserted"]
        /\ UNCHANGED <<isLeader, timer, lag, failed, crashes>>
    BY <1>3 DEF Insert, Due
  <2>3. AnswerIsPending'
    BY <2>1, <2>2 DEF LInv, TypeOK, AnswerIsPending, InAttempt, Found
  <2>4. ASSUME NEW g \in Host, g # h
        PROVE  /\ answer'[g] = "applied" => owner' = g /\ left' >= FollowerInterval - lag'[g]
               /\ Good(g)' => /\ owner' = g /\ answer'[g] # "other" /\ timer'[g] <= LeaderInterval
                              /\ left' >= FollowerInterval - MaxLag - LeaderInterval
                                            + timer'[g] - lag'[g]
    <3>1. (fate # "lost" /\ InsertApplies(h)) \in BOOLEAN
      BY DEF InsertApplies
    <3>2. (fate # "lost" /\ InsertApplies(h)) => owner \in {NoHost, h}
      BY DEF InsertApplies
    <3>3. \A k \in Host \ {h} :
            /\ answer'[k] = answer[k] /\ lag'[k] = lag[k] /\ timer'[k] = timer[k]
            /\ isLeader'[k] = isLeader[k] /\ failed'[k] = failed[k]
      BY <2>1, <2>2 DEF LInv, TypeOK
    <3> HIDE DEF InsertApplies, LInv
    <3> QED
      BY <2>1, <2>4, <3>1, <3>2, <3>3, OthersKeepTheLease
  <2>5. answer'[h] = "applied" => owner' = h /\ left' = FollowerInterval
    BY <2>1 DEF Execute, Found, LInv, TypeOK
  <2>6. Good(h) => owner = h /\ answer'[h] # "other" /\ UNCHANGED <<owner, left>>
    BY <2>1, IntervalFacts DEF Execute, InsertApplies, Found, LInv, TypeOK, LeaseLasts
  <2>7. AppliedStands'
    BY <2>2, <2>4, <2>5 DEF AppliedStands, LInv, TypeOK
  <2>8. LeaseLasts'
    <3>1. Good(h)' => /\ owner' = h /\ answer'[h] # "other" /\ timer'[h] <= LeaderInterval
                      /\ left' >= FollowerInterval - MaxLag - LeaderInterval + timer'[h] - lag'[h]
      BY <2>2, <2>6 DEF Good, LInv, LeaseLasts
    <3> QED
      BY <2>4, <3>1 DEF LeaseLasts
  <2> QED
    BY <2>3, <2>7, <2>8 DEF LInv
<1>4. ASSUME NEW h \in Host, Extend(h) PROVE LInv'
  <2>1. PICK fate \in Fate :
          /\ Execute(h, fate # "lost" /\ UpdateApplies(h))
          /\ answer' = [answer EXCEPT ![h] =
                          IF fate = "answered" /\ UpdateApplies(h) THEN "applied" ELSE "error"]
    BY <1>4 DEF Extend
  <2>2. /\ at[h] = "inserted" /\ at' = [at EXCEPT ![h] = "extended"]
        /\ UNCHANGED <<isLeader, timer, lag, failed, crashes>>
    BY <1>4 DEF Extend
  <2>3. AnswerIsPending'
    BY <2>1, <2>2 DEF LInv, TypeOK, AnswerIsPending, InAttempt
  <2>4. ASSUME NEW g \in Host, g # h
        PROVE  /\ answer'[g] = "applied" => owner' = g /\ left' >= FollowerInterval - lag'[g]
               /\ Good(g)' => /\ owner' = g /\ answer'[g] # "other" /\ timer'[g] <= LeaderInterval
                              /\ left' >= FollowerInterval - MaxLag - LeaderInterval
                                            + timer'[g] - lag'[g]
    <3>1. (fate # "lost" /\ UpdateApplies(h)) \in BOOLEAN
      BY DEF UpdateApplies
    <3>2. (fate # "lost" /\ UpdateApplies(h)) => owner \in {NoHost, h}
      BY DEF UpdateApplies
    <3>3. \A k \in Host \ {h} :
            /\ answer'[k] = answer[k] /\ lag'[k] = lag[k] /\ timer'[k] = timer[k]
            /\ isLeader'[k] = isLeader[k] /\ failed'[k] = failed[k]
      BY <2>1, <2>2 DEF LInv, TypeOK
    <3> HIDE DEF UpdateApplies, LInv
    <3> QED
      BY <2>1, <2>4, <3>1, <3>2, <3>3, OthersKeepTheLease
  <2>5. answer'[h] = "applied" => owner' = h /\ left' = FollowerInterval
    BY <2>1 DEF Execute, Fate, LInv, TypeOK
  <2>6. Good(h) => owner' = h /\ left' >= left /\ answer'[h] # "other"
    BY <2>1, IntervalFacts DEF Execute, UpdateApplies, LInv, TypeOK, LeaseLasts
  <2>7. AppliedStands'
    BY <2>2, <2>4, <2>5 DEF AppliedStands, LInv, TypeOK
  <2>8. LeaseLasts'
    <3>1. Good(h)' => /\ owner' = h /\ answer'[h] # "other" /\ timer'[h] <= LeaderInterval
                      /\ left' >= FollowerInterval - MaxLag - LeaderInterval + timer'[h] - lag'[h]
      BY <2>2, <2>6, IntervalFacts DEF Good, LInv, LeaseLasts, TypeOK
    <3> QED
      BY <2>4, <3>1 DEF LeaseLasts
  <2> QED
    BY <2>3, <2>7, <2>8 DEF LInv
<1>5. ASSUME NEW h \in Host, Answered(h) PROVE LInv'
  <2>1. /\ isLeader' = [isLeader EXCEPT ![h] = SetLeader(h)]
        /\ timer' = [timer EXCEPT ![h] = NextInterval(SetLeader(h))]
        /\ failed' = [failed EXCEPT ![h] = answer[h] = "error"]
        /\ at' = [at EXCEPT ![h] = "waiting"] /\ answer' = [answer EXCEPT ![h] = "none"]
        /\ lag' = [lag EXCEPT ![h] = 0] /\ UNCHANGED <<owner, left>>
    BY <1>5 DEF Answered
  <2>2. ASSUME NEW g \in Host, g # h
        PROVE  /\ answer'[g] = answer[g] /\ at'[g] = at[g] /\ timer'[g] = timer[g]
               /\ lag'[g] = lag[g] /\ isLeader'[g] = isLeader[g] /\ failed'[g] = failed[g]
    BY <2>1, <2>2 DEF LInv, TypeOK
  <2>3. AnswerIsPending'
    BY <2>1, <2>2 DEF LInv, TypeOK, AnswerIsPending, InAttempt
  <2>4. AppliedStands'
    BY <2>1, <2>2 DEF LInv, TypeOK, AppliedStands
  <2>5. Good(h)' => answer[h] = "applied"
    BY <2>1 DEF Good, SetLeader, LInv, TypeOK
  <2>6. Good(h)' => /\ owner' = h /\ answer'[h] # "other" /\ timer'[h] <= LeaderInterval
                    /\ left' >= FollowerInterval - MaxLag - LeaderInterval + timer'[h] - lag'[h]
    <3> SUFFICES ASSUME Good(h)'
                 PROVE  /\ owner' = h /\ answer'[h] # "other" /\ timer'[h] <= LeaderInterval
                        /\ left' >= FollowerInterval - MaxLag - LeaderInterval + timer'[h] - lag'[h]
      OBVIOUS
    <3>1. owner = h /\ left >= FollowerInterval - lag[h]
      BY <2>5 DEF LInv, AppliedStands
    <3>2. timer'[h] = LeaderInterval
      BY <2>1, <2>5 DEF SetLeader, NextInterval, LInv, TypeOK
    <3>3. lag'[h] = 0 /\ answer'[h] = "none" /\ lag[h] \in 0 .. MaxLag /\ left \in Int
      BY <2>1, IntervalFacts DEF LInv, TypeOK
    <3> QED
      BY <2>1, <3>1, <3>2, <3>3, IntervalFacts
  <2>7. LeaseLasts'
    BY <2>1, <2>2, <2>6 DEF LInv, LeaseLasts, Good
  <2> QED
    BY <2>3, <2>4, <2>7 DEF LInv
<1>6. ASSUME Tick PROVE LInv'
  <2>1. /\ UNCHANGED <<at, answer, isLeader, failed>>
        /\ left' = (IF left > 0 THEN left - 1 ELSE 0)
        /\ owner' = (IF left > 1 THEN owner ELSE NoHost)
        /\ \A h \in Host :
             /\ Late(h) => lag[h] < MaxLag
             /\ lag'[h] = IF Late(h) THEN lag[h] + 1 ELSE lag[h]
             /\ timer'[h] = IF at[h] = "waiting" /\ timer[h] > 0 THEN timer[h] - 1 ELSE timer[h]
    BY <1>6 DEF Tick
  <2>2. AnswerIsPending'
    BY <2>1 DEF LInv, TypeOK, AnswerIsPending, InAttempt
  <2>3. AppliedStands'
    <3> SUFFICES ASSUME NEW h \in Host, answer[h] = "applied"
                 PROVE  owner' = h /\ left' >= FollowerInterval - lag'[h]
      BY <2>1 DEF AppliedStands
    <3>1. Late(h)
      BY DEF Late, InAttempt, LInv, AnswerIsPending, TypeOK, Where
    <3>2. /\ owner = h /\ left >= FollowerInterval - lag[h] /\ lag[h] < MaxLag
          /\ lag'[h] = lag[h] + 1 /\ lag[h] \in Nat /\ left \in Nat
      BY <2>1, <3>1, IntervalFacts DEF LInv, AppliedStands, TypeOK
    <3> QED
      BY <2>1, <3>2, IntervalFacts
  <2>4. LeaseLasts'
    <3> SUFFICES ASSUME NEW h \in Host, Good(h)
                 PROVE  /\ owner' = h /\ answer[h] # "other" /\ timer'[h] <= LeaderInterval
                        /\ left' >= FollowerInterval - MaxLag - LeaderInterval + timer'[h] - lag'[h]
      BY <2>1 DEF LeaseLasts, Good
    <3>1. /\ owner = h /\ answer[h] # "other" /\ timer[h] <= LeaderInterval
          /\ left >= FollowerInterval - MaxLag - LeaderInterval + timer[h] - lag[h]
          /\ timer[h] \in Nat /\ lag[h] \in Nat /\ lag[h] <= MaxLag /\ left \in Nat
      BY IntervalFacts DEF LInv, LeaseLasts, TypeOK
    <3>2. at[h] # "down"
      BY DEF Good, LInv, AnswerIsPending
    <3>3. CASE at[h] = "waiting" /\ timer[h] > 0
      <4>1. ~Late(h)
        BY <3>3 DEF Late, Due, InAttempt
      <4>2. timer'[h] = timer[h] - 1 /\ lag'[h] = lag[h]
        BY <2>1, <3>3, <4>1
      <4> QED
        BY <2>1, <3>1, <3>3, <4>2, IntervalFacts
    <3>4. CASE ~(at[h] = "waiting" /\ timer[h] > 0)
      <4>1. Late(h)
        BY <3>1, <3>2, <3>4 DEF Late, Due, InAttempt, LInv, TypeOK, Where
      <4>2. timer'[h] = timer[h] /\ lag'[h] = lag[h] + 1 /\ lag[h] < MaxLag
        BY <2>1, <3>4, <4>1
      <4> QED
        BY <2>1, <3>1, <4>2, IntervalFacts
    <3> QED
      BY <3>3, <3>4
  <2> QED
    BY <2>2, <2>3, <2>4 DEF LInv
<1>7. CASE UNCHANGED vars
  BY <1>7 DEF vars, LInv, AnswerIsPending, AppliedStands, LeaseLasts, Good, InAttempt
<1> QED
  BY <1>1, <1>2, <1>3, <1>4, <1>5, <1>6, <1>7 DEF Next, Attempt

-----------------------------------------------------------------------------
(* The theorems                                                            *)

LEMMA LInvInit == Init => LInv
BY TypedInit, LeaseInit DEF LInv

LEMMA LInvStep == LInv /\ [Next]_vars => LInv'
<1> SUFFICES ASSUME LInv, [Next]_vars PROVE LInv'
  OBVIOUS
<1>1. TypeOK'
  BY TypedStep DEF LInv
<1> QED
  BY <1>1, LeaseStep

\* The election keeps its inductive invariant.
THEOREM ElectionInvariant == Spec => []LInv
BY LInvInit, LInvStep, PTL DEF Spec

\* The election's state has its type.
THEOREM ElectionTypeCorrect == Spec => []TypeOK
<1>1. LInv => TypeOK
  BY DEF LInv
<1> QED
  BY ElectionInvariant, <1>1, PTL

\* A leader whose last attempt did not fail owns the row.
THEOREM GoodLeadersOwnTheLease == Spec => []LeaderOwnsLease
<1>1. LInv => LeaderOwnsLease
  BY DEF LInv, LeaseLasts, LeaderOwnsLease, Good
<1> QED
  BY ElectionInvariant, <1>1, PTL

\* Of two hosts that both believe they lead, one knows of a failed attempt: the
\* leader's shorter interval, plus twice the longest attempt, is below the TTL.
THEOREM LeadersAreExclusive == Spec => []LeadersExcludeEachOther
<1>1. LInv => LeadersExcludeEachOther
  BY DEF LInv, LeaseLasts, LeadersExcludeEachOther, Good
<1> QED
  BY ElectionInvariant, <1>1, PTL

\* A row that has not run out stays its owner's.
THEOREM LeaseStaysWithItsOwner == Spec => LeaseNeverStolen
<1>1. ASSUME [Next]_vars, owner # NoHost PROVE owner' \in {owner, NoHost}
  <2>1. ASSUME NEW h \in Host, Insert(h) PROVE owner' \in {owner, NoHost}
    BY <1>1, <2>1 DEF Insert, Execute, InsertApplies
  <2>2. ASSUME NEW h \in Host, Extend(h) PROVE owner' \in {owner, NoHost}
    BY <2>2 DEF Extend, Execute, UpdateApplies
  <2>3. ASSUME NEW h \in Host, Start(h) \/ Crash(h) \/ Answered(h)
        PROVE  owner' \in {owner, NoHost}
    BY <2>3 DEF Start, Crash, Answered
  <2>4. ASSUME Tick PROVE owner' \in {owner, NoHost}
    BY <2>4 DEF Tick
  <2> QED
    BY <1>1, <2>1, <2>2, <2>3, <2>4 DEF Next, Attempt, vars
<1>2. [Next]_vars => [owner # NoHost => owner' \in {owner, NoHost}]_vars
  BY <1>1
<1> QED
  BY <1>2, PTL DEF Spec, LeaseNeverStolen
=============================================================================
