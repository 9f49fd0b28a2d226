---------------------------- MODULE LeaderLease ----------------------------
(***************************************************************************)
(* Leader election among the collectors that run adaptive sampling: the    *)
(* lock of plugin/pkg/distributedlock/cassandra (one row of the table      *)
(* `leases`, written with lightweight transactions and a TTL) and the loop *)
(* of plugin/sampling/internal/leaderelection that renews it.              *)
(*                                                                         *)
(* Time is a global tick.  Every duration is kept as what is left of it,   *)
(* so the state is finite without a bound on time.  An attempt to take the *)
(* lock is one INSERT, and one UPDATE when the INSERT finds the host's own *)
(* row; each statement takes effect in Cassandra at one instant and its    *)
(* answer is handled later.  A statement may fail before it takes effect,  *)
(* or after, when only its answer is lost.                                 *)
(***************************************************************************)
EXTENDS Integers, FiniteSets

CONSTANTS
    Host,              \* collectors, each with its own tenant ID
    NoHost,            \* the row does not exist
    LeaderInterval,    \* LeaderLeaseRefreshInterval, in ticks
    FollowerInterval,  \* FollowerLeaseRefreshInterval; also the TTL asked for
    MaxLag,            \* longest time from an attempt being due to its end
    MaxFaults,         \* bound: statements that fail
    MaxCrashes         \* bound: processes that die

ASSUME HostAssumption == NoHost \notin Host
ASSUME IntervalAssumption ==
    /\ LeaderInterval \in Nat \ {0}
    /\ FollowerInterval \in Nat \ {0}
    /\ MaxLag \in Nat
ASSUME BudgetAssumption == MaxFaults \in Nat /\ MaxCrashes \in Nat
\* The options ask for a leader interval below the follower interval "to reduce
\* lock thrashing"; with attempts that take up to MaxLag this is what it needs.
ASSUME LeaseOutlivesRenewal == LeaderInterval + 2 * MaxLag < FollowerInterval

VARIABLES
    owner,     \* owner column of the lease row, or NoHost
    left,      \* what is left of the row's TTL
    at,        \* at[h]: where runAcquireLockLoop of h stands
    answer,    \* answer[h]: what Cassandra said to the statement under way
    isLeader,  \* isLeader[h]: the flag IsLeader returns
    timer,     \* timer[h]: ticks until the ticker fires
    lag,       \* lag[h]: time since the attempt of h was due
    failed,    \* failed[h]: the latest attempt of h ended in an error
    faults,    \* statements that failed so far
    crashes    \* processes that died so far

vars == <<owner, left, at, answer, isLeader, timer, lag, failed, faults, crashes>>

Where == {"down", "waiting", "inserted", "extended"}
Answers == {"none", "applied", "mine", "other", "error"}

TypeOK ==
    /\ owner \in Host \cup {NoHost}
    /\ left \in 0 .. FollowerInterval
    /\ (owner = NoHost) <=> (left = 0)
    /\ at \in [Host -> Where]
    /\ answer \in [Host -> Answers]
    /\ isLeader \in [Host -> BOOLEAN]
    /\ timer \in [Host -> 0 .. FollowerInterval]
    /\ lag \in [Host -> 0 .. MaxLag]
    /\ failed \in [Host -> BOOLEAN]
    /\ faults \in 0 .. MaxFaults
    /\ crashes \in 0 .. MaxCrashes

Init ==
    /\ owner = NoHost
    /\ left = 0
    /\ at = [h \in Host |-> "down"]
    /\ answer = [h \in Host |-> "none"]
    /\ isLeader = [h \in Host |-> FALSE]
    /\ timer = [h \in Host |-> 0]
    /\ lag = [h \in Host |-> 0]
    /\ failed = [h \in Host |-> FALSE]
    /\ faults = 0
    /\ crashes = 0

Running(h) == at[h] # "down"
Due(h) == at[h] = "waiting" /\ timer[h] = 0
InAttempt(h) == at[h] \in {"inserted", "extended"}

----------------------------------------------------------------------------
(* The process                                                              *)

\* NewElectionParticipant and Start: the flag is FALSE and the loop begins with
\* an attempt.
Start(h) ==
    /\ at[h] = "down"
    /\ at' = [at EXCEPT ![h] = "waiting"]
    /\ timer' = [timer EXCEPT ![h] = 0]
    /\ UNCHANGED <<owner, left, answer, isLeader, lag, failed, faults, crashes>>

\* The process dies, in an attempt or between two.  Nothing gives the lease
\* back: not even Close calls Forfeit, and the row stays until its TTL ends.
Crash(h) ==
    /\ Running(h) /\ crashes < MaxCrashes
    /\ crashes' = crashes + 1
    /\ at' = [at EXCEPT ![h] = "down"]
    /\ answer' = [answer EXCEPT ![h] = "none"]
    /\ isLeader' = [isLeader EXCEPT ![h] = FALSE]
    /\ lag' = [lag EXCEPT ![h] = 0]
    /\ failed' = [failed EXCEPT ![h] = FALSE]
    /\ UNCHANGED <<owner, left, timer, faults>>

----------------------------------------------------------------------------
(* The lock                                                                 *)

\* What becomes of a statement: it is answered, it fails without effect, or it
\* takes effect and the answer is lost.
Fate == {"answered", "lost", "unanswered"}

Charge(fate) ==
    /\ fate = "answered" \/ faults < MaxFaults
    /\ faults' = IF fate = "answered" THEN faults ELSE faults + 1

\* INSERT ... IF NOT EXISTS: the row must not be there.
InsertApplies(h) == owner = NoHost

\* Mutant: the UPDATE carries no condition.
UpdateAlways(h) == TRUE

\* UPDATE ... IF owner = ?: the row must still be this host's.
UpdateApplies(h) == owner = h

\* A conditional statement gives the row to h for a whole TTL, or leaves it.
Execute(h, applies) ==
    /\ owner' = IF applies THEN h ELSE owner
    /\ left'  = IF applies THEN FollowerInterval ELSE left

\* What the INSERT answers: that it applied, or whose row it found.
Found(h) ==
    IF InsertApplies(h) THEN "applied" ELSE IF owner = h THEN "mine" ELSE "other"

\* Acquire, first part: the ticker has fired, or the loop has just begun.
Insert(h) ==
    /\ Due(h)
    /\ \E fate \in Fate :
        /\ Charge(fate)
        /\ Execute(h, fate # "lost" /\ InsertApplies(h))
        /\ answer' = [answer EXCEPT ![h] = IF fate = "answered" THEN Found(h) ELSE "error"]
    /\ at' = [at EXCEPT ![h] = "inserted"]
    /\ UNCHANGED <<isLeader, timer, lag, failed, crashes>>

\* extendLease: the INSERT found this host's own row.  The row may have run out,
\* and even be another's, by the time the UPDATE takes effect.
Extend(h) ==
    /\ at[h] = "inserted" /\ answer[h] = "mine"
    /\ \E fate \in Fate :
        /\ Charge(fate)
        /\ Execute(h, fate # "lost" /\ UpdateApplies(h))
        /\ answer' = [answer EXCEPT ![h] =
                        IF fate = "answered" /\ UpdateApplies(h) THEN "applied" ELSE "error"]
    /\ at' = [at EXCEPT ![h] = "extended"]
    /\ UNCHANGED <<isLeader, timer, lag, failed, crashes>>

----------------------------------------------------------------------------
(* The participant                                                          *)

\* Mutant: the flag is only ever raised.
SetLeaderForGood(h) == isLeader[h] \/ answer[h] = "applied"

\* acquireLock: an error leaves the flag as it was; anything else sets it.
SetLeader(h) ==
    IF answer[h] = "error" THEN isLeader[h] ELSE answer[h] = "applied"

\* Mutant: the leader renews at the followers' pace.
SameInterval(leader) == FollowerInterval

\* acquireLock: the leader comes back sooner than a follower.
NextInterval(leader) == IF leader THEN LeaderInterval ELSE FollowerInterval

\* Acquire returns and acquireLock handles its answer; the loop makes a ticker
\* of the interval it returns.
Answered(h) ==
    /\ InAttempt(h) /\ answer[h] # "mine"
    /\ isLeader' = [isLeader EXCEPT ![h] = SetLeader(h)]
    /\ timer' = [timer EXCEPT ![h] = NextInterval(SetLeader(h))]
    /\ failed' = [failed EXCEPT ![h] = answer[h] = "error"]
    /\ at' = [at EXCEPT ![h] = "waiting"]
    /\ answer' = [answer EXCEPT ![h] = "none"]
    /\ lag' = [lag EXCEPT ![h] = 0]
    /\ UNCHANGED <<owner, left, faults, crashes>>

----------------------------------------------------------------------------
(* Time                                                                     *)

Late(h) == Due(h) \/ InAttempt(h)

\* A tick: every ticker and the row's TTL run down.  No attempt takes longer
\* than MaxLag ticks from the moment it is due.
Tick ==
    /\ \A h \in Host : Late(h) => lag[h] < MaxLag
    /\ left' = IF left > 0 THEN left - 1 ELSE 0
    /\ owner' = IF left > 1 THEN owner ELSE NoHost
    /\ timer' = [h \in Host |-> IF at[h] = "waiting" /\ timer[h] > 0
                                THEN timer[h] - 1 ELSE timer[h]]
    /\ lag' = [h \in Host |-> IF Late(h) THEN lag[h] + 1 ELSE lag[h]]
    /\ UNCHANGED <<at, answer, isLeader, failed, faults, crashes>>

Attempt(h) == Insert(h) \/ Extend(h) \/ Answered(h)

Next ==
    \/ \E h \in Host : Start(h) \/ Crash(h) \/ Attempt(h)
    \/ Tick

\* Time passes, and the loop of a running host goes on.  Nothing makes a host
\* start, or a statement fail.
Fairness == WF_vars(Tick) /\ \A h \in Host : WF_vars(Attempt(h))

Spec == Init /\ [][Next]_vars /\ Fairness

----------------------------------------------------------------------------
(* Properties                                                               *)

\* The code lets a host whose attempts fail go on believing that it leads, and
\* another take its lease over.  This is as far as it goes: of two hosts that
\* believe they lead, one has just failed to reach Cassandra or has been told
\* that the row is not its own.  It rests on the leader's shorter interval.
LeadersExcludeEachOther ==
    \A g, h \in Host :
        g # h /\ isLeader[g] /\ isLeader[h] => failed[g] \/ failed[h]

\* A leader in good standing owns the row.
LeaderOwnsLease ==
    \A h \in Host : isLeader[h] /\ ~failed[h] => owner = h

\* Nobody takes a row that has not run out: the owner changes only from or to
\* "no row", whatever statement is under way, late or retried.
LeaseNeverStolen == [][owner # NoHost => owner' \in {owner, NoHost}]_vars

ExactlyOneLeader == Cardinality({h \in Host : isLeader[h]}) = 1

\* Once the faults stop, the hosts that are left agree on one leader and keep
\* it: a dead leader's lease runs out and is taken over, a stale one steps down.
OneLeaderInTheEnd ==
    <>[](\E h \in Host : Running(h)) => <>[]ExactlyOneLeader

=============================================================================
