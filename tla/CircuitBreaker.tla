---------------------------- MODULE CircuitBreaker ----------------------------
(***************************************************************************)
(* circuit_breaker.rs with its clock: `failures` and `last_failure` as in *)
(* the struct, `now` as Instant::now() in whole seconds.  The worker that *)
(* owns the breaker holds its mutex only across is_open or               *)
(* record_failure, so each is one step; is_open changes nothing and is an *)
(* operator.  Time advances by Tick.                                      *)
(***************************************************************************)
EXTENDS Naturals, Sequences, SequencesExt

CONSTANTS
    FailureThreshold, \* failure_threshold
    ResetTimeout,     \* reset_timeout, seconds
    MaxTime,          \* bound on the clock
    MaxFailures,      \* bound on recorded failures
    None              \* last_failure = None

ASSUME /\ FailureThreshold \in Nat \ {0}
       /\ ResetTimeout \in Nat \ {0}
       /\ None \notin Nat

VARIABLES
    now,          \* Instant::now()
    failures,     \* self.failures
    lastFailure,  \* self.last_failure
    failTimes     \* history: the instants of every recorded failure

vars == <<now, failures, lastFailure, failTimes>>

\* CircuitBreaker::new
Init ==
    /\ now = 0
    /\ failures = 0
    /\ lastFailure = None
    /\ failTimes = <<>>

\* Mutant: is_open with the threshold compared strictly.
IsOpenStrict ==
    IF lastFailure # None /\ now - lastFailure >= ResetTimeout THEN FALSE
    ELSE failures > FailureThreshold

\* is_open: closed once reset_timeout has elapsed since the last failure,
\* otherwise open iff failures >= failure_threshold.
IsOpen ==
    IF lastFailure # None /\ now - lastFailure >= ResetTimeout THEN FALSE
    ELSE failures >= FailureThreshold

\* Mutant: record_failure that counts the failure but stamps no time.
RecordFailureNoStamp ==
    /\ failures < MaxFailures
    /\ failures' = failures + 1
    /\ failTimes' = Append(failTimes, now)
    /\ UNCHANGED <<now, lastFailure>>

\* Mutant: record_failure that does not refresh last_failure once set.
RecordFailureKeepTime ==
    /\ failures < MaxFailures
    /\ failures' = failures + 1
    /\ lastFailure' = IF lastFailure = None THEN now ELSE lastFailure
    /\ failTimes' = Append(failTimes, now)
    /\ UNCHANGED now

\* record_failure: count the failure and stamp it.
RecordFailure ==
    /\ failures < MaxFailures
    /\ failures' = failures + 1
    /\ lastFailure' = now
    /\ failTimes' = Append(failTimes, now)
    /\ UNCHANGED now

Tick ==
    /\ now < MaxTime
    /\ now' = now + 1
    /\ UNCHANGED <<failures, lastFailure, failTimes>>

Next == RecordFailure \/ Tick

Spec == Init /\ [][Next]_vars

(***************************************************************************)
(* Properties                                                              *)
(***************************************************************************)

TypeOK ==
    /\ now \in 0..MaxTime
    /\ failures \in 0..MaxFailures
    /\ lastFailure \in 0..MaxTime \cup {None}
    /\ (lastFailure = None) = (failures = 0)
    /\ failTimes \in BoundedSeq(0..MaxTime, MaxFailures)

\* P8: once failure_threshold failures have been recorded within the last
\* reset_timeout, is_open() is true.  It is about the counter and the
\* timestamp that record_failure keeps and the comparison in is_open.
OpenAfterThresholdInWindow ==
    (/\ Len(failTimes) >= FailureThreshold
     /\ \A i \in (Len(failTimes) - FailureThreshold + 1)..Len(failTimes) :
            now - failTimes[i] < ResetTimeout)
        => IsOpen

\* The abstraction DAPipeline uses: the counter up to the threshold, and
\* whether reset_timeout has elapsed since the last failure.
Expired == lastFailure # None /\ now - lastFailure >= ResetTimeout

AbsBreaker == [failures |-> Min({failures, FailureThreshold}),
               expired  |-> Expired]

Abs == INSTANCE CircuitBreakerAbstract WITH cb <- AbsBreaker

\* The timed breaker implements the clock-free breaker of DAPipeline: each
\* record_failure is a Fail, the tick at which reset_timeout elapses is an
\* Expire, and every other tick changes nothing the pipeline can observe.
ImplementsAbstract == Abs!Spec

====
