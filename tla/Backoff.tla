------------------------------- MODULE Backoff -------------------------------
(***************************************************************************)
(* The retry loop of upload_to_ipfs_with_backoff (worker.rs 109-136); the *)
(* loop of submit_to_mintlayer_with_backoff (432-463) is the same code     *)
(* with the Mintlayer settings.  One call of the function is one          *)
(* behaviour: each try of the backend succeeds or fails, a failure counts *)
(* an attempt on the in-memory record, and while attempts remain the task *)
(* sleeps `delay` and doubles it up to the cap.  Durations are whole      *)
(* seconds.  The configuration (base and max delay) is chosen in Init     *)
(* from the sets the cfg gives, so one run covers several settings.       *)
(* A polled row always carries attempts = 0: attempts reach the table     *)
(* only together with status Completed, which no poll returns.            *)
(***************************************************************************)
EXTENDS Naturals, Sequences, SequencesExt

CONSTANTS
    Bases,        \* candidate values of *_retry_base_delay
    MaxDelays,    \* candidate values of *_retry_max_delay
    MaxAttempts   \* *_max_attempts

ASSUME MaxAttempts \in Nat \ {0}

VARIABLES
    base,      \* the configured base delay
    maxDelay,  \* the configured max delay
    attempts,  \* op.attempts / batch.attempts, in memory
    delay,     \* the local `delay`
    slept,     \* history: the delays slept, in order
    tries,     \* history: calls made to the backend
    outcome    \* "running", "ok" or "err" (the error of the last try)

vars == <<base, maxDelay, attempts, delay, slept, tries, outcome>>

Init ==
    /\ base \in Bases
    /\ maxDelay \in MaxDelays
    /\ attempts = 0
    /\ delay = base
    /\ slept = <<>>
    /\ tries = 0
    /\ outcome = "running"

\* Mutant: the doubled delay is not capped by max_delay.
NextDelayNoCap(d) == d * 2

\* delay = std::cmp::min(delay * 2, max_delay)
NextDelay(d) == Min({d * 2, maxDelay})

\* The loop head `while attempts < max_attempts` lets a try happen.
Trying == outcome = "running" /\ attempts < MaxAttempts

\* The backend returns Ok: the function returns the hash / tx hash.
TryOk ==
    /\ Trying
    /\ tries' = tries + 1
    /\ outcome' = "ok"
    /\ UNCHANGED <<base, maxDelay, attempts, delay, slept>>

\* The try fails and it was the last attempt: return Err(e).
TryFailLast ==
    /\ Trying
    /\ attempts + 1 >= MaxAttempts
    /\ tries' = tries + 1
    /\ attempts' = attempts + 1
    /\ outcome' = "err"
    /\ UNCHANGED <<base, maxDelay, delay, slept>>

\* Mutant: the delay is doubled before the sleep instead of after it.
TryFailRetryDoubleFirst ==
    /\ Trying
    /\ attempts + 1 < MaxAttempts
    /\ tries' = tries + 1
    /\ attempts' = attempts + 1
    /\ slept' = Append(slept, NextDelay(delay))
    /\ delay' = NextDelay(delay)
    /\ UNCHANGED <<base, maxDelay, outcome>>

\* The try fails and attempts remain: sleep `delay`, then double it.
TryFailRetry ==
    /\ Trying
    /\ attempts + 1 < MaxAttempts
    /\ tries' = tries + 1
    /\ attempts' = attempts + 1
    /\ slept' = Append(slept, delay)
    /\ delay' = NextDelay(delay)
    /\ UNCHANGED <<base, maxDelay, outcome>>

Next == TryOk \/ TryFailLast \/ TryFailRetry

\* One call of the function: it returns after finitely many steps.
Spec == Init /\ [][Next]_vars

(***************************************************************************)
(* Reference definitions from the retry policy (spec 4.5, P7).            *)
(***************************************************************************)

\* The k-th delay of the policy: min(B * 2^(k-1), M).
SpecDelay(k) == Min({base * 2 ^ (k - 1), maxDelay})

TypeOK ==
    /\ base \in Bases /\ maxDelay \in MaxDelays
    /\ attempts \in 0..MaxAttempts
    /\ delay \in 0..Max({base, maxDelay})
    /\ slept \in Seq(Nat)
    /\ tries \in 0..MaxAttempts
    /\ outcome \in {"running", "ok", "err"}

\* P7, first half: the k-th sleep of the loop is min(B * 2^(k-1), M).
\* It is about the order of the sleep and the doubling in the loop body and
\* the cap applied to the doubled value.
DelaysFollowSpec ==
    \A k \in 1..Len(slept) : slept[k] = SpecDelay(k)

====
