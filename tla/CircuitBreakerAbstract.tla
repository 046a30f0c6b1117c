----------------------- MODULE CircuitBreakerAbstract -----------------------
(***************************************************************************)
(* The circuit breaker as DAPipeline sees it: no clock, only the number   *)
(* of failures up to the threshold (is_open only compares the counter     *)
(* with the threshold) and whether reset_timeout has elapsed since the    *)
(* last failure.  Expiry happens at any moment after a failure; a new     *)
(* failure makes the window current again.                                *)
(***************************************************************************)
EXTENDS Naturals

CONSTANT FailureThreshold

VARIABLE cb   \* [failures : 0..FailureThreshold, expired : BOOLEAN]

Closed == [failures |-> 0, expired |-> FALSE]

IsOpen(c) == ~c.expired /\ c.failures >= FailureThreshold

Failed(c) ==
    [failures |-> IF c.failures < FailureThreshold THEN c.failures + 1
                  ELSE c.failures,
     expired  |-> FALSE]

Init == cb = Closed

Fail == cb' = Failed(cb)

Expire ==
    /\ cb.failures > 0 /\ ~cb.expired
    /\ cb' = [cb EXCEPT !.expired = TRUE]

Spec == Init /\ [][Fail \/ Expire]_cb

====
