-------------------------- MODULE MCDAPipelineLive --------------------------
(***************************************************************************)
(* Liveness instance of DAPipeline: two operations under the fair         *)
(* specification, with a breaker threshold of 2 so that failures of       *)
(* different operations add up before the breaker opens.                  *)
(***************************************************************************)
EXTENDS DAPipeline

CONSTANTS o1, o2, b1, b2

MCOps == {o1, o2}
MCBatches == {b1, b2}

====
