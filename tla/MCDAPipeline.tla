---------------------------- MODULE MCDAPipeline ----------------------------
(***************************************************************************)
(* Model-checking instance of DAPipeline: three operations, so that a     *)
(* batch of size 2 fills up and a second one is opened, and as many batch *)
(* ids as operations (every batch holds at least one hash).  A poll takes *)
(* at most 2 rows, so the LIMIT of the queries is reached.                *)
(***************************************************************************)
EXTENDS DAPipeline, TLC

CONSTANTS o1, o2, o3, b1, b2, b3

MCOps == {o1, o2, o3}
MCBatches == {b1, b2, b3}

\* Operations and batch ids are interchangeable UUIDs.
Symmetry == Permutations(MCOps) \cup Permutations(MCBatches)

====
