----------------------------- MODULE MCDALedger -----------------------------
(***************************************************************************)
(* Model-checking instance of DALedger: two concurrent callers, two L1    *)
(* batch numbers, two blob ids and two inclusion data values, so that     *)
(* every call can meet a conflicting or an identical earlier one; a small *)
(* l1_batches table for the dispatch query.                               *)
(***************************************************************************)
EXTENDS DALedger, TLC

CONSTANTS c1, c2, x, y, d1, d2

MCCallers == {c1, c2}
MCNumbers == {1, 2}
MCBlobs == {x, y}

\* Two non-empty inclusion data values.
MCDatas == {d1, d2}
\* One of them is the empty byte string.
MCDatasWithEmpty == {Empty, d1}

\* l1_batches: the genesis batch, batches 1 and 2 (the ledger's numbers),
\* batch 3 already committed on L1, batch 4 without pubdata and batch 5
\* ready and outside the ledger's numbers, so that LIMIT 2 cuts the list.
Row(pubdata, commitTx) == [pubdata |-> pubdata, commitTx |-> commitTx]
MCL1Batches ==
    (0 :> Row(TRUE, FALSE)) @@ (1 :> Row(TRUE, FALSE)) @@ (2 :> Row(TRUE, FALSE))
    @@ (3 :> Row(TRUE, TRUE)) @@ (4 :> Row(FALSE, FALSE)) @@ (5 :> Row(TRUE, FALSE))

Symmetry == Permutations(MCCallers) \cup Permutations(MCBlobs) \cup Permutations(MCDatas)

====
