--------------------------- MODULE DALedgerAtomic ---------------------------
(***************************************************************************)
(* What the data_availability ledger promises its callers (spec 3.1 and   *)
(* 4.1): each call of insert_l1_batch_da or save_l1_batch_inclusion_data  *)
(* takes effect at one instant.  blob_id is written once, inclusion_data  *)
(* is written once and only on an existing row, a repeated call with the  *)
(* same value succeeds, a conflicting one is a ConstraintError and        *)
(* changes nothing, and any call may fail with a database error that      *)
(* changes nothing.  A caller's result keeps the call it answers.  A read *)
(* returns what spec 4.1 says it returns (P6 for the first row awaiting   *)
(* inclusion).                                                            *)
(***************************************************************************)
EXTENDS Naturals, FiniteSets, FiniteSetsExt, Sequences

CONSTANTS Callers, Numbers, Blobs, Datas, NoBlob, NoData, L1Batches, Limit

VARIABLES da, result, rows

NoCall == [kind |-> "none", n |-> CHOOSE n \in Numbers : TRUE, v |-> NoBlob]

\* Caller c's call kind(n, v) returns r.
Answer(c, kind, n, v, r) ==
    result' = [result EXCEPT ![c] = [call |-> [kind |-> kind, n |-> n, v |-> v],
                                    r |-> r]]

\* blob_id is written once; the same blob again is Ok, another one is a
\* ConstraintError.
Insert(c, n, b) ==
    /\ da' = IF da[n].blob = NoBlob
             THEN [da EXCEPT ![n].blob = b] ELSE da
    /\ Answer(c, "insert", n, b,
              IF da[n].blob \in {NoBlob, b} THEN "ok" ELSE "constraint")
    /\ UNCHANGED rows

\* inclusion_data is written once, on an existing row; the same data again
\* is Ok, other data is a ConstraintError ("an attempt to rewrite ... with
\* a different value").  The spec names no result for a missing row; the
\* lookup of a missing row is a database error.
SaveInclusion(c, n, d) ==
    /\ da' = IF da[n].blob # NoBlob /\ da[n].incl = NoData
             THEN [da EXCEPT ![n].incl = d] ELSE da
    /\ Answer(c, "inclusion", n, d,
              IF da[n].blob = NoBlob THEN "db_error"
              ELSE IF da[n].incl \in {NoData, d} THEN "ok" ELSE "constraint")
    /\ UNCHANGED rows

\* Any call may fail with a database error and change nothing.
Fail(c, kind, n, v) ==
    /\ Answer(c, kind, n, v, "db_error")
    /\ UNCHANGED <<da, rows>>

\* A read returns the rows r and changes nothing.  (A failed read changes
\* nothing at all.)
Read(r) ==
    /\ rows' = r
    /\ UNCHANGED <<da, result>>

\* P6: the row with the smallest l1_batch_number among those with NULL
\* inclusion_data, or none.
FirstAwaiting ==
    LET A == {n \in Numbers : da[n].blob # NoBlob /\ da[n].incl = NoData}
    IN  Read(IF A = {} THEN <<>> ELSE <<Min(A)>>)

\* The batches ready for dispatch: (a) no commit tx, (b) non-zero number,
\* (c) no ledger row, (d) pubdata present.
ReadySet ==
    {n \in DOMAIN L1Batches :
        /\ ~L1Batches[n].commitTx /\ n # 0 /\ L1Batches[n].pubdata
        /\ n \notin Numbers \/ da[n].blob = NoBlob}

\* Up to limit of them, in ascending order, and none smaller left out.
ReadyForDispatch ==
    LET k == Min({Limit, Cardinality(ReadySet)})
    IN  \E r \in [1..k -> ReadySet] :
            /\ \A i, j \in 1..k : i < j => r[i] < r[j]
            /\ \A n \in ReadySet \ {r[i] : i \in 1..k} : \A i \in 1..k : r[i] < n
            /\ Read(r)

Init ==
    /\ da = [n \in Numbers |-> [blob |-> NoBlob, incl |-> NoData]]
    /\ result = [c \in Callers |-> [call |-> NoCall, r |-> "none"]]
    /\ rows = <<>>

Next ==
    \E c \in Callers :
        \/ \E n \in Numbers, b \in Blobs :
              Insert(c, n, b) \/ Fail(c, "insert", n, b)
        \/ \E n \in Numbers, d \in Datas :
              SaveInclusion(c, n, d) \/ Fail(c, "inclusion", n, d)
    \/ FirstAwaiting \/ ReadyForDispatch

Spec == Init /\ [][Next]_<<da, result, rows>>

====
