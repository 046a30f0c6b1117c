------------------------------ MODULE DALedger ------------------------------
(***************************************************************************)
(* The data_availability table and the two DAL calls that write it,       *)
(* insert_l1_batch_da and save_l1_batch_inclusion_data, called            *)
(* concurrently by several callers.  Each call is two statements: a       *)
(* conditional write and, when it wrote no row, a SELECT that checks the  *)
(* stored value.  Each statement is one atomic step; a caller's pc says   *)
(* which statement comes next.  Inclusion data is compared as bytes:      *)
(* Empty is the zero-length byte string, which unwrap_or_default gives    *)
(* for a NULL column.  The two read-only queries are one SELECT each;     *)
(* the second joins the ledger with l1_batches, which the sealer and the  *)
(* commit path write and which is a fixed table here.                    *)
(***************************************************************************)
EXTENDS Naturals, Sequences, SequencesExt

CONSTANTS Callers, Numbers, Blobs, Datas, Empty, NoBlob, NoData,
    L1Batches,  \* l1_batches: number -> [pubdata, commitTx] (NOT NULL flags)
    Limit       \* the limit argument of get_ready_for_da_dispatch_l1_batches

ASSUME NoBlob \notin Blobs /\ NoData \notin Datas

VARIABLES
    da,      \* data_availability: Numbers -> [blob, incl] (NoBlob = no row)
    pc,      \* caller -> "idle" or "check" (the SELECT is next)
    call,    \* caller -> its current or last call: [kind, n, v]
    result,  \* caller -> its last finished call and what it returned
    rows     \* the rows the dispatcher's last read returned

vars == <<da, pc, call, result, rows>>

NoCall == [kind |-> "none", n |-> CHOOSE n \in Numbers : TRUE, v |-> NoBlob]

Init ==
    /\ da = [n \in Numbers |-> [blob |-> NoBlob, incl |-> NoData]]
    /\ pc = [c \in Callers |-> "idle"]
    /\ call = [c \in Callers |-> NoCall]
    /\ result = [c \in Callers |-> [call |-> NoCall, r |-> "none"]]
    /\ rows = <<>>

\* The call k returns r.
Finish(c, k, r) ==
    /\ pc' = [pc EXCEPT ![c] = "idle"]
    /\ result' = [result EXCEPT ![c] = [call |-> k, r |-> r]]

\* A call whose first statement decides it.
CallDone(c, kind, n, v, r) ==
    LET k == [kind |-> kind, n |-> n, v |-> v]
    IN  /\ call' = [call EXCEPT ![c] = k]
        /\ Finish(c, k, r)

\* A call whose first statement wrote no row: the SELECT is next.
Await(c, kind, n, v) ==
    /\ pc' = [pc EXCEPT ![c] = "check"]
    /\ call' = [call EXCEPT ![c] = [kind |-> kind, n |-> n, v |-> v]]
    /\ UNCHANGED result

(***************************************************************************)
(* insert_l1_batch_da                                                      *)
(***************************************************************************)

\* INSERT ... ON CONFLICT DO NOTHING inserts a row: Ok.
InsertNew(c, n, b) ==
    /\ pc[c] = "idle"
    /\ da[n].blob = NoBlob
    /\ da' = [da EXCEPT ![n] = [blob |-> b, incl |-> NoData]]
    /\ CallDone(c, "insert", n, b, "ok")
    /\ UNCHANGED rows

\* The INSERT hits an existing row: no row affected, the SELECT follows.
InsertConflict(c, n, b) ==
    /\ pc[c] = "idle"
    /\ da[n].blob # NoBlob
    /\ Await(c, "insert", n, b)
    /\ UNCHANGED <<da, rows>>

\* SELECT blob_id and compare: a different blob_id is a constraint error.
InsertCheck(c) ==
    /\ pc[c] = "check" /\ call[c].kind = "insert"
    /\ Finish(c, call[c], IF da[call[c].n].blob = call[c].v THEN "ok" ELSE "constraint")
    /\ UNCHANGED <<da, call, rows>>

(***************************************************************************)
(* save_l1_batch_inclusion_data                                           *)
(***************************************************************************)

\* Mutant: the UPDATE written as an upsert that does not need the row.
InclusionSetNoRow(c, n, d) ==
    /\ pc[c] = "idle"
    /\ da[n].incl = NoData
    /\ da' = [da EXCEPT ![n].incl = d]
    /\ CallDone(c, "inclusion", n, d, "ok")
    /\ UNCHANGED rows

\* UPDATE ... WHERE l1_batch_number = n AND inclusion_data IS NULL.
InclusionSet(c, n, d) ==
    /\ pc[c] = "idle"
    /\ da[n].blob # NoBlob /\ da[n].incl = NoData
    /\ da' = [da EXCEPT ![n].incl = d]
    /\ CallDone(c, "inclusion", n, d, "ok")
    /\ UNCHANGED rows

\* The UPDATE affects no row (no row yet, or data already there).
InclusionMiss(c, n, d) ==
    /\ pc[c] = "idle"
    /\ da[n].blob = NoBlob \/ da[n].incl # NoData
    /\ Await(c, "inclusion", n, d)
    /\ UNCHANGED <<da, rows>>

\* Mutant: the stored value is fetched but not compared.
InclusionCheckNoCompare(c) ==
    /\ pc[c] = "check" /\ call[c].kind = "inclusion"
    /\ Finish(c, call[c], IF da[call[c].n].blob = NoBlob THEN "db_error" ELSE "ok")
    /\ UNCHANGED <<da, call, rows>>

\* SELECT inclusion_data: no row is RowNotFound from fetch_one; otherwise
\* matched.unwrap_or_default() is compared with the argument.
InclusionCheck(c) ==
    /\ pc[c] = "check" /\ call[c].kind = "inclusion"
    /\ LET row == da[call[c].n]
           matched == IF row.incl = NoData THEN Empty ELSE row.incl
       IN  Finish(c, call[c], IF row.blob = NoBlob THEN "db_error"
                     ELSE IF matched # call[c].v THEN "constraint"
                     ELSE "ok")
    /\ UNCHANGED <<da, call, rows>>

(***************************************************************************)
(* The read-only queries                                                   *)
(***************************************************************************)

\* The first n rows of a query result: LIMIT n.
Take(s, n) == IF Len(s) <= n THEN s ELSE SubSeq(s, 1, n)

\* The rows of data_availability with inclusion_data IS NULL.
AwaitingRows == {n \in Numbers : da[n].blob # NoBlob /\ da[n].incl = NoData}

\* Mutant: the WHERE inclusion_data IS NULL filter is left out.
FirstAwaitingNoFilter ==
    Take(SetToSortSeq({n \in Numbers : da[n].blob # NoBlob}, <), 1)

\* ORDER BY l1_batch_number LIMIT 1, fetch_optional: the first row or None
\* (a sequence of at most one number).
FirstAwaiting == Take(SetToSortSeq(AwaitingRows, <), 1)

\* get_first_da_blob_awaiting_inclusion
ReadFirstAwaiting ==
    /\ rows' = FirstAwaiting
    /\ UNCHANGED <<da, pc, call, result>>

\* l1_batches LEFT JOIN data_availability: blob_id IS NULL when no row.
HasDaRow(n) == n \in Numbers /\ da[n].blob # NoBlob

\* The WHERE clause: no commit tx, not the genesis batch, not yet
\* dispatched, pubdata present; ORDER BY number LIMIT $1.
ReadyForDispatch ==
    LET ready == {n \in DOMAIN L1Batches :
                    /\ ~L1Batches[n].commitTx /\ n # 0
                    /\ ~HasDaRow(n) /\ L1Batches[n].pubdata}
    IN  Take(SetToSortSeq(ready, <), Limit)

\* get_ready_for_da_dispatch_l1_batches(limit)
ReadReady ==
    /\ rows' = ReadyForDispatch
    /\ UNCHANGED <<da, pc, call, result>>

\* The INSERT fails with a database error: DalResult Err, nothing written.
InsertDbError(c, n, b) ==
    /\ pc[c] = "idle"
    /\ CallDone(c, "insert", n, b, "db_error")
    /\ UNCHANGED <<da, rows>>

\* The UPDATE fails with a database error: DalResult Err, nothing written.
UpdateDbError(c, n, d) ==
    /\ pc[c] = "idle"
    /\ CallDone(c, "inclusion", n, d, "db_error")
    /\ UNCHANGED <<da, rows>>

\* The SELECT of a call fails with a database error.
CheckDbError(c) ==
    /\ pc[c] = "check"
    /\ Finish(c, call[c], "db_error")
    /\ UNCHANGED <<da, call, rows>>

Next ==
    \E c \in Callers :
        \/ \E n \in Numbers, b \in Blobs :
              \/ InsertNew(c, n, b) \/ InsertConflict(c, n, b)
              \/ InsertDbError(c, n, b)
        \/ \E n \in Numbers, d \in Datas :
              \/ InclusionSet(c, n, d) \/ InclusionMiss(c, n, d)
              \/ UpdateDbError(c, n, d)
        \/ InsertCheck(c) \/ InclusionCheck(c)
        \/ CheckDbError(c)
    \/ ReadFirstAwaiting \/ ReadReady

Spec == Init /\ [][Next]_vars

(***************************************************************************)
(* Properties                                                              *)
(***************************************************************************)

Calls == [kind : {"insert"}, n : Numbers, v : Blobs] \cup
         [kind : {"inclusion"}, n : Numbers, v : Datas]

\* A row has a blob_id (NOT NULL); inclusion data exists only on a row.
TypeOK ==
    /\ da \in [Numbers -> {[blob |-> NoBlob, incl |-> NoData]}
                          \cup [blob : Blobs, incl : Datas \cup {NoData}]]
    /\ pc \in [Callers -> {"idle", "check"}]
    /\ call \in [Callers -> {NoCall} \cup Calls]
    /\ result \in [Callers -> {[call |-> NoCall, r |-> "none"]} \cup
                   [call : Calls, r : {"ok", "constraint", "db_error"}]]
    /\ rows \in BoundedSeq(DOMAIN L1Batches, Limit)

\* The value a call wrote is in its row: blob_id for insert_l1_batch_da,
\* inclusion_data for save_l1_batch_inclusion_data.
Stored(k) ==
    IF k.kind = "insert" THEN da[k.n].blob = k.v ELSE da[k.n].incl = k.v

\* A caller told Ok by either call finds the value it passed stored in
\* the row, whatever the other caller did between the call's UPDATE or
\* INSERT and its SELECT.
OkMeansStored ==
    \A c \in Callers : result[c].r = "ok" => Stored(result[c].call)

(***************************************************************************)
(* Refinement: every call takes effect at one of its statements, and its  *)
(* answer is the one the atomic ledger gives that very call (the result   *)
(* keeps the call's kind and arguments, so a wrong answer cannot be taken *)
(* for the answer to another call).                                       *)
(***************************************************************************)
Atomic == INSTANCE DALedgerAtomic

\* The two-statement calls, run concurrently, behave as atomic calls.
ImplementsAtomic == Atomic!Spec

\* The two read-only queries return what spec 4.1 says of them (P6 for
\* the first row awaiting inclusion, the four conditions and the limit
\* for the dispatch list).
ReadsFollowSpec ==
    /\ [][ReadFirstAwaiting => Atomic!FirstAwaiting]_vars
    /\ [][ReadReady => Atomic!ReadyForDispatch]_vars

====
