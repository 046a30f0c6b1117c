----------------------------- MODULE DAPipeline -----------------------------
(***************************************************************************)
(* The data-availability publish pipeline of zk-thunder: the producer in  *)
(* EthTxAggregator::save_mintlayer_tx, the two tables                      *)
(* pending_ipfs_operations and pending_mintlayer_batches, the IPFS and     *)
(* Mintlayer worker loops of DataAvailabilityWorker, the cleanup routine   *)
(* and the two circuit breakers.                                           *)
(*                                                                         *)
(* Every database statement is one atomic step; a worker's in-memory copy *)
(* of rows (the result of a poll) is part of its local state and can be   *)
(* stale when it is written back.  A payload's IPFS hash is modelled by   *)
(* the id of its operation (content addressing: distinct payloads,        *)
(* distinct hashes).  Time appears only through the circuit breakers'     *)
(* reset timeout and through the age test of the cleanup.                 *)
(***************************************************************************)
EXTENDS Naturals, Sequences, FiniteSets, SequencesExt

CONSTANTS
    Ops,               \* ids (UUIDs) of the operations the producer can save
    Batches,           \* ids (UUIDs) available for new Mintlayer batches
    NoOp, NoBatch,     \* "no value" markers for the worker's locals
    BatchSize,         \* WorkerConfig.batch_size
    IpfsMaxAttempts,   \* WorkerConfig.ipfs_max_attempts
    MlMaxAttempts,     \* WorkerConfig.mintlayer_max_attempts
    MaxRetryAttempts,  \* MAX_RETRY_ATTEMPTS of the DAL
    MaxBatchRows,      \* MAX_BATCH_SIZE of the DAL: the LIMIT of a poll
    FailureThreshold   \* CircuitBreaker.failure_threshold

ASSUME /\ BatchSize \in Nat \ {0}
       /\ IpfsMaxAttempts \in Nat \ {0}
       /\ MlMaxAttempts \in Nat \ {0}
       /\ MaxRetryAttempts \in Nat
       /\ MaxBatchRows \in Nat \ {0}
       /\ FailureThreshold \in Nat \ {0}
       /\ NoOp \notin Ops /\ NoBatch \notin Batches

VARIABLES
    opRow,      \* pending_ipfs_operations: Ops -> row ("absent" = no row)
    opOrder,    \* ids of saved operations in created_at order
    batchRow,   \* pending_mintlayer_batches: Batches -> row
    batchOrder, \* ids of inserted batches in created_at order
    ipfs,       \* locals of the IPFS worker task
    ml,         \* locals of the Mintlayer worker task
    ipfsCB,     \* ipfs_circuit_breaker
    mlCB,       \* mintlayer_circuit_breaker
    anchored,   \* hashes deposited on the Mintlayer chain (external)
    exhausted   \* history: operations for which a backoff loop gave up

vars == <<opRow, opOrder, batchRow, batchOrder, ipfs, ml, ipfsCB, mlCB,
          anchored, exhausted>>

(* The labels of the operation_status enum, and "absent" for no row. *)
Status == {"absent", "pending", "in_progress", "completed", "failed"}

NoRow == [status |-> "absent", attempts |-> 0, hash |-> NoOp]
NoBatchRow == [status |-> "absent", hashes |-> <<>>, attempts |-> 0,
               txHash |-> FALSE]

Saved == ToSet(opOrder)

Take(s, n) == IF Len(s) <= n THEN s ELSE SubSeq(s, 1, n)

(***************************************************************************)
(* The data access layer (data_availability_dal.rs).                      *)
(***************************************************************************)

\* Mutant: "not failed, or failed with retries left" (lets Completed rows in).
EligibleRowNotFailed(r) ==
    r.status # "failed" \/ r.attempts < MaxRetryAttempts

\* The WHERE clause shared by get_pending_ipfs_operations and
\* get_pending_mintlayer_batches.
EligibleRow(r) ==
    \/ r.status = "pending"
    \/ r.status = "failed" /\ r.attempts < MaxRetryAttempts

\* Mutant: the query without its LIMIT.
PollOpsNoLimit ==
    LET ids == SelectSeq(opOrder, LAMBDA o : EligibleRow(opRow[o]))
    IN  [i \in 1..Len(ids) |-> [id |-> ids[i], attempts |-> opRow[ids[i]].attempts]]

\* get_pending_ipfs_operations: eligible rows by created_at, LIMIT.
PollOps ==
    LET ids == SelectSeq(opOrder, LAMBDA o : EligibleRow(opRow[o]))
    IN  [i \in 1..Len(Take(ids, MaxBatchRows)) |->
            [id |-> ids[i], attempts |-> opRow[ids[i]].attempts]]

\* get_pending_mintlayer_batches: the same query on the batch table.
PollBatches ==
    LET ids == SelectSeq(batchOrder, LAMBDA b : EligibleRow(batchRow[b]))
    IN  [i \in 1..Len(Take(ids, MaxBatchRows)) |->
            [id |-> ids[i], status |-> batchRow[ids[i]].status,
             hashes |-> batchRow[ids[i]].hashes,
             attempts |-> batchRow[ids[i]].attempts]]

\* update_ipfs_operations: UPDATE status, attempts, ipfs_hash WHERE id.
UpdateOp(o, status, attempts, hash) ==
    IF opRow[o].status = "absent" THEN opRow
    ELSE [opRow EXCEPT ![o] = [status |-> status, attempts |-> attempts,
                               hash |-> hash]]

\* update_mintlayer_batch: INSERT, or ON CONFLICT (id) overwrite
\* ipfs_hashes and status only (attempts and tx_hash are left alone).
UpsertBatch(b, hashes, status, attempts) ==
    IF batchRow[b].status = "absent"
    THEN [batchRow EXCEPT ![b] = [status |-> status, hashes |-> hashes,
                                  attempts |-> attempts, txHash |-> FALSE]]
    ELSE [batchRow EXCEPT ![b].hashes = hashes, ![b].status = status]

\* The created_at order after an upsert of b: a new row is the youngest.
OrderAfterUpsert(b) ==
    IF b \in ToSet(batchOrder) THEN batchOrder ELSE Append(batchOrder, b)

\* The retention predicate of cleanup_old_operations (age aside).
Deletable(r) ==
    /\ r.status # "absent"
    /\ r.status = "completed" \/ r.attempts >= MaxRetryAttempts

(***************************************************************************)
(* The circuit breaker (circuit_breaker.rs).  The failure counter is kept *)
(* up to the threshold: is_open and record_failure only compare it with   *)
(* the threshold.  "expired" says that reset_timeout has elapsed since    *)
(* last_failure.                                                           *)
(***************************************************************************)
\* Mutant: is_open without the reset_timeout test.
IsOpenNoReset(cb) == cb.failures >= FailureThreshold

IsOpen(cb) == ~cb.expired /\ cb.failures >= FailureThreshold

RecordFailure(cb) ==
    [failures |-> IF cb.failures < FailureThreshold THEN cb.failures + 1
                  ELSE cb.failures,
     expired  |-> FALSE]

(***************************************************************************)
(* Initial state: empty tables, both workers about to poll.               *)
(***************************************************************************)
IpfsIdle == [pc |-> "poll", queue |-> <<>>, op |-> NoOp, attempts |-> 0,
             target |-> NoBatch, hashes |-> <<>>]
MlIdle == [pc |-> "poll", queue |-> <<>>,
           cur |-> [id |-> NoBatch, status |-> "absent", hashes |-> <<>>,
                    attempts |-> 0]]

Init ==
    /\ opRow = [o \in Ops |-> NoRow]
    /\ opOrder = <<>>
    /\ batchRow = [b \in Batches |-> NoBatchRow]
    /\ batchOrder = <<>>
    /\ ipfs = IpfsIdle
    /\ ml = MlIdle
    /\ ipfsCB = [failures |-> 0, expired |-> FALSE]
    /\ mlCB = [failures |-> 0, expired |-> FALSE]
    /\ anchored = {}
    /\ exhausted = {}

(***************************************************************************)
(* Producer: EthTxAggregator::save_mintlayer_tx inserts a new Pending     *)
(* operation with a fresh UUID, attempts 0 and requires_mintlayer = true. *)
(***************************************************************************)
\* save_pending_operation: INSERT the row with the struct's fields.
NewPendingRow == [status |-> "pending", attempts |-> 0, hash |-> NoOp]

SaveOp(o) ==
    /\ o \notin Saved
    /\ opRow' = [opRow EXCEPT ![o] = NewPendingRow]
    /\ opOrder' = Append(opOrder, o)
    /\ UNCHANGED <<batchRow, batchOrder, ipfs, ml, ipfsCB, mlCB, anchored,
                   exhausted>>

(***************************************************************************)
(* IPFS worker: run_ipfs_worker, process_ipfs_operation,                  *)
(* upload_to_ipfs_with_backoff and queue_mintlayer_batch.                 *)
(***************************************************************************)

\* One poll: the eligible operations become the worker's in-memory queue.
IpfsPoll ==
    /\ ipfs.pc = "poll"
    /\ ipfs' = [ipfs EXCEPT !.pc = "next", !.queue = PollOps]
    /\ UNCHANGED <<opRow, opOrder, batchRow, batchOrder, ml, ipfsCB, mlCB,
                   anchored, exhausted>>

\* The queue is done: sleep one second, then poll again.
IpfsCycleEnd ==
    /\ ipfs.pc = "next"
    /\ ipfs.queue = <<>>
    /\ ipfs' = IpfsIdle
    /\ UNCHANGED <<opRow, opOrder, batchRow, batchOrder, ml, ipfsCB, mlCB,
                   anchored, exhausted>>

\* The breaker is open: CircuitBreakerOpenError, the next op is taken.
IpfsBreakerOpen ==
    /\ ipfs.pc = "next"
    /\ ipfs.queue # <<>>
    /\ IsOpen(ipfsCB)
    /\ ipfs' = [ipfs EXCEPT !.queue = Tail(ipfs.queue)]
    /\ UNCHANGED <<opRow, opOrder, batchRow, batchOrder, ml, ipfsCB, mlCB,
                   anchored, exhausted>>

\* The backoff loop succeeds after k failed attempts, each counted in the
\* in-memory op.attempts only.
IpfsUploadOk ==
    /\ ipfs.pc = "next"
    /\ ipfs.queue # <<>>
    /\ ~IsOpen(ipfsCB)
    /\ LET e == Head(ipfs.queue) IN
       \E k \in 0..(IpfsMaxAttempts - e.attempts - 1) :
          ipfs' = [ipfs EXCEPT !.pc = "uploaded", !.queue = Tail(ipfs.queue),
                               !.op = e.id, !.attempts = e.attempts + k]
    /\ UNCHANGED <<opRow, opOrder, batchRow, batchOrder, ml, ipfsCB, mlCB,
                   anchored, exhausted>>

\* Every attempt fails (or none is left): one failure is recorded to the
\* breaker and the in-memory attempt count is dropped with the op.
IpfsUploadFail ==
    /\ ipfs.pc = "next"
    /\ ipfs.queue # <<>>
    /\ ~IsOpen(ipfsCB)
    /\ ipfs' = [ipfs EXCEPT !.queue = Tail(ipfs.queue)]
    /\ ipfsCB' = RecordFailure(ipfsCB)
    /\ exhausted' = exhausted \cup {Head(ipfs.queue).id}
    /\ UNCHANGED <<opRow, opOrder, batchRow, batchOrder, ml, mlCB, anchored>>

\* Mutant: a batch counts as open while it is not longer than batch_size.
OpenBatchAtSize(r) == r.status = "pending" /\ Len(r.hashes) <= BatchSize

\* The open batch of queue_mintlayer_batch: Pending and not yet full.
OpenBatch(r) == r.status = "pending" /\ Len(r.hashes) < BatchSize

\* queue_mintlayer_batch reads the pending batches over a second
\* connection, outside the transaction, and picks the first open one, or
\* a new PendingMintlayerBatch with a fresh UUID.
IpfsReadBatches ==
    /\ ipfs.pc = "uploaded"
    /\ LET open == SelectSeq(PollBatches, OpenBatch) IN
       \/ /\ open # <<>>
          /\ ipfs' = [ipfs EXCEPT !.pc = "read", !.target = Head(open).id,
                                  !.hashes = Head(open).hashes]
       \/ /\ open = <<>>
          /\ \E b \in Batches \ ToSet(batchOrder) :
                ipfs' = [ipfs EXCEPT !.pc = "read", !.target = b,
                                     !.hashes = <<>>]
    /\ UNCHANGED <<opRow, opOrder, batchRow, batchOrder, ml, ipfsCB, mlCB,
                   anchored, exhausted>>

\* queue_mintlayer_batch: the hash is pushed onto the batch read before,
\* which stays Pending, and update_mintlayer_batch upserts it.
QueueBatch == UpsertBatch(ipfs.target, Append(ipfs.hashes, ipfs.op), "pending", 0)

\* Mutant: the batch upsert is committed without update_ipfs_operations.
IpfsEnqueueCommitNoOpUpdate ==
    /\ ipfs.pc = "read"
    /\ batchRow' = QueueBatch
    /\ batchOrder' = OrderAfterUpsert(ipfs.target)
    /\ ipfs' = [ipfs EXCEPT !.pc = "next", !.op = NoOp, !.target = NoBatch,
                            !.hashes = <<>>]
    /\ UNCHANGED <<opRow, opOrder, ml, ipfsCB, mlCB, anchored, exhausted>>

\* One committed transaction: the op becomes Completed with its hash, and
\* the batch read before is upserted with the hash appended, as Pending.
IpfsEnqueueCommit ==
    /\ ipfs.pc = "read"
    /\ opRow' = UpdateOp(ipfs.op, "completed", ipfs.attempts, ipfs.op)
    /\ batchRow' = QueueBatch
    /\ batchOrder' = OrderAfterUpsert(ipfs.target)
    /\ ipfs' = [ipfs EXCEPT !.pc = "next", !.op = NoOp, !.target = NoBatch,
                            !.hashes = <<>>]
    /\ UNCHANGED <<opOrder, ml, ipfsCB, mlCB, anchored, exhausted>>

\* A database error after the upload (connection, transaction, update,
\* batch read, upsert or commit): the transaction rolls back, the error is
\* logged and the next op is taken.  No breaker failure is recorded.
IpfsDbFail ==
    /\ ipfs.pc \in {"uploaded", "read"}
    /\ ipfs' = [ipfs EXCEPT !.pc = "next", !.op = NoOp, !.target = NoBatch,
                            !.hashes = <<>>]
    /\ UNCHANGED <<opRow, opOrder, batchRow, batchOrder, ml, ipfsCB, mlCB,
                   anchored, exhausted>>

IpfsStep ==
    \/ IpfsPoll \/ IpfsCycleEnd \/ IpfsBreakerOpen \/ IpfsUploadOk
    \/ IpfsUploadFail \/ IpfsReadBatches \/ IpfsEnqueueCommit \/ IpfsDbFail

(***************************************************************************)
(* Mintlayer worker: run_mintlayer_worker, process_mintlayer_batch and    *)
(* submit_to_mintlayer_with_backoff.                                      *)
(***************************************************************************)

MlPoll ==
    /\ ml.pc = "poll"
    /\ ml' = [ml EXCEPT !.pc = "next", !.queue = PollBatches]
    /\ UNCHANGED <<opRow, opOrder, batchRow, batchOrder, ipfs, ipfsCB, mlCB,
                   anchored, exhausted>>

MlCycleEnd ==
    /\ ml.pc = "next"
    /\ ml.queue = <<>>
    /\ ml' = MlIdle
    /\ UNCHANGED <<opRow, opOrder, batchRow, batchOrder, ipfs, ipfsCB, mlCB,
                   anchored, exhausted>>

MlBreakerOpen ==
    /\ ml.pc = "next"
    /\ ml.queue # <<>>
    /\ IsOpen(mlCB)
    /\ ml' = [ml EXCEPT !.queue = Tail(ml.queue)]
    /\ UNCHANGED <<opRow, opOrder, batchRow, batchOrder, ipfs, ipfsCB, mlCB,
                   anchored, exhausted>>

\* submit_to_mintlayer: address_deposit_data with the batch's hashes puts
\* them on chain.
Deposit(e) == ToSet(e.hashes)

\* address_deposit_data with the batch's hashes as read by the poll
\* succeeds after k failed attempts; the deposit
\* is on chain.
MlSubmitOk ==
    /\ ml.pc = "next"
    /\ ml.queue # <<>>
    /\ ~IsOpen(mlCB)
    /\ LET e == Head(ml.queue) IN
       \E k \in 0..(MlMaxAttempts - e.attempts - 1) :
          /\ ml' = [ml EXCEPT !.pc = "submitted", !.queue = Tail(ml.queue),
                              !.cur = [e EXCEPT !.attempts = e.attempts + k]]
          /\ anchored' = anchored \cup Deposit(e)
    /\ UNCHANGED <<opRow, opOrder, batchRow, batchOrder, ipfs, ipfsCB, mlCB,
                   exhausted>>

\* Every attempt fails.  A failed attempt may still have been executed by
\* the wallet (a transport error or an unparsable answer after the
\* deposit), so the hashes may be on chain all the same.
MlSubmitFail ==
    /\ ml.pc = "next"
    /\ ml.queue # <<>>
    /\ ~IsOpen(mlCB)
    /\ ml' = [ml EXCEPT !.queue = Tail(ml.queue)]
    /\ mlCB' = RecordFailure(mlCB)
    /\ anchored' \in {anchored, anchored \cup Deposit(Head(ml.queue))}
    /\ UNCHANGED <<opRow, opOrder, batchRow, batchOrder, ipfs, ipfsCB,
                   exhausted>>

\* Mutant: the batch is written back with the status it was polled with.
MlCommitKeepStatus ==
    /\ ml.pc = "submitted"
    /\ batchRow' = UpsertBatch(ml.cur.id, ml.cur.hashes, ml.cur.status,
                               ml.cur.attempts)
    /\ batchOrder' = OrderAfterUpsert(ml.cur.id)
    /\ ml' = [ml EXCEPT !.pc = "next", !.cur = MlIdle.cur]
    /\ UNCHANGED <<opRow, opOrder, ipfs, ipfsCB, mlCB, anchored, exhausted>>

\* One committed transaction: update_mintlayer_batch of the in-memory
\* batch, now Completed, with the hashes it had when it was polled.
MlCommit ==
    /\ ml.pc = "submitted"
    /\ batchRow' = UpsertBatch(ml.cur.id, ml.cur.hashes, "completed",
                               ml.cur.attempts)
    /\ batchOrder' = OrderAfterUpsert(ml.cur.id)
    /\ ml' = [ml EXCEPT !.pc = "next", !.cur = MlIdle.cur]
    /\ UNCHANGED <<opRow, opOrder, ipfs, ipfsCB, mlCB, anchored, exhausted>>

\* A database error after the deposit: nothing is recorded, the batch
\* stays Pending and is submitted again by a later poll.
MlDbFail ==
    /\ ml.pc = "submitted"
    /\ ml' = [ml EXCEPT !.pc = "next", !.cur = MlIdle.cur]
    /\ UNCHANGED <<opRow, opOrder, batchRow, batchOrder, ipfs, ipfsCB, mlCB,
                   anchored, exhausted>>

MlStep ==
    \/ MlPoll \/ MlCycleEnd \/ MlBreakerOpen \/ MlSubmitOk \/ MlSubmitFail
    \/ MlCommit \/ MlDbFail

(***************************************************************************)
(* Cleanup routine: cleanup_old_operations deletes, in one transaction,   *)
(* the retained rows older than cleanup_days_threshold.  Which rows are   *)
(* old enough is left open: any subset of the deletable rows.             *)
(***************************************************************************)
Cleanup ==
    \E oldOps \in SUBSET {o \in Ops : Deletable(opRow[o])},
       oldBatches \in SUBSET {b \in Batches : Deletable(batchRow[b])} :
        /\ oldOps \cup oldBatches # {}
        /\ opRow' = [o \in Ops |-> IF o \in oldOps THEN NoRow ELSE opRow[o]]
        /\ batchRow' = [b \in Batches |->
                          IF b \in oldBatches THEN NoBatchRow ELSE batchRow[b]]
        /\ UNCHANGED <<opOrder, batchOrder, ipfs, ml, ipfsCB, mlCB, anchored,
                       exhausted>>

(***************************************************************************)
(* Time: reset_timeout elapses after a breaker's last failure.            *)
(***************************************************************************)
IpfsBreakerExpires ==
    /\ ipfsCB.failures > 0 /\ ~ipfsCB.expired
    /\ ipfsCB' = [ipfsCB EXCEPT !.expired = TRUE]
    /\ UNCHANGED <<opRow, opOrder, batchRow, batchOrder, ipfs, ml, mlCB,
                   anchored, exhausted>>

MlBreakerExpires ==
    /\ mlCB.failures > 0 /\ ~mlCB.expired
    /\ mlCB' = [mlCB EXCEPT !.expired = TRUE]
    /\ UNCHANGED <<opRow, opOrder, batchRow, batchOrder, ipfs, ml, ipfsCB,
                   anchored, exhausted>>

Next ==
    \/ \E o \in Ops : SaveOp(o)
    \/ IpfsStep
    \/ MlStep
    \/ Cleanup
    \/ IpfsBreakerExpires
    \/ MlBreakerExpires

Spec == Init /\ [][Next]_vars

(***************************************************************************)
(* Fairness.  Both worker tasks loop forever and time passes.  The object *)
(* store, the wallet RPC and the database are assumed to be available     *)
(* again and again: a success that stays possible is eventually taken.    *)
(***************************************************************************)
FairSpec ==
    /\ Spec
    /\ WF_vars(IpfsStep) /\ WF_vars(MlStep)
    /\ WF_vars(IpfsBreakerExpires) /\ WF_vars(MlBreakerExpires)
    /\ SF_vars(IpfsUploadOk) /\ SF_vars(IpfsReadBatches)
    /\ SF_vars(IpfsEnqueueCommit)
    /\ SF_vars(MlSubmitOk) /\ SF_vars(MlCommit)

(***************************************************************************)
(* Properties.                                                            *)
(***************************************************************************)

Row == [status : Status, attempts : 0..IpfsMaxAttempts, hash : Ops \cup {NoOp}]
HashSeq == BoundedSeq(Ops, Cardinality(Ops))

\* Types; both in-memory poll results respect the LIMIT of their query.
TypeOK ==
    /\ opRow \in [Ops -> Row]
    /\ batchRow \in [Batches -> [status : Status, hashes : HashSeq,
                                 attempts : 0..MlMaxAttempts,
                                 txHash : BOOLEAN]]
    /\ ipfs.pc \in {"poll", "next", "uploaded", "read"}
    /\ Len(ipfs.queue) <= MaxBatchRows
    /\ ipfs.op \in Ops \cup {NoOp} /\ ipfs.target \in Batches \cup {NoBatch}
    /\ ml.pc \in {"poll", "next", "submitted"}
    /\ Len(ml.queue) <= MaxBatchRows
    /\ ipfsCB.failures \in 0..FailureThreshold
    /\ anchored \subseteq Ops /\ exhausted \subseteq Ops

\* The completion of o was committed (a deleted row was Completed: no row
\* reaches MaxRetryAttempts attempts).
Committed(o) == o \in Saved /\ opRow[o].status \in {"completed", "absent"}

InBatch(o, b) == o \in ToSet(batchRow[b].hashes)

\* queue_mintlayer_batch never lets a batch grow past batch_size, although
\* the Mintlayer worker may overwrite its hashes with an older list and
\* the batch it reads may be stale.
BatchWithinSize ==
    \A b \in Batches :
        batchRow[b].status # "absent" => Len(batchRow[b].hashes) \in 1..BatchSize

\* A hash reaches a batch or the chain only together with the commit of
\* its operation as Completed (the op update and the batch upsert share
\* one transaction in process_ipfs_operation).
EnqueuedOnlyWhenCommitted ==
    \A o \in Ops :
        (o \in anchored \/ \E b \in Batches : InBatch(o, b)) => Committed(o)

\* No hash is queued twice: across all batch rows each operation's hash
\* occurs at most once, whatever the retries and stale reads.
NoDuplicateEnqueue ==
    \A o \in Ops :
        /\ \A b \in Batches :
              Len(SelectSeq(batchRow[b].hashes, LAMBDA h : h = o)) <= 1
        /\ \A b, c \in Batches : InBatch(o, b) /\ InBatch(o, c) => b = c

\* Every saved operation is eventually uploaded and Completed, through
\* breaker trips and failed cycles (the code retries it every poll).
EventuallyCompleted ==
    \A o \in Ops : opRow[o].status = "pending" ~> opRow[o].status = "completed"

\* Every Pending batch is eventually submitted and recorded Completed: the
\* Mintlayer worker polls it again after a failed deposit, a breaker trip
\* or a failed commit, and the IPFS worker's upserts of the same batch
\* (which may set it back to Pending) do not starve it.
BatchEventuallyCompleted ==
    \A b \in Batches :
        batchRow[b].status = "pending" ~> batchRow[b].status = "completed"

(***************************************************************************)
(* Properties the code is found to violate (see README).                  *)
(***************************************************************************)

\* A committed hash is never lost: it is on chain or in a Pending batch
\* the Mintlayer worker will submit.
NoHashLost ==
    \A o \in Ops :
        Committed(o) =>
            \/ o \in anchored
            \/ \E b \in Batches : batchRow[b].status = "pending" /\ InBatch(o, b)

\* The status of a batch only moves forward: a Completed batch is never
\* Pending again (it may be deleted by the cleanup).
BatchStatusMonotone ==
    [][\A b \in Batches :
         batchRow[b].status = "completed" =>
             batchRow'[b].status \in {"completed", "absent"}]_batchRow

\* Spec 4.5 and scenario 3: an operation whose backoff loop gave up is
\* left Failed with its attempts persisted, and is not retried.
ExhaustedOpIsFailed ==
    \A o \in exhausted :
        opRow[o].status \in {"failed", "absent"}

====
