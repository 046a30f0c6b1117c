# TLA+ models of the zk-thunder data-availability pipeline

This directory holds TLA+ models of the data-availability (DA) pipeline in
`src/`. The pipeline takes operations from the Ethereum transaction aggregator,
uploads their payloads to an IPFS-backed object store, and anchors batches of
the resulting hashes on the Mintlayer chain. It also holds the DA ledger
(`data_availability` table), which the DAL exposes. Every action is translated
from the Rust source. `PROJECT.json` maps each definition to the lines it
models.

## 1. Inventory

### Components and their state

| Component | Source | State | Operations |
|---|---|---|---|
| Producer | `eth_tx_aggregator.rs` `new`, `run`, `loop_iteration`, `save_eth_tx`, `get_next_nonce`, `save_mintlayer_tx` | `eth_txs` rows and the batches' `eth_tx_id` (one DB transaction), `base_nonce` per sender read in `new()` | saves the Ethereum tx and then, separately, inserts one Pending DA operation; on a DB error in that insert it logs the error and drops the operation |
| Pending-operation tables | `data_availability_dal.rs` 225-435, `models/storage_data_availability.rs` | `pending_ipfs_operations` (status, attempts, ipfs_hash, created_at), `pending_mintlayer_batches` (ipfs_hashes, status, attempts, tx_hash, created_at) | `save_pending_operation`, `get_pending_ipfs_operations`, `get_pending_mintlayer_batches` (status pending, or failed with attempts < 10, ordered by created_at, LIMIT 100), `update_ipfs_operations`, `update_mintlayer_batch` (an upsert that writes only `ipfs_hashes` and `status`), `cleanup_old_operations` |
| IPFS worker task | `worker.rs` `run_ipfs_worker`, `process_ipfs_operation`, `upload_to_ipfs_with_backoff`, `queue_mintlayer_batch` | its in-memory copy of the polled rows; the op it is working on | poll; breaker check; upload with backoff; in one transaction, mark the op Completed and append its hash to the first open batch (a new batch if none is open). That batch is read beforehand over a **separate connection**. |
| Mintlayer worker task | `worker.rs` `run_mintlayer_worker`, `process_mintlayer_batch`, `submit_to_mintlayer*` | its in-memory copy of the polled batches | poll; breaker check; `address_deposit_data` with backoff; upsert the **polled copy** as Completed |
| Cleanup task | `worker.rs` `run_cleanup_routine`, DAL `cleanup_old_operations` | none | every 300 s, one transaction deletes old rows that are Completed or have attempts >= 10 |
| Circuit breakers | `circuit_breaker.rs` | `failures`, `last_failure` (one breaker for IPFS, one for Mintlayer, each behind a mutex) | `is_open`, `record_failure` |
| Retry engine | `worker.rs` 109-136, 432-463 | `attempts` on the in-memory copy, `delay` | at most `max_attempts` tries, with the delay doubling up to a cap |
| DA ledger | DAL 29-223 | `data_availability` (blob_id, inclusion_data) | `insert_l1_batch_da` (INSERT ON CONFLICT DO NOTHING, then SELECT and compare), `save_l1_batch_inclusion_data` (UPDATE WHERE NULL, then SELECT and compare), two read-only queries |
| Supervisor | `worker.rs` `run` | none (the wallet RPCs are not modelled) | three fire-and-forget wallet RPCs, then it spawns the three tasks |

### How they interact

The three tasks run concurrently on the tokio runtime. They share only the
database and the circuit breakers. The IPFS task is the only writer that
appends to batches. The Mintlayer task is the only one that completes
batches. Both write a whole batch row back through `update_mintlayer_batch`,
from copies they read earlier. Every await is a point where the other tasks
can run. Each statement is atomic in the database. Transactions exist in
exactly two places: the IPFS commit and the cleanup. The DA ledger is written
by callers outside `src/` (the DA dispatcher). Each of its calls is two
autocommitted statements.

### What is hard

- **Stale copies written back.** Both workers upsert rows they read earlier.
  The Mintlayer worker writes back the hash list it polled. The IPFS worker
  writes back a batch it read before another task completed it.
- **Partial failure.** A deposit can succeed while the DB commit that follows
  it fails. An HTTP error can arrive after the wallet has already executed the
  deposit. An upload can succeed while the DB transaction after it fails. The
  producer can save the Ethereum tx and then fail to insert the DA operation.
- **Retries.** Attempts are counted only in memory and are never persisted on
  failure. The circuit breaker counts failures per operation, not per attempt,
  and never resets its counter.
- **Limits.** A poll sees at most 100 rows. The `len < batch_size` test at the
  boundary decides when a new batch is opened.
- **Concurrent DAL calls.** In the ledger, a row inserted between an UPDATE
  and its SELECT.

### Properties that make each component correct

- Pipeline: every Completed op's hash is anchored, or waits in a Pending batch
  (nothing is lost). A hash is queued only together with its op's commit, and
  only once. Batches hold at most `batch_size` hashes. Status moves only
  forward. `tx_hash` is set exactly when a batch is Completed. An op whose
  retries are exhausted is left Failed. Every Pending op is eventually
  Completed.
- Ledger: `blob_id` and `inclusion_data` are written once. Ok means the value
  is stored. Concurrent calls behave like atomic calls: each answer is the
  one the atomic ledger gives that call at some instant during it.
- Retry engine: the k-th delay is `min(B*2^(k-1), M)` (spec P7).
- Breaker: open after `threshold` failures within `reset_timeout`, and closed
  once `reset_timeout` has passed without a failure.

## 2. Modules

### `DAPipeline.tla`: producer, both tables, both workers, cleanup, breakers

- **State.** `opRow` and `batchRow` are the two tables. A row whose status is
  `"absent"` does not exist. `opOrder` and `batchOrder` record created_at
  order. `ipfs` and `ml` are the locals of the two tasks: `pc`, the polled
  queue, and the op or batch copy in hand. `ipfsCB` and `mlCB` are the
  breakers. `anchored` is the set of hashes deposited on the chain.
  `exhausted` is a history variable: the ops whose backoff loop gave up.
- **Hashes.** A payload's hash is its operation id. Payloads are distinct and
  the store is content addressed, so the hashes are distinct too.
- **Actions.** There is one action per step between awaits that touches shared
  state:
  - producer: `SaveOp`;
  - IPFS worker: `IpfsPoll`, `IpfsCycleEnd`, `IpfsBreakerOpen`,
    `IpfsUploadOk` / `IpfsUploadFail` (the whole backoff loop, after k failed
    tries), `IpfsReadBatches` (the read on the second connection),
    `IpfsEnqueueCommit` (the transaction), `IpfsDbFail` (any `?` on a DB
    error: rollback);
  - Mintlayer worker: `MlPoll`, `MlCycleEnd`, `MlBreakerOpen`, `MlSubmitOk`,
    `MlSubmitFail`, `MlCommit`, `MlDbFail`. `MlSubmitFail` may still put the
    hashes on the chain, because a lost response does not undo a deposit;
  - `Cleanup` deletes any subset of the deletable rows (the age test is left
    open);
  - `IpfsBreakerExpires` / `MlBreakerExpires`: `reset_timeout` elapses.
- **Supervisor.** `run()` sends `wallet_create`, `wallet_open` and
  `address_new` once, drops their results, and spawns the three tasks, which
  are the interleaved actions of `Next`. The wallet calls are not modelled:
  whether the wallet RPC was up at that moment is outside the code, and a
  constant fixing it would decide every property about it. The code never
  sends `wallet_open` again, so a wallet that was down at start stays closed
  until the node restarts (hazard at worker.rs:231, no run). The `select!`
  that returns when a task ends is never reached: the tasks loop forever, and
  the row conversions that could panic round-trip every value the code writes.
- **Backoff loop as one step.** The retries inside the loop touch only the
  task's own copy, so collapsing the loop into one step loses no
  interleaving. The breaker's failure counter is kept up to the threshold,
  because the code only ever compares it with the threshold.
- **Not in the model.** The branch where `requires_mintlayer = false` never
  runs, because the only producer sets it to true. `InProgress` and `Failed`
  are never written. Both appear only in the status type and in the
  eligibility predicate.

### `DALedger.tla` and `DALedgerAtomic.tla`: the DA ledger

`DALedger` models each DAL call as its two statements. Concurrent callers are
model values, and every statement can also fail with a DB error. Each call is
translated from `insert_l1_batch_da` and `save_l1_batch_inclusion_data`,
including `unwrap_or_default()`: the constant `Empty` is the zero-length byte
string.

The two read-only queries are single SELECTs, so each is one step of the
dispatch side (one reader, whose last answer is the variable `rows`):
`ReadFirstAwaiting` is `get_first_da_blob_awaiting_inclusion` (`WHERE
inclusion_data IS NULL ORDER BY l1_batch_number LIMIT 1`), and `ReadReady`
is `get_ready_for_da_dispatch_l1_batches(limit)`, the LEFT JOIN of a fixed
`l1_batches` table (constant `L1Batches`: pubdata present, commit tx set)
with the ledger. A failed read changes nothing, so it is a stutter.

`DALedgerAtomic` is what the spec promises: each call takes effect at one
instant and is write-once, and the reads return what spec 4.1 says: P6's
row with the least number among those awaiting inclusion, and, for the
dispatch query, `min(limit, |ready|)` ready batches in ascending order with
no smaller ready batch left out. These reference definitions are written
with sets and `Min`, independently of the ORDER BY / LIMIT translation.
A caller's `result` holds the call it answers (kind, batch number, value)
next to the answer ("ok", "constraint", "db_error"), in both modules, so the
refinement `INSTANCE DALedgerAtomic` is the identity on the variables: a wrong
answer cannot be matched by an abstract step of another call. The abstract
`Fail` lets any call end in a database error that changes nothing; a
ConstraintError is given only when the row holds a different value.

The reads are checked on their own (`ReadsFollowSpec`: every
`ReadFirstAwaiting` step is an abstract `FirstAwaiting` step, every
`ReadReady` step an abstract `ReadyForDispatch` step), because the whole
refinement fails (run ledger_atomicity).

### `Backoff.tla`: the retry engine

One behaviour is one call of `upload_to_ipfs_with_backoff` (worker.rs
109-136). `submit_to_mintlayer_with_backoff` (432-463) is the same loop with
the Mintlayer settings. Variables are the loop's `attempts` and `delay`, the
configured `base` and `maxDelay` (chosen in Init from the cfg's sets, so one
run covers several settings), and two history variables: the delays slept and
the number of tries. Actions: `TryOk` (return the hash), `TryFailLast` (the
failure that reaches `max_attempts`: return the error) and `TryFailRetry`
(count the attempt, sleep, double the delay up to the cap). A polled row
always carries attempts = 0, so the loop head's exit without a try is never
taken. The reference is spec P7: `SpecDelay(k) = min(B*2^(k-1), M)`.

### `CircuitBreaker.tla` and `CircuitBreakerAbstract.tla`: the breaker

`CircuitBreaker` has the struct's `failures` and `last_failure`, and an
integer clock `now` advanced by `Tick`. `RecordFailure` is `record_failure`.
`IsOpen` is `is_open`, an operator because it changes nothing. The history
`failTimes` records every failure instant for P8.

`CircuitBreakerAbstract` is the clock-free breaker that `DAPipeline` uses: a
counter up to the threshold and an `expired` flag. The refinement mapping is
`failures <- min(failures, threshold)` and `expired <- now - last_failure >=
reset_timeout`. Under it, each `record_failure` is a `Fail` and the tick at
which the timeout elapses is an `Expire`; every other tick is a stutter. This
check is what justifies the boolean breaker in the pipeline model.

### `EthTxAggregator.tla`: the producer

This models `loop_iteration` in eth_tx_aggregator.rs:

- **`SaveEthTx`.** `save_eth_tx` is one DB transaction: the `eth_txs` row,
  whose nonce comes from `get_next_nonce`, plus `set_eth_tx_id` on the
  operation's batches.
- **`SaveMintlayerTx` / `SaveMintlayerTxFail`.** `save_mintlayer_tx` inserts
  the DA row on another connection. When it fails, the error is only logged.
- **`Stop`.** The stop signal ends `run`.
- **`Restart`.** A crash or panic, since `save_eth_tx` unwraps every DB error.
  The restart runs `new()` again, which re-reads the chain's pending nonces.

`SendTx` and `ExternalTx` are the environment: the tx manager mining our
transactions in nonce order, and the operator account sending transactions by
other means. Three definitions are modelled from their contracts, because
their code is outside `src/`: `get_next_ready_operation` (the first operation
whose batches carry no eth_tx_id) and the DAL's `get_next_nonce` (one past
the largest saved nonce of the sender). The instance configures
`custom_commit_sender_addr`, so Commit operations use their own nonce
sequence.

### MC modules

- `MCDAPipeline`, `MCDAPipelineLive`, `MCDALedger` and `MCEthTxAggregator` bind the constants to
  model values.
- The safety runs use symmetry over op ids, batch ids, callers and blob ids.
  These are UUIDs or opaque strings that nothing orders, so the symmetry is
  sound. The liveness run uses no symmetry.
- `Backoff` and `CircuitBreaker` have only integer constants and are checked
  directly from their cfg files.

## 3. Runs

| Run | cfg | Expect | What it shows |
|---|---|---|---|
| pipeline_safety | `MCDAPipeline.cfg` | pass (1.35M states) | `TypeOK` (including: a poll result respects its LIMIT), `BatchWithinSize`, `EnqueuedOnlyWhenCommitted`, `NoDuplicateEnqueue`. All hold under every interleaving of the three tasks, with DB and backend failures, cleanup and breaker trips. |
| pipeline_liveness | `MCDAPipelineLive.cfg` | pass | `EventuallyCompleted`: every Pending op is eventually Completed. `BatchEventuallyCompleted`: every Pending batch is eventually recorded Completed, although the IPFS worker's stale upserts may set a Completed batch back to Pending. |
| pipeline_lost_hash | `MCDAPipelineLostHash.cfg` | violation | `NoHashLost`. The sequence: the Mintlayer worker polls batch b = [h1]; the IPFS worker appends h2 and commits op2 as Completed; the Mintlayer worker deposits [h1] and writes back b = [h1] as Completed. h2 is gone for good. |
| pipeline_batch_regress | `MCDAPipelineBatchRegress.cfg` | violation | `BatchStatusMonotone`. The IPFS worker reads b as open; the Mintlayer worker completes b; the IPFS worker upserts b as Pending. b is deposited again. |
| pipeline_exhausted | `MCDAPipelineExhausted.cfg` | violation | `ExhaustedOpIsFailed` (spec 4.5, scenario 3). A failed op stays Pending with attempts 0 and is retried forever. |
| ledger_safety | `MCDALedger.cfg` | pass (789k states, symmetry) | `TypeOK`; `OkMeansStored`: an Ok from either call means the value passed is in the row, for non-empty inclusion data and two concurrent callers; `ReadsFollowSpec`: the two reads return P6's row and the ordered, limited dispatch list. |
| ledger_atomicity | `MCDALedgerAtomicity.cfg` | violation | `ImplementsAtomic`. The sequence: c1's UPDATE finds no row; c2 inserts the row; c1's SELECT reads NULL, `unwrap_or_default()` gives `[]`, which differs from c1's data, so c1 gets a ConstraintError. Nothing conflicts with c1's data, and no instant of the call gives that answer: before the insert it is RowNotFound, after it the UPDATE would succeed. |
| ledger_empty_inclusion | `MCDALedgerEmpty.cfg` | violation | `OkMeansStored`. The sequence: UPDATE finds no row; the row is inserted; the SELECT reads NULL, which becomes `[]` and equals the empty argument. The call returns Ok and nothing is stored. |
| backoff_delays | `Backoff.cfg` | pass | `DelaysFollowSpec`: for every setting with base <= max, the k-th sleep is `min(B*2^(k-1), M)`. |
| breaker_refinement | `CircuitBreaker.cfg` | pass | `OpenAfterThresholdInWindow` (P8: threshold failures within `reset_timeout` open the breaker) and `ImplementsAbstract` (the timed breaker refines the boolean one used in `DAPipeline`). |
| producer_safety | `MCEthTxAggregator.cfg` | pass | `OneEthTxPerOp` across crashes; `FreshNonce`: after a restart, a new eth tx never takes a nonce the chain already consumed, even when the operator sent a transaction while the node was down. |
| producer_da_loss | `MCEthTxAggregatorDaLoss.cfg` | violation | `EveryEthTxHasDaOp`. The sequence: `save_eth_tx` commits; `save_pending_operation` fails, and the error is only logged. The operation is marked, so it is never offered again, and it reaches L1 without ever being published for DA. A crash between the two steps has the same effect. |

Three further disagreements with the spec need no model run, because they
are visible in a single statement:

- **`tx_hash` is never written.** `update_mintlayer_batch`
  (data_availability_dal.rs:337-364) leaves `tx_hash` out of its column list,
  so spec P3 (`tx_hash` is set iff Completed) fails for every Completed batch.
- **A success is not counted as an attempt.** `attempts += 1` happens only on
  the failure branch (worker.rs:119). After two failures and a success the
  record says 2, not the 3 of spec scenario 2.
- **The first sleep is not capped.** The loop sleeps `delay = base` before
  the first `min(delay * 2, max_delay)` (worker.rs:127-128). With
  `retry_base_delay` above `retry_max_delay`, the first sleep breaks spec
  P7's bound of k * M for every such configuration. The only `WorkerConfig`
  in the code (eth_tx_aggregator.rs:117-127) has base 1 s and max 60 s, so
  this cannot happen as deployed; `backoff_delays` checks settings with
  base <= max.

`PROJECT.json` also lists, for every property of a passing run, a mutant of
the code that TLC catches.

### Bounds

- **Pipeline safety.** 3 ops and 3 batch ids (every batch holds at least one
  hash, so 3 ids are enough). `batch_size = 2`, so a batch fills and a second
  one opens. The poll LIMIT is 2, so the LIMIT is reached.
  `ipfs_max_attempts = 2`, so a success after a failed try occurs.
  `mintlayer_max_attempts = 1`. The failure threshold is 1, so the breaker
  opens and expires. `MAX_RETRY_ATTEMPTS = 10` is the code's value.
- **Pipeline liveness.** 2 ops, with a failure threshold of 2, so failures of
  different ops add up before the breaker opens. `ipfs_max_attempts = 1`:
  the number of tries inside one backoff call does not change what is
  eventually reached (the safety run and `Backoff` cover it), and it keeps
  the two liveness checks near a minute.
- **Ledger.** 2 callers, 2 batch numbers, 2 blob ids, and 2 data values.
  `l1_batches` has the genesis batch, batches 1 and 2, one already committed
  on L1, one without pubdata and one ready batch outside the ledger's
  numbers; the limit is 2, so each filter and the LIMIT cut something.
  Callers, blob ids and data values are symmetric (no code compares them
  other than for equality); batch numbers are not, since the reads order
  them.
- **Backoff.** Bases {1,2,3} and caps {3,5,8,60} with 8 attempts: the
  doubling reaches every cap, including the deployed 60 s from base 1.
- **Breaker.** Threshold 2, timeout 2, clock up to 6, up to 4 failures:
  failures fall both inside and across windows, and the counter passes the
  threshold and keeps growing.
- **Producer.** Three operations (two Commits on the custom sender and one
  Prove on the operator), two restarts and one external transaction. That is
  enough for a restart after an external transaction, with a saved but unsent
  tx on either sender.
- **Why these are enough.** The violations need 2 or 3 ops and are found at
  depth 4 to 13.

### Fairness (`FairSpec`)

- **Weak fairness on each task.** Each worker task is an infinite loop with a
  one-second sleep, and tokio eventually runs a ready task.
- **Weak fairness on breaker expiry.** Time passes.
- **Strong fairness on the success actions** (upload, batch read, commit,
  deposit). This is the environment assumption "the object store, the wallet
  and the database are available again and again". Without it no upload ever
  needs to succeed.
- **Not fair:** the producer and the cleanup.

## 4. Plan

Done: the pipeline core (`DAPipeline`),
the DA ledger with its reads and its (failing) refinement,
the retry engine (`Backoff`), the timed circuit breaker with its refinement
to the pipeline's breaker, and the producer with crashes (`EthTxAggregator`).
Next, in order:

1. **Abstract pipeline (`DAQueueAbstract`).** State what the pipeline promises
   (each committed hash is eventually anchored, at-least-once) and check a
   refinement of `DAPipeline` against it. This is expected to fail because of
   the lost update, so also check it against a repaired variant of the
   Mintlayer commit (an append-only upsert).
2. **Crash and restart of the workers in `DAPipeline`.** Lose the tasks'
   local state and the breakers at a restart, keeping the tables.
3. **Close-on-full.** State the spec's close-on-full rule (4.3) and
   "partially filled batches are submitted" as a property.
4. ~~Ledger reads~~: done (`ReadFirstAwaiting`, `ReadReady`, `ReadsFollowSpec`).

Items 1 and 2 need runs of their own. Item 1's refinement is already known
to fail through `NoHashLost`, and a repaired variant is not the code. Item 2
adds little that existing failure actions do not cover: a restart between
the deposit and its commit is `MlDbFail`, a restart inside the IPFS
transaction is `IpfsDbFail`, and the breakers restart closed, as after an
expiry. Item 3 is not a disagreement: the spec's design notes (section 9) accept
several open batches as the current behaviour. With the one IPFS worker of
this code, a second open batch appears only when the batch poll's LIMIT
hides the open one behind older Pending batches.

## 5. Not modelled

- The wallet daemon and `run()`'s three wallet calls (see Supervisor above).
- Metrics, error types, the encoding of the RPC payload (`hex(join(...))`), S3
  credentials and the environment variables.
- The rest of `EthTxAggregator`: calldata encoding, multicall and verifier
  reads, and gas estimates. These only produce values stored in the
  `eth_txs` row. Their errors return from `loop_iteration` before anything
  is written.
- The `u32` wrap of the breaker's failure counter: it needs 2^32 failures.
  The model bounds the counter instead.
- The composition of `EthTxAggregator` with `DAPipeline`: they share only
  the insert into `pending_ipfs_operations`, which `DAPipeline` models as
  `SaveOp`.
- The data conversions of the rows (`OperationType` and `OperationStatus`
  to and from text). They round-trip for every value the code writes, so
  the `expect` and `panic!` in the row mapping are unreachable. `Failed`
  loses its reason on the way back, and nothing reads the reason.
- The wallet's answer: any response with a `result` member is a success
  (worker.rs:531), even a null one. The model's success always deposits.
- The wall-clock values of `created_at`, `last_attempt` and the delays.
  `created_at` survives only as the order of the rows.
