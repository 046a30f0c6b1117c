--------------------------- MODULE EthTxAggregator ---------------------------
(***************************************************************************)
(* The producer side of the DA pipeline in eth_tx_aggregator.rs: each     *)
(* loop_iteration takes the next ready aggregated operation, saves its    *)
(* Ethereum transaction and marks its L1 batches in one DB transaction    *)
(* (save_eth_tx), and then, in a separate statement on another pooled     *)
(* connection, inserts the DA operation (save_mintlayer_tx).  Nonces come *)
(* from get_next_nonce: the larger of the DB's next nonce for the sender  *)
(* and the chain's pending nonce read once, in new().                     *)
(*                                                                         *)
(* The node can crash or panic anywhere (save_eth_tx unwraps every DB     *)
(* error) and is restarted, which runs new() again.  The chain side is    *)
(* the environment: the tx manager sends our transactions in nonce order, *)
(* and the operator account may send transactions of its own.            *)
(***************************************************************************)
EXTENDS Naturals, Sequences, SequencesExt

CONSTANTS
    OpSeq,        \* the aggregated operations in the order they become ready
    CommitOps,    \* those of them that are Commit operations
    Senders,      \* {Main, Custom}
    Main,         \* the operator address (sender_addr = None)
    Custom,       \* custom_commit_sender_addr
    NoOp,
    MaxRestarts,  \* bound on crashes and restarts
    MaxExternal   \* bound on transactions the operator sends by other means

Ops == ToSet(OpSeq)

ASSUME /\ Senders = {Main, Custom}
       /\ CommitOps \subseteq Ops /\ NoOp \notin Ops

VARIABLES
    ethTxs,     \* eth_txs rows: [op, sender, nonce]
    marked,     \* ops whose L1 batches have eth_tx_id set (set_eth_tx_id)
    daOps,      \* ops inserted into pending_ipfs_operations
    agg,        \* [pc : {"loop", "da", "stopped"}, op] of the aggregator task
    baseNonce,  \* base_nonce / base_nonce_custom_commit_sender
    l1Nonce,    \* the chain's pending nonce per sender
    dirty,      \* history: the sender sent outside the node since new()
    crashes,    \* restarts so far
    external    \* external transactions so far

vars == <<ethTxs, marked, daOps, agg, baseNonce, l1Nonce, dirty, crashes,
          external>>

\* sender_addr: the custom sender for Commit operations, the operator else.
SenderOf(o) == IF o \in CommitOps THEN Custom ELSE Main

\* get_next_ready_operation: the first operation not yet marked.
ReadyOps == {i \in DOMAIN OpSeq : OpSeq[i] \notin marked}
NextReady == OpSeq[Min(ReadyOps)]

\* eth_sender_dal.get_next_nonce(from): one past the largest saved nonce of
\* that sender, or None.
DbNonce(s) ==
    LET used == {t.nonce : t \in {u \in ethTxs : u.sender = s}}
    IN  IF used = {} THEN 0 ELSE Max(used) + 1

\* Mutant: get_next_nonce returns the DB nonce alone.
NextNonceDbOnly(s) == DbNonce(s)

\* get_next_nonce: db_nonce.max(base_nonce).
NextNonce(s) == Max({DbNonce(s), baseNonce[s]})

\* EthTxAggregator::new reads the pending nonces of both senders.
Init ==
    /\ ethTxs = {}
    /\ marked = {}
    /\ daOps = {}
    /\ agg = [pc |-> "loop", op |-> NoOp]
    /\ l1Nonce = [s \in Senders |-> 0]
    /\ baseNonce = l1Nonce
    /\ dirty = [s \in Senders |-> FALSE]
    /\ crashes = 0
    /\ external = 0

\* Mutant: save_eth_tx without the set_eth_tx_id statement.
SaveEthTxNoMark ==
    /\ agg.pc = "loop" /\ ReadyOps # {}
    /\ LET o == NextReady
           s == SenderOf(o)
       IN  /\ ethTxs' = ethTxs \cup
                  {[op |-> o, sender |-> s, nonce |-> NextNonce(s)]}
           /\ agg' = [pc |-> "da", op |-> o]
    /\ UNCHANGED <<marked, daOps, baseNonce, l1Nonce, dirty, crashes,
                   external>>

\* loop_iteration finds a ready operation; save_eth_tx saves its eth_txs
\* row with the next nonce and sets the batches' eth_tx_id, then commits.
SaveEthTx ==
    /\ agg.pc = "loop" /\ ReadyOps # {}
    /\ LET o == NextReady
           s == SenderOf(o)
       IN  /\ ethTxs' = ethTxs \cup
                  {[op |-> o, sender |-> s, nonce |-> NextNonce(s)]}
           /\ marked' = marked \cup {o}
           /\ agg' = [pc |-> "da", op |-> o]
    /\ UNCHANGED <<daOps, baseNonce, l1Nonce, dirty, crashes, external>>

\* save_mintlayer_tx: save_pending_operation inserts the DA operation.
SaveMintlayerTx ==
    /\ agg.pc = "da"
    /\ daOps' = daOps \cup {agg.op}
    /\ agg' = [pc |-> "loop", op |-> NoOp]
    /\ UNCHANGED <<ethTxs, marked, baseNonce, l1Nonce, dirty, crashes,
                   external>>

\* The connection or the insert fails: the error is logged and the
\* function returns; loop_iteration returns Ok.
SaveMintlayerTxFail ==
    /\ agg.pc = "da"
    /\ agg' = [pc |-> "loop", op |-> NoOp]
    /\ UNCHANGED <<ethTxs, marked, daOps, baseNonce, l1Nonce, dirty,
                   crashes, external>>

\* run sees the stop signal at the top of the loop and returns.
Stop ==
    /\ agg.pc = "loop"
    /\ agg' = [agg EXCEPT !.pc = "stopped"]
    /\ UNCHANGED <<ethTxs, marked, daOps, baseNonce, l1Nonce, dirty,
                   crashes, external>>

\* The process dies at any point and is started again: committed rows
\* survive, new() reads the pending nonces again.
Restart ==
    /\ crashes < MaxRestarts
    /\ crashes' = crashes + 1
    /\ agg' = [pc |-> "loop", op |-> NoOp]
    /\ baseNonce' = l1Nonce
    /\ dirty' = [s \in Senders |-> FALSE]
    /\ UNCHANGED <<ethTxs, marked, daOps, l1Nonce, external>>

\* The tx manager gets our transaction with the chain's next nonce mined.
SendTx(s) ==
    /\ \E t \in ethTxs : t.sender = s /\ t.nonce = l1Nonce[s]
    /\ l1Nonce' = [l1Nonce EXCEPT ![s] = @ + 1]
    /\ UNCHANGED <<ethTxs, marked, daOps, agg, baseNonce, dirty, crashes,
                   external>>

\* The operator account sends a transaction by other means.
ExternalTx(s) ==
    /\ external < MaxExternal
    /\ external' = external + 1
    /\ l1Nonce' = [l1Nonce EXCEPT ![s] = @ + 1]
    /\ dirty' = [dirty EXCEPT ![s] = TRUE]
    /\ UNCHANGED <<ethTxs, marked, daOps, agg, baseNonce, crashes>>

Next ==
    \/ SaveEthTx \/ SaveMintlayerTx \/ SaveMintlayerTxFail \/ Stop
    \/ Restart
    \/ \E s \in Senders : SendTx(s) \/ ExternalTx(s)

Spec == Init /\ [][Next]_vars

(***************************************************************************)
(* Properties                                                              *)
(***************************************************************************)

TypeOK ==
    /\ ethTxs \subseteq [op : Ops, sender : Senders, nonce : Nat]
    /\ marked = {t.op : t \in ethTxs}  \* eth_tx_id set with its row
    /\ daOps \subseteq Ops
    /\ agg \in [pc : {"loop", "stopped"}, op : {NoOp}]
                 \cup [pc : {"da"}, op : Ops]
    /\ baseNonce \in [Senders -> Nat] /\ l1Nonce \in [Senders -> Nat]
    /\ dirty \in [Senders -> BOOLEAN]
    /\ crashes \in 0..MaxRestarts /\ external \in 0..MaxExternal

\* Each aggregated operation gets one Ethereum transaction, across crashes
\* and restarts: save_eth_tx marks the batches in the transaction that
\* saves the eth_txs row, so a restarted loop never offers them again.
OneEthTxPerOp ==
    \A t, u \in ethTxs : t.op = u.op => t = u

\* The comment in get_next_nonce: after a restart the node does not reuse
\* a nonce the chain has already consumed, even when the operator account
\* sent transactions while the node was down.  A new eth_txs row never
\* takes a nonce below the chain's pending nonce, unless the operator sent
\* by other means since the node last started.
FreshNonce ==
    [][\A t \in ethTxs' \ ethTxs :
          dirty[t.sender] \/ t.nonce >= l1Nonce[t.sender]]_vars

\* Spec 1 and 2: every operation that becomes an L1 transaction is handed
\* to the DA pipeline through save_pending_operation.  Once the aggregator
\* has moved past an operation, its DA row exists.
EveryEthTxHasDaOp ==
    \A t \in ethTxs : t.op \in daOps \/ (agg.pc = "da" /\ agg.op = t.op)

====
