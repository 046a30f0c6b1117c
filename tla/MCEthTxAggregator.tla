-------------------------- MODULE MCEthTxAggregator --------------------------
(***************************************************************************)
(* Model-checking instance of EthTxAggregator: a Commit, a Prove and a    *)
(* second Commit, so both senders' nonces are used, with up to two        *)
(* restarts and one transaction sent outside the node.                   *)
(***************************************************************************)
EXTENDS EthTxAggregator

CONSTANTS commit1, prove1, commit2

MCOpSeq == <<commit1, prove1, commit2>>
MCCommitOps == {commit1, commit2}

====
