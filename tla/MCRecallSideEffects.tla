------------------------ MODULE MCRecallSideEffects -------------------------
(***************************************************************************)
(* A small instance of RecallSideEffects: a recall that submits a batch of *)
(* exposures and an audit record, and a host that reports on the exposures *)
(* one or two at a time.                                                   *)
(***************************************************************************)
EXTENDS RecallSideEffects, TLC

CONSTANTS batch, audit, receipt, x1, x2, w1, w2

MCWorkers == {w1, w2}

MCIdsOf == [s \in Submissions |-> IF s = batch THEN Exposures ELSE {}]

MCCovers     == [r \in Receipts |-> <<x1>>]
MCCoversBoth == [r \in Receipts |-> <<x1, x2>>]
=============================================================================
