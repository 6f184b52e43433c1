------------------------ MODULE MCExtractionPipeline ------------------------
(***************************************************************************)
(* Small instances of ExtractionPipeline: two or three message events of   *)
(* one session, one deferred retry each, windows of two, two workers.      *)
(***************************************************************************)
EXTENDS ExtractionPipeline, TLC

CONSTANTS w1, w2, chat

MCWorkers == {w1, w2}
MCTokens  == 1..4

\* Events are numbered in the order they were recorded.
MCOneEvent    == {1}
MCTwoEvents   == {1, 2}
MCThreeEvents == {1, 2, 3}
MCJobs        == Events \X (0..MaxDeferred)
MCEventOf     == [j \in MCJobs |-> j[1]]
MCSessionOf   == [e \in Events |-> chat]
MCRank        == [j \in MCJobs |-> 10 * j[1] + j[2]]
MCLegacyDead  == {<<1, 0>>}

WorkerSymmetry == Permutations(MCWorkers)
=============================================================================
