---------------------------- MODULE MCJobQueue ----------------------------
(***************************************************************************)
(* Small instances of JobQueue: two or three message events of one session, *)
(* with one job each, a window of two, two workers.                        *)
(***************************************************************************)
EXTENDS JobQueue, TLC

CONSTANTS w1, w2, e1, e2, e3, chat

MCWorkers  == {w1, w2}
MCJobs     == {1, 2, 3}
MCEvents   == {e1, e2, e3}
MCEventOf  == <<e1, e2, e3>>
MCSessions == [e \in MCEvents |-> chat]
MCRank     == <<1, 2, 3>>
MCTokens   == 1..5

\* The first two of them.
MCTwoJobs     == {1, 2}
MCTwoEvents   == {e1, e2}
MCTwoEventOf  == <<e1, e2>>
MCTwoSessions == [e \in MCTwoEvents |-> chat]
MCTwoRank     == <<1, 2>>

WorkerSymmetry == Permutations(MCWorkers)
============================================================================
