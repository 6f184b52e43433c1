---------------------------- MODULE JobContract ----------------------------
(***************************************************************************)
(* What the durable job queue promises to the code that puts jobs in it,   *)
(* without leases, tokens, windows or workers: a job is tried, several     *)
(* jobs may be tried together, it succeeds only after a try, it is buried  *)
(* only after MaxAttempts tries, and once it has ended it stays ended.     *)
(* JobQueue is shown to implement this module.                             *)
(***************************************************************************)
EXTENDS Naturals

CONSTANTS
    Jobs,         \* identities of the rows the jobs table may hold
    LegacyDead,   \* rows an older release may have left dead
    MaxAttempts   \* jobs.max_attempts

VARIABLES
    state,   \* state[j]: absent, open, done or dead
    tries    \* tries[j]: how often j was handed to a worker

contractVars == <<state, tries>>

ContractInit ==
    \E old \in SUBSET LegacyDead :
        /\ state = [j \in Jobs |-> IF j \in old THEN "dead" ELSE "absent"]
        /\ tries = [j \in Jobs |-> IF j \in old THEN MaxAttempts ELSE 0]

Add(j) ==
    /\ state[j] = "absent"
    /\ state' = [state EXCEPT ![j] = "open"]
    /\ UNCHANGED tries

\* A window of jobs is handed out together.
Try(S) ==
    /\ \A j \in S : state[j] = "open"
    /\ tries' = [j \in Jobs |-> IF j \in S THEN tries[j] + 1 ELSE tries[j]]
    /\ UNCHANGED state

Succeed(S) ==
    /\ \A j \in S : state[j] = "open" /\ tries[j] > 0
    /\ state' = [j \in Jobs |-> IF j \in S THEN "done" ELSE state[j]]
    /\ UNCHANGED tries

Bury(S) ==
    /\ \A j \in S : state[j] = "open" /\ tries[j] >= MaxAttempts
    /\ state' = [j \in Jobs |-> IF j \in S THEN "dead" ELSE state[j]]
    /\ UNCHANGED tries

ContractNext ==
    \/ \E j \in Jobs : Add(j)
    \/ \E S \in SUBSET Jobs : Try(S) \/ Succeed(S) \/ Bury(S)

ContractSpec == ContractInit /\ [][ContractNext]_contractVars
=============================================================================
