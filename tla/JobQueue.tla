------------------------------ MODULE JobQueue ------------------------------
(***************************************************************************)
(* The jobs table of HL-Mem and the protocol its workers follow to run a   *)
(* leased window of jobs: storage/jobs.py (JobRepository) and              *)
(* workers/worker.py (Worker.run_once, _LeaseHeartbeat).                   *)
(*                                                                         *)
(* Every action is one committed SQLite statement or transaction of one    *)
(* process, so another process may run between any two of them.            *)
(*                                                                         *)
(* Time is not modelled.  A lease deadline is either ahead or past         *)
(* (expired), a deadline may pass at any moment, and a renewal moves it    *)
(* ahead again.  Whether a short window is old enough to be leased, and    *)
(* which ripe candidate comes first, is left open.                         *)
(***************************************************************************)
EXTENDS Naturals, FiniteSets

CONSTANTS
    Workers,      \* worker processes
    Jobs,         \* identities of the rows the jobs table may hold
    Events,       \* events the jobs extract
    EventOf,      \* EventOf[j]: the event_id in the payload of j
    SessionOf,    \* SessionOf[e]: the session of a message event
    Deletable,    \* bound: the events whose row may be deleted
    NoSession,    \* an event that is no message or has no session
    Rank,         \* Rank[j]: place of j in the order inside a session
    Tokens,       \* lease tokens
    NoToken,      \* lease_token IS NULL
    LegacyDead,   \* rows an older release may have left dead
    MaxWindow,    \* extraction_batch_max_events
    MaxAttempts,  \* jobs.max_attempts
    FaultKinds,   \* which of the faults below the environment injects
    MaxFaults     \* bound: how many faults a behaviour has

ASSUME QueueAssumption ==
    /\ EventOf \in [Jobs -> Events]
    /\ Rank \in [Jobs -> Nat]
    /\ Deletable \subseteq Events
    /\ NoToken \notin Tokens
    /\ LegacyDead \subseteq Jobs
    /\ MaxWindow \in Nat \ {0}
    /\ MaxAttempts \in Nat \ {0}
    /\ MaxFaults \in Nat
    /\ FaultKinds \subseteq {"crash", "stall"}

VARIABLES
    status,     \* status[j]: jobs.status, or absent while no row exists
    attempts,   \* attempts[j]: jobs.attempts
    lease,      \* lease[j]: jobs.lease_token
    expired,    \* rows whose leased_until lies in the past
    gone,       \* events whose row was deleted
    pc,         \* pc[w]: the next statement of run_once
    held,       \* held[w]: leased_job_ids
    token,      \* token[w]: the lease token w works with
    lost,       \* lost[w]: w has noticed that its lease is incomplete
    report,     \* report[w]: the status run_once last returned
    faults      \* faults injected so far

rowVars    == <<status, attempts, lease, expired>>
workerVars == <<pc, held, token, lost, report>>
queueVars  == <<rowVars, gone, workerVars, faults>>

JobStatus == {"absent", "pending", "running", "succeeded", "dead"}
Reports   == JobStatus \cup {"none", "lease_lost"}
Steps     == {"idle", "leased", "renewed", "working", "checked", "failing", "failed", "returning"}

QueueTypeOK ==
    /\ status \in [Jobs -> JobStatus]
    /\ attempts \in [Jobs -> Nat]
    /\ lease \in [Jobs -> Tokens \cup {NoToken}]
    /\ expired \subseteq Jobs
    /\ gone \subseteq Events
    /\ pc \in [Workers -> Steps]
    /\ held \in [Workers -> SUBSET Jobs]
    /\ token \in [Workers -> Tokens \cup {NoToken}]
    /\ lost \in [Workers -> BOOLEAN]
    /\ report \in [Workers -> Reports]
    /\ faults \in 0..MaxFaults

QueueInit ==
    /\ \E old \in SUBSET LegacyDead :
        /\ status = [j \in Jobs |-> IF j \in old THEN "dead" ELSE "absent"]
        /\ attempts = [j \in Jobs |-> IF j \in old THEN MaxAttempts ELSE 0]
    /\ lease = [j \in Jobs |-> NoToken]
    /\ expired = {}
    /\ gone = {}
    /\ pc = [w \in Workers |-> "idle"]
    /\ held = [w \in Workers |-> {}]
    /\ token = [w \in Workers |-> NoToken]
    /\ lost = [w \in Workers |-> FALSE]
    /\ report = [w \in Workers |-> "none"]
    /\ faults = 0
-----------------------------------------------------------------------------
(***************************************************************************)
(* Helpers                                                                 *)
(***************************************************************************)
\* Variants of the definition that follows, which the model checker must
\* refute: a running row is up for lease at any time; an expired lease is
\* never taken over.
EligibleWhileLeased == {j \in Jobs : status[j] \in {"pending", "running"}}
EligibleWhenPending == {j \in Jobs : status[j] = "pending"}

Eligible == {j \in Jobs : status[j] = "pending" \/ (status[j] = "running" /\ j \in expired)}

\* The jobs a window around c is cut from: same session, event still there.
Peers(c) ==
    {j \in Eligible : EventOf[j] \notin gone /\ SessionOf[EventOf[j]] = SessionOf[EventOf[c]]}

Window(c) ==
    IF MaxWindow = 1 \/ EventOf[c] \in gone \/ SessionOf[EventOf[c]] = NoSession
    THEN {c}
    ELSE {j \in Peers(c) : Cardinality({k \in Peers(c) : Rank[k] < Rank[j]}) < MaxWindow}

\* job["id"]: the first row of the window.
First(S) == CHOOSE j \in S : \A k \in S : Rank[j] <= Rank[k]

TokensInUse == {token[w] : w \in Workers} \cup {lease[j] : j \in Jobs}

\* Variant to refute: every lease of the process has one token.
SharedToken == CHOOSE t \in Tokens : TRUE

\* uuid4().hex: a token that nobody works with and no row carries.
FreshToken == CHOOSE t \in Tokens : t \notin TokensInUse

\* The rows a statement guarded by lease_token=? AND status='running' reaches.
Owned(w) == {j \in held[w] : status[j] = "running" /\ lease[j] = token[w]}

OwnsWindow(w) == Owned(w) = held[w]

InjectFault(kind) ==
    /\ kind \in FaultKinds
    /\ faults < MaxFaults
    /\ faults' = faults + 1

GoIdle(w, result) ==
    /\ pc' = [pc EXCEPT ![w] = "idle"]
    /\ held' = [held EXCEPT ![w] = {}]
    /\ token' = [token EXCEPT ![w] = NoToken]
    /\ lost' = [lost EXCEPT ![w] = FALSE]
    /\ report' = [report EXCEPT ![w] = result]

GoTo(w, step) ==
    /\ pc' = [pc EXCEPT ![w] = step]
    /\ UNCHANGED <<held, token, report>>
-----------------------------------------------------------------------------
(***************************************************************************)
(* Producers                                                               *)
(***************************************************************************)
\* insert_job: INSERT OR IGNORE under a unique idempotency key.
Enqueue(j) ==
    /\ status[j] = "absent"
    /\ status' = [status EXCEPT ![j] = "pending"]
    /\ UNCHANGED <<attempts, lease, expired, gone, workerVars, faults>>

\* The row of an event is deleted; its jobs stay behind.
DropEvent(e) ==
    /\ e \in Deletable \ gone
    /\ gone' = gone \cup {e}
    /\ UNCHANGED <<rowVars, workerVars, faults>>
-----------------------------------------------------------------------------
(***************************************************************************)
(* run_once of worker w                                                    *)
(***************************************************************************)
LeaseJob(w) ==
    /\ pc[w] = "idle"
    /\ ~ (Tokens \subseteq TokensInUse)
    /\ \E c \in Eligible :
        /\ status' = [j \in Jobs |-> IF j \in Window(c) THEN "running" ELSE status[j]]
        /\ attempts' = [j \in Jobs |-> IF j \in Window(c) THEN attempts[j] + 1 ELSE attempts[j]]
        /\ lease' = [j \in Jobs |-> IF j \in Window(c) THEN FreshToken ELSE lease[j]]
        /\ expired' = expired \ Window(c)
        /\ held' = [held EXCEPT ![w] = Window(c)]
    /\ token' = [token EXCEPT ![w] = FreshToken]
    /\ pc' = [pc EXCEPT ![w] = "leased"]
    /\ report' = [report EXCEPT ![w] = "none"]
    /\ UNCHANGED <<lost, gone, faults>>

\* renew_lease with the deadline lease_job wrote: it moves no deadline, only
\* counts the rows still held.  A short count is acted on below.
RenewBeforeDispatch(w) ==
    /\ pc[w] = "leased"
    /\ lost' = [lost EXCEPT ![w] = ~ OwnsWindow(w)]
    /\ GoTo(w, "renewed")
    /\ UNCHANGED <<rowVars, gone, faults>>

\* update_progress(stage="leased") on the first job, then the ownership test.
ReportLeased(w) ==
    /\ pc[w] = "renewed"
    /\ IF lost[w] \/ First(held[w]) \notin Owned(w)
       THEN GoTo(w, "failing")
       ELSE GoTo(w, "working")
    /\ UNCHANGED <<rowVars, gone, lost, faults>>

\* renew_lease with a new deadline, for the rows still held.  The heartbeat
\* thread ends once it has seen a short count.
Heartbeat(w) ==
    /\ pc[w] = "working"
    /\ ~ lost[w]
    /\ expired' = expired \ Owned(w)
    /\ lost' = [lost EXCEPT ![w] = ~ OwnsWindow(w)]
    /\ UNCHANGED <<status, attempts, lease, gone, pc, held, token, report, faults>>

\* dispatch_job returned; heartbeat.stop(); heartbeat.raise_if_failed().
DispatchReturns(w) ==
    /\ pc[w] = "working"
    /\ GoTo(w, IF lost[w] THEN "failing" ELSE "checked")
    /\ UNCHANGED <<rowVars, gone, lost, faults>>

\* dispatch_job raised.
DispatchFails(w) ==
    /\ pc[w] = "working"
    /\ GoTo(w, "failing")
    /\ UNCHANGED <<rowVars, gone, lost, faults>>

\* A statement before or after the dispatch raises (a locked database) and
\* changes no row.
StatementRaises(w) ==
    /\ pc[w] \in {"leased", "renewed", "checked"}
    /\ GoTo(w, "failing")
    /\ UNCHANGED <<rowVars, gone, lost, faults>>

\* complete_jobs commits the rows still held even when the count is short;
\* run_once then raises and takes the failure path.
CompleteJobs(w) ==
    /\ pc[w] = "checked"
    /\ status' = [j \in Jobs |-> IF j \in Owned(w) THEN "succeeded" ELSE status[j]]
    /\ lease' = [j \in Jobs |-> IF j \in Owned(w) THEN NoToken ELSE lease[j]]
    /\ expired' = expired \ Owned(w)
    /\ IF OwnsWindow(w) THEN GoIdle(w, "succeeded") ELSE GoTo(w, "failing") /\ UNCHANGED lost
    /\ UNCHANGED <<attempts, gone, faults>>

\* fail_jobs: each row is retried, or dead once its attempts are used up.
\* Nothing held any more: run_once returns lease_lost.
FailRows(w, rows, retry, budget) ==
    /\ pc[w] = "failing"
    /\ status' = [j \in Jobs |->
                    IF j \notin rows THEN status[j]
                    ELSE IF attempts[j] >= budget THEN "dead" ELSE retry]
    /\ lease' = [j \in Jobs |-> IF j \in rows THEN NoToken ELSE lease[j]]
    /\ expired' = expired \ rows
    /\ IF Owned(w) = {} THEN GoIdle(w, "lease_lost") ELSE GoTo(w, "failed") /\ UNCHANGED lost
    /\ UNCHANGED <<attempts, gone, faults>>

\* Variants of FailJobs to refute: the update looks at no token; a row is
\* dead one attempt too early; a row is left in the legacy status failed.
FailJobsOfAnyOwner(w) == FailRows(w, {j \in held[w] : status[j] = "running"}, "pending", MaxAttempts)
FailJobsEarly(w)      == FailRows(w, Owned(w), "pending", MaxAttempts - 1)
FailJobsLegacy(w)     == FailRows(w, Owned(w), "failed", MaxAttempts)

FailJobs(w) == FailRows(w, Owned(w), "pending", MaxAttempts)

\* run_once re-reads every leased row and reports the status of the first.
ReadOutcome(w) ==
    /\ pc[w] = "failed"
    /\ pc' = [pc EXCEPT ![w] = "returning"]
    /\ report' = [report EXCEPT ![w] = status[First(held[w])]]
    /\ UNCHANGED <<rowVars, held, token, lost, gone, faults>>

ReturnFailed(w) ==
    /\ pc[w] = "returning"
    /\ GoIdle(w, report[w])
    /\ UNCHANGED <<rowVars, gone, faults>>
-----------------------------------------------------------------------------
(***************************************************************************)
(* Environment                                                             *)
(***************************************************************************)
LeasedRows(t) == {j \in Jobs : status[j] = "running" /\ lease[j] = t} \ expired

WorkedOn(t) == \E w \in Workers : token[w] = t

\* A deadline passes while nobody works with the token any more.
OrphanedLeaseExpires(t) ==
    /\ LeasedRows(t) # {}
    /\ ~ WorkedOn(t)
    /\ expired' = expired \cup LeasedRows(t)
    /\ UNCHANGED <<status, attempts, lease, gone, workerVars, faults>>

\* A deadline passes while its worker is alive: the worker or its heartbeat
\* stalled for longer than the lease.
LiveLeaseExpires(t) ==
    /\ LeasedRows(t) # {}
    /\ WorkedOn(t)
    /\ InjectFault("stall")
    /\ expired' = expired \cup LeasedRows(t)
    /\ UNCHANGED <<status, attempts, lease, gone, workerVars>>

\* The process of w dies and is started again: everything in memory is lost.
\* An exception that escapes run_once ends the process too.
Crash(w) ==
    /\ InjectFault("crash")
    /\ GoIdle(w, "none")
    /\ UNCHANGED <<rowVars, gone>>
-----------------------------------------------------------------------------
WorkerStep(w) ==
    \/ LeaseJob(w)
    \/ RenewBeforeDispatch(w)
    \/ ReportLeased(w)
    \/ Heartbeat(w)
    \/ DispatchReturns(w)
    \/ DispatchFails(w)
    \/ StatementRaises(w)
    \/ CompleteJobs(w)
    \/ FailJobs(w)
    \/ ReadOutcome(w)
    \/ ReturnFailed(w)
    \/ Crash(w)

QueueNext ==
    \/ \E j \in Jobs : Enqueue(j)
    \/ \E e \in Events : DropEvent(e)
    \/ \E w \in Workers : WorkerStep(w)
    \/ \E t \in Tokens : OrphanedLeaseExpires(t) \/ LiveLeaseExpires(t)

QueueSpec == QueueInit /\ [][QueueNext]_queueVars

(***************************************************************************)
(* run_forever keeps calling run_once; every statement of it ends, and so  *)
(* does every call of a handler (provider calls have timeouts).  A lease   *)
(* nobody renews passes its deadline.  Nothing is assumed of crashes,      *)
(* stalls, heartbeats or the deletion of events.                           *)
(***************************************************************************)
QueueFairness ==
    /\ \A w \in Workers :
        /\ WF_queueVars(LeaseJob(w))
        /\ WF_queueVars(RenewBeforeDispatch(w))
        /\ WF_queueVars(ReportLeased(w))
        /\ WF_queueVars(DispatchReturns(w) \/ DispatchFails(w))
        /\ WF_queueVars(CompleteJobs(w))
        /\ WF_queueVars(FailJobs(w))
        /\ WF_queueVars(ReadOutcome(w))
        /\ WF_queueVars(ReturnFailed(w))
    /\ \A t \in Tokens : WF_queueVars(OrphanedLeaseExpires(t))

FairQueueSpec == QueueSpec /\ QueueFairness
-----------------------------------------------------------------------------
(***************************************************************************)
(* Properties                                                              *)
(***************************************************************************)
\* No two processes can both write the outcome of a job: however often a
\* lease expired and was taken over, one of them has the row's token.
OneOwnerPerJob ==
    \A v, w \in Workers : v # w => Owned(v) \cap Owned(w) = {}

\* A job waits only while it has attempts left and dies only when it has
\* none, and it is handed out more than max_attempts times only after as
\* many crashes or stalls (lease_job takes over an expired lease without
\* looking at max_attempts).
AttemptBudget ==
    \A j \in Jobs :
        /\ status[j] = "pending" => attempts[j] < MaxAttempts
        /\ status[j] = "dead" => attempts[j] >= MaxAttempts
        /\ attempts[j] <= MaxAttempts + faults

\* A running job leaves that status only by the worker that owns its lease
\* at that moment; a late worker cannot end or requeue what another runs.
OnlyOwnerSettles ==
    [][\A j \in Jobs :
        status[j] = "running" /\ status'[j] # "running"
            => \E w \in Workers : pc[w] \in {"checked", "failing"} /\ j \in Owned(w)]_queueVars

\* The inductive invariant behind these.  Worker and row are tied by the
\* token: working with one is holding rows, ...
BusyHoldsRows ==
    \A w \in Workers : IF pc[w] = "idle" THEN token[w] = NoToken ELSE held[w] # {}

\* ... no two workers have the same one, ...
TokensDiffer ==
    \A v, w \in Workers : v # w /\ token[v] # NoToken => token[v] # token[w]

\* ... a running row carries one, ...
RunningIsLeased ==
    \A j \in Jobs : status[j] = "running" => lease[j] \in Tokens /\ attempts[j] > 0

\* ... whoever works with it knows the row, until the row is settled, ...
HolderKnowsRow ==
    \A w \in Workers, j \in Jobs :
        status[j] = "running" /\ lease[j] = token[w] =>
            j \in held[w] /\ pc[w] \notin {"failed", "returning"}

\* ... and a row can be taken over only after a fault paid for the attempt.
Orphaned(j) == \A w \in Workers : token[w] # lease[j]

TakeoverIsPaid ==
    \A j \in Jobs :
        /\ status[j] = "absent" => attempts[j] = 0
        /\ status[j] = "running" /\ (j \in expired \/ Orphaned(j)) =>
               attempts[j] + 1 <= MaxAttempts + faults

QueueInv ==
    /\ QueueTypeOK
    /\ BusyHoldsRows
    /\ TokensDiffer
    /\ RunningIsLeased
    /\ HolderKnowsRow
    /\ TakeoverIsPaid
    /\ AttemptBudget

\* The queue implements its contract.
StateOf(s) ==
    CASE s = "absent" -> "absent"
      [] s \in {"pending", "running"} -> "open"
      [] s = "succeeded" -> "done"
      [] s = "dead" -> "dead"

jobState == [j \in Jobs |-> StateOf(status[j])]

Contract == INSTANCE JobContract WITH state <- jobState, tries <- attempts

ImplementsContract == Contract!ContractSpec

\* A queued job ends: whichever workers crash or stall on it, it succeeds
\* or is dead after boundedly many faults.
EveryJobEnds ==
    \A j \in Jobs : status[j] = "pending" ~> status[j] \in {"succeeded", "dead"}

\* What docs/architecture.md says of a worker whose updates do not cover its
\* complete window: it reports lease_lost instead of success.  A worker that
\* has seen its lease incomplete, at a heartbeat or before the dispatch, never
\* ends by reporting success.
LossIsNoSuccess ==
    [][\A w \in Workers :
        lost[w] /\ report[w] # "succeeded" => report'[w] # "succeeded"]_queueVars
=============================================================================
