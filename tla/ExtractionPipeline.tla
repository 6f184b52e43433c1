------------------------- MODULE ExtractionPipeline -------------------------
(***************************************************************************)
(* Durable extraction: events are ingested with one extract_event job      *)
(* each, workers run the jobs through JobQueue, and an event whose job     *)
(* died of HTTP 429 gets a deferred task that the maintenance loop turns   *)
(* into at most MaxDeferred further jobs.  Sources: application/ingest.py, *)
(* workers/worker.py, workers/deferred.py, storage/deferred_tasks.py,      *)
(* application/deletion.py, security/retention.py.                         *)
(*                                                                         *)
(* Job <<e, 0>> is the row with the key extract:e, job <<e, n>> the n-th   *)
(* retry, with the key deferred:task:n.                                    *)
(***************************************************************************)
EXTENDS JobQueue

CONSTANTS
    MaxDeferred,   \* DEFERRED_EXTRACTION_MAX_ATTEMPTS
    MaySwallow     \* whether a logged and swallowed database error may occur

Original(e) == <<e, 0>>
Retry(e, n) == <<e, n>>

ASSUME PipelineAssumption ==
    /\ MaxDeferred \in Nat \ {0}
    /\ Jobs = Events \X (0..MaxDeferred)
    /\ EventOf = [j \in Jobs |-> j[1]]
    /\ LegacyDead \subseteq Events \X {0}
    /\ MaySwallow \in BOOLEAN

VARIABLES
    lastError,      \* lastError[j]: what jobs.last_error holds
    task,           \* task[e]: status of the task retry_extract_event:e
    taskAttempts,   \* taskAttempts[e]: its attempts
    evidence,       \* events some evidence link points to
    served,         \* history: events an extraction returned normally for
    stage,          \* stage[w]: how far the extraction of w is
    batch,          \* batch[w]: payload event_ids that name an event
    cause,          \* cause[w]: the error run_once would handle
    doomed,         \* doomed[w]: dead_event_ids still to be handled
    maint           \* maint[w]: the maintenance item w has read but not done

taskVars == <<task, taskAttempts>>
runVars  == <<stage, batch, cause, doomed>>
pipeVars == <<lastError, taskVars, evidence, served, runVars, maint>>
vars     == <<queueVars, pipeVars>>

(***************************************************************************)
(* ProviderTransport wraps an HTTP 429 in a ProviderCallError whose text   *)
(* does not name the status, so a job this release fails with rate never   *)
(* has the text (raw429) the legacy scan looks for.                        *)
(***************************************************************************)
Causes == {"rate", "other"}
Stages == {"none", "leased", "clean", "unreported", "extracted", "converged"}

NoWork == [kind |-> "none"]
Work   == [kind : {"expire", "retry", "legacy"}, event : Events, seen : 0..MaxDeferred]

TypeOK ==
    /\ QueueTypeOK
    /\ lastError \in [Jobs -> Causes \cup {"none", "raw429"}]
    /\ task \in [Events -> {"absent", "pending", "completed", "abandoned"}]
    /\ taskAttempts \in [Events -> 0..MaxDeferred]
    /\ evidence \subseteq Events
    /\ served \subseteq Events
    /\ stage \in [Workers -> Stages]
    /\ batch \in [Workers -> SUBSET Events]
    /\ cause \in [Workers -> Causes]
    /\ doomed \in [Workers -> SUBSET Events]
    /\ maint \in [Workers -> Work \cup {NoWork}]

Init ==
    /\ QueueInit
    /\ lastError = [j \in Jobs |-> IF status[j] = "dead" THEN "raw429" ELSE "none"]
    /\ task = [e \in Events |-> "absent"]
    /\ taskAttempts = [e \in Events |-> 0]
    /\ evidence = {}
    /\ served = {}
    /\ stage = [w \in Workers |-> "none"]
    /\ batch = [w \in Workers |-> {}]
    /\ cause = [w \in Workers |-> "other"]
    /\ doomed = [w \in Workers |-> {}]
    /\ maint = [w \in Workers |-> NoWork]
-----------------------------------------------------------------------------
(***************************************************************************)
(* Helpers                                                                 *)
(***************************************************************************)
JobsOf(e) == {j \in Jobs : EventOf[j] = e}

Known(e) == status[Original(e)] # "absent"

\* Variant to refute: a running job is not seen as active.
HasPendingJob(e) == \E j \in JobsOf(e) : status[j] = "pending"

\* _has_active_extract_job
HasActiveJob(e) == \E j \in JobsOf(e) : status[j] \in {"pending", "running"}

FinishTasks(S, result) ==
    task' = [e \in Events |-> IF e \in S /\ task[e] = "pending" THEN result ELSE task[e]]

SetStage(w, s) ==
    /\ stage' = [stage EXCEPT ![w] = s]
    /\ UNCHANGED <<batch, cause, doomed>>

\* run_once returns: its local variables are gone.
ForgetRun(w) ==
    /\ stage' = [stage EXCEPT ![w] = "none"]
    /\ batch' = [batch EXCEPT ![w] = {}]
    /\ cause' = [cause EXCEPT ![w] = "other"]
    /\ doomed' = [doomed EXCEPT ![w] = {}]

Undisturbed(w) == maint[w] = NoWork
-----------------------------------------------------------------------------
(***************************************************************************)
(* Ingest and deletion                                                     *)
(***************************************************************************)
\* One transaction inserts the event and its job.
Ingest(e) ==
    /\ Enqueue(Original(e))
    /\ UNCHANGED pipeVars

\* delete_claim on the last claims of e: the event goes with them, unless
\* its retry is pending.  Running extractions are not looked at.
ForgetClaims(e) ==
    /\ e \in evidence \cap Deletable
    /\ evidence' = evidence \ {e}
    /\ IF task[e] = "pending" \/ e \in gone THEN UNCHANGED queueVars ELSE DropEvent(e)
    /\ UNCHANGED <<lastError, taskVars, served, runVars, maint>>

\* purge_retained_events
PurgeEvent(e) ==
    /\ Known(e)
    /\ e \notin evidence
    /\ task[e] # "pending"
    /\ DropEvent(e)
    /\ UNCHANGED pipeVars
-----------------------------------------------------------------------------
(***************************************************************************)
(* run_once of worker w on extract_event jobs                              *)
(***************************************************************************)
\* An event deleted before the lease leaves the payload event_id None.
LeaseWindow(w) ==
    /\ Undisturbed(w)
    /\ LeaseJob(w)
    /\ batch' = [batch EXCEPT ![w] = {EventOf[j] : j \in held'[w]} \ gone]
    /\ stage' = [stage EXCEPT ![w] = "leased"]
    /\ UNCHANGED <<lastError, taskVars, evidence, served, cause, doomed, maint>>

Prepare(w) ==
    /\ RenewBeforeDispatch(w) \/ ReportLeased(w)
    /\ UNCHANGED pipeVars

\* _extract_window reads its events; one that is missing fails the window.
ReadEvents(w) ==
    /\ pc[w] = "working"
    /\ stage[w] = "leased"
    /\ IF batch[w] = {} \/ batch[w] \cap gone # {}
       THEN DispatchFails(w) /\ UNCHANGED runVars
       ELSE SetStage(w, "clean") /\ UNCHANGED queueVars
    /\ UNCHANGED <<lastError, taskVars, evidence, served, maint>>

Beat(w) ==
    /\ Heartbeat(w)
    /\ UNCHANGED pipeVars

\* store_extracted commits one claim and its evidence links, or skips it.
StoreClaim(w) ==
    /\ pc[w] = "working"
    /\ stage[w] = "clean"
    /\ \E S \in SUBSET batch[w] : evidence' = evidence \cup S
    /\ SetStage(w, "unreported")
    /\ UNCHANGED <<queueVars, lastError, taskVars, served, maint>>

\* The progress callback raises unless every row of the window is held.
ReportWrites(w) ==
    /\ pc[w] = "working"
    /\ stage[w] = "unreported"
    /\ IF OwnsWindow(w) THEN UNCHANGED queueVars ELSE DispatchFails(w)
    /\ SetStage(w, "clean")
    /\ UNCHANGED <<lastError, taskVars, evidence, served, maint>>

\* The last report_writes("claims_written"), then _extract_window returns.
ExtractionReturns(w) ==
    /\ pc[w] = "working"
    /\ stage[w] = "clean"
    /\ IF OwnsWindow(w)
       THEN /\ DispatchReturns(w)
            /\ served' = served \cup batch[w]
            /\ SetStage(w, "extracted")
       ELSE /\ DispatchFails(w)
            /\ UNCHANGED <<served, runVars>>
    /\ UNCHANGED <<lastError, taskVars, evidence, maint>>

\* A provider answers 429, before or between the claims of the window.
ProviderRejects(w) ==
    /\ stage[w] = "clean"
    /\ DispatchFails(w)
    /\ cause' = [cause EXCEPT ![w] = "rate"]
    /\ UNCHANGED <<lastError, taskVars, evidence, served, stage, batch, doomed, maint>>

\* Any other exception: schema, storage.
ExtractionFails(w) ==
    /\ stage[w] = "clean"
    /\ DispatchFails(w)
    /\ UNCHANGED pipeVars

\* complete_deferred_extractions, before the jobs are completed and without
\* a look at the lease.
ConvergeTasks(w) ==
    /\ pc[w] = "checked"
    /\ stage[w] = "extracted"
    /\ FinishTasks(batch[w], "completed")
    /\ SetStage(w, "converged")
    /\ UNCHANGED <<queueVars, lastError, taskAttempts, evidence, served, maint>>

\* ... whose failure run_once only logs.
ConvergeSwallowed(w) ==
    /\ MaySwallow
    /\ pc[w] = "checked"
    /\ stage[w] = "extracted"
    /\ SetStage(w, "converged")
    /\ UNCHANGED <<queueVars, lastError, taskVars, evidence, served, maint>>

\* Any other statement of run_once raises.
StatementFails(w) ==
    /\ stage[w] # "extracted"
    /\ StatementRaises(w)
    /\ UNCHANGED pipeVars

CompleteAfter(w, s) ==
    /\ stage[w] = s
    /\ CompleteJobs(w)
    /\ lastError' = [j \in Jobs |-> IF j \in Owned(w) THEN "none" ELSE lastError[j]]
    /\ IF OwnsWindow(w) THEN ForgetRun(w) ELSE UNCHANGED runVars
    /\ UNCHANGED <<taskVars, evidence, served, maint>>

\* Variant to refute: the jobs are completed and the tasks left open.
CompleteUnconverged(w) == CompleteAfter(w, "extracted")

CompleteWindow(w) == CompleteAfter(w, "converged")

FailWindow(w) ==
    /\ FailJobs(w)
    /\ lastError' = [j \in Jobs |-> IF j \in Owned(w) THEN cause[w] ELSE lastError[j]]
    /\ IF Owned(w) = {} THEN ForgetRun(w) ELSE UNCHANGED runVars
    /\ UNCHANGED <<taskVars, evidence, served, maint>>

\* dead_event_ids: every row of the window that is dead now, whoever
\* failed it.
ReadDoomed(w) ==
    /\ ReadOutcome(w)
    /\ doomed' = [doomed EXCEPT ![w] =
                    {e \in batch[w] : \E j \in held[w] : EventOf[j] = e /\ status[j] = "dead"}]
    /\ UNCHANGED <<lastError, taskVars, evidence, served, stage, batch, cause, maint>>

\* handle_failed_extractions on HTTP 429, one event of the list: defer, and
\* close a task that has no attempts left.  A finished task is left alone.
\* A crash between the two leaves what a crash before them leaves.
DeferOrClose(w, result) ==
    /\ pc[w] = "returning"
    /\ cause[w] = "rate"
    /\ \E e \in doomed[w] :
        /\ task' = [task EXCEPT ![e] =
                        CASE task[e] = "absent" -> "pending"
                          [] task[e] = "pending" /\ taskAttempts[e] >= MaxDeferred -> result
                          [] OTHER -> task[e]]
        /\ doomed' = [doomed EXCEPT ![w] = doomed[w] \ {e}]
    /\ UNCHANGED <<queueVars, lastError, taskAttempts, evidence, served, stage, batch, cause, maint>>

\* ... on any other error.
CloseDoomed(w, result) ==
    /\ pc[w] = "returning"
    /\ cause[w] = "other"
    /\ doomed[w] # {}
    /\ FinishTasks(doomed[w], result)
    /\ doomed' = [doomed EXCEPT ![w] = {}]
    /\ UNCHANGED <<queueVars, lastError, taskAttempts, evidence, served, stage, batch, cause, maint>>

\* Variants to refute: a status the table does not have; a failed event
\* closes its task as completed.
DeferOrFail(w)    == DeferOrClose(w, "failed")
CompleteDoomed(w) == CloseDoomed(w, "completed")

DeferRetry(w)    == DeferOrClose(w, "abandoned")
AbandonDoomed(w) == CloseDoomed(w, "abandoned")

\* ... and its failure, which run_once only logs.
RegistrationSwallowed(w) ==
    /\ MaySwallow
    /\ pc[w] = "returning"
    /\ doomed[w] # {}
    /\ doomed' = [doomed EXCEPT ![w] = {}]
    /\ UNCHANGED <<queueVars, lastError, taskVars, evidence, served, stage, batch, cause, maint>>

ReturnWindow(w) ==
    /\ doomed[w] = {}
    /\ ReturnFailed(w)
    /\ ForgetRun(w)
    /\ UNCHANGED <<lastError, taskVars, evidence, served, maint>>

CrashWorker(w) ==
    /\ Crash(w)
    /\ ForgetRun(w)
    /\ maint' = [maint EXCEPT ![w] = NoWork]
    /\ UNCHANGED <<lastError, taskVars, evidence, served>>
-----------------------------------------------------------------------------
(***************************************************************************)
(* process_deferred_tasks, run by each worker between two run_once calls.  *)
(* What it reads first and writes later are two steps.                     *)
(***************************************************************************)
TakeUp(w, item) ==
    /\ pc[w] = "idle"
    /\ Undisturbed(w)
    /\ maint' = [maint EXCEPT ![w] = item]
    /\ UNCHANGED <<queueVars, lastError, taskVars, evidence, served, runVars>>

PutDown(w, kind) ==
    /\ maint[w].kind = kind
    /\ maint' = [maint EXCEPT ![w] = NoWork]
    /\ UNCHANGED <<lastError, evidence, served, runVars>>

\* list_exhausted and the test for an active job.
ScanFrom(w, e, least) ==
    /\ task[e] = "pending"
    /\ taskAttempts[e] >= least
    /\ ~ HasActiveJob(e)
    /\ TakeUp(w, [kind |-> "expire", event |-> e, seen |-> taskAttempts[e]])

\* Variant to refute: attempts > max_attempts.
ScanOverrun(w, e) == ScanFrom(w, e, MaxDeferred + 1)

ScanExhausted(w, e) == ScanFrom(w, e, MaxDeferred)

AbandonExhausted(w) ==
    /\ PutDown(w, "expire")
    /\ FinishTasks({maint[w].event}, "abandoned")
    /\ UNCHANGED <<queueVars, taskAttempts>>

\* list_due, the event lookup and the first test for an active job of
\* _schedule_extract_retry; with an active job the task is postponed.
ScanDue(w, e) ==
    /\ task[e] = "pending"
    /\ taskAttempts[e] < MaxDeferred
    /\ e \notin gone
    /\ ~ HasActiveJob(e)
    /\ TakeUp(w, [kind |-> "retry", event |-> e, seen |-> taskAttempts[e]])

AbandonMissing(w, e) ==
    /\ pc[w] = "idle"
    /\ Undisturbed(w)
    /\ task[e] = "pending"
    /\ taskAttempts[e] < MaxDeferred
    /\ e \in gone
    /\ FinishTasks({e}, "abandoned")
    /\ UNCHANGED <<queueVars, lastError, taskAttempts, evidence, served, runVars, maint>>

\* The transaction of _schedule_extract_retry: everything is tested again,
\* and the job and the attempt are written together or not at all.
MaySchedule(e, n) ==
    /\ task[e] = "pending"
    /\ taskAttempts[e] < MaxDeferred
    /\ ~ HasActiveJob(e)
    /\ status[Retry(e, n)] = "absent"

\* Variant to refute: the attempt is not recorded with the job.
ScheduleUncounted(w) ==
    /\ PutDown(w, "retry")
    /\ LET e == maint[w].event
           n == maint[w].seen + 1
       IN IF MaySchedule(e, n)
          THEN Enqueue(Retry(e, n)) /\ UNCHANGED taskVars
          ELSE UNCHANGED <<queueVars, taskVars>>

ScheduleRetry(w) ==
    /\ PutDown(w, "retry")
    /\ LET e == maint[w].event
           n == maint[w].seen + 1
       IN IF MaySchedule(e, n)
          THEN /\ Enqueue(Retry(e, n))
               /\ taskAttempts' = [taskAttempts EXCEPT ![e] = taskAttempts[e] + 1]
               /\ UNCHANGED task
          ELSE UNCHANGED <<queueVars, taskVars>>

\* _register_legacy_rate_limited_extractions: the scan ...
ScanLegacy(w, e) ==
    /\ \E j \in JobsOf(e) : status[j] = "dead" /\ lastError[j] = "raw429"
    /\ e \notin gone \cup evidence
    /\ task[e] = "absent"
    /\ TakeUp(w, [kind |-> "legacy", event |-> e, seen |-> 0])

\* ... and the idempotent defer.
RegisterLegacy(w) ==
    /\ PutDown(w, "legacy")
    /\ task' = [task EXCEPT ![maint[w].event] =
                    IF task[maint[w].event] = "absent" THEN "pending" ELSE task[maint[w].event]]
    /\ UNCHANGED <<queueVars, taskAttempts>>
-----------------------------------------------------------------------------
RunStep(w) ==
    \/ LeaseWindow(w)
    \/ Prepare(w)
    \/ Beat(w)
    \/ ReadEvents(w)
    \/ StoreClaim(w)
    \/ ReportWrites(w)
    \/ ExtractionReturns(w)
    \/ ProviderRejects(w)
    \/ ExtractionFails(w)
    \/ ConvergeTasks(w)
    \/ ConvergeSwallowed(w)
    \/ StatementFails(w)
    \/ CompleteWindow(w)
    \/ FailWindow(w)
    \/ ReadDoomed(w)
    \/ DeferRetry(w)
    \/ AbandonDoomed(w)
    \/ RegistrationSwallowed(w)
    \/ ReturnWindow(w)
    \/ CrashWorker(w)

MaintenanceStep(w) ==
    \/ AbandonExhausted(w)
    \/ ScheduleRetry(w)
    \/ RegisterLegacy(w)
    \/ \E e \in Events :
        ScanExhausted(w, e) \/ ScanDue(w, e) \/ AbandonMissing(w, e) \/ ScanLegacy(w, e)

LeaseClock ==
    /\ \E t \in Tokens : OrphanedLeaseExpires(t) \/ LiveLeaseExpires(t)
    /\ UNCHANGED pipeVars

Next ==
    \/ \E e \in Events : Ingest(e) \/ ForgetClaims(e) \/ PurgeEvent(e)
    \/ \E w \in Workers : RunStep(w) \/ MaintenanceStep(w)
    \/ LeaseClock

Spec == Init /\ [][Next]_vars

(***************************************************************************)
(* run_forever alternates maintenance and run_once for ever, every handler *)
(* call ends, and a lease nobody renews passes its deadline.               *)
(* The claims of a window are finitely many, so an extraction that keeps   *)
(* storing and reporting them comes to its end: the one strong fairness.   *)
(***************************************************************************)
ExtractionEnds(w) == ExtractionReturns(w) \/ ProviderRejects(w) \/ ExtractionFails(w)

Fairness ==
    /\ \A w \in Workers :
        /\ WF_vars(LeaseWindow(w))
        /\ WF_vars(Prepare(w))
        /\ WF_vars(ReadEvents(w))
        /\ WF_vars(ReportWrites(w))
        /\ SF_vars(ExtractionEnds(w))
        /\ WF_vars(ConvergeTasks(w) \/ ConvergeSwallowed(w))
        /\ WF_vars(CompleteWindow(w))
        /\ WF_vars(FailWindow(w))
        /\ WF_vars(ReadDoomed(w))
        /\ WF_vars(DeferRetry(w) \/ AbandonDoomed(w) \/ RegistrationSwallowed(w))
        /\ WF_vars(ReturnWindow(w))
        /\ WF_vars(AbandonExhausted(w) \/ ScheduleRetry(w) \/ RegisterLegacy(w))
        /\ \A e \in Events :
            WF_vars(ScanExhausted(w, e) \/ ScanDue(w, e) \/ AbandonMissing(w, e) \/ ScanLegacy(w, e))
    /\ WF_vars(\E t \in Tokens : OrphanedLeaseExpires(t) /\ UNCHANGED pipeVars)

FairSpec == Spec /\ Fairness
-----------------------------------------------------------------------------
(***************************************************************************)
(* Properties                                                              *)
(***************************************************************************)
\* An event never has two jobs that may run: two maintenance loops that
\* read the same due task start one retry, and only after the last job ended.
OneActiveJob ==
    \A e \in Events : \A j, k \in JobsOf(e) :
        {status[j], status[k]} \subseteq {"pending", "running"} => j = k

\* The attempts of a task are exactly the retry jobs inserted for it: no
\* retry is spent without a job, and no job is inserted without spending one.
RetryAccounting ==
    \A e \in Events :
        /\ \A n \in 1..MaxDeferred : status[Retry(e, n)] # "absent" <=> n <= taskAttempts[e]
        /\ task[e] = "absent" => taskAttempts[e] = 0

\* A task is closed as completed only for an event some extraction really
\* returned for, although the update looks at no lease.
ConvergedWasServed ==
    \A e \in Events : task[e] = "completed" => e \in served

\* The scan for exhausted tasks never writes off an event one of whose jobs
\* succeeded: run_once closes the task before it completes the job.  (Needs
\* MaySwallow = FALSE: a failure of that update is logged and ignored.)
ScanSparesSuccess ==
    [][\A w \in Workers, e \in Events :
        /\ maint[w].kind = "expire" /\ maint[w].event = e /\ maint'[w] = NoWork
        /\ task[e] = "pending" /\ task'[e] = "abandoned"
        => \A j \in JobsOf(e) : status[j] # "succeeded"]_vars

\* The inductive invariant behind these: the first job of an event comes
\* before its retries and its task, ...
KnownFirst ==
    /\ \A j \in Jobs : status[j] # "absent" => Known(EventOf[j])
    /\ \A e \in Events : task[e] # "absent" => Known(e)
    /\ \A w \in Workers :
        /\ \A e \in doomed[w] : Known(e)
        /\ maint[w].kind = "legacy" => Known(maint[w].event)

\* ... a maintenance loop never holds an attempt number ahead of the table's, ...
SeenIsPast ==
    \A w \in Workers :
        maint[w].kind = "retry" => maint[w].seen <= taskAttempts[maint[w].event]

\* ... and an extraction that may close tasks has returned for its events.
ExtractedIsServed == \A w \in Workers : stage[w] = "extracted" => batch[w] \subseteq served

PipeInv ==
    /\ QueueInv
    /\ TypeOK
    /\ KnownFirst
    /\ SeenIsPast
    /\ ExtractedIsServed
    /\ OneActiveJob
    /\ RetryAccounting
    /\ ConvergedWasServed

\* What ScanSparesSuccess rests on besides: an open task has no job that
\* succeeded, and none that may run once its event is deleted, ...
HasDeadJob(e) == \E j \in JobsOf(e) : status[j] = "dead"

OpenIsUnfinished ==
    \A e \in Events : task[e] = "pending" =>
        /\ \A j \in JobsOf(e) : status[j] # "succeeded"
        /\ e \in gone => ~ HasActiveJob(e)

\* ... whoever is about to open a task has seen a dead job of its event, ...
DoomedIsDead ==
    \A w \in Workers :
        /\ \A e \in doomed[w] : HasDeadJob(e)
        /\ maint[w].kind = "legacy" => HasDeadJob(maint[w].event)

\* ... a retry read as due keeps its event, or its task is closed, ...
RetryKeepsEvent ==
    \A w \in Workers : maint[w].kind = "retry" =>
        \/ task[maint[w].event] \in {"completed", "abandoned"}
        \/ task[maint[w].event] = "pending" /\ maint[w].event \notin gone

\* ... a window's rows are of the events it reads, unless they were gone, ...
BatchCovers ==
    \A w \in Workers : stage[w] # "none" =>
        \A j \in held[w] : status[j] # "absent" /\ EventOf[j] \in batch[w] \cup gone

\* ... and once its tasks are closed no row of it that may run has an open one.
ConvergedIsClosed ==
    \A w \in Workers : stage[w] = "converged" =>
        \A j \in held[w] : status[j] \in {"pending", "running"} => task[EventOf[j]] # "pending"

SpareInv ==
    /\ OpenIsUnfinished
    /\ DoomedIsDead
    /\ RetryKeepsEvent
    /\ BatchCovers
    /\ ConvergedIsClosed

\* Every event is worked on in sequential, bounded rounds.
startedRounds == [e \in Events |-> IF Known(e) THEN 1 + taskAttempts[e] ELSE 0]
openRounds    == [e \in Events |-> HasActiveJob(e)]

Rounds == INSTANCE RetryRounds
            WITH LegacyEvents <- {e \in Events : Original(e) \in LegacyDead},
                 rounds <- startedRounds, open <- openRounds

ImplementsRounds == Rounds!RoundsSpec

\* Every ingested event comes to rest: no job that may run and no retry
\* outstanding, for ever after.
Settled(e) == ~ HasActiveJob(e) /\ task[e] # "pending"

EveryEventSettles == \A e \in Events : Known(e) ~> []Settled(e)

\* The docstring of handle_failed_extractions and docs/CHANGELOG.md: an
\* event whose job used up its attempts on HTTP 429 goes to the deferred
\* queue.  A crash between fail_jobs and the registration breaks it.
RateLimitIsDeferred ==
    \A e \in Events :
        (\E j \in JobsOf(e) : status[j] = "dead" /\ lastError[j] = "rate") ~> task[e] # "absent"

\* docs/CHANGELOG.md: a deferred event is given up after the last of its
\* retries was answered 429, or because its own job died of another error.
\* A worker that lost part of its window breaks it.
AbandonedForItsOwnFailure ==
    \A e \in Events :
        task[e] = "abandoned" =>
            \/ taskAttempts[e] = MaxDeferred
            \/ e \in gone
            \/ \E j \in JobsOf(e) : status[j] = "dead" /\ lastError[j] = "other"
=============================================================================
