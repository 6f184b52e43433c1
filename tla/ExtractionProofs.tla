-------------------------- MODULE ExtractionProofs --------------------------
(***************************************************************************)
(* Proofs about ExtractionPipeline, for every value of its constants: the  *)
(* pipeline drives the queue only through the queue's own steps, so what   *)
(* JobQueueProofs proves of the queue holds of the pipeline; an event has  *)
(* one active job at a time, every retry is counted, and the work on it    *)
(* comes in the bounded rounds of RetryRounds.                             *)
(***************************************************************************)
EXTENDS ExtractionPipeline, JobQueueProofs

LEMMA RunStepIsQueueStep ==
    ASSUME NEW w \in Workers, RunStep(w)
    PROVE  WorkerStep(w) \/ UNCHANGED queueVars
<1>1. CASE LeaseWindow(w)  BY <1>1 DEF LeaseWindow, WorkerStep
<1>2. CASE Prepare(w)  BY <1>2 DEF Prepare, WorkerStep
<1>3. CASE Beat(w)  BY <1>3 DEF Beat, WorkerStep
<1>4. CASE ReadEvents(w)  BY <1>4 DEF ReadEvents, WorkerStep
<1>5. CASE StoreClaim(w)  BY <1>5 DEF StoreClaim
<1>6. CASE ReportWrites(w)  BY <1>6 DEF ReportWrites, WorkerStep
<1>7. CASE ExtractionReturns(w)  BY <1>7 DEF ExtractionReturns, WorkerStep
<1>8. CASE ProviderRejects(w)  BY <1>8 DEF ProviderRejects, WorkerStep
<1>9. CASE ExtractionFails(w)  BY <1>9 DEF ExtractionFails, WorkerStep
<1>10. CASE ConvergeTasks(w)  BY <1>10 DEF ConvergeTasks
<1>11. CASE ConvergeSwallowed(w)  BY <1>11 DEF ConvergeSwallowed
<1>12. CASE StatementFails(w)  BY <1>12 DEF StatementFails, WorkerStep
<1>13. CASE CompleteWindow(w)  BY <1>13 DEF CompleteWindow, CompleteAfter, WorkerStep
<1>14. CASE FailWindow(w)  BY <1>14 DEF FailWindow, WorkerStep
<1>15. CASE ReadDoomed(w)  BY <1>15 DEF ReadDoomed, WorkerStep
<1>16. CASE DeferRetry(w)  BY <1>16 DEF DeferRetry, DeferOrClose
<1>17. CASE AbandonDoomed(w)  BY <1>17 DEF AbandonDoomed, CloseDoomed
<1>18. CASE RegistrationSwallowed(w)  BY <1>18 DEF RegistrationSwallowed
<1>19. CASE ReturnWindow(w)  BY <1>19 DEF ReturnWindow, WorkerStep
<1>20. CASE CrashWorker(w)  BY <1>20 DEF CrashWorker, WorkerStep
<1> QED
  BY <1>1, <1>2, <1>3, <1>4, <1>5, <1>6, <1>7, <1>8, <1>9, <1>10, <1>11, <1>12, <1>13, <1>14,
     <1>15, <1>16, <1>17, <1>18, <1>19, <1>20 DEF RunStep

\* An active job is one that may run.
Active == {"pending", "running"}

\* A queue step that inserts no row makes no job active that was not.
Calm ==
    \A j \in Jobs :
        /\ status'[j] = "absent" <=> status[j] = "absent"
        /\ status'[j] \in Active => status[j] \in Active

LEMMA WorkerIsCalm ==
    ASSUME QueueTypeOK, NEW w \in Workers, WorkerStep(w)
    PROVE  Calm
<1>1. CASE LeaseJob(w)
  <2>1. PICK c \in Eligible :
          status' = [j \in Jobs |-> IF j \in Window(c) THEN "running" ELSE status[j]]
    BY <1>1 DEF LeaseJob
  <2>2. \A j \in Window(c) : status[j] \in Active
    BY WindowIsEligible DEF Eligible, Active
  <2> QED BY <2>1, <2>2 DEF Calm, Active
<1>2. CASE CompleteJobs(w)
  BY <1>2 DEF CompleteJobs, Owned, Calm, Active
<1>3. CASE FailJobs(w)
  BY <1>3 DEF FailJobs, FailRows, Owned, Calm, Active
<1>4. CASE UNCHANGED status
  BY <1>4 DEF Calm
<1> QED
  BY <1>1, <1>2, <1>3, <1>4
  DEF WorkerStep, RenewBeforeDispatch, ReportLeased, Heartbeat, DispatchReturns, DispatchFails,
      StatementRaises, ReadOutcome, ReturnFailed, Crash, rowVars

\* What a step of the pipeline may do to the jobs and the attempts of the
\* tasks: insert the first job of an event, insert one retry and count it, or
\* neither.
Scheduled(e) ==
    /\ task[e] = "pending"
    /\ taskAttempts[e] < MaxDeferred
    /\ ~ HasActiveJob(e)
    /\ Enqueue(Retry(e, taskAttempts[e] + 1))
    /\ taskAttempts' = [taskAttempts EXCEPT ![e] = taskAttempts[e] + 1]

Quiet ==
    /\ [QueueNext]_queueVars
    /\ Calm
    /\ UNCHANGED taskAttempts

LEMMA UnchangedIsCalm == UNCHANGED queueVars => Calm
BY DEF queueVars, rowVars, Calm

LEMMA RunStepIsQuiet ==
    ASSUME QueueTypeOK, NEW w \in Workers, RunStep(w)
    PROVE  Quiet
<1>1. UNCHANGED taskAttempts
  BY DEF RunStep, LeaseWindow, Prepare, Beat, ReadEvents, StoreClaim, ReportWrites,
         ExtractionReturns, ProviderRejects, ExtractionFails, ConvergeTasks, ConvergeSwallowed,
         StatementFails, CompleteWindow, CompleteAfter, FailWindow, ReadDoomed, DeferRetry,
         DeferOrClose, AbandonDoomed, CloseDoomed, RegistrationSwallowed, ReturnWindow,
         CrashWorker, pipeVars, taskVars
<1>2. WorkerStep(w) \/ UNCHANGED queueVars
  BY RunStepIsQueueStep
<1> QED BY <1>1, <1>2, WorkerIsCalm, UnchangedIsCalm DEF Quiet, QueueNext

\* A retry is inserted only with the attempt number that follows the table's:
\* an older number has its job already.
LEMMA ScheduleIsNext ==
    ASSUME PipeInv, NEW w \in Workers, ScheduleRetry(w)
    PROVE  (\E e \in Events : Scheduled(e)) \/ (UNCHANGED queueVars /\ UNCHANGED taskAttempts)
<1> DEFINE e == maint[w].event
           n == maint[w].seen + 1
<1>1. maint[w] \in Work /\ e \in Events /\ maint[w].seen \in Nat
  BY DEF ScheduleRetry, PutDown, Work, NoWork, PipeInv, TypeOK
<1>2. CASE MaySchedule(e, n)
  <2>1. taskAttempts[e] \in 0..MaxDeferred /\ taskAttempts[e] < MaxDeferred
    BY <1>1, <1>2 DEF MaySchedule, PipeInv, TypeOK
  <2>2. maint[w].seen <= taskAttempts[e]
    BY DEF ScheduleRetry, PutDown, PipeInv, SeenIsPast
  <2>3. n \in 1..MaxDeferred
    BY <1>1, <2>1, <2>2, PipelineAssumption
  <2>4. ~ (n <= taskAttempts[e])
    BY <1>1, <1>2, <2>3 DEF MaySchedule, PipeInv, RetryAccounting
  <2>5. n = taskAttempts[e] + 1
    BY <1>1, <2>1, <2>2, <2>4
  <2>6. Enqueue(Retry(e, n)) /\ taskAttempts' = [taskAttempts EXCEPT ![e] = taskAttempts[e] + 1]
    BY <1>2 DEF ScheduleRetry
  <2> HIDE DEF e, n
  <2> QED BY <1>1, <1>2, <2>5, <2>6 DEF MaySchedule, Scheduled
<1>3. CASE ~ MaySchedule(e, n)
  BY <1>3 DEF ScheduleRetry, taskVars
<1> QED BY <1>2, <1>3

LEMMA MaintenanceEffect ==
    ASSUME PipeInv, NEW w \in Workers, MaintenanceStep(w)
    PROVE  (\E e \in Events : Scheduled(e)) \/ Quiet
<1>1. CASE ScheduleRetry(w)
  BY <1>1, ScheduleIsNext, UnchangedIsCalm DEF Quiet
<1>2. CASE ~ ScheduleRetry(w)
  <2>1. UNCHANGED queueVars /\ UNCHANGED taskAttempts
    BY <1>2 DEF MaintenanceStep, AbandonExhausted, RegisterLegacy, ScanExhausted, ScanFrom,
                ScanDue, AbandonMissing, ScanLegacy, TakeUp, taskVars
  <2> QED BY <2>1, UnchangedIsCalm DEF Quiet
<1> QED BY <1>1, <1>2

\* Every step of the pipeline has one of the three effects.
LEMMA StepEffect ==
    ASSUME PipeInv, [Next]_vars
    PROVE  \/ \E e \in Events : Ingest(e)
           \/ \E e \in Events : Scheduled(e)
           \/ Quiet
<1> USE DEF PipeInv, TypeOK
<1>1. ASSUME NEW e \in Events, ForgetClaims(e) \/ PurgeEvent(e) PROVE Quiet
  <2>1. DropEvent(e) \/ UNCHANGED queueVars
    BY <1>1 DEF ForgetClaims, PurgeEvent
  <2>2. UNCHANGED taskAttempts
    BY <1>1 DEF ForgetClaims, PurgeEvent, pipeVars, taskVars
  <2> QED BY <2>1, <2>2, UnchangedIsCalm DEF Quiet, QueueNext, DropEvent, rowVars, Calm
<1>2. ASSUME NEW w \in Workers, RunStep(w) PROVE Quiet
  BY <1>2, RunStepIsQuiet
<1>3. ASSUME NEW w \in Workers, MaintenanceStep(w)
      PROVE  (\E e \in Events : Scheduled(e)) \/ Quiet
  BY <1>3, MaintenanceEffect
<1>4. CASE LeaseClock
  BY <1>4 DEF LeaseClock, OrphanedLeaseExpires, LiveLeaseExpires, pipeVars, taskVars, Quiet,
              QueueNext, Calm
<1>5. CASE UNCHANGED vars
  BY <1>5, UnchangedIsCalm DEF vars, pipeVars, taskVars, Quiet
<1> QED BY <1>1, <1>2, <1>3, <1>4, <1>5 DEF Next

LEMMA JobsOfEvent ==
    ASSUME NEW e \in Events, NEW n \in 0..MaxDeferred
    PROVE  <<e, n>> \in Jobs /\ EventOf[<<e, n>>] = e
BY PipelineAssumption

LEMMA OriginalIsJob ==
    ASSUME NEW e \in Events
    PROVE  Original(e) \in Jobs /\ EventOf[Original(e)] = e
BY JobsOfEvent, PipelineAssumption DEF Original

LEMMA RetryIsJob ==
    ASSUME NEW e \in Events, NEW n \in 1..MaxDeferred
    PROVE  /\ Retry(e, n) \in Jobs
           /\ Retry(e, n) # Original(e)
           /\ \A f \in Events : Retry(e, n) # Original(f)
           /\ \A f \in Events, m \in 1..MaxDeferred : Retry(f, m) = Retry(e, n) <=> f = e /\ m = n
<1>1. n \in 0..MaxDeferred /\ n # 0
  BY PipelineAssumption
<1> QED BY <1>1, JobsOfEvent DEF Retry, Original

\* The pipeline's steps are steps of the queue.
LEMMA StepIsQueueStep ==
    ASSUME PipeInv, [Next]_vars
    PROVE  [QueueNext]_queueVars
<1>1. ASSUME NEW e \in Events, Ingest(e) PROVE QueueNext
  BY <1>1, OriginalIsJob DEF Ingest, QueueNext
<1>2. ASSUME NEW e \in Events, Scheduled(e) PROVE QueueNext
  <2>1. taskAttempts[e] + 1 \in 0..MaxDeferred
    BY <1>2, PipelineAssumption DEF Scheduled, PipeInv, TypeOK
  <2>2. Retry(e, taskAttempts[e] + 1) \in Jobs
    BY <2>1, JobsOfEvent DEF Retry
  <2> QED BY <1>2, <2>2 DEF Scheduled, QueueNext
<1> QED BY <1>1, <1>2, StepEffect DEF Quiet

\* Jobs do not vanish: an event once known stays known.
LEMMA KnownStays ==
    ASSUME PipeInv, [Next]_vars, NEW j \in Jobs, status[j] # "absent"
    PROVE  status'[j] # "absent"
<1>1. ASSUME NEW i \in Jobs, Enqueue(i) PROVE status'[j] # "absent"
  BY <1>1 DEF Enqueue, PipeInv, TypeOK, QueueTypeOK
<1>2. ASSUME NEW e \in Events, Ingest(e) PROVE status'[j] # "absent"
  BY <1>1, <1>2, OriginalIsJob DEF Ingest
<1>3. ASSUME NEW e \in Events, Scheduled(e) PROVE status'[j] # "absent"
  <2>1. taskAttempts[e] + 1 \in 0..MaxDeferred
    BY <1>3, PipelineAssumption DEF Scheduled, PipeInv, TypeOK
  <2>2. Retry(e, taskAttempts[e] + 1) \in Jobs
    BY <2>1, JobsOfEvent DEF Retry
  <2> QED BY <1>1, <1>3, <2>2 DEF Scheduled
<1>4. CASE Quiet
  BY <1>4 DEF Quiet, Calm
<1> QED BY <1>2, <1>3, <1>4, StepEffect

-----------------------------------------------------------------------------
(***************************************************************************)
(* Jobs and attempts: one active job per event, every retry counted        *)
(***************************************************************************)
\* What a newly inserted job changes.
LEMMA EnqueueChanges ==
    ASSUME QueueTypeOK, NEW i \in Jobs, Enqueue(i)
    PROVE  /\ status[i] = "absent" /\ status'[i] = "pending"
           /\ \A j \in Jobs : j # i => status'[j] = status[j]
BY DEF Enqueue, QueueTypeOK

LEMMA JobsStep ==
    ASSUME PipeInv, [Next]_vars
    PROVE  /\ \A j \in Jobs : status'[j] # "absent" => Known(EventOf[j])'
           /\ OneActiveJob'
           /\ \A e \in Events, n \in 1..MaxDeferred :
                 status'[Retry(e, n)] # "absent" <=> n <= taskAttempts'[e]
<1> USE DEF Active
<1>0. QueueTypeOK
  BY DEF PipeInv, TypeOK
<1>1. CASE \E e \in Events : Ingest(e)
  <2>1. PICK e \in Events : Ingest(e)
    BY <1>1
  <2>2. /\ Original(e) \in Jobs /\ EventOf[Original(e)] = e
        /\ status[Original(e)] = "absent" /\ status'[Original(e)] = "pending"
        /\ \A j \in Jobs : j # Original(e) => status'[j] = status[j]
        /\ taskAttempts' = taskAttempts
    BY <1>0, <2>1, OriginalIsJob, EnqueueChanges DEF Ingest, pipeVars, taskVars
  <2>3. \A j \in Jobs : EventOf[j] = e => status[j] = "absent"
    BY <2>2 DEF PipeInv, KnownFirst, Known
  <2>4. \A j \in Jobs : status'[j] # "absent" => Known(EventOf[j])'
    <3> SUFFICES ASSUME NEW j \in Jobs, status'[j] # "absent" PROVE status'[Original(EventOf[j])] # "absent"
      BY DEF Known
    <3>1. CASE j = Original(e)
      BY <2>2, <3>1
    <3>2. CASE j # Original(e)
      <4>1. status[j] # "absent"
        BY <2>2, <3>2
      <4>2. EventOf[j] # e /\ EventOf[j] \in Events
        BY <2>3, <4>1, QueueAssumption
      <4>3. Original(EventOf[j]) \in Jobs /\ Original(EventOf[j]) # Original(e)
        BY <4>2, OriginalIsJob DEF Original
      <4> QED BY <2>2, <4>1, <4>3 DEF PipeInv, KnownFirst, Known
    <3> QED BY <3>1, <3>2
  <2>5. OneActiveJob'
    BY <2>2, <2>3 DEF PipeInv, OneActiveJob, JobsOf
  <2>6. \A f \in Events, n \in 1..MaxDeferred :
            Retry(f, n) \in Jobs /\ Retry(f, n) # Original(e)
    BY <2>1, RetryIsJob
  <2>7. \A f \in Events, n \in 1..MaxDeferred :
            status'[Retry(f, n)] # "absent" <=> n <= taskAttempts'[f]
    BY <2>2, <2>6 DEF PipeInv, RetryAccounting
  <2> QED BY <2>4, <2>5, <2>7
<1>2. CASE \E e \in Events : Scheduled(e)
  <2>1. PICK e \in Events : Scheduled(e)
    BY <1>2
  <2> DEFINE n == taskAttempts[e] + 1
             r == Retry(e, n)
  <2>2. taskAttempts[e] \in 0..MaxDeferred /\ n \in 1..MaxDeferred
    BY <2>1, PipelineAssumption DEF Scheduled, PipeInv, TypeOK
  <2>3. r \in Jobs /\ EventOf[r] = e
    BY <2>2, JobsOfEvent DEF Retry
  <2>4. /\ status[r] = "absent" /\ status'[r] = "pending"
        /\ \A j \in Jobs : j # r => status'[j] = status[j]
    BY <1>0, <2>1, <2>3, EnqueueChanges DEF Scheduled
  <2>5. \A j \in Jobs : EventOf[j] = e => status[j] \notin Active
    BY <2>1 DEF Scheduled, HasActiveJob, JobsOf
  <2>6. Known(e)
    BY <2>1 DEF Scheduled, PipeInv, KnownFirst
  <2>7. \A j \in Jobs : status'[j] # "absent" => Known(EventOf[j])'
    <3> SUFFICES ASSUME NEW j \in Jobs, status'[j] # "absent" PROVE status'[Original(EventOf[j])] # "absent"
      BY DEF Known
    <3>1. EventOf[j] \in Events
      BY QueueAssumption
    <3>2. status[Original(EventOf[j])] # "absent"
      BY <2>3, <2>4, <2>6 DEF Known, PipeInv, KnownFirst
    <3> QED BY <3>1, <3>2, OriginalIsJob, KnownStays
  <2>8. OneActiveJob'
    BY <2>3, <2>4, <2>5 DEF PipeInv, OneActiveJob, JobsOf
  <2>9. \A f \in Events, m \in 1..MaxDeferred :
            /\ Retry(f, m) \in Jobs
            /\ Retry(f, m) = r <=> f = e /\ m = n
    <3> SUFFICES ASSUME NEW f \in Events, NEW m \in 1..MaxDeferred
                 PROVE  /\ Retry(f, m) \in Jobs
                        /\ Retry(f, m) = Retry(e, n) <=> f = e /\ m = n
      OBVIOUS
    <3> HIDE DEF n
    <3> QED BY <2>2, RetryIsJob
  <2>10. \A f \in Events : taskAttempts'[f] = IF f = e THEN n ELSE taskAttempts[f]
    BY <2>1 DEF Scheduled, PipeInv, TypeOK
  <2>11. ASSUME NEW f \in Events, NEW m \in 1..MaxDeferred
         PROVE  status'[Retry(f, m)] # "absent" <=> m <= taskAttempts'[f]
    <3>1. status[Retry(f, m)] # "absent" <=> m <= taskAttempts[f]
      BY DEF PipeInv, RetryAccounting
    <3>2. CASE f = e /\ m = n
      BY <2>2, <2>4, <2>10, <3>2
    <3>3. CASE f = e /\ m # n
      BY <2>2, <2>4, <2>9, <2>10, <3>1, <3>3
    <3>4. CASE f # e
      BY <2>4, <2>9, <2>10, <3>1, <3>4
    <3> QED BY <3>2, <3>3, <3>4
  <2> QED BY <2>7, <2>8, <2>11
<1>3. CASE Quiet
  <2>1. /\ \A j \in Jobs :
              /\ status'[j] = "absent" <=> status[j] = "absent"
              /\ status'[j] \in Active => status[j] \in Active
        /\ taskAttempts' = taskAttempts
    BY <1>3 DEF Quiet, Calm
  <2>2. \A j \in Jobs : Original(EventOf[j]) \in Jobs
    BY OriginalIsJob, QueueAssumption
  <2>3. \A f \in Events, n \in 1..MaxDeferred : Retry(f, n) \in Jobs
    BY RetryIsJob
  <2>4. \A j \in Jobs : status'[j] # "absent" => Known(EventOf[j])'
    BY <2>1, <2>2 DEF PipeInv, KnownFirst, Known
  <2>5. OneActiveJob'
    BY <2>1 DEF PipeInv, OneActiveJob, JobsOf
  <2>6. \A f \in Events, n \in 1..MaxDeferred :
            status'[Retry(f, n)] # "absent" <=> n <= taskAttempts'[f]
    BY <2>1, <2>3 DEF PipeInv, RetryAccounting
  <2> QED BY <2>4, <2>5, <2>6
<1> QED BY <1>1, <1>2, <1>3, StepEffect

-----------------------------------------------------------------------------
(***************************************************************************)
(* Tasks, evidence and what the workers keep in memory                     *)
(***************************************************************************)
LEMMA RunTypes ==
    ASSUME PipeInv, QueueTypeOK', NEW w \in Workers, RunStep(w)
    PROVE  TypeOK'
<1> USE DEF PipeInv, TypeOK, Stages, Causes, pipeVars, taskVars, runVars
<1>1. CASE LeaseWindow(w)
  <2>1. {EventOf[j] : j \in held'[w]} \subseteq Events
    BY QueueAssumption DEF QueueTypeOK
  <2> QED BY <1>1, <2>1 DEF LeaseWindow
<1>2. CASE Prepare(w)  BY <1>2 DEF Prepare
<1>3. CASE Beat(w)  BY <1>3 DEF Beat
<1>4. CASE ReadEvents(w)  BY <1>4 DEF ReadEvents, SetStage
<1>5. CASE StoreClaim(w)  BY <1>5 DEF StoreClaim, SetStage
<1>6. CASE ReportWrites(w)  BY <1>6 DEF ReportWrites, SetStage
<1>7. CASE ExtractionReturns(w)  BY <1>7 DEF ExtractionReturns, SetStage
<1>8. CASE ProviderRejects(w)  BY <1>8 DEF ProviderRejects
<1>9. CASE ExtractionFails(w)  BY <1>9 DEF ExtractionFails
<1>10. CASE ConvergeTasks(w)  BY <1>10 DEF ConvergeTasks, FinishTasks, SetStage
<1>11. CASE ConvergeSwallowed(w)  BY <1>11 DEF ConvergeSwallowed, SetStage
<1>12. CASE StatementFails(w)  BY <1>12 DEF StatementFails
<1>13. CASE CompleteWindow(w)  BY <1>13 DEF CompleteWindow, CompleteAfter, ForgetRun
<1>14. CASE FailWindow(w)  BY <1>14 DEF FailWindow, ForgetRun
<1>15. CASE ReadDoomed(w)  BY <1>15 DEF ReadDoomed
<1>16. CASE DeferRetry(w)  BY <1>16 DEF DeferRetry, DeferOrClose
<1>17. CASE AbandonDoomed(w)  BY <1>17 DEF AbandonDoomed, CloseDoomed, FinishTasks
<1>18. CASE RegistrationSwallowed(w)  BY <1>18 DEF RegistrationSwallowed
<1>19. CASE ReturnWindow(w)  BY <1>19 DEF ReturnWindow, ForgetRun
<1>20. CASE CrashWorker(w)  BY <1>20 DEF CrashWorker, ForgetRun
<1> QED
  BY <1>1, <1>2, <1>3, <1>4, <1>5, <1>6, <1>7, <1>8, <1>9, <1>10, <1>11, <1>12, <1>13, <1>14,
     <1>15, <1>16, <1>17, <1>18, <1>19, <1>20 DEF RunStep

LEMMA MaintenanceTypes ==
    ASSUME PipeInv, QueueTypeOK', NEW w \in Workers, MaintenanceStep(w)
    PROVE  TypeOK'
<1> USE DEF PipeInv, TypeOK, taskVars, runVars
<1>1. CASE AbandonExhausted(w)
  BY <1>1 DEF AbandonExhausted, PutDown, FinishTasks
<1>2. CASE ScheduleRetry(w)
  BY <1>2, PipelineAssumption DEF ScheduleRetry, PutDown, MaySchedule
<1>3. CASE RegisterLegacy(w)
  BY <1>3 DEF RegisterLegacy, PutDown
<1>4. ASSUME NEW e \in Events, ScanExhausted(w, e) \/ ScanDue(w, e) \/ ScanLegacy(w, e)
      PROVE  TypeOK'
  <2>1. ASSUME NEW k \in {"expire", "retry", "legacy"}, NEW n \in 0..MaxDeferred,
               TakeUp(w, [kind |-> k, event |-> e, seen |-> n])
        PROVE  TypeOK'
    <3>1. [kind |-> k, event |-> e, seen |-> n] \in Work
      BY DEF Work
    <3> QED BY <2>1, <3>1 DEF TakeUp
  <2>2. taskAttempts[e] \in 0..MaxDeferred /\ 0 \in 0..MaxDeferred
    BY PipelineAssumption
  <2>3. CASE ScanExhausted(w, e)
    BY <2>1, <2>2, <2>3 DEF ScanExhausted, ScanFrom
  <2>4. CASE ScanDue(w, e)
    BY <2>1, <2>2, <2>4 DEF ScanDue
  <2>5. CASE ScanLegacy(w, e)
    BY <2>1, <2>2, <2>5 DEF ScanLegacy
  <2> QED BY <1>4, <2>3, <2>4, <2>5
<1>5. ASSUME NEW e \in Events, AbandonMissing(w, e) PROVE TypeOK'
  BY <1>5 DEF AbandonMissing, FinishTasks
<1> QED BY <1>1, <1>2, <1>3, <1>4, <1>5 DEF MaintenanceStep

LEMMA TypeStep ==
    ASSUME PipeInv, [Next]_vars
    PROVE  TypeOK'
<1>0. QueueTypeOK'
  BY StepIsQueueStep, StepInv DEF PipeInv, QueueInv
<1>1. ASSUME NEW e \in Events, Ingest(e) \/ ForgetClaims(e) \/ PurgeEvent(e) PROVE TypeOK'
  BY <1>0, <1>1 DEF Ingest, ForgetClaims, PurgeEvent, PipeInv, TypeOK, pipeVars, taskVars, runVars
<1>2. CASE LeaseClock \/ UNCHANGED vars
  BY <1>0, <1>2 DEF LeaseClock, vars, PipeInv, TypeOK, pipeVars, taskVars, runVars
<1> QED BY <1>0, <1>1, <1>2, RunTypes, MaintenanceTypes DEF Next

\* A task is registered, remembered or worked on only for a known event.
LEMMA KnownStep ==
    ASSUME PipeInv, [Next]_vars
    PROVE  /\ \A e \in Events : task'[e] # "absent" => Known(e)'
           /\ \A w \in Workers :
                 /\ \A e \in doomed'[w] : Known(e)'
                 /\ maint'[w].kind = "legacy" => Known(maint[w].event)'
<1> DEFINE Rest ==
             /\ \A e \in Events : task'[e] # "absent" => Known(e)
             /\ \A w \in Workers :
                   /\ \A e \in doomed'[w] : Known(e)
                   /\ maint'[w].kind = "legacy" => Known(maint'[w].event)
<1>0. TypeOK /\ KnownFirst /\ TypeOK'
  BY TypeStep DEF PipeInv
<1> USE <1>0 DEF TypeOK, KnownFirst, pipeVars, taskVars, runVars
<1>1. ASSUME NEW e \in Events, Ingest(e) \/ ForgetClaims(e) \/ PurgeEvent(e) PROVE Rest
  BY <1>1 DEF Ingest, ForgetClaims, PurgeEvent
<1>2. ASSUME NEW w \in Workers, RunStep(w) PROVE Rest
  <2>1. CASE ReadDoomed(w)
    <3>1. \A e \in doomed'[w] : Known(e)
      BY <2>1 DEF ReadDoomed, ReadOutcome, QueueTypeOK
    <3> QED BY <2>1, <3>1 DEF ReadDoomed
  <2>2. CASE DeferRetry(w)
    <3>1. PICK e \in doomed[w] :
            /\ \A f \in Events : f # e => task'[f] = task[f]
            /\ doomed' = [doomed EXCEPT ![w] = doomed[w] \ {e}]
            /\ maint' = maint
      BY <2>2 DEF DeferRetry, DeferOrClose
    <3> QED BY <3>1
  <2>3. CASE AbandonDoomed(w)
    BY <2>3 DEF AbandonDoomed, CloseDoomed, FinishTasks
  <2>4. CASE ConvergeTasks(w)
    BY <2>4 DEF ConvergeTasks, FinishTasks, SetStage
  <2>5. CASE RegistrationSwallowed(w)
    BY <2>5 DEF RegistrationSwallowed
  <2>6. CASE CrashWorker(w)
    BY <2>6 DEF CrashWorker, ForgetRun, NoWork
  <2>7. ASSUME task' = task, maint' = maint,
               \/ doomed' = doomed
               \/ doomed' = [doomed EXCEPT ![w] = {}]
        PROVE  Rest
    BY <2>7
  <2> QED
    BY <1>2, <2>1, <2>2, <2>3, <2>4, <2>5, <2>6, <2>7
    DEF RunStep, LeaseWindow, Prepare, Beat, ReadEvents, StoreClaim, ReportWrites,
        ExtractionReturns, ProviderRejects, ExtractionFails, ConvergeSwallowed,
        StatementFails, CompleteWindow, CompleteAfter, FailWindow, ReturnWindow, SetStage, ForgetRun
<1>3. ASSUME NEW w \in Workers, MaintenanceStep(w) PROVE Rest
  <2>1. CASE AbandonExhausted(w)
    BY <2>1 DEF AbandonExhausted, PutDown, FinishTasks, NoWork
  <2>2. CASE ScheduleRetry(w)
    BY <2>2 DEF ScheduleRetry, PutDown, NoWork
  <2>3. CASE RegisterLegacy(w)
    BY <2>3 DEF RegisterLegacy, PutDown, NoWork
  <2>4. ASSUME NEW e \in Events, ScanExhausted(w, e) \/ ScanDue(w, e) PROVE Rest
    BY <2>4 DEF ScanExhausted, ScanFrom, ScanDue, TakeUp
  <2>5. ASSUME NEW e \in Events, ScanLegacy(w, e) PROVE Rest
    <3>1. Known(e)
      BY <2>5 DEF ScanLegacy, JobsOf
    <3> QED BY <2>5, <3>1 DEF ScanLegacy, TakeUp
  <2>6. ASSUME NEW e \in Events, AbandonMissing(w, e) PROVE Rest
    BY <2>6 DEF AbandonMissing, FinishTasks
  <2> QED BY <1>3, <2>1, <2>2, <2>3, <2>4, <2>5, <2>6 DEF MaintenanceStep
<1>4. ASSUME LeaseClock \/ UNCHANGED vars PROVE Rest
  BY <1>4 DEF LeaseClock, vars
<1>5. Rest
  BY <1>1, <1>2, <1>3, <1>4 DEF Next
<1>6. \A e \in Events : Known(e) => Known(e)'
  BY KnownStays, OriginalIsJob DEF Known
<1>7. ASSUME NEW e \in Events, task'[e] # "absent" PROVE Known(e)'
  BY <1>5, <1>6, <1>7
<1>8. ASSUME NEW w \in Workers, NEW e \in doomed'[w] PROVE Known(e)'
  BY <1>5, <1>6, <1>8
<1>9. ASSUME NEW w \in Workers, maint'[w].kind = "legacy" PROVE Known(maint[w].event)'
  <2>1. maint'[w] \in Work
    BY <1>9 DEF NoWork
  <2>2. maint'[w].event \in Events
    BY <2>1 DEF Work
  <2>3. Known(maint'[w].event)
    BY <1>5, <1>9
  <2>4. status[Original(maint'[w].event)] # "absent" /\ Original(maint'[w].event) \in Jobs
    BY <2>2, <2>3, OriginalIsJob DEF Known
  <2> QED BY <2>4, KnownStays DEF Known
<1> QED BY <1>7, <1>8, <1>9

\* A task row does not vanish, and only an extraction that returned for an
\* event, or finds it served already, closes its task as completed.
LEMMA TaskStep ==
    ASSUME PipeInv, [Next]_vars
    PROVE  /\ \A e \in Events : task[e] # "absent" => task'[e] # "absent"
           /\ ConvergedWasServed'
           /\ ExtractedIsServed'
<1> DEFINE Good ==
             /\ \A e \in Events : task[e] # "absent" => task'[e] # "absent"
             /\ \A e \in Events : task'[e] = "completed" => e \in served'
             /\ \A v \in Workers : stage'[v] = "extracted" => batch'[v] \subseteq served'
<1>0. TypeOK /\ ConvergedWasServed /\ ExtractedIsServed
  BY DEF PipeInv
<1> USE <1>0 DEF TypeOK, ConvergedWasServed, ExtractedIsServed, pipeVars, taskVars, runVars
<1>1. ASSUME NEW e \in Events, Ingest(e) \/ ForgetClaims(e) \/ PurgeEvent(e) PROVE Good
  BY <1>1 DEF Ingest, ForgetClaims, PurgeEvent
<1>2. ASSUME NEW w \in Workers, RunStep(w) PROVE Good
  <2>1. CASE ExtractionReturns(w)
    BY <2>1 DEF ExtractionReturns, SetStage
  <2>2. CASE ConvergeTasks(w)
    BY <2>2 DEF ConvergeTasks, FinishTasks, SetStage
  <2>3. CASE DeferRetry(w)
    <3>1. PICK e \in doomed[w] :
            /\ task' = [task EXCEPT ![e] =
                          CASE task[e] = "absent" -> "pending"
                            [] task[e] = "pending" /\ taskAttempts[e] >= MaxDeferred -> "abandoned"
                            [] OTHER -> task[e]]
            /\ UNCHANGED <<served, stage, batch>>
      BY <2>3 DEF DeferRetry, DeferOrClose
    <3>2. task'[e] \in {"pending", "abandoned", task[e]} /\ (task[e] # "absent" => task'[e] # "absent")
      BY <3>1
    <3>3. \A f \in Events : f # e => task'[f] = task[f]
      BY <3>1
    <3> QED BY <3>1, <3>2, <3>3
  <2>4. CASE AbandonDoomed(w)
    BY <2>4 DEF AbandonDoomed, CloseDoomed, FinishTasks
  <2>5. CASE LeaseWindow(w)
    BY <2>5 DEF LeaseWindow
  <2>6. ASSUME task' = task, served' = served,
               \/ UNCHANGED <<stage, batch>>
               \/ ForgetRun(w)
               \/ \E s \in Stages \ {"extracted"} : SetStage(w, s)
        PROVE  Good
    BY <2>6 DEF ForgetRun, SetStage
  <2>7. CASE ReadEvents(w) \/ StoreClaim(w) \/ ReportWrites(w) \/ ConvergeSwallowed(w)
    <3>1. \A s \in {"clean", "unreported", "converged"} : s \in Stages \ {"extracted"}
      BY DEF Stages
    <3> HIDE DEF Good
    <3> QED BY <2>6, <2>7, <3>1 DEF ReadEvents, StoreClaim, ReportWrites, ConvergeSwallowed
  <2>8. CASE CompleteWindow(w) \/ FailWindow(w) \/ ReturnWindow(w) \/ CrashWorker(w)
    <3> HIDE DEF Good
    <3> QED BY <2>6, <2>8 DEF CompleteWindow, CompleteAfter, FailWindow, ReturnWindow, CrashWorker
  <2>9. CASE \/ Prepare(w) \/ Beat(w) \/ ProviderRejects(w) \/ ExtractionFails(w)
             \/ StatementFails(w) \/ ReadDoomed(w) \/ RegistrationSwallowed(w)
    <3> HIDE DEF Good
    <3> QED
      BY <2>6, <2>9 DEF Prepare, Beat, ProviderRejects, ExtractionFails, StatementFails,
                        ReadDoomed, RegistrationSwallowed
  <2> HIDE DEF Good
  <2> QED BY <1>2, <2>1, <2>2, <2>3, <2>4, <2>5, <2>7, <2>8, <2>9 DEF RunStep
<1>3. ASSUME NEW w \in Workers, MaintenanceStep(w) PROVE Good
  BY <1>3 DEF MaintenanceStep, AbandonExhausted, ScheduleRetry, RegisterLegacy, ScanExhausted,
              ScanFrom, ScanDue, AbandonMissing, ScanLegacy, TakeUp, PutDown, FinishTasks
<1>4. ASSUME LeaseClock \/ UNCHANGED vars PROVE Good
  BY <1>4 DEF LeaseClock, vars
<1>5. Good
  <2> HIDE DEF Good
  <2> QED BY <1>1, <1>2, <1>3, <1>4 DEF Next
<1> QED BY <1>5

\* Attempts are counted only for a task that exists, and only upwards.
LEMMA AttemptsStep ==
    ASSUME PipeInv, [Next]_vars
    PROVE  /\ \A e \in Events : taskAttempts[e] <= taskAttempts'[e]
           /\ \A e \in Events : task'[e] = "absent" => taskAttempts'[e] = 0
<1>1. ASSUME NEW e \in Events
      PROVE  \/ taskAttempts'[e] = taskAttempts[e]
             \/ task[e] # "absent" /\ taskAttempts'[e] = taskAttempts[e] + 1
  <2>1. CASE \E f \in Events : Ingest(f)
    BY <2>1 DEF Ingest, pipeVars, taskVars
  <2>2. CASE \E f \in Events : Scheduled(f)
    BY <2>2 DEF Scheduled, PipeInv, TypeOK
  <2>3. CASE Quiet
    BY <2>3 DEF Quiet
  <2> QED BY <2>1, <2>2, <2>3, StepEffect
<1>2. \A e \in Events : taskAttempts[e] \in Nat
  BY PipelineAssumption DEF PipeInv, TypeOK
<1> QED BY <1>1, <1>2, TaskStep DEF PipeInv, RetryAccounting

\* An attempt number read earlier is never ahead of the table's.
LEMMA SeenStep ==
    ASSUME PipeInv, [Next]_vars
    PROVE  SeenIsPast'
<1> SUFFICES ASSUME NEW w \in Workers, maint'[w].kind = "retry"
             PROVE  maint'[w].seen <= taskAttempts'[maint'[w].event]
  BY DEF SeenIsPast
<1>0. maint'[w].event \in Events /\ maint'[w].seen \in Nat
  BY TypeStep, PipelineAssumption DEF TypeOK, Work, NoWork
<1>1. \/ maint'[w] = maint[w]
      \/ maint'[w].seen = taskAttempts[maint'[w].event]
  <2>1. ASSUME NEW v \in Workers, MaintenanceStep(v)
        PROVE  \/ maint'[w] = maint[w]
               \/ maint'[w].seen = taskAttempts[maint'[w].event]
    <3>1. ASSUME NEW e \in Events, ScanDue(v, e)
          PROVE  \/ maint'[w] = maint[w]
                 \/ maint'[w].seen = taskAttempts[maint'[w].event]
      BY <3>1 DEF ScanDue, TakeUp, PipeInv, TypeOK
    <3>2. ASSUME NEW e \in Events, ScanExhausted(v, e) \/ ScanLegacy(v, e) \/ AbandonMissing(v, e)
          PROVE  maint'[w] = maint[w]
      BY <3>2 DEF ScanExhausted, ScanFrom, ScanLegacy, AbandonMissing, TakeUp, PipeInv, TypeOK
    <3>3. ASSUME AbandonExhausted(v) \/ ScheduleRetry(v) \/ RegisterLegacy(v)
          PROVE  maint'[w] = maint[w]
      BY <3>3 DEF AbandonExhausted, ScheduleRetry, RegisterLegacy, PutDown, NoWork, PipeInv, TypeOK
    <3> QED BY <2>1, <3>1, <3>2, <3>3 DEF MaintenanceStep
  <2>2. ASSUME NEW v \in Workers, RunStep(v) PROVE maint'[w] = maint[w]
    BY <2>2
    DEF RunStep, LeaseWindow, Prepare, Beat, ReadEvents, StoreClaim, ReportWrites,
        ExtractionReturns, ProviderRejects, ExtractionFails, ConvergeTasks, ConvergeSwallowed,
        StatementFails, CompleteWindow, CompleteAfter, FailWindow, ReadDoomed, DeferRetry,
        DeferOrClose, AbandonDoomed, CloseDoomed, RegistrationSwallowed, ReturnWindow,
        CrashWorker, pipeVars, PipeInv, TypeOK, NoWork
  <2>3. ASSUME NEW e \in Events, Ingest(e) \/ ForgetClaims(e) \/ PurgeEvent(e) PROVE maint' = maint
    BY <2>3 DEF Ingest, ForgetClaims, PurgeEvent, pipeVars
  <2>4. ASSUME LeaseClock \/ UNCHANGED vars PROVE maint' = maint
    BY <2>4 DEF LeaseClock, vars, pipeVars
  <2> QED BY <2>1, <2>2, <2>3, <2>4 DEF Next
<1>2. taskAttempts[maint'[w].event] <= taskAttempts'[maint'[w].event]
  BY <1>0, AttemptsStep
<1>3. CASE maint'[w] = maint[w]
  BY <1>0, <1>2, <1>3, TypeStep, PipelineAssumption DEF PipeInv, SeenIsPast, TypeOK
<1> QED BY <1>1, <1>2, <1>3

-----------------------------------------------------------------------------
(***************************************************************************)
(* The invariant, and what follows from it                                 *)
(***************************************************************************)
LEMMA PipeInit == Init => PipeInv
<1> SUFFICES ASSUME Init PROVE PipeInv
  OBVIOUS
<1>1. QueueInv
  BY InitInv DEF Init
<1>2. TypeOK
  BY <1>1, PipelineAssumption DEF QueueInv, QueueTypeOK, TypeOK, Init, Causes, Stages
<1>3. PICK old \in SUBSET LegacyDead :
        status = [j \in Jobs |-> IF j \in old THEN "dead" ELSE "absent"]
  BY DEF Init, QueueInit
<1>4. ASSUME NEW j \in Jobs, status[j] # "absent" PROVE j = Original(EventOf[j])
  <2>1. j \in LegacyDead
    BY <1>3, <1>4
  <2>2. PICK e \in Events : j = <<e, 0>>
    BY <2>1, PipelineAssumption
  <2>3. EventOf[j] = e
    BY <2>2, OriginalIsJob DEF Original
  <2> QED BY <2>2, <2>3 DEF Original
<1>5. KnownFirst
  BY <1>4 DEF KnownFirst, Known, Init, NoWork
<1>6. OneActiveJob
  BY <1>3 DEF OneActiveJob, JobsOf
<1>7. \A e \in Events, n \in 1..MaxDeferred : status[Retry(e, n)] = "absent"
  <2> SUFFICES ASSUME NEW e \in Events, NEW n \in 1..MaxDeferred, status[Retry(e, n)] # "absent"
               PROVE  FALSE
    OBVIOUS
  <2>1. Retry(e, n) = Original(EventOf[Retry(e, n)]) /\ EventOf[Retry(e, n)] \in Events
    BY <1>4, RetryIsJob, QueueAssumption
  <2> QED BY <2>1, RetryIsJob
<1>8. RetryAccounting
  BY <1>7, PipelineAssumption DEF RetryAccounting, Init
<1>9. SeenIsPast /\ ExtractedIsServed /\ ConvergedWasServed
  BY DEF SeenIsPast, ExtractedIsServed, ConvergedWasServed, Init, NoWork
<1> QED BY <1>1, <1>2, <1>5, <1>6, <1>8, <1>9 DEF PipeInv

LEMMA PipeStep == PipeInv /\ [Next]_vars => PipeInv'
<1> SUFFICES ASSUME PipeInv, [Next]_vars PROVE PipeInv'
  OBVIOUS
<1>1. QueueInv'
  BY StepIsQueueStep, StepInv DEF PipeInv
<1>2. KnownFirst'
  BY JobsStep, KnownStep DEF KnownFirst
<1>3. RetryAccounting'
  BY JobsStep, AttemptsStep DEF RetryAccounting
<1> QED BY <1>1, <1>2, <1>3, TypeStep, JobsStep, TaskStep, SeenStep DEF PipeInv

\* The inductive invariant holds in every state of the pipeline.
THEOREM PipelineInvariant == Spec => []PipeInv
BY PipeInit, PipeStep, PTL DEF Spec

\* No step leaves the ranges of the variables: no column gets a value that
\* the readers of its table do not know.
THEOREM PipelineTypes == Spec => []TypeOK
<1>1. PipeInv => TypeOK
  BY DEF PipeInv
<1> QED BY <1>1, PipelineInvariant, PTL

\* Two maintenance loops that read the same due task, a takeover, a crash:
\* an event never has two jobs that may run.
THEOREM OneJobAtATime == Spec => []OneActiveJob
<1>1. PipeInv => OneActiveJob
  BY DEF PipeInv
<1> QED BY <1>1, PipelineInvariant, PTL

\* A task's attempts are exactly the retry jobs inserted for it.
THEOREM RetriesAreCounted == Spec => []RetryAccounting
<1>1. PipeInv => RetryAccounting
  BY DEF PipeInv
<1> QED BY <1>1, PipelineInvariant, PTL

\* A task closed as completed belongs to an event some extraction returned for.
THEOREM CompletedIsServed == Spec => []ConvergedWasServed
<1>1. PipeInv => ConvergedWasServed
  BY DEF PipeInv
<1> QED BY <1>1, PipelineInvariant, PTL

\* The pipeline is built from steps of JobQueue, so what holds of the queue holds
\* in it.
LEMMA PipelineIsQueue == Spec => QueueSpec
<1>1. Init => QueueInit
  BY DEF Init
<1>2. PipeInv /\ [Next]_vars => [QueueNext]_queueVars
  BY StepIsQueueStep
<1> QED BY <1>1, <1>2, PipelineInvariant, PTL DEF Spec, QueueSpec

\* At the start the events of the old dead jobs have had their first round.
LEMMA InitStartsRounds == Init => Rounds!RoundsInit
<1> SUFFICES ASSUME Init PROVE Rounds!RoundsInit
  OBVIOUS
<1>1. PICK old \in SUBSET LegacyDead :
        status = [j \in Jobs |-> IF j \in old THEN "dead" ELSE "absent"]
  BY DEF Init, QueueInit
<1> DEFINE oldEvents == {e \in Events : Original(e) \in old}
<1>2. oldEvents \in SUBSET {e \in Events : Original(e) \in LegacyDead}
  OBVIOUS
<1>3. startedRounds = [e \in Events |-> IF e \in oldEvents THEN 1 ELSE 0]
  <2>1. \A e \in Events : Known(e) <=> e \in oldEvents
    BY <1>1, OriginalIsJob DEF Known
  <2> QED BY <2>1 DEF startedRounds, Init
<1>4. openRounds = [e \in Events |-> FALSE]
  BY <1>1 DEF openRounds, HasActiveJob, JobsOf
<1> HIDE DEF oldEvents
<1> QED BY <1>2, <1>3, <1>4 DEF Rounds!RoundsInit

LEMMA OneMoreRound ==
    ASSUME NEW e \in Events,
           startedRounds'[e] = startedRounds[e] + 1,
           \A f \in Events : f # e => startedRounds'[f] = startedRounds[f]
    PROVE  startedRounds' = [startedRounds EXCEPT ![e] = startedRounds[e] + 1]
<1>1. startedRounds = [f \in Events |-> startedRounds[f]]
  BY DEF startedRounds
<1>2. startedRounds' = [f \in Events |-> startedRounds'[f]]
  BY DEF startedRounds
<1> QED BY <1>1, <1>2

LEMMA IngestStartsRound ==
    ASSUME PipeInv, NEW e \in Events, Ingest(e)
    PROVE  Rounds!StartRound(e)
<1>1. /\ Original(e) \in Jobs /\ EventOf[Original(e)] = e
      /\ status[Original(e)] = "absent" /\ status'[Original(e)] = "pending"
      /\ \A j \in Jobs : j # Original(e) => status'[j] = status[j]
      /\ UNCHANGED <<task, taskAttempts>>
  BY OriginalIsJob, EnqueueChanges DEF Ingest, pipeVars, taskVars, PipeInv, TypeOK
<1>2. \A j \in Jobs : EventOf[j] = e => status[j] = "absent"
  BY <1>1 DEF PipeInv, KnownFirst, Known
<1>3. ~ Known(e) /\ Known(e)' /\ ~ HasActiveJob(e) /\ HasActiveJob(e)'
  BY <1>1, <1>2 DEF Known, HasActiveJob, JobsOf
<1>4. ASSUME NEW f \in Events, f # e
      PROVE  Known(f)' = Known(f) /\ HasActiveJob(f)' = HasActiveJob(f)
  <2>1. Original(f) \in Jobs /\ Original(f) # Original(e)
    BY <1>4, OriginalIsJob DEF Original
  <2>2. \A j \in JobsOf(f) : status'[j] = status[j]
    BY <1>1, <1>4 DEF JobsOf
  <2> QED BY <1>1, <2>1, <2>2 DEF Known, HasActiveJob, JobsOf
<1>5. taskAttempts[e] = 0
  BY <1>3 DEF PipeInv, KnownFirst, RetryAccounting
<1>6. startedRounds' = [startedRounds EXCEPT ![e] = startedRounds[e] + 1]
  <2>1. startedRounds[e] = 0 /\ startedRounds'[e] = 1
    BY <1>1, <1>3, <1>5 DEF startedRounds
  <2>2. \A f \in Events : f # e => startedRounds'[f] = startedRounds[f]
    BY <1>1, <1>4 DEF startedRounds
  <2> QED BY <2>1, <2>2, OneMoreRound
<1>7. openRounds' = [openRounds EXCEPT ![e] = TRUE]
  BY <1>3, <1>4 DEF openRounds
<1>8. ~ openRounds[e] /\ startedRounds[e] <= MaxDeferred
  BY <1>3, PipelineAssumption DEF openRounds, startedRounds
<1> QED BY <1>6, <1>7, <1>8 DEF Rounds!StartRound

LEMMA ScheduleStartsRound ==
    ASSUME PipeInv, NEW e \in Events, Scheduled(e)
    PROVE  Rounds!StartRound(e)
<1> DEFINE n == taskAttempts[e] + 1
           r == Retry(e, n)
<1>1. taskAttempts[e] \in 0..MaxDeferred /\ n \in 1..MaxDeferred
  BY PipelineAssumption DEF Scheduled, PipeInv, TypeOK
<1>2. /\ r \in Jobs /\ EventOf[r] = e
      /\ \A f \in Events : Original(f) # r
  <2> HIDE DEF n
  <2> QED BY <1>1, RetryIsJob, PipelineAssumption DEF Retry
<1>3. /\ status[r] = "absent" /\ status'[r] = "pending"
      /\ \A j \in Jobs : j # r => status'[j] = status[j]
  BY <1>2, EnqueueChanges DEF Scheduled, PipeInv, TypeOK
<1>4. Known(e) /\ ~ HasActiveJob(e) /\ HasActiveJob(e)'
  BY <1>2, <1>3 DEF Scheduled, PipeInv, KnownFirst, HasActiveJob, JobsOf
<1>5. \A f \in Events : Known(f)' = Known(f)
  BY <1>2, <1>3, OriginalIsJob DEF Known
<1>6. ASSUME NEW f \in Events, f # e PROVE HasActiveJob(f)' = HasActiveJob(f)
  <2>1. \A j \in JobsOf(f) : status'[j] = status[j]
    BY <1>2, <1>3, <1>6 DEF JobsOf
  <2> QED BY <2>1 DEF HasActiveJob, JobsOf
<1>7. taskAttempts' = [taskAttempts EXCEPT ![e] = n]
  BY DEF Scheduled
<1> HIDE DEF r
<1>8. startedRounds' = [startedRounds EXCEPT ![e] = startedRounds[e] + 1]
  <2>1. startedRounds[e] = 1 + taskAttempts[e]
    BY <1>4 DEF startedRounds
  <2>2. ASSUME NEW f \in Events
        PROVE  taskAttempts'[f] = IF f = e THEN taskAttempts[e] + 1 ELSE taskAttempts[f]
    BY <1>7 DEF PipeInv, TypeOK
  <2>3. startedRounds'[e] = 1 + (taskAttempts[e] + 1)
    BY <1>4, <1>5, <2>2 DEF startedRounds
  <2>4. \A f \in Events : f # e => startedRounds'[f] = startedRounds[f]
    BY <1>5, <2>2 DEF startedRounds
  <2>5. startedRounds'[e] = startedRounds[e] + 1
    BY <1>1, <2>1, <2>3
  <2> QED BY <2>4, <2>5, OneMoreRound
<1>9. openRounds' = [openRounds EXCEPT ![e] = TRUE]
  BY <1>4, <1>6 DEF openRounds
<1>10. ~ openRounds[e] /\ startedRounds[e] <= MaxDeferred
  BY <1>1, <1>4, PipelineAssumption DEF Scheduled, openRounds, startedRounds
<1> QED BY <1>8, <1>9, <1>10 DEF Rounds!StartRound

LEMMA QuietClosesRounds ==
    ASSUME PipeInv, Quiet
    PROVE  \E S \in SUBSET Events : Rounds!CloseRounds(S)
<1> DEFINE S == {e \in Events : HasActiveJob(e) /\ ~ HasActiveJob(e)'}
<1>1. \A e \in Events : HasActiveJob(e)' => HasActiveJob(e)
  BY DEF Quiet, Calm, Active, HasActiveJob, JobsOf
<1>2. \A e \in Events : Known(e)' = Known(e)
  BY OriginalIsJob DEF Quiet, Calm, Known
<1>3. startedRounds' = startedRounds
  BY <1>2 DEF startedRounds, Quiet
<1>4. openRounds' = [e \in Events |-> openRounds[e] /\ e \notin S]
  <2>1. \A e \in Events : HasActiveJob(e) \in BOOLEAN /\ HasActiveJob(e)' \in BOOLEAN
    BY DEF HasActiveJob
  <2>2. \A e \in Events : HasActiveJob(e)' = (HasActiveJob(e) /\ e \notin S)
    BY <1>1, <2>1
  <2> HIDE DEF S
  <2> QED BY <2>2 DEF openRounds
<1>5. S \in SUBSET Events /\ \A e \in S : openRounds[e]
  BY DEF openRounds
<1> HIDE DEF S
<1> QED BY <1>3, <1>4, <1>5 DEF Rounds!CloseRounds

\* The promise made for each event: rounds of work, one at a time, and at most
\* MaxDeferred after the first (deferred.py, deferred_tasks.py).
THEOREM PipelineImplementsRounds == Spec => ImplementsRounds
<1>1. PipeInv /\ [Next]_vars => [Rounds!RoundsNext]_(Rounds!roundVars)
  <2> SUFFICES ASSUME PipeInv, [Next]_vars PROVE Rounds!RoundsNext
    OBVIOUS
  <2>1. CASE \E e \in Events : Ingest(e)
    BY <2>1, IngestStartsRound DEF Rounds!RoundsNext
  <2>2. CASE \E e \in Events : Scheduled(e)
    BY <2>2, ScheduleStartsRound DEF Rounds!RoundsNext
  <2>3. CASE Quiet
    BY <2>3, QuietClosesRounds DEF Rounds!RoundsNext
  <2> QED BY <2>1, <2>2, <2>3, StepEffect
<1> QED
  BY <1>1, InitStartsRounds, PipelineInvariant, PTL
  DEF Spec, ImplementsRounds, Rounds!RoundsSpec

\* So every job of the pipeline keeps the contract of the queue.
THEOREM PipelineKeepsContract == Spec => ImplementsContract
BY PipelineIsQueue, QueueImplementsContract, PTL

-----------------------------------------------------------------------------
(***************************************************************************)
(* The scan for exhausted tasks spares events that were extracted          *)
(***************************************************************************)
\* Dead jobs stay dead.
LEMMA DeadStays ==
    ASSUME PipeInv, [Next]_vars, NEW j \in Jobs, status[j] = "dead"
    PROVE  status'[j] = "dead"
<1>0. QueueTypeOK
  BY DEF PipeInv, TypeOK
<1>1. [QueueNext]_queueVars
  BY StepIsQueueStep
<1>2. ASSUME NEW i \in Jobs, Enqueue(i) PROVE status'[j] = "dead"
  BY <1>0, <1>2, EnqueueChanges
<1>3. ASSUME NEW w \in Workers, WorkerStep(w) PROVE status'[j] = "dead"
  <2>1. CASE LeaseJob(w)
    <3>1. PICK c \in Eligible :
            status' = [i \in Jobs |-> IF i \in Window(c) THEN "running" ELSE status[i]]
      BY <2>1 DEF LeaseJob
    <3>2. j \notin Window(c)
      BY WindowIsEligible DEF Eligible
    <3> QED BY <3>1, <3>2
  <2>2. CASE CompleteJobs(w)
    BY <2>2 DEF CompleteJobs, Owned
  <2>3. CASE FailJobs(w)
    BY <2>3 DEF FailJobs, FailRows, Owned
  <2>4. CASE UNCHANGED status
    BY <2>4
  <2> QED
    BY <1>3, <2>1, <2>2, <2>3, <2>4
    DEF WorkerStep, RenewBeforeDispatch, ReportLeased, Heartbeat, DispatchReturns, DispatchFails,
        StatementRaises, ReadOutcome, ReturnFailed, Crash, rowVars
<1>4. ASSUME NEW t \in Tokens, OrphanedLeaseExpires(t) \/ LiveLeaseExpires(t)
      PROVE  status'[j] = "dead"
  BY <1>4 DEF OrphanedLeaseExpires, LiveLeaseExpires
<1>5. ASSUME NEW e \in Events, DropEvent(e) PROVE status'[j] = "dead"
  BY <1>5 DEF DropEvent, rowVars
<1>6. CASE UNCHANGED queueVars
  BY <1>6 DEF queueVars, rowVars
<1> QED BY <1>1, <1>2, <1>3, <1>4, <1>5, <1>6 DEF QueueNext

LEMMA DeadJobStays ==
    ASSUME PipeInv, [Next]_vars, NEW e \in Events, HasDeadJob(e)
    PROVE  HasDeadJob(e)'
BY DeadStays DEF HasDeadJob, JobsOf

\* Jobs succeed only after their window converged (run_once: complete_jobs comes
\* after complete_deferred_extractions).
LEMMA SuccessIsConverged ==
    ASSUME PipeInv, [Next]_vars, NEW j \in Jobs, status'[j] = "succeeded", status[j] # "succeeded"
    PROVE  \E w \in Workers : stage[w] = "converged" /\ j \in Owned(w)
<1>0. QueueTypeOK
  BY DEF PipeInv, TypeOK
<1>1. ASSUME NEW i \in Jobs, Enqueue(i) PROVE FALSE
  BY <1>0, <1>1, EnqueueChanges
<1>2. ASSUME NEW e \in Events, Scheduled(e) PROVE FALSE
  <2>1. taskAttempts[e] + 1 \in 0..MaxDeferred
    BY <1>2, PipelineAssumption DEF Scheduled, PipeInv, TypeOK
  <2>2. Retry(e, taskAttempts[e] + 1) \in Jobs
    BY <2>1, JobsOfEvent DEF Retry
  <2> QED BY <1>1, <1>2, <2>2 DEF Scheduled
<1>3. ASSUME UNCHANGED status PROVE FALSE
  BY <1>3
<1>4. ASSUME NEW w \in Workers, RunStep(w)
      PROVE  stage[w] = "converged" /\ j \in Owned(w)
  <2>1. CASE LeaseWindow(w)
    <3>1. PICK c \in Eligible :
            status' = [i \in Jobs |-> IF i \in Window(c) THEN "running" ELSE status[i]]
      BY <2>1 DEF LeaseWindow, LeaseJob
    <3> QED BY <3>1
  <2>2. CASE CompleteWindow(w)
    BY <2>2 DEF CompleteWindow, CompleteAfter, CompleteJobs
  <2>3. CASE FailWindow(w)
    BY <2>3 DEF FailWindow, FailJobs, FailRows
  <2>4. CASE UNCHANGED rowVars
    BY <1>3, <2>4 DEF rowVars
  <2>5. CASE Beat(w)
    BY <1>3, <2>5 DEF Beat, Heartbeat
  <2> QED
    BY <1>4, <2>1, <2>2, <2>3, <2>4, <2>5
    DEF RunStep, Prepare, RenewBeforeDispatch, ReportLeased, ReadEvents, StoreClaim, ReportWrites,
        ExtractionReturns, DispatchReturns, DispatchFails, ProviderRejects, ExtractionFails,
        ConvergeTasks, ConvergeSwallowed, StatementFails, StatementRaises, ReadDoomed,
        ReadOutcome, DeferRetry, DeferOrClose, AbandonDoomed, CloseDoomed,
        RegistrationSwallowed, ReturnWindow, ReturnFailed, CrashWorker, Crash, queueVars
<1>5. ASSUME NEW w \in Workers, MaintenanceStep(w) PROVE FALSE
  <2>1. CASE ScheduleRetry(w)
    BY <1>2, <1>3, <2>1, ScheduleIsNext DEF queueVars, rowVars
  <2>2. CASE ~ ScheduleRetry(w)
    BY <1>3, <1>5, <2>2
    DEF MaintenanceStep, AbandonExhausted, RegisterLegacy, ScanExhausted, ScanFrom, ScanDue,
        AbandonMissing, ScanLegacy, TakeUp, queueVars, rowVars
  <2> QED BY <2>1, <2>2
<1>6. ASSUME NEW e \in Events, Ingest(e) \/ ForgetClaims(e) \/ PurgeEvent(e) PROVE FALSE
  BY <1>1, <1>3, <1>6, OriginalIsJob
  DEF Ingest, ForgetClaims, PurgeEvent, DropEvent, queueVars, rowVars
<1>7. ASSUME LeaseClock \/ UNCHANGED vars PROVE FALSE
  BY <1>3, <1>7 DEF LeaseClock, OrphanedLeaseExpires, LiveLeaseExpires, vars, queueVars, rowVars
<1> QED BY <1>4, <1>5, <1>6, <1>7 DEF Next

\* A task is opened only for an event all of whose jobs are dead: without a task
\* there was no retry, so the dead job that was seen is the only one.
LEMMA OpenedIsDead ==
    ASSUME PipeInv, SpareInv, NEW e \in Events, task[e] = "absent", HasDeadJob(e)
    PROVE  \A j \in JobsOf(e) : status[j] \in {"absent", "dead"}
<1>1. taskAttempts[e] = 0
  BY DEF PipeInv, RetryAccounting
<1>2. \A n \in 1..MaxDeferred : status[Retry(e, n)] = "absent"
  BY <1>1 DEF PipeInv, RetryAccounting
<1>3. ASSUME NEW j \in JobsOf(e), j # Original(e) PROVE status[j] = "absent"
  <2>1. j \in Events \X (0..MaxDeferred) /\ j[1] = e
    BY PipelineAssumption DEF JobsOf
  <2>2. j = <<e, j[2]>> /\ j[2] \in 0..MaxDeferred
    BY <2>1
  <2>3. j[2] # 0
    BY <1>3, <2>2 DEF Original
  <2>4. j[2] \in 1..MaxDeferred
    BY <2>2, <2>3, PipelineAssumption
  <2>5. status[Retry(e, j[2])] = "absent" /\ Retry(e, j[2]) = j
    BY <1>2, <2>2, <2>4 DEF Retry
  <2> QED BY <2>5
<1>4. status[Original(e)] = "dead"
  BY <1>3 DEF HasDeadJob
<1> QED BY <1>3, <1>4

\* So a task that is pending after a step was pending before, or just opened.
Opened(e) ==
    /\ task[e] = "absent"
    /\ UNCHANGED queueVars
    /\ \A j \in JobsOf(e) : status[j] \in {"absent", "dead"}

LEMMA TaskOpens ==
    ASSUME PipeInv, SpareInv, [Next]_vars, NEW e \in Events, task'[e] = "pending"
    PROVE  task[e] = "pending" \/ Opened(e)
<1>0. task \in [Events -> {"absent", "pending", "completed", "abandoned"}]
      /\ doomed \in [Workers -> SUBSET Events]
  BY DEF PipeInv, TypeOK
<1>1. ASSUME NEW f \in Events, Ingest(f) \/ ForgetClaims(f) \/ PurgeEvent(f)
      PROVE  task'[e] = task[e]
  BY <1>1 DEF Ingest, ForgetClaims, PurgeEvent, pipeVars, taskVars
<1>2. ASSUME NEW w \in Workers, RunStep(w)
      PROVE  task[e] = "pending" \/ Opened(e)
  <2>1. CASE ConvergeTasks(w)
    BY <1>0, <2>1 DEF ConvergeTasks, FinishTasks
  <2>2. CASE DeferRetry(w)
    <3>1. PICK f \in doomed[w] :
            task' = [task EXCEPT ![f] =
                       CASE task[f] = "absent" -> "pending"
                         [] task[f] = "pending" /\ taskAttempts[f] >= MaxDeferred -> "abandoned"
                         [] OTHER -> task[f]]
      BY <2>2 DEF DeferRetry, DeferOrClose
    <3>2. UNCHANGED queueVars
      BY <2>2 DEF DeferRetry, DeferOrClose
    <3>3. CASE f # e
      BY <1>0, <3>1, <3>3
    <3>4. CASE f = e
      <4>1. task[e] \in {"absent", "pending"}
        BY <1>0, <3>1, <3>4
      <4>2. HasDeadJob(e)
        BY <3>1, <3>4 DEF SpareInv, DoomedIsDead
      <4> QED BY <3>2, <4>1, <4>2, OpenedIsDead DEF Opened
    <3> QED BY <3>3, <3>4
  <2>3. CASE AbandonDoomed(w)
    BY <1>0, <2>3 DEF AbandonDoomed, CloseDoomed, FinishTasks
  <2>4. CASE UNCHANGED task
    BY <2>4
  <2> QED
    BY <1>2, <2>1, <2>2, <2>3, <2>4
    DEF RunStep, LeaseWindow, Prepare, Beat, ReadEvents, StoreClaim, ReportWrites,
        ExtractionReturns, ProviderRejects, ExtractionFails, ConvergeSwallowed, StatementFails,
        CompleteWindow, CompleteAfter, FailWindow, ReadDoomed, RegistrationSwallowed,
        ReturnWindow, CrashWorker, pipeVars, taskVars
<1>3. ASSUME NEW w \in Workers, MaintenanceStep(w)
      PROVE  task[e] = "pending" \/ Opened(e)
  <2>1. CASE RegisterLegacy(w)
    <3> DEFINE f == maint[w].event
    <3>1. /\ task' = [task EXCEPT ![f] = IF task[f] = "absent" THEN "pending" ELSE task[f]]
          /\ UNCHANGED queueVars
          /\ maint[w].kind = "legacy"
      BY <2>1 DEF RegisterLegacy, PutDown
    <3>2. HasDeadJob(f)
      BY <3>1 DEF SpareInv, DoomedIsDead
    <3> HIDE DEF f
    <3>3. CASE f # e
      BY <1>0, <3>1, <3>3
    <3>4. CASE f = e
      <4>1. task[e] \in {"absent", "pending"}
        BY <1>0, <3>1, <3>4
      <4> QED BY <3>1, <3>2, <3>4, <4>1, OpenedIsDead DEF Opened
    <3> QED BY <3>3, <3>4
  <2>2. CASE AbandonExhausted(w) \/ \E f \in Events : AbandonMissing(w, f)
    BY <1>0, <2>2 DEF AbandonExhausted, AbandonMissing, FinishTasks
  <2>3. CASE UNCHANGED task
    BY <2>3
  <2> QED
    BY <1>3, <2>1, <2>2, <2>3
    DEF MaintenanceStep, ScheduleRetry, ScanExhausted, ScanFrom, ScanDue, ScanLegacy, TakeUp,
        taskVars
<1>4. ASSUME LeaseClock \/ UNCHANGED vars PROVE task'[e] = task[e]
  BY <1>4 DEF LeaseClock, vars, pipeVars, taskVars
<1> QED BY <1>1, <1>2, <1>3, <1>4 DEF Next

\* A job becomes active because it was, or by being inserted: for a new event, or
\* for a task that is still open and whose event is there.
LEMMA ActiveSource ==
    ASSUME PipeInv, SpareInv, [Next]_vars, NEW j \in Jobs, status'[j] \in Active
    PROVE  \/ status[j] \in Active
           \/ /\ status[j] = "absent"
              /\ UNCHANGED <<task, gone>>
              /\ task[EventOf[j]] = "pending" => EventOf[j] \notin gone
<1>0. QueueTypeOK
  BY DEF PipeInv, TypeOK
<1>1. ASSUME NEW e \in Events, Ingest(e)
      PROVE  \/ status[j] \in Active
             \/ /\ status[j] = "absent"
                /\ UNCHANGED <<task, gone>>
                /\ task[EventOf[j]] = "pending" => EventOf[j] \notin gone
  <2>1. /\ status[Original(e)] = "absent"
        /\ \A i \in Jobs : i # Original(e) => status'[i] = status[i]
        /\ EventOf[Original(e)] = e
        /\ UNCHANGED <<task, gone>>
    BY <1>0, <1>1, OriginalIsJob, EnqueueChanges DEF Ingest, Enqueue, pipeVars, taskVars
  <2>2. task[e] = "absent"
    BY <2>1 DEF PipeInv, KnownFirst, Known
  <2> QED BY <2>1, <2>2
<1>2. ASSUME NEW w \in Workers, ScheduleRetry(w)
      PROVE  \/ status[j] \in Active
             \/ /\ status[j] = "absent"
                /\ UNCHANGED <<task, gone>>
                /\ task[EventOf[j]] = "pending" => EventOf[j] \notin gone
  <2> DEFINE e == maint[w].event
             n == maint[w].seen + 1
  <2>1. CASE MaySchedule(e, n)
    <3>1. e \in Events /\ maint[w].seen \in 0..MaxDeferred /\ maint[w].kind = "retry"
      BY <1>2 DEF ScheduleRetry, PutDown, PipeInv, TypeOK, Work, NoWork
    <3>2. task[e] = "pending" /\ e \notin gone
      BY <2>1, <3>1 DEF MaySchedule, SpareInv, RetryKeepsEvent
    <3>3. Enqueue(Retry(e, n)) /\ UNCHANGED task
      BY <1>2, <2>1 DEF ScheduleRetry
    <3>4. status' = [status EXCEPT ![Retry(e, n)] = "pending"] /\ UNCHANGED gone
          /\ status[Retry(e, n)] = "absent"
      BY <3>3 DEF Enqueue
    <3> HIDE DEF e, n
    <3>5. CASE j = Retry(e, n)
      <4>1. EventOf[j] = e
        BY <3>5, PipelineAssumption DEF Retry
      <4> QED BY <3>2, <3>3, <3>4, <3>5, <4>1
    <3>6. CASE j # Retry(e, n)
      BY <1>0, <3>4, <3>6 DEF QueueTypeOK
    <3> QED BY <3>5, <3>6
  <2>2. CASE ~ MaySchedule(e, n)
    BY <1>2, <2>2 DEF ScheduleRetry, queueVars, rowVars
  <2> QED BY <2>1, <2>2
<1>3. CASE Quiet
  BY <1>3 DEF Quiet, Calm
<1>4. CASE \E w \in Workers : MaintenanceStep(w)
  <2>1. PICK w \in Workers : MaintenanceStep(w)
    BY <1>4
  <2>2. CASE ScheduleRetry(w)
    BY <1>2, <2>2
  <2>3. CASE ~ ScheduleRetry(w)
    <3>1. UNCHANGED queueVars
      BY <2>1, <2>3
      DEF MaintenanceStep, AbandonExhausted, RegisterLegacy, ScanExhausted, ScanFrom, ScanDue,
          AbandonMissing, ScanLegacy, TakeUp
    <3> QED BY <3>1 DEF queueVars, rowVars
  <2> QED BY <2>2, <2>3
<1>5. CASE ~ (\E w \in Workers : MaintenanceStep(w)) /\ ~ (\E e \in Events : Ingest(e))
  <2>1. ASSUME NEW e \in Events, ForgetClaims(e) \/ PurgeEvent(e) PROVE UNCHANGED status
    BY <2>1 DEF ForgetClaims, PurgeEvent, DropEvent, queueVars, rowVars
  <2>2. ASSUME NEW w \in Workers, RunStep(w) PROVE Quiet
    BY <1>0, <2>2, RunStepIsQuiet
  <2>3. ASSUME LeaseClock \/ UNCHANGED vars PROVE UNCHANGED status
    BY <2>3 DEF LeaseClock, OrphanedLeaseExpires, LiveLeaseExpires, vars, queueVars, rowVars
  <2> QED BY <1>3, <1>5, <2>1, <2>2, <2>3 DEF Next
<1> QED BY <1>1, <1>4, <1>5

\* An event is deleted only while no task of it is pending (delete_claim and
\* purge_retained_events look), and stays deleted.
LEMMA GoneStep ==
    ASSUME PipeInv, [Next]_vars
    PROVE  /\ gone \subseteq gone'
           /\ \A e \in gone' \ gone : task[e] # "pending" /\ task' = task
<1>1. ASSUME NEW e \in Events, ForgetClaims(e) \/ PurgeEvent(e)
      PROVE  /\ gone \subseteq gone'
             /\ \A f \in gone' \ gone : task[f] # "pending" /\ task' = task
  BY <1>1 DEF ForgetClaims, PurgeEvent, DropEvent, queueVars, pipeVars, taskVars
<1>2. ASSUME NEW e \in Events, Ingest(e) PROVE gone' = gone
  BY <1>2 DEF Ingest, Enqueue
<1>3. ASSUME NEW w \in Workers, RunStep(w) PROVE gone' = gone
  <2>1. CASE UNCHANGED queueVars
    BY <2>1 DEF queueVars
  <2>2. CASE WorkerStep(w)
    BY <2>2
    DEF WorkerStep, LeaseJob, RenewBeforeDispatch, ReportLeased, Heartbeat, DispatchReturns,
        DispatchFails, StatementRaises, CompleteJobs, FailJobs, FailRows, ReadOutcome,
        ReturnFailed, Crash
  <2> QED BY <1>3, <2>1, <2>2, RunStepIsQueueStep
<1>4. ASSUME NEW w \in Workers, MaintenanceStep(w) PROVE gone' = gone
  BY <1>4
  DEF MaintenanceStep, AbandonExhausted, ScheduleRetry, Enqueue, RegisterLegacy, ScanExhausted,
      ScanFrom, ScanDue, AbandonMissing, ScanLegacy, TakeUp, queueVars
<1>5. ASSUME LeaseClock \/ UNCHANGED vars PROVE gone' = gone
  BY <1>5 DEF LeaseClock, OrphanedLeaseExpires, LiveLeaseExpires, vars, queueVars
<1> QED BY <1>1, <1>2, <1>3, <1>4, <1>5 DEF Next

\* A run keeps its window and its events until it ends, and without swallowed
\* errors it converges only by closing the tasks.
LEMMA RunMemory ==
    ASSUME ~ MaySwallow, PipeInv, [Next]_vars, NEW w \in Workers, stage'[w] # "none"
    PROVE  \/ LeaseWindow(w)
           \/ /\ stage[w] # "none"
              /\ held'[w] = held[w]
              /\ batch'[w] = batch[w]
              /\ stage'[w] = "converged" => stage[w] = "converged" \/ ConvergeTasks(w)
<1> DEFINE Kept == /\ stage[w] # "none"
                   /\ held'[w] = held[w]
                   /\ batch'[w] = batch[w]
                   /\ stage'[w] = "converged" => stage[w] = "converged" \/ ConvergeTasks(w)
<1>0. /\ stage \in [Workers -> Stages] /\ batch \in [Workers -> SUBSET Events]
      /\ held \in [Workers -> SUBSET Jobs]
  BY DEF PipeInv, TypeOK, QueueTypeOK
<1>1. ASSUME UNCHANGED <<stage, batch, held>> PROVE Kept
  BY <1>1
<1>2. ASSUME NEW v \in Workers, RunStep(v) PROVE LeaseWindow(w) \/ Kept
  <2>1. CASE LeaseWindow(v)
    BY <1>0, <2>1 DEF LeaseWindow, LeaseJob
  <2>2. CASE ReadEvents(v)
    BY <1>0, <2>2 DEF ReadEvents, SetStage, DispatchFails, GoTo, runVars, queueVars, workerVars
  <2>3. CASE StoreClaim(v)
    BY <1>0, <2>3 DEF StoreClaim, SetStage, queueVars, workerVars
  <2>4. CASE ReportWrites(v)
    BY <1>0, <2>4 DEF ReportWrites, SetStage, DispatchFails, GoTo, queueVars, workerVars
  <2>5. CASE ExtractionReturns(v)
    BY <1>0, <2>5
    DEF ExtractionReturns, SetStage, DispatchReturns, DispatchFails, GoTo, runVars
  <2>6. CASE ConvergeTasks(v)
    BY <1>0, <2>6 DEF ConvergeTasks, SetStage, queueVars, workerVars
  <2>7. CASE ConvergeSwallowed(v)
    BY <2>7 DEF ConvergeSwallowed
  <2>8. CASE CompleteWindow(v)
    BY <1>0, <2>8
    DEF CompleteWindow, CompleteAfter, CompleteJobs, GoIdle, GoTo, ForgetRun, runVars
  <2>9. CASE FailWindow(v)
    BY <1>0, <2>9 DEF FailWindow, FailJobs, FailRows, GoIdle, GoTo, ForgetRun, runVars
  <2>10. CASE ReturnWindow(v) \/ CrashWorker(v)
    BY <1>0, <2>10 DEF ReturnWindow, ReturnFailed, CrashWorker, Crash, GoIdle, ForgetRun
  <2>11. CASE \/ Prepare(v) \/ Beat(v) \/ ProviderRejects(v) \/ ExtractionFails(v)
              \/ StatementFails(v) \/ ReadDoomed(v)
    BY <1>1, <2>11
    DEF Prepare, RenewBeforeDispatch, ReportLeased, Beat, Heartbeat, ProviderRejects,
        ExtractionFails, DispatchFails, StatementFails, StatementRaises, ReadDoomed, ReadOutcome,
        GoTo, pipeVars, runVars
  <2>12. CASE DeferRetry(v) \/ AbandonDoomed(v) \/ RegistrationSwallowed(v)
    BY <1>1, <2>12
    DEF DeferRetry, DeferOrClose, AbandonDoomed, CloseDoomed, RegistrationSwallowed,
        queueVars, workerVars
  <2> HIDE DEF Kept
  <2> QED
    BY <1>2, <2>1, <2>2, <2>3, <2>4, <2>5, <2>6, <2>7, <2>8, <2>9, <2>10, <2>11, <2>12 DEF RunStep
<1>3. ASSUME NEW v \in Workers, MaintenanceStep(v) PROVE Kept
  <2>1. UNCHANGED <<stage, batch, held>>
    BY <1>3
    DEF MaintenanceStep, AbandonExhausted, ScheduleRetry, Enqueue, RegisterLegacy, ScanExhausted,
        ScanFrom, ScanDue, AbandonMissing, ScanLegacy, TakeUp, PutDown, queueVars, workerVars,
        runVars
  <2> QED BY <1>1, <2>1
<1>4. ASSUME NEW e \in Events, Ingest(e) \/ ForgetClaims(e) \/ PurgeEvent(e) PROVE Kept
  BY <1>1, <1>4
  DEF Ingest, Enqueue, ForgetClaims, PurgeEvent, DropEvent, queueVars, workerVars, pipeVars, runVars
<1>5. ASSUME LeaseClock \/ UNCHANGED vars PROVE Kept
  BY <1>1, <1>5
  DEF LeaseClock, OrphanedLeaseExpires, LiveLeaseExpires, vars, queueVars, workerVars, pipeVars,
      runVars
<1> HIDE DEF Kept
<1>6. LeaseWindow(w) \/ Kept
  BY <1>2, <1>3, <1>4, <1>5 DEF Next
<1> QED BY <1>6 DEF Kept

\* What a leased window holds is running.
LEMMA LeasedRunning ==
    ASSUME PipeInv, NEW w \in Workers, LeaseWindow(w)
    PROVE  /\ stage'[w] = "leased" /\ gone' = gone
           /\ batch'[w] = {EventOf[j] : j \in held'[w]} \ gone
           /\ \A j \in held'[w] : j \in Jobs /\ status'[j] = "running"
<1>1. PICK c \in Eligible :
        /\ status' = [j \in Jobs |-> IF j \in Window(c) THEN "running" ELSE status[j]]
        /\ held' = [held EXCEPT ![w] = Window(c)]
  BY DEF LeaseWindow, LeaseJob
<1>2. Window(c) \subseteq Jobs
  BY WindowIsEligible DEF Eligible
<1>3. held'[w] = Window(c)
  BY <1>1 DEF PipeInv, TypeOK, QueueTypeOK
<1> QED BY <1>1, <1>2, <1>3 DEF LeaseWindow, LeaseJob, PipeInv, TypeOK

\* What is noted in memory as dead was read as dead.
LEMMA DoomedStep ==
    ASSUME PipeInv, SpareInv, [Next]_vars
    PROVE  DoomedIsDead'
<1> DEFINE Rest == \A w \in Workers :
                     /\ \A e \in doomed'[w] : e \in Events /\ HasDeadJob(e)
                     /\ maint'[w].kind = "legacy" =>
                          maint'[w].event \in Events /\ HasDeadJob(maint'[w].event)
<1>0. TypeOK /\ DoomedIsDead /\ TypeOK'
  BY TypeStep DEF PipeInv, SpareInv
<1>00. \A w \in Workers :
        /\ \A e \in doomed[w] : e \in Events /\ HasDeadJob(e)
        /\ maint[w].kind = "legacy" => maint[w].event \in Events /\ HasDeadJob(maint[w].event)
  BY <1>0 DEF DoomedIsDead, TypeOK, Work, NoWork
<1> USE <1>0, <1>00 DEF TypeOK, pipeVars, taskVars, runVars
<1>1. ASSUME NEW e \in Events, Ingest(e) \/ ForgetClaims(e) \/ PurgeEvent(e) PROVE Rest
  BY <1>1 DEF Ingest, ForgetClaims, PurgeEvent
<1>2. ASSUME NEW w \in Workers, RunStep(w) PROVE Rest
  <2>1. CASE ReadDoomed(w)
    <3>1. \A e \in doomed'[w] : e \in Events /\ HasDeadJob(e)
      BY <2>1 DEF ReadDoomed, ReadOutcome, QueueTypeOK, HasDeadJob, JobsOf
    <3> QED BY <2>1, <3>1 DEF ReadDoomed
  <2>2. CASE DeferRetry(w)
    <3>1. PICK e \in doomed[w] :
            /\ doomed' = [doomed EXCEPT ![w] = doomed[w] \ {e}]
            /\ maint' = maint
      BY <2>2 DEF DeferRetry, DeferOrClose
    <3> QED BY <3>1
  <2>3. CASE CrashWorker(w)
    BY <2>3 DEF CrashWorker, ForgetRun, NoWork
  <2>4. ASSUME maint' = maint, doomed' = doomed \/ doomed' = [doomed EXCEPT ![w] = {}]
        PROVE  Rest
    BY <2>4
  <2> HIDE DEF Rest
  <2> QED
    BY <1>2, <2>1, <2>2, <2>3, <2>4
    DEF RunStep, LeaseWindow, Prepare, Beat, ReadEvents, StoreClaim, ReportWrites,
        ExtractionReturns, ProviderRejects, ExtractionFails, ConvergeTasks, ConvergeSwallowed,
        StatementFails, CompleteWindow, CompleteAfter, FailWindow, AbandonDoomed, CloseDoomed,
        RegistrationSwallowed, ReturnWindow, SetStage, ForgetRun
<1>3. ASSUME NEW w \in Workers, MaintenanceStep(w) PROVE Rest
  <2>1. CASE AbandonExhausted(w) \/ ScheduleRetry(w) \/ RegisterLegacy(w)
    BY <2>1 DEF AbandonExhausted, ScheduleRetry, RegisterLegacy, PutDown, NoWork
  <2>2. ASSUME NEW e \in Events, ScanExhausted(w, e) \/ ScanDue(w, e) PROVE Rest
    BY <2>2 DEF ScanExhausted, ScanFrom, ScanDue, TakeUp
  <2>3. ASSUME NEW e \in Events, ScanLegacy(w, e) PROVE Rest
    <3>1. HasDeadJob(e)
      BY <2>3 DEF ScanLegacy, HasDeadJob
    <3> QED BY <2>3, <3>1 DEF ScanLegacy, TakeUp
  <2>4. ASSUME NEW e \in Events, AbandonMissing(w, e) PROVE Rest
    BY <2>4 DEF AbandonMissing
  <2> QED BY <1>3, <2>1, <2>2, <2>3, <2>4 DEF MaintenanceStep
<1>4. ASSUME LeaseClock \/ UNCHANGED vars PROVE Rest
  BY <1>4 DEF LeaseClock, vars
<1>5. Rest
  <2> HIDE DEF Rest
  <2> QED BY <1>1, <1>2, <1>3, <1>4 DEF Next
<1>6. ASSUME NEW w \in Workers, NEW e \in doomed'[w] PROVE HasDeadJob(e)'
  BY <1>5, <1>6, DeadJobStays
<1>7. ASSUME NEW w \in Workers, maint'[w].kind = "legacy" PROVE HasDeadJob(maint[w].event)'
  <2> DEFINE e == maint'[w].event
  <2>1. e \in Events /\ HasDeadJob(e)
    BY <1>5, <1>7
  <2> HIDE DEF e
  <2>2. \E j \in Jobs : EventOf[j] = e /\ status'[j] = "dead"
    BY <2>1, DeadStays DEF HasDeadJob, JobsOf
  <2> QED BY <2>2 DEF e, HasDeadJob, JobsOf
<1> QED BY <1>6, <1>7 DEF DoomedIsDead

\* The event of a retry that was read as due stays until its task is closed.
LEMMA RetryStep ==
    ASSUME PipeInv, SpareInv, [Next]_vars
    PROVE  RetryKeepsEvent'
<1> SUFFICES ASSUME NEW w \in Workers, maint'[w].kind = "retry"
             PROVE  \/ task'[maint'[w].event] \in {"completed", "abandoned"}
                    \/ task'[maint'[w].event] = "pending" /\ maint'[w].event \notin gone'
  BY DEF RetryKeepsEvent
<1> DEFINE e == maint'[w].event
<1>0. /\ e \in Events
      /\ task \in [Events -> {"absent", "pending", "completed", "abandoned"}]
      /\ task' \in [Events -> {"absent", "pending", "completed", "abandoned"}]
  BY TypeStep DEF PipeInv, TypeOK, Work, NoWork
<1>1. \/ maint'[w] = maint[w]
      \/ task[e] = "pending" /\ e \notin gone
  <2>1. ASSUME NEW v \in Workers, MaintenanceStep(v)
        PROVE  maint'[w] = maint[w] \/ (task[e] = "pending" /\ e \notin gone)
    <3>1. ASSUME NEW f \in Events, ScanDue(v, f)
          PROVE  maint'[w] = maint[w] \/ (task[e] = "pending" /\ e \notin gone)
      BY <3>1 DEF ScanDue, TakeUp, PipeInv, TypeOK
    <3>2. ASSUME NEW f \in Events, ScanExhausted(v, f) \/ ScanLegacy(v, f) \/ AbandonMissing(v, f)
          PROVE  maint'[w] = maint[w]
      BY <3>2 DEF ScanExhausted, ScanFrom, ScanLegacy, AbandonMissing, TakeUp, PipeInv, TypeOK
    <3>3. ASSUME AbandonExhausted(v) \/ ScheduleRetry(v) \/ RegisterLegacy(v)
          PROVE  maint'[w] = maint[w]
      BY <3>3 DEF AbandonExhausted, ScheduleRetry, RegisterLegacy, PutDown, NoWork, PipeInv, TypeOK
    <3> HIDE DEF e
    <3> QED BY <2>1, <3>1, <3>2, <3>3 DEF MaintenanceStep
  <2>2. ASSUME NEW v \in Workers, RunStep(v) PROVE maint'[w] = maint[w]
    BY <2>2
    DEF RunStep, LeaseWindow, Prepare, Beat, ReadEvents, StoreClaim, ReportWrites,
        ExtractionReturns, ProviderRejects, ExtractionFails, ConvergeTasks, ConvergeSwallowed,
        StatementFails, CompleteWindow, CompleteAfter, FailWindow, ReadDoomed, DeferRetry,
        DeferOrClose, AbandonDoomed, CloseDoomed, RegistrationSwallowed, ReturnWindow,
        CrashWorker, pipeVars, PipeInv, TypeOK, NoWork
  <2>3. ASSUME NEW f \in Events, Ingest(f) \/ ForgetClaims(f) \/ PurgeEvent(f) PROVE maint' = maint
    BY <2>3 DEF Ingest, ForgetClaims, PurgeEvent, pipeVars
  <2>4. ASSUME LeaseClock \/ UNCHANGED vars PROVE maint' = maint
    BY <2>4 DEF LeaseClock, vars, pipeVars
  <2> HIDE DEF e
  <2> QED BY <2>1, <2>2, <2>3, <2>4 DEF Next
<1>2. \/ task[e] \in {"completed", "abandoned"}
      \/ task[e] = "pending" /\ e \notin gone
  BY <1>1 DEF SpareInv, RetryKeepsEvent
<1> HIDE DEF e
<1>3. task'[e] # "absent"
  BY <1>0, <1>2, TaskStep
<1>4. task'[e] = "pending" => task[e] = "pending"
  BY <1>0, <1>2, TaskOpens DEF Opened
<1>5. task[e] = "pending" /\ task'[e] = "pending" /\ e \notin gone => e \notin gone'
  BY GoneStep
<1>6. task'[e] \in {"completed", "abandoned"} \/ (task'[e] = "pending" /\ e \notin gone')
  BY <1>0, <1>2, <1>3, <1>4, <1>5
<1> QED BY <1>6 DEF e

\* No job of an open task succeeds, and none becomes active after its event went.
LEMMA OpenStep ==
    ASSUME PipeInv, SpareInv, [Next]_vars
    PROVE  OpenIsUnfinished'
<1>1. ASSUME NEW e \in Events, task'[e] = "pending", NEW j \in Jobs, EventOf[j] = e
      PROVE  status'[j] # "succeeded" /\ (e \in gone' => status'[j] \notin Active)
  <2>1. j \in JobsOf(e)
    BY <1>1 DEF JobsOf
  <2>2. CASE Opened(e)
    BY <2>1, <2>2 DEF Opened, queueVars, rowVars, Active
  <2>3. CASE task[e] = "pending"
    <3>1. status[j] # "succeeded" /\ (e \in gone => status[j] \notin Active)
      BY <2>1, <2>3 DEF SpareInv, OpenIsUnfinished, HasActiveJob, Active
    <3>2. ASSUME status'[j] = "succeeded" PROVE FALSE
      <4>1. PICK w \in Workers : stage[w] = "converged" /\ j \in Owned(w)
        BY <3>1, <3>2, SuccessIsConverged
      <4> QED BY <1>1, <2>3, <4>1 DEF Owned, SpareInv, ConvergedIsClosed
    <3>3. ASSUME e \in gone', status'[j] \in Active PROVE FALSE
      <4>1. e \in gone
        BY <2>3, <3>3, GoneStep
      <4> QED BY <1>1, <2>3, <3>1, <3>3, <4>1, ActiveSource
    <3> QED BY <3>2, <3>3
  <2> QED BY <1>1, <2>2, <2>3, TaskOpens
<1> QED BY <1>1 DEF OpenIsUnfinished, HasActiveJob, JobsOf, Active

\* A run's rows keep to its events, ...
LEMMA BatchStep ==
    ASSUME ~ MaySwallow, PipeInv, SpareInv, [Next]_vars
    PROVE  BatchCovers'
<1>1. ASSUME NEW w \in Workers, stage'[w] # "none", NEW j \in held'[w]
      PROVE  status'[j] # "absent" /\ EventOf[j] \in batch'[w] \cup gone'
  <2>1. CASE LeaseWindow(w)
    BY <2>1, LeasedRunning
  <2>2. CASE stage[w] # "none" /\ held'[w] = held[w] /\ batch'[w] = batch[w]
    <3>1. status[j] # "absent" /\ EventOf[j] \in batch[w] \cup gone
      BY <1>1, <2>2 DEF SpareInv, BatchCovers
    <3>2. j \in Jobs
      BY <1>1, <2>2 DEF PipeInv, TypeOK, QueueTypeOK
    <3> QED BY <2>2, <3>1, <3>2, KnownStays, GoneStep
  <2> QED BY <1>1, <2>1, <2>2, RunMemory
<1> QED BY <1>1 DEF BatchCovers

\* ... and after the tasks were closed nobody opens one for a row of it that may run.
LEMMA ConvergedStep ==
    ASSUME ~ MaySwallow, PipeInv, SpareInv, [Next]_vars
    PROVE  ConvergedIsClosed'
<1> USE DEF Active
<1>1. ASSUME NEW w \in Workers, stage'[w] = "converged", NEW j \in held'[w],
             status'[j] \in Active, task'[EventOf[j]] = "pending"
      PROVE  FALSE
  <2> DEFINE e == EventOf[j]
  <2>1. /\ stage[w] # "none" /\ held'[w] = held[w]
        /\ stage[w] = "converged" \/ ConvergeTasks(w)
    BY <1>1, RunMemory, LeasedRunning
  <2>2. j \in Jobs /\ e \in Events /\ j \in JobsOf(e)
    BY <1>1, <2>1, QueueAssumption DEF PipeInv, TypeOK, QueueTypeOK, JobsOf
  <2>3. status[j] # "absent" /\ e \in batch[w] \cup gone
    BY <1>1, <2>1 DEF SpareInv, BatchCovers
  <2>4. status[j] \in Active
    BY <1>1, <2>2, <2>3, ActiveSource
  <2>5. task[e] = "pending"
    <3>1. CASE Opened(e)
      BY <2>2, <2>4, <3>1 DEF Opened
    <3> QED BY <1>1, <2>2, <3>1, TaskOpens
  <2>6. CASE stage[w] = "converged"
    BY <1>1, <2>1, <2>4, <2>5, <2>6 DEF SpareInv, ConvergedIsClosed
  <2>7. CASE ConvergeTasks(w)
    <3>1. e \notin batch[w]
      BY <1>1, <2>2, <2>5, <2>7 DEF ConvergeTasks, FinishTasks
    <3>2. ~ HasActiveJob(e)
      BY <2>2, <2>3, <2>5, <3>1 DEF SpareInv, OpenIsUnfinished
    <3> QED BY <2>2, <2>4, <3>2 DEF HasActiveJob
  <2> QED BY <2>1, <2>6, <2>7
<1> QED BY <1>1 DEF ConvergedIsClosed

LEMMA SpareInit == Init => SpareInv
<1> SUFFICES ASSUME Init PROVE SpareInv
  OBVIOUS
<1> QED
  BY DEF Init, QueueInit, SpareInv, OpenIsUnfinished, DoomedIsDead, RetryKeepsEvent, BatchCovers,
         ConvergedIsClosed, NoWork

\* The scan for exhausted tasks never writes off an event one of whose jobs
\* succeeded, however often leases expire in between: run_once closes the tasks of a
\* window before it completes the jobs.  It takes that no failure of that update is
\* swallowed.
THEOREM ScanSparesExtracted ==
    ASSUME ~ MaySwallow
    PROVE  Spec => ScanSparesSuccess
<1>1. PipeInv /\ SpareInv /\ [Next]_vars => SpareInv'
  <2> SUFFICES ASSUME PipeInv, SpareInv, [Next]_vars PROVE SpareInv'
    OBVIOUS
  <2> QED BY OpenStep, DoomedStep, RetryStep, BatchStep, ConvergedStep DEF SpareInv
<1>2. Spec => []SpareInv
  BY <1>1, SpareInit, PipelineInvariant, PTL DEF Spec
<1>3. SpareInv => [\A w \in Workers, e \in Events :
                     /\ maint[w].kind = "expire" /\ maint[w].event = e /\ maint'[w] = NoWork
                     /\ task[e] = "pending" /\ task'[e] = "abandoned"
                     => \A j \in JobsOf(e) : status[j] # "succeeded"]_vars
  BY DEF SpareInv, OpenIsUnfinished
<1> QED BY <1>2, <1>3, PTL DEF ScanSparesSuccess
=============================================================================
