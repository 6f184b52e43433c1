--------------------------- MODULE JobQueueProofs ---------------------------
(***************************************************************************)
(* Proofs about JobQueue, for every value of its constants: the inductive  *)
(* invariant QueueInv, what it implies, and that the queue implements      *)
(* JobContract.                                                            *)
(***************************************************************************)
EXTENDS JobQueue, FiniteSetTheorems, WellFoundedInduction, TLAPS

(***************************************************************************)
(* Lemmas about the operators                                              *)
(***************************************************************************)
\* A non-empty set of jobs has a job of least rank: what ORDER BY puts first.
LEMMA LeastRank ==
    ASSUME NEW S, S \subseteq Jobs, S # {}
    PROVE  \E j \in S : \A k \in S : Rank[j] <= Rank[k]
<1> DEFINE T == {Rank[j] : j \in S}
<1>1. T \subseteq Nat /\ T # {}
  BY QueueAssumption
<1>2. PICK x \in T : \A y \in T : ~ (<<y, x>> \in OpToRel(<, Nat))
  <2> HIDE DEF T
  <2> QED BY <1>1, NatLessThanWellFounded, WFMin
<1>3. \A y \in T : x <= y
  <2> TAKE y \in T
  <2>1. x \in Nat /\ y \in Nat
    BY <1>1
  <2>2. ~ (y < x)
    BY <1>2, <2>1 DEF OpToRel
  <2> QED BY <2>1, <2>2
<1> QED BY <1>3

\* The first row of a window is one of its rows.
LEMMA FirstIsMember ==
    ASSUME NEW S, S \subseteq Jobs, S # {}
    PROVE  First(S) \in S
BY LeastRank DEF First

\* lease_job hands out at least one row, and only rows that are up for lease.
LEMMA WindowIsEligible ==
    ASSUME NEW c \in Eligible
    PROVE  Window(c) # {} /\ Window(c) \subseteq Eligible
<1>1. CASE MaxWindow = 1 \/ EventOf[c] \in gone \/ SessionOf[EventOf[c]] = NoSession
  BY <1>1 DEF Window
<1>2. CASE ~ (MaxWindow = 1 \/ EventOf[c] \in gone \/ SessionOf[EventOf[c]] = NoSession)
  <2>1. Window(c) =
          {j \in Peers(c) : Cardinality({k \in Peers(c) : Rank[k] < Rank[j]}) < MaxWindow}
    BY <1>2 DEF Window
  <2>2. Peers(c) \subseteq Eligible /\ Peers(c) \subseteq Jobs /\ c \in Peers(c)
    BY <1>2 DEF Peers, Eligible
  <2>3. PICK j \in Peers(c) : \A k \in Peers(c) : Rank[j] <= Rank[k]
    BY <2>2, LeastRank
  <2>4. {k \in Peers(c) : Rank[k] < Rank[j]} = {}
    <3> SUFFICES ASSUME NEW k \in Peers(c) PROVE ~ (Rank[k] < Rank[j])
      OBVIOUS
    <3>1. Rank[j] \in Nat /\ Rank[k] \in Nat
      BY <2>2, QueueAssumption
    <3> QED BY <2>3, <3>1
  <2>5. Cardinality({k \in Peers(c) : Rank[k] < Rank[j]}) < MaxWindow
    BY <2>4, FS_EmptySet, QueueAssumption
  <2> QED BY <2>1, <2>2, <2>3, <2>5
<1> QED BY <1>1, <1>2

\* A new lease token is one that nobody works with and no row carries.
LEMMA TokenIsFresh ==
    ASSUME ~ (Tokens \subseteq TokensInUse)
    PROVE  /\ FreshToken \in Tokens
           /\ FreshToken # NoToken
           /\ \A w \in Workers : FreshToken # token[w]
           /\ \A j \in Jobs : FreshToken # lease[j]
<1>1. FreshToken \in Tokens /\ FreshToken \notin TokensInUse
  BY DEF FreshToken
<1> QED BY <1>1, QueueAssumption DEF TokensInUse
-----------------------------------------------------------------------------
(***************************************************************************)
(* The inductive invariant                                                 *)
(***************************************************************************)
LEMMA InitInv == QueueInit => QueueInv
BY QueueAssumption
DEF QueueInit, QueueInv, QueueTypeOK, BusyHoldsRows, TokensDiffer, RunningIsLeased,
    HolderKnowsRow, TakeoverIsPaid, AttemptBudget, JobStatus, Reports, Steps

\* insert_job, and the deletion of an event.
LEMMA EnqueueInv ==
    ASSUME QueueInv, NEW i \in Jobs, Enqueue(i)
    PROVE  QueueInv'
<1>1. QueueTypeOK'
  BY DEF QueueInv, QueueTypeOK, Enqueue, workerVars, JobStatus
<1>2. AttemptBudget' /\ TakeoverIsPaid'
  BY QueueAssumption
  DEF QueueInv, QueueTypeOK, AttemptBudget, TakeoverIsPaid, Orphaned, Enqueue, workerVars
<1> QED BY <1>1, <1>2
  DEF QueueInv, QueueTypeOK, Enqueue, workerVars, BusyHoldsRows, TokensDiffer,
      RunningIsLeased, HolderKnowsRow

\* lease_job: the token is fresh and every row it goes to was up for lease.
LEMMA LeaseInv ==
    ASSUME QueueInv, NEW w \in Workers, LeaseJob(w)
    PROVE  QueueInv'
<1>1. PICK c \in Eligible :
        /\ status' = [j \in Jobs |-> IF j \in Window(c) THEN "running" ELSE status[j]]
        /\ attempts' = [j \in Jobs |-> IF j \in Window(c) THEN attempts[j] + 1 ELSE attempts[j]]
        /\ lease' = [j \in Jobs |-> IF j \in Window(c) THEN FreshToken ELSE lease[j]]
        /\ expired' = expired \ Window(c)
        /\ held' = [held EXCEPT ![w] = Window(c)]
  BY DEF LeaseJob
<1>2. /\ pc[w] = "idle"
      /\ token' = [token EXCEPT ![w] = FreshToken]
      /\ pc' = [pc EXCEPT ![w] = "leased"]
      /\ report' = [report EXCEPT ![w] = "none"]
      /\ UNCHANGED <<lost, gone, faults>>
  BY DEF LeaseJob
<1>3. /\ FreshToken \in Tokens
      /\ FreshToken # NoToken
      /\ \A v \in Workers : FreshToken # token[v]
      /\ \A j \in Jobs : FreshToken # lease[j]
  BY TokenIsFresh DEF LeaseJob
<1>4. Window(c) # {} /\ Window(c) \subseteq Jobs
  BY WindowIsEligible DEF Eligible
<1>5. \A j \in Window(c) : status[j] = "pending" \/ (status[j] = "running" /\ j \in expired)
  BY WindowIsEligible DEF Eligible
<1>6. QueueTypeOK'
  BY <1>1, <1>2, <1>3, <1>4 DEF QueueInv, QueueTypeOK, JobStatus, Reports, Steps
<1>7. BusyHoldsRows'
  BY <1>1, <1>2, <1>3, <1>4 DEF QueueInv, QueueTypeOK, BusyHoldsRows
<1>8. TokensDiffer'
  BY <1>2, <1>3 DEF QueueInv, QueueTypeOK, TokensDiffer
<1>9. RunningIsLeased'
  BY <1>1, <1>3 DEF QueueInv, QueueTypeOK, RunningIsLeased
<1>10. HolderKnowsRow'
  <2> SUFFICES ASSUME NEW v \in Workers, NEW j \in Jobs,
                      status'[j] = "running", lease'[j] = token'[v]
               PROVE  j \in held'[v] /\ pc'[v] \notin {"failed", "returning"}
    BY DEF HolderKnowsRow
  <2>1. CASE v = w
    BY <2>1, <1>1, <1>2, <1>3 DEF QueueInv, QueueTypeOK
  <2>2. CASE v # w
    BY <2>2, <1>1, <1>2, <1>3 DEF QueueInv, QueueTypeOK, HolderKnowsRow
  <2> QED BY <2>1, <2>2
<1>11. AttemptBudget'
  <2> SUFFICES ASSUME NEW j \in Jobs
               PROVE  /\ status'[j] = "pending" => attempts'[j] < MaxAttempts
                      /\ status'[j] = "dead" => attempts'[j] >= MaxAttempts
                      /\ attempts'[j] <= MaxAttempts + faults'
    BY DEF AttemptBudget
  <2>1. CASE j \in Window(c)
    BY <2>1, <1>1, <1>2, <1>4, <1>5, QueueAssumption
    DEF QueueInv, QueueTypeOK, AttemptBudget, TakeoverIsPaid
  <2>2. CASE j \notin Window(c)
    BY <2>2, <1>1, <1>2 DEF QueueInv, QueueTypeOK, AttemptBudget
  <2> QED BY <2>1, <2>2
<1>12. TakeoverIsPaid'
  <2> SUFFICES ASSUME NEW j \in Jobs
               PROVE  /\ status'[j] = "absent" => attempts'[j] = 0
                      /\ status'[j] = "running" /\ (j \in expired' \/ Orphaned(j)') =>
                             attempts'[j] + 1 <= MaxAttempts + faults'
    BY DEF TakeoverIsPaid
  <2>1. CASE j \in Window(c)
    <3>1. status'[j] = "running" /\ j \notin expired' /\ lease'[j] = token'[w]
      BY <2>1, <1>1, <1>2, <1>4 DEF QueueInv, QueueTypeOK
    <3> QED BY <3>1 DEF Orphaned
  <2>2. CASE j \notin Window(c)
    <3>1. Orphaned(j)' => Orphaned(j) \/ lease[j] = token[w]
      BY <2>2, <1>1, <1>2 DEF QueueInv, QueueTypeOK, Orphaned
    <3>2. status[j] = "running" => lease[j] # token[w]
      BY <1>2, QueueAssumption DEF QueueInv, BusyHoldsRows, RunningIsLeased
    <3> QED BY <2>2, <1>1, <1>2, <3>1, <3>2 DEF QueueInv, QueueTypeOK, TakeoverIsPaid
  <2> QED BY <2>1, <2>2
<1> QED BY <1>6, <1>7, <1>8, <1>9, <1>10, <1>11, <1>12 DEF QueueInv

\* The steps of run_once that only look at the rows and move on.
LEMMA ControlInv ==
    ASSUME QueueInv, NEW w \in Workers,
           NEW step \in {"renewed", "working", "checked", "failing"},
           pc[w] # "idle",
           pc' = [pc EXCEPT ![w] = step],
           lost' \in [Workers -> BOOLEAN],
           UNCHANGED <<rowVars, gone, held, token, report, faults>>
    PROVE  QueueInv'
<1>1. QueueTypeOK'
  BY DEF QueueInv, QueueTypeOK, rowVars, Steps
<1>2. BusyHoldsRows' /\ HolderKnowsRow'
  BY DEF QueueInv, QueueTypeOK, rowVars, BusyHoldsRows, HolderKnowsRow
<1> QED BY <1>1, <1>2
  DEF QueueInv, rowVars, TokensDiffer, RunningIsLeased, TakeoverIsPaid, Orphaned, AttemptBudget

LEMMA HeartbeatInv ==
    ASSUME QueueInv, NEW w \in Workers, Heartbeat(w)
    PROVE  QueueInv'
<1>1. QueueTypeOK'
  BY DEF QueueInv, QueueTypeOK, Heartbeat, OwnsWindow
<1> QED BY <1>1
  DEF QueueInv, Heartbeat, BusyHoldsRows, TokensDiffer, RunningIsLeased, HolderKnowsRow,
      TakeoverIsPaid, Orphaned, AttemptBudget

\* A worker forgets its window: crash, end of run_once, lost lease.  Every
\* row that still carries its token must be paid for by a fault.
LEMMA ForgetInv ==
    ASSUME QueueInv, NEW w \in Workers, NEW result \in Reports,
           GoIdle(w, result),
           faults' \in 0..MaxFaults, faults <= faults',
           \A j \in Jobs : status[j] = "running" /\ lease[j] = token[w] => faults < faults',
           UNCHANGED <<rowVars, gone>>
    PROVE  QueueInv'
<1>1. QueueTypeOK'
  BY DEF QueueInv, QueueTypeOK, GoIdle, rowVars, Steps
<1>2. BusyHoldsRows' /\ TokensDiffer'
  BY DEF QueueInv, QueueTypeOK, GoIdle, BusyHoldsRows, TokensDiffer
<1>3. RunningIsLeased'
  BY DEF QueueInv, rowVars, RunningIsLeased
<1>4. HolderKnowsRow'
  <2> SUFFICES ASSUME NEW v \in Workers, NEW j \in Jobs,
                      status'[j] = "running", lease'[j] = token'[v]
               PROVE  j \in held'[v] /\ pc'[v] \notin {"failed", "returning"}
    BY DEF HolderKnowsRow
  <2>1. lease[j] # NoToken
    BY QueueAssumption DEF QueueInv, RunningIsLeased, rowVars
  <2>2. v # w
    BY <2>1 DEF QueueInv, QueueTypeOK, GoIdle, rowVars
  <2> QED BY <2>2 DEF QueueInv, QueueTypeOK, HolderKnowsRow, GoIdle, rowVars
<1>5. AttemptBudget'
  BY QueueAssumption DEF QueueInv, QueueTypeOK, AttemptBudget, rowVars
<1>6. TakeoverIsPaid'
  <2> SUFFICES ASSUME NEW j \in Jobs
               PROVE  /\ status'[j] = "absent" => attempts'[j] = 0
                      /\ status'[j] = "running" /\ (j \in expired' \/ Orphaned(j)') =>
                             attempts'[j] + 1 <= MaxAttempts + faults'
    BY DEF TakeoverIsPaid
  <2>1. Orphaned(j)' => Orphaned(j) \/ lease[j] = token[w]
    BY DEF QueueInv, QueueTypeOK, GoIdle, rowVars, Orphaned
  <2>2. CASE lease[j] = token[w]
    BY <2>2, QueueAssumption DEF QueueInv, QueueTypeOK, TakeoverIsPaid, AttemptBudget, rowVars
  <2>3. CASE lease[j] # token[w]
    BY <2>1, <2>3, QueueAssumption DEF QueueInv, QueueTypeOK, TakeoverIsPaid, rowVars
  <2> QED BY <2>2, <2>3
<1> QED BY <1>1, <1>2, <1>3, <1>4, <1>5, <1>6 DEF QueueInv

LEMMA CrashInv ==
    ASSUME QueueInv, NEW w \in Workers, Crash(w)
    PROVE  QueueInv'
<1>1. GoIdle(w, "none") /\ UNCHANGED <<rowVars, gone>> /\ faults < MaxFaults /\ faults' = faults + 1
  BY DEF Crash, InjectFault
<1>2. faults' \in 0..MaxFaults /\ faults < faults'
  BY <1>1, QueueAssumption DEF QueueInv, QueueTypeOK
<1>3. "none" \in Reports
  BY DEF Reports
<1> QED BY <1>1, <1>2, <1>3, ForgetInv DEF QueueInv, QueueTypeOK

LEMMA ReturnInv ==
    ASSUME QueueInv, NEW w \in Workers, ReturnFailed(w)
    PROVE  QueueInv'
<1>1. \A j \in Jobs : ~ (status[j] = "running" /\ lease[j] = token[w])
  BY DEF QueueInv, HolderKnowsRow, ReturnFailed
<1>2. GoIdle(w, report[w]) /\ UNCHANGED <<rowVars, gone, faults>> /\ report[w] \in Reports
  BY DEF ReturnFailed, QueueInv, QueueTypeOK
<1> QED BY <1>1, <1>2, ForgetInv DEF QueueInv, QueueTypeOK

\* The guarded update of complete_jobs and fail_jobs: the rows w still owns
\* get an outcome and lose their token, and w ends or takes the failure path.
LEMMA SettleInv ==
    ASSUME QueueInv, NEW w \in Workers, pc[w] # "idle",
           NEW out \in [Jobs -> {"succeeded", "dead", "pending"}],
           \A j \in Jobs :
               /\ out[j] = "pending" => attempts[j] < MaxAttempts
               /\ out[j] = "dead" => attempts[j] >= MaxAttempts,
           status' = [j \in Jobs |-> IF j \in Owned(w) THEN out[j] ELSE status[j]],
           lease' = [j \in Jobs |-> IF j \in Owned(w) THEN NoToken ELSE lease[j]],
           expired' = expired \ Owned(w),
           UNCHANGED <<attempts, gone, faults>>,
           \/ \E result \in Reports : GoIdle(w, result)
           \/ \E step \in {"failing", "failed"} : GoTo(w, step) /\ UNCHANGED lost
    PROVE  QueueInv'
<1>1. \A j \in Jobs : status'[j] = "running" =>
          /\ status[j] = "running" /\ lease'[j] = lease[j] /\ lease[j] # token[w]
          /\ j \in expired' => j \in expired
  BY DEF QueueInv, QueueTypeOK, HolderKnowsRow, Owned
<1>2. /\ \A v \in Workers :
            v # w => pc'[v] = pc[v] /\ held'[v] = held[v] /\ token'[v] = token[v]
      /\ IF pc'[w] = "idle" THEN token'[w] = NoToken
         ELSE token'[w] = token[w] /\ held'[w] = held[w]
  BY DEF QueueInv, QueueTypeOK, GoIdle, GoTo
<1>3. QueueTypeOK'
  <2>1. /\ status' \in [Jobs -> JobStatus]
        /\ lease' \in [Jobs -> Tokens \cup {NoToken}]
        /\ expired' \subseteq Jobs
    BY DEF QueueInv, QueueTypeOK, JobStatus
  <2>2. CASE \E result \in Reports : GoIdle(w, result)
    BY <2>1, <2>2 DEF QueueInv, QueueTypeOK, GoIdle, Steps
  <2>3. CASE \E step \in {"failing", "failed"} : GoTo(w, step) /\ UNCHANGED lost
    BY <2>1, <2>3 DEF QueueInv, QueueTypeOK, GoTo, Steps
  <2> QED BY <2>2, <2>3
<1>4. BusyHoldsRows' /\ TokensDiffer'
  BY <1>2 DEF QueueInv, BusyHoldsRows, TokensDiffer
<1>5. RunningIsLeased'
  BY <1>1 DEF QueueInv, RunningIsLeased
<1>6. HolderKnowsRow'
  BY <1>1, <1>2, QueueAssumption DEF QueueInv, HolderKnowsRow, RunningIsLeased
<1>7. AttemptBudget'
  <2> SUFFICES ASSUME NEW j \in Jobs
               PROVE  /\ status'[j] = "pending" => attempts'[j] < MaxAttempts
                      /\ status'[j] = "dead" => attempts'[j] >= MaxAttempts
                      /\ attempts'[j] <= MaxAttempts + faults'
    BY DEF AttemptBudget
  <2>1. status'[j] = IF j \in Owned(w) THEN out[j] ELSE status[j]
    OBVIOUS
  <2>2. attempts'[j] = attempts[j] /\ faults' = faults /\ attempts[j] <= MaxAttempts + faults
    BY DEF QueueInv, AttemptBudget
  <2>3. CASE j \in Owned(w)
    BY <2>1, <2>2, <2>3
  <2>4. CASE j \notin Owned(w)
    BY <2>1, <2>2, <2>4 DEF QueueInv, AttemptBudget
  <2> QED BY <2>3, <2>4
<1>8. \A j \in Jobs : status'[j] = "running" /\ Orphaned(j)' => Orphaned(j)
  BY <1>1, <1>2 DEF Orphaned
<1>9. TakeoverIsPaid'
  BY <1>1, <1>8 DEF QueueInv, QueueTypeOK, TakeoverIsPaid
<1> QED BY <1>3, <1>4, <1>5, <1>6, <1>7, <1>9 DEF QueueInv

LEMMA CompleteInv ==
    ASSUME QueueInv, NEW w \in Workers, CompleteJobs(w)
    PROVE  QueueInv'
<1> DEFINE out == [j \in Jobs |-> "succeeded"]
<1>1. out \in [Jobs -> {"succeeded", "dead", "pending"}] /\ \A j \in Jobs : out[j] = "succeeded"
  OBVIOUS
<1>2. status' = [j \in Jobs |-> IF j \in Owned(w) THEN out[j] ELSE status[j]]
  BY DEF CompleteJobs
<1>3. \/ \E result \in Reports : GoIdle(w, result)
      \/ \E step \in {"failing", "failed"} : GoTo(w, step) /\ UNCHANGED lost
  BY DEF CompleteJobs, Reports, JobStatus
<1> HIDE DEF out
<1> QED BY <1>1, <1>2, <1>3, SettleInv DEF CompleteJobs

LEMMA FailInv ==
    ASSUME QueueInv, NEW w \in Workers, FailJobs(w)
    PROVE  QueueInv'
<1> DEFINE out == [j \in Jobs |-> IF attempts[j] >= MaxAttempts THEN "dead" ELSE "pending"]
<1>1. out \in [Jobs -> {"succeeded", "dead", "pending"}]
  OBVIOUS
<1>2. \A j \in Jobs :
         /\ out[j] = "pending" => attempts[j] < MaxAttempts
         /\ out[j] = "dead" => attempts[j] >= MaxAttempts
  BY QueueAssumption DEF QueueInv, QueueTypeOK
<1>3. status' = [j \in Jobs |-> IF j \in Owned(w) THEN out[j] ELSE status[j]]
  BY DEF FailJobs, FailRows
<1>4. \/ \E result \in Reports : GoIdle(w, result)
      \/ \E step \in {"failing", "failed"} : GoTo(w, step) /\ UNCHANGED lost
  BY DEF FailJobs, FailRows, Reports
<1> HIDE DEF out
<1> QED BY <1>1, <1>2, <1>3, <1>4, SettleInv DEF FailJobs, FailRows

LEMMA ReadInv ==
    ASSUME QueueInv, NEW w \in Workers, ReadOutcome(w)
    PROVE  QueueInv'
<1>1. status[First(held[w])] \in Reports
  BY FirstIsMember DEF ReadOutcome, QueueInv, QueueTypeOK, BusyHoldsRows, Reports
<1>2. QueueTypeOK'
  BY <1>1 DEF ReadOutcome, QueueInv, QueueTypeOK, rowVars, Steps
<1> QED BY <1>2
  DEF ReadOutcome, QueueInv, QueueTypeOK, rowVars, BusyHoldsRows, TokensDiffer, RunningIsLeased,
      HolderKnowsRow, TakeoverIsPaid, Orphaned, AttemptBudget

\* A lease nobody works with: the fault is already paid for.
LEMMA OrphanedInv ==
    ASSUME QueueInv, NEW t \in Tokens, OrphanedLeaseExpires(t)
    PROVE  QueueInv'
<1>1. QueueTypeOK'
  BY DEF QueueInv, QueueTypeOK, OrphanedLeaseExpires, workerVars, LeasedRows
<1>2. \A j \in LeasedRows(t) : Orphaned(j)
  BY DEF OrphanedLeaseExpires, LeasedRows, WorkedOn, Orphaned
<1>3. TakeoverIsPaid'
  BY <1>2 DEF QueueInv, TakeoverIsPaid, OrphanedLeaseExpires, workerVars, Orphaned
<1> QED BY <1>1, <1>3
  DEF QueueInv, OrphanedLeaseExpires, workerVars, BusyHoldsRows, TokensDiffer, RunningIsLeased,
      HolderKnowsRow, AttemptBudget

\* A stalled worker: the stall pays.
LEMMA StalledInv ==
    ASSUME QueueInv, NEW t \in Tokens, LiveLeaseExpires(t)
    PROVE  QueueInv'
<1>1. faults' = faults + 1 /\ faults < MaxFaults
  BY DEF LiveLeaseExpires, InjectFault
<1>2. QueueTypeOK'
  BY <1>1, QueueAssumption DEF QueueInv, QueueTypeOK, LiveLeaseExpires, workerVars, LeasedRows
<1>3. TakeoverIsPaid' /\ AttemptBudget'
  BY <1>1, QueueAssumption
  DEF QueueInv, QueueTypeOK, TakeoverIsPaid, AttemptBudget, LiveLeaseExpires, workerVars, Orphaned
<1> QED BY <1>2, <1>3
  DEF QueueInv, LiveLeaseExpires, workerVars, BusyHoldsRows, TokensDiffer, RunningIsLeased,
      HolderKnowsRow

\* Every step of a worker.
LEMMA WorkerInv ==
    ASSUME QueueInv, NEW w \in Workers, WorkerStep(w)
    PROVE  QueueInv'
<1>1. CASE LeaseJob(w)  BY <1>1, LeaseInv
<1>2. CASE RenewBeforeDispatch(w)
  BY <1>2, ControlInv DEF RenewBeforeDispatch, GoTo, OwnsWindow, QueueInv, QueueTypeOK
<1>3. CASE ReportLeased(w)
  BY <1>3, ControlInv DEF ReportLeased, GoTo, QueueInv, QueueTypeOK
<1>4. CASE Heartbeat(w)  BY <1>4, HeartbeatInv
<1>5. CASE DispatchReturns(w)
  BY <1>5, ControlInv DEF DispatchReturns, GoTo, QueueInv, QueueTypeOK
<1>6. CASE DispatchFails(w)
  BY <1>6, ControlInv DEF DispatchFails, GoTo, QueueInv, QueueTypeOK
<1>7. CASE StatementRaises(w)
  BY <1>7, ControlInv DEF StatementRaises, GoTo, QueueInv, QueueTypeOK
<1>8. CASE CompleteJobs(w)  BY <1>8, CompleteInv
<1>9. CASE FailJobs(w)  BY <1>9, FailInv
<1>10. CASE ReadOutcome(w)  BY <1>10, ReadInv
<1>11. CASE ReturnFailed(w)  BY <1>11, ReturnInv
<1>12. CASE Crash(w)  BY <1>12, CrashInv
<1> QED BY <1>1, <1>2, <1>3, <1>4, <1>5, <1>6, <1>7, <1>8, <1>9, <1>10, <1>11, <1>12 DEF WorkerStep

LEMMA StepInv == QueueInv /\ [QueueNext]_queueVars => QueueInv'
<1> SUFFICES ASSUME QueueInv, [QueueNext]_queueVars PROVE QueueInv'
  OBVIOUS
<1>1. CASE \E j \in Jobs : Enqueue(j)  BY <1>1, EnqueueInv
<1>2. CASE \E e \in Events : DropEvent(e)
  BY <1>2
  DEF DropEvent, rowVars, workerVars, QueueInv, QueueTypeOK, BusyHoldsRows, TokensDiffer,
      RunningIsLeased, HolderKnowsRow, TakeoverIsPaid, Orphaned, AttemptBudget
<1>3. CASE \E w \in Workers : WorkerStep(w)  BY <1>3, WorkerInv
<1>4. CASE \E t \in Tokens : OrphanedLeaseExpires(t) \/ LiveLeaseExpires(t)
  BY <1>4, OrphanedInv, StalledInv
<1>5. CASE UNCHANGED queueVars
  BY <1>5
  DEF queueVars, rowVars, workerVars, QueueInv, QueueTypeOK, BusyHoldsRows, TokensDiffer,
      RunningIsLeased, HolderKnowsRow, TakeoverIsPaid, Orphaned, AttemptBudget
<1> QED BY <1>1, <1>2, <1>3, <1>4, <1>5 DEF QueueNext

\* The inductive invariant holds in every reachable state of the queue.
THEOREM QueueInvariant == QueueSpec => []QueueInv
BY InitInv, StepInv, PTL DEF QueueSpec

\* Every column and local variable keeps to its range.
THEOREM QueueTypes == QueueSpec => []QueueTypeOK
<1>1. QueueInv => QueueTypeOK
  BY DEF QueueInv
<1> QED BY <1>1, QueueInvariant, PTL

\* A worker can write the outcome of a job only alone.
LEMMA OneOwner == QueueInv => OneOwnerPerJob
<1> SUFFICES ASSUME QueueInv, NEW v \in Workers, NEW w \in Workers, v # w,
                    NEW j \in Owned(v) \cap Owned(w)
             PROVE  FALSE
  BY DEF OneOwnerPerJob
<1>1. j \in Jobs /\ status[j] = "running" /\ lease[j] = token[v] /\ lease[j] = token[w]
  BY DEF Owned, QueueInv, QueueTypeOK
<1>2. token[v] # NoToken
  BY <1>1, QueueAssumption DEF QueueInv, RunningIsLeased
<1> QED BY <1>1, <1>2 DEF QueueInv, TokensDiffer

\* However often leases expired and were taken over, two processes never
\* both have the power to end or requeue one job.
THEOREM SingleOwner == QueueSpec => []OneOwnerPerJob
BY QueueInvariant, OneOwner, PTL

\* lease_job looks at no budget when it takes over an expired lease; still a
\* job is handed out at most max_attempts times plus once per fault.
THEOREM AttemptsAreBounded == QueueSpec => []AttemptBudget
<1>1. QueueInv => AttemptBudget
  BY DEF QueueInv
<1> QED BY <1>1, QueueInvariant, PTL

-----------------------------------------------------------------------------
(***************************************************************************)
(* Who may settle a job                                                    *)
(***************************************************************************)
\* The statement of OnlyOwnerSettles for one step.
OwnerSettles ==
    \A j \in Jobs :
        status[j] = "running" /\ status'[j] # "running"
            => \E w \in Workers : pc[w] \in {"checked", "failing"} /\ j \in Owned(w)

LEMMA StepSettles == QueueInv /\ [QueueNext]_queueVars => OwnerSettles
<1> SUFFICES ASSUME QueueTypeOK, [QueueNext]_queueVars, NEW j \in Jobs,
                    status[j] = "running", status'[j] # "running"
             PROVE  \E w \in Workers : pc[w] \in {"checked", "failing"} /\ j \in Owned(w)
  BY DEF OwnerSettles, QueueInv
<1>1. ASSUME NEW i \in Jobs, Enqueue(i) PROVE FALSE
  BY <1>1 DEF Enqueue, QueueTypeOK
<1>2. ASSUME NEW w \in Workers, LeaseJob(w) PROVE FALSE
  BY <1>2 DEF LeaseJob, QueueTypeOK
<1>3. ASSUME NEW w \in Workers, CompleteJobs(w)
      PROVE  pc[w] \in {"checked", "failing"} /\ j \in Owned(w)
  BY <1>3 DEF CompleteJobs
<1>4. ASSUME NEW w \in Workers, FailJobs(w)
      PROVE  pc[w] \in {"checked", "failing"} /\ j \in Owned(w)
  BY <1>4 DEF FailJobs, FailRows
<1>5. ASSUME UNCHANGED status PROVE FALSE
  BY <1>5
<1> QED
  BY <1>1, <1>2, <1>3, <1>4, <1>5
  DEF QueueNext, WorkerStep, DropEvent, RenewBeforeDispatch, ReportLeased, Heartbeat,
      DispatchReturns, DispatchFails, StatementRaises, ReadOutcome, ReturnFailed, Crash,
      OrphanedLeaseExpires, LiveLeaseExpires, queueVars, rowVars

\* A running job is ended or requeued only by the worker whose token its row
\* carries at that moment.
THEOREM SettledByOwner == QueueSpec => OnlyOwnerSettles
<1>1. QueueInv /\ [QueueNext]_queueVars => [OwnerSettles]_queueVars
  BY StepSettles
<1>2. QueueSpec => [][OwnerSettles]_queueVars
  BY <1>1, QueueInvariant, PTL DEF QueueSpec
<1> QED BY <1>2 DEF OwnerSettles, OnlyOwnerSettles

-----------------------------------------------------------------------------
(***************************************************************************)
(* Refinement of JobContract                                               *)
(***************************************************************************)
\* What each status counts as.
LEMMA StateOfEach ==
    /\ StateOf("absent") = "absent"
    /\ StateOf("pending") = "open"
    /\ StateOf("running") = "open"
    /\ StateOf("succeeded") = "done"
    /\ StateOf("dead") = "dead"
BY DEF StateOf

LEMMA InitRefines == QueueInit => Contract!ContractInit
<1> SUFFICES ASSUME QueueInit PROVE Contract!ContractInit
  OBVIOUS
<1>1. PICK old \in SUBSET LegacyDead :
        /\ status = [j \in Jobs |-> IF j \in old THEN "dead" ELSE "absent"]
        /\ attempts = [j \in Jobs |-> IF j \in old THEN MaxAttempts ELSE 0]
  BY DEF QueueInit
<1>2. jobState = [j \in Jobs |-> IF j \in old THEN "dead" ELSE "absent"]
  BY <1>1, StateOfEach DEF jobState
<1> QED BY <1>1, <1>2 DEF Contract!ContractInit

LEMMA EnqueueRefines ==
    ASSUME QueueInv, NEW i \in Jobs, Enqueue(i)
    PROVE  Contract!Add(i)
<1>1. jobState[i] = "absent"
  BY StateOfEach DEF Enqueue, jobState
<1>2. \A j \in Jobs : status'[j] = IF j = i THEN "pending" ELSE status[j]
  BY DEF Enqueue, QueueInv, QueueTypeOK
<1>3. jobState' = [jobState EXCEPT ![i] = "open"]
  BY <1>2, StateOfEach DEF jobState
<1> QED BY <1>1, <1>3 DEF Contract!Add, Enqueue

LEMMA LeaseRefines ==
    ASSUME QueueInv, NEW w \in Workers, LeaseJob(w)
    PROVE  \E S \in SUBSET Jobs : Contract!Try(S)
<1>1. PICK c \in Eligible :
        /\ status' = [j \in Jobs |-> IF j \in Window(c) THEN "running" ELSE status[j]]
        /\ attempts' = [j \in Jobs |-> IF j \in Window(c) THEN attempts[j] + 1 ELSE attempts[j]]
  BY DEF LeaseJob
<1>2. Window(c) \subseteq Jobs /\ \A j \in Window(c) : status[j] \in {"pending", "running"}
  BY WindowIsEligible DEF Eligible
<1>3. \A j \in Window(c) : jobState[j] = "open"
  BY <1>2, StateOfEach DEF jobState
<1>4. \A j \in Jobs : StateOf(status'[j]) = StateOf(status[j])
  BY <1>1, <1>2, StateOfEach
<1>5. jobState' = jobState
  BY <1>4 DEF jobState
<1> QED BY <1>1, <1>2, <1>3, <1>5 DEF Contract!Try

LEMMA CompleteRefines ==
    ASSUME QueueInv, NEW w \in Workers, CompleteJobs(w)
    PROVE  \E S \in SUBSET Jobs : Contract!Succeed(S)
<1>1. Owned(w) \subseteq Jobs /\ \A j \in Owned(w) : status[j] = "running" /\ attempts[j] > 0
  BY DEF Owned, QueueInv, QueueTypeOK, RunningIsLeased
<1>2. \A j \in Owned(w) : jobState[j] = "open" /\ attempts[j] > 0
  BY <1>1, StateOfEach DEF jobState
<1>3. jobState' = [j \in Jobs |-> IF j \in Owned(w) THEN "done" ELSE jobState[j]]
  BY <1>1, StateOfEach DEF CompleteJobs, jobState
<1>4. attempts' = attempts
  BY DEF CompleteJobs
<1> QED BY <1>1, <1>2, <1>3, <1>4 DEF Contract!Succeed

LEMMA FailRefines ==
    ASSUME QueueInv, NEW w \in Workers, FailJobs(w)
    PROVE  \E S \in SUBSET Jobs : Contract!Bury(S)
<1> DEFINE S == {j \in Owned(w) : attempts[j] >= MaxAttempts}
<1>1. Owned(w) \subseteq Jobs /\ \A j \in Owned(w) : status[j] = "running"
  BY DEF Owned, QueueInv, QueueTypeOK
<1>2. S \subseteq Jobs /\ \A j \in S : jobState[j] = "open" /\ attempts[j] >= MaxAttempts
  BY <1>1, StateOfEach DEF jobState
<1>3. \A j \in Jobs :
        StateOf(status'[j]) = IF j \in S THEN "dead" ELSE StateOf(status[j])
  BY <1>1, StateOfEach DEF FailJobs, FailRows
<1>4. jobState' = [j \in Jobs |-> IF j \in S THEN "dead" ELSE jobState[j]]
  BY <1>3 DEF jobState
<1>5. attempts' = attempts
  BY DEF FailJobs, FailRows
<1> HIDE DEF S
<1> QED BY <1>2, <1>4, <1>5 DEF Contract!Bury

LEMMA StepRefines == QueueInv /\ [QueueNext]_queueVars => [Contract!ContractNext]_(Contract!contractVars)
<1> SUFFICES ASSUME QueueInv, [QueueNext]_queueVars
             PROVE  [Contract!ContractNext]_(Contract!contractVars)
  OBVIOUS
<1>1. ASSUME NEW j \in Jobs, Enqueue(j) PROVE Contract!ContractNext
  BY <1>1, EnqueueRefines DEF Contract!ContractNext
<1>2. ASSUME NEW w \in Workers, LeaseJob(w) PROVE Contract!ContractNext
  BY <1>2, LeaseRefines DEF Contract!ContractNext
<1>3. ASSUME NEW w \in Workers, CompleteJobs(w) PROVE Contract!ContractNext
  BY <1>3, CompleteRefines DEF Contract!ContractNext
<1>4. ASSUME NEW w \in Workers, FailJobs(w) PROVE Contract!ContractNext
  BY <1>4, FailRefines DEF Contract!ContractNext
<1>5. ASSUME UNCHANGED <<status, attempts>> PROVE UNCHANGED Contract!contractVars
  BY <1>5 DEF Contract!contractVars, jobState
<1> QED
  BY <1>1, <1>2, <1>3, <1>4, <1>5
  DEF QueueNext, WorkerStep, DropEvent, RenewBeforeDispatch, ReportLeased, Heartbeat,
      DispatchReturns, DispatchFails, StatementRaises, ReadOutcome, ReturnFailed, Crash,
      OrphanedLeaseExpires, LiveLeaseExpires, queueVars, rowVars

\* Leases, tokens, windows, crashes and stalls never make the queue break
\* the contract its users rely on.
THEOREM QueueImplementsContract == QueueSpec => ImplementsContract
BY InitRefines, StepRefines, QueueInvariant, PTL DEF QueueSpec, ImplementsContract, Contract!ContractSpec
=============================================================================
