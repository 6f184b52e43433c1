# HL-Mem in TLA+

HL-Mem is a long-term memory service for agents: events come in over HTTP, background
workers turn them into claims with the help of language models, and recalls read the claims.
Everything durable lives in one SQLite database; several processes work on it at the same
time. This directory models the parts whose correctness depends on the order in which those
processes take their steps, checks them with TLC on small instances, and proves the main
results with TLAPS for all instances.

Paths below are relative to the repository; code paths abbreviate `src/hl_mem/` to nothing
(`storage/jobs.py` is `src/hl_mem/storage/jobs.py`).

## 1. Inventory

| component | state it keeps | operations | what is hard |
|---|---|---|---|
| **Job queue** `storage/jobs.py` | `jobs`: status, attempts, `lease_token`, `leased_until`, `last_error` | insert (idempotent), lease a window, renew, report progress, complete, fail | expired leases, late workers, half a window lost |
| **Worker loop** `workers/worker.py`, `workers/job_handlers.py` | local variables of `run_once`, a heartbeat thread | lease, dispatch, heartbeat, settle, failure path, maintenance | every statement is its own transaction; crashes between any two |
| **Deferred extraction retries** `workers/deferred.py`, `storage/deferred_tasks.py` | `deferred_tasks`: status, attempts | register after HTTP 429, legacy scan, schedule a retry job, complete, abandon | read-then-write in two statements, two maintenance loops, swallowed errors |
| **Event ingestion** `application/ingest.py` | `events`, the job of each event | ingest a batch, store extracted claims | idempotency against jobs that stay behind |
| **Retention and deletion** `application/deletion.py`, `security/retention.py`, `storage/tombstones.py` | `events`, `evidence_links`, the tombstone ledger file | delete a claim with its exclusive events, purge old events, replay the ledger | ledger and database commit separately; a running extraction loses its event |
| **Recall side effects** `application/recall_side_effects.py`, `experience/service.py`, `storage/experience.py` | a bounded in-memory queue, the set of accepted exposures, tasks, `retrieval_feedback` | submit, persist, shut down, materialise exposure, mark injected, apply feedback | a receipt's exposure moves from memory to task to row while others look for it |
| **Claims and conflict groups** `storage/claims.py`, `application/_ingest_resolution.py`, `application/conflicts.py`, `application/conflict_snapshot.py`, `workers/auto_resolve_conflicts.py`, `domain/governance.py`, migration 045 | claim status, supersession links, conflict cases with candidates and members, revisions, the dirty queue | state, reassert, supersede, contest, review, select, reject | decisions made on a snapshot; SQL triggers keep the queue |
| **Correction and resurrection** `application/correction.py`, `application/resurrection.py` | claim status | retract, replace, bring an archived claim back | an embedder is called between the read and the write |
| **Backup and restore** `storage/backup.py`, `application/restore.py` | a copy of the database and its manifest | online backup, restore with ledger replay | deletions since the copy, one of them half done |
| **Lifecycle maintenance** `workers/ttl.py`, `workers/decay.py`, `application/expired_cleanup.py`, `workers/history_cleanup.py` | claim status, old rows | expire, decay, clean up | beside open cases and other decisions |
| **Semantic jobs** `workers/deduplicate.py`, `workers/consolidate.py`, ... | claims, relations | decisions of a language model | run through the job queue |
| **LLM extraction**, **recall pipeline** | none of their own | text in, text out | numeric and textual, not concurrent |
| **Hermes adapter** `adapters/hermes/` | prefetch entries, futures, circuit breaker | prefetch, fetch on a miss, invalidate, shut down, probe | late completions, cancellation outside the lock, half-open probes |
| **Storage engine**, **API, MCP, CLI**, **configuration, plugins, observability** | connections, settings, telemetry | | thin, or below the level of the models |

How they interact: ingestion writes an event and its `extract_event` job in one transaction;
a worker leases the job, calls the provider, stores claims and evidence one transaction at a
time, closes the deferred task of the event and completes the job. A job that dies of HTTP 429
hands its event to `deferred_tasks`, and the maintenance loop of any worker turns the task into
another job after 1, 4 and 12 hours. Deletion and retention remove events beside all this; they
spare an event whose task is pending, but do not look at jobs. Recalls write their side effects
into the same `deferred_tasks` table through a writer thread of the server process. Stored claims
meet the claims of their conflict group; a contradiction opens a case, which the maintenance loop
or a person decides. The Hermes adapter lives in the agent's process: it posts what was said,
prefetches what the next turn may need, and stops calling a server that fails.

What makes each part correct:

- queue: one owner per running job; only the owner ends it; bounded attempts; every job ends;
- retries: one active job per event; as many retry jobs as counted attempts; a task closes as
  completed only for an extracted event; an extracted event is not written off; every event
  comes to rest;
- deletion: what was answered as deleted stays deleted, restores included; no evidence points to a
  missing row unless an extraction brought it in late;
- recall side effects: an accepted exposure has its effect at most once and, without a crash, at
  least once; it can be found while it is on its way; a shutdown that reports success lost nothing;
- conflict groups: at most one active claim in an exclusive group; every disputed claim is under
  review; no decision on a stale snapshot takes effect; a case that can be decided is;
- Hermes adapter: no cache entry waits for a fetch that was cancelled; what was read before an
  invalidation is not served after it; one probe decides about a half-open breaker.

`PROJECT.json` lists each hazard at its line, with the property that would catch it or the reason
why there is none.

## 2. Modules

```
JobContract      what a durable queue promises          RetryRounds   what extraction promises
     ^ refines                                               ^ refines
JobQueue  <------------------- EXTENDS ------------- ExtractionPipeline
     ^                                                       ^
JobQueueProofs <--------------- cited by ------------ ExtractionProofs

EffectLedger     what a recorded effect promises        CircuitBreaker
     ^ refines                                               ^ EXTENDS
RecallSideEffects <--- RecallProofs                     PrefetchCache <--- PrefetchProofs

ClaimGroups <--- ClaimGroupsProofs                      Deletion <--- DeletionProofs
                      ^
                 ClaimLineageProofs
```

Each module that TLC runs has a small instance in the MC module of its name.

**JobContract** (abstract). A job is added, tried (several together), succeeds only after a try,
is buried only after `MaxAttempts` tries, and stays ended. No leases, windows or workers.

**JobQueue**. `status`, `attempts`, `lease` are columns of `jobs`; `expired` stands for
`leased_until` in the past. `pc`, `held`, `token`, `lost`, `report` are the local variables of
`run_once` in each worker; `pc` names the next statement:

| `pc` | statement of `run_once` | actions |
|---|---|---|
| idle | `lease_job` | `LeaseJob` |
| leased | `renew_lease` | `RenewBeforeDispatch` |
| renewed | `update_progress`, ownership test | `ReportLeased` |
| working | `dispatch_job`, heartbeat thread | `Heartbeat`, `DispatchReturns`, `DispatchFails` |
| checked | `complete_jobs` | `CompleteJobs` |
| failing | `fail_jobs` | `FailJobs` |
| failed | re-read of the window | `ReadOutcome` |
| returning | rest of the failure path | `ReturnFailed` |

One action is one committed statement or transaction, so other processes run between any two.
`StatementRaises` is a database error at a statement outside the dispatch. `Crash` loses all
local variables; an exception that leaves `run_once` has the same effect. `OrphanedLeaseExpires`
and `LiveLeaseExpires` let a deadline pass without and with a worker behind it; the second is a
fault (the worker stalled longer than its lease). A token is fresh when no worker works with it
and no row carries it, which is all that `uuid4` is used for.

**RetryRounds** (abstract). An event is worked on in rounds, one at a time, at most `MaxDeferred`
beyond the first.

**ExtractionPipeline** extends JobQueue with what the extraction jobs do. The job of event `e` is
`<<e, 0>>` (key `extract:e`), its n-th retry `<<e, n>>` (key `deferred:task:n`), so the unique keys
of the table are the identities of the rows. `task` and `taskAttempts` are the row of
`deferred_tasks`, `evidence` says which events have evidence links, `stage`, `batch`, `cause` and
`doomed` are local to the run, `maint` is the item a maintenance loop has read and not yet acted
on. `served` is the only history variable: the events an extraction returned normally for. Every
queue step of the pipeline is a conjunction of the JobQueue action and its effect on the pipeline.
`ConvergeSwallowed` and `RegistrationSwallowed` are the two places where `run_once` logs a database
error and goes on. The legacy scan looks for an error text (`raw429`) that only an older release
wrote: the plugin transport wraps an HTTP 429 in an error whose text does not name the status.

**EffectLedger** (abstract). A record is taken on, then done or dropped; it is done only after the
records it needs, and only once.

**RecallSideEffects**. `queue`, `accepted`, `backlog` are the fields of the dispatcher, `writer`,
`inflight`, `tries` its writer thread, `closer` and `drained` the progress of `close()`. `task` and
`attempts` are the rows of `deferred_tasks`, `visible` and `applied` those of `retrieval_feedback`,
`working` and `failing` what each worker's maintenance loop has in hand, `request` the question a
receipt asks next. One action is one critical section, statement or transaction; the check of a
receipt (`_feedback_ids_are_expected`) is three actions, because it asks three places in turn.

**ClaimGroups**. The claims of one conflict group in the order they are recorded: `status`, `fact` and
`by` (`superseded_by_id`); `rejected` the claims that were retracted with their candidate; `case` is the open case with its candidates, members, dirty mark and the
tips its triggers watch; `ended` tells how the earlier generations were closed; `verdict` is what the
reviewer has decided and not yet applied, with the docket it saw; `dossier` what a person has read.
`Touched` and `Bump` are the triggers of migration 045. Ingestion is five actions, one per branch of
the resolution: `State`, `Reassert`, `ReassertInDispute`, `Supersede`, `Contest`. `Decide` is `decide_l0`:
the rules for the candidates of a group (`DecideGroup`), and those for two claims (`DecidePair`), which a
group reaches when a person has rejected its last candidate. Their verdict keeps a side instead of choosing
a candidate, and `Accepts` says which verdicts can be carried out: a winner that can be activated, and no
side whose chain has to be followed, which `resolve_followed_pair` refuses for a group.

**Deletion**. `db` is the database as a record (claims by status, links, open cases, events, retries,
jobs), so that a backup is a copy of it and a restore an assignment. `ledger` is the tombstone file in
the order of its clock, `running` the window of an extraction, `confirmed` and `erased` what callers
were told. `Delete` and `DeletionDies` are the two ways out of the two commits of `_delete_claim`.
`AlreadyDeleted` answers a repeated deletion from the newest ledger entry of the claim, with the events of
that entry. `Correct` is the replacement of a claim by a correction: a new claim derived from the old one, which a
deletion of the old one takes along.

**CircuitBreaker**. The three variables of the Hermes HTTP client and its three operations, each under
the client's lock.

**PrefetchCache** extends CircuitBreaker. `values`, `futures`, `closed` are the cache's fields, `future`
the futures themselves with their place in `_future_keys`, `thread` what each thread is at; `server`
counts the writes the server took, so that the content of a retrieval is the number of writes it saw,
and `floor` is the part of them an invalidation has covered. Foreground threads (`Hosts`) run the
provider's hooks, the pool runs queued fetches; both make calls through the same steps (`Ask`, `Answer`
or `Lose`, `Succeed` or `Report`), and the cache's lock is never held across one.

The proof modules hold the theorems of section 4.

### What the models abstract from

Everywhere: time (a deadline is ahead or past, a delay ends at any moment), text, scores, logging.
One committed transaction is one atomic step.

Job queue and pipeline:

- Time. A deadline is ahead or past; `run_after`, delays and the wait for a fuller window are
  left out, so due and ripe mean "may happen now". Every real timing is among the behaviours.
- The choice of the candidate in `lease_job` (oldest first) is any eligible row.
- The content of claims, which is what the extractor makes it; storing one claim adds evidence for
  some events of the window, or none when the claim is skipped.
- Other job types: to the queue they are rows without a session, run one at a time.
- `defer` and the closing of an exhausted task are two commits but one action: a crash between
  them leaves the state a crash before them leaves, since `defer` changes only the error text of
  a row that exists.
- `retry_failed` looks for status `failed`, which no code writes; `force_finish_job` has no caller;
  `history_cleanup` deletes ended jobs after 30 or 90 days, and nothing inserts their keys again.

Recall side effects:

- A row has one mark and one vote; what a vote does to usefulness, episodes and policies is left out.
- `MaxRequests` bounds the receipts in progress at once; none arrive once the shutdown has begun, since
  the server takes no requests then.
- The removal of ended tasks after their retention is left out; nothing asks for them again.

Claim groups:

- One exclusive group with group-native cases. On ingestion, equal values in another form and the candidate
  limit choose between the branches `Reassert`, `Supersede` and `Contest` in the code by data; here the
  facts of the instance do (`change`, `ChangePredicates`). Source authority distinguishes there only two
  names for what becomes `Contest`, and a living claim has no end yet.
- A fact carries what the reviewer's rules for two claims read: `since` (`valid_from`), `until`, the end it
  has should it expire or be rejected (`valid_to`), and `authority`. Claims of one exclusive group share
  their coordinates and are no plans, so the rules' tests of these, and the rule for claims that may stand
  side by side, never decide; nor does `survivor_contested`, as a group has one open case. Random ids are
  compared as strings by one rule; `IdRank` is any order of them.
- Of a revision only matters whether it rose: it flips once per transaction that raises it.
- Only the deterministic tier of the reviewer is modelled, the only one the maintenance loop calls.
- Status candidate exists only inside a transaction. Deletion of claims is in Deletion.

Deletion:

- One extraction runs at a time, cases have two claims, `inactive` stands for superseded, archived and
  retracted, which deletion treats alike, `disputed` for candidate too.
- Of the closure, relations, proposals, scores and vectors are left out: nothing modelled depends on them.
- The correction's own event is left out, and so are the evidence links a deduplication copies when it
  merges claims.
- `MaxRestores` bounds the restores, and no copy is taken after the last one, since nothing reads it.
- Ledger and database belong together (the identity checks pass); the manifest's hash is the flag
  `sealed`. The replay is stated by its result for the whole ledger, not entry by entry.
- A restore needs every user of the database stopped (the sidecar check), and a crash in it leaves the
  target as it was.

Hermes adapter:

- One session; entries of others only take room. The rejection table, health counters, delivery receipts
  and the asynchronous calls are left out. Repeated sends of `retry_http` are one call.
- Which entry of the same status is evicted (the oldest, in the code) is left open. Time to live is a step.
- `executor.submit` does not fail, and the executor starts fetches in their order.

## 3. Runs

| run | instance | shows |
|---|---|---|
| `queue_safety` | 2 jobs of a session, windows of 2, 2 workers, 2 attempts, 2 faults | single ownership, only the owner settles, attempt budget, the contract, every job ends, the inductive invariant |
| `queue_success_report` | 3 jobs of a session, windows of 2, 2 workers, 1 stall | *violation*: a worker that has lost part of its window reports `succeeded` |
| `pipeline_two_events` | 2 events in shared windows, 1 retry each, a legacy dead row, 1 stall | retry accounting, convergence, the exhausted scan |
| `pipeline_one_event` | 1 event, 2 retries, 1 crash or stall, deletion, swallowed errors | one active job, refinement of the rounds, the event comes to rest, the inductive invariant |
| `pipeline_rate_limit` | 1 event, 1 crash | *violation*: an event that died of HTTP 429 never reaches the deferred queue |
| `pipeline_abandon` | 3 events, 1 stall | *violation*: a worker abandons the retry another worker registered |
| `recall_side_effects` | a batch and an audit record, a queue of 1, a receipt, 2 workers, 2 attempts, 1 fault | accepted work is tracked, done once, settles; a clean shutdown; the ledger; the inductive invariant |
| `recall_receipt` | 2 exposures, 1 receipt for both, 1 worker, no fault | *violation*: a receipt is refused although its exposure is there |
| `claims_safety` | 4 claims of 3 values, 2 case generations, 1 lifecycle operation or reviewer death | one active claim, no orphan but one kind, the dirty queue, stale decisions, transitions, decided cases close |
| `claims_orphans` | the same, no lifecycle operation | *violation*: disputed claims without an open case |
| `deletion` | 2 claims, 1 event, 1 death, 1 restore | deletions hold across corrections, copies and replay, what may come back, dangling evidence, orphans, the inductive invariant |
| `prefetch` | 2 foreground threads, 1 pool thread, 4 keys, room for 3 with 2 pending, 3 fetches, 4 calls, 2 writes | pending entries are served, room, staleness, the probe |

Bounds and why they suffice. Two workers are enough for a takeover, which needs an old owner and a
new one; a third would only repeat the second. Two jobs against a window of two give a whole window
and a half of one; the third job of `queue_success_report` lets a takeover take a part of a window and
another job with it, and the safety properties are proved for any number. One fault of any kind produces a lost lease or an orphaned row;
the second of `queue_safety` is a fault during the recovery from the first. `MaxAttempts` is 2 where
ordinary retries matter and 1 in the pipeline runs, where a retry inside the queue only repeats what
the queue runs cover. The pool of tokens exceeds what two workers and all rows can carry, so `LeaseJob`
never lacks one. A recall queue of one is full after one submission, and the audit record is the second.
Four claims of one group give a dispute, a third candidate and a claim that joins one; two generations
reopen a closed case. The four facts of the instance have two begins that differ, an end before a begin
and one after it, and two authorities, and the ids are not in the order of their claims, so each rule for
two claims decides somewhere, to a side that can be kept and to one that cannot. Two claims that share an event, with one backup and one restore, are every order
of deletion, death, copy and replay between two entries of the ledger. Four keys against three places
force an eviction with two pending; three fetches let a key be queued again while its cancelled
predecessor is still in the table; two calls of each foreground thread race a fetch with an
invalidation and with a shutdown. `CHECK_DEADLOCK FALSE` throughout: the systems rest when nothing more
comes in and the bounds are spent. Symmetry is used in runs without liveness only.

Two properties have side conditions. `ScanSparesSuccess` holds only as long as the convergence of
the tasks is not swallowed (`MaySwallow = FALSE`). The liveness runs bound the faults, as any
argument about progress must, but place no restriction on when they occur.

### Fairness

`run_forever` alternates maintenance and `run_once` for ever, each statement ends (SQLite has a busy
timeout) and each handler ends (provider calls have timeouts): weak fairness of each step of
`run_once` and of each maintenance item. A lease that nobody renews passes its deadline: weak
fairness of `OrphanedLeaseExpires`. The one strong fairness, `ExtractionEnds`, says that an
extraction does not store claims for ever: a window yields finitely many. Nothing is assumed of
ingestion, deletion, crashes, stalls, heartbeats, failures or swallowed errors.

The recall side effects assume weak fairness of the writer thread, a daemon thread that only waits
for its queue, and of what a worker does with a task it has taken. A maintenance pass goes through
all due tasks, so a task that is due again and again is taken again: strong fairness of `TakeTask`
for each task, since other workers may hold it in between. Clients and shutdowns owe nothing.
The conflict reviewer runs in every maintenance round and retries after a backoff: weak fairness of
`Reviewing`. Deletion and PrefetchCache state safety only.

### Disagreements found between the documents and the code

1. `docs/architecture.md` says terminal updates "must cover the complete window or the worker reports
   `lease_lost` instead of success", `docs/configuration.md` that a run which loses its token before the
   terminal write returns `lease_lost`. `run_once` reports the status of the first job of the window
   whenever `fail_jobs` reached any row. In the trace of `queue_success_report` the lease of a worker
   with jobs 1 and 3 expires, and another worker leases 1 and 2; the first finds at its next renewal
   that its lease is incomplete and fails row 3, the only one it still holds; the other completes 1 and
   2; the first reads job 1 again and reports `succeeded` for a run that lost its window.
2. `docs/CHANGELOG.md` and the docstring of `handle_failed_extractions` say that an event whose
   attempts were used up by HTTP 429 goes to the deferred queue. The death of the job and the
   registration are two transactions, and nothing repeats the second after a crash
   (`pipeline_rate_limit`).
3. `docs/CHANGELOG.md` says other errors keep the ordinary job semantics and an event is given up after
   several 429s. `dead_event_ids` includes rows that died at another worker, so a foreign error
   abandons a fresh retry (`pipeline_abandon`).
4. `docs/api.md` says feedback identifiers may be submitted immediately. The check asks row, memory and
   task in this order. An exposure whose record the writer has persisted before memory is asked is not
   in memory any more; when a worker carries its task out between the first question and the third,
   there was no row yet when rows were asked for and there is no open task when tasks are, and the
   receipt gets a 404 (`recall_receipt`). Asking in the direction of the movement, memory, task, row,
   would not have the gap.
5. `docs/architecture.md` says one open case owns all candidates of its group. A state change supersedes the
   group and leaves the case open; the next dispute joins it; the reviewer then closes it as obsolete,
   because its two old endpoints have one successor, and leaves the new candidates disputed without a
   case (`claims_orphans`). `OnlyObsoleteOrphans` shows this is the only way.

Further behaviour the models brought up that a reader of the code may want to know. It is stated as
the exceptions in properties that hold, not as violation runs of its own:

- An erased event can come back through a restore (`ErasedComesBackSpared`), although the deletion was
  answered: when its retry was pending in the backup; when a claim of the backup that was not deleted
  cites it; and when a deletion died after its ledger entry and was repeated, because `record_deletion`
  reuses the old entry, which is then replayed before the entries of claims deleted in between.
- An event ingested under the id of a deleted one gets no job, because the idempotency key of the first
  one stays behind, and the replay of a later restore removes it.
- The answer to a repeated deletion lists the events of the ledger entry as deleted without looking for
  them (`_replay_result`): one that was ingested again since, or spared by a replay, is listed all the same.
- When a person has rejected the last candidate of a group case, the reviewer falls back to its rules for two
  claims (`decide_l0` after the group rules). They may pick the successor of a side, or, by value, time or
  authority, a claim that was retracted or archived. Either is refused at every
  application (`resolve_followed_pair`, `_converge_winner`): the case stays dirty, is decided again after each
  backoff and never becomes the stable case for people that `docs/CHANGELOG.md:661` and
  `docs/architecture.md:333-334` describe, until a person or a new claim changes it. `DecidedCaseCloses`
  speaks of decisions that are accepted and leaves these out.
- A restore that removes one side of a dispute leaves the other side disputed (`OnlyReplayOrphans`).
- The triggers of the dirty queue watch the sides of a case, their tips and its members; the reviewer
  looks at the tips of all members (`_load_candidates`). When a member other than the sides was
  superseded by a claim outside the case and that claim ends, nothing queues the case, even if all its
  candidates have ended by then (`EndedUnseen`, the exception in `CleanMeansManual` and
  `DecidedCaseCloses`). It takes five claims and three ends, more than `claims_safety` has; it was seen on
  a larger instance, where long random simulation met no other exception to `CleanMeansManual`.
- `fetch_now` stores what it read although the session was invalidated meanwhile (`OnlyForegroundIsStale`);
  the docstring of `invalidate_session` promises this of old fetches, and background fetches keep it.
- `on_pre_compress` takes the probe right of a half-open breaker for itself, its own posts are then
  denied, and the right stays with that thread until a recall of the same thread fails (`ProbeIsUsed`).

## 4. Theorems

Each theorem holds for all values of the constants that the named assumption of its module allows; the
assumptions only give the constants their types and relations (`QueueAssumption` and
`PipelineAssumption`, `RecallAssumption`, `DeletionAssumption`, `CacheAssumption` and
`BreakerAssumption`, `GroupAssumption`, `IdRankAssumption` and `NoneAssumption`). Where a run checks the same property, it shows
on a small instance what the theorem states for all.

| theorem | statement |
|---|---|
| `QueueInvariant` | `QueueSpec => []QueueInv` |
| `QueueTypes` | `QueueSpec => []QueueTypeOK` |
| `SingleOwner` | `QueueSpec => []OneOwnerPerJob` |
| `AttemptsAreBounded` | `QueueSpec => []AttemptBudget` |
| `SettledByOwner` | `QueueSpec => OnlyOwnerSettles` |
| `QueueImplementsContract` | `QueueSpec => ImplementsContract` |
| `PipelineInvariant`, `PipelineTypes` | `Spec => []PipeInv`, `Spec => []TypeOK` |
| `OneJobAtATime` | `Spec => []OneActiveJob` |
| `RetriesAreCounted` | `Spec => []RetryAccounting` |
| `CompletedIsServed` | `Spec => []ConvergedWasServed` |
| `PipelineImplementsRounds` | `Spec => Rounds!RoundsSpec` |
| `PipelineKeepsContract` | `Spec => Contract!ContractSpec` |
| `ScanSparesExtracted` | `Spec => ScanSparesSuccess`, provided `~MaySwallow` |
| `RecallInvariant`, `RecallTypes` | `Spec => []RecallInv`, `Spec => []TypeOK` |
| `RecallEffectOnce` | `Spec => []EffectOnce` |
| `ExposuresAreTracked` | `Spec => []ExposureIsTracked` |
| `CleanCloseIsComplete` | `Spec => []CleanCloseKeepsAll` |
| `RecallImplementsLedger` | `Spec => ImplementsLedger` |
| `DeletionInvariant` | `Spec => []DeletionInv` |
| `DeletionsHold` | `Spec => []DeletedStaysDeleted` |
| `LateClaimsDangle` | `Spec => OnlyLateClaimsDangle` |
| `ReplayOrphans` | `Spec => OnlyReplayOrphans` |
| `ErasureIsRecorded` | `Spec => []ErasedIsRecorded` |
| `ErasedEventsStayAway` | `Spec => ErasedComesBackSpared` |
| `PrefetchInvariant`, `PrefetchTypes` | `Spec => []CacheInv`, `Spec => []TypeOK` |
| `PendingServed` | `Spec => []PendingIsServed` |
| `RoomIsFound` | `Spec => []RoomForPending` |
| `NothingStale` | `Spec => []OnlyForegroundIsStale` |
| `ProbeUsed` | `Spec => []ProbeIsUsed` |
| `ProbeDecides` | `Spec => OnlyProbeDecides` |
| `GroupInvariant`, `LineInvariant` | `Spec => []GroupInv`, `Spec => []LineInv` |
| `TypeCorrect` | `Spec => []TypeOK` (of ClaimGroups: every supersession chain ends) |
| `OneActiveClaim` | `Spec => []OneActive` |
| `OrphansAreObsolete` | `Spec => []OnlyObsoleteOrphans` |
| `DossiersHold` | `Spec => []DossierHolds` |
| `CleanIsForPeople` | `Spec => []CleanMeansManual` |
| `TransitionsAreLegal` | `Spec => LegalTransitions` |
| `VerdictsFit` | `Spec => VerdictFitsDocket` |

The argument for the queue. `OneOwnerPerJob` is not inductive: nothing in it forbids two workers to
hold the same token. `QueueInv` adds that tokens differ (`TokensDiffer`), that a running row has one
(`RunningIsLeased`), and that the worker with the token of a running row holds that row
(`HolderKnowsRow`); ownership then follows from the token. `AttemptBudget` needs `TakeoverIsPaid`: a
row that can be taken over, because its deadline passed or its worker is gone, has been paid for by
a fault that is not yet spent on another attempt. The refinement of the contract maps pending and running to open;
only `FailJobs` needs more than the invariant's types, namely `attempts >= MaxAttempts` for a death.

The argument for the pipeline. `RetryAccounting` is preserved by `ScheduleRetry` because the job number
comes from the row read earlier (`maint.seen`) and the update from the row as it is now: with
`seen <= taskAttempts` (`SeenIsPast`) the key `seen + 1` is absent only if `seen = taskAttempts`, so job and
counter move together. `OneActiveJob` rests on the second test inside the transaction and on
`KnownFirst`, by which the first job of an event exists before its task. The pipeline is built from
steps of JobQueue (the lemma `PipelineIsQueue` says no more than that), so the queue's theorems hold of it
without another proof; the refinement that says something of the code is that of the rounds.

`ScanSparesSuccess` follows a run from convergence to completion, with takeovers, retries and deletions
in between; `SpareInv` is the invariant it needs beside `PipeInv`. An open task has no job that succeeded
(`OpenIsUnfinished`). Jobs succeed only in a converged window, and there no row that may run has an open
task (`ConvergedIsClosed`): the convergence closed the tasks of the window's events, and an event the
window left out was gone when it was leased (`BatchCovers`), so nothing may run for it any more. That
stays so because nobody inserts a job for a deleted event with an open task (`RetryKeepsEvent`) and nobody
opens a task while a job of its event may run or has succeeded: who opens one has seen a dead job
(`DoomedIsDead`), and without a task there was no retry, so that job is the only one (`OpenedIsDead`). The
hypothesis `~MaySwallow` is used in one place, for the step from extracted to converged (`RunMemory`). The
property is false without it: a swallowed convergence leaves the task of an extracted event open, and when
its attempts are used up the scan abandons it.

The argument for the recall side effects. `EffectOnce` and `ExposureIsTracked` both need to know where
each submission is. `RecallInv` says so: exactly what was accepted is in memory, in the table or lost
(`EachIsSomewhere`), nothing is held twice in queue and writer (`HeldOnce`), rows and completed tasks
belong together (`RowsMatchTasks`). A clean shutdown follows from `SentinelComesLast`: the stop mark is
the last element ever queued, so the writer that took it leaves nothing behind. `BacklogCounts` keeps the
counter inside its bound. The refinement of EffectLedger computes the state of a record from these
parts; a receipt is done only after its exposure because the check inside its transaction looks at the
row.

The argument for deletion. `DeletedStaysDeleted` is about the database, a restore replaces the database
by the copy. `DeletionInv` therefore says the same of both: what claims refer to exists (`ClaimsExist`),
no claim exists before its identifier is handed out (`OnlyMinted`), and each confirmed deletion is in the
ledger (`ConfirmedIsRecorded`). The replay removes every claim of the ledger, so with `ConfirmedIsRecorded`
a restore cannot bring one back; identifiers are never used twice, so nothing else can. The action
properties are proved action by action from it.

`ErasedComesBackSpared` needs one fact more: an event whose deletion was answered is in an entry of the
ledger (`ErasedIsRecorded`), also when the entry is that of an earlier attempt that died. No step but
`Ingest` and `Restore` adds an event (`OnlyIngestAdds`), and after the first the event does not count as
deleted. When the replay spares the event at its entry (`ReplaySpares`), a retry awaits it in the backup, and
no replay takes away a retry; or a claim cites it that no entry up to this one names. If no later entry
names that claim either, it stays and so does its link. Otherwise the entry of the event stands before
that of the claim, which is what `Overtaken` says. The three exceptions are thus the only ones.

The argument for the Hermes cache. `PendingIsServed` is disturbed by every operation that cancels outside
the lock. `CacheInv` says why it holds all the same: a pending entry has a fetch of its own
(`EntriesFit`), a fetch is run once (`OneRunner`), a future that will run counts (`FuturesFit`), and what
an invalidation is about to cancel no entry waits for any more (`DoomedFits`). While the cache is open the
pending entries therefore map one to one into the counted futures, so fewer than `MaxPending` futures leave
room for another entry (`PendingCounts`, by the pigeonhole principle), and as `MaxPending < MaxEntries`
an eviction finds a victim (`RoomIsLeft`). `Fresh` carries the staleness argument: a fetch whose entry is
still pending was not invalidated since it was queued, so what it read covers the floor. The breaker
needs only `ProbeIsHalfOpen`: when the breaker is open or closed, nobody has the probe right.

The argument for the conflict groups has two parts, each with an invariant of its own.

`GroupInv` covers what the transactions see at once. `OneActive` is inductive (as `AtMostOne`): a
convergence supersedes the whole group, not only the members of the case; a dispute leaves nobody active;
`State` and `Resurrect` look first. `OnlyObsoleteOrphans` needs only that a case's sides and members exist
and that `ensure_group_conflict_case` attaches every claim it disputes. A dossier lists claims of the open
case (`DossierFits`), the triggers raise the revision whenever one of those changes its status
(`TouchedFits`), and a raised revision voids the dossier; that is `DossierHolds`. A verdict is the value of
the deterministic rules on its own docket (`VerdictDecided`). The compare-and-set demands that the docket
is still the group's, and the rules read nothing else (`DecideReads`); so it is also what the rules say now.

`LineInv` covers the supersession chains, which no single transaction sees. `superseded_by_id` could form a
ring as far as the schema is concerned, and `resolve_claim_lineage` would never end. `Ranked` excludes it:
there is a rank that falls along every chain and is no higher than there are superseded claims; it
survives because every convergence leads to a claim that is not superseded itself. From it follow that a
walk of `MaxClaims` steps reaches the end (`TipIsLast`), that the end is the only solution of the recursive
equation (`TipIsSolution`), and `TipMoves`: a convergence moves exactly the tips it supersedes, all of
them to the winner. The dirty queue rests on that. `CleanFits` says that a case that is not queued has its
present tips recorded and is one for people, or has ended unseen. It becomes so when the reviewer says
Manual (`LineManual`), by the rules for candidates or, when there are none left, by those for the ends of the
two sides, whose statuses, facts and rejections the triggers watch as well. Afterwards either the case is queued again or the step was quiet: what the triggers
watch is the same, so the two sides lead where they led; claims that joined are alive; other tips move only
to a claim that has just become active. Under these conditions the candidates that are alive can only become
more, unless one has lost its tip where nobody watches, which is `EndedUnseen` (`QuietKeepsClean`). The
exception is therefore not only what TLC met but all there is.

Only model-checked:

- liveness (`EveryJobEnds`, `EveryEventSettles`, `AcceptedWorkSettles`, `DecidedCaseCloses`): it rests on
  fairness, hence on `ENABLED`, which TLAPS does not handle. Every invariant, every action property and
  every refinement that a passing run checks is also proved.

## 5. Status and what is not modelled

The components whose correctness depends on the order of steps are modelled: queue, retries, recall side
effects, conflict groups, deletion with backup and restore, and the Hermes cache. Worth adding, in
this order: the asynchronous calls and delivery receipts of the Hermes provider, evidence copied by
deduplication in Deletion.

Not modelled:

- **Plan fulfilment** works in one write transaction over rows it reads inside it; what it decides is
  text matching.
- **Semantic jobs** (deduplication, relations, consolidation, policies) are handlers of leased jobs; the
  queue models how they are run, their decisions are a language model's.
- **LLM extraction** and the **recall pipeline** turn text into text and scores; they keep no state but
  the side effects that are modelled. A model of them would restate their arithmetic.
- The **resurrection** of a claim that needs an embedding is done in two steps; the second repeats the
  checks of the first in its own transaction, so only that one is modelled.
- **Storage engine**: connections, migrations and vector tables. The models take one committed
  transaction as one step, which is what it provides.
- **HTTP, MCP, command line**, **configuration, plugins and observability**: thin handlers, static
  settings, append-only telemetry.
- **Evaluation and scripts** are benchmarks and release tooling. With the data-only parts above they are
  most of the lines of the repository, which is why the modelled code, though it is the part that runs
  concurrently, is a small share of all lines.
