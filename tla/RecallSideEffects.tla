------------------------- MODULE RecallSideEffects --------------------------
(***************************************************************************)
(* The side effects of a recall, from the request thread to the database:  *)
(* RecallSideEffectDispatcher (application/recall_side_effects.py), a      *)
(* bounded in-memory queue with one writer thread that turns submissions   *)
(* into deferred tasks; the workers that carry the tasks out               *)
(* (workers/deferred.py); and the receipts a client sends about an         *)
(* exposure that may not be visible yet (experience/service.py).           *)
(*                                                                         *)
(* Every action is one critical section of the dispatcher's lock, one      *)
(* statement, or one transaction; anything may run between two of them.    *)
(* Time is not modelled: a delay or a timeout may end at any moment.       *)
(***************************************************************************)
EXTENDS Integers, Sequences, FiniteSets, Functions

CONSTANTS
    Submissions,  \* what recalls submit
    Audits,       \* the submissions that are audit records or LLM spans
    Exposures,    \* ids of retrieval_feedback rows
    IdsOf,        \* IdsOf[s]: the exposures submission s carries, if any
    Disabled,     \* submissions whose task type the configuration disables
    Receipts,     \* what clients report about exposures
    Covers,       \* Covers[r]: the exposures receipt r names, in order
    Workers,      \* worker processes
    MaxPending,   \* max_pending: the capacity of the queue
    MaxAttempts,  \* recall_side_effect_max_attempts
    MaxRequests,  \* bound: requests about receipts in progress at once
    MaxFaults,    \* bound: database errors, crashes and restarts in a behaviour
    Stop,         \* the None that ends the writer thread
    Nothing

Records == Submissions \cup Receipts

ASSUME RecallAssumption ==
    /\ Audits \subseteq Submissions
    /\ IdsOf \in [Submissions -> SUBSET Exposures]
    /\ \A s, t \in Submissions : s # t => IdsOf[s] \cap IdsOf[t] = {}
    /\ \A s \in Audits : IdsOf[s] = {}
    /\ Disabled \subseteq Submissions \ Audits
    /\ Covers \in [Receipts -> Seq(Exposures) \ {<<>>}]
    /\ Submissions \cap Receipts = {}
    /\ Stop \notin Submissions \cup {Nothing}
    /\ Nothing \notin Records
    /\ MaxPending \in Nat \ {0}
    /\ MaxAttempts \in Nat \ {0}
    /\ MaxRequests \in Nat
    /\ MaxFaults \in Nat

VARIABLES
    queue,     \* _queue
    accepted,  \* _accepted_exposure_ids
    backlog,   \* _pending
    writer,    \* where the writer thread is
    inflight,  \* the submission the writer has taken
    tries,     \* failed attempts to persist it
    closer,    \* how far close() has come, or what it returned
    drained,   \* what drain() returned
    offered,   \* offered[s]: what _submit answered
    lost,      \* history: accepted submissions given up before they were durable
    task,      \* task[k]: deferred_tasks.status, or absent
    attempts,  \* attempts[k]: deferred_tasks.attempts
    counted,   \* counted[s]: how often the effect of s was carried out
    visible,   \* exposures with a retrieval_feedback row
    applied,   \* receipts whose mark or vote is on the rows
    request,   \* request[r]: the check the request about r makes next
    working,   \* working[w]: the task worker w handles
    failing,   \* workers whose handler raised
    faults     \* faults so far

dispatcherVars == <<queue, accepted, backlog, writer, inflight, tries, closer, drained>>
taskVars       == <<task, attempts, counted>>
feedbackVars   == <<visible, applied>>
workerVars     == <<working, failing>>
vars == <<dispatcherVars, offered, lost, taskVars, feedbackVars, request, workerVars, faults>>

TaskStates  == {"absent", "pending", "completed", "abandoned"}
WriterSteps == {"unborn", "waiting", "trying", "finishing", "ended"}
CloseSteps  == {"open", "draining", "sentinel", "joining", "clean", "dirty"}
Checks      == {"row", "memory", "task", "register"}

\* The receipt the request handles is at position `at` of its exposures.
NoRequest == [at |-> 0, check |-> "none"]

TypeOK ==
    /\ queue \in Seq(Submissions \cup {Stop}) /\ Len(queue) <= MaxPending
    /\ accepted \subseteq Exposures
    /\ backlog \in 0..(MaxPending + 1)
    /\ writer \in WriterSteps
    /\ inflight \in Submissions \cup {Nothing}
    /\ (inflight = Nothing) <=> (writer \notin {"trying", "finishing"})
    /\ tries \in 0..MaxAttempts
    /\ closer \in CloseSteps
    /\ drained \in BOOLEAN
    /\ offered \in [Submissions -> {"new", "accepted", "refused"}]
    /\ lost \subseteq Submissions
    /\ task \in [Records -> TaskStates]
    /\ attempts \in [Records -> 0..MaxAttempts]
    /\ counted \in [Submissions -> Nat]
    /\ visible \subseteq Exposures
    /\ applied \subseteq Receipts
    /\ request \in [Receipts -> [at : Nat, check : Checks \cup {"none"}]]
    /\ working \in [Workers -> Records \cup {Nothing}]
    /\ failing \subseteq Workers
    /\ faults \in 0..MaxFaults

Init ==
    /\ queue = <<>> /\ accepted = {} /\ backlog = 0
    /\ writer = "unborn" /\ inflight = Nothing /\ tries = 0
    /\ closer = "open" /\ drained = FALSE
    /\ offered = [s \in Submissions |-> "new"]
    /\ lost = {}
    /\ task = [k \in Records |-> "absent"]
    /\ attempts = [k \in Records |-> 0]
    /\ counted = [s \in Submissions |-> 0]
    /\ visible = {} /\ applied = {}
    /\ request = [r \in Receipts |-> NoRequest]
    /\ working = [w \in Workers |-> Nothing]
    /\ failing = {}
    /\ faults = 0
-----------------------------------------------------------------------------
(***************************************************************************)
(* Helpers                                                                 *)
(***************************************************************************)
Covered(r) == Range(Covers[r])

\* The submission that carries exposure x, as a set.
CarrierOf(x) == {s \in Submissions : x \in IdsOf[s]}

\* An audit record is written once, a task is registered with retries.
TryLimit(s) == IF s \in Audits THEN 1 ELSE MaxAttempts

\* Accepted submissions that live only in the memory of the server.
InMemory == {s \in Submissions : s \in Range(queue) \/ (s = inflight /\ writer = "trying")}

Fault == faults < MaxFaults /\ faults' = faults + 1
-----------------------------------------------------------------------------
(***************************************************************************)
(* The request thread of a recall: _submit.                                *)
(***************************************************************************)
Enqueue(s) ==
    /\ queue' = Append(queue, s)
    /\ writer' = IF writer = "unborn" THEN "waiting" ELSE writer
    /\ backlog' = backlog + 1
    /\ accepted' = accepted \cup IdsOf[s]
    /\ offered' = [offered EXCEPT ![s] = "accepted"]
    /\ UNCHANGED <<inflight, tries, closer, drained, lost, taskVars, feedbackVars, request,
                   workerVars, faults>>

\* Variant to refute: the closed flag is not looked at.
SubmitWhileClosing(s) == offered[s] = "new" /\ Len(queue) < MaxPending /\ Enqueue(s)

Submit(s) ==
    /\ offered[s] = "new"
    /\ closer = "open"
    /\ Len(queue) < MaxPending
    /\ Enqueue(s)

Refuse(s) ==
    /\ offered[s] = "new"
    /\ closer # "open" \/ Len(queue) >= MaxPending
    /\ offered' = [offered EXCEPT ![s] = "refused"]
    /\ UNCHANGED <<dispatcherVars, lost, taskVars, feedbackVars, request, workerVars, faults>>
-----------------------------------------------------------------------------
(***************************************************************************)
(* The writer thread: _run and _persist_deferred.                          *)
(***************************************************************************)
\* Variant to refute: the exposures leave the set when their record is taken.
WriterForgetsEarly ==
    /\ writer = "waiting"
    /\ queue # <<>>
    /\ queue' = Tail(queue)
    /\ IF Head(queue) = Stop
       THEN writer' = "ended" /\ UNCHANGED <<inflight, accepted>>
       ELSE /\ writer' = "trying" /\ inflight' = Head(queue)
            /\ accepted' = accepted \ IdsOf[Head(queue)]
    /\ tries' = 0
    /\ UNCHANGED <<backlog, closer, drained, offered, lost, taskVars, feedbackVars, request,
                   workerVars, faults>>

WriterTakes ==
    /\ writer = "waiting"
    /\ queue # <<>>
    /\ queue' = Tail(queue)
    /\ IF Head(queue) = Stop
       THEN writer' = "ended" /\ inflight' = Nothing
       ELSE writer' = "trying" /\ inflight' = Head(queue)
    /\ tries' = 0
    /\ UNCHANGED <<accepted, backlog, closer, drained, offered, lost, taskVars, feedbackVars,
                   request, workerVars, faults>>

\* defer() registers a task; the audit logger and the span recorder write.
Persist ==
    /\ writer = "trying"
    /\ writer' = "finishing"
    /\ IF inflight \in Audits
       THEN /\ task' = [task EXCEPT ![inflight] = "completed"]
            /\ counted' = [counted EXCEPT ![inflight] = @ + 1]
       ELSE /\ task' = [task EXCEPT ![inflight] = IF @ = "absent" THEN "pending" ELSE @]
            /\ UNCHANGED counted
    /\ UNCHANGED <<queue, accepted, backlog, inflight, tries, closer, drained, offered, lost,
                   attempts, feedbackVars, request, workerVars, faults>>

PersistFails ==
    /\ writer = "trying"
    /\ Fault
    /\ tries' = tries + 1
    /\ IF tries' >= TryLimit(inflight)
       THEN writer' = "finishing" /\ lost' = lost \cup {inflight}
       ELSE UNCHANGED <<writer, lost>>
    /\ UNCHANGED <<queue, accepted, backlog, inflight, closer, drained, offered, taskVars,
                   feedbackVars, request, workerVars>>

\* The finally block.
Finish ==
    /\ writer = "finishing"
    /\ writer' = "waiting"
    /\ inflight' = Nothing
    /\ accepted' = accepted \ IdsOf[inflight]
    /\ backlog' = backlog - 1
    /\ UNCHANGED <<queue, tries, closer, drained, offered, lost, taskVars, feedbackVars,
                   request, workerVars, faults>>
-----------------------------------------------------------------------------
(***************************************************************************)
(* close(), called once when the server shuts down, and the server's end.  *)
(***************************************************************************)
BeginClose ==
    /\ closer = "open"
    /\ closer' = IF writer = "unborn" THEN "clean" ELSE "draining"
    /\ UNCHANGED <<queue, accepted, backlog, writer, inflight, tries, drained, offered, lost,
                   taskVars, feedbackVars, request, workerVars, faults>>

\* drain() saw an empty backlog, or its time ran out before that.
Drain ==
    /\ closer = "draining"
    /\ closer' = "sentinel"
    /\ drained' = (backlog = 0)
    /\ UNCHANGED <<queue, accepted, backlog, writer, inflight, tries, offered, lost, taskVars,
                   feedbackVars, request, workerVars, faults>>

PutSentinel ==
    /\ closer = "sentinel"
    /\ IF Len(queue) >= MaxPending
       THEN closer' = "dirty" /\ UNCHANGED queue
       ELSE closer' = "joining" /\ queue' = Append(queue, Stop)
    /\ UNCHANGED <<accepted, backlog, writer, inflight, tries, drained, offered, lost, taskVars,
                   feedbackVars, request, workerVars, faults>>

\* join() returned because the thread ended or because its time ran out.
Join ==
    /\ closer = "joining"
    /\ closer' = IF drained /\ writer = "ended" THEN "clean" ELSE "dirty"
    /\ UNCHANGED <<queue, accepted, backlog, writer, inflight, tries, drained, offered, lost,
                   taskVars, feedbackVars, request, workerVars, faults>>

\* The process is gone with its daemon thread, and a new one starts.
Restart ==
    /\ queue' = <<>> /\ accepted' = {} /\ backlog' = 0
    /\ writer' = "unborn" /\ inflight' = Nothing /\ tries' = 0
    /\ closer' = "open" /\ drained' = FALSE
    /\ lost' = lost \cup InMemory
    /\ request' = [r \in Receipts |-> NoRequest]
    /\ UNCHANGED <<offered, taskVars, feedbackVars, workerVars>>

ServerExits == closer \in {"clean", "dirty"} /\ Fault /\ Restart

ServerCrash == Fault /\ Restart
-----------------------------------------------------------------------------
(***************************************************************************)
(* A receipt about exposures: mark_feedback_injected_eventually and        *)
(* submit_retrieval_feedback_eventually.                                   *)
(***************************************************************************)
\* The transaction of mark_feedback_injected_batch and submit_retrieval_feedback;
\* what they write is abstracted to the fact that it is written.
Effect(r) == applied' = applied \cup {r}

\* A client knows the ids of the exposures its recalls were answered with; a
\* server that shuts down takes no more requests.
Known(r) == \A x \in Covered(r) : \E s \in CarrierOf(x) : offered[s] = "accepted"

Sends(r) == request[r] = NoRequest /\ Known(r) /\ closer = "open"

ReceiptApplies(r) ==
    /\ Sends(r)
    /\ Covered(r) \subseteq visible
    /\ Effect(r)
    /\ UNCHANGED <<dispatcherVars, offered, lost, taskVars, visible, request, workerVars, faults>>

ReceiptEarly(r) ==
    /\ Sends(r)
    /\ Cardinality({q \in Receipts : request[q] # NoRequest}) < MaxRequests
    /\ ~(Covered(r) \subseteq visible)
    /\ request' = [request EXCEPT ![r] = [at |-> 1, check |-> "row"]]
    /\ UNCHANGED <<dispatcherVars, offered, lost, taskVars, feedbackVars, workerVars, faults>>

\* The exposure at hand is expected: on to the next one, or to the task.
Expected(r) ==
    IF request[r].at = Len(Covers[r])
    THEN [request[r] EXCEPT !.check = "register"]
    ELSE [at |-> request[r].at + 1, check |-> "row"]

\* One source of _feedback_ids_are_expected says yes, or the next one is asked.
Ask(r, check, yes, next) ==
    /\ request[r].check = check
    /\ request' = [request EXCEPT ![r] = IF yes THEN Expected(r) ELSE [@ EXCEPT !.check = next]]
    /\ UNCHANGED <<dispatcherVars, offered, lost, taskVars, feedbackVars, workerVars, faults>>

CheckRow(r) == Ask(r, "row", Covers[r][request[r].at] \in visible, "memory")

CheckMemory(r) == Ask(r, "memory", Covers[r][request[r].at] \in accepted, "task")

\* has_pending_recall_exposure is asked last; without it the receipt gets a 404.
CheckTask(r) ==
    /\ request[r].check = "task"
    /\ IF \E s \in CarrierOf(Covers[r][request[r].at]) : task[s] = "pending"
       THEN request' = [request EXCEPT ![r] = Expected(r)]
       ELSE request' = [request EXCEPT ![r] = NoRequest]
    /\ UNCHANGED <<dispatcherVars, offered, lost, taskVars, feedbackVars, workerVars, faults>>

\* Variant to refute: a terminal task is opened again.
RegisterAgain(r) ==
    /\ request[r].check = "register"
    /\ task' = [task EXCEPT ![r] = "pending"]
    /\ request' = [request EXCEPT ![r] = NoRequest]
    /\ UNCHANGED <<dispatcherVars, offered, lost, attempts, counted, feedbackVars, workerVars, faults>>

Register(r) ==
    /\ request[r].check = "register"
    /\ task' = [task EXCEPT ![r] = IF @ = "absent" THEN "pending" ELSE @]
    /\ request' = [request EXCEPT ![r] = NoRequest]
    /\ UNCHANGED <<dispatcherVars, offered, lost, attempts, counted, feedbackVars, workerVars, faults>>
-----------------------------------------------------------------------------
(***************************************************************************)
(* The workers: process_recall_side_effect_tasks and its handlers.         *)
(***************************************************************************)
Due(k) == task[k] = "pending" /\ attempts[k] < MaxAttempts

TakeTask(w, k) ==
    /\ working[w] = Nothing
    /\ Due(k)
    /\ k \notin Disabled
    /\ working' = [working EXCEPT ![w] = k]
    /\ UNCHANGED <<dispatcherVars, offered, lost, taskVars, feedbackVars, request, failing, faults>>

\* abandon_task for an exhausted task and for one of a disabled type.
Abandon(k) ==
    /\ task[k] = "pending"
    /\ attempts[k] >= MaxAttempts \/ k \in Disabled
    /\ task' = [task EXCEPT ![k] = "abandoned"]
    /\ UNCHANGED <<dispatcherVars, offered, lost, attempts, counted, feedbackVars, request,
                   workerVars, faults>>

Release(w) == working' = [working EXCEPT ![w] = Nothing]

Complete(k) == task' = [task EXCEPT ![k] = "completed"]

\* _record_recall_access and _record_recall_exposures.
Materialize(w, s) ==
    /\ counted' = [counted EXCEPT ![s] = @ + 1]
    /\ visible' = visible \cup IdsOf[s]
    /\ Complete(s)
    /\ Release(w)
    /\ UNCHANGED <<applied, failing>>

\* _apply_retrieval_feedback and _mark_recall_feedback_injected.
ApplyReceipt(w, r) ==
    \/ /\ Covered(r) \subseteq visible
       /\ Effect(r)
       /\ Complete(r)
       /\ Release(w)
       /\ UNCHANGED <<counted, visible, failing>>
    \/ /\ ~(Covered(r) \subseteq visible)
       /\ failing' = failing \cup {w}
       /\ UNCHANGED <<task, counted, feedbackVars, working>>

HandleUnchanged == UNCHANGED <<dispatcherVars, offered, lost, attempts, request, faults>>

\* Variant to refute: the handler trusts the task it read before.
HandleUnchecked(w) ==
    /\ working[w] # Nothing /\ w \notin failing
    /\ \/ working[w] \in Submissions /\ Materialize(w, working[w])
       \/ working[w] \in Receipts /\ ApplyReceipt(w, working[w])
    /\ HandleUnchanged

Handle(w) ==
    /\ working[w] # Nothing /\ w \notin failing
    /\ \/ /\ task[working[w]] = "pending" /\ working[w] \in Submissions
          /\ Materialize(w, working[w])
       \/ /\ task[working[w]] = "pending" /\ working[w] \in Receipts
          /\ ApplyReceipt(w, working[w])
       \/ /\ task[working[w]] # "pending" /\ Release(w)
          /\ UNCHANGED <<task, counted, feedbackVars, failing>>
    /\ HandleUnchanged

HandleFails(w) ==
    /\ working[w] # Nothing /\ w \notin failing
    /\ Fault
    /\ failing' = failing \cup {w}
    /\ UNCHANGED <<dispatcherVars, offered, lost, taskVars, feedbackVars, request, working>>

\* Variant to refute: a failed attempt is not counted.
RecordFailureUncounted(w) ==
    /\ w \in failing
    /\ failing' = failing \ {w}
    /\ Release(w)
    /\ UNCHANGED <<dispatcherVars, offered, lost, taskVars, feedbackVars, request, faults>>

\* Variant to refute: the update does not check the budget again.
RecordFailureBlindly(w) ==
    /\ w \in failing
    /\ failing' = failing \ {w}
    /\ Release(w)
    /\ attempts' = [attempts EXCEPT ![working[w]] = @ + 1]
    /\ UNCHANGED <<dispatcherVars, offered, lost, task, counted, feedbackVars, request, faults>>

RecordFailure(w) ==
    /\ w \in failing
    /\ failing' = failing \ {w}
    /\ Release(w)
    /\ attempts' = [attempts EXCEPT ![working[w]] = IF Due(working[w]) THEN @ + 1 ELSE @]
    /\ UNCHANGED <<dispatcherVars, offered, lost, task, counted, feedbackVars, request, faults>>

WorkerCrash(w) ==
    /\ working[w] # Nothing
    /\ Fault
    /\ Release(w)
    /\ failing' = failing \ {w}
    /\ UNCHANGED <<dispatcherVars, offered, lost, taskVars, feedbackVars, request>>
-----------------------------------------------------------------------------
Writer == WriterTakes \/ Persist \/ PersistFails \/ Finish
Close  == BeginClose \/ Drain \/ PutSentinel \/ Join \/ ServerExits \/ ServerCrash

Request(r) ==
    ReceiptApplies(r) \/ ReceiptEarly(r) \/ CheckRow(r) \/ CheckMemory(r) \/ CheckTask(r) \/ Register(r)

Work(w) ==
    \/ \E k \in Records : TakeTask(w, k)
    \/ Handle(w) \/ HandleFails(w) \/ RecordFailure(w) \/ WorkerCrash(w)

Next ==
    \/ \E s \in Submissions : Submit(s) \/ Refuse(s)
    \/ Writer
    \/ Close
    \/ \E r \in Receipts : Request(r)
    \/ \E k \in Records : Abandon(k)
    \/ \E w \in Workers : Work(w)

\* The writer thread runs; a worker's pass goes through all tasks that are due,
\* so none is passed over for ever.  Clients and the shutdown owe nothing.
Fairness ==
    /\ WF_vars(WriterTakes) /\ WF_vars(Persist) /\ WF_vars(Finish)
    /\ \A k \in Records \ Audits :
        SF_vars(\E w \in Workers : TakeTask(w, k)) /\ WF_vars(Abandon(k))
    /\ \A w \in Workers : WF_vars(Handle(w)) /\ WF_vars(RecordFailure(w))

Spec == Init /\ [][Next]_vars

FairSpec == Spec /\ Fairness
-----------------------------------------------------------------------------
(***************************************************************************)
(* Properties                                                              *)
(***************************************************************************)
\* An accepted exposure can be found at any moment: in the memory of the
\* dispatcher, as a pending task or as a row, unless it was lost with the
\* process or given up.
ExposureIsTracked ==
    \A s \in Submissions : \A x \in IdsOf[s] :
        offered[s] = "accepted" =>
            \/ x \in accepted \/ task[s] = "pending" \/ x \in visible
            \/ s \in lost \/ task[s] = "abandoned"

\* The effect of a submission is carried out exactly as often as its task
\* completes, which is at most once, however many workers took the task.
EffectOnce == \A s \in Submissions : counted[s] = IF task[s] = "completed" THEN 1 ELSE 0

\* When close() reports success, nothing that was accepted is only in memory.
CleanCloseKeepsAll ==
    closer = "clean" =>
        \A s \in Submissions : offered[s] = "accepted" => task[s] # "absent" \/ s \in lost

-----------------------------------------------------------------------------
(***************************************************************************)
(* What the safety properties rest on, step by step.                       *)
(***************************************************************************)
\* Stop is the last thing ever put on the queue, and the thread that takes it
\* leaves nothing behind.
SentinelComesLast ==
    /\ \A i \in 1..Len(queue) :
        queue[i] = Stop => i = Len(queue) /\ closer \in {"joining", "dirty"}
    /\ writer = "ended" => queue = <<>> /\ closer \in {"joining", "clean", "dirty"}
    /\ writer = "unborn" => queue = <<>> /\ closer \in {"open", "clean"}
    /\ closer = "clean" => writer \in {"unborn", "ended"}

\* _pending counts what waits and what is being written.
BacklogCounts ==
    backlog = Len(queue) - (IF queue # <<>> /\ queue[Len(queue)] = Stop THEN 1 ELSE 0)
                         + (IF inflight = Nothing THEN 0 ELSE 1)

\* Nothing is held twice, and what is held keeps its exposures in the set.
HeldOnce ==
    /\ \A i, j \in 1..Len(queue) : queue[i] = queue[j] => i = j
    /\ \A i \in 1..Len(queue) : queue[i] # inflight
    /\ \A s \in Submissions :
        s \in Range(queue) \cup {inflight} => offered[s] = "accepted" /\ IdsOf[s] \subseteq accepted

\* Exactly what was accepted is in memory, in the table, or lost.
EachIsSomewhere ==
    /\ \A s \in Submissions :
        /\ offered[s] # "accepted" => task[s] = "absent" /\ s \notin lost
        /\ s \in InMemory => task[s] = "absent" /\ s \notin lost
        /\ s \in lost => task[s] = "absent"
        /\ offered[s] = "accepted" => s \in InMemory \/ s \in lost \/ task[s] # "absent"
    /\ writer = "trying" => tries < TryLimit(inflight)

\* Rows and completed tasks belong together.
RowsMatchTasks ==
    /\ \A s \in Submissions : task[s] = "completed" => IdsOf[s] \subseteq visible
    /\ \A x \in visible : \A s \in CarrierOf(x) : task[s] = "completed"
    /\ \A s \in Audits : task[s] \in {"absent", "completed"}

\* The inductive invariant behind ExposureIsTracked, EffectOnce,
\* CleanCloseKeepsAll and ImplementsLedger.
RecallInv ==
    /\ TypeOK
    /\ SentinelComesLast
    /\ BacklogCounts
    /\ HeldOnce
    /\ EachIsSomewhere
    /\ RowsMatchTasks
    /\ EffectOnce

\* The dispatcher, the tasks and the receipts keep the promises of EffectLedger.
LedgerOf(k) ==
    IF k \in Receipts
    THEN CASE k \in applied -> "done"
           [] k \notin applied /\ task[k] = "absent" -> "none"
           [] k \notin applied /\ task[k] = "abandoned" -> "dropped"
           [] OTHER -> "taken"
    ELSE CASE task[k] = "completed" -> "done"
           [] task[k] = "abandoned" \/ k \in lost -> "dropped"
           [] task[k] # "completed" /\ task[k] # "abandoned" /\ k \notin lost ->
                IF offered[k] = "accepted" THEN "taken" ELSE "none"

Ledger == INSTANCE EffectLedger WITH
    Immediate <- Receipts,
    Needs <- [k \in Records |-> IF k \in Receipts THEN UNION {CarrierOf(x) : x \in Covered(k)} ELSE {}],
    ledger <- [k \in Records |-> LedgerOf(k)]

ImplementsLedger == Ledger!LedgerSpec

\* What was accepted, and every receipt that waits, comes to an end: carried
\* out, given up after its attempts, or lost with the process.
AcceptedWorkSettles ==
    /\ \A s \in Submissions :
        offered[s] = "accepted" ~> (s \in lost \/ task[s] \in {"completed", "abandoned"})
    /\ \A r \in Receipts : task[r] = "pending" ~> task[r] \in {"completed", "abandoned"}

\* A receipt gets a 404 only when its exposure was lost or given up before.
NoFalse404 ==
    \A r \in Receipts :
        request[r].check = "task" =>
            \E s \in CarrierOf(Covers[r][request[r].at]) :
                task[s] \in {"pending", "abandoned"} \/ s \in lost
=============================================================================
