--------------------------- MODULE RecallProofs ----------------------------
(***************************************************************************)
(* Proofs about RecallSideEffects, for every value of its constants: the   *)
(* inductive invariant RecallInv, the safety properties it implies, and    *)
(* that dispatcher, tasks and receipts implement EffectLedger.             *)
(***************************************************************************)
EXTENDS RecallSideEffects, TLAPS

(***************************************************************************)
(* Lemmas about the operators                                              *)
(***************************************************************************)
\* What an append adds to the elements of a queue.
LEMMA AppendElements ==
    ASSUME NEW S, NEW q \in Seq(S), NEW x \in S
    PROVE  /\ Append(q, x) \in Seq(S) /\ Len(Append(q, x)) = Len(q) + 1
           /\ Append(q, x) # <<>>
           /\ \A i \in 1..Len(q) : Append(q, x)[i] = q[i]
           /\ Append(q, x)[Len(q) + 1] = x
           /\ Range(Append(q, x)) = Range(q) \cup {x}
<1>1. Append(q, x) \in Seq(S) /\ Len(Append(q, x)) = Len(q) + 1
  OBVIOUS
<1>2. \A i \in 1..Len(q) : Append(q, x)[i] = q[i]
  OBVIOUS
<1>3. Append(q, x)[Len(q) + 1] = x
  OBVIOUS
<1>4. DOMAIN Append(q, x) = 1..Len(q) + 1 /\ DOMAIN q = 1..Len(q) /\ Len(q) \in Nat
  OBVIOUS
<1>5. Range(Append(q, x)) = Range(q) \cup {x}
  BY <1>2, <1>3, <1>4 DEF Range
<1>6. Append(q, x) # <<>>
  BY <1>1, <1>4
<1> QED BY <1>1, <1>2, <1>3, <1>5, <1>6

\* What taking the first element leaves of a queue.
LEMMA TailElements ==
    ASSUME NEW S, NEW q \in Seq(S), q # <<>>
    PROVE  /\ Tail(q) \in Seq(S) /\ Len(Tail(q)) = Len(q) - 1 /\ Len(q) \in Nat \ {0}
           /\ \A i \in 1..Len(Tail(q)) : Tail(q)[i] = q[i + 1]
           /\ Head(q) = q[1] /\ Head(q) \in S
           /\ Range(q) = Range(Tail(q)) \cup {Head(q)}
<1>1. /\ Tail(q) \in Seq(S) /\ Len(Tail(q)) = Len(q) - 1 /\ Len(q) \in Nat \ {0}
      /\ Head(q) = q[1] /\ Head(q) \in S
  OBVIOUS
<1>2. \A i \in 1..Len(Tail(q)) : Tail(q)[i] = q[i + 1]
  OBVIOUS
<1>3. DOMAIN q = 1..Len(q) /\ DOMAIN Tail(q) = 1..Len(q) - 1
  BY <1>1
<1>4. Range(q) \subseteq Range(Tail(q)) \cup {Head(q)}
  <2> SUFFICES ASSUME NEW i \in 1..Len(q), i # 1
               PROVE  q[i] \in Range(Tail(q))
    BY <1>1, <1>3 DEF Range
  <2>1. i - 1 \in 1..Len(q) - 1 /\ Tail(q)[i - 1] = q[i]
    BY <1>1, <1>2
  <2> QED BY <2>1, <1>3 DEF Range
<1>5. Range(Tail(q)) \cup {Head(q)} \subseteq Range(q)
  BY <1>1, <1>2, <1>3 DEF Range
<1> QED BY <1>1, <1>2, <1>4, <1>5

\* An empty queue has no elements.
LEMMA EmptyQueue ==
    ASSUME NEW S
    PROVE  <<>> \in Seq(S) /\ Len(<<>>) = 0 /\ Range(<<>>) = {}
BY DEF Range

\* The elements of a queue and its positions.
LEMMA RangeIndex ==
    ASSUME NEW S, NEW q \in Seq(S), NEW x
    PROVE  x \in Range(q) <=> \E i \in 1..Len(q) : q[i] = x
BY DEF Range

\* A queue of no length is empty.
LEMMA NoLength ==
    ASSUME NEW S, NEW q \in Seq(S)
    PROVE  Len(q) \in Nat /\ (Len(q) = 0 <=> q = <<>>) /\ (q # <<>> => Len(q) \in 1..Len(q))
<1>1. Len(q) \in Nat
  OBVIOUS
<1>2. Len(q) = 0 <=> q = <<>>
  OBVIOUS
<1> QED BY <1>1, <1>2

\* A submission and its exposures; no two submissions carry the same one.
LEMMA CarrierIsUnique ==
    ASSUME NEW s \in Submissions, NEW x \in IdsOf[s]
    PROVE  CarrierOf(x) = {s} /\ x \in Exposures
BY RecallAssumption DEF CarrierOf

\* The state of a request, and what becomes of it.
LEMMA NoRequestType == NoRequest \in [at : Nat, check : Checks \cup {"none"}]
BY DEF NoRequest

\* Whatever a receipt is answered leaves its request of the type TypeOK asks.
LEMMA RequestTypes ==
    ASSUME TypeOK, NEW r \in Receipts
    PROVE  /\ Expected(r) \in [at : Nat, check : Checks \cup {"none"}]
           /\ \A next \in Checks :
                [request[r] EXCEPT !.check = next] \in [at : Nat, check : Checks \cup {"none"}]
<1>1. request[r] \in [at : Nat, check : Checks \cup {"none"}]
  BY DEF TypeOK
<1>2. \A next \in Checks :
        [request[r] EXCEPT !.check = next] \in [at : Nat, check : Checks \cup {"none"}]
  BY <1>1
<1>3. Expected(r) \in [at : Nat, check : Checks \cup {"none"}]
  BY <1>1 DEF Expected, Checks
<1> QED BY <1>2, <1>3

(***************************************************************************)
(* The inductive invariant                                                 *)
(***************************************************************************)
\* The invariant holds before the server starts.
LEMMA RecallInit == Init => RecallInv
<1> SUFFICES ASSUME Init PROVE RecallInv
  OBVIOUS
<1> USE RecallAssumption DEF Init, Records
<1>1. Range(queue) = {} /\ Len(queue) = 0 /\ InMemory = {}
  BY DEF Range, InMemory
<1>2. TypeOK
  <2>1. queue \in Seq(Submissions \cup {Stop}) /\ Len(queue) <= MaxPending
    BY EmptyQueue
  <2>2. request \in [Receipts -> [at : Nat, check : Checks \cup {"none"}]]
    BY NoRequestType
  <2>3. task \in [Records -> TaskStates] /\ attempts \in [Records -> 0..MaxAttempts]
    BY DEF TaskStates
  <2>4. working \in [Workers -> Records \cup {Nothing}]
    OBVIOUS
  <2>5. backlog \in 0..(MaxPending + 1) /\ faults \in 0..MaxFaults /\ tries \in 0..MaxAttempts
    OBVIOUS
  <2>6. /\ writer \in WriterSteps /\ closer \in CloseSteps
        /\ (inflight = Nothing) <=> (writer \notin {"trying", "finishing"})
    BY DEF WriterSteps, CloseSteps
  <2>7. /\ offered \in [Submissions -> {"new", "accepted", "refused"}]
        /\ counted \in [Submissions -> Nat] /\ drained \in BOOLEAN
    OBVIOUS
  <2> QED BY <2>1, <2>2, <2>3, <2>4, <2>5, <2>6, <2>7 DEF TypeOK
<1>3. SentinelComesLast /\ BacklogCounts
  BY <1>1 DEF SentinelComesLast, BacklogCounts
<1>4. HeldOnce
  BY <1>1 DEF HeldOnce
<1>5. EachIsSomewhere /\ RowsMatchTasks /\ EffectOnce
  BY <1>1 DEF EachIsSomewhere, RowsMatchTasks, EffectOnce, Records
<1> QED BY <1>2, <1>3, <1>4, <1>5 DEF RecallInv

\* Types; the counter of the backlog needs BacklogCounts, the tries their limit.
LEMMA TypesStay == RecallInv /\ [Next]_vars => TypeOK'
<1> SUFFICES ASSUME RecallInv, [Next]_vars PROVE TypeOK'
  OBVIOUS
<1> USE RecallAssumption DEF RecallInv, TypeOK, WriterSteps, CloseSteps, TaskStates, Fault
<1>1. ASSUME NEW s \in Submissions, Submit(s) PROVE TypeOK'
  <2>1. s \in Submissions \cup {Stop} /\ queue \in Seq(Submissions \cup {Stop})
    OBVIOUS
  <2>2. queue' \in Seq(Submissions \cup {Stop}) /\ Len(queue') = Len(queue) + 1
    BY <1>1, <2>1, AppendElements DEF Submit, Enqueue
  <2>3. backlog' \in 0..(MaxPending + 1)
    BY <1>1, <2>1 DEF BacklogCounts, Submit, Enqueue, SentinelComesLast
  <2> QED BY <1>1, <2>2, <2>3 DEF Submit, Enqueue, taskVars, feedbackVars, workerVars
<1>2. ASSUME NEW s \in Submissions, Refuse(s) PROVE TypeOK'
  BY <1>2 DEF Refuse, dispatcherVars, taskVars, feedbackVars, workerVars
<1>3. CASE WriterTakes
  <2>1. /\ queue' \in Seq(Submissions \cup {Stop}) /\ Len(queue') = Len(queue) - 1
        /\ Head(queue) \in Submissions \cup {Stop}
    BY <1>3, TailElements DEF WriterTakes
  <2>2. Head(queue) # Stop => Head(queue) # Nothing
    BY <2>1 DEF Records
  <2> QED BY <1>3, <2>1, <2>2 DEF WriterTakes, taskVars, feedbackVars, workerVars
<1>4. CASE Persist
  <2>1. inflight \in Submissions
    BY <1>4 DEF Persist
  <2>2. task' \in [Records -> TaskStates] /\ counted' \in [Submissions -> Nat]
    <3>1. CASE inflight \in Audits
      <4>1. task' = [task EXCEPT ![inflight] = "completed"]
            /\ counted' = [counted EXCEPT ![inflight] = counted[inflight] + 1]
        BY <1>4, <3>1 DEF Persist
      <4> QED BY <2>1, <4>1 DEF Records
    <3>2. CASE inflight \notin Audits
      <4>1. task' = [task EXCEPT ![inflight] = IF task[inflight] = "absent" THEN "pending"
                                               ELSE task[inflight]]
            /\ counted' = counted
        BY <1>4, <3>2 DEF Persist
      <4> QED BY <2>1, <4>1 DEF Records
    <3> QED BY <3>1, <3>2
  <2> QED BY <1>4, <2>1, <2>2 DEF Persist, feedbackVars, workerVars
<1>5. CASE PersistFails
  BY <1>5 DEF PersistFails, taskVars, feedbackVars, workerVars, EachIsSomewhere, TryLimit
<1>6. CASE Finish
  <2>1. backlog' \in 0..(MaxPending + 1)
    BY <1>6 DEF BacklogCounts, Finish
  <2> QED BY <1>6, <2>1 DEF Finish, taskVars, feedbackVars, workerVars
<1>7. CASE BeginClose \/ Drain \/ Join
  BY <1>7 DEF BeginClose, Drain, Join, taskVars, feedbackVars, workerVars
<1>8. CASE PutSentinel
  <2>1. Stop \in Submissions \cup {Stop} /\ queue \in Seq(Submissions \cup {Stop})
    OBVIOUS
  <2>2. CASE Len(queue) >= MaxPending
    BY <1>8, <2>2 DEF PutSentinel, taskVars, feedbackVars, workerVars
  <2>3. CASE ~ (Len(queue) >= MaxPending)
    <3>1. queue' \in Seq(Submissions \cup {Stop}) /\ Len(queue') = Len(queue) + 1
      <4>1. queue' = Append(queue, Stop)
        BY <1>8, <2>3 DEF PutSentinel
      <4> QED BY <2>1, <4>1, AppendElements
    <3> QED BY <1>8, <2>3, <3>1 DEF PutSentinel, taskVars, feedbackVars, workerVars
  <2> QED BY <2>2, <2>3
<1>9. CASE ServerExits \/ ServerCrash
  <2>1. queue' \in Seq(Submissions \cup {Stop}) /\ Len(queue') <= MaxPending
    <3>1. queue' = <<>>
      BY <1>9 DEF ServerExits, ServerCrash, Restart
    <3> QED BY <3>1, EmptyQueue
  <2>2. request' \in [Receipts -> [at : Nat, check : Checks \cup {"none"}]]
    BY <1>9, NoRequestType DEF ServerExits, ServerCrash, Restart
  <2>3. backlog' \in 0..(MaxPending + 1) /\ faults' \in 0..MaxFaults /\ tries' \in 0..MaxAttempts
    BY <1>9 DEF ServerExits, ServerCrash, Restart
  <2> QED BY <1>9, <2>1, <2>2, <2>3 DEF ServerExits, ServerCrash, Restart, InMemory, taskVars, feedbackVars, workerVars
<1>10. ASSUME NEW r \in Receipts, Request(r) PROVE TypeOK'
  <2>1. CASE ReceiptApplies(r)
    BY <2>1 DEF ReceiptApplies, Effect, dispatcherVars, taskVars, workerVars
  <2>2. [at |-> 1, check |-> "row"] \in [at : Nat, check : Checks \cup {"none"}]
    BY DEF Checks
  <2>3. CASE ReceiptEarly(r)
    BY <2>2, <2>3 DEF ReceiptEarly, dispatcherVars, taskVars, feedbackVars, workerVars
  <2>4. CASE CheckRow(r) \/ CheckMemory(r) \/ CheckTask(r)
    <3>1. \A n \in {"memory", "task"} : n \in Checks
      BY DEF Checks
    <3>2. request' \in [Receipts -> [at : Nat, check : Checks \cup {"none"}]]
      <4>1. CASE CheckRow(r) \/ CheckMemory(r)
        <5>1. PICK n \in Checks, yes \in BOOLEAN :
                request' = [request EXCEPT ![r] = IF yes THEN Expected(r)
                                                  ELSE [request[r] EXCEPT !.check = n]]
          BY <4>1, <3>1 DEF CheckRow, CheckMemory, Ask
        <5> QED BY <5>1, RequestTypes
      <4>2. CASE CheckTask(r)
        <5>1. request' = [request EXCEPT ![r] = Expected(r)]
              \/ request' = [request EXCEPT ![r] = NoRequest]
          BY <4>2 DEF CheckTask
        <5>2. Expected(r) \in [at : Nat, check : Checks \cup {"none"}]
          BY RequestTypes
        <5>3. CASE request' = [request EXCEPT ![r] = Expected(r)]
          BY <5>2, <5>3
        <5>4. CASE request' = [request EXCEPT ![r] = NoRequest]
          BY <5>4, NoRequestType
        <5> QED BY <5>1, <5>3, <5>4
      <4> QED BY <2>4, <4>1, <4>2
    <3> QED BY <2>4, <3>2 DEF CheckRow, CheckMemory, CheckTask, Ask, dispatcherVars, taskVars,
                              feedbackVars, workerVars
  <2>5. CASE Register(r)
    BY <2>5, NoRequestType DEF Register, dispatcherVars, feedbackVars, workerVars, Records
  <2> QED BY <1>10, <2>1, <2>3, <2>4, <2>5 DEF Request
<1>11. ASSUME NEW k \in Records, Abandon(k) PROVE TypeOK'
  BY <1>11 DEF Abandon, dispatcherVars, feedbackVars, workerVars
<1>12. ASSUME NEW w \in Workers, Work(w) PROVE TypeOK'
  <2>1. ASSUME NEW k \in Records, TakeTask(w, k) PROVE TypeOK'
    BY <2>1 DEF TakeTask, dispatcherVars, taskVars, feedbackVars
  <2>2. CASE Handle(w)
    <3>1. working[w] \in Submissions \cup Receipts
      BY <2>2 DEF Handle, Records
    <3>2. CASE task[working[w]] = "pending" /\ working[w] \in Submissions
               /\ Materialize(w, working[w])
      <4>1. IdsOf[working[w]] \subseteq Exposures
        BY <3>2
      <4>2. task' \in [Records -> TaskStates] /\ counted' \in [Submissions -> Nat]
        BY <3>2 DEF Materialize, Complete, Records
      <4> QED BY <2>2, <3>2, <4>1, <4>2 DEF Handle, HandleUnchanged, Materialize, Release,
                                            dispatcherVars
    <3>3. CASE task[working[w]] = "pending" /\ working[w] \in Receipts
               /\ ApplyReceipt(w, working[w])
      <4>1. task' \in [Records -> TaskStates]
        BY <3>3 DEF ApplyReceipt, Complete, Records
      <4> QED BY <2>2, <3>3, <4>1 DEF Handle, HandleUnchanged, ApplyReceipt, Release, Effect,
                                      dispatcherVars, feedbackVars
    <3>4. CASE task[working[w]] # "pending"
      BY <2>2, <3>4 DEF Handle, HandleUnchanged, Release, dispatcherVars, feedbackVars
    <3> QED BY <2>2, <3>1, <3>2, <3>3, <3>4 DEF Handle
  <2>3. CASE HandleFails(w)
    BY <2>3 DEF HandleFails, dispatcherVars, taskVars, feedbackVars
  <2>4. CASE RecordFailure(w)
    <3>1. attempts' \in [Records -> 0..MaxAttempts]
      <4>1. CASE Due(working[w]) /\ working[w] \in Records
        <5>1. attempts[working[w]] + 1 \in 0..MaxAttempts
          BY <4>1 DEF Due
        <5> QED BY <2>4, <4>1, <5>1 DEF RecordFailure
      <4>2. CASE ~ (Due(working[w]) /\ working[w] \in Records)
        BY <2>4, <4>2 DEF RecordFailure
      <4> QED BY <4>1, <4>2
    <3> QED BY <2>4, <3>1 DEF RecordFailure, Release, dispatcherVars, feedbackVars
  <2>5. CASE WorkerCrash(w)
    BY <2>5 DEF WorkerCrash, Release, dispatcherVars, taskVars, feedbackVars
  <2> QED BY <1>12, <2>1, <2>2, <2>3, <2>4, <2>5 DEF Work
<1>13. CASE UNCHANGED vars
  BY <1>13 DEF vars, dispatcherVars, taskVars, feedbackVars, workerVars
<1> QED BY <1>1, <1>2, <1>3, <1>4, <1>5, <1>6, <1>7, <1>8, <1>9, <1>10, <1>11, <1>12, <1>13
        DEF Next, Writer, Close

\* Requests and workers do not touch the dispatcher, nor what it accepted or lost.
LEMMA ServerOrOutside ==
    ASSUME [Next]_vars
    PROVE  \/ \E s \in Submissions : Submit(s) \/ Refuse(s)
           \/ WriterTakes \/ Persist \/ PersistFails \/ Finish
           \/ BeginClose \/ Drain \/ Join \/ PutSentinel \/ ServerExits \/ ServerCrash
           \/ UNCHANGED <<dispatcherVars, offered, lost>>
<1>1. ASSUME NEW r \in Receipts, Request(r) PROVE UNCHANGED <<dispatcherVars, offered, lost>>
  BY <1>1 DEF Request, ReceiptApplies, ReceiptEarly, CheckRow, CheckMemory, CheckTask, Ask, Register
<1>2. ASSUME NEW k \in Records, Abandon(k) PROVE UNCHANGED <<dispatcherVars, offered, lost>>
  BY <1>2 DEF Abandon
<1>3. ASSUME NEW w \in Workers, Work(w) PROVE UNCHANGED <<dispatcherVars, offered, lost>>
  BY <1>3 DEF Work, TakeTask, Handle, HandleUnchanged, HandleFails, RecordFailure, WorkerCrash
<1>4. CASE UNCHANGED vars
  BY <1>4 DEF vars
<1> QED BY <1>1, <1>2, <1>3, <1>4 DEF Next, Writer, Close

\* The queue, the thread and the shutdown: what SentinelComesLast, BacklogCounts
\* and HeldOnce read.
LEMMA QueueStays ==
    RecallInv /\ [Next]_vars => SentinelComesLast' /\ BacklogCounts' /\ HeldOnce'
<1> SUFFICES ASSUME RecallInv, [Next]_vars
             PROVE  SentinelComesLast' /\ BacklogCounts' /\ HeldOnce'
  OBVIOUS
<1> USE RecallAssumption
<1> DEFINE Q == Submissions \cup {Stop}
<1> HIDE DEF Q
<1>q. /\ \A s \in Submissions : s \in Q
      /\ \A s \in Q : s \in Submissions \/ s = Stop
      /\ Stop \in Q
  BY DEF Q
<1>0. /\ queue \in Seq(Q) /\ Len(queue) \in Nat /\ backlog \in Int
      /\ TypeOK /\ SentinelComesLast /\ BacklogCounts /\ HeldOnce
      /\ Nothing \notin Submissions /\ Stop \notin Submissions
  BY DEF RecallInv, TypeOK, Records, Q
<1>1. ASSUME NEW s \in Submissions, Submit(s)
      PROVE  SentinelComesLast' /\ BacklogCounts' /\ HeldOnce'
  <2>1. /\ queue' = Append(queue, s) /\ s \in Q
        /\ offered[s] = "new" /\ closer = "open" /\ closer' = "open" /\ inflight' = inflight
        /\ writer' = IF writer = "unborn" THEN "waiting" ELSE writer
        /\ backlog' = backlog + 1
        /\ accepted' = accepted \cup IdsOf[s] /\ offered' = [offered EXCEPT ![s] = "accepted"]
    BY <1>1, <1>q DEF Submit, Enqueue
  <2>2. /\ Len(queue') = Len(queue) + 1 /\ queue' # <<>>
        /\ \A i \in 1..Len(queue) : queue'[i] = queue[i]
        /\ queue'[Len(queue) + 1] = s /\ Range(queue') = Range(queue) \cup {s}
    BY <1>0, <2>1, AppendElements
  <2>3. \A i \in 1..Len(queue) : queue[i] # Stop
    BY <1>0, <2>1 DEF SentinelComesLast
  <2>4. s \notin Range(queue) /\ s # inflight
    BY <1>0, <2>1 DEF HeldOnce
  <2>5. \A i \in 1..Len(queue) : queue[i] # s
    BY <1>0, <2>4, RangeIndex
  <2>6. \A i \in 1..Len(queue') : i \in 1..Len(queue) \/ i = Len(queue) + 1
    BY <1>0, <2>2
  <2>7. SentinelComesLast'
    BY <1>0, <2>1, <2>2, <2>3, <2>6 DEF SentinelComesLast, TypeOK, WriterSteps
  <2>8. BacklogCounts'
    <3>1. ~ (queue # <<>> /\ queue[Len(queue)] = Stop)
      BY <1>0, <2>3, NoLength
    <3>2. queue'[Len(queue')] # Stop
      BY <2>2
    <3> QED BY <1>0, <2>1, <2>2, <3>1, <3>2 DEF BacklogCounts
  <2>9. HeldOnce'
    <3>1. \A i, j \in 1..Len(queue') : queue'[i] = queue'[j] => i = j
      BY <1>0, <2>2, <2>5, <2>6 DEF HeldOnce
    <3>2. \A i \in 1..Len(queue') : queue'[i] # inflight'
      BY <1>0, <2>1, <2>2, <2>4, <2>6 DEF HeldOnce
    <3>3. \A t \in Submissions : t \in Range(queue') \cup {inflight'} =>
            offered'[t] = "accepted" /\ IdsOf[t] \subseteq accepted'
      BY <1>0, <2>1, <2>2 DEF HeldOnce, TypeOK
    <3> QED BY <3>1, <3>2, <3>3 DEF HeldOnce
  <2> QED BY <2>7, <2>8, <2>9
<1>2. CASE WriterTakes
  <2>1. queue # <<>> /\ queue' = Tail(queue) /\ writer = "waiting"
        /\ backlog' = backlog /\ closer' = closer /\ accepted' = accepted /\ offered' = offered
        /\ inflight = Nothing
    BY <1>0, <1>2 DEF WriterTakes, TypeOK
  <2>2. /\ Len(queue') = Len(queue) - 1 /\ Len(queue) \in Nat \ {0}
        /\ \A i \in 1..Len(queue') : queue'[i] = queue[i + 1]
        /\ Head(queue) = queue[1] /\ Head(queue) \in Q
        /\ Range(queue) = Range(queue') \cup {Head(queue)}
        /\ queue' \in Seq(Q)
    BY <1>0, <2>1, TailElements
  <2>e. Len(queue') \in Nat /\ (Len(queue') = 0 <=> queue' = <<>>)
    BY <2>2, NoLength
  <2>n. /\ Len(queue') = Len(queue) - 1 /\ Len(queue') \in Nat /\ Len(queue) \in Nat \ {0}
        /\ Head(queue) = queue[1]
    BY <2>2, <2>e
  <2>3. \A i \in 1..Len(queue') : i + 1 \in 1..Len(queue)
    BY <2>2
  <2>4. \A i \in 1..Len(queue') : queue'[i] = Stop => i = Len(queue') /\ closer \in {"joining", "dirty"}
    BY <1>0, <2>2, <2>3 DEF SentinelComesLast
  <2>5. \A i, j \in 1..Len(queue') : queue'[i] = queue'[j] => i = j
    BY <1>0, <2>2, <2>3 DEF HeldOnce
  <2>6. \A i \in 1..Len(queue') : queue'[i] # Head(queue)
    <3> SUFFICES ASSUME NEW i \in 1..Len(queue'), queue'[i] = Head(queue) PROVE FALSE
      OBVIOUS
    <3>1. queue[i + 1] = queue[1] /\ i + 1 \in 1..Len(queue) /\ 1 \in 1..Len(queue)
      BY <2>2, <2>3
    <3>2. i + 1 = 1
      BY <1>0, <3>1 DEF HeldOnce
    <3> QED BY <3>2
  <2>7. queue' # <<>> => queue'[Len(queue')] = queue[Len(queue)]
    <3>1. queue' # <<>> => Len(queue') \in 1..Len(queue')
      BY <2>2, NoLength
    <3> QED BY <2>2, <3>1
  <2>8. CASE Head(queue) = Stop
    <3>1. writer' = "ended" /\ inflight' = Nothing
      BY <1>2, <2>8 DEF WriterTakes
    <3>2. Len(queue) = 1 /\ closer \in {"joining", "dirty"}
      BY <1>0, <2>2, <2>8 DEF SentinelComesLast
    <3>3. queue' = <<>>
      BY <2>n, <2>e, <3>2
    <3>4. SentinelComesLast'
      BY <2>1, <2>4, <3>1, <3>2, <3>3 DEF SentinelComesLast
    <3>5. BacklogCounts'
      <4>1. Len(queue) = 1 /\ queue[Len(queue)] = Stop /\ Len(queue') = 0
        BY <2>n, <2>8, <3>2
      <4> QED BY <1>0, <2>1, <3>1, <3>3, <4>1 DEF BacklogCounts
    <3>6. HeldOnce'
      BY <1>0, <2>1, <2>2, <2>5, <3>1, <3>3, EmptyQueue DEF HeldOnce
    <3> QED BY <3>4, <3>5, <3>6
  <2>9. CASE Head(queue) # Stop
    <3>1. writer' = "trying" /\ inflight' = Head(queue) /\ Head(queue) \in Submissions
      BY <1>2, <1>q, <2>2, <2>9 DEF WriterTakes
    <3>2. SentinelComesLast'
      <4>1. closer # "clean"
        BY <1>0, <2>1 DEF SentinelComesLast
      <4> QED BY <2>1, <2>4, <3>1, <4>1 DEF SentinelComesLast
    <3>3. BacklogCounts'
      <4>1. CASE queue' = <<>>
        <5>1. Len(queue') = 0
          BY <2>e, <4>1
        <5>2. Len(queue) = 1 /\ queue[Len(queue)] # Stop
          <6>1. Len(queue) = 1
            BY <2>n, <5>1
          <6> QED BY <2>n, <2>9, <6>1
        <5>3. inflight' # Nothing
          BY <1>0, <3>1
        <5>4. backlog = 1
          BY <1>0, <2>1, <5>2 DEF BacklogCounts
        <5> QED BY <2>1, <4>1, <5>1, <5>3, <5>4 DEF BacklogCounts
      <4>2. CASE queue' # <<>>
        <5>1. inflight' # Nothing
          BY <1>0, <3>1
        <5>2. backlog = Len(queue) - (IF queue[Len(queue)] = Stop THEN 1 ELSE 0)
          BY <1>0, <2>1 DEF BacklogCounts
        <5>3. backlog' = Len(queue') - (IF queue'[Len(queue')] = Stop THEN 1 ELSE 0) + 1
          <6>1. CASE queue[Len(queue)] = Stop
            BY <1>0, <2>1, <2>n, <2>7, <4>2, <5>2, <6>1
          <6>2. CASE queue[Len(queue)] # Stop
            BY <1>0, <2>1, <2>n, <2>7, <4>2, <5>2, <6>2
          <6> QED BY <6>1, <6>2
        <5> QED BY <4>2, <5>1, <5>3 DEF BacklogCounts
      <4> QED BY <4>1, <4>2
    <3>4. HeldOnce'
      <4>1. \A t \in Submissions : t \in Range(queue') \cup {inflight'} =>
              offered'[t] = "accepted" /\ IdsOf[t] \subseteq accepted'
        BY <1>0, <2>1, <2>2, <3>1 DEF HeldOnce
      <4> QED BY <2>5, <2>6, <3>1, <4>1 DEF HeldOnce
    <3> QED BY <3>2, <3>3, <3>4
  <2> QED BY <2>8, <2>9
<1>3. CASE Persist \/ PersistFails
  <2>1. /\ queue' = queue /\ closer' = closer /\ backlog' = backlog /\ inflight' = inflight
        /\ accepted' = accepted /\ offered' = offered
        /\ writer = "trying" /\ writer' \in {"trying", "finishing"}
    BY <1>3 DEF Persist, PersistFails
  <2>2. closer # "clean"
    BY <1>0, <2>1 DEF SentinelComesLast
  <2> QED BY <1>0, <2>1, <2>2 DEF SentinelComesLast, BacklogCounts, HeldOnce
<1>4. CASE Finish
  <2>1. /\ queue' = queue /\ closer' = closer /\ backlog' = backlog - 1 /\ inflight' = Nothing
        /\ accepted' = accepted \ IdsOf[inflight] /\ offered' = offered
        /\ writer = "finishing" /\ writer' = "waiting" /\ inflight \in Submissions
    BY <1>0, <1>4 DEF Finish, TypeOK
  <2>2. SentinelComesLast'
    BY <1>0, <2>1 DEF SentinelComesLast
  <2>3. BacklogCounts'
    BY <1>0, <2>1 DEF BacklogCounts, TypeOK
  <2>4. \A i \in 1..Len(queue) : queue[i] # Nothing
    <3>1. \A i \in 1..Len(queue) : queue[i] \in Q
      BY <1>0
    <3> QED BY <3>1, <1>0, <1>q DEF Records
  <2>5. ASSUME NEW t \in Submissions, t \in Range(queue') \cup {inflight'}
        PROVE  offered'[t] = "accepted" /\ IdsOf[t] \subseteq accepted'
    <3>1. t \in Range(queue)
      BY <1>0, <2>1, <2>5
    <3>2. t # inflight
      BY <1>0, <3>1, RangeIndex DEF HeldOnce
    <3>3. IdsOf[t] \cap IdsOf[inflight] = {}
      BY <2>1, <3>2
    <3> QED BY <1>0, <2>1, <3>1, <3>3 DEF HeldOnce
  <2> QED BY <1>0, <2>1, <2>2, <2>3, <2>4, <2>5 DEF HeldOnce
<1>5. CASE BeginClose \/ Drain \/ Join
  <2>1. UNCHANGED <<queue, backlog, inflight, accepted, offered, writer>>
    BY <1>5 DEF BeginClose, Drain, Join
  <2>2. SentinelComesLast'
    BY <1>0, <1>5, <2>1 DEF SentinelComesLast, BeginClose, Drain, Join
  <2> QED BY <1>0, <2>1, <2>2 DEF BacklogCounts, HeldOnce
<1>6. CASE PutSentinel
  <2>1. /\ UNCHANGED <<backlog, inflight, accepted, offered, writer>>
        /\ closer = "sentinel" /\ closer' \in {"dirty", "joining"}
        /\ queue' = queue \/ (closer' = "joining" /\ queue' = Append(queue, Stop))
    BY <1>6 DEF PutSentinel
  <2>2. /\ \A i \in 1..Len(queue) : queue[i] # Stop
        /\ writer \notin {"ended", "unborn"}
    BY <1>0, <2>1 DEF SentinelComesLast
  <2>3. CASE queue' = queue
    BY <1>0, <2>1, <2>2, <2>3 DEF SentinelComesLast, BacklogCounts, HeldOnce
  <2>4. CASE closer' = "joining" /\ queue' = Append(queue, Stop)
    <3>1. /\ Len(queue') = Len(queue) + 1 /\ queue' # <<>>
          /\ \A i \in 1..Len(queue) : queue'[i] = queue[i]
          /\ queue'[Len(queue) + 1] = Stop /\ Range(queue') = Range(queue) \cup {Stop}
      BY <1>0, <1>q, <2>4, AppendElements
    <3>2. \A i \in 1..Len(queue') : i \in 1..Len(queue) \/ i = Len(queue) + 1
      BY <1>0, <3>1
    <3>3. SentinelComesLast'
      BY <1>0, <2>1, <2>2, <2>4, <3>1, <3>2 DEF SentinelComesLast
    <3>4. BacklogCounts'
      <4>1. ~ (queue # <<>> /\ queue[Len(queue)] = Stop)
        BY <1>0, <2>2, NoLength
      <4> QED BY <1>0, <2>1, <3>1, <4>1 DEF BacklogCounts, TypeOK
    <3>5. HeldOnce'
      <4>1. inflight # Stop
        BY <1>0 DEF TypeOK
      <4>2. \A i, j \in 1..Len(queue') : queue'[i] = queue'[j] => i = j
        BY <1>0, <2>2, <3>1, <3>2 DEF HeldOnce
      <4>3. \A i \in 1..Len(queue') : queue'[i] # inflight'
        BY <1>0, <2>1, <3>1, <3>2, <4>1 DEF HeldOnce
      <4>4. \A t \in Submissions : t \in Range(queue') \cup {inflight'} =>
              offered'[t] = "accepted" /\ IdsOf[t] \subseteq accepted'
        BY <1>0, <2>1, <3>1 DEF HeldOnce
      <4> QED BY <4>2, <4>3, <4>4 DEF HeldOnce
    <3> QED BY <3>3, <3>4, <3>5
  <2> QED BY <2>1, <2>3, <2>4
<1>7. CASE ServerExits \/ ServerCrash
  <2>1. /\ queue' = <<>> /\ backlog' = 0 /\ writer' = "unborn" /\ inflight' = Nothing
        /\ closer' = "open"
    BY <1>7 DEF ServerExits, ServerCrash, Restart
  <2>2. Len(queue') = 0 /\ Range(queue') = {}
    BY <2>1, EmptyQueue
  <2> QED BY <1>0, <2>1, <2>2 DEF SentinelComesLast, BacklogCounts, HeldOnce
<1>8. CASE UNCHANGED <<dispatcherVars, offered>>
  BY <1>0, <1>8 DEF dispatcherVars, SentinelComesLast, BacklogCounts, HeldOnce
<1>9. ASSUME NEW s \in Submissions, Refuse(s)
      PROVE  SentinelComesLast' /\ BacklogCounts' /\ HeldOnce'
  <2>1. UNCHANGED dispatcherVars /\ offered[s] = "new" /\ offered' = [offered EXCEPT ![s] = "refused"]
    BY <1>9 DEF Refuse
  <2>2. \A t \in Submissions : offered[t] = "accepted" => offered'[t] = "accepted"
    BY <1>0, <2>1 DEF TypeOK
  <2> QED BY <1>0, <2>1, <2>2 DEF dispatcherVars, SentinelComesLast, BacklogCounts, HeldOnce
<1> QED BY <1>1, <1>2, <1>3, <1>4, <1>5, <1>6, <1>7, <1>8, <1>9, ServerOrOutside

\* How the task of a submission moves in one step, and with it its effect.
TaskStays(s) == task'[s] = task[s] /\ counted'[s] = counted[s]
TaskGivenUp(s) ==
    task[s] = "pending" /\ task'[s] = "abandoned" /\ counted'[s] = counted[s]
TaskDone(s) ==
    /\ task[s] = "pending" /\ task'[s] = "completed" /\ counted'[s] = counted[s] + 1
    /\ IdsOf[s] \subseteq visible'
TaskPersisted(s) ==
    /\ Persist /\ s = inflight /\ task[s] = "absent"
    /\ \/ s \in Audits /\ task'[s] = "completed" /\ counted'[s] = counted[s] + 1
       \/ s \notin Audits /\ task'[s] = "pending" /\ counted'[s] = counted[s]

\* What a step may do to the task of a submission, by the action that does it.
LEMMA TaskMoves ==
    ASSUME RecallInv, [Next]_vars
    PROVE  /\ \A s \in Submissions :
                TaskStays(s) \/ TaskGivenUp(s) \/ TaskDone(s) \/ TaskPersisted(s)
           /\ visible \subseteq visible'
           /\ \A x \in visible' \ visible : \A s \in CarrierOf(x) : task'[s] = "completed"
<1> USE RecallAssumption
<1> DEFINE Goal ==
        /\ \A s \in Submissions :
                TaskStays(s) \/ TaskGivenUp(s) \/ TaskDone(s) \/ TaskPersisted(s)
        /\ visible \subseteq visible'
        /\ \A x \in visible' \ visible : \A s \in CarrierOf(x) : task'[s] = "completed"
<1>0. /\ task \in [Records -> TaskStates] /\ counted \in [Submissions -> Nat]
      /\ working \in [Workers -> Records \cup {Nothing}]
      /\ \A s \in Submissions : s \in Records /\ s \notin Receipts
  BY DEF RecallInv, TypeOK, Records
<1>1. CASE UNCHANGED <<task, counted, visible>>
  BY <1>1 DEF TaskStays
<1>2. CASE Persist
  <2>1. inflight \in Submissions /\ inflight \in Records /\ task[inflight] = "absent"
        /\ visible' = visible
    BY <1>2 DEF RecallInv, TypeOK, EachIsSomewhere, InMemory, Persist, feedbackVars, Records
  <2>2. CASE inflight \in Audits
    <3>1. /\ task' = [task EXCEPT ![inflight] = "completed"]
          /\ counted' = [counted EXCEPT ![inflight] = counted[inflight] + 1]
      BY <1>2, <2>2 DEF Persist
    <3>2. \A s \in Submissions : TaskStays(s) \/ TaskPersisted(s)
      BY <1>0, <1>2, <2>1, <2>2, <3>1 DEF TaskStays, TaskPersisted
    <3> QED BY <2>1, <3>2
  <2>3. CASE inflight \notin Audits
    <3>1. /\ task' = [task EXCEPT ![inflight] = IF task[inflight] = "absent" THEN "pending"
                                                ELSE task[inflight]]
          /\ counted' = counted
      BY <1>2, <2>3 DEF Persist
    <3>2. \A s \in Submissions : TaskStays(s) \/ TaskPersisted(s)
      BY <1>0, <1>2, <2>1, <2>3, <3>1 DEF TaskStays, TaskPersisted
    <3> QED BY <2>1, <3>2
  <2> QED BY <2>2, <2>3
<1>3. ASSUME NEW k \in Records, Abandon(k) PROVE Goal
  <2>1. task[k] = "pending" /\ task' = [task EXCEPT ![k] = "abandoned"]
        /\ counted' = counted /\ visible' = visible
    BY <1>3 DEF Abandon, feedbackVars
  <2>2. \A s \in Submissions : TaskStays(s) \/ TaskGivenUp(s)
    BY <1>0, <2>1 DEF TaskStays, TaskGivenUp
  <2> QED BY <2>1, <2>2
<1>4. ASSUME NEW r \in Receipts, Register(r) PROVE Goal
  <2>1. \A s \in Submissions : TaskStays(s)
    BY <1>0, <1>4 DEF Register, TaskStays
  <2> QED BY <1>4, <2>1 DEF Register, feedbackVars
<1>5. ASSUME NEW w \in Workers, Handle(w) PROVE Goal
  <2>1. CASE task[working[w]] = "pending" /\ working[w] \in Submissions
             /\ Materialize(w, working[w])
    <3>1. /\ task' = [task EXCEPT ![working[w]] = "completed"]
          /\ counted' = [counted EXCEPT ![working[w]] = counted[working[w]] + 1]
          /\ visible' = visible \cup IdsOf[working[w]]
      BY <2>1 DEF Materialize, Complete
    <3>2. \A s \in Submissions : TaskStays(s) \/ TaskDone(s)
      BY <1>0, <2>1, <3>1 DEF TaskStays, TaskDone
    <3>3. ASSUME NEW x \in visible' \ visible, NEW s \in CarrierOf(x)
          PROVE  task'[s] = "completed"
      <4>1. x \in IdsOf[working[w]]
        BY <3>1
      <4>2. s = working[w]
        BY <2>1, <4>1, CarrierIsUnique
      <4> QED BY <1>0, <2>1, <3>1, <4>2
    <3> QED BY <3>1, <3>2, <3>3
  <2>2. CASE task[working[w]] = "pending" /\ working[w] \in Receipts
             /\ ApplyReceipt(w, working[w])
    <3>1. counted' = counted /\ visible' = visible
          /\ (task' = task \/ task' = [task EXCEPT ![working[w]] = "completed"])
      BY <2>2 DEF ApplyReceipt, Complete, Effect, feedbackVars
    <3>2. \A s \in Submissions : TaskStays(s)
      BY <1>0, <2>2, <3>1 DEF TaskStays
    <3> QED BY <3>1, <3>2
  <2>3. CASE task[working[w]] # "pending"
    BY <1>1, <1>5, <2>3 DEF Handle, feedbackVars
  <2> QED BY <1>5, <2>1, <2>2, <2>3 DEF Handle
<1>6. ASSUME NEW r \in Receipts, Request(r) PROVE Goal
  <2>1. CASE Register(r)
    BY <1>4, <2>1
  <2>2. CASE ~ Register(r)
    BY <1>1, <1>6, <2>2 DEF Request, ReceiptApplies, ReceiptEarly, CheckRow, CheckMemory, CheckTask,
                            Ask, taskVars, feedbackVars
  <2> QED BY <2>1, <2>2
<1>7. ASSUME NEW w \in Workers, Work(w) PROVE Goal
  <2>1. CASE Handle(w)
    BY <1>5, <2>1
  <2>2. CASE ~ Handle(w)
    BY <1>1, <1>7, <2>2 DEF Work, TakeTask, HandleFails, RecordFailure, WorkerCrash, taskVars,
                            feedbackVars
  <2> QED BY <2>1, <2>2
<1>8. CASE \/ \E s \in Submissions : Submit(s) \/ Refuse(s)
           \/ WriterTakes \/ PersistFails \/ Finish \/ Close \/ UNCHANGED vars
  BY <1>1, <1>8 DEF Submit, Enqueue, Refuse, WriterTakes, PersistFails, Finish, Close, BeginClose,
                    Drain, Join, PutSentinel, ServerExits, ServerCrash, Restart, vars, taskVars,
                    feedbackVars
<1> QED BY <1>2, <1>3, <1>6, <1>7, <1>8 DEF Next, Writer

\* Rows and effects follow the tasks.
LEMMA EffectsStay == RecallInv /\ [Next]_vars => RowsMatchTasks' /\ EffectOnce'
<1> SUFFICES ASSUME RecallInv, [Next]_vars PROVE RowsMatchTasks' /\ EffectOnce'
  OBVIOUS
<1> USE RecallAssumption
<1>0. /\ TypeOK /\ RowsMatchTasks /\ EffectOnce
      /\ \A s \in Submissions : s \in Records
  BY DEF RecallInv, Records
<1>1. /\ \A s \in Submissions :
              TaskStays(s) \/ TaskGivenUp(s) \/ TaskDone(s) \/ TaskPersisted(s)
      /\ visible \subseteq visible'
      /\ \A x \in visible' \ visible : \A s \in CarrierOf(x) : task'[s] = "completed"
  BY TaskMoves
<1>2. EffectOnce'
  BY <1>0, <1>1 DEF EffectOnce, TaskStays, TaskGivenUp, TaskDone, TaskPersisted
<1>3. ASSUME NEW s \in Submissions, task'[s] = "completed" PROVE IdsOf[s] \subseteq visible'
  BY <1>0, <1>1, <1>3 DEF RowsMatchTasks, TaskStays, TaskGivenUp, TaskDone, TaskPersisted
<1>4. ASSUME NEW x \in visible', NEW s \in CarrierOf(x) PROVE task'[s] = "completed"
  <2>1. s \in Submissions
    BY DEF CarrierOf
  <2>2. CASE x \in visible
    BY <1>0, <1>1, <2>1, <2>2 DEF RowsMatchTasks, TaskStays, TaskGivenUp, TaskDone, TaskPersisted
  <2> QED BY <1>1, <2>2
<1>5. ASSUME NEW s \in Audits PROVE task'[s] \in {"absent", "completed"}
  BY <1>0, <1>1 DEF RowsMatchTasks, TaskStays, TaskGivenUp, TaskDone, TaskPersisted
<1> QED BY <1>2, <1>3, <1>4, <1>5 DEF RowsMatchTasks

\* Every accepted submission stays accounted for.
LEMMA AccountStays == RecallInv /\ [Next]_vars => EachIsSomewhere'
<1> SUFFICES ASSUME RecallInv, [Next]_vars PROVE EachIsSomewhere'
  OBVIOUS
<1> USE RecallAssumption
<1> DEFINE Q == Submissions \cup {Stop}
<1>0. /\ TypeOK /\ HeldOnce /\ EachIsSomewhere /\ queue \in Seq(Q)
      /\ \A s \in Submissions : s # Stop /\ s # Nothing
  BY DEF RecallInv, TypeOK, Records
<1>1. \A s \in Submissions :
        TaskStays(s) \/ TaskGivenUp(s) \/ TaskDone(s) \/ TaskPersisted(s)
  BY TaskMoves
<1>2. ASSUME NEW s \in Submissions, Submit(s) PROVE EachIsSomewhere'
  <2>1. /\ Range(queue') = Range(queue) \cup {s} /\ inflight' = inflight
        /\ (writer' = "trying" <=> writer = "trying")
        /\ offered[s] = "new" /\ offered' = [offered EXCEPT ![s] = "accepted"]
        /\ UNCHANGED <<lost, tries, task>>
    <3>1. Range(Append(queue, s)) = Range(queue) \cup {s}
      BY <1>0, AppendElements
    <3> QED BY <1>2, <3>1 DEF Submit, Enqueue, taskVars
  <2>2. InMemory' = InMemory \cup {s}
    BY <2>1 DEF InMemory
  <2>3. task[s] = "absent" /\ s \notin lost
    BY <1>0, <2>1 DEF EachIsSomewhere
  <2>4. offered'[s] = "accepted" /\ \A t \in Submissions \ {s} : offered'[t] = offered[t]
    BY <1>0, <2>1 DEF TypeOK
  <2>5. writer' = "trying" => tries' < TryLimit(inflight')
    BY <1>0, <2>1 DEF EachIsSomewhere, TryLimit
  <2> QED BY <1>0, <2>1, <2>2, <2>3, <2>4, <2>5 DEF EachIsSomewhere
<1>3. ASSUME NEW s \in Submissions, Refuse(s) PROVE EachIsSomewhere'
  <2>1. /\ UNCHANGED <<queue, inflight, writer, lost, tries, task>>
        /\ offered[s] = "new" /\ offered' = [offered EXCEPT ![s] = "refused"]
    BY <1>3 DEF Refuse, dispatcherVars, taskVars
  <2>2. InMemory' = InMemory
    BY <2>1 DEF InMemory
  <2>3. offered'[s] = "refused" /\ \A t \in Submissions \ {s} : offered'[t] = offered[t]
    BY <1>0, <2>1 DEF TypeOK
  <2>4. writer' = "trying" => tries' < TryLimit(inflight')
    BY <1>0, <2>1 DEF EachIsSomewhere, TryLimit
  <2> QED BY <1>0, <2>1, <2>2, <2>3, <2>4 DEF EachIsSomewhere
<1>4. CASE WriterTakes
  <2>1. /\ queue # <<>> /\ queue' = Tail(queue) /\ writer = "waiting" /\ tries' = 0
        /\ UNCHANGED <<offered, lost, task>>
    BY <1>4 DEF WriterTakes, taskVars
  <2>2. Range(queue) = Range(queue') \cup {Head(queue)}
    BY <1>0, <2>1, TailElements
  <2>3. \/ Head(queue) = Stop /\ writer' = "ended"
        \/ Head(queue) # Stop /\ writer' = "trying" /\ inflight' = Head(queue)
    BY <1>4 DEF WriterTakes
  <2>4. InMemory' = InMemory
    BY <1>0, <2>1, <2>2, <2>3 DEF InMemory
  <2>5. tries' < TryLimit(inflight')
    BY <2>1 DEF TryLimit
  <2> QED BY <1>0, <2>1, <2>4, <2>5 DEF EachIsSomewhere
<1>5. CASE Persist
  <2>1. /\ writer = "trying" /\ writer' = "finishing" /\ inflight \in Submissions
        /\ UNCHANGED <<queue, inflight, offered, lost>>
    BY <1>0, <1>5 DEF Persist, TypeOK
  <2>2. inflight \notin Range(queue)
    BY <1>0, RangeIndex DEF HeldOnce
  <2>3. InMemory' = InMemory \ {inflight} /\ inflight \in InMemory
    BY <2>1, <2>2 DEF InMemory
  <2>4. task'[inflight] # "absent" /\ offered[inflight] = "accepted" /\ inflight \notin lost
    <3>1. task'[inflight] # "absent"
      <4>1. task \in [Records -> TaskStates] /\ inflight \in Records
        BY <1>0, <2>1 DEF TypeOK, Records
      <4>2. \/ task' = [task EXCEPT ![inflight] = "completed"]
            \/ task' = [task EXCEPT ![inflight] = IF task[inflight] = "absent" THEN "pending"
                                                  ELSE task[inflight]]
        BY <1>5 DEF Persist
      <4> QED BY <4>1, <4>2
    <3> QED BY <1>0, <2>1, <2>3, <3>1 DEF EachIsSomewhere, HeldOnce
  <2>5. \A s \in Submissions \ {inflight} : task'[s] = "absent" <=> task[s] = "absent"
    BY <1>1 DEF TaskStays, TaskGivenUp, TaskDone, TaskPersisted
  <2> QED BY <1>0, <2>1, <2>3, <2>4, <2>5 DEF EachIsSomewhere
<1>6. CASE PersistFails
  <2>1. /\ writer = "trying" /\ inflight \in Submissions
        /\ UNCHANGED <<queue, inflight, offered, task>> /\ tries' = tries + 1
        /\ \/ tries' >= TryLimit(inflight) /\ writer' = "finishing" /\ lost' = lost \cup {inflight}
           \/ ~ (tries' >= TryLimit(inflight)) /\ writer' = "trying" /\ lost' = lost
    BY <1>0, <1>6 DEF PersistFails, TypeOK, taskVars
  <2>2. inflight \in InMemory /\ inflight \notin Range(queue)
    BY <1>0, <2>1, RangeIndex DEF HeldOnce, InMemory
  <2>3. CASE writer' = "finishing" /\ lost' = lost \cup {inflight}
    <3>1. InMemory' = InMemory \ {inflight}
      BY <2>1, <2>2, <2>3 DEF InMemory
    <3>2. task[inflight] = "absent" /\ offered[inflight] = "accepted"
      BY <1>0, <2>1, <2>2 DEF EachIsSomewhere, HeldOnce
    <3> QED BY <1>0, <2>1, <2>3, <3>1, <3>2 DEF EachIsSomewhere
  <2>4. CASE ~ (tries' >= TryLimit(inflight)) /\ writer' = "trying" /\ lost' = lost
    <3>1. InMemory' = InMemory
      BY <2>1, <2>4 DEF InMemory
    <3>2. tries' < TryLimit(inflight')
      BY <1>0, <2>1, <2>4 DEF TryLimit, TypeOK
    <3> QED BY <1>0, <2>1, <2>4, <3>1, <3>2 DEF EachIsSomewhere
  <2> QED BY <2>1, <2>3, <2>4
<1>7. CASE Finish
  <2>1. /\ writer = "finishing" /\ writer' = "waiting"
        /\ UNCHANGED <<queue, offered, lost, task>>
    BY <1>7 DEF Finish, taskVars
  <2>2. InMemory' = InMemory
    BY <2>1 DEF InMemory
  <2> QED BY <1>0, <2>1, <2>2 DEF EachIsSomewhere
<1>8. CASE BeginClose \/ Drain \/ Join \/ PutSentinel
  <2>1. /\ UNCHANGED <<inflight, writer, offered, lost, task, tries>>
        /\ queue' = queue \/ queue' = Append(queue, Stop)
    BY <1>8 DEF BeginClose, Drain, Join, PutSentinel, taskVars
  <2>2. Range(Append(queue, Stop)) = Range(queue) \cup {Stop}
    BY <1>0, AppendElements
  <2>3. InMemory' = InMemory
    BY <1>0, <2>1, <2>2 DEF InMemory
  <2>4. writer' = "trying" => tries' < TryLimit(inflight')
    BY <1>0, <2>1 DEF EachIsSomewhere, TryLimit
  <2> QED BY <1>0, <2>1, <2>3, <2>4 DEF EachIsSomewhere
<1>9. CASE ServerExits \/ ServerCrash
  <2>1. /\ queue' = <<>> /\ writer' = "unborn" /\ inflight' = Nothing
        /\ lost' = lost \cup InMemory /\ UNCHANGED <<offered, task>>
    BY <1>9 DEF ServerExits, ServerCrash, Restart, taskVars
  <2>2. InMemory' = {}
    BY <2>1, EmptyQueue DEF InMemory
  <2>3. \A s \in InMemory : s \in Submissions /\ offered[s] = "accepted" /\ task[s] = "absent"
    BY <1>0 DEF InMemory, HeldOnce, EachIsSomewhere
  <2> QED BY <1>0, <2>1, <2>2, <2>3 DEF EachIsSomewhere
<1>10. CASE UNCHANGED <<dispatcherVars, offered, lost>>
  <2>1. UNCHANGED <<queue, inflight, writer, offered, lost, tries>>
    BY <1>10 DEF dispatcherVars
  <2>2. InMemory' = InMemory
    BY <2>1 DEF InMemory
  <2>3. ~ Persist
    BY <2>1 DEF Persist
  <2>4. \A s \in Submissions : task'[s] = "absent" <=> task[s] = "absent"
    BY <1>1, <2>3 DEF TaskStays, TaskGivenUp, TaskDone, TaskPersisted
  <2>5. writer' = "trying" => tries' < TryLimit(inflight')
    BY <1>0, <2>1 DEF EachIsSomewhere, TryLimit
  <2> QED BY <1>0, <2>1, <2>2, <2>4, <2>5 DEF EachIsSomewhere
<1> QED BY <1>2, <1>3, <1>4, <1>5, <1>6, <1>7, <1>8, <1>9, <1>10, ServerOrOutside

\* The dispatcher, the tasks and the receipts keep RecallInv.
THEOREM RecallInvariant == Spec => []RecallInv
<1>1. RecallInv /\ [Next]_vars => RecallInv'
  BY TypesStay, QueueStays, AccountStays, EffectsStay DEF RecallInv
<1> QED BY <1>1, RecallInit, PTL DEF Spec

(***************************************************************************)
(* What the invariant implies                                              *)
(***************************************************************************)
\* Type correctness of the recall side effects, with the bounds of the queue.
THEOREM RecallTypes == Spec => []TypeOK
BY RecallInvariant, PTL DEF RecallInv

\* The effect of a submission is carried out once, if ever.
THEOREM RecallEffectOnce == Spec => []EffectOnce
BY RecallInvariant, PTL DEF RecallInv

\* An accepted exposure can always be found in memory, as a task or as a row.
THEOREM ExposuresAreTracked == Spec => []ExposureIsTracked
<1>1. RecallInv => ExposureIsTracked
  <2> SUFFICES ASSUME RecallInv, NEW s \in Submissions, NEW x \in IdsOf[s],
                      offered[s] = "accepted"
               PROVE  \/ x \in accepted \/ task[s] = "pending" \/ x \in visible
                      \/ s \in lost \/ task[s] = "abandoned"
    BY DEF ExposureIsTracked
  <2>1. CASE s \in InMemory
    BY <2>1 DEF RecallInv, HeldOnce, InMemory
  <2>2. CASE s \notin InMemory /\ task[s] # "absent"
    <3>1. task[s] \in TaskStates
      BY DEF RecallInv, TypeOK, Records
    <3> QED BY <2>2, <3>1 DEF RecallInv, RowsMatchTasks, TaskStates
  <2> QED BY <2>1, <2>2 DEF RecallInv, EachIsSomewhere
<1> QED BY <1>1, RecallInvariant, PTL

\* A close that reports success leaves nothing in memory alone.
THEOREM CleanCloseIsComplete == Spec => []CleanCloseKeepsAll
<1>1. RecallInv => CleanCloseKeepsAll
  <2> SUFFICES ASSUME RecallInv, closer = "clean", NEW s \in Submissions, offered[s] = "accepted"
               PROVE  task[s] # "absent" \/ s \in lost
    BY DEF CleanCloseKeepsAll
  <2>1. queue = <<>> /\ writer # "trying"
    BY DEF RecallInv, SentinelComesLast
  <2>2. s \notin InMemory
    BY <2>1, EmptyQueue DEF InMemory
  <2> QED BY <2>2 DEF RecallInv, EachIsSomewhere
<1> QED BY <1>1, RecallInvariant, PTL

(***************************************************************************)
(* Dispatcher, tasks and receipts implement EffectLedger                   *)
(***************************************************************************)
LedgerNow == [k \in Records |-> LedgerOf(k)]

\* LedgerOf without overlapping cases.
SubmissionEntry(s) ==
    IF task[s] = "completed" THEN "done"
    ELSE IF task[s] = "abandoned" \/ s \in lost THEN "dropped"
    ELSE IF offered[s] = "accepted" THEN "taken" ELSE "none"
ReceiptEntry(r) ==
    IF r \in applied THEN "done"
    ELSE IF task[r] = "absent" THEN "none"
    ELSE IF task[r] = "abandoned" THEN "dropped" ELSE "taken"
EntriesAgree ==
    /\ \A s \in Submissions : LedgerOf(s) = SubmissionEntry(s)
    /\ \A r \in Receipts : LedgerOf(r) = ReceiptEntry(r)

\* LedgerOf by kind of record.
LEMMA Entries == RecallInv => EntriesAgree
<1> SUFFICES ASSUME RecallInv PROVE EntriesAgree
  OBVIOUS
<1>1. ASSUME NEW s \in Submissions PROVE LedgerOf(s) = SubmissionEntry(s)
  <2>1. s \notin Receipts /\ ~ (task[s] = "completed" /\ s \in lost)
    BY RecallAssumption DEF RecallInv, EachIsSomewhere
  <2> QED BY <2>1 DEF LedgerOf, SubmissionEntry
<1>2. ASSUME NEW r \in Receipts PROVE LedgerOf(r) = ReceiptEntry(r)
  BY DEF LedgerOf, ReceiptEntry
<1> QED BY <1>1, <1>2 DEF EntriesAgree

\* Nothing is in the ledger at first.
LEMMA LedgerStart == Init => Ledger!LedgerInit
<1> SUFFICES ASSUME Init PROVE Ledger!LedgerInit
  OBVIOUS
<1>1. EntriesAgree
  BY RecallInit, Entries
<1>2. \A k \in Records : LedgerOf(k) = "none"
  BY <1>1 DEF EntriesAgree, SubmissionEntry, ReceiptEntry, Init, Records
<1> QED BY <1>2 DEF Ledger!LedgerInit

\* The three kinds of step of the ledger, by the entries they change.
LEMMA LedgerTakes ==
    ASSUME NEW j \in Records, LedgerOf(j) = "none", LedgerOf(j)' = "taken",
           \A k \in Records \ {j} : LedgerOf(k)' = LedgerOf(k)
    PROVE  Ledger!LedgerNext
<1>1. Ledger!Take(j)
  BY DEF Ledger!Take
<1> QED BY <1>1 DEF Ledger!LedgerNext

\* Carrying out entries is a step Do of the ledger.
LEMMA LedgerDoes ==
    ASSUME NEW j \in Records, LedgerOf(j)' = "done",
           LedgerOf(j) = "taken" \/ (j \in Receipts /\ LedgerOf(j) # "done"),
           j \in Receipts => \A x \in Covered(j) : \A s \in CarrierOf(x) : LedgerOf(s) = "done",
           \A k \in Records \ {j} : LedgerOf(k)' = LedgerOf(k)
    PROVE  Ledger!LedgerNext
<1>1. \A x \in Exposures : CarrierOf(x) \subseteq Records
  BY DEF CarrierOf, Records
<1>2. \A n \in (IF j \in Receipts THEN UNION {CarrierOf(x) : x \in Covered(j)} ELSE {}) :
        n \in Records /\ LedgerOf(n) = "done"
  BY DEF CarrierOf, Records
<1>3. Ledger!Do(j)
  BY <1>2 DEF Ledger!Do
<1> QED BY <1>3 DEF Ledger!LedgerNext

\* Giving up or losing entries is a step Drop of the ledger.
LEMMA LedgerDrops ==
    ASSUME NEW S \in SUBSET Records,
           \A k \in S : LedgerOf(k) = "taken" /\ LedgerOf(k)' = "dropped",
           \A k \in Records \ S : LedgerOf(k)' = LedgerOf(k)
    PROVE  Ledger!LedgerNext
<1>1. Ledger!Drop(S)
  BY DEF Ledger!Drop
<1> QED BY <1>1 DEF Ledger!LedgerNext

\* A step that changes no entry is a stutter.
LEMMA LedgerRests ==
    ASSUME \A k \in Records : LedgerOf(k)' = LedgerOf(k)
    PROVE  LedgerNow' = LedgerNow
BY DEF LedgerNow

\* Every step of the system is a step of the ledger or leaves it as it is.
LEMMA LedgerStep ==
    RecallInv /\ RecallInv' /\ [Next]_vars => [Ledger!LedgerNext]_LedgerNow
<1> SUFFICES ASSUME RecallInv, RecallInv', [Next]_vars
             PROVE  Ledger!LedgerNext \/ LedgerNow' = LedgerNow
  OBVIOUS
<1> USE RecallAssumption
<1>0. /\ TypeOK /\ EntriesAgree
      /\ \A s \in Submissions : s \in Records /\ s \notin Receipts
      /\ \A r \in Receipts : r \in Records /\ r \notin Submissions
      /\ \A k \in Records : k \in Submissions \/ k \in Receipts
  BY Entries DEF RecallInv, Records
<1>p. EntriesAgree'
  BY Entries, PTL
\* An entry depends on the task, on what was offered, lost and applied.
<1>1. ASSUME NEW k \in Records, task'[k] = task[k],
             k \in Submissions => offered'[k] = offered[k] /\ (k \in lost' <=> k \in lost),
             k \in Receipts => (k \in applied' <=> k \in applied)
      PROVE  LedgerOf(k)' = LedgerOf(k)
  BY <1>0, <1>p, <1>1 DEF EntriesAgree, SubmissionEntry, ReceiptEntry
<1>2. ASSUME NEW s \in Submissions, Submit(s) PROVE Ledger!LedgerNext
  <2>1. /\ offered[s] = "new" /\ offered' = [offered EXCEPT ![s] = "accepted"]
        /\ UNCHANGED <<lost, task, applied>>
    BY <1>2 DEF Submit, Enqueue, taskVars, feedbackVars
  <2>2. task[s] = "absent" /\ s \notin lost /\ offered'[s] = "accepted"
    BY <1>0, <2>1 DEF RecallInv, EachIsSomewhere, TypeOK
  <2>3. LedgerOf(s) = "none" /\ LedgerOf(s)' = "taken"
    BY <1>0, <1>p, <2>1, <2>2 DEF EntriesAgree, SubmissionEntry
  <2>4. \A k \in Records \ {s} : LedgerOf(k)' = LedgerOf(k)
    BY <1>0, <1>1, <2>1 DEF TypeOK
  <2> QED BY <1>0, <2>3, <2>4, LedgerTakes
<1>3. ASSUME NEW s \in Submissions, Refuse(s) PROVE LedgerNow' = LedgerNow
  <2>1. /\ offered[s] = "new" /\ offered' = [offered EXCEPT ![s] = "refused"]
        /\ UNCHANGED <<lost, task, applied>>
    BY <1>3 DEF Refuse, taskVars, feedbackVars
  <2>2. task[s] = "absent" /\ s \notin lost /\ offered'[s] = "refused"
    BY <1>0, <2>1 DEF RecallInv, EachIsSomewhere, TypeOK
  <2>3. LedgerOf(s)' = LedgerOf(s)
    BY <1>0, <1>p, <2>1, <2>2 DEF EntriesAgree, SubmissionEntry
  <2>4. \A k \in Records \ {s} : LedgerOf(k)' = LedgerOf(k)
    BY <1>0, <1>1, <2>1 DEF TypeOK
  <2> QED BY <2>3, <2>4, LedgerRests
<1>4. CASE Persist
  <2>0. PICK s \in Submissions : s = inflight
    BY <1>0, <1>4 DEF Persist, TypeOK
  <2>1. /\ s = inflight /\ offered[s] = "accepted" /\ task[s] = "absent"
        /\ s \notin lost /\ UNCHANGED <<lost, offered, applied>>
    BY <1>0, <1>4, <2>0 DEF RecallInv, TypeOK, HeldOnce, EachIsSomewhere, InMemory, Persist, feedbackVars
  <2>2. task'[s] \in {"pending", "completed"} /\ \A k \in Records \ {s} : task'[k] = task[k]
    <3>1. task \in [Records -> TaskStates] /\ s \in Records /\ s = inflight
      BY <1>0, <2>1 DEF TypeOK
    <3>2. \/ task' = [task EXCEPT ![inflight] = "completed"]
          \/ task' = [task EXCEPT ![inflight] = IF task[inflight] = "absent" THEN "pending"
                                                ELSE task[inflight]]
      BY <1>4 DEF Persist
    <3> QED BY <2>1, <3>1, <3>2
  <2>3. \A k \in Records \ {s} : LedgerOf(k)' = LedgerOf(k)
    BY <1>0, <1>1, <2>1, <2>2
  <2>4. LedgerOf(s) = "taken"
    BY <1>0, <2>1 DEF EntriesAgree, SubmissionEntry
  <2>5. CASE task'[s] = "pending"
    <3>1. LedgerOf(s)' = "taken"
      BY <1>p, <2>1, <2>5 DEF EntriesAgree, SubmissionEntry
    <3> QED BY <2>3, <2>4, <3>1, LedgerRests
  <2>6. CASE task'[s] = "completed"
    <3>1. LedgerOf(s)' = "done"
      BY <1>p, <2>1, <2>6 DEF EntriesAgree, SubmissionEntry
    <3> QED BY <1>0, <2>1, <2>3, <2>4, <3>1, LedgerDoes
  <2> QED BY <2>2, <2>5, <2>6
\* Submissions that are lost: those in S, all of them in memory.
<1>5. ASSUME NEW S \in SUBSET InMemory, lost' = lost \cup S, UNCHANGED <<offered, task, applied>>
      PROVE  Ledger!LedgerNext
  <2>1. \A s \in S : s \in Submissions /\ offered[s] = "accepted" /\ task[s] = "absent" /\ s \notin lost
    BY DEF RecallInv, InMemory, HeldOnce, EachIsSomewhere
  <2>2. \A s \in S : LedgerOf(s) = "taken" /\ LedgerOf(s)' = "dropped"
    BY <1>0, <1>p, <1>5, <2>1 DEF EntriesAgree, SubmissionEntry
  <2>3. \A k \in Records \ S : LedgerOf(k)' = LedgerOf(k)
    BY <1>0, <1>1, <1>5
  <2>4. S \in SUBSET Records
    BY <1>0, <2>1
  <2> QED BY <2>2, <2>3, <2>4, LedgerDrops
<1>6. CASE PersistFails
  <2>0. PICK s \in Submissions : s = inflight
    BY <1>0, <1>6 DEF PersistFails, TypeOK
  <2>1. /\ UNCHANGED <<offered, task, applied>> /\ {s} \in SUBSET InMemory
        /\ lost' = lost \/ lost' = lost \cup {s}
    BY <1>0, <1>6, <2>0 DEF PersistFails, taskVars, feedbackVars, InMemory, TypeOK
  <2>2. CASE lost' = lost
    BY <1>0, <1>1, <2>1, <2>2, LedgerRests
  <2>3. CASE lost' = lost \cup {s}
    BY <1>5, <2>1, <2>3
  <2> QED BY <2>1, <2>2, <2>3
<1>7. CASE ServerExits \/ ServerCrash
  BY <1>5, <1>7 DEF ServerExits, ServerCrash, Restart, taskVars, feedbackVars
<1>8. ASSUME UNCHANGED <<offered, lost, task, applied>> PROVE LedgerNow' = LedgerNow
  BY <1>0, <1>1, <1>8, LedgerRests
<1>9. CASE WriterTakes \/ Finish \/ BeginClose \/ Drain \/ Join \/ PutSentinel \/ UNCHANGED vars
  BY <1>8, <1>9 DEF WriterTakes, Finish, BeginClose, Drain, Join, PutSentinel, vars, taskVars,
                    feedbackVars
<1>10. ASSUME NEW k \in Records, Abandon(k) PROVE Ledger!LedgerNext \/ LedgerNow' = LedgerNow
  <2>1. /\ task[k] = "pending" /\ task'[k] = "abandoned" /\ \A j \in Records \ {k} : task'[j] = task[j]
        /\ UNCHANGED <<offered, lost, applied>>
    BY <1>0, <1>10 DEF Abandon, feedbackVars, TypeOK
  <2>2. \A j \in Records \ {k} : LedgerOf(j)' = LedgerOf(j)
    BY <1>0, <1>1, <2>1
  <2>3. CASE k \in Receipts /\ k \in applied
    <3>1. LedgerOf(k)' = LedgerOf(k)
      BY <1>0, <1>p, <2>1, <2>3 DEF EntriesAgree, ReceiptEntry
    <3> QED BY <2>2, <3>1, LedgerRests
  <2>4. CASE ~ (k \in Receipts /\ k \in applied)
    <3>1. k \in Submissions => offered[k] = "accepted" /\ k \notin lost
      BY <1>0, <2>1 DEF RecallInv, EachIsSomewhere, TypeOK
    <3>2. LedgerOf(k) = "taken" /\ LedgerOf(k)' = "dropped"
      BY <1>0, <1>p, <2>1, <2>4, <3>1 DEF EntriesAgree, ReceiptEntry, SubmissionEntry
    <3>3. /\ {k} \in SUBSET Records
          /\ \A j \in {k} : LedgerOf(j) = "taken" /\ LedgerOf(j)' = "dropped"
          /\ \A j \in Records \ {k} : LedgerOf(j)' = LedgerOf(j)
      BY <2>2, <3>2
    <3> QED BY <3>3, LedgerDrops
  <2> QED BY <2>3, <2>4
\* A receipt takes effect, with or without a task.
<1>11. ASSUME NEW r \in Receipts, Covered(r) \subseteq visible, applied' = applied \cup {r},
              UNCHANGED <<offered, lost>>, \A k \in Records \ {r} : task'[k] = task[k]
       PROVE  Ledger!LedgerNext \/ LedgerNow' = LedgerNow
  <2>1. \A k \in Records \ {r} : LedgerOf(k)' = LedgerOf(k)
    BY <1>0, <1>1, <1>11
  <2>2. LedgerOf(r)' = "done"
    BY <1>p, <1>11 DEF EntriesAgree, ReceiptEntry
  <2>3. \A x \in Covered(r) : \A s \in CarrierOf(x) : LedgerOf(s) = "done"
    <3> SUFFICES ASSUME NEW x \in Covered(r), NEW s \in CarrierOf(x) PROVE LedgerOf(s) = "done"
      OBVIOUS
    <3>1. s \in Submissions /\ task[s] = "completed"
      BY <1>11 DEF RecallInv, RowsMatchTasks, CarrierOf
    <3> QED BY <1>0, <3>1 DEF EntriesAgree, SubmissionEntry
  <2>4. CASE LedgerOf(r) = "done"
    BY <2>1, <2>2, <2>4, LedgerRests
  <2>5. CASE LedgerOf(r) # "done"
    BY <1>0, <2>1, <2>2, <2>3, <2>5, LedgerDoes
  <2> QED BY <2>4, <2>5
<1>12. ASSUME NEW r \in Receipts, Request(r) PROVE Ledger!LedgerNext \/ LedgerNow' = LedgerNow
  <2>1. CASE ReceiptApplies(r)
    BY <1>11, <2>1 DEF ReceiptApplies, Effect, taskVars
  <2>2. CASE ReceiptEarly(r) \/ CheckRow(r) \/ CheckMemory(r) \/ CheckTask(r)
    BY <1>8, <2>2 DEF ReceiptEarly, CheckRow, CheckMemory, CheckTask, Ask, taskVars, feedbackVars
  <2>3. CASE Register(r)
    <3>1. /\ task'[r] = (IF task[r] = "absent" THEN "pending" ELSE task[r])
          /\ \A k \in Records \ {r} : task'[k] = task[k]
          /\ UNCHANGED <<offered, lost, applied>>
      BY <1>0, <2>3 DEF Register, feedbackVars, TypeOK
    <3>2. \A k \in Records \ {r} : LedgerOf(k)' = LedgerOf(k)
      BY <1>0, <1>1, <3>1
    <3>3. CASE task[r] = "absent" /\ r \notin applied
      <4>1. LedgerOf(r) = "none" /\ LedgerOf(r)' = "taken"
        BY <1>0, <1>p, <3>1, <3>3 DEF EntriesAgree, ReceiptEntry
      <4> QED BY <1>0, <3>2, <4>1, LedgerTakes
    <3>4. CASE ~ (task[r] = "absent" /\ r \notin applied)
      <4>1. LedgerOf(r)' = LedgerOf(r)
        BY <1>0, <1>p, <3>1, <3>4 DEF EntriesAgree, ReceiptEntry
      <4> QED BY <3>2, <4>1, LedgerRests
    <3> QED BY <3>3, <3>4
  <2> QED BY <1>12, <2>1, <2>2, <2>3 DEF Request
<1>13. ASSUME NEW w \in Workers, Handle(w) PROVE Ledger!LedgerNext \/ LedgerNow' = LedgerNow
  <2>1. UNCHANGED <<offered, lost>> /\ working[w] \in Records
    BY <1>0, <1>13 DEF Handle, HandleUnchanged, TypeOK
  <2>2. CASE task[working[w]] = "pending" /\ working[w] \in Submissions
             /\ Materialize(w, working[w])
    <3>0. PICK s \in Submissions : s = working[w]
      BY <2>2
    <3>1. /\ task[s] = "pending" /\ task'[s] = "completed" /\ applied' = applied
          /\ \A k \in Records \ {s} : task'[k] = task[k]
      BY <1>0, <2>1, <2>2, <3>0 DEF Materialize, Complete, TypeOK
    <3>2. offered[s] = "accepted" /\ s \notin lost
      BY <1>0, <3>1 DEF RecallInv, EachIsSomewhere, TypeOK
    <3>3. LedgerOf(s) = "taken" /\ LedgerOf(s)' = "done"
      BY <1>0, <1>p, <3>1, <3>2 DEF EntriesAgree, SubmissionEntry
    <3>4. \A k \in Records \ {s} : LedgerOf(k)' = LedgerOf(k)
      BY <1>0, <1>1, <2>1, <3>1
    <3> QED BY <1>0, <3>3, <3>4, LedgerDoes
  <2>3. CASE task[working[w]] = "pending" /\ working[w] \in Receipts
             /\ ApplyReceipt(w, working[w])
    <3>1. CASE Covered(working[w]) \subseteq visible
      <4>1. applied' = applied \cup {working[w]} /\ \A k \in Records \ {working[w]} : task'[k] = task[k]
        BY <1>0, <2>1, <2>3, <3>1 DEF ApplyReceipt, Effect, Complete, TypeOK
      <4> QED BY <1>11, <2>1, <2>3, <3>1, <4>1
    <3>2. CASE ~ (Covered(working[w]) \subseteq visible)
      BY <1>8, <2>1, <2>3, <3>2 DEF ApplyReceipt, feedbackVars
    <3> QED BY <3>1, <3>2
  <2>4. CASE task[working[w]] # "pending"
    BY <1>8, <1>13, <2>1, <2>4 DEF Handle, feedbackVars
  <2> QED BY <1>13, <2>2, <2>3, <2>4 DEF Handle
<1>14. ASSUME NEW w \in Workers, Work(w) PROVE Ledger!LedgerNext \/ LedgerNow' = LedgerNow
  <2>1. CASE Handle(w)
    BY <1>13, <2>1
  <2>2. CASE ~ Handle(w)
    BY <1>8, <1>14, <2>2 DEF Work, TakeTask, HandleFails, RecordFailure, WorkerCrash, taskVars,
                             feedbackVars
  <2> QED BY <2>1, <2>2
<1> QED BY <1>2, <1>3, <1>4, <1>6, <1>7, <1>9, <1>10, <1>12, <1>14 DEF Next, Writer, Close

\* Dispatcher, tasks and receipts implement EffectLedger: an effect happens at
\* most once, after the effects it needs, and is not undone or forgotten.
THEOREM RecallImplementsLedger == Spec => ImplementsLedger
<1>1. RecallInv /\ RecallInv' /\ [Next]_vars => [Ledger!LedgerNext]_LedgerNow
  BY LedgerStep
<1>2. LedgerNow = [k \in Records |-> LedgerOf(k)]
  BY DEF LedgerNow
<1> QED BY <1>1, <1>2, LedgerStart, RecallInvariant, PTL
        DEF Spec, ImplementsLedger, Ledger!LedgerSpec, LedgerNow
=============================================================================
