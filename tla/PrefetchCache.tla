---------------------------- MODULE PrefetchCache ----------------------------
(***************************************************************************)
(* The prefetch cache of the Hermes adapter (adapters/hermes/prefetch.py)   *)
(* and the circuit breaker every call goes through.  Foreground threads     *)
(* queue prefetches, fetch on a miss, post what was said and then           *)
(* invalidate the session, and shut the cache down (provider.py); a pool of *)
(* threads runs the queued fetches.  No call is made under the cache's lock. *)
(*                                                                          *)
(* Keys are those of one session; other sessions only share the room.  The  *)
(* server is the number of writes it took: a retrieval sees all of them.    *)
(* The rejection table, counters and health are left out.                   *)
(***************************************************************************)
EXTENDS CircuitBreaker, FiniteSets

CONSTANTS
    Hosts, Pool,        \* foreground threads, threads of the executor
    Keys, NoKey,
    MaxEntries, MaxPending,
    MaxFetches,         \* bound: background fetches
    MaxCalls,           \* bound: operations of the foreground
    MaxWrites           \* bound: writes the server takes

ASSUME CacheAssumption ==
    /\ Threads = Hosts \cup Pool /\ Hosts \cap Pool = {}
    /\ IsFiniteSet(Keys) /\ NoKey \notin Keys
    /\ MaxEntries \in Nat /\ MaxPending \in 1..(MaxEntries - 1)
    /\ MaxFetches \in Nat /\ MaxCalls \in Nat /\ MaxWrites \in Nat

VARIABLES
    values,     \* _values
    futures,    \* _futures: the fetches that count against the capacity
    future,     \* the Future of each fetch: its state, its key in _future_keys,
                \* whether _discard_future is attached to it
    closed,     \* _closed
    thread,     \* what each thread is at
    server,     \* writes the server took
    floor,      \* of them, those accepted before an invalidation that is over
    reserved,   \* threads that took the probe right in on_pre_compress
    minted, calls

vars == <<breaker, values, futures, future, closed, thread, server, floor, reserved,
          minted, calls>>

Fetches  == 1..MaxFetches
NoFetch  == 0
Versions == 0..MaxWrites

\* A pending entry is known by its fetch; front marks what fetch_now wrote.
Entries == [status : {"none", "pending", "completed", "expired"},
            fetch : Fetches \cup {NoFetch}, data : Versions, front : BOOLEAN]

None             == [status |-> "none", fetch |-> NoFetch, data |-> 0, front |-> FALSE]
Expired          == [None EXCEPT !.status = "expired"]
PendingOf(f)     == [None EXCEPT !.status = "pending", !.fetch = f]
Completed(v, by) == [None EXCEPT !.status = "completed", !.data = v, !.front = by]

Ops == {"fetch", "fetch_now", "turn", "event", "compress", "end", "shutdown", "queue", "none"}
Steps == {"idle", "hook", "ask", "sent", "good", "bad", "store", "report", "forget",
          "cancel", "done"}

\* Idle, and the fields a thread at work has set: the operation, its key or fetch,
\* what the server answered, the futures to cancel, the keys of those cancelled.
Idle == [pc |-> "idle", op |-> "none", key |-> NoKey, fetch |-> NoFetch, seen |-> 0,
         doomed |-> {}, gone |-> {}]

Held        == {k \in Keys : values[k].status # "none"}
PendingKeys == {k \in Keys : values[k].status = "pending"}
Queued      == {f \in Fetches : future[f].state = "queued"}

At(t, step)   == thread[t].pc = step
GoTo(t, step) == thread' = [thread EXCEPT ![t].pc = step]
Ends(t)       == thread' = [thread EXCEPT ![t] = Idle]

\* A probe right that has passed on is no longer reserved.
Release == reserved' = {t \in reserved : probe' = t}

KeepCache == UNCHANGED <<values, futures, future, closed, minted>>
KeepRest  == UNCHANGED <<server, floor>>

\* _make_room_locked: expired entries leave first, pending ones never.
Victims ==
    LET expired == {k \in Keys : values[k].status = "expired"}
    IN  IF expired # {} THEN expired ELSE Held \ PendingKeys

\* Entry e for k, whether there is room or not.
PutAnyway(k, e) == values' = [values EXCEPT ![k] = e]

\* Entry e for k, after making room for it.
Put(k, e) ==
    IF k \in Held \/ Cardinality(Held) < MaxEntries
    THEN values' = [values EXCEPT ![k] = e]
    ELSE \E v \in Victims : values' = [values EXCEPT ![v] = None, ![k] = e]

\* A foreground thread begins an operation.
Begin(t) == t \in Hosts /\ At(t, "idle") /\ calls < MaxCalls /\ calls' = calls + 1
-----------------------------------------------------------------------------
(* The foreground *)

\* queue: known, refused because closed or full (an expired entry makes way for
\* the rejection), or admitted.
Queue(t, k) ==
    /\ Begin(t)
    /\ values[k].status \notin {"pending", "completed"}
    /\ IF closed \/ Cardinality(futures) >= MaxPending
       THEN /\ values' = [values EXCEPT ![k] = None]
            /\ UNCHANGED <<futures, future, thread, minted>>
       ELSE /\ minted < MaxFetches
            /\ minted' = minted + 1
            /\ Put(k, PendingOf(minted'))
            /\ futures' = futures \cup {minted'}
            /\ future' = [future EXCEPT ![minted'] =
                            [state |-> "queued", key |-> k, hooked |-> FALSE]]
            /\ thread' = [thread EXCEPT ![t] = [Idle EXCEPT !.pc = "hook", !.op = "queue",
                                                            !.fetch = minted']]
    /\ UNCHANGED <<closed, breaker, reserved>> /\ KeepRest

\* _discard_future, in the thread that ends the future or attaches too late.
Discard(f, state) ==
    /\ futures' = futures \ {f}
    /\ future' = [future EXCEPT ![f] = [state |-> state, key |-> NoKey, hooked |-> TRUE]]

\* add_done_callback, after the lock.
Hook(t) ==
    LET f == thread[t].fetch IN
    /\ At(t, "hook")
    /\ IF future[f].state \in {"queued", "running"}
       THEN future' = [future EXCEPT ![f].hooked = TRUE] /\ UNCHANGED futures
       ELSE Discard(f, future[f].state)
    /\ Ends(t)
    /\ UNCHANGED <<values, closed, minted, breaker, reserved, calls>> /\ KeepRest

\* fetch_now on a miss; a closed cache is reported to the breaker as a failure.
FetchNow(t, k) ==
    /\ Begin(t)
    /\ values[k].status # "completed"
    /\ thread' = [thread EXCEPT ![t] = [Idle EXCEPT !.op = "fetch_now", !.key = k,
                                           !.pc = IF closed THEN "report" ELSE "ask"]]
    /\ UNCHANGED <<breaker, reserved>> /\ KeepCache /\ KeepRest

\* sync_turn and on_memory_write, which invalidate the session; on_delegation and
\* other calls, which do not; on_pre_compress.
Post(t, kind) ==
    /\ Begin(t)
    /\ thread' = [thread EXCEPT ![t] = [Idle EXCEPT !.op = kind, !.pc = "ask"]]
    /\ UNCHANGED <<breaker, reserved>> /\ KeepCache /\ KeepRest

\* on_session_end invalidates the session without a call.
EndSession(t) ==
    /\ Begin(t)
    /\ thread' = [thread EXCEPT ![t] = [Idle EXCEPT !.op = "end", !.pc = "forget"]]
    /\ UNCHANGED <<breaker, reserved>> /\ KeepCache /\ KeepRest

\* on_pre_compress asks once for itself, then each of its posts asks again.
PreCompress(t) ==
    /\ At(t, "ask") /\ thread[t].op = "compress"
    /\ \/ /\ Granted(t)
          /\ reserved' = IF probe' # probe THEN reserved \cup {t} ELSE reserved
          /\ thread' = [thread EXCEPT ![t].op = "event"] \/ Ends(t)
       \/ Denied /\ Ends(t) /\ UNCHANGED reserved
    /\ UNCHANGED calls /\ KeepCache /\ KeepRest

\* can_call before a request: denied, a retrieval fails and a post is given up.
Ask(t) ==
    /\ At(t, "ask") /\ thread[t].op # "compress"
    /\ \/ Granted(t) /\ GoTo(t, "sent")
       \/ /\ Denied
          /\ CASE thread[t].op = "fetch"     -> GoTo(t, "bad")
               [] thread[t].op = "fetch_now" -> GoTo(t, "report")
               [] OTHER                      -> Ends(t)
    /\ UNCHANGED <<reserved, calls>> /\ KeepCache /\ KeepRest

\* The server takes the request and the answer comes back.
Answer(t) ==
    /\ At(t, "sent")
    /\ IF thread[t].op \in {"turn", "event"}
       THEN server < MaxWrites /\ server' = server + 1
       ELSE UNCHANGED server
    /\ thread' = [thread EXCEPT ![t].pc = "good", ![t].seen = server']
    /\ UNCHANGED <<breaker, reserved, floor, calls>> /\ KeepCache

\* The request, or the answer of a server that took it, is lost.
Lose(t) ==
    /\ At(t, "sent")
    /\ \/ UNCHANGED server
       \/ thread[t].op \in {"turn", "event"} /\ server < MaxWrites /\ server' = server + 1
    /\ GoTo(t, IF thread[t].op = "fetch" THEN "bad" ELSE "report")
    /\ UNCHANGED <<breaker, reserved, floor, calls>> /\ KeepCache

\* on_success
Succeed(t) ==
    /\ At(t, "good")
    /\ OnSuccess(t) /\ Release
    /\ CASE thread[t].op \in {"fetch", "fetch_now"} -> GoTo(t, "store")
         [] thread[t].op = "turn"                   -> GoTo(t, "forget")
         [] thread[t].op = "event"                  -> GoTo(t, "ask") \/ Ends(t)
    /\ UNCHANGED calls /\ KeepCache /\ KeepRest

\* _handle_retrieval_failure, or on_failure alone after a post.
Report(t) ==
    /\ At(t, "report")
    /\ OnFailure(t) /\ Release
    /\ IF thread[t].op = "fetch" THEN GoTo(t, "done") ELSE Ends(t)
    /\ UNCHANGED calls /\ KeepCache /\ KeepRest

\* The end of fetch_now: the bundle is stored unless a result or a prefetch came
\* first, whatever was invalidated meanwhile.
StoreNow(t) ==
    LET k == thread[t].key IN
    /\ At(t, "store") /\ thread[t].op = "fetch_now"
    /\ IF values[k].status \in {"pending", "completed"} THEN UNCHANGED values
       ELSE Put(k, Completed(thread[t].seen, TRUE))
    /\ Ends(t)
    /\ UNCHANGED <<futures, future, closed, minted, breaker, reserved, calls>> /\ KeepRest

\* The futures in the table, each with its key.
InTable(F) == {<<f, future[f].key>> : f \in {g \in F : future[g].key # NoKey}}

\* What waits is not forgotten.
ForgetResults(t) ==
    /\ At(t, "forget")
    /\ values' = [k \in Keys |-> IF k \in PendingKeys THEN values[k] ELSE None]
    /\ thread' = [thread EXCEPT ![t].pc = "cancel", ![t].doomed = InTable(Fetches)]
    /\ floor' = IF thread[t].seen > floor THEN thread[t].seen ELSE floor
    /\ UNCHANGED <<futures, future, closed, minted, breaker, reserved, server, calls>>

\* invalidate_session under the lock ...
Forget(t) ==
    /\ At(t, "forget")
    /\ values' = [k \in Keys |-> None]
    /\ thread' = [thread EXCEPT ![t].pc = "cancel", ![t].doomed = InTable(Fetches)]
    /\ floor' = IF thread[t].seen > floor THEN thread[t].seen ELSE floor
    /\ UNCHANGED <<futures, future, closed, minted, breaker, reserved, server, calls>>

\* ... and shutdown under it; provider.shutdown is called once.
Shutdown(t) ==
    /\ Begin(t)
    /\ ~closed /\ closed' = TRUE
    /\ thread' = [thread EXCEPT ![t] = [Idle EXCEPT !.op = "shutdown", !.pc = "cancel",
                                                    !.doomed = InTable(futures)]]
    /\ UNCHANGED <<values, futures, future, minted, breaker, reserved>> /\ KeepRest

\* future.cancel() on one of them after the other.  A future that was cancelled
\* before says yes again.
Cancel(t) ==
    \E d \in thread[t].doomed :
        /\ At(t, "cancel")
        /\ IF future[d[1]].state # "queued" THEN UNCHANGED <<futures, future>>
           ELSE IF future[d[1]].hooked THEN Discard(d[1], "cancelled")
           ELSE future' = [future EXCEPT ![d[1]].state = "cancelled"] /\ UNCHANGED futures
        /\ thread' = [thread EXCEPT
              ![t].doomed = @ \ {d},
              ![t].gone = IF future[d[1]].state \in {"queued", "cancelled"}
                          THEN @ \cup {d[2]} ELSE @]
        /\ UNCHANGED <<values, closed, minted, breaker, reserved, calls>> /\ KeepRest

\* Under the lock again, shutdown expires what waits under the keys of cancelled
\* futures.
Cancelled(t) ==
    /\ At(t, "cancel") /\ thread[t].doomed = {}
    /\ values' = IF thread[t].op # "shutdown" THEN values
                 ELSE [k \in Keys |-> IF k \in thread[t].gone \cap PendingKeys THEN Expired
                                      ELSE values[k]]
    /\ Ends(t)
    /\ UNCHANGED <<futures, future, closed, minted, breaker, reserved, calls>> /\ KeepRest
-----------------------------------------------------------------------------
(* The pool *)

\* The executor starts the fetches in their order.
Start(w) ==
    \E f \in Queued :
        /\ w \in Pool /\ At(w, "idle")
        /\ \A g \in Queued : f <= g
        /\ future' = [future EXCEPT ![f].state = "running"]
        /\ thread' = [thread EXCEPT ![w] = [Idle EXCEPT !.op = "fetch", !.pc = "ask",
                                               !.fetch = f, !.key = future[f].key]]
        /\ UNCHANGED <<values, futures, closed, minted, breaker, reserved, calls>> /\ KeepRest

\* Any pending entry will do.
IsPending(k, f) == values[k].status = "pending"

\* The entry is still the one the fetch was queued with.
StillPending(k, f) == values[k] = PendingOf(f)

\* The end of _fetch, under the lock: success ...
Store(w) ==
    LET k == thread[w].key IN
    /\ At(w, "store") /\ thread[w].op = "fetch"
    /\ values' = IF StillPending(k, thread[w].fetch)
                 THEN [values EXCEPT ![k] = Completed(thread[w].seen, FALSE)] ELSE values
    /\ GoTo(w, "done")
    /\ UNCHANGED <<futures, future, closed, minted, breaker, reserved, calls>> /\ KeepRest

\* ... and failure, before the breaker hears of it.
StoreFailure(w) ==
    LET k == thread[w].key IN
    /\ At(w, "bad")
    /\ values' = IF StillPending(k, thread[w].fetch)
                 THEN [values EXCEPT ![k] = Expired] ELSE values
    /\ GoTo(w, "report")
    /\ UNCHANGED <<futures, future, closed, minted, breaker, reserved, calls>> /\ KeepRest

\* The future is done; its callback runs if it is attached by now.
Finish(w) ==
    LET f == thread[w].fetch IN
    /\ At(w, "done")
    /\ IF future[f].hooked THEN Discard(f, "finished")
       ELSE future' = [future EXCEPT ![f].state = "finished"] /\ UNCHANGED futures
    /\ Ends(w)
    /\ UNCHANGED <<values, closed, minted, breaker, reserved, calls>> /\ KeepRest
-----------------------------------------------------------------------------
\* An entry outlives its time (_expire_locked, in whoever looks at it next).
TimeToLive(k) ==
    /\ values[k].status = "completed"
    /\ values' = [values EXCEPT ![k] = Expired]
    /\ UNCHANGED <<futures, future, closed, minted, thread, breaker, reserved, calls>>
    /\ KeepRest

\* The breaker's time passes.
TimePasses == Elapse /\ UNCHANGED <<thread, reserved, calls>> /\ KeepCache /\ KeepRest

Init ==
    /\ BreakerInit
    /\ values = [k \in Keys |-> None]
    /\ futures = {} /\ closed = FALSE
    /\ future = [f \in Fetches |-> [state |-> "none", key |-> NoKey, hooked |-> FALSE]]
    /\ thread = [t \in Threads |-> Idle]
    /\ server = 0 /\ floor = 0 /\ reserved = {} /\ minted = 0 /\ calls = 0

Host(t) ==
    \/ \E k \in Keys : Queue(t, k) \/ FetchNow(t, k)
    \/ \E kind \in {"turn", "event", "compress"} : Post(t, kind)
    \/ EndSession(t) \/ Hook(t) \/ PreCompress(t) \/ StoreNow(t)
    \/ Forget(t) \/ Shutdown(t) \/ Cancel(t) \/ Cancelled(t)

Call(t) == Ask(t) \/ Answer(t) \/ Lose(t) \/ Succeed(t) \/ Report(t)

Worker(w) == Start(w) \/ Store(w) \/ StoreFailure(w) \/ Finish(w)

Next ==
    \/ \E t \in Hosts : Host(t)
    \/ \E t \in Threads : Call(t)
    \/ \E w \in Pool : Worker(w)
    \/ \E k \in Keys : TimeToLive(k)
    \/ TimePasses

Spec == Init /\ [][Next]_vars
-----------------------------------------------------------------------------
TypeOK ==
    /\ BreakerTypeOK
    /\ values \in [Keys -> Entries]
    /\ futures \subseteq Fetches
    /\ future \in [Fetches -> [state : {"none", "queued", "running", "cancelled", "finished"},
                               key : Keys \cup {NoKey}, hooked : BOOLEAN]]
    /\ closed \in BOOLEAN
    /\ thread \in [Threads -> [pc : Steps, op : Ops, key : Keys \cup {NoKey},
                               fetch : Fetches \cup {NoFetch}, seen : Versions,
                               doomed : SUBSET (Fetches \X Keys), gone : SUBSET Keys]]
    /\ server \in Versions /\ floor \in Versions
    /\ reserved \subseteq Threads
    /\ minted \in 0..MaxFetches /\ calls \in 0..MaxCalls

\* No entry waits for a fetch that will not come: its own fetch is queued or running,
\* or it was cancelled by the shutdown that is about to expire the entry (queue,
\* invalidate_session and shutdown cancel outside the lock; a pending entry is never
\* fetched again).
PendingIsServed ==
    \A k \in PendingKeys :
        LET f == values[k].fetch IN
        \/ future[f].state = "queued"
        \/ \E w \in Pool : /\ thread[w].op = "fetch" /\ thread[w].fetch = f
                           /\ thread[w].key = k
                           /\ thread[w].pc \in {"ask", "sent", "good", "bad", "store"}
        \/ future[f].state = "cancelled"
           /\ \E t \in Hosts : thread[t].op = "shutdown" /\ k \in thread[t].gone

\* The bound holds and room for an admitted fetch is always found
\* ("prefetch cache capacity invariant violated" is never raised).
RoomForPending ==
    /\ Cardinality(Held) <= MaxEntries
    /\ Cardinality(Held) = MaxEntries => Victims # {}

\* Only a retrieval of the foreground can leave in the cache what was read before
\* an invalidated write: the result of an old prefetch is dropped, because its entry
\* is not the pending one any more (_fetch; fetch_now does not look).
OnlyForegroundIsStale ==
    \A k \in Keys : values[k].status = "completed" /\ values[k].data < floor => values[k].front

\* While a thread holds the probe right, only its own result moves the breaker: late
\* answers of calls made before it opened do not count.
OnlyProbeDecides ==
    [][\A t \in Threads : probe = t /\ breaker' # breaker => thread'[t] # thread[t]]_vars

\* The probe right is held by a thread that is calling the server.  The one way to
\* hold it idle is on_pre_compress, which asks for itself and again for each post.
ProbeIsUsed ==
    probe # NoThread =>
        probe \in reserved \/ thread[probe].pc \in {"sent", "good", "bad", "report"}
==============================================================================
