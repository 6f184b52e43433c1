---------------------------- MODULE PrefetchProofs ----------------------------
(***************************************************************************)
(* The breaker, the cache's bounds and the promises about its entries, for  *)
(* any threads, keys and limits.                                            *)
(***************************************************************************)
EXTENDS PrefetchCache, FiniteSetTheorems, TLAPS

\* Nobody has the probe right but in the half-open breaker.
ProbeIsHalfOpen == circuit # "half_open" => probe = NoThread

Calling == {"ask", "sent", "good", "bad", "store"}

\* What the place of a thread says of its fields.
Fits(t) ==
    /\ At(t, "idle") => thread[t] = Idle
    /\ At(t, "hook") => thread[t].op = "queue" /\ thread[t].fetch \in 1..minted
    /\ At(t, "ask") => thread[t].op \in {"fetch", "fetch_now", "turn", "event", "compress"}
    /\ thread[t].pc \in {"sent", "good"} => thread[t].op \in {"fetch", "fetch_now", "turn", "event"}
    /\ thread[t].pc \in {"bad", "done"} => thread[t].op = "fetch"
    /\ thread[t].op = "shutdown" => At(t, "cancel") /\ closed
    /\ thread[t].doomed # {} => At(t, "cancel")
    /\ thread[t].seen <= server
    /\ thread[t].op = "fetch_now" => thread[t].key \in Keys
    /\ thread[t].op = "fetch" =>
          /\ t \in Pool
          /\ thread[t].pc \in Calling \cup {"report", "done"}
          /\ thread[t].fetch \in 1..minted
          /\ future[thread[t].fetch].state = "running"

\* Thread t runs the fetch that entry k waits for; t is about to expire the entry.
Runs(t, k) ==
    /\ thread[t].op = "fetch" /\ thread[t].pc \in Calling
    /\ thread[t].fetch = values[k].fetch /\ thread[t].key = k

Expires(t, k) == thread[t].op = "shutdown" /\ k \in thread[t].gone

\* A fetch is run once.
OneRunner ==
    \A t, u \in Threads :
        thread[t].op = "fetch" /\ thread[u].op = "fetch" /\ thread[t].fetch = thread[u].fetch
            => t = u

\* Futures that exist were handed out; those that will run count.
FuturesFit ==
    \A f \in Fetches :
        /\ f > minted => future[f].state = "none" /\ future[f].key = NoKey
        /\ future[f].state \in {"queued", "running"} => f \in futures

\* A pending entry is nothing but its fetch, which is its own and knows its key.
EntriesFit ==
    \A k \in PendingKeys :
        /\ values[k].fetch \in 1..minted /\ values[k] = PendingOf(values[k].fetch)
        /\ future[values[k].fetch].state = "queued" => future[values[k].fetch].key = k
        /\ \A j \in PendingKeys : values[j].fetch = values[k].fetch => j = k

\* What an invalidation is about to cancel, no entry waits for any more.
DoomedFits(t) ==
    \A d \in thread[t].doomed :
        /\ d[1] \in 1..minted
        /\ future[d[1]].key \in {d[2], NoKey}
        /\ thread[t].op # "shutdown" => \A k \in PendingKeys : values[k].fetch # d[1]

FewPending == Cardinality(PendingKeys) <= MaxPending

FewHeld == Cardinality(Held) <= MaxEntries

\* What a fetch is about to store, and what one has stored, is no older than the floor.
Fresh ==
    /\ floor <= server
    /\ \A w \in Pool, k \in PendingKeys :
          Runs(w, k) /\ thread[w].pc \in {"good", "store"} => thread[w].seen >= floor
    /\ \A k \in Keys : values[k].status = "completed" /\ ~values[k].front => values[k].data >= floor

CacheShape ==
    /\ \A t \in Threads : Fits(t) /\ DoomedFits(t)
    /\ OneRunner /\ FuturesFit /\ EntriesFit /\ PendingIsServed /\ FewPending

\* The inductive invariant.
CacheInv == TypeOK /\ ProbeIsHalfOpen /\ ProbeIsUsed /\ CacheShape /\ FewHeld /\ Fresh

\* The records thread maps to.
Places == [pc : Steps, op : Ops, key : Keys \cup {NoKey}, fetch : Fetches \cup {NoFetch},
           seen : Versions, doomed : SUBSET (Fetches \X Keys), gone : SUBSET Keys]

Slots == [state : {"none", "queued", "running", "cancelled", "finished"},
          key : Keys \cup {NoKey}, hooked : BOOLEAN]
-----------------------------------------------------------------------------
(* Threads, entries and futures change one at a time *)

\* What a step may assume of the constants, in the form the provers use.
LEMMA Limits ==
    /\ MaxEntries \in Nat /\ MaxPending \in Nat /\ MaxPending < MaxEntries
    /\ MaxFetches \in Nat /\ MaxCalls \in Nat /\ MaxWrites \in Nat
    /\ Threads = Hosts \cup Pool /\ NoThread \notin Threads /\ NoKey \notin Keys
    /\ IsFiniteSet(Keys) /\ IsFiniteSet(Fetches)
<1>1. MaxPending \in Nat /\ MaxPending < MaxEntries BY CacheAssumption
<1>2. IsFiniteSet(Fetches) BY CacheAssumption, FS_Interval DEF Fetches
<1> QED BY <1>1, <1>2, CacheAssumption, BreakerAssumption

LEMMA IdlePlace ==
    Idle \in Places /\ Idle.pc = "idle" /\ Idle.op = "none" /\ Idle.doomed = {} /\ Idle.seen = 0
BY CacheAssumption DEF Idle, Places, Steps, Ops, Versions

\* A thread that moves on keeps its fields.
LEMMA Moves ==
    ASSUME thread \in [Threads -> Places], NEW t \in Threads, NEW step \in Steps,
           GoTo(t, step)
    PROVE  /\ thread' \in [Threads -> Places]
           /\ \A u \in Threads : u # t => thread'[u] = thread[u]
           /\ thread'[t] = [thread[t] EXCEPT !.pc = step]
           /\ thread'[t].pc = step /\ thread'[t].op = thread[t].op
           /\ thread'[t].key = thread[t].key /\ thread'[t].fetch = thread[t].fetch
           /\ thread'[t].seen = thread[t].seen /\ thread'[t].doomed = thread[t].doomed
           /\ thread'[t].gone = thread[t].gone
BY DEF GoTo, Places

\* A thread that ends is idle.
LEMMA Stops ==
    ASSUME thread \in [Threads -> Places], NEW t \in Threads, Ends(t)
    PROVE  /\ thread' \in [Threads -> Places]
           /\ \A u \in Threads : u # t => thread'[u] = thread[u]
           /\ thread'[t] = Idle
BY IdlePlace DEF Ends

\* A thread that begins is at what it begins.
LEMMA Begins ==
    ASSUME thread \in [Threads -> Places], NEW t \in Threads, NEW x \in Places,
           thread' = [thread EXCEPT ![t] = x]
    PROVE  /\ thread' \in [Threads -> Places]
           /\ \A u \in Threads : u # t => thread'[u] = thread[u]
           /\ thread'[t] = x
OBVIOUS

\* An entry is put, and at most one that does not wait leaves.
LEMMA Puts ==
    ASSUME values \in [Keys -> Entries], NEW k \in Keys, NEW e \in Entries, Put(k, e)
    PROVE  /\ values' \in [Keys -> Entries]
           /\ values'[k] = e
           /\ \A j \in Keys : \/ j = k \/ values'[j] = values[j]
                              \/ values'[j] = None /\ values[j].status # "pending"
<1>1. None \in Entries BY CacheAssumption DEF None, Entries, Versions, NoFetch
<1>2. CASE values' = [values EXCEPT ![k] = e] BY <1>2
<1>3. CASE \E v \in Victims : values' = [values EXCEPT ![v] = None, ![k] = e]
  <2>1. PICK v \in Victims : values' = [values EXCEPT ![v] = None, ![k] = e] BY <1>3
  <2>2. v \in Keys /\ values[v].status # "pending" BY DEF Victims, Held, PendingKeys
  <2> QED BY <1>1, <2>1, <2>2
<1> QED BY <1>2, <1>3 DEF Put

\* A future that ends leaves the table.
LEMMA Discards ==
    ASSUME future \in [Fetches -> Slots], futures \subseteq Fetches, NEW f \in Fetches,
           NEW s \in {"none", "queued", "running", "cancelled", "finished"}, Discard(f, s)
    PROVE  /\ future' \in [Fetches -> Slots]
           /\ futures' = futures \ {f}
           /\ \A g \in Fetches : g # f => future'[g] = future[g]
           /\ future'[f].state = s /\ future'[f].key = NoKey
BY DEF Discard, Slots

\* The entries of every kind are entries, and say what they are.
LEMMA Kinds ==
    /\ None \in Entries /\ Expired \in Entries
    /\ None.status = "none" /\ Expired.status = "expired"
    /\ \A f \in Fetches : /\ PendingOf(f) \in Entries
                          /\ PendingOf(f).status = "pending" /\ PendingOf(f).fetch = f
    /\ \A v \in Versions, by \in BOOLEAN :
          /\ Completed(v, by) \in Entries /\ Completed(v, by).status = "completed"
          /\ Completed(v, by).data = v /\ Completed(v, by).front = by
<1>1. None \in Entries /\ None.status = "none"
  BY CacheAssumption DEF None, Entries, Versions, NoFetch
<1>2. Expired \in Entries /\ Expired.status = "expired" BY <1>1 DEF Expired, Entries
<1>3. ASSUME NEW f \in Fetches
      PROVE  /\ PendingOf(f) \in Entries
             /\ PendingOf(f).status = "pending" /\ PendingOf(f).fetch = f
  <2>1. [None EXCEPT !.status = "pending"] \in Entries BY <1>1 DEF Entries
  <2> QED BY <1>1, <2>1 DEF PendingOf, Entries
<1>4. ASSUME NEW v \in Versions, NEW by \in BOOLEAN
      PROVE  /\ Completed(v, by) \in Entries /\ Completed(v, by).status = "completed"
             /\ Completed(v, by).data = v /\ Completed(v, by).front = by
  BY <1>1 DEF Completed, Entries
<1> QED BY <1>1, <1>2, <1>3, <1>4
-----------------------------------------------------------------------------
(* Steps that leave the futures alone *)

\* PendingIsServed with these words.
Served(k) ==
    \/ future[values[k].fetch].state = "queued"
    \/ \E w \in Pool : Runs(w, k)
    \/ future[values[k].fetch].state = "cancelled" /\ \E t \in Hosts : Expires(t, k)

LEMMA ServedMeans == PendingIsServed <=> \A k \in PendingKeys : Served(k)
BY DEF PendingIsServed, Served, Runs, Expires, Calling

LEMMA PendingIsFinite ==
    /\ IsFiniteSet(PendingKeys) /\ IsFiniteSet(Held)
    /\ Cardinality(PendingKeys) \in Nat /\ Cardinality(Held) \in Nat
<1>1. PendingKeys \subseteq Keys /\ Held \subseteq Keys BY DEF PendingKeys, Held
<1> QED BY <1>1, Limits, FS_Subset, FS_CardinalityType

\* Fewer entries wait than before.
LEMMA FewerPending ==
    ASSUME FewPending, PendingKeys' \subseteq PendingKeys
    PROVE  FewPending'
<1>1. Cardinality(PendingKeys') <= Cardinality(PendingKeys) /\ Cardinality(PendingKeys') \in Nat
  BY PendingIsFinite, FS_Subset, FS_CardinalityType
<1> QED BY <1>1, PendingIsFinite, Limits DEF FewPending

\* Thread t moves and stays in order; it takes up no fetch and leaves no entry alone.
MovesOn(t) ==
    /\ Fits(t)' /\ DoomedFits(t)'
    /\ thread'[t].op = "fetch" => thread[t].op = "fetch" /\ thread'[t].fetch = thread[t].fetch
    /\ \A k \in PendingKeys' : (Runs(t, k) => Runs(t, k)') /\ (Expires(t, k) => Expires(t, k)')

\* Threads move on, entries stop waiting but none begins to.
LEMMA QuietStep ==
    ASSUME CacheInv, TypeOK',
           \A t \in Threads : thread'[t] = thread[t] \/ MovesOn(t),
           UNCHANGED <<futures, future, minted>>, closed => closed', server <= server',
           \A k \in Keys : values'[k].status = "pending" => values'[k] = values[k]
    PROVE  CacheShape'
<1>0. PendingKeys' \subseteq PendingKeys /\ \A k \in PendingKeys' : values'[k] = values[k]
  BY DEF PendingKeys
<1>1. ASSUME NEW t \in Threads PROVE Fits(t)' /\ DoomedFits(t)'
  <2>1. CASE MovesOn(t) BY <2>1 DEF MovesOn
  <2>2. CASE thread'[t] = thread[t]
    <3>1. Fits(t) /\ DoomedFits(t) BY DEF CacheInv, CacheShape
    <3>2. thread[t].seen <= server => thread[t].seen <= server'
      BY Limits DEF CacheInv, TypeOK, Versions
    <3>3. Fits(t)' BY <2>2, <3>1, <3>2 DEF Fits, At
    <3>4. DoomedFits(t)' BY <2>2, <3>1, <1>0 DEF DoomedFits
    <3> QED BY <3>3, <3>4
  <2> QED BY <2>1, <2>2
<1>2. OneRunner'
  <2>1. \A t \in Threads : thread'[t].op = "fetch" =>
            thread[t].op = "fetch" /\ thread'[t].fetch = thread[t].fetch
    BY DEF MovesOn
  <2> QED BY <2>1 DEF OneRunner, CacheInv, CacheShape
<1>3. FuturesFit' BY DEF FuturesFit, CacheInv, CacheShape
<1>4. EntriesFit' BY <1>0 DEF EntriesFit, CacheInv, CacheShape
<1>5. ASSUME NEW k \in PendingKeys' PROVE Served(k)'
  <2>1. Served(k) /\ values'[k] = values[k]
    BY <1>0, ServedMeans DEF CacheInv, CacheShape
  <2>2. \A t \in Threads : (Runs(t, k) => Runs(t, k)') /\ (Expires(t, k) => Expires(t, k)')
    <3> SUFFICES ASSUME NEW t \in Threads
                 PROVE (Runs(t, k) => Runs(t, k)') /\ (Expires(t, k) => Expires(t, k)')
      OBVIOUS
    <3>1. CASE MovesOn(t) BY <3>1 DEF MovesOn
    <3>2. CASE thread'[t] = thread[t] BY <2>1, <3>2 DEF Runs, Expires
    <3> QED BY <3>1, <3>2
  <2> QED BY <2>1, <2>2, Limits DEF Served
<1>6. PendingIsServed' BY <1>5 DEF PendingIsServed, Served, Runs, Expires, Calling
<1>7. FewPending' BY <1>0, FewerPending DEF CacheInv, CacheShape
<1> QED BY <1>1, <1>2, <1>3, <1>4, <1>6, <1>7 DEF CacheShape

\* The types of what changes together.
LEMMA Typed ==
    TypeOK <=> /\ BreakerTypeOK
               /\ values \in [Keys -> Entries] /\ futures \subseteq Fetches
               /\ future \in [Fetches -> Slots] /\ thread \in [Threads -> Places]
               /\ closed \in BOOLEAN /\ server \in Versions /\ floor \in Versions
               /\ reserved \subseteq Threads
               /\ minted \in 0..MaxFetches /\ calls \in 0..MaxCalls
BY DEF TypeOK, Slots, Places

LEMMA TypedNext ==
    ASSUME BreakerTypeOK', values' \in [Keys -> Entries], futures' \subseteq Fetches,
           future' \in [Fetches -> Slots], thread' \in [Threads -> Places],
           closed' \in BOOLEAN, server' \in Versions, floor' \in Versions,
           reserved' \subseteq Threads, minted' \in 0..MaxFetches, calls' \in 0..MaxCalls
    PROVE  TypeOK'
BY DEF TypeOK, Slots, Places

\* A call or the beginning of one: the cache stays as it is.
LEMMA FreeStep ==
    ASSUME CacheInv, TypeOK', NEW t \in Threads,
           \A u \in Threads : u # t => thread'[u] = thread[u],
           KeepCache, floor' = floor, server <= server',
           Fits(t)', thread'[t].doomed = {}, thread[t].op # "shutdown",
           thread'[t].op = "fetch" => thread[t].op = "fetch" /\ thread'[t].fetch = thread[t].fetch
                                                     /\ thread'[t].key = thread[t].key,
           thread[t].op = "fetch" /\ thread[t].pc \in Calling =>
               thread'[t].op = "fetch" /\ thread'[t].pc \in Calling,
           thread'[t].op = "fetch" /\ thread'[t].pc \in {"good", "store"} =>
               \/ thread'[t].seen = server'
               \/ thread[t].pc \in {"good", "store"} /\ thread'[t].seen = thread[t].seen
    PROVE  CacheShape' /\ FewHeld' /\ Fresh'
<1>1. CacheShape'
  <2>1. DoomedFits(t)' BY DEF DoomedFits
  <2>2. \A k \in Keys : values'[k].status = "pending" => values'[k] = values[k] BY DEF KeepCache
  <2>3. UNCHANGED <<futures, future, minted>> /\ closed' = closed BY DEF KeepCache
  <2>4. \A k \in PendingKeys' : (Runs(t, k) => Runs(t, k)') /\ (Expires(t, k) => Expires(t, k)')
    BY DEF Runs, Expires, KeepCache
  <2>5. MovesOn(t) BY <2>1, <2>4 DEF MovesOn
  <2> QED BY <2>2, <2>3, <2>5, QuietStep
<1>2. FewHeld' BY DEF FewHeld, Held, KeepCache, CacheInv
<1>3. Fresh'
  <2>0. server \in Nat /\ server' \in Nat /\ floor \in Nat /\ floor <= server
    BY Limits DEF CacheInv, TypeOK, Versions, Fresh
  <2>1. floor' <= server' BY <2>0
  <2>2. ASSUME NEW w \in Pool, NEW k \in PendingKeys',
               Runs(w, k)', thread'[w].pc \in {"good", "store"}
        PROVE  thread'[w].seen >= floor'
    <3>0. k \in PendingKeys /\ values' = values BY DEF PendingKeys, KeepCache
    <3>1. CASE w # t
      <4>1. thread'[w] = thread[w] BY <3>1, Limits
      <4>2. Runs(w, k) BY <2>2, <3>0, <4>1 DEF Runs
      <4> QED BY <2>2, <3>0, <4>1, <4>2 DEF Fresh, CacheInv
    <3>2. CASE w = t
      <4>1. CASE thread'[t].seen = server' BY <4>1, <3>2, <2>0
      <4>2. CASE thread[t].pc \in {"good", "store"} /\ thread'[t].seen = thread[t].seen
        <5>1. Runs(t, k) BY <2>2, <3>0, <3>2, <4>2 DEF Runs, Calling
        <5> QED BY <3>0, <3>2, <4>2, <5>1 DEF Fresh, CacheInv
      <4> QED BY <4>1, <4>2, <2>2, <3>2 DEF Runs
    <3> QED BY <3>1, <3>2
  <2>3. \A k \in Keys : values'[k].status = "completed" /\ ~values'[k].front
                          => values'[k].data >= floor'
    BY DEF Fresh, CacheInv, KeepCache
  <2> QED BY <2>1, <2>2, <2>3 DEF Fresh
<1> QED BY <1>1, <1>2, <1>3

\* The breaker and who owns its probe stay, and so does where the owner is.
LEMMA ProbeStays ==
    ASSUME CacheInv, NEW t \in Threads, UNCHANGED <<breaker, reserved>>,
           \A u \in Threads : u # t => thread'[u] = thread[u],
           thread[t].pc \in {"sent", "good", "bad", "report"} =>
               thread'[t].pc \in {"sent", "good", "bad", "report"}
    PROVE  BreakerTypeOK' /\ ProbeIsHalfOpen' /\ ProbeIsUsed'
<1>1. circuit' = circuit /\ failures' = failures /\ probe' = probe /\ reserved' = reserved
  BY DEF breaker
<1>2. BreakerTypeOK' /\ ProbeIsHalfOpen'
  BY <1>1 DEF CacheInv, TypeOK, BreakerTypeOK, ProbeIsHalfOpen
<1>3. ProbeIsUsed' BY <1>1 DEF CacheInv, TypeOK, BreakerTypeOK, ProbeIsUsed
<1> QED BY <1>2, <1>3

\* A foreground operation begins with a call, or with an invalidation.
LEMMA BeginKeepsInv ==
    ASSUME CacheInv, NEW t \in Hosts,
           \/ \E k \in Keys : FetchNow(t, k)
           \/ \E kind \in {"turn", "event", "compress"} : Post(t, kind)
           \/ EndSession(t)
    PROVE  CacheInv'
<1>1. \E x \in Places :
         /\ thread' = [thread EXCEPT ![t] = x]
         /\ x.doomed = {} /\ x.seen = 0
         /\ \/ x.pc \in {"ask", "report"} /\ x.op = "fetch_now" /\ x.key \in Keys
            \/ x.pc = "ask" /\ x.op \in {"turn", "event", "compress"}
            \/ x.pc = "forget" /\ x.op = "end"
  <2>1. ASSUME NEW k \in Keys, FetchNow(t, k)
        PROVE  \E x \in Places : /\ thread' = [thread EXCEPT ![t] = x]
                                 /\ x.doomed = {} /\ x.seen = 0
                                 /\ x.pc \in {"ask", "report"} /\ x.op = "fetch_now"
                                 /\ x.key \in Keys
    <3> DEFINE x == [Idle EXCEPT !.op = "fetch_now", !.key = k,
                                 !.pc = IF closed THEN "report" ELSE "ask"]
    <3>1. x \in Places /\ x.doomed = {} /\ x.seen = 0
          /\ x.pc \in {"ask", "report"} /\ x.op = "fetch_now" /\ x.key \in Keys
      BY IdlePlace DEF Places, Steps, Ops
    <3>2. thread' = [thread EXCEPT ![t] = x] BY <2>1 DEF FetchNow
    <3> QED BY <3>1, <3>2
  <2>2. ASSUME NEW kind \in {"turn", "event", "compress"}, Post(t, kind)
        PROVE  \E x \in Places : /\ thread' = [thread EXCEPT ![t] = x]
                                 /\ x.doomed = {} /\ x.seen = 0
                                 /\ x.pc = "ask" /\ x.op \in {"turn", "event", "compress"}
    <3> DEFINE x == [Idle EXCEPT !.op = kind, !.pc = "ask"]
    <3>1. x \in Places /\ x.doomed = {} /\ x.seen = 0 /\ x.pc = "ask" /\ x.op = kind
      BY IdlePlace DEF Places, Steps, Ops
    <3>2. thread' = [thread EXCEPT ![t] = x] BY <2>2 DEF Post
    <3> QED BY <3>1, <3>2
  <2>3. CASE EndSession(t)
    <3> DEFINE x == [Idle EXCEPT !.op = "end", !.pc = "forget"]
    <3>1. x \in Places /\ x.doomed = {} /\ x.seen = 0 /\ x.pc = "forget" /\ x.op = "end"
      BY IdlePlace DEF Places, Steps, Ops
    <3>2. thread' = [thread EXCEPT ![t] = x] BY <2>3 DEF EndSession
    <3> QED BY <3>1, <3>2
  <2> QED BY <2>1, <2>2, <2>3
<1>2. /\ Begin(t) /\ UNCHANGED <<breaker, reserved>> /\ KeepCache /\ KeepRest
  BY DEF FetchNow, Post, EndSession
<1>3. PICK x \in Places :
         /\ thread' = [thread EXCEPT ![t] = x]
         /\ x.doomed = {} /\ x.seen = 0
         /\ \/ x.pc \in {"ask", "report"} /\ x.op = "fetch_now" /\ x.key \in Keys
            \/ x.pc = "ask" /\ x.op \in {"turn", "event", "compress"}
            \/ x.pc = "forget" /\ x.op = "end"
  BY <1>1
<1>4. /\ t \in Threads /\ thread \in [Threads -> Places] /\ thread[t] = Idle
  BY <1>2, Limits, Typed DEF CacheInv, CacheShape, Fits, Begin
<1>5. /\ thread' \in [Threads -> Places] /\ thread'[t] = x
      /\ \A u \in Threads : u # t => thread'[u] = thread[u]
  BY <1>3, <1>4, Begins
<1>6. BreakerTypeOK' /\ ProbeIsHalfOpen' /\ ProbeIsUsed'
  BY <1>2, <1>4, <1>5, IdlePlace, ProbeStays
<1>7. calls' \in 0..MaxCalls BY <1>2, Limits DEF Begin, CacheInv, TypeOK
<1>8. TypeOK'
  BY <1>2, <1>5, <1>6, <1>7, Typed, TypedNext DEF CacheInv, KeepCache, KeepRest
<1>9. 0 <= server' BY Limits, <1>2 DEF CacheInv, TypeOK, Versions, KeepRest
<1>10. Fits(t)' BY <1>3, <1>5, <1>9 DEF Fits, At
<1>11. server <= server' /\ floor' = floor
  BY <1>2, Limits DEF KeepRest, CacheInv, TypeOK, Versions
<1>12. CacheShape' /\ FewHeld' /\ Fresh'
  BY <1>2, <1>3, <1>4, <1>5, <1>8, <1>10, <1>11, IdlePlace, FreeStep
<1> QED BY <1>6, <1>8, <1>12 DEF CacheInv

\* Whoever is granted a probe found none.
LEMMA Grants ==
    ASSUME BreakerTypeOK, ProbeIsHalfOpen, NEW t \in Threads, Granted(t)
    PROVE  /\ BreakerTypeOK' /\ ProbeIsHalfOpen'
           /\ probe' = probe \/ (probe = NoThread /\ probe' = t)
BY DEF Granted, breaker, BreakerTypeOK, ProbeIsHalfOpen

\* A result moves the breaker only if nobody else probes, and ends the own probe.
LEMMA Results ==
    ASSUME BreakerTypeOK, ProbeIsHalfOpen, NEW t \in Threads, OnSuccess(t) \/ OnFailure(t)
    PROVE  /\ BreakerTypeOK' /\ ProbeIsHalfOpen'
           /\ probe' = NoThread \/ (probe' = probe /\ probe # t)
           /\ UNCHANGED breaker \/ probe \in {NoThread, t}
<1>0. Threshold \in Nat /\ Threshold # 0 /\ NoThread \notin Threads BY BreakerAssumption
<1>1. CASE ~Counts(t)
  <2>1. UNCHANGED breaker BY <1>1 DEF OnSuccess, OnFailure
  <2>2. probe = NoThread \/ probe # t BY <1>1 DEF Counts, ProbeIsHalfOpen
  <2> QED BY <2>1, <2>2 DEF breaker, BreakerTypeOK, ProbeIsHalfOpen
<1>2. CASE Counts(t)
  <2>1. probe \in {NoThread, t} BY <1>2 DEF Counts
  <2>2. CASE OnSuccess(t)
    BY <1>0, <1>2, <2>1, <2>2 DEF OnSuccess, BreakerTypeOK, ProbeIsHalfOpen
  <2>3. CASE Open
    BY <1>0, <2>1, <2>3 DEF Open, BreakerTypeOK, ProbeIsHalfOpen
  <2>4. CASE /\ probe # t /\ failures + 1 < Threshold
             /\ failures' = failures + 1 /\ UNCHANGED <<circuit, probe>>
    BY <1>0, <2>1, <2>4 DEF BreakerTypeOK, ProbeIsHalfOpen
  <2> QED BY <1>2, <2>2, <2>3, <2>4 DEF OnFailure
<1> QED BY <1>1, <1>2

\* A thread of the cache moves from one step of a call to the next.
LEMMA CallMoves ==
    ASSUME CacheInv, NEW t \in Threads, NEW step \in Steps, GoTo(t, step),
           thread[t].pc \in {"ask", "sent", "good", "report"},
           thread[t].op \in {"fetch", "fetch_now", "turn", "event"},
           step \in Calling \cup {"report", "forget", "done"},
           step \in {"sent", "good"} \cup Calling => thread[t].pc # "report",
           thread[t].op = "fetch" => IF thread[t].pc = "report" THEN step = "done"
                                     ELSE step \in Calling,
           step \in {"bad", "done"} => thread[t].op = "fetch",
           step \in {"good", "store"} => thread[t].pc = "good",
           KeepCache, floor' = floor, server <= server',
           BreakerTypeOK', ProbeIsHalfOpen', ProbeIsUsed',
           server' \in Versions, reserved' \subseteq Threads, calls' = calls
    PROVE  CacheInv'
<1>1. thread \in [Threads -> Places] /\ Fits(t) BY Typed DEF CacheInv, CacheShape
<1>2. /\ thread' \in [Threads -> Places]
      /\ \A u \in Threads : u # t => thread'[u] = thread[u]
      /\ thread'[t].pc = step /\ thread'[t].op = thread[t].op
      /\ thread'[t].key = thread[t].key /\ thread'[t].fetch = thread[t].fetch
      /\ thread'[t].seen = thread[t].seen /\ thread'[t].doomed = thread[t].doomed
  BY <1>1, Moves
<1>3. TypeOK' BY <1>2, Typed, TypedNext DEF CacheInv, KeepCache
<1>4. Fits(t)'
  <2>1. thread'[t].seen <= server'
    BY <1>1, <1>2, Limits DEF Fits, CacheInv, TypeOK, Versions
  <2>2. thread[t].op = "fetch" => step \in Calling \cup {"report", "done"} OBVIOUS
  <2> QED BY <1>1, <1>2, <2>1, <2>2 DEF Fits, At, KeepCache, Calling
<1>5. thread'[t].doomed = {} /\ thread[t].op # "shutdown" BY <1>1, <1>2 DEF Fits, At
<1>6. CacheShape' /\ FewHeld' /\ Fresh'
  BY <1>2, <1>3, <1>4, <1>5, FreeStep DEF Calling
<1> QED BY <1>3, <1>6 DEF CacheInv

\* A call of the foreground ends.
LEMMA CallEnds ==
    ASSUME CacheInv, NEW t \in Threads, Ends(t),
           thread[t].pc \in {"ask", "good", "report"},
           thread[t].op # "fetch",
           KeepCache, floor' = floor, server' = server,
           BreakerTypeOK', ProbeIsHalfOpen', ProbeIsUsed',
           reserved' \subseteq Threads, calls' = calls
    PROVE  CacheInv'
<1>1. thread \in [Threads -> Places] /\ Fits(t) BY Typed DEF CacheInv, CacheShape
<1>2. /\ thread' \in [Threads -> Places] /\ thread'[t] = Idle
      /\ \A u \in Threads : u # t => thread'[u] = thread[u]
  BY <1>1, Stops
<1>3. TypeOK' BY <1>2, Typed, TypedNext DEF CacheInv, KeepCache
<1>4. 0 <= server' /\ server <= server' BY Limits DEF CacheInv, TypeOK, Versions
<1>5. Fits(t)' BY <1>2, <1>4, IdlePlace DEF Fits, At
<1>6. thread[t].op # "shutdown" BY <1>1 DEF Fits, At
<1>7. CacheShape' /\ FewHeld' /\ Fresh'
  BY <1>2, <1>3, <1>4, <1>5, <1>6, IdlePlace, FreeStep
<1> QED BY <1>3, <1>7 DEF CacheInv

\* can_call before a request.
LEMMA AskKeepsInv ==
    ASSUME CacheInv, NEW t \in Threads, Ask(t)
    PROVE  CacheInv'
<1>1. /\ thread \in [Threads -> Places] /\ Fits(t) /\ BreakerTypeOK /\ ProbeIsHalfOpen
      /\ server \in Versions /\ reserved \subseteq Threads
  BY Typed DEF CacheInv, CacheShape
<1>2. /\ thread[t].pc = "ask" /\ thread[t].op \in {"fetch", "fetch_now", "turn", "event"}
      /\ KeepCache /\ UNCHANGED <<server, floor, reserved, calls>>
  BY <1>1 DEF Ask, Fits, At, KeepRest
<1>3. server <= server' BY <1>1, <1>2, Limits DEF Versions
<1>4. CASE Granted(t) /\ GoTo(t, "sent")
  <2>1. BreakerTypeOK' /\ ProbeIsHalfOpen' /\ (probe' = probe \/ probe' = t)
    BY <1>1, <1>4, Grants
  <2>2. /\ \A u \in Threads : u # t => thread'[u] = thread[u]
        /\ thread'[t].pc = "sent"
    BY <1>1, <1>4, Moves DEF Steps
  <2>3. ProbeIsUsed'
    BY <1>2, <2>1, <2>2 DEF ProbeIsUsed, CacheInv, BreakerTypeOK
  <2> QED BY <1>1, <1>2, <1>3, <1>4, <2>1, <2>3, CallMoves DEF Steps, Calling
<1>5. CASE Denied
  <2>1. UNCHANGED <<breaker, reserved>> BY <1>2, <1>5 DEF Denied
  <2>2. CASE thread[t].op = "fetch"
    <3>1. GoTo(t, "bad") BY <1>2, <1>5, <2>2 DEF Ask, Granted, Denied, BreakerTypeOK, breaker
    <3>2. BreakerTypeOK' /\ ProbeIsHalfOpen' /\ ProbeIsUsed'
      BY <1>1, <1>2, <2>1, <3>1, Moves, ProbeStays DEF Steps
    <3> QED BY <1>1, <1>2, <1>3, <2>2, <3>1, <3>2, CallMoves DEF Steps, Calling
  <2>3. CASE thread[t].op = "fetch_now"
    <3>1. GoTo(t, "report")
      BY <1>2, <1>5, <2>3 DEF Ask, Granted, Denied, BreakerTypeOK, breaker
    <3>2. BreakerTypeOK' /\ ProbeIsHalfOpen' /\ ProbeIsUsed'
      BY <1>1, <1>2, <2>1, <3>1, Moves, ProbeStays DEF Steps
    <3> QED BY <1>1, <1>2, <1>3, <2>3, <3>1, <3>2, CallMoves DEF Steps, Calling
  <2>4. CASE thread[t].op \in {"turn", "event"}
    <3>1. Ends(t) BY <1>2, <1>5, <2>4 DEF Ask, Granted, Denied, BreakerTypeOK, breaker
    <3>2. BreakerTypeOK' /\ ProbeIsHalfOpen' /\ ProbeIsUsed'
      BY <1>1, <1>2, <2>1, <3>1, Stops, ProbeStays
    <3> QED BY <1>1, <1>2, <2>4, <3>1, <3>2, CallEnds
  <2> QED BY <1>2, <2>2, <2>3, <2>4
<1> QED BY <1>4, <1>5 DEF Ask

\* The request is lost, or its answer.
LEMMA LoseKeepsInv ==
    ASSUME CacheInv, NEW t \in Threads, Lose(t)
    PROVE  CacheInv'
<1> DEFINE step == IF thread[t].op = "fetch" THEN "bad" ELSE "report"
<1>1. /\ thread \in [Threads -> Places] /\ Fits(t)
      /\ server \in Versions /\ reserved \subseteq Threads
  BY Typed DEF CacheInv, CacheShape
<1>2. /\ thread[t].pc = "sent" /\ thread[t].op \in {"fetch", "fetch_now", "turn", "event"}
      /\ KeepCache /\ UNCHANGED <<breaker, floor, reserved, calls>> /\ GoTo(t, step)
  BY <1>1 DEF Lose, Fits, At
<1>3. server <= server' /\ server' \in Versions BY <1>1, Limits DEF Lose, Versions
<1>4. step \in {"bad", "report"} /\ step \in Steps BY DEF Steps
<1>5. BreakerTypeOK' /\ ProbeIsHalfOpen' /\ ProbeIsUsed'
  BY <1>1, <1>2, <1>4, Moves, ProbeStays
<1>6. /\ thread[t].op = "fetch" => step \in Calling
      /\ step \in {"bad", "done"} => thread[t].op = "fetch"
  BY DEF Calling
<1> QED BY <1>1, <1>2, <1>3, <1>4, <1>5, <1>6, CallMoves

\* A result ends the own probe; that of another thread goes on where it is.
LEMMA ProbeEnds ==
    ASSUME CacheInv, NEW t \in Threads, OnSuccess(t) \/ OnFailure(t), Release,
           \A u \in Threads : u # t => thread'[u] = thread[u]
    PROVE  BreakerTypeOK' /\ ProbeIsHalfOpen' /\ ProbeIsUsed' /\ reserved' \subseteq Threads
<1>1. /\ BreakerTypeOK' /\ ProbeIsHalfOpen'
      /\ probe' = NoThread \/ (probe' = probe /\ probe # t)
  BY Results, Typed DEF CacheInv
<1>2. reserved' \subseteq Threads BY Typed DEF Release, CacheInv
<1>3. ProbeIsUsed'
  BY <1>1 DEF ProbeIsUsed, Release, CacheInv, BreakerTypeOK
<1> QED BY <1>1, <1>2, <1>3

\* on_success
LEMMA SucceedKeepsInv ==
    ASSUME CacheInv, NEW t \in Threads, Succeed(t)
    PROVE  CacheInv'
<1>1. /\ thread \in [Threads -> Places] /\ Fits(t) /\ server \in Versions
  BY Typed DEF CacheInv, CacheShape
<1>2. /\ thread[t].pc = "good" /\ thread[t].op \in {"fetch", "fetch_now", "turn", "event"}
      /\ KeepCache /\ UNCHANGED <<server, floor, calls>> /\ Release /\ OnSuccess(t)
  BY <1>1 DEF Succeed, Fits, At, KeepRest
<1>3. \/ thread[t].op \in {"fetch", "fetch_now"} /\ GoTo(t, "store")
      \/ thread[t].op = "turn" /\ GoTo(t, "forget")
      \/ thread[t].op = "event" /\ (GoTo(t, "ask") \/ Ends(t))
  BY <1>2 DEF Succeed
<1>4. server <= server' BY <1>1, <1>2, Limits DEF Versions
<1>5. \A u \in Threads : u # t => thread'[u] = thread[u]
  BY <1>1, <1>3, Moves, Stops DEF Steps
<1>6. BreakerTypeOK' /\ ProbeIsHalfOpen' /\ ProbeIsUsed' /\ reserved' \subseteq Threads
  BY <1>2, <1>5, ProbeEnds
<1>7. CASE Ends(t) /\ thread[t].op = "event" BY <1>2, <1>6, <1>7, CallEnds
<1>8. ASSUME NEW step \in {"store", "forget", "ask"}, GoTo(t, step),
             thread[t].op = "fetch" => step = "store"
      PROVE  CacheInv'
  <2>1. /\ step \in Steps /\ step \in Calling \cup {"report", "forget", "done"}
        /\ thread[t].op = "fetch" => step \in Calling
    BY <1>8 DEF Steps, Calling
  <2> QED BY <1>1, <1>2, <1>4, <1>6, <1>8, <2>1, CallMoves
<1> QED BY <1>3, <1>7, <1>8

\* on_failure
LEMMA ReportKeepsInv ==
    ASSUME CacheInv, NEW t \in Threads, Report(t)
    PROVE  CacheInv'
<1>1. /\ thread \in [Threads -> Places] /\ Fits(t) /\ server \in Versions
  BY Typed DEF CacheInv, CacheShape
<1>2. /\ thread[t].pc = "report"
      /\ KeepCache /\ UNCHANGED <<server, floor, calls>> /\ Release /\ OnFailure(t)
      /\ IF thread[t].op = "fetch" THEN GoTo(t, "done") ELSE Ends(t)
  BY DEF Report, At, KeepRest
<1>3. server <= server' BY <1>1, <1>2, Limits DEF Versions
<1>4. \A u \in Threads : u # t => thread'[u] = thread[u]
  BY <1>1, <1>2, Moves, Stops DEF Steps
<1>5. BreakerTypeOK' /\ ProbeIsHalfOpen' /\ ProbeIsUsed' /\ reserved' \subseteq Threads
  BY <1>2, <1>4, ProbeEnds
<1>6. CASE thread[t].op = "fetch"
  <2>1. "done" \in Steps BY DEF Steps
  <2>2. "done" \notin Calling BY DEF Calling
  <2> QED BY <1>1, <1>2, <1>3, <1>5, <1>6, <2>1, <2>2, CallMoves
<1>7. CASE thread[t].op # "fetch" BY <1>2, <1>5, <1>7, CallEnds
<1> QED BY <1>6, <1>7

\* The server answers; what it answers is as new as the server.
LEMMA AnswerKeepsInv ==
    ASSUME CacheInv, NEW t \in Threads, Answer(t)
    PROVE  CacheInv'
<1>1. /\ thread \in [Threads -> Places] /\ Fits(t)
      /\ server \in Versions /\ reserved \subseteq Threads
  BY Typed DEF CacheInv, CacheShape
<1>2. /\ thread[t].pc = "sent" /\ thread[t].op \in {"fetch", "fetch_now", "turn", "event"}
      /\ KeepCache /\ UNCHANGED <<breaker, floor, reserved, calls>>
  BY <1>1 DEF Answer, Fits, At
<1>3. server <= server' /\ server' \in Versions BY <1>1, Limits DEF Answer, Versions
<1>4. /\ thread' \in [Threads -> Places]
      /\ \A u \in Threads : u # t => thread'[u] = thread[u]
      /\ thread'[t].pc = "good" /\ thread'[t].seen = server'
      /\ thread'[t].op = thread[t].op /\ thread'[t].key = thread[t].key
      /\ thread'[t].fetch = thread[t].fetch /\ thread'[t].doomed = thread[t].doomed
  <2> DEFINE x == [[thread[t] EXCEPT !.pc = "good"] EXCEPT !.seen = server']
  <2>0. [thread[t] EXCEPT !.pc = "good"] \in Places BY <1>1 DEF Places, Steps
  <2>1. x \in Places BY <2>0, <1>3 DEF Places
  <2>2. /\ x.pc = "good" /\ x.seen = server'
        /\ x.op = thread[t].op /\ x.key = thread[t].key
        /\ x.fetch = thread[t].fetch /\ x.doomed = thread[t].doomed
    BY <1>1 DEF Places
  <2>3. thread' = [thread EXCEPT ![t] = x] BY <1>1 DEF Answer
  <2> QED BY <1>1, <2>1, <2>2, <2>3, Begins
<1>5. BreakerTypeOK' /\ ProbeIsHalfOpen' /\ ProbeIsUsed' BY <1>2, <1>4, ProbeStays
<1>6. TypeOK' BY <1>1, <1>2, <1>3, <1>4, <1>5, Typed, TypedNext DEF CacheInv, KeepCache
<1>7. Fits(t)'
  <2>1. thread'[t].seen <= server' BY <1>3, <1>4, Limits DEF Versions
  <2> QED BY <1>1, <1>2, <1>4, <2>1 DEF Fits, At, KeepCache, Calling
<1>8. thread'[t].doomed = {} /\ thread[t].op # "shutdown" BY <1>1, <1>2, <1>4 DEF Fits, At
<1>9. CacheShape' /\ FewHeld' /\ Fresh'
  BY <1>2, <1>3, <1>4, <1>6, <1>7, <1>8, FreeStep DEF Calling
<1> QED BY <1>5, <1>6, <1>9 DEF CacheInv

\* on_pre_compress takes the probe right for itself, and reserves it.
LEMMA PreCompressKeepsInv ==
    ASSUME CacheInv, NEW t \in Hosts, PreCompress(t)
    PROVE  CacheInv'
<1>1. /\ thread \in [Threads -> Places] /\ t \in Threads /\ BreakerTypeOK /\ ProbeIsHalfOpen
      /\ server \in Versions /\ reserved \subseteq Threads
  BY Typed, Limits DEF CacheInv
<1>2. /\ thread[t].pc = "ask" /\ thread[t].op = "compress" /\ Fits(t)
      /\ KeepCache /\ UNCHANGED <<server, floor, calls>>
  BY <1>1 DEF PreCompress, At, KeepRest, CacheInv, CacheShape
<1> DEFINE x == [thread[t] EXCEPT !.op = "event"]
<1>3. x \in Places /\ x.pc = "ask" /\ x.op = "event" /\ x.doomed = thread[t].doomed
      /\ x.seen = thread[t].seen
  BY <1>1, <1>2 DEF Places, Ops
<1>4. Ends(t) \/ thread' = [thread EXCEPT ![t] = x] BY DEF PreCompress
<1> HIDE DEF x
<1>5. /\ thread' \in [Threads -> Places] /\ thread'[t] \in {Idle, x}
      /\ \A u \in Threads : u # t => thread'[u] = thread[u]
  BY <1>1, <1>3, <1>4, Stops, Begins
<1>6. BreakerTypeOK' /\ ProbeIsHalfOpen' /\ ProbeIsUsed' /\ reserved' \subseteq Threads
  <2>1. CASE Granted(t) /\ reserved' = IF probe' # probe THEN reserved \cup {t} ELSE reserved
    <3>1. /\ BreakerTypeOK' /\ ProbeIsHalfOpen'
          /\ probe' = probe \/ (probe = NoThread /\ probe' = t)
      BY <1>1, <2>1, Grants
    <3>2. probe' # probe => probe' \in reserved' BY <2>1, <3>1
    <3>3. probe' = probe => reserved' = reserved BY <2>1
    <3>4. ProbeIsUsed'
      BY <1>2, <1>5, <3>1, <3>2, <3>3 DEF ProbeIsUsed, CacheInv, BreakerTypeOK
    <3> QED BY <1>1, <2>1, <3>1, <3>4
  <2>2. CASE Denied /\ UNCHANGED reserved
    BY <1>1, <1>2, <1>5, <2>2, ProbeStays DEF Denied
  <2> QED BY <2>1, <2>2 DEF PreCompress
<1>7. TypeOK' BY <1>2, <1>5, <1>6, Typed, TypedNext DEF CacheInv, KeepCache
<1>8. 0 <= server' /\ server <= server' BY <1>1, <1>2, Limits DEF Versions
<1>9. Fits(t)'
  <2>1. thread'[t].seen <= server' BY <1>2, <1>3, <1>5, <1>8, IdlePlace DEF Fits
  <2> QED BY <1>2, <1>3, <1>5, <2>1, IdlePlace DEF Fits, At
<1>10. thread'[t].doomed = {} BY <1>2, <1>3, <1>5, IdlePlace DEF Fits, At
<1>11. thread'[t].op \in {"none", "event"} BY <1>3, <1>5, IdlePlace
<1>12. CacheShape' /\ FewHeld' /\ Fresh'
  BY <1>1, <1>2, <1>5, <1>7, <1>8, <1>9, <1>10, <1>11, FreeStep
<1> QED BY <1>6, <1>7, <1>12 DEF CacheInv
-----------------------------------------------------------------------------
(* Steps that change entries *)

\* Nothing of the cache changes.
LEMMA CacheUntouched ==
    ASSUME CacheInv,
           UNCHANGED <<values, futures, future, closed, thread, server, floor, minted>>, TypeOK'
    PROVE  CacheShape' /\ FewHeld' /\ Fresh'
<1>1. server <= server' BY Limits DEF CacheInv, TypeOK, Versions
<1>2. CacheShape' BY <1>1, QuietStep
<1>3. FewHeld' BY DEF FewHeld, Held, CacheInv
<1>4. Fresh' BY DEF Fresh, Runs, PendingKeys, CacheInv
<1> QED BY <1>2, <1>3, <1>4

\* The breaker's time passes.
LEMMA TimeKeepsInv ==
    ASSUME CacheInv, TimePasses
    PROVE  CacheInv'
<1>1. /\ UNCHANGED <<thread, reserved, calls, server, floor>> /\ KeepCache
      /\ circuit = "open" /\ circuit' = "half_open" /\ UNCHANGED <<failures, probe>>
  BY DEF TimePasses, Elapse, KeepRest
<1>2. BreakerTypeOK' /\ ProbeIsHalfOpen' /\ ProbeIsUsed'
  BY <1>1 DEF CacheInv, TypeOK, BreakerTypeOK, ProbeIsHalfOpen, ProbeIsUsed
<1>3. TypeOK' BY <1>1, <1>2, Typed, TypedNext DEF CacheInv, KeepCache
<1> QED BY <1>1, <1>2, <1>3, CacheUntouched DEF CacheInv, KeepCache

\* Entries that only leave or change their content take no room.
LEMMA NoMoreHeld ==
    ASSUME CacheInv, \A k \in Keys : values'[k].status # "none" => values[k].status # "none"
    PROVE  FewHeld'
<1>1. Held' \subseteq Held BY DEF Held
<1>2. Cardinality(Held') <= Cardinality(Held) /\ Cardinality(Held') \in Nat
  BY <1>1, PendingIsFinite, FS_Subset, FS_CardinalityType
<1> QED BY <1>2, PendingIsFinite, Limits DEF FewHeld, CacheInv

\* The room a pending entry leaves (RoomForPending).
LEMMA RoomIsLeft ==
    ASSUME TypeOK, FewPending, Cardinality(Held) = MaxEntries
    PROVE  Victims # {}
<1>1. PendingKeys \subseteq Held BY DEF PendingKeys, Held
<1>2. PendingKeys # Held BY PendingIsFinite, Limits DEF FewPending
<1> QED BY <1>1, <1>2 DEF Victims

\* After Put the cache holds no more than it may.
LEMMA PutFits ==
    ASSUME CacheInv, NEW k \in Keys, NEW e \in Entries, Put(k, e)
    PROVE  FewHeld'
<1>0. /\ values \in [Keys -> Entries] /\ FewHeld /\ IsFiniteSet(Held)
      /\ Cardinality(Held) \in Nat /\ MaxEntries \in Nat
  BY PendingIsFinite, Limits, Typed DEF CacheInv
<1>1. CASE k \in Held /\ values' = [values EXCEPT ![k] = e]
  <2>1. \A j \in Keys : values'[j].status # "none" => values[j].status # "none"
    BY <1>0, <1>1 DEF Held
  <2> QED BY <2>1, NoMoreHeld
<1>2. CASE Cardinality(Held) < MaxEntries /\ values' = [values EXCEPT ![k] = e]
  <2>1. Held' \subseteq Held \cup {k} BY <1>0, <1>2 DEF Held
  <2>2. Cardinality(Held \cup {k}) <= Cardinality(Held) + 1 /\ IsFiniteSet(Held \cup {k})
    BY <1>0, FS_AddElement
  <2>3. Cardinality(Held') <= Cardinality(Held \cup {k}) /\ Cardinality(Held') \in Nat
        /\ Cardinality(Held \cup {k}) \in Nat
    BY <2>1, <2>2, FS_Subset, FS_CardinalityType
  <2> QED BY <1>0, <1>2, <2>2, <2>3 DEF FewHeld
<1>3. CASE k \notin Held /\ \E v \in Victims : values' = [values EXCEPT ![v] = None, ![k] = e]
  <2>1. PICK v \in Victims : values' = [values EXCEPT ![v] = None, ![k] = e] BY <1>3
  <2>2. v \in Held /\ v # k BY <1>3 DEF Victims, Held
  <2>3. Held' \subseteq (Held \ {v}) \cup {k}
    <3>1. \A j \in Keys : j # k /\ j # v => values'[j] = values[j] BY <1>0, <2>1
    <3>2. values'[v].status = "none"
      <4>1. v \in Keys BY <2>2 DEF Held
      <4>2. values'[v] = None BY <1>0, <2>1, <2>2, <4>1
      <4> QED BY <4>2, Kinds
    <3> QED BY <3>1, <3>2 DEF Held
  <2>4. Cardinality(Held \ {v}) = Cardinality(Held) - 1 /\ IsFiniteSet(Held \ {v})
    BY <1>0, <2>2, FS_RemoveElement
  <2>5. /\ Cardinality((Held \ {v}) \cup {k}) = Cardinality(Held)
        /\ IsFiniteSet((Held \ {v}) \cup {k})
    <3> DEFINE S == Held \ {v}
    <3>1. k \notin S /\ IsFiniteSet(S) /\ Cardinality(S) = Cardinality(Held) - 1
      BY <1>3, <2>4
    <3> HIDE DEF S
    <3>2. IsFiniteSet(S \cup {k}) /\ Cardinality(S \cup {k}) = Cardinality(S) + 1
      BY <3>1, FS_AddElement
    <3>3. Cardinality(S \cup {k}) = Cardinality(Held) BY <1>0, <3>1, <3>2
    <3> QED BY <3>2, <3>3 DEF S
  <2>6. Cardinality(Held') <= Cardinality((Held \ {v}) \cup {k}) /\ Cardinality(Held') \in Nat
    BY <2>3, <2>5, FS_Subset, FS_CardinalityType
  <2> QED BY <1>0, <2>5, <2>6 DEF FewHeld
<1> QED BY <1>1, <1>2, <1>3 DEF Put

\* The cache stays as fresh as it is if what is stored of a fetch is fresh.
LEMMA FreshStays ==
    ASSUME CacheInv, UNCHANGED <<floor, server>>,
           \A w \in Pool : thread'[w].op = "fetch" /\ thread'[w].pc \in {"good", "store"}
                             => thread'[w] = thread[w],
           \A k \in Keys : values'[k].status = "pending" => values'[k] = values[k],
           \A k \in Keys : values'[k].status = "completed" /\ ~values'[k].front
                             => values'[k] = values[k] \/ values'[k].data >= floor
    PROVE  Fresh'
<1>1. ASSUME NEW w \in Pool, NEW k \in PendingKeys',
             Runs(w, k)', thread'[w].pc \in {"good", "store"}
      PROVE  thread'[w].seen >= floor'
  <2>1. thread'[w] = thread[w] BY <1>1 DEF Runs
  <2>2. k \in PendingKeys /\ values'[k] = values[k] BY DEF PendingKeys
  <2>3. Runs(w, k) BY <1>1, <2>1, <2>2 DEF Runs
  <2> QED BY <1>1, <2>1, <2>2, <2>3 DEF Fresh, CacheInv
<1>2. \A k \in Keys : values'[k].status = "completed" /\ ~values'[k].front
                        => values'[k].data >= floor'
  BY DEF Fresh, CacheInv
<1> QED BY <1>1, <1>2 DEF Fresh, CacheInv

\* No thread moves, one entry goes or expires.
LEMMA EntryLeaves ==
    ASSUME CacheInv, NEW k \in Keys, NEW e \in {None, Expired},
           e = Expired => values[k].status # "none", values' = [values EXCEPT ![k] = e],
           UNCHANGED <<futures, future, closed, minted, thread, breaker, reserved, server, floor>>,
           calls' \in 0..MaxCalls
    PROVE  CacheInv'
<1>1. values \in [Keys -> Entries] BY Typed DEF CacheInv
<1>2. /\ values' \in [Keys -> Entries]
      /\ \A j \in Keys : values'[j].status \in {"pending", "completed"} => values'[j] = values[j]
      /\ \A j \in Keys : values'[j].status # "none" => values[j].status # "none"
  BY <1>1, Kinds
<1>3. BreakerTypeOK' /\ ProbeIsHalfOpen' /\ ProbeIsUsed'
  BY DEF CacheInv, TypeOK, BreakerTypeOK, ProbeIsHalfOpen, ProbeIsUsed, breaker
<1>4. TypeOK' BY <1>2, <1>3, Typed, TypedNext DEF CacheInv
<1>5. server <= server' BY Limits DEF CacheInv, TypeOK, Versions
<1>6. CacheShape' BY <1>2, <1>4, <1>5, QuietStep
<1>7. FewHeld' BY <1>2, NoMoreHeld
<1>8. Fresh' BY <1>2, FreshStays
<1> QED BY <1>3, <1>4, <1>6, <1>7, <1>8 DEF CacheInv

\* An entry outlives its time.
LEMMA TimeToLiveKeepsInv ==
    ASSUME CacheInv, NEW k \in Keys, TimeToLive(k)
    PROVE  CacheInv'
<1>1. calls' \in 0..MaxCalls BY DEF TimeToLive, CacheInv, TypeOK
<1> QED BY <1>1, EntryLeaves DEF TimeToLive, KeepRest

\* The end of fetch_now.
LEMMA StoreNowKeepsInv ==
    ASSUME CacheInv, NEW t \in Hosts, StoreNow(t)
    PROVE  CacheInv'
<1> DEFINE k == thread[t].key
           e == Completed(thread[t].seen, TRUE)
<1>1. /\ t \in Threads /\ thread \in [Threads -> Places] /\ values \in [Keys -> Entries]
      /\ server \in Versions /\ Fits(t) /\ At(t, "store")
  BY Limits, Typed DEF CacheInv, CacheShape, StoreNow
<1>2. /\ UNCHANGED <<futures, future, closed, minted, breaker, reserved, calls, server, floor>>
      /\ thread[t].op = "fetch_now"
      /\ thread' \in [Threads -> Places] /\ thread'[t] = Idle
      /\ \A u \in Threads : u # t => thread'[u] = thread[u]
  BY <1>1, Stops DEF StoreNow, KeepRest
<1>4. e \in Entries /\ e.status = "completed" /\ e.front
  BY <1>1, Kinds DEF Places
<1>5. k \in Keys BY <1>1, <1>2 DEF Fits
<1>6. values' = values \/ (values[k].status # "pending" /\ Put(k, e))
  BY DEF StoreNow
<1> HIDE DEF k, e
<1>7. /\ values' \in [Keys -> Entries]
      /\ \A j \in Keys : values'[j].status = "pending" => values'[j] = values[j]
      /\ \A j \in Keys : values'[j].status = "completed" /\ ~values'[j].front
                           => values'[j] = values[j]
      /\ FewHeld'
  <2>1. CASE values' = values
    <3>1. FewHeld' BY <2>1, NoMoreHeld
    <3> QED BY <1>1, <2>1, <3>1
  <2>2. CASE Put(k, e)
    <3>1. FewHeld' BY <1>4, <1>5, <2>2, PutFits
    <3> QED BY <1>1, <1>4, <1>5, <2>2, <3>1, Puts, Kinds
  <2> QED BY <1>6, <2>1, <2>2
<1>8. BreakerTypeOK' /\ ProbeIsHalfOpen' /\ ProbeIsUsed'
  BY <1>1, <1>2, ProbeStays DEF At
<1>9. TypeOK' BY <1>2, <1>7, <1>8, Typed, TypedNext DEF CacheInv
<1>10. 0 <= server' /\ server <= server' BY <1>1, <1>2, Limits DEF Versions
<1>11. MovesOn(t)
  BY <1>1, <1>2, <1>10, IdlePlace DEF MovesOn, Fits, DoomedFits, Runs, Expires, At
<1>12. CacheShape' BY <1>2, <1>7, <1>9, <1>10, <1>11, QuietStep
<1>13. Fresh' BY <1>2, <1>7, IdlePlace, Limits, FreshStays
<1> QED BY <1>7, <1>8, <1>9, <1>12, <1>13 DEF CacheInv

\* The entry a fetch finds under its key is its own, or it leaves all as it is.
LEMMA StoresOwn ==
    ASSUME CacheInv, NEW w \in Pool, NEW e \in Entries, e.status \in {"completed", "expired"},
           thread[w].op = "fetch",
           values' = IF StillPending(thread[w].key, thread[w].fetch)
                     THEN [values EXCEPT ![thread[w].key] = e] ELSE values
    PROVE  /\ values' \in [Keys -> Entries] /\ FewHeld'
           /\ \A j \in Keys : values'[j].status = "pending" =>
                 values'[j] = values[j] /\ ~Runs(w, j)
           /\ \A j \in Keys : values'[j] = values[j] \/
                 (values'[j] = e /\ values[j] = PendingOf(thread[w].fetch) /\ thread[w].key = j)
<1>1. /\ w \in Threads /\ thread \in [Threads -> Places] /\ values \in [Keys -> Entries]
      /\ thread[w].fetch \in Fetches
  <2>1. w \in Threads /\ thread \in [Threads -> Places] /\ values \in [Keys -> Entries]
        /\ Fits(w) /\ minted \in 0..MaxFetches
    BY Limits, Typed DEF CacheInv, CacheShape
  <2> QED BY <2>1, Limits DEF Fits, Fetches
<1>2. values' \in [Keys -> Entries] BY <1>1
<1>3. \A j \in Keys : values'[j] = values[j] \/
         (values'[j] = e /\ values[j] = PendingOf(thread[w].fetch) /\ thread[w].key = j)
  BY <1>1 DEF StillPending
<1>4. FewHeld' BY <1>1, <1>3, Kinds, NoMoreHeld
<1>5. ASSUME NEW j \in Keys, values'[j].status = "pending"
      PROVE  values'[j] = values[j] /\ ~Runs(w, j)
  <2>1. values'[j] = values[j] BY <1>3, <1>5
  <2>2. SUFFICES ASSUME Runs(w, j) PROVE FALSE BY <2>1
  <2>3. thread[w].key = j /\ thread[w].fetch = values[j].fetch /\ j \in PendingKeys
    BY <1>5, <2>1, <2>2 DEF Runs, PendingKeys
  <2>4. values[j] = PendingOf(thread[w].fetch)
    BY <2>3 DEF CacheInv, CacheShape, EntriesFit
  <2>5. values'[j] = e BY <1>1, <2>3, <2>4 DEF StillPending
  <2> QED BY <1>5, <2>5
<1> QED BY <1>2, <1>3, <1>4, <1>5

\* The end of a fetch that failed.
LEMMA StoreFailureKeepsInv ==
    ASSUME CacheInv, NEW w \in Pool, StoreFailure(w)
    PROVE  CacheInv'
<1>1. /\ w \in Threads /\ thread \in [Threads -> Places] /\ Fits(w) /\ thread[w].pc = "bad"
      /\ server \in Versions
  BY Limits, Typed DEF CacheInv, CacheShape, StoreFailure, At
<1>2. /\ UNCHANGED <<futures, future, closed, minted, breaker, reserved, calls, server, floor>>
      /\ thread[w].op = "fetch" /\ GoTo(w, "report")
      /\ values' = IF StillPending(thread[w].key, thread[w].fetch)
                   THEN [values EXCEPT ![thread[w].key] = Expired] ELSE values
  BY <1>1 DEF StoreFailure, KeepRest, Fits, At
<1>3. /\ thread' \in [Threads -> Places]
      /\ \A u \in Threads : u # w => thread'[u] = thread[u]
      /\ thread'[w].pc = "report" /\ thread'[w].op = "fetch"
      /\ thread'[w].fetch = thread[w].fetch /\ thread'[w].seen = thread[w].seen
      /\ thread'[w].doomed = thread[w].doomed
  BY <1>1, <1>2, Moves DEF Steps
<1>4. /\ values' \in [Keys -> Entries] /\ FewHeld'
      /\ \A j \in Keys : values'[j].status = "pending" =>
            values'[j] = values[j] /\ ~Runs(w, j)
      /\ \A j \in Keys : values'[j] = values[j] \/ values'[j] = Expired
  BY <1>2, Kinds, StoresOwn
<1>5. BreakerTypeOK' /\ ProbeIsHalfOpen' /\ ProbeIsUsed' BY <1>1, <1>2, <1>3, ProbeStays
<1>6. TypeOK' BY <1>2, <1>3, <1>4, <1>5, Typed, TypedNext DEF CacheInv
<1>7. server <= server' BY <1>1, <1>2, Limits DEF Versions
<1>8. MovesOn(w)
  <2>1. Fits(w)' BY <1>1, <1>2, <1>3, <1>7 DEF Fits, At
  <2>2. thread'[w].doomed = {} BY <1>1, <1>3 DEF Fits, At
  <2>3. \A k \in PendingKeys' : ~Runs(w, k) BY <1>4 DEF PendingKeys
  <2> QED BY <1>2, <1>3, <2>1, <2>2, <2>3 DEF MovesOn, DoomedFits, Expires
<1>9. CacheShape' BY <1>2, <1>3, <1>4, <1>6, <1>7, <1>8, QuietStep
<1>10. Fresh' BY <1>2, <1>3, <1>4, Kinds, Limits, FreshStays
<1> QED BY <1>4, <1>5, <1>6, <1>9, <1>10 DEF CacheInv

\* The end of a fetch that succeeded: what it stores is no older than the floor.
LEMMA StoreKeepsInv ==
    ASSUME CacheInv, NEW w \in Pool, Store(w)
    PROVE  CacheInv'
<1> DEFINE e == Completed(thread[w].seen, FALSE)
<1>1. /\ w \in Threads /\ thread \in [Threads -> Places] /\ Fits(w) /\ thread[w].pc = "store"
      /\ server \in Versions
  BY Limits, Typed DEF CacheInv, CacheShape, Store, At
<1>2. /\ UNCHANGED <<futures, future, closed, minted, breaker, reserved, calls, server, floor>>
      /\ thread[w].op = "fetch" /\ GoTo(w, "done")
      /\ values' = IF StillPending(thread[w].key, thread[w].fetch)
                   THEN [values EXCEPT ![thread[w].key] = e] ELSE values
  BY DEF Store, KeepRest
<1>3. /\ thread' \in [Threads -> Places]
      /\ \A u \in Threads : u # w => thread'[u] = thread[u]
      /\ thread'[w].pc = "done" /\ thread'[w].op = "fetch"
      /\ thread'[w].fetch = thread[w].fetch /\ thread'[w].seen = thread[w].seen
      /\ thread'[w].doomed = thread[w].doomed
  BY <1>1, <1>2, Moves DEF Steps
<1>4. e \in Entries /\ e.status = "completed" /\ e.data = thread[w].seen
  BY <1>1, Kinds DEF Places
<1> HIDE DEF e
<1>5. /\ values' \in [Keys -> Entries] /\ FewHeld'
      /\ \A j \in Keys : values'[j].status = "pending" =>
            values'[j] = values[j] /\ ~Runs(w, j)
      /\ \A j \in Keys : values'[j] = values[j] \/
            (values'[j] = e /\ values[j] = PendingOf(thread[w].fetch) /\ thread[w].key = j)
  BY <1>2, <1>4, StoresOwn
<1>6. BreakerTypeOK' /\ ProbeIsHalfOpen' /\ ProbeIsUsed' BY <1>1, <1>2, <1>3, ProbeStays
<1>7. TypeOK' BY <1>2, <1>3, <1>5, <1>6, Typed, TypedNext DEF CacheInv
<1>8. server <= server' BY <1>1, <1>2, Limits DEF Versions
<1>9. MovesOn(w)
  <2>1. Fits(w)' BY <1>1, <1>2, <1>3, <1>8 DEF Fits, At
  <2>2. thread'[w].doomed = {} BY <1>1, <1>3 DEF Fits, At
  <2>3. \A k \in PendingKeys' : ~Runs(w, k) BY <1>5 DEF PendingKeys
  <2> QED BY <1>2, <1>3, <2>1, <2>2, <2>3 DEF MovesOn, DoomedFits, Expires
<1>10. CacheShape' BY <1>2, <1>3, <1>5, <1>7, <1>8, <1>9, QuietStep
<1>11. ASSUME NEW j \in Keys, values[j] = PendingOf(thread[w].fetch), thread[w].key = j
       PROVE  thread[w].seen >= floor
  <2>1. thread[w].fetch \in Fetches
    <3>1. minted \in 0..MaxFetches BY Typed DEF CacheInv
    <3> QED BY <1>1, <1>2, <3>1, Limits DEF Fits, Fetches
  <2>2. j \in PendingKeys /\ Runs(w, j)
    BY <1>1, <1>2, <1>11, <2>1, Kinds DEF PendingKeys, Runs, Calling
  <2> QED BY <1>1, <2>2 DEF Fresh, CacheInv
<1>12. Fresh' BY <1>2, <1>3, <1>4, <1>5, <1>11, Limits, FreshStays
<1> QED BY <1>5, <1>6, <1>7, <1>10, <1>12 DEF CacheInv
-----------------------------------------------------------------------------
(* Invalidation and shutdown *)

\* The futures in the table were handed out.
LEMMA TableFits ==
    ASSUME CacheInv, NEW F \in SUBSET Fetches
    PROVE  /\ InTable(F) \in SUBSET (Fetches \X Keys)
           /\ \A d \in InTable(F) : d[1] \in 1..minted /\ future[d[1]].key = d[2]
<1>0. future \in [Fetches -> Slots] /\ minted \in 0..MaxFetches /\ FuturesFit
  BY Typed DEF CacheInv, CacheShape
<1>1. \A f \in F : future[f].key \in Keys \cup {NoKey} BY <1>0 DEF Slots
<1>2. \A f \in F : future[f].key # NoKey => f \in 1..minted
  BY <1>0, Limits DEF FuturesFit, Fetches
<1> QED BY <1>1, <1>2 DEF InTable

\* What a thread remembers of the table.
LEMMA Remembers ==
    ASSUME CacheInv, NEW t \in Threads, NEW D \in SUBSET (Fetches \X Keys),
           NEW step \in Steps,
           thread' = [thread EXCEPT ![t].pc = step, ![t].doomed = D]
    PROVE  /\ thread' \in [Threads -> Places]
           /\ \A u \in Threads : u # t => thread'[u] = thread[u]
           /\ thread'[t].pc = step /\ thread'[t].doomed = D
           /\ thread'[t].op = thread[t].op /\ thread'[t].seen = thread[t].seen
           /\ thread'[t].key = thread[t].key
<1> DEFINE x == [[thread[t] EXCEPT !.pc = step] EXCEPT !.doomed = D]
<1>1. thread \in [Threads -> Places] BY Typed DEF CacheInv
<1>2. [thread[t] EXCEPT !.pc = step] \in Places BY <1>1 DEF Places
<1>3. x \in Places BY <1>2 DEF Places
<1>4. /\ x.pc = step /\ x.doomed = D /\ x.op = thread[t].op /\ x.seen = thread[t].seen
      /\ x.key = thread[t].key
  BY <1>1 DEF Places
<1>5. thread' = [thread EXCEPT ![t] = x] BY <1>1
<1> QED BY <1>1, <1>3, <1>4, <1>5, Begins

\* invalidate_session under the lock: nothing waits any more.
LEMMA ForgetKeepsInv ==
    ASSUME CacheInv, NEW t \in Hosts, Forget(t)
    PROVE  CacheInv'
<1> DEFINE D == InTable(Fetches)
<1>1. /\ t \in Threads /\ Fits(t) /\ thread[t].pc = "forget"
      /\ server \in Versions /\ floor \in Versions /\ thread[t].seen \in Versions
      /\ floor <= server
  <2>1. t \in Threads /\ thread \in [Threads -> Places] /\ server \in Versions /\ floor \in Versions
    BY Limits, Typed DEF CacheInv
  <2> QED BY <2>1 DEF Forget, At, CacheInv, CacheShape, Fresh, Places
<1>2. /\ UNCHANGED <<futures, future, closed, minted, breaker, reserved, server, calls>>
      /\ values' = [k \in Keys |-> None]
      /\ thread' = [thread EXCEPT ![t].pc = "cancel", ![t].doomed = D]
      /\ floor' = IF thread[t].seen > floor THEN thread[t].seen ELSE floor
  BY DEF Forget
<1>3. D \in SUBSET (Fetches \X Keys) /\ \A d \in D : d[1] \in 1..minted /\ future[d[1]].key = d[2]
  BY TableFits
<1> HIDE DEF D
<1>4. /\ thread' \in [Threads -> Places]
      /\ \A u \in Threads : u # t => thread'[u] = thread[u]
      /\ thread'[t].pc = "cancel" /\ thread'[t].doomed = D
      /\ thread'[t].op = thread[t].op /\ thread'[t].seen = thread[t].seen
      /\ thread'[t].key = thread[t].key
  BY <1>1, <1>2, <1>3, Remembers DEF Steps
<1>5. /\ values' \in [Keys -> Entries]
      /\ \A k \in Keys : values'[k].status = "none"
  BY <1>2, Kinds
<1>6. BreakerTypeOK' /\ ProbeIsHalfOpen' /\ ProbeIsUsed' BY <1>1, <1>2, <1>4, ProbeStays
<1>7. floor' \in Versions /\ floor' <= server' /\ server <= server'
  BY <1>1, <1>2, Limits DEF Fits, Versions
<1>8. TypeOK' BY <1>2, <1>4, <1>5, <1>6, <1>7, Typed, TypedNext DEF CacheInv
<1>9. MovesOn(t)
  <2>1. thread[t].op \notin {"fetch", "shutdown"} BY <1>1 DEF Fits, At, Calling
  <2>2. Fits(t)' BY <1>1, <1>2, <1>4, <2>1 DEF Fits, At
  <2>3. PendingKeys' = {} BY <1>5 DEF PendingKeys
  <2>4. DoomedFits(t)' BY <1>2, <1>3, <1>4, <2>3 DEF DoomedFits
  <2> QED BY <1>4, <2>1, <2>2, <2>3, <2>4 DEF MovesOn
<1>10. CacheShape' BY <1>2, <1>4, <1>5, <1>7, <1>8, <1>9, QuietStep
<1>11. FewHeld' BY <1>5, NoMoreHeld
<1>12. Fresh' BY <1>5, <1>7 DEF Fresh, PendingKeys
<1> QED BY <1>6, <1>8, <1>10, <1>11, <1>12 DEF CacheInv

\* shutdown under the lock.
LEMMA ShutdownKeepsInv ==
    ASSUME CacheInv, NEW t \in Hosts, Shutdown(t)
    PROVE  CacheInv'
<1> DEFINE D == InTable(futures)
           x == [Idle EXCEPT !.op = "shutdown", !.pc = "cancel", !.doomed = D]
<1>1. /\ t \in Threads /\ thread \in [Threads -> Places] /\ thread[t] = Idle
      /\ server \in Versions /\ futures \in SUBSET Fetches /\ calls \in 0..MaxCalls
  BY Limits, Typed DEF CacheInv, CacheShape, Fits, Shutdown, Begin
<1>2. /\ UNCHANGED <<values, futures, future, minted, breaker, reserved, server, floor>>
      /\ closed' = TRUE /\ calls < MaxCalls /\ calls' = calls + 1
      /\ thread' = [thread EXCEPT ![t] = x]
  BY DEF Shutdown, Begin, KeepRest
<1>3. D \in SUBSET (Fetches \X Keys) /\ \A d \in D : d[1] \in 1..minted /\ future[d[1]].key = d[2]
  BY <1>1, TableFits
<1> HIDE DEF D
<1>4. x \in Places /\ x.pc = "cancel" /\ x.op = "shutdown" /\ x.doomed = D /\ x.seen = 0
  <2> DEFINE y == [Idle EXCEPT !.op = "shutdown", !.pc = "cancel"]
  <2>1. y \in Places /\ y.pc = "cancel" /\ y.op = "shutdown" /\ y.seen = 0
    BY IdlePlace DEF Places, Steps, Ops
  <2>2. x = [y EXCEPT !.doomed = D] OBVIOUS
  <2> HIDE DEF y
  <2> QED BY <1>3, <2>1, <2>2 DEF Places
<1> HIDE DEF x
<1>5. /\ thread' \in [Threads -> Places] /\ thread'[t] = x
      /\ \A u \in Threads : u # t => thread'[u] = thread[u]
  BY <1>1, <1>2, <1>4, Begins
<1>6. BreakerTypeOK' /\ ProbeIsHalfOpen' /\ ProbeIsUsed'
  BY <1>1, <1>2, <1>5, IdlePlace, ProbeStays
<1>7. calls' \in 0..MaxCalls BY <1>1, <1>2, Limits
<1>8. TypeOK' BY <1>2, <1>5, <1>6, <1>7, Typed, TypedNext DEF CacheInv
<1>9. 0 <= server' /\ server <= server' BY <1>1, <1>2, Limits DEF Versions
<1>10. MovesOn(t)
  <2>1. Fits(t)' BY <1>2, <1>4, <1>5, <1>9 DEF Fits, At
  <2>2. DoomedFits(t)' BY <1>2, <1>3, <1>4, <1>5 DEF DoomedFits
  <2> QED BY <1>1, <1>4, <1>5, <2>1, <2>2, IdlePlace DEF MovesOn, Runs, Expires
<1>11. CacheShape' BY <1>2, <1>5, <1>8, <1>9, <1>10, QuietStep
<1>12. FewHeld' BY <1>2, NoMoreHeld
<1>13. \A w \in Pool : thread'[w].op = "fetch" => thread'[w] = thread[w]
  BY <1>4, <1>5, Limits
<1>14. Fresh' BY <1>2, <1>13, FreshStays
<1> QED BY <1>6, <1>8, <1>11, <1>12, <1>14 DEF CacheInv

\* shutdown under the lock again, and the end of an invalidation.
LEMMA CancelledKeepsInv ==
    ASSUME CacheInv, NEW t \in Hosts, Cancelled(t)
    PROVE  CacheInv'
<1>1. /\ t \in Threads /\ thread \in [Threads -> Places] /\ values \in [Keys -> Entries]
      /\ Fits(t) /\ thread[t].pc = "cancel" /\ server \in Versions
  BY Limits, Typed DEF CacheInv, CacheShape, Cancelled, At
<1>2. /\ UNCHANGED <<futures, future, closed, minted, breaker, reserved, calls, server, floor>>
      /\ values' = IF thread[t].op # "shutdown" THEN values
                   ELSE [k \in Keys |-> IF k \in thread[t].gone \cap PendingKeys THEN Expired
                                        ELSE values[k]]
      /\ thread' \in [Threads -> Places] /\ thread'[t] = Idle
      /\ \A u \in Threads : u # t => thread'[u] = thread[u]
  BY <1>1, Stops DEF Cancelled, KeepRest
<1>3. /\ values' \in [Keys -> Entries]
      /\ \A k \in Keys : values'[k].status = "pending" => values'[k] = values[k] /\ ~Expires(t, k)
      /\ \A k \in Keys : values'[k].status = "completed" => values'[k] = values[k]
      /\ \A k \in Keys : values'[k].status # "none" => values[k].status # "none"
  BY <1>1, <1>2, Kinds DEF Expires, PendingKeys
<1>4. BreakerTypeOK' /\ ProbeIsHalfOpen' /\ ProbeIsUsed' BY <1>1, <1>2, ProbeStays
<1>5. TypeOK' BY <1>2, <1>3, <1>4, Typed, TypedNext DEF CacheInv
<1>6. 0 <= server' /\ server <= server' BY <1>1, <1>2, Limits DEF Versions
<1>7. MovesOn(t)
  <2>1. Fits(t)' /\ DoomedFits(t)' BY <1>2, <1>6, IdlePlace DEF Fits, DoomedFits, At
  <2>2. thread[t].op # "fetch" BY <1>1 DEF Fits, Calling
  <2>3. \A k \in PendingKeys' : ~Expires(t, k) BY <1>3 DEF PendingKeys
  <2> QED BY <1>2, <2>1, <2>2, <2>3, IdlePlace DEF MovesOn, Runs
<1>8. CacheShape' BY <1>2, <1>3, <1>5, <1>6, <1>7, QuietStep
<1>9. FewHeld' BY <1>3, NoMoreHeld
<1>10. Fresh' BY <1>2, <1>3, IdlePlace, Limits, FreshStays
<1> QED BY <1>4, <1>5, <1>8, <1>9, <1>10 DEF CacheInv
-----------------------------------------------------------------------------
(* Steps that change a future *)

LEMMA HandedOut ==
    ASSUME CacheInv, NEW f \in 1..minted
    PROVE  f \in Fetches
BY Typed, Limits DEF CacheInv, Fetches

\* One future and one thread change; the entry that waits for the future is served.
LEMMA FutureStep ==
    ASSUME CacheInv, TypeOK', NEW t \in Threads, NEW f \in 1..minted,
           UNCHANGED <<values, minted, closed, server, floor>>,
           \A g \in Fetches : g # f => future'[g] = future[g],
           futures' \in {futures, futures \ {f}},
           future'[f].key \in {future[f].key, NoKey},
           future'[f].state \in {"queued", "running"} => f \in futures',
           \A u \in Threads : u # t => thread'[u] = thread[u],
           \A u \in Threads : u # t /\ thread[u].op = "fetch" =>
                /\ thread[u].fetch = f => future'[f].state = "running"
                /\ thread'[t].op = "fetch" => thread[u].fetch # thread'[t].fetch,
           Fits(t)', DoomedFits(t)',
           thread'[t].op = "fetch" => thread'[t].pc \notin {"good", "store"},
           \A k \in PendingKeys :
                values[k].fetch = f /\ future'[f].state = "queued" => future'[f].key = k,
           \A k \in PendingKeys : Served(k)'
    PROVE  CacheShape' /\ FewHeld' /\ Fresh'
<1>0. f \in Fetches /\ PendingKeys' = PendingKeys /\ minted \in 0..MaxFetches
  BY HandedOut, Typed DEF PendingKeys, CacheInv
<1>1. ASSUME NEW u \in Threads PROVE Fits(u)' /\ DoomedFits(u)'
  <2>1. CASE u = t BY <2>1
  <2>2. CASE u # t
    <3>1. thread'[u] = thread[u] /\ Fits(u) /\ DoomedFits(u)
      BY <2>2 DEF CacheInv, CacheShape
    <3>2. thread[u].op = "fetch" => future'[thread[u].fetch].state = "running"
      <4>1. thread[u].op = "fetch" => thread[u].fetch \in Fetches BY <3>1, HandedOut DEF Fits
      <4> QED BY <2>2, <3>1, <4>1 DEF Fits
    <3>3. Fits(u)' BY <3>1, <3>2 DEF Fits, At
    <3>4. \A d \in thread[u].doomed :
              d[1] \in Fetches /\ future'[d[1]].key \in {future[d[1]].key, NoKey}
      BY <3>1, HandedOut DEF DoomedFits
    <3>5. DoomedFits(u)' BY <1>0, <3>1, <3>4 DEF DoomedFits
    <3> QED BY <3>3, <3>5
  <2> QED BY <2>1, <2>2
<1>2. OneRunner'
  <2> SUFFICES ASSUME NEW u \in Threads, NEW v \in Threads,
                      thread'[u].op = "fetch", thread'[v].op = "fetch",
                      thread'[u].fetch = thread'[v].fetch, u # v
               PROVE  FALSE
    BY DEF OneRunner
  <2>1. CASE u = t \/ v = t BY <2>1
  <2>2. CASE u # t /\ v # t BY <2>2 DEF OneRunner, CacheInv, CacheShape
  <2> QED BY <2>1, <2>2
<1>3. FuturesFit'
  <2> SUFFICES ASSUME NEW g \in Fetches
               PROVE  /\ g > minted => future'[g].state = "none" /\ future'[g].key = NoKey
                      /\ future'[g].state \in {"queued", "running"} => g \in futures'
    BY DEF FuturesFit
  <2>1. CASE g = f BY <1>0, <2>1, Limits
  <2>2. CASE g # f BY <2>2 DEF FuturesFit, CacheInv, CacheShape
  <2> QED BY <2>1, <2>2
<1>4. EntriesFit'
  <2> SUFFICES ASSUME NEW k \in PendingKeys
               PROVE  /\ values[k].fetch \in 1..minted /\ values[k] = PendingOf(values[k].fetch)
                      /\ future'[values[k].fetch].state = "queued"
                            => future'[values[k].fetch].key = k
                      /\ \A j \in PendingKeys : values[j].fetch = values[k].fetch => j = k
    BY <1>0 DEF EntriesFit
  <2>1. values[k].fetch \in Fetches BY HandedOut DEF EntriesFit, CacheInv, CacheShape
  <2> QED BY <2>1 DEF EntriesFit, CacheInv, CacheShape
<1>5. PendingIsServed' BY <1>0 DEF PendingIsServed, Served, Runs, Expires, Calling
<1>6. FewPending' BY <1>0 DEF FewPending, CacheInv, CacheShape
<1>7. FewHeld' BY NoMoreHeld
<1>8. Fresh' BY Limits, FreshStays
<1> QED BY <1>1, <1>2, <1>3, <1>4, <1>5, <1>6, <1>7, <1>8 DEF CacheShape

\* An entry that is served in another way than by f and t still is.
LEMMA StillServed ==
    ASSUME CacheInv, NEW t \in Threads, NEW f \in Fetches, NEW k \in PendingKeys, values' = values,
           \A g \in Fetches : g # f => future'[g] = future[g],
           values[k].fetch = f => future'[f].state = future[f].state,
           \A u \in Threads : u # t => thread'[u] = thread[u],
           ~Runs(t, k), Expires(t, k) => Expires(t, k)'
    PROVE  Served(k)'
<1>1. Served(k) /\ values[k].fetch \in Fetches
  BY ServedMeans, HandedOut DEF EntriesFit, CacheInv, CacheShape
<1>2. future'[values[k].fetch].state = future[values[k].fetch].state BY <1>1
<1>3. \A u \in Threads : (Runs(u, k) => Runs(u, k)') /\ (Expires(u, k) => Expires(u, k)')
  <2> SUFFICES ASSUME NEW u \in Threads
               PROVE (Runs(u, k) => Runs(u, k)') /\ (Expires(u, k) => Expires(u, k)')
    OBVIOUS
  <2>1. CASE u = t BY <2>1
  <2>2. CASE u # t BY <2>2 DEF Runs, Expires
  <2> QED BY <2>1, <2>2
<1> QED BY <1>1, <1>2, <1>3, Limits DEF Served

\* add_done_callback
LEMMA HookKeepsInv ==
    ASSUME CacheInv, NEW t \in Hosts, Hook(t)
    PROVE  CacheInv'
<1> DEFINE f == thread[t].fetch
<1>1. /\ t \in Threads /\ thread \in [Threads -> Places] /\ future \in [Fetches -> Slots]
      /\ futures \subseteq Fetches /\ Fits(t) /\ thread[t].pc = "hook" /\ server \in Versions
  BY Limits, Typed DEF CacheInv, CacheShape, Hook, At
<1>2. f \in 1..minted /\ f \in Fetches /\ thread[t].op = "queue"
  <2>1. f \in 1..minted /\ thread[t].op = "queue" BY <1>1 DEF Fits, At
  <2> QED BY <2>1, HandedOut
<1>3. /\ UNCHANGED <<values, closed, minted, breaker, reserved, calls, server, floor>>
      /\ thread' \in [Threads -> Places] /\ thread'[t] = Idle
      /\ \A u \in Threads : u # t => thread'[u] = thread[u]
  BY <1>1, Stops DEF Hook, KeepRest
<1>4. /\ future' \in [Fetches -> Slots] /\ futures' \in {futures, futures \ {f}}
      /\ \A g \in Fetches : g # f => future'[g] = future[g]
      /\ future'[f].state = future[f].state
      /\ future'[f].key \in {future[f].key, NoKey}
      /\ future[f].state \in {"queued", "running"} =>
            futures' = futures /\ future'[f].key = future[f].key
  <2>1. CASE future[f].state \in {"queued", "running"}
    <3>1. future' = [future EXCEPT ![f].hooked = TRUE] /\ futures' = futures
      BY <2>1 DEF Hook
    <3> QED BY <1>1, <1>2, <3>1 DEF Slots
  <2>2. CASE future[f].state \notin {"queued", "running"}
    <3>1. Discard(f, future[f].state) BY <2>2 DEF Hook
    <3>2. future[f].state \in {"none", "queued", "running", "cancelled", "finished"}
      BY <1>1, <1>2 DEF Slots
    <3> QED BY <1>1, <1>2, <2>2, <3>1, <3>2, Discards
  <2> QED BY <2>1, <2>2
<1> HIDE DEF f
<1>5. BreakerTypeOK' /\ ProbeIsHalfOpen' /\ ProbeIsUsed' BY <1>1, <1>3, ProbeStays
<1>6. TypeOK' BY <1>1, <1>3, <1>4, <1>5, Typed, TypedNext DEF CacheInv
<1>7. Fits(t)' /\ DoomedFits(t)'
  <2>1. 0 <= server' BY <1>1, <1>3, Limits DEF Versions
  <2> QED BY <1>3, <2>1, IdlePlace DEF Fits, DoomedFits, At
<1>8. \A u \in Threads : thread[u].op = "fetch" /\ thread[u].fetch = f
                            => future'[f].state = "running"
  BY <1>4 DEF CacheInv, CacheShape, Fits
<1>9. ASSUME NEW k \in PendingKeys
      PROVE  /\ Served(k)'
             /\ values[k].fetch = f /\ future'[f].state = "queued" => future'[f].key = k
  <2>1. Served(k)' BY <1>1, <1>2, <1>3, <1>4, StillServed DEF Runs, Expires
  <2> QED BY <1>4, <2>1 DEF EntriesFit, CacheInv, CacheShape
<1>10. future'[f].state \in {"queued", "running"} => f \in futures'
  BY <1>2, <1>4 DEF FuturesFit, CacheInv, CacheShape
<1>11. thread'[t].op = "none" BY <1>3, IdlePlace
<1>12. CacheShape' /\ FewHeld' /\ Fresh'
  BY <1>1, <1>2, <1>3, <1>4, <1>6, <1>7, <1>8, <1>9, <1>10, <1>11, FutureStep
<1> QED BY <1>5, <1>6, <1>12 DEF CacheInv

\* future.cancel(): an entry whose fetch is cancelled is one the shutdown expires.
LEMMA CancelKeepsInv ==
    ASSUME CacheInv, NEW t \in Hosts, Cancel(t)
    PROVE  CacheInv'
<1>0. PICK d \in thread[t].doomed :
         /\ IF future[d[1]].state # "queued" THEN UNCHANGED <<futures, future>>
            ELSE IF future[d[1]].hooked THEN Discard(d[1], "cancelled")
            ELSE future' = [future EXCEPT ![d[1]].state = "cancelled"] /\ UNCHANGED futures
         /\ thread' = [thread EXCEPT
               ![t].doomed = @ \ {d},
               ![t].gone = IF future[d[1]].state \in {"queued", "cancelled"}
                           THEN @ \cup {d[2]} ELSE @]
  BY DEF Cancel
<1> DEFINE f == d[1]
           G == IF future[f].state \in {"queued", "cancelled"}
                THEN thread[t].gone \cup {d[2]} ELSE thread[t].gone
<1>1. /\ t \in Threads /\ thread \in [Threads -> Places] /\ future \in [Fetches -> Slots]
      /\ futures \subseteq Fetches /\ Fits(t) /\ DoomedFits(t) /\ thread[t].pc = "cancel"
      /\ server \in Versions
  BY Limits, Typed DEF CacheInv, CacheShape, Cancel, At
<1>2. /\ f \in 1..minted /\ f \in Fetches /\ d[2] \in Keys /\ future[f].key \in {d[2], NoKey}
      /\ thread[t].op # "shutdown" => \A k \in PendingKeys : values[k].fetch # f
      /\ thread[t].doomed \in SUBSET (Fetches \X Keys) /\ thread[t].gone \in SUBSET Keys
  <2>1. thread[t].doomed \in SUBSET (Fetches \X Keys) /\ thread[t].gone \in SUBSET Keys
    BY <1>1 DEF Places
  <2>2. f \in 1..minted /\ future[f].key \in {d[2], NoKey}
        /\ (thread[t].op # "shutdown" => \A k \in PendingKeys : values[k].fetch # f)
    BY <1>1 DEF DoomedFits
  <2> QED BY <2>1, <2>2
<1>3. UNCHANGED <<values, closed, minted, breaker, reserved, calls, server, floor>>
  BY DEF Cancel, KeepRest
<1>4. /\ thread' \in [Threads -> Places]
      /\ \A u \in Threads : u # t => thread'[u] = thread[u]
      /\ thread'[t].pc = "cancel" /\ thread'[t].op = thread[t].op
      /\ thread'[t].seen = thread[t].seen /\ thread'[t].key = thread[t].key
      /\ thread'[t].doomed = thread[t].doomed \ {d} /\ thread'[t].gone = G
  <2>1. G \in SUBSET Keys BY <1>2
  <2> HIDE DEF G
  <2> DEFINE y == [thread[t] EXCEPT !.doomed = thread[t].doomed \ {d}]
             x == [y EXCEPT !.gone = G]
  <2>2. /\ y \in Places /\ y.pc = thread[t].pc /\ y.op = thread[t].op
        /\ y.seen = thread[t].seen /\ y.key = thread[t].key
        /\ y.doomed = thread[t].doomed \ {d} /\ y.gone = thread[t].gone
    BY <1>1, <1>2 DEF Places
  <2>3. thread' = [thread EXCEPT ![t] = x] BY <1>0, <1>1 DEF G
  <2> HIDE DEF y
  <2>4. /\ x \in Places /\ x.pc = y.pc /\ x.op = y.op /\ x.seen = y.seen /\ x.key = y.key
        /\ x.doomed = y.doomed /\ x.gone = G
    BY <2>1, <2>2 DEF Places
  <2> HIDE DEF x
  <2> QED BY <1>1, <2>2, <2>3, <2>4, Begins
<1>5. /\ future' \in [Fetches -> Slots] /\ futures' \in {futures, futures \ {f}}
      /\ \A g \in Fetches : g # f => future'[g] = future[g]
      /\ future'[f].key \in {future[f].key, NoKey}
      /\ future'[f].state = IF future[f].state = "queued" THEN "cancelled" ELSE future[f].state
      /\ future[f].state # "queued" => futures' = futures
  <2>1. CASE future[f].state # "queued" BY <1>0, <1>1, <1>2, <2>1
  <2>2. CASE future[f].state = "queued" /\ Discard(f, "cancelled")
    BY <1>1, <1>2, <2>2, Discards
  <2>3. CASE /\ future[f].state = "queued" /\ futures' = futures
             /\ future' = [future EXCEPT ![f].state = "cancelled"]
    BY <1>1, <1>2, <2>3 DEF Slots
  <2> QED BY <1>0, <2>1, <2>2, <2>3
<1> HIDE DEF f
<1>6. BreakerTypeOK' /\ ProbeIsHalfOpen' /\ ProbeIsUsed' BY <1>1, <1>3, <1>4, ProbeStays
<1>7. TypeOK' BY <1>1, <1>3, <1>4, <1>5, <1>6, Typed, TypedNext DEF CacheInv
<1>8. Fits(t)'
  <2>1. thread[t].op # "fetch" BY <1>1 DEF Fits, Calling
  <2> QED BY <1>1, <1>3, <1>4, <2>1 DEF Fits, At
<1>9. DoomedFits(t)'
  <2> SUFFICES ASSUME NEW c \in thread[t].doomed
               PROVE  /\ c[1] \in 1..minted /\ future'[c[1]].key \in {c[2], NoKey}
                      /\ thread[t].op # "shutdown" => \A k \in PendingKeys : values[k].fetch # c[1]
    BY <1>3, <1>4 DEF DoomedFits, PendingKeys
  <2>1. c[1] \in Fetches BY <1>2
  <2> QED BY <1>1, <1>5, <2>1 DEF DoomedFits
<1>10. \A u \in Threads : thread[u].op = "fetch" /\ thread[u].fetch = f
                            => future'[f].state = "running"
  BY <1>5 DEF CacheInv, CacheShape, Fits
<1>11. thread'[t].op # "fetch" BY <1>1, <1>4 DEF Fits, Calling
<1>12. ASSUME NEW k \in PendingKeys
       PROVE  Served(k)'
  <2>1. CASE values[k].fetch = f /\ future[f].state = "queued"
    <3>1. k \in Keys /\ future[f].key = k
      BY <2>1 DEF EntriesFit, CacheInv, CacheShape, PendingKeys
    <3>2. d[2] = k /\ thread[t].op = "shutdown" BY <1>2, <2>1, <3>1, Limits
    <3>3. Expires(t, k)' BY <1>4, <2>1, <3>2 DEF Expires
    <3> QED BY <1>3, <1>5, <2>1, <3>3 DEF Served
  <2>2. CASE values[k].fetch = f => future[f].state # "queued"
    <3>1. ~Runs(t, k) BY <1>1 DEF Runs, Calling
    <3>2. Expires(t, k) => Expires(t, k)' BY <1>4 DEF Expires
    <3> QED BY <1>1, <1>2, <1>3, <1>4, <1>5, <2>2, <3>1, <3>2, StillServed
  <2> QED BY <2>1, <2>2
<1>13. future'[f].state \in {"queued", "running"} => f \in futures'
  BY <1>2, <1>5 DEF FuturesFit, CacheInv, CacheShape
<1>14. future'[f].state # "queued" BY <1>5
<1>15. CacheShape' /\ FewHeld' /\ Fresh'
  BY <1>1, <1>2, <1>3, <1>4, <1>5, <1>7, <1>8, <1>9, <1>10, <1>11, <1>12, <1>13, <1>14, FutureStep
<1> QED BY <1>6, <1>7, <1>15 DEF CacheInv

\* The pool takes up a fetch, and serves its entry from now on.
LEMMA StartKeepsInv ==
    ASSUME CacheInv, NEW w \in Pool, Start(w)
    PROVE  CacheInv'
<1>0. PICK f \in Queued :
         /\ At(w, "idle")
         /\ future' = [future EXCEPT ![f].state = "running"]
         /\ thread' = [thread EXCEPT ![w] = [Idle EXCEPT !.op = "fetch", !.pc = "ask",
                                                !.fetch = f, !.key = future[f].key]]
         /\ UNCHANGED <<values, futures, closed, minted, breaker, reserved, calls, server, floor>>
  BY DEF Start, KeepRest
<1>1. /\ w \in Threads /\ thread \in [Threads -> Places] /\ future \in [Fetches -> Slots]
      /\ thread[w] = Idle /\ server \in Versions /\ minted \in 0..MaxFetches
  BY <1>0, Limits, Typed DEF CacheInv, CacheShape, Fits
<1>2. f \in Fetches /\ f \in 1..minted /\ future[f].state = "queued" /\ f \in futures
  <2>1. f \in Fetches /\ future[f].state = "queued" BY DEF Queued
  <2> QED BY <1>1, <2>1, Limits DEF FuturesFit, CacheInv, CacheShape, Fetches
<1>3. /\ thread' \in [Threads -> Places]
      /\ \A u \in Threads : u # w => thread'[u] = thread[u]
      /\ thread'[w].pc = "ask" /\ thread'[w].op = "fetch" /\ thread'[w].fetch = f
      /\ thread'[w].key = future[f].key /\ thread'[w].seen = 0 /\ thread'[w].doomed = {}
  <2> DEFINE y == [Idle EXCEPT !.op = "fetch", !.pc = "ask"]
             x == [y EXCEPT !.fetch = f, !.key = future[f].key]
  <2>1. y \in Places /\ y.pc = "ask" /\ y.op = "fetch" /\ y.seen = 0 /\ y.doomed = {}
    BY IdlePlace DEF Places, Steps, Ops
  <2>2. future[f].key \in Keys \cup {NoKey} BY <1>1, <1>2 DEF Slots
  <2>3. thread' = [thread EXCEPT ![w] = x] BY <1>0
  <2> HIDE DEF y
  <2>4. /\ x \in Places /\ x.pc = "ask" /\ x.op = "fetch" /\ x.fetch = f
        /\ x.key = future[f].key /\ x.seen = 0 /\ x.doomed = {}
    BY <1>2, <2>1, <2>2 DEF Places
  <2> HIDE DEF x
  <2> QED BY <1>1, <2>3, <2>4, Begins
<1>4. /\ future' \in [Fetches -> Slots]
      /\ \A g \in Fetches : g # f => future'[g] = future[g]
      /\ future'[f].state = "running" /\ future'[f].key = future[f].key
  BY <1>0, <1>1, <1>2 DEF Slots
<1>5. BreakerTypeOK' /\ ProbeIsHalfOpen' /\ ProbeIsUsed' BY <1>0, <1>1, <1>3, IdlePlace, ProbeStays
<1>6. TypeOK' BY <1>0, <1>3, <1>4, <1>5, Typed, TypedNext DEF CacheInv
<1>7. Fits(w)' /\ DoomedFits(w)'
  <2>1. 0 <= server' BY <1>0, <1>1, Limits DEF Versions
  <2> QED BY <1>0, <1>2, <1>3, <1>4, <2>1 DEF Fits, DoomedFits, At, Calling
<1>8. \A u \in Threads : thread[u].op = "fetch" => thread[u].fetch # f
  BY <1>2 DEF CacheInv, CacheShape, Fits
<1>9. ASSUME NEW k \in PendingKeys PROVE Served(k)'
  <2>1. CASE values[k].fetch = f
    <3>1. future[f].key = k BY <1>2, <2>1 DEF EntriesFit, CacheInv, CacheShape
    <3>2. Runs(w, k)' BY <1>0, <1>3, <2>1, <3>1 DEF Runs, Calling
    <3> QED BY <3>2 DEF Served
  <2>2. CASE values[k].fetch # f
    BY <1>0, <1>1, <1>2, <1>3, <1>4, <2>2, IdlePlace, StillServed DEF Runs, Expires
  <2> QED BY <2>1, <2>2
<1>10. CacheShape' /\ FewHeld' /\ Fresh'
  BY <1>0, <1>1, <1>2, <1>3, <1>4, <1>6, <1>7, <1>8, <1>9, FutureStep
<1> QED BY <1>5, <1>6, <1>10 DEF CacheInv

\* A fetch ends when its entry is stored or given up.
LEMMA FinishKeepsInv ==
    ASSUME CacheInv, NEW w \in Pool, Finish(w)
    PROVE  CacheInv'
<1> DEFINE f == thread[w].fetch
<1>1. /\ w \in Threads /\ thread \in [Threads -> Places] /\ future \in [Fetches -> Slots]
      /\ futures \subseteq Fetches /\ Fits(w) /\ thread[w].pc = "done" /\ server \in Versions
  BY Limits, Typed DEF CacheInv, CacheShape, Finish, At
<1>2. /\ f \in 1..minted /\ f \in Fetches /\ thread[w].op = "fetch"
      /\ future[f].state = "running"
  <2>1. f \in 1..minted /\ thread[w].op = "fetch" /\ future[f].state = "running"
    BY <1>1 DEF Fits, At
  <2> QED BY <2>1, HandedOut
<1>3. /\ UNCHANGED <<values, closed, minted, breaker, reserved, calls, server, floor>>
      /\ thread' \in [Threads -> Places] /\ thread'[w] = Idle
      /\ \A u \in Threads : u # w => thread'[u] = thread[u]
  BY <1>1, Stops DEF Finish, KeepRest
<1>4. /\ future' \in [Fetches -> Slots] /\ futures' \in {futures, futures \ {f}}
      /\ \A g \in Fetches : g # f => future'[g] = future[g]
      /\ future'[f].state = "finished" /\ future'[f].key \in {future[f].key, NoKey}
  <2>1. CASE Discard(f, "finished") BY <1>1, <1>2, <2>1, Discards
  <2>2. CASE future' = [future EXCEPT ![f].state = "finished"] /\ UNCHANGED futures
    BY <1>1, <1>2, <2>2 DEF Slots
  <2> QED BY <2>1, <2>2 DEF Finish
<1> HIDE DEF f
<1>5. BreakerTypeOK' /\ ProbeIsHalfOpen' /\ ProbeIsUsed' BY <1>1, <1>3, ProbeStays
<1>6. TypeOK' BY <1>1, <1>3, <1>4, <1>5, Typed, TypedNext DEF CacheInv
<1>7. Fits(w)' /\ DoomedFits(w)'
  <2>1. 0 <= server' BY <1>1, <1>3, Limits DEF Versions
  <2> QED BY <1>3, <2>1, IdlePlace DEF Fits, DoomedFits, At
<1>8. \A u \in Threads : u # w /\ thread[u].op = "fetch" => thread[u].fetch # f
  BY <1>1, <1>2 DEF CacheInv, CacheShape, OneRunner, f
<1>9. ASSUME NEW k \in PendingKeys PROVE Served(k)'
  <2>1. ~Runs(w, k) /\ ~Expires(w, k) BY <1>1, <1>2 DEF Runs, Expires, Calling
  <2>2. CASE values[k].fetch # f
    BY <1>1, <1>2, <1>3, <1>4, <2>1, <2>2, StillServed
  <2>3. CASE values[k].fetch = f
    <3>1. Served(k) BY ServedMeans DEF CacheInv, CacheShape
    <3>2. PICK u \in Pool : Runs(u, k) BY <1>2, <2>3, <3>1 DEF Served
    <3>3. u \in Threads /\ u # w BY <2>1, <3>2, Limits
    <3> QED BY <1>8, <2>3, <3>2, <3>3 DEF Runs
  <2> QED BY <2>2, <2>3
<1>10. thread'[w].op = "none" BY <1>3, IdlePlace
<1>11. CacheShape' /\ FewHeld' /\ Fresh'
  BY <1>1, <1>2, <1>3, <1>4, <1>6, <1>7, <1>8, <1>9, <1>10, FutureStep
<1> QED BY <1>5, <1>6, <1>11 DEF CacheInv

\* As long as the cache is open, every pending entry has a future that counts.
LEMMA PendingCounts ==
    ASSUME CacheInv, ~closed
    PROVE  Cardinality(PendingKeys) <= Cardinality(futures)
<1>1. \A k \in PendingKeys : values[k].fetch \in futures
  <2> SUFFICES ASSUME NEW k \in PendingKeys PROVE values[k].fetch \in futures OBVIOUS
  <2>1. Served(k) /\ values[k].fetch \in Fetches
    BY ServedMeans, HandedOut DEF EntriesFit, CacheInv, CacheShape
  <2>2. \A t \in Hosts : ~Expires(t, k)
    BY Limits DEF CacheInv, CacheShape, Fits, Expires
  <2>3. \A w \in Pool : Runs(w, k) => future[values[k].fetch].state = "running"
    BY Limits DEF CacheInv, CacheShape, Fits, Runs
  <2> QED BY <2>1, <2>2, <2>3 DEF Served, FuturesFit, CacheInv, CacheShape
<1>2. IsFiniteSet(futures) /\ Cardinality(futures) \in Nat
  BY Limits, Typed, FS_Subset, FS_CardinalityType DEF CacheInv
<1> DEFINE of == [k \in PendingKeys |-> values[k].fetch]
<1>3. of \in [PendingKeys -> futures] BY <1>1
<1>4. \A j, k \in PendingKeys : of[j] = of[k] => j = k
  BY DEF EntriesFit, CacheInv, CacheShape
<1> HIDE DEF of
<1>5. CASE Cardinality(futures) < Cardinality(PendingKeys)
  <2>1. \E j, k \in PendingKeys : j # k /\ of[j] = of[k]
    BY <1>2, <1>3, <1>5, PendingIsFinite, FS_PigeonHole
  <2> QED BY <1>4, <2>1
<1> QED BY <1>2, <1>5, PendingIsFinite

\* queue turns the key away.
LEMMA QueueRejectsKeepsInv ==
    ASSUME CacheInv, NEW t \in Hosts, NEW k \in Keys, Queue(t, k), thread' = thread,
           values' = [values EXCEPT ![k] = None], UNCHANGED <<futures, future, minted>>
    PROVE  CacheInv'
<1>1. calls' \in 0..MaxCalls
  BY Limits DEF Queue, Begin, CacheInv, TypeOK
<1>2. None # Expired BY Kinds
<1>3. UNCHANGED <<closed, breaker, reserved, server, floor>> BY DEF Queue, KeepRest
<1> QED BY <1>1, <1>2, <1>3, EntryLeaves

\* queue admits the key with a fetch of its own; few enough wait before it.
LEMMA QueueAdmitsKeepsInv ==
    ASSUME CacheInv, NEW t \in Hosts, NEW k \in Keys, Queue(t, k),
           ~closed, Cardinality(futures) < MaxPending
    PROVE  CacheInv'
<1> DEFINE f == minted + 1
           e == PendingOf(f)
           x == [Idle EXCEPT !.pc = "hook", !.op = "queue", !.fetch = f]
<1>1. /\ t \in Threads /\ thread \in [Threads -> Places] /\ future \in [Fetches -> Slots]
      /\ values \in [Keys -> Entries] /\ futures \subseteq Fetches /\ thread[t] = Idle
      /\ minted \in 0..MaxFetches /\ calls \in 0..MaxCalls
      /\ server \in Versions
  BY Limits, Typed DEF CacheInv, CacheShape, Fits, Queue, Begin
<1>2. Cardinality(futures) \in Nat /\ ~(closed \/ Cardinality(futures) >= MaxPending)
  BY <1>1, Limits, FS_Subset, FS_CardinalityType
<1>3. /\ minted < MaxFetches /\ minted' = f /\ Put(k, e)
      /\ futures' = futures \cup {f}
      /\ future' = [future EXCEPT ![f] = [state |-> "queued", key |-> k, hooked |-> FALSE]]
      /\ thread' = [thread EXCEPT ![t] = x]
      /\ UNCHANGED <<closed, breaker, reserved, server, floor>>
      /\ values[k].status \notin {"pending", "completed"}
      /\ calls < MaxCalls /\ calls' = calls + 1
  BY <1>2 DEF Queue, Begin, KeepRest
<1>4. /\ f \in Fetches /\ minted' \in 0..MaxFetches /\ f \notin 1..minted /\ f \in 1..minted'
      /\ \A g \in 1..minted : g \in 1..minted'
      /\ calls' \in 0..MaxCalls /\ 0 <= server' /\ server <= server'
  BY <1>1, <1>3, Limits DEF Fetches, Versions
<1>5. e \in Entries /\ e.status = "pending" /\ e.fetch = f BY <1>4, Kinds
<1>6. x \in Places /\ x.pc = "hook" /\ x.op = "queue" /\ x.fetch = f /\ x.doomed = {}
      /\ x.seen = 0
  <2> DEFINE y == [Idle EXCEPT !.pc = "hook", !.op = "queue"]
  <2>1. y \in Places /\ y.pc = "hook" /\ y.op = "queue" /\ y.doomed = {} /\ y.seen = 0
    BY IdlePlace DEF Places, Steps, Ops
  <2>2. x = [y EXCEPT !.fetch = f] OBVIOUS
  <2> HIDE DEF y, f
  <2> QED BY <1>4, <2>1, <2>2 DEF Places
<1> HIDE DEF e, x
<1>7. /\ thread' \in [Threads -> Places] /\ thread'[t] = x
      /\ \A u \in Threads : u # t => thread'[u] = thread[u]
  BY <1>1, <1>3, <1>6, Begins
<1>8. /\ future' \in [Fetches -> Slots] /\ future'[f].state = "queued" /\ future'[f].key = k
      /\ \A g \in Fetches : g # f => future'[g] = future[g]
  <2> HIDE DEF f
  <2> QED BY <1>1, <1>3, <1>4 DEF Slots
<1> HIDE DEF f
<1>9. /\ values' \in [Keys -> Entries] /\ values'[k] = e
      /\ \A j \in Keys : j # k => values'[j] = values[j] \/ values'[j] = None
      /\ FewHeld'
  BY <1>1, <1>3, <1>5, Puts, PutFits
<1>10. BreakerTypeOK' /\ ProbeIsHalfOpen' /\ ProbeIsUsed'
  BY <1>1, <1>3, <1>7, IdlePlace, ProbeStays
<1>11. TypeOK'
  BY <1>1, <1>3, <1>4, <1>7, <1>8, <1>9, <1>10, Typed, TypedNext DEF CacheInv
<1>12. /\ k \in PendingKeys' /\ k \notin PendingKeys
       /\ \A j \in PendingKeys' : j = k \/ (j \in PendingKeys /\ values'[j] = values[j])
  BY <1>3, <1>5, <1>9, Kinds DEF PendingKeys
<1>13. \A j \in PendingKeys : values[j].fetch \in 1..minted /\ values[j].fetch # f
                              /\ values[j].fetch \in Fetches
  BY <1>4, HandedOut DEF EntriesFit, CacheInv, CacheShape
<1>14. ASSUME NEW u \in Threads PROVE Fits(u)' /\ DoomedFits(u)'
  <2>1. CASE u = t
    <3>1. Fits(t)' BY <1>3, <1>4, <1>6, <1>7 DEF Fits, At
    <3>2. DoomedFits(t)' BY <1>6, <1>7 DEF DoomedFits
    <3> QED BY <2>1, <3>1, <3>2
  <2>2. CASE u # t
    <3>1. thread'[u] = thread[u] /\ Fits(u) /\ DoomedFits(u)
      BY <1>7, <2>2 DEF CacheInv, CacheShape
    <3>2. thread[u].op = "fetch" => future'[thread[u].fetch] = future[thread[u].fetch]
      BY <1>4, <1>8, <3>1, HandedOut DEF Fits
    <3>3. thread[u].seen <= server' BY <1>3, <3>1 DEF Fits
    <3>4. Fits(u)' BY <1>3, <1>4, <3>1, <3>2, <3>3 DEF Fits, At
    <3>5. \A d \in thread[u].doomed :
             future'[d[1]] = future[d[1]] /\ d[1] \in 1..minted' /\ d[1] # f
      BY <1>4, <1>8, <3>1, HandedOut DEF DoomedFits
    <3>6. DoomedFits(u)'
      <4>1. values'[k].fetch = f BY <1>5, <1>9
      <4> QED BY <1>12, <3>1, <3>5, <4>1 DEF DoomedFits
    <3> QED BY <3>4, <3>6
  <2> QED BY <2>1, <2>2
<1>15. OneRunner' BY <1>6, <1>7 DEF OneRunner, CacheInv, CacheShape
<1>16. FuturesFit'
  <2> SUFFICES ASSUME NEW g \in Fetches
               PROVE  /\ g > minted' => future'[g].state = "none" /\ future'[g].key = NoKey
                      /\ future'[g].state \in {"queued", "running"} => g \in futures'
    BY DEF FuturesFit
  <2>1. g > minted' => g > minted /\ g # f
    BY <1>1, <1>3, Limits DEF Fetches, f
  <2>2. CASE g = f BY <1>3, <2>1, <2>2
  <2>3. CASE g # f BY <1>3, <1>8, <2>1, <2>3 DEF FuturesFit, CacheInv, CacheShape
  <2> QED BY <2>2, <2>3
<1>17. EntriesFit'
  <2> SUFFICES ASSUME NEW j \in PendingKeys'
               PROVE  /\ values'[j].fetch \in 1..minted'
                      /\ values'[j] = PendingOf(values'[j].fetch)
                      /\ future'[values'[j].fetch].state = "queued"
                            => future'[values'[j].fetch].key = j
                      /\ \A i \in PendingKeys' : values'[i].fetch = values'[j].fetch => i = j
    BY DEF EntriesFit
  <2>1. CASE j = k BY <1>4, <1>5, <1>8, <1>9, <1>12, <1>13, <2>1 DEF e
  <2>2. CASE j # k
    <3>1. j \in PendingKeys /\ values'[j] = values[j] BY <1>12, <2>2
    <3>2. future'[values[j].fetch] = future[values[j].fetch] BY <1>8, <1>13, <3>1
    <3>3. \A i \in PendingKeys' : values'[i].fetch = values'[j].fetch => i = j
      BY <1>5, <1>9, <1>12, <1>13, <3>1 DEF EntriesFit, CacheInv, CacheShape
    <3> QED BY <1>4, <1>13, <3>1, <3>2, <3>3 DEF EntriesFit, CacheInv, CacheShape
  <2> QED BY <2>1, <2>2
<1>18. PendingIsServed'
  <2>1. ASSUME NEW j \in PendingKeys' PROVE Served(j)'
    <3>1. CASE j = k BY <1>5, <1>8, <1>9, <3>1 DEF Served
    <3>2. CASE j # k
      <4>1. j \in PendingKeys /\ values'[j] = values[j] /\ Served(j)
        BY <1>12, <3>2, ServedMeans DEF CacheInv, CacheShape
      <4>2. future'[values[j].fetch] = future[values[j].fetch] BY <1>8, <1>13, <4>1
      <4>3. \A u \in Threads : (Runs(u, j) => Runs(u, j)') /\ (Expires(u, j) => Expires(u, j)')
        BY <1>1, <1>7, <4>1, IdlePlace DEF Runs, Expires
      <4> QED BY <4>1, <4>2, <4>3, Limits DEF Served
    <3> QED BY <3>1, <3>2
  <2> QED BY <2>1 DEF PendingIsServed, Served, Runs, Expires, Calling
<1>19. FewPending'
  <2>1. PendingKeys' \subseteq PendingKeys \cup {k} BY <1>12
  <2>2. /\ IsFiniteSet(PendingKeys \cup {k})
        /\ Cardinality(PendingKeys \cup {k}) = Cardinality(PendingKeys) + 1
    BY <1>12, PendingIsFinite, FS_AddElement
  <2>3. Cardinality(PendingKeys') <= Cardinality(PendingKeys \cup {k})
        /\ Cardinality(PendingKeys') \in Nat
    BY <2>1, <2>2, FS_Subset, FS_CardinalityType
  <2>4. Cardinality(PendingKeys) <= Cardinality(futures) BY PendingCounts
  <2> QED BY <1>2, <2>2, <2>3, <2>4, PendingIsFinite, Limits DEF FewPending
<1>20. Fresh'
  <2>1. ASSUME NEW w \in Pool, NEW j \in PendingKeys',
               Runs(w, j)', thread'[w].pc \in {"good", "store"}
        PROVE  thread'[w].seen >= floor'
    <3>1. w \in Threads /\ w # t /\ thread'[w] = thread[w]
      BY <1>6, <1>7, <2>1, Limits DEF Runs
    <3>2. thread[w].fetch \in 1..minted
      BY <2>1, <3>1 DEF Runs, CacheInv, CacheShape, Fits
    <3>3. j \in PendingKeys /\ values'[j] = values[j]
      BY <1>4, <1>5, <1>9, <1>12, <2>1, <3>1, <3>2 DEF Runs
    <3>4. Runs(w, j) BY <2>1, <3>1, <3>3 DEF Runs
    <3> QED BY <1>3, <2>1, <3>1, <3>3, <3>4 DEF Fresh, CacheInv
  <2>2. \A j \in Keys : values'[j].status = "completed" /\ ~values'[j].front
                          => values'[j].data >= floor'
    BY <1>3, <1>5, <1>9, Kinds DEF Fresh, CacheInv
  <2> QED BY <1>3, <2>1, <2>2 DEF Fresh, CacheInv
<1> QED
  BY <1>9, <1>10, <1>11, <1>14, <1>15, <1>16, <1>17, <1>18, <1>19, <1>20 DEF CacheInv, CacheShape

LEMMA QueueKeepsInv ==
    ASSUME CacheInv, NEW t \in Hosts, NEW k \in Keys, Queue(t, k)
    PROVE  CacheInv'
<1>1. Cardinality(futures) \in Nat
  BY Limits, Typed, FS_Subset, FS_CardinalityType DEF CacheInv
<1>2. CASE closed \/ Cardinality(futures) >= MaxPending
  BY <1>2, QueueRejectsKeepsInv DEF Queue
<1>3. CASE ~(closed \/ Cardinality(futures) >= MaxPending)
  <2>1. ~closed /\ Cardinality(futures) < MaxPending BY <1>1, <1>3, Limits
  <2> QED BY <2>1, QueueAdmitsKeepsInv
<1> QED BY <1>2, <1>3
-----------------------------------------------------------------------------
(* The invariant *)

\* Nothing is cached and nobody is at work.
LEMMA InitInv == Init => CacheInv
<1> SUFFICES ASSUME Init PROVE CacheInv OBVIOUS
<1>1. /\ values = [k \in Keys |-> None] /\ futures = {} /\ closed = FALSE
      /\ future = [f \in Fetches |-> [state |-> "none", key |-> NoKey, hooked |-> FALSE]]
      /\ thread = [t \in Threads |-> Idle]
      /\ server = 0 /\ floor = 0 /\ reserved = {} /\ minted = 0 /\ calls = 0
      /\ circuit = "closed" /\ failures = 0 /\ probe = NoThread
  BY DEF Init, BreakerInit
<1>2. PendingKeys = {} /\ Held = {} BY <1>1, Kinds DEF PendingKeys, Held
<1>3. BreakerTypeOK BY <1>1, BreakerAssumption DEF BreakerTypeOK
<1>4. TypeOK
  <2>1. values \in [Keys -> Entries] BY <1>1, Kinds
  <2>2. future \in [Fetches -> Slots] BY <1>1 DEF Slots
  <2>3. thread \in [Threads -> Places] BY <1>1, IdlePlace
  <2>4. 0 \in Versions /\ 0 \in 0..MaxFetches /\ 0 \in 0..MaxCalls BY Limits DEF Versions
  <2> QED BY <1>1, <1>3, <2>1, <2>2, <2>3, <2>4, Typed
<1>5. ProbeIsHalfOpen /\ ProbeIsUsed BY <1>1 DEF ProbeIsHalfOpen, ProbeIsUsed
<1>6. ASSUME NEW t \in Threads PROVE Fits(t) /\ DoomedFits(t)
  <2>1. thread[t] = Idle BY <1>1
  <2> QED BY <1>1, <2>1, IdlePlace DEF Fits, DoomedFits, At
<1>7. OneRunner BY <1>1, IdlePlace DEF OneRunner
<1>8. FuturesFit BY <1>1 DEF FuturesFit
<1>9. EntriesFit /\ PendingIsServed BY <1>2 DEF EntriesFit, PendingIsServed
<1>10. FewPending /\ FewHeld
  BY <1>2, FS_EmptySet, Limits DEF FewPending, FewHeld
<1>11. Fresh BY <1>1, <1>2, Kinds DEF Fresh
<1> QED BY <1>4, <1>5, <1>6, <1>7, <1>8, <1>9, <1>10, <1>11 DEF CacheInv, CacheShape

LEMMA StepKeepsInv == CacheInv /\ [Next]_vars => CacheInv'
<1> SUFFICES ASSUME CacheInv, [Next]_vars PROVE CacheInv' OBVIOUS
<1>1. ASSUME NEW t \in Hosts, Host(t) PROVE CacheInv'
  <2>0. t \in Threads BY Limits
  <2>1. ASSUME NEW k \in Keys, Queue(t, k) PROVE CacheInv' BY <2>1, QueueKeepsInv
  <2>2. ASSUME NEW k \in Keys, FetchNow(t, k) PROVE CacheInv' BY <2>2, BeginKeepsInv
  <2>3. ASSUME NEW kind \in {"turn", "event", "compress"}, Post(t, kind) PROVE CacheInv'
    BY <2>3, BeginKeepsInv
  <2>4. CASE EndSession(t) BY <2>4, BeginKeepsInv
  <2>5. CASE Hook(t) BY <2>0, <2>5, HookKeepsInv
  <2>6. CASE PreCompress(t) BY <2>0, <2>6, PreCompressKeepsInv
  <2>7. CASE StoreNow(t) BY <2>0, <2>7, StoreNowKeepsInv
  <2>8. CASE Forget(t) BY <2>0, <2>8, ForgetKeepsInv
  <2>9. CASE Shutdown(t) BY <2>0, <2>9, ShutdownKeepsInv
  <2>10. CASE Cancel(t) BY <2>0, <2>10, CancelKeepsInv
  <2>11. CASE Cancelled(t) BY <2>0, <2>11, CancelledKeepsInv
  <2> QED
    BY <1>1, <2>1, <2>2, <2>3, <2>4, <2>5, <2>6, <2>7, <2>8, <2>9, <2>10, <2>11 DEF Host
<1>2. ASSUME NEW t \in Threads, Call(t) PROVE CacheInv'
  BY <1>2, AskKeepsInv, AnswerKeepsInv, LoseKeepsInv, SucceedKeepsInv, ReportKeepsInv DEF Call
<1>3. ASSUME NEW w \in Pool, Worker(w) PROVE CacheInv'
  BY <1>3, StartKeepsInv, StoreKeepsInv, StoreFailureKeepsInv, FinishKeepsInv DEF Worker
<1>4. ASSUME NEW k \in Keys, TimeToLive(k) PROVE CacheInv' BY <1>4, TimeToLiveKeepsInv
<1>5. CASE TimePasses BY <1>5, TimeKeepsInv
<1>6. CASE UNCHANGED vars
  <2>1. UNCHANGED <<thread, server, floor, reserved, calls>> /\ KeepCache
        /\ circuit' = circuit /\ failures' = failures /\ probe' = probe
    BY <1>6 DEF vars, breaker, KeepCache
  <2>2. BreakerTypeOK' /\ ProbeIsHalfOpen' /\ ProbeIsUsed'
    BY <2>1 DEF CacheInv, TypeOK, BreakerTypeOK, ProbeIsHalfOpen, ProbeIsUsed
  <2>3. TypeOK' BY <2>1, <2>2, Typed, TypedNext DEF CacheInv, KeepCache
  <2> QED BY <2>1, <2>2, <2>3, CacheUntouched DEF CacheInv, KeepCache
<1> QED BY <1>1, <1>2, <1>3, <1>4, <1>5, <1>6 DEF Next

\* The invariant holds in every state of the adapter.
THEOREM PrefetchInvariant == Spec => []CacheInv
<1>1. Init => CacheInv BY InitInv
<1>2. CacheInv /\ [Next]_vars => CacheInv' BY StepKeepsInv
<1> QED BY <1>1, <1>2, PTL DEF Spec

\* Entries, futures and threads are what prefetch.py and http_client.py make them.
THEOREM PrefetchTypes == Spec => []TypeOK
<1>1. CacheInv => TypeOK BY DEF CacheInv
<1> QED BY <1>1, PrefetchInvariant, PTL

\* The probe right that can_call gives is given back by on_success or on_failure: it is
\* never with a thread that does not call the server, but for on_pre_compress.
THEOREM ProbeUsed == Spec => []ProbeIsUsed
<1>1. CacheInv => ProbeIsUsed BY DEF CacheInv
<1> QED BY <1>1, PrefetchInvariant, PTL

\* queue, invalidate_session and shutdown leave no pending entry without its fetch.
THEOREM PendingServed == Spec => []PendingIsServed
<1>1. CacheInv => PendingIsServed BY DEF CacheInv, CacheShape
<1> QED BY <1>1, PrefetchInvariant, PTL

\* _make_room_locked always finds an entry to let go, and the cache stays in its bounds.
THEOREM RoomIsFound == Spec => []RoomForPending
<1>1. CacheInv => RoomForPending
  BY RoomIsLeft DEF CacheInv, CacheShape, FewHeld, RoomForPending
<1> QED BY <1>1, PrefetchInvariant, PTL

\* No result of a background _fetch that is older than an invalidated write is cached.
THEOREM NothingStale == Spec => []OnlyForegroundIsStale
<1>1. ASSUME CacheInv PROVE OnlyForegroundIsStale
  <2> SUFFICES ASSUME NEW k \in Keys, values[k].status = "completed",
                      values[k].data < floor, ~values[k].front
               PROVE FALSE
    BY <1>1, Typed DEF OnlyForegroundIsStale, CacheInv, Entries
  <2>1. values[k].data >= floor BY <1>1 DEF Fresh, CacheInv
  <2>2. values[k].data \in Nat /\ floor \in Nat
    BY <1>1, Typed DEF CacheInv, Entries, Versions
  <2> QED BY <2>1, <2>2
<1> QED BY <1>1, PrefetchInvariant, PTL

\* Whoever moves the breaker under a probe is the prober, and moves on.
LEMMA ProberMoves ==
    ASSUME CacheInv, Next, NEW t \in Threads, probe = t, breaker' # breaker
    PROVE  thread'[t] # thread[t]
<1>1. BreakerTypeOK /\ ProbeIsHalfOpen /\ probe # NoThread /\ thread \in [Threads -> Places]
  BY Typed, Limits DEF CacheInv
<1>2. ASSUME NEW u \in Threads, Granted(u) PROVE FALSE BY <1>1, <1>2 DEF Granted
<1>3. ASSUME NEW u \in Threads, OnSuccess(u) \/ OnFailure(u) PROVE u = t
  BY <1>1, <1>3, Results
<1>4. ASSUME NEW u \in Hosts, Host(u) PROVE FALSE
  <2>1. u \in Threads BY Limits
  <2>2. PreCompress(u) \/ UNCHANGED breaker
    BY <1>4 DEF Host, Queue, FetchNow, Post, EndSession, Hook, StoreNow, Forget, Shutdown,
                Cancel, Cancelled
  <2> QED BY <1>2, <2>1, <2>2 DEF PreCompress, Denied
<1>5. ASSUME NEW u \in Threads, Call(u) PROVE thread'[t] # thread[t]
  <2>1. CASE Ask(u) BY <1>2, <2>1 DEF Ask, Denied
  <2>2. CASE Answer(u) \/ Lose(u) BY <2>2 DEF Answer, Lose
  <2>3. CASE Succeed(u)
    <3>1. u = t /\ thread[t].pc = "good" BY <1>3, <2>3 DEF Succeed, At
    <3>2. thread[t].op \in {"fetch", "fetch_now", "turn", "event"}
      BY <3>1 DEF CacheInv, CacheShape, Fits
    <3>3. Ends(t) \/ \E step \in {"store", "forget", "ask"} : GoTo(t, step)
      BY <2>3, <3>1, <3>2 DEF Succeed
    <3>4. thread'[t].pc # "good"
      BY <1>1, <3>3, Moves, Stops, IdlePlace DEF Steps
    <3> QED BY <3>1, <3>4
  <2>4. CASE Report(u)
    <3>1. u = t /\ thread[t].pc = "report" BY <1>3, <2>4 DEF Report, At
    <3>2. Ends(t) \/ GoTo(t, "done") BY <2>4, <3>1 DEF Report
    <3>3. thread'[t].pc # "report"
      BY <1>1, <3>2, Moves, Stops, IdlePlace DEF Steps
    <3> QED BY <3>1, <3>3
  <2> QED BY <1>5, <2>1, <2>2, <2>3, <2>4 DEF Call
<1>6. ASSUME NEW w \in Pool, Worker(w) PROVE FALSE
  BY <1>6 DEF Worker, Start, Store, StoreFailure, Finish
<1>7. ASSUME NEW k \in Keys, TimeToLive(k) PROVE FALSE BY <1>7 DEF TimeToLive
<1>8. CASE TimePasses BY <1>1, <1>8 DEF TimePasses, Elapse, ProbeIsHalfOpen
<1> QED BY <1>4, <1>5, <1>6, <1>7, <1>8 DEF Next

\* Under the half-open breaker only the prober's result counts: on_success and on_failure
\* of calls made before it opened change nothing.
THEOREM ProbeDecides == Spec => OnlyProbeDecides
<1>1. ASSUME CacheInv, [Next]_vars
      PROVE  [\A t \in Threads : probe = t /\ breaker' # breaker => thread'[t] # thread[t]]_vars
  BY <1>1, ProberMoves
<1> QED BY <1>1, PrefetchInvariant, PTL DEF Spec, OnlyProbeDecides
===============================================================================
