--------------------------- MODULE DeletionProofs ---------------------------
(***************************************************************************)
(* Proofs about Deletion for any events, any number of claims, deaths,      *)
(* backups and restores.                                                    *)
(***************************************************************************)
EXTENDS Deletion, TLAPS

\* A closure takes away the claims it is asked for and everything that refers to
\* them, and nothing else of claims (_delete_closure).
LEMMA ClosureRemoves ==
    ASSUME NEW d \in Databases, NEW C \in SUBSET Ids, NEW E, ClaimsExist(d)
    PROVE  /\ Closure(d, C, E) \in Databases
           /\ ClaimsExist(Closure(d, C, E))
           /\ \A c \in Ids : Exists(Closure(d, C, E), c) <=> Exists(d, c) /\ c \notin C
<1> DEFINE k == Closure(d, C, E)
<1>1. /\ k.status = [c \in Ids |-> IF c \in C THEN "none" ELSE d.status[c]]
      /\ k.cites = {l \in d.cites : l[1] \notin C}
      /\ k.derived = {l \in d.derived : {l[1], l[2]} \cap C = {}}
      /\ k.cases = {l \in d.cases : {l[1], l[2]} \cap C = {}}
      /\ k.events = d.events \ E
      /\ k.task = d.task /\ k.jobs = d.jobs /\ k.keys = d.keys
  BY DEF Closure, Databases
<1>2. k \in Databases
  <2>1. k.status \in [Ids -> Statuses]
    BY <1>1 DEF Databases, Statuses
  <2>2. k.cites \in SUBSET (Ids \X Events) /\ k.derived \in SUBSET (Ids \X Ids)
        /\ k.cases \in SUBSET (Ids \X Ids) /\ k.events \in SUBSET Events
    BY <1>1 DEF Databases
  <2> QED BY <2>1, <2>2, <1>1 DEF Databases, Closure
<1>3. \A c \in Ids : Exists(k, c) <=> Exists(d, c) /\ c \notin C
  BY <1>1 DEF Exists
<1>4. ClaimsExist(k)
  <2>1. \A l \in k.cites : Exists(k, l[1])
    BY <1>1, <1>3 DEF ClaimsExist, Databases
  <2>2. ASSUME NEW l \in k.derived \cup k.cases PROVE Exists(k, l[1]) /\ Exists(k, l[2])
    <3>1. l \in d.derived \cup d.cases /\ l[1] \notin C /\ l[2] \notin C
      BY <1>1
    <3>2. l[1] \in Ids /\ l[2] \in Ids
      BY <3>1 DEF Databases
    <3> QED BY <3>1, <3>2, <1>3 DEF ClaimsExist
  <2> QED BY <2>1, <2>2 DEF ClaimsExist
<1> HIDE DEF k
<1> QED BY <1>2, <1>3, <1>4 DEF k

\* A deletion adds at most one entry, that of its claim (record_deletion).
LEMMA RecordedKeeps ==
    ASSUME ledger \in Seq(Entries), NEW c \in Ids, NEW E \in SUBSET Events
    PROVE  /\ Recorded(c, E) \in Seq(Entries)
           /\ \E i \in DOMAIN Recorded(c, E) : Recorded(c, E)[i].claim = c
           /\ \A i \in DOMAIN ledger : \E j \in DOMAIN Recorded(c, E) :
                 Recorded(c, E)[j] = ledger[i]
           /\ \A j \in DOMAIN Recorded(c, E) :
                 \/ Recorded(c, E)[j].claim = c
                 \/ \E i \in DOMAIN ledger : Recorded(c, E)[j] = ledger[i]
<1> DEFINE entry == [claim |-> c, events |-> E]
<1>1. entry \in Entries BY DEF Entries
<1>2. CASE \E i \in DOMAIN ledger : ledger[i] = entry
  <2>1. Recorded(c, E) = ledger BY <1>2 DEF Recorded
  <2> QED BY <2>1, <1>2
<1>3. CASE ~\E i \in DOMAIN ledger : ledger[i] = entry
  <2>1. Recorded(c, E) = Append(ledger, entry) BY <1>3 DEF Recorded
  <2>2. /\ Append(ledger, entry) \in Seq(Entries)
        /\ DOMAIN Append(ledger, entry) = 1..(Len(ledger) + 1)
        /\ DOMAIN ledger = 1..Len(ledger)
        /\ Len(ledger) \in Nat
        /\ Append(ledger, entry)[Len(ledger) + 1] = entry
        /\ \A i \in 1..Len(ledger) : Append(ledger, entry)[i] = ledger[i]
    BY <1>1
  <2>3. entry.claim = c OBVIOUS
  <2> HIDE DEF entry
  <2>4. Len(ledger) + 1 \in DOMAIN Append(ledger, entry)
    BY <2>2
  <2>5. \A i \in DOMAIN ledger : i \in DOMAIN Append(ledger, entry)
    BY <2>2
  <2>6. \A j \in DOMAIN Append(ledger, entry) : j = Len(ledger) + 1 \/ j \in DOMAIN ledger
    BY <2>2
  <2> QED BY <2>1, <2>2, <2>3, <2>4, <2>5, <2>6
<1> QED BY <1>2, <1>3

\* Once what claims refer to exists, absence alone keeps a deleted claim away.
LEMMA AbsentIsDeleted ==
    ASSUME ClaimsExist(db)', (\A c \in confirmed : ~Exists(db, c))'
    PROVE  DeletedStaysDeleted'
BY DEF ClaimsExist, DeletedStaysDeleted, Exists

\* What leaves the ledger and the backup alone and creates no claim keeps the
\* invariant.
LEMMA UpkeepKeepsInv ==
    ASSUME DeletionInv, Quiet, minted' = minted,
           db' \in Databases, ClaimsExist(db'),
           \A c \in Ids : Exists(db', c) => Exists(db, c),
           running' \in SUBSET Events, erased' \in SUBSET Events
    PROVE  DeletionInv'
<1> USE DEF Quiet
<1>1. TypeOK' BY DEF DeletionInv, TypeOK
<1>2. ClaimsExist(db)' /\ ClaimsExist(backup.db)' BY DEF DeletionInv, ClaimsExist, Exists
<1>3. OnlyMinted' BY DEF DeletionInv, OnlyMinted, Exists
<1>4. ConfirmedIsRecorded' BY DEF DeletionInv, ConfirmedIsRecorded
<1>5. (\A c \in confirmed : ~Exists(db, c))'
  BY DEF DeletionInv, DeletedStaysDeleted, TypeOK, Exists
<1>6. DeletedStaysDeleted' BY <1>2, <1>5, AbsentIsDeleted
<1> QED BY <1>1, <1>2, <1>3, <1>4, <1>6 DEF DeletionInv

\* The fields of the empty database.
LEMMA EmptyIsDatabase == Empty \in Databases /\ ClaimsExist(Empty)
                         /\ \A c \in Ids : ~Exists(Empty, c)
BY DEF Empty, Databases, ClaimsExist, Exists, Statuses

\* The invariant holds of an empty system.
LEMMA InitInv == Init => DeletionInv
<1> SUFFICES ASSUME Init PROVE DeletionInv OBVIOUS
<1> USE DEF Init
<1>1. TypeOK BY EmptyIsDatabase, DeletionAssumption DEF TypeOK, Entries
<1>2. ClaimsExist(db) /\ ClaimsExist(backup.db) BY EmptyIsDatabase
<1>3. OnlyMinted BY EmptyIsDatabase DEF OnlyMinted
<1>4. ConfirmedIsRecorded /\ DeletedStaysDeleted BY DEF ConfirmedIsRecorded, DeletedStaysDeleted
<1> QED BY <1>1, <1>2, <1>3, <1>4 DEF DeletionInv

\* Ingestion, failed windows and retries touch no claim.
LEMMA EventsKeepInv ==
    ASSUME DeletionInv, NEW e \in Events,
           Ingest(e) \/ EventMissing(e) \/ RetryExtraction(e) \/ Purge(e)
    PROVE  DeletionInv'
<1> USE DEF DeletionInv, TypeOK
<1>1. /\ Quiet /\ minted' = minted
      /\ running' \in SUBSET Events /\ erased' \in SUBSET Events
  BY DEF Ingest, EventMissing, RetryExtraction, Purge
<1>2. /\ db' \in Databases
      /\ db'.status = db.status /\ db'.cites = db.cites
      /\ db'.derived = db.derived /\ db'.cases = db.cases
  <2>1. CASE Ingest(e)
    <3>1. /\ db.events \cup {e} \in SUBSET Events
          /\ db.jobs \cup ({e} \ db.keys) \in SUBSET Events
          /\ db.keys \cup {e} \in SUBSET Events
      BY DEF Databases
    <3>2. db' = [db EXCEPT !.events = db.events \cup {e},
                           !.jobs = db.jobs \cup ({e} \ db.keys),
                           !.keys = db.keys \cup {e}]
      BY <2>1 DEF Ingest
    <3> QED BY <3>1, <3>2 DEF Databases
  <2>0. \A v \in {"none", "pending", "over"} :
            [db.task EXCEPT ![e] = v] \in [Events -> {"none", "pending", "over"}]
    BY DEF Databases
  <2>2. CASE EventMissing(e)
    <3>1. db.task[e] \in {"none", "pending", "over"} BY DEF Databases
    <3>2. PICK v \in {"none", "pending", "over"} :
              db' = [db EXCEPT !.jobs = @ \ {e}, !.task = [db.task EXCEPT ![e] = v]]
      BY <2>2, <3>1 DEF EventMissing
    <3> QED BY <3>2, <2>0 DEF Databases
  <2>3. CASE RetryExtraction(e)
    <3>1. \/ db' = [db EXCEPT !.jobs = @ \cup {e}]
          \/ db' = [db EXCEPT !.task = [db.task EXCEPT ![e] = "over"]]
      BY <2>3 DEF RetryExtraction
    <3> QED BY <3>1, <2>0 DEF Databases
  <2>4. CASE Purge(e) BY <2>4 DEF Purge, Databases
  <2> QED BY <2>1, <2>2, <2>3, <2>4
<1>3. ClaimsExist(db') /\ \A c \in Ids : Exists(db', c) => Exists(db, c)
  BY <1>2 DEF ClaimsExist, Exists
<1> QED BY <1>1, <1>2, <1>3, UpkeepKeepsInv

\* An extraction reads, adds evidence to a claim that exists, and ends.
LEMMA ExtractionKeepsInv ==
    ASSUME DeletionInv,
           \/ \E window \in SUBSET Events : ReadEvents(window)
           \/ \E sources \in SUBSET running, c \in Ids : AddEvidence(c, sources)
           \/ \E again, deferred \in SUBSET running : ExtractionEnds(again, deferred)
    PROVE  DeletionInv'
<1> USE DEF DeletionInv, TypeOK
<1>1. /\ Quiet /\ minted' = minted
      /\ running' \in SUBSET Events /\ erased' \in SUBSET Events
  BY DEF ReadEvents, AddEvidence, ExtractionEnds
<1>2. CASE \E window \in SUBSET Events : ReadEvents(window)
  <2>1. db' = db BY <1>2 DEF ReadEvents
  <2> QED BY <2>1, <1>1, UpkeepKeepsInv
<1>3. CASE \E sources \in SUBSET running, c \in Ids : AddEvidence(c, sources)
  <2>1. PICK sources \in SUBSET running, c \in Ids : AddEvidence(c, sources) BY <1>3
  <2>2. /\ db' = [db EXCEPT !.cites = @ \cup ({c} \X sources)]
        /\ Exists(db, c)
    BY <2>1 DEF AddEvidence, Exists
  <2>3. /\ db' \in Databases
        /\ db'.status = db.status /\ db'.cites = db.cites \cup ({c} \X sources)
        /\ db'.derived = db.derived /\ db'.cases = db.cases
    BY <2>2 DEF Databases
  <2>4. ClaimsExist(db') /\ \A x \in Ids : Exists(db', x) => Exists(db, x)
    BY <2>2, <2>3 DEF ClaimsExist, Exists
  <2> QED BY <2>3, <2>4, <1>1, UpkeepKeepsInv
<1>4. CASE \E again, deferred \in SUBSET running : ExtractionEnds(again, deferred)
  <2>1. PICK again \in SUBSET running, deferred \in SUBSET running :
            ExtractionEnds(again, deferred)
    BY <1>4
  <2>2. /\ db' \in Databases
        /\ db'.status = db.status /\ db'.cites = db.cites
        /\ db'.derived = db.derived /\ db'.cases = db.cases
    BY <2>1 DEF ExtractionEnds, Databases
  <2>3. ClaimsExist(db') /\ \A x \in Ids : Exists(db', x) => Exists(db, x)
    BY <2>2 DEF ClaimsExist, Exists
  <2> QED BY <2>2, <2>3, <1>1, UpkeepKeepsInv
<1> QED BY <1>2, <1>3, <1>4

\* Claims change status, fall into dispute and out of it; none appears.
LEMMA StatusKeepsInv ==
    ASSUME DeletionInv,
           \/ \E c \in Ids, s \in Statuses : ChangeStatus(c, s)
           \/ \E c, d \in Ids : Dispute(c, d)
           \/ \E k \in Ids \X Ids : \E winner \in {k[1], k[2]} : Resolve(k, winner)
    PROVE  DeletionInv'
<1> USE DEF DeletionInv, TypeOK
<1>1. /\ Quiet /\ minted' = minted
      /\ running' \in SUBSET Events /\ erased' \in SUBSET Events
  BY DEF ChangeStatus, Dispute, Resolve
<1>2. CASE \E c \in Ids, s \in Statuses : ChangeStatus(c, s)
  <2>1. PICK c \in Ids, s \in Statuses : ChangeStatus(c, s) BY <1>2
  <2>2. /\ db' \in Databases
        /\ db'.status = [db.status EXCEPT ![c] = s] /\ db'.cites = db.cites
        /\ db'.derived = db.derived /\ db'.cases = db.cases
        /\ Exists(db, c) /\ s # "none"
    BY <2>1 DEF ChangeStatus, Databases, Exists
  <2>3. db.status \in [Ids -> Statuses] /\ db.cites \subseteq Ids \X Events
        /\ db.derived \subseteq Ids \X Ids /\ db.cases \subseteq Ids \X Ids
    BY DEF Databases
  <2>4. \A x \in Ids : Exists(db', x) <=> Exists(db, x)
    BY <2>2, <2>3 DEF Exists
  <2>5. ClaimsExist(db') BY <2>2, <2>3, <2>4 DEF ClaimsExist
  <2> QED BY <2>2, <2>4, <2>5, <1>1, UpkeepKeepsInv
<1>3. CASE \E c, d \in Ids : Dispute(c, d)
  <2>1. PICK c \in Ids, d \in Ids : Dispute(c, d) BY <1>3
  <2>0. [[db.status EXCEPT ![c] = "disputed"] EXCEPT ![d] = "disputed"] \in [Ids -> Statuses]
        /\ {<<c, d>>} \subseteq Ids \X Ids
    BY DEF Databases, Statuses
  <2>2. /\ db' \in Databases
        /\ db'.status = [[db.status EXCEPT ![c] = "disputed"] EXCEPT ![d] = "disputed"]
        /\ db'.cites = db.cites
        /\ db'.derived = db.derived /\ db'.cases = db.cases \cup {<<c, d>>}
        /\ Exists(db, c) /\ Exists(db, d)
    BY <2>0, <2>1 DEF Dispute, Databases, Exists
  <2>3. db.status \in [Ids -> Statuses] /\ db.cites \subseteq Ids \X Events
        /\ db.derived \subseteq Ids \X Ids /\ db.cases \subseteq Ids \X Ids
    BY DEF Databases
  <2>4. \A x \in Ids : Exists(db', x) <=> Exists(db, x)
    BY <2>2, <2>3 DEF Exists
  <2>5. ClaimsExist(db') BY <2>2, <2>3, <2>4 DEF ClaimsExist
  <2> QED BY <2>2, <2>4, <2>5, <1>1, UpkeepKeepsInv
<1>4. CASE \E k \in Ids \X Ids : \E winner \in {k[1], k[2]} : Resolve(k, winner)
  <2>0. PICK k \in Ids \X Ids : \E winner \in {k[1], k[2]} : Resolve(k, winner) BY <1>4
  <2>1. PICK winner \in {k[1], k[2]} : Resolve(k, winner) BY <2>0
  <2>2. /\ db' \in Databases
        /\ db'.status = [c \in Ids |->
                              IF c \notin {k[1], k[2]} \/ db.status[c] # "disputed" THEN db.status[c]
                              ELSE IF c = winner THEN "active" ELSE "inactive"]
        /\ db'.cites = db.cites
        /\ db'.derived = db.derived /\ db'.cases = db.cases \ {k}
    BY <2>1 DEF Resolve, Databases, Statuses
  <2>3. db.status \in [Ids -> Statuses] /\ db.cites \subseteq Ids \X Events
        /\ db.derived \subseteq Ids \X Ids /\ db.cases \subseteq Ids \X Ids
    BY DEF Databases
  <2>4. \A x \in Ids : Exists(db', x) <=> Exists(db, x)
    BY <2>2, <2>3 DEF Exists
  <2>5. ClaimsExist(db') BY <2>2, <2>3, <2>4 DEF ClaimsExist
  <2> QED BY <2>2, <2>4, <2>5, <1>1, UpkeepKeepsInv
<1> QED BY <1>2, <1>3, <1>4

\* Every entry of the ledger names a claim.
LEMMA LedgerNamesClaims ==
    ASSUME ledger \in Seq(Entries)
    PROVE  /\ DOMAIN ledger = 1..Len(ledger)
           /\ \A i \in DOMAIN ledger : ledger[i].claim \in Ids
<1>1. \A i \in DOMAIN ledger : ledger[i] \in Entries OBVIOUS
<1>2. \A x \in Entries : x.claim \in Ids BY DEF Entries
<1> QED BY <1>1, <1>2

\* A new claim has an id nobody had; no entry of the ledger names it.
LEMMA NewClaimKeepsInv ==
    ASSUME DeletionInv, NEW sources \in SUBSET Events, NEW old \in SUBSET Ids,
           NewClaim(sources, old)
    PROVE  DeletionInv'
<1> USE DEF DeletionInv, TypeOK
<1> DEFINE c == minted + 1
<1>1. /\ Quiet /\ minted' = c /\ running' = running /\ erased' = erased
      /\ c \in Ids /\ \A o \in old : Exists(db, o)
  BY DEF NewClaim, Exists
<1>2. /\ db'.status = [d \in Ids |-> IF d = c THEN "active"
                                    ELSE IF d \in old THEN "inactive" ELSE db.status[d]]
      /\ db'.cites = db.cites \cup ({c} \X sources)
      /\ db'.derived = db.derived \cup ({c} \X old)
      /\ db'.cases = db.cases
      /\ db' \in Databases
  <2>1. [d \in Ids |-> IF d = c THEN "active"
                       ELSE IF d \in old THEN "inactive" ELSE db.status[d]] \in [Ids -> Statuses]
        /\ db.cites \cup ({c} \X sources) \in SUBSET (Ids \X Events)
        /\ db.derived \cup ({c} \X old) \in SUBSET (Ids \X Ids)
    BY <1>1 DEF Databases, Statuses
  <2>2. db' = [db EXCEPT
                !.status  = [d \in Ids |-> IF d = c THEN "active"
                                           ELSE IF d \in old THEN "inactive" ELSE db.status[d]],
                !.cites   = db.cites \cup ({c} \X sources),
                !.derived = db.derived \cup ({c} \X old)]
    BY DEF NewClaim, Databases
  <2> QED BY <2>1, <2>2 DEF Databases
<1>3. c \in Nat /\ minted < c /\ c <= MaxClaims /\ minted \in Nat
  BY <1>1, DeletionAssumption DEF Ids
<1> HIDE DEF c
<1>4. \A x \in Ids : Exists(db', x) <=> Exists(db, x) \/ x = c
  BY <1>1, <1>2 DEF Exists
<1>5. TypeOK'
  BY <1>1, <1>2, <1>3 DEF Quiet
<1>6. ClaimsExist(db)'
  <2>1. ASSUME NEW l \in db'.cites PROVE Exists(db', l[1])
    <3>1. l[1] = c \/ (l \in db.cites /\ l[1] \in Ids) BY <2>1, <1>2 DEF Databases
    <3> QED BY <3>1, <1>1, <1>4 DEF ClaimsExist
  <2>2. ASSUME NEW l \in db'.derived \cup db'.cases PROVE Exists(db', l[1]) /\ Exists(db', l[2])
    <3>1. \/ l[1] = c /\ l[2] \in old
          \/ l \in db.derived \cup db.cases /\ l[1] \in Ids /\ l[2] \in Ids
      BY <2>2, <1>2 DEF Databases
    <3> QED BY <3>1, <1>1, <1>4 DEF ClaimsExist
  <2> QED BY <2>1, <2>2 DEF ClaimsExist
<1>7. ClaimsExist(backup.db)' BY <1>1 DEF Quiet, ClaimsExist, Exists
<1>8. OnlyMinted'
  <2>1. \A i \in DOMAIN ledger : ledger[i].claim \in Ids BY LedgerNamesClaims
  <2>2. \A x \in Ids : x > c => x > minted /\ x # c BY <1>3 DEF Ids
  <2>3. \A x \in Ids : x <= minted => x <= c BY <1>3 DEF Ids
  <2>4. \A i \in DOMAIN ledger' : ledger'[i].claim <= minted'
    BY <1>1, <2>1, <2>3 DEF OnlyMinted, Quiet
  <2>5. \A x \in Ids : x > minted' => ~Exists(db', x) /\ ~Exists(backup'.db, x)
    BY <1>1, <1>4, <2>2 DEF OnlyMinted, Quiet
  <2> QED BY <2>4, <2>5 DEF OnlyMinted, Exists
<1>9. ConfirmedIsRecorded' BY <1>1 DEF ConfirmedIsRecorded, Quiet
<1>10. (\A x \in confirmed : ~Exists(db, x))'
  <2>1. c \notin confirmed
    <3>1. \A i \in DOMAIN ledger : ledger[i].claim \in Ids BY LedgerNamesClaims
    <3>2. \A i \in DOMAIN ledger : ledger[i].claim # c
      BY <1>3, <3>1 DEF OnlyMinted, Ids
    <3> QED BY <3>2 DEF ConfirmedIsRecorded
  <2>2. \A x \in confirmed : x \in Ids /\ ~Exists(db, x)
    BY DEF DeletedStaysDeleted
  <2>3. \A x \in confirmed : ~Exists(db', x) BY <2>1, <2>2, <1>4
  <2> QED BY <2>3, <1>1 DEF Quiet, Exists
<1>11. DeletedStaysDeleted' BY <1>6, <1>10, AbsentIsDeleted
<1> QED BY <1>5, <1>6, <1>7, <1>8, <1>9, <1>11

\* The ledger grows by an entry for a claim that had an id.
LEMMA LedgerKeepsInv ==
    ASSUME DeletionInv, NEW c \in Ids, NEW E \in SUBSET Events, Exists(db, c),
           ledger' = Recorded(c, E), UNCHANGED <<minted, backup>>
    PROVE  /\ ledger' \in Seq(Entries)
           /\ \A i \in DOMAIN ledger' : ledger'[i].claim <= minted'
           /\ \A x \in confirmed \cup {c} : \E i \in DOMAIN ledger' : ledger'[i].claim = x
<1> USE DEF DeletionInv, TypeOK
<1>1. c <= minted
  <2>1. ~(c > minted) BY DEF OnlyMinted
  <2> QED BY <2>1, DeletionAssumption DEF Ids
<1>2. /\ ledger' \in Seq(Entries)
      /\ \E i \in DOMAIN ledger' : ledger'[i].claim = c
      /\ \A i \in DOMAIN ledger : \E j \in DOMAIN ledger' : ledger'[j] = ledger[i]
      /\ \A j \in DOMAIN ledger' :
            \/ ledger'[j].claim = c
            \/ \E i \in DOMAIN ledger : ledger'[j] = ledger[i]
  BY RecordedKeeps
<1>3. \A i \in DOMAIN ledger' : ledger'[i].claim <= minted'
  BY <1>1, <1>2 DEF OnlyMinted
<1>4. \A x \in confirmed : \E i \in DOMAIN ledger' : ledger'[i].claim = x
  BY <1>2 DEF ConfirmedIsRecorded
<1> QED BY <1>2, <1>3, <1>4

\* The three entries of the deletion service: the ledger before the database.
LEMMA DeleteKeepsInv ==
    ASSUME DeletionInv, NEW c \in Ids, Exists(db, c), Delete(c) \/ DeletionDies(c)
    PROVE  DeletionInv'
<1> USE DEF DeletionInv, TypeOK
<1> DEFINE E == Exclusive(db, c)
<1>0. E \in SUBSET Events BY DEF Exclusive
<1>1. /\ ledger' = Recorded(c, E)
      /\ UNCHANGED <<running, backup, minted, restores>>
  BY DEF Delete, DeletionDies
<1> HIDE DEF E
<1>2. /\ ledger' \in Seq(Entries)
      /\ \A i \in DOMAIN ledger' : ledger'[i].claim <= minted'
      /\ \A x \in confirmed \cup {c} : \E i \in DOMAIN ledger' : ledger'[i].claim = x
  BY <1>0, <1>1, LedgerKeepsInv
<1>3. CASE Delete(c)
  <2>1. /\ db' = Closure(db, {c}, E) /\ confirmed' = confirmed \cup {c}
        /\ erased' = erased \cup E /\ faults' = faults
    BY <1>3 DEF Delete, E
  <2>2. /\ db' \in Databases /\ ClaimsExist(db')
        /\ \A x \in Ids : Exists(db', x) <=> Exists(db, x) /\ x \notin {c}
    <3>1. {c} \in SUBSET Ids /\ db \in Databases /\ ClaimsExist(db) OBVIOUS
    <3> QED BY <2>1, <3>1, ClosureRemoves
  <2>3. TypeOK' BY <1>0, <1>1, <1>2, <2>1, <2>2
  <2>4. OnlyMinted'
    <3>1. \A x \in Ids : x > minted' => ~Exists(db', x) /\ ~Exists(backup'.db, x)
      BY <1>1, <2>2 DEF OnlyMinted
    <3> QED BY <3>1, <1>2 DEF OnlyMinted, Exists
  <2>5. ConfirmedIsRecorded' BY <1>2, <2>1 DEF ConfirmedIsRecorded
  <2>6. (\A x \in confirmed : ~Exists(db, x))'
    BY <2>1, <2>2 DEF DeletedStaysDeleted, Exists
  <2>7. ClaimsExist(db)' /\ ClaimsExist(backup.db)'
    BY <1>1, <2>2 DEF ClaimsExist, Exists
  <2>8. DeletedStaysDeleted' BY <2>6, <2>7, AbsentIsDeleted
  <2> QED BY <2>3, <2>4, <2>5, <2>7, <2>8
<1>4. CASE DeletionDies(c)
  <2>1. /\ UNCHANGED <<db, confirmed, erased>>
        /\ faults < MaxFaults /\ faults' = faults + 1
    BY <1>4 DEF DeletionDies
  <2>2. TypeOK' BY <1>1, <1>2, <2>1, DeletionAssumption
  <2>3. OnlyMinted' BY <1>1, <1>2, <2>1 DEF OnlyMinted, Exists
  <2>4. ConfirmedIsRecorded' BY <1>2, <2>1 DEF ConfirmedIsRecorded
  <2>5. ClaimsExist(db)' /\ ClaimsExist(backup.db)' /\ DeletedStaysDeleted'
    BY <1>1, <2>1 DEF ClaimsExist, Exists, DeletedStaysDeleted
  <2> QED BY <2>2, <2>3, <2>4, <2>5
<1> QED BY <1>3, <1>4

\* A claim that is gone and in the ledger counts as deleted.
LEMMA AlreadyKeepsInv ==
    ASSUME DeletionInv, NEW c \in Ids, AlreadyDeleted(c)
    PROVE  DeletionInv'
<1> USE DEF DeletionInv, TypeOK
<1>1. /\ UNCHANGED <<db, ledger, running, backup, minted, faults, restores>>
      /\ confirmed' = confirmed \cup {c} /\ ~Exists(db, c)
      /\ \E i \in DOMAIN ledger : ledger[i].claim = c
  BY DEF AlreadyDeleted
<1>2. TypeOK'
  <2>1. PICK i \in DOMAIN ledger : erased' = erased \cup ledger[i].events
    BY DEF AlreadyDeleted
  <2>2. ledger[i] \in Entries OBVIOUS
  <2>3. ledger[i].events \in SUBSET Events BY <2>2 DEF Entries
  <2> QED BY <1>1, <2>1, <2>3
<1>3. ClaimsExist(db)' /\ ClaimsExist(backup.db)' /\ OnlyMinted'
  BY <1>1 DEF ClaimsExist, OnlyMinted, Exists
<1>4. ConfirmedIsRecorded' BY <1>1 DEF ConfirmedIsRecorded
<1>5. (\A x \in confirmed : ~Exists(db, x))' BY <1>1 DEF DeletedStaysDeleted, Exists
<1>6. DeletedStaysDeleted' BY <1>3, <1>5, AbsentIsDeleted
<1> QED BY <1>2, <1>3, <1>4, <1>6

\* Copying and sealing a backup.
LEMMA BackupKeepsInv ==
    ASSUME DeletionInv, CopyDatabase \/ Seal
    PROVE  DeletionInv'
<1> USE DEF DeletionInv, TypeOK
<1>1. /\ UNCHANGED <<db, ledger, running, minted, confirmed, erased, faults, restores>>
      /\ backup' \in [db : Databases, sealed : BOOLEAN]
      /\ backup'.db = db \/ backup'.db = backup.db
  <2>1. CASE CopyDatabase
    <3>1. [db |-> db, sealed |-> FALSE] \in [db : Databases, sealed : BOOLEAN] OBVIOUS
    <3> QED BY <2>1, <3>1 DEF CopyDatabase
  <2>2. CASE Seal BY <2>2 DEF Seal
  <2> QED BY <2>1, <2>2
<1>2. TypeOK' BY <1>1
<1>3. ClaimsExist(db)' /\ ClaimsExist(backup.db)' BY <1>1 DEF ClaimsExist, Exists
<1>4. OnlyMinted' BY <1>1 DEF OnlyMinted, Exists
<1>5. ConfirmedIsRecorded' /\ DeletedStaysDeleted'
  BY <1>1 DEF ConfirmedIsRecorded, DeletedStaysDeleted, Exists
<1> QED BY <1>2, <1>3, <1>4, <1>5

\* A restore removes every claim of the ledger, so every claim whose deletion was
\* answered, whatever the backup holds.
LEMMA RestoreKeepsInv ==
    ASSUME DeletionInv, Restore
    PROVE  DeletionInv'
<1> USE DEF DeletionInv, TypeOK
<1> DEFINE C == ReplayedClaims(Len(ledger))
<1>1. /\ UNCHANGED <<ledger, running, backup, minted, confirmed, erased, faults>>
      /\ restores < MaxRestores /\ restores' = restores + 1
      /\ \E E : db' = Closure(backup.db, C, E)
  BY DEF Restore, Replayed
<1>2. C = {ledger[i].claim : i \in DOMAIN ledger} /\ C \in SUBSET Ids
  <2>1. DOMAIN ledger = 1..Len(ledger) BY LedgerNamesClaims
  <2>2. \A i \in DOMAIN ledger : ledger[i].claim \in Ids BY LedgerNamesClaims
  <2> QED BY <2>1, <2>2 DEF ReplayedClaims
<1> HIDE DEF C
<1>3. /\ db' \in Databases /\ ClaimsExist(db')
      /\ \A x \in Ids : Exists(db', x) <=> Exists(backup.db, x) /\ x \notin C
  <2>1. backup.db \in Databases /\ ClaimsExist(backup.db) OBVIOUS
  <2>2. PICK E : db' = Closure(backup.db, C, E) BY <1>1
  <2> QED BY <2>1, <2>2, <1>2, ClosureRemoves
<1>4. TypeOK' BY <1>1, <1>3, DeletionAssumption
<1>5. ClaimsExist(db)' /\ ClaimsExist(backup.db)'
  BY <1>1, <1>3 DEF ClaimsExist, Exists
<1>6. OnlyMinted'
  <2>1. \A x \in Ids : x > minted' => ~Exists(db', x) /\ ~Exists(backup'.db, x)
    BY <1>1, <1>3 DEF OnlyMinted
  <2> QED BY <2>1, <1>1 DEF OnlyMinted, Exists
<1>7. ConfirmedIsRecorded' BY <1>1 DEF ConfirmedIsRecorded
<1>8. (\A x \in confirmed : ~Exists(db, x))'
  <2>1. confirmed \subseteq C BY <1>2 DEF ConfirmedIsRecorded
  <2> QED BY <2>1, <1>1, <1>3 DEF Exists
<1>9. DeletedStaysDeleted' BY <1>5, <1>8, AbsentIsDeleted
<1> QED BY <1>4, <1>5, <1>6, <1>7, <1>9

\* Every step keeps the invariant.
LEMMA StepKeepsInv == DeletionInv /\ [Next]_vars => DeletionInv'
<1> SUFFICES ASSUME DeletionInv, [Next]_vars PROVE DeletionInv' OBVIOUS
<1>1. CASE \E e \in Events : Ingest(e) \/ EventMissing(e) \/ RetryExtraction(e) \/ Purge(e)
  BY <1>1, EventsKeepInv
<1>2. CASE Extraction
  <2>1. CASE \E sources \in SUBSET running, old \in SUBSET Ids : StoreClaim(sources, old)
    <3>1. PICK sources \in SUBSET running, old \in SUBSET Ids : StoreClaim(sources, old)
      BY <2>1
    <3>2. sources \in SUBSET Events BY <3>1 DEF DeletionInv, TypeOK
    <3> QED BY <3>1, <3>2, NewClaimKeepsInv DEF StoreClaim
  <2> QED BY <1>2, <2>1, ExtractionKeepsInv DEF Extraction
<1>3. CASE \E c \in Ids : DeleteClaim(c) \/ DeleteExpired(c) \/ AlreadyDeleted(c)
  <2>1. PICK c \in Ids : DeleteClaim(c) \/ DeleteExpired(c) \/ AlreadyDeleted(c)
    BY <1>3
  <2>2. CASE AlreadyDeleted(c) BY <2>2, AlreadyKeepsInv
  <2>3. CASE DeleteClaim(c) \/ DeleteExpired(c)
    <3>1. Exists(db, c) /\ (Delete(c) \/ DeletionDies(c))
      BY <2>3 DEF DeleteClaim, DeleteExpired, MayDelete, Deletable, Exists
    <3> QED BY <3>1, DeleteKeepsInv
  <2> QED BY <2>1, <2>2, <2>3
<1>4. CASE \/ \E c \in Ids, s \in Statuses : ChangeStatus(c, s)
           \/ \E c, d \in Ids : Dispute(c, d)
           \/ \E k \in Ids \X Ids : \E winner \in {k[1], k[2]} : Resolve(k, winner)
  BY <1>4, StatusKeepsInv
<1>5. CASE CopyDatabase \/ Seal BY <1>5, BackupKeepsInv
<1>6. CASE Restore BY <1>6, RestoreKeepsInv
<1>7. CASE UNCHANGED vars
  BY <1>7 DEF vars, DeletionInv, TypeOK, ClaimsExist, OnlyMinted, ConfirmedIsRecorded,
              DeletedStaysDeleted, Exists
<1>8. CASE \E old \in Ids : Correct(old)
  <2>1. PICK old \in Ids : NewClaim({}, {old}) BY <1>8 DEF Correct
  <2>2. {} \in SUBSET Events /\ {old} \in SUBSET Ids OBVIOUS
  <2> QED BY <2>1, <2>2, NewClaimKeepsInv
<1> QED BY <1>1, <1>2, <1>3, <1>4, <1>5, <1>6, <1>7, <1>8 DEF Next

\* The invariant holds in every reachable state.
THEOREM DeletionInvariant == Spec => []DeletionInv
<1>1. Init => DeletionInv BY InitInv
<1>2. DeletionInv /\ [Next]_vars => DeletionInv' BY StepKeepsInv
<1> QED BY <1>1, <1>2, PTL DEF Spec

\* A deletion that was answered holds for ever, through crashes, backups and any
\* number of restores (DeletionService._delete_claim, replay_tombstone).
THEOREM DeletionsHold == Spec => []DeletedStaysDeleted
<1>1. DeletionInv => DeletedStaysDeleted BY DEF DeletionInv
<1> QED BY <1>1, DeletionInvariant, PTL

\* The links of a claim that exists can only point nowhere at an event.
LEMMA DanglingIsCited ==
    ASSUME NEW d, ClaimsExist(d)
    PROVE  Dangling(d) = {l \in d.cites : l[2] \notin d.events}
BY DEF Dangling, ClaimsExist

\* An event only leaves the database together with the claims that cite it, and a
\* link only appears while an extraction runs.
LEMMA EventsLeaveUncited ==
    ASSUME DeletionInv, [Next]_vars, ~Restore
    PROVE  /\ db'.cites \subseteq db.cites \/ running # {}
           /\ \A l \in db.cites \cap db'.cites : l[2] \in db.events => l[2] \in db'.events
<1> USE DEF DeletionInv, TypeOK
<1>0. db \in Databases OBVIOUS
<1>1. CASE \E e \in Events : Ingest(e) \/ EventMissing(e) \/ RetryExtraction(e) \/ Purge(e)
  <2>1. PICK e \in Events : Ingest(e) \/ EventMissing(e) \/ RetryExtraction(e) \/ Purge(e)
    BY <1>1
  <2>2. CASE Ingest(e) BY <2>2, <1>0 DEF Ingest, Databases
  <2>3. CASE EventMissing(e) BY <2>3, <1>0 DEF EventMissing, Databases
  <2>4. CASE RetryExtraction(e) BY <2>4, <1>0 DEF RetryExtraction, Databases
  <2>5. CASE Purge(e)
    <3>1. db'.cites = db.cites /\ db'.events = db.events \ {e} /\ Citers(db, e) = {}
      BY <2>5, <1>0 DEF Purge, Databases
    <3>2. \A l \in db.cites : l[1] \in Ids /\ l = <<l[1], l[2]>> BY <1>0 DEF Databases
    <3> QED BY <3>1, <3>2 DEF Citers
  <2> QED BY <2>1, <2>2, <2>3, <2>4, <2>5
<1>2. CASE Extraction
  <2>1. CASE \E window \in SUBSET Events : ReadEvents(window) BY <2>1 DEF ReadEvents
  <2>2. CASE \E sources \in SUBSET running, old \in SUBSET Ids : StoreClaim(sources, old)
    <3>1. running # {} BY <2>2 DEF StoreClaim
    <3>2. db'.events = db.events BY <2>2, <1>0 DEF StoreClaim, NewClaim, Databases
    <3> QED BY <3>1, <3>2
  <2>3. CASE \E sources \in SUBSET running, c \in Ids : AddEvidence(c, sources)
    <3>1. running # {} BY <2>3 DEF AddEvidence
    <3>2. db'.events = db.events BY <2>3, <1>0 DEF AddEvidence, Databases
    <3> QED BY <3>1, <3>2
  <2>4. CASE \E again, deferred \in SUBSET running : ExtractionEnds(again, deferred)
    BY <2>4, <1>0 DEF ExtractionEnds, Databases
  <2> QED BY <1>2, <2>1, <2>2, <2>3, <2>4 DEF Extraction
<1>3. CASE \E c \in Ids : DeleteClaim(c) \/ DeleteExpired(c) \/ AlreadyDeleted(c)
  <2>1. PICK c \in Ids : DeleteClaim(c) \/ DeleteExpired(c) \/ AlreadyDeleted(c) BY <1>3
  <2>2. CASE Delete(c)
    <3>1. /\ db'.cites = {l \in db.cites : l[1] \notin {c}}
          /\ db'.events = db.events \ Exclusive(db, c)
      BY <2>2, <1>0 DEF Delete, Closure, Databases
    <3>2. \A l \in db.cites : l[1] \in Ids /\ l = <<l[1], l[2]>> BY <1>0 DEF Databases
    <3>3. \A l \in db.cites : l[2] \in Exclusive(db, c) => l[1] = c
      BY <3>2 DEF Exclusive, Citers
    <3> QED BY <3>1, <3>3
  <2>3. CASE DeletionDies(c) \/ AlreadyDeleted(c)
    BY <2>3 DEF DeletionDies, AlreadyDeleted
  <2> QED BY <2>1, <2>2, <2>3 DEF DeleteClaim, DeleteExpired
<1>4. CASE \E c \in Ids, s \in Statuses : ChangeStatus(c, s)
  BY <1>4, <1>0 DEF ChangeStatus, Databases
<1>5. CASE \E c, d \in Ids : Dispute(c, d)
  BY <1>5, <1>0 DEF Dispute, Databases
<1>6. CASE \E k \in Ids \X Ids : \E winner \in {k[1], k[2]} : Resolve(k, winner)
  BY <1>6, <1>0 DEF Resolve, Databases
<1>7. CASE CopyDatabase \/ Seal \/ UNCHANGED vars
  BY <1>7 DEF CopyDatabase, Seal, vars
<1>8. CASE \E old \in Ids : Correct(old)
  <2>1. PICK old \in Ids : NewClaim({}, {old}) BY <1>8 DEF Correct
  <2>2. db'.events = db.events /\ db'.cites = db.cites
    BY <2>1, <1>0 DEF NewClaim, Databases
  <2> QED BY <2>2
<1> QED BY <1>1, <1>2, <1>3, <1>4, <1>5, <1>6, <1>7, <1>8 DEF Next

\* A restore adds no link that points nowhere in the backup, too.
LEMMA RestoreKeepsLinks ==
    ASSUME DeletionInv, DeletionInv', Restore
    PROVE  Dangling(db') \subseteq Dangling(backup.db)
<1> USE DEF DeletionInv, TypeOK
<1> DEFINE C == ReplayedClaims(Len(ledger))
           E == UNION {ReplayedEvents(backup.db, n) : n \in DOMAIN ledger}
<1>1. backup.db \in Databases OBVIOUS
<1>2. /\ db'.cites = {l \in backup.db.cites : l[1] \notin C}
      /\ db'.events = backup.db.events \ E
  BY <1>1 DEF Restore, Replayed, Closure, Databases
<1>3. \A l \in backup.db.cites : l[1] \in Ids /\ l = <<l[1], l[2]>>
  BY <1>1 DEF Databases
<1>4. \A l \in backup.db.cites : l[2] \in E => l[1] \in C
  <2> SUFFICES ASSUME NEW l \in backup.db.cites, NEW n \in DOMAIN ledger,
                      l[2] \in ReplayedEvents(backup.db, n)
               PROVE  l[1] \in C
    OBVIOUS
  <2>1. l[1] \in ReplayedClaims(n) BY <1>3 DEF ReplayedEvents, Citers
  <2>2. n \in 1..Len(ledger) /\ Len(ledger) \in Nat BY LedgerNamesClaims
  <2>3. ReplayedClaims(n) \subseteq C BY <2>2 DEF ReplayedClaims
  <2> QED BY <2>1, <2>3
<1> HIDE DEF C, E
<1>5. Dangling(db') = {l \in db'.cites : l[2] \notin db'.events}
  <2>1. ClaimsExist(db') BY DEF ClaimsExist, Exists
  <2> QED BY <2>1, DanglingIsCited
<1>6. Dangling(backup.db) = {l \in backup.db.cites : l[2] \notin backup.db.events}
  BY DanglingIsCited
<1> QED BY <1>2, <1>4, <1>5, <1>6

\* No deletion, no retention pass and no restore leaves evidence that points
\* nowhere (_exclusive_event_ids, purge_retained_events, replay_tombstone): only
\* what a running extraction stores may cite an event deleted since.
THEOREM LateClaimsDangle == Spec => OnlyLateClaimsDangle
<1>1. ASSUME DeletionInv, DeletionInv', [Next]_vars
      PROVE  \A l \in Dangling(db') :
                \/ l \in Dangling(db) \cup Dangling(backup.db)
                \/ l \notin db.cites /\ running # {}
  <2>1. CASE Restore BY <2>1, <1>1, RestoreKeepsLinks
  <2>2. CASE ~Restore
    <3>1. /\ db'.cites \subseteq db.cites \/ running # {}
          /\ \A l \in db.cites \cap db'.cites : l[2] \in db.events => l[2] \in db'.events
      BY <1>1, <2>2, EventsLeaveUncited
    <3>2. Dangling(db) = {l \in db.cites : l[2] \notin db.events}
      BY <1>1, DanglingIsCited DEF DeletionInv
    <3>3. Dangling(db') = {l \in db'.cites : l[2] \notin db'.events}
      <4>1. ClaimsExist(db') BY <1>1 DEF DeletionInv, ClaimsExist, Exists
      <4> QED BY <4>1, DanglingIsCited
    <3> QED BY <3>1, <3>2, <3>3
  <2> QED BY <2>1, <2>2
<1>2. DeletionInv /\ DeletionInv' /\ [Next]_vars
        => [\A l \in Dangling(db') :
              \/ l \in Dangling(db) \cup Dangling(backup.db)
              \/ l \notin db.cites /\ running # {}]_vars
  BY <1>1
<1> QED BY <1>2, DeletionInvariant, PTL DEF Spec, OnlyLateClaimsDangle

\* What leaves disputes and their cases alone makes no orphan.
LEMMA DisputesStand ==
    ASSUME db \in Databases, db'.cases = db.cases,
           \A c \in Ids : db'.status[c] = "disputed" => db.status[c] = "disputed"
    PROVE  Orphans(db') \subseteq Orphans(db)
BY DEF Orphans, InOpenCase

\* A deletion never takes a side of an open case (_assert_deletable).
LEMMA DeletionKeepsDisputes ==
    ASSUME db \in Databases, NEW c \in Ids, ~InOpenCase(db, c), Delete(c)
    PROVE  Orphans(db') \subseteq Orphans(db)
<1>1. /\ db'.cases = {k \in db.cases : {k[1], k[2]} \cap {c} = {}}
      /\ db'.status = [x \in Ids |-> IF x \in {c} THEN "none" ELSE db.status[x]]
  BY DEF Delete, Closure, Databases
<1>2. \A k \in db.cases : k[1] # c /\ k[2] # c BY DEF InOpenCase
<1>3. db'.cases = db.cases BY <1>1, <1>2
<1>4. \A x \in Ids : db'.status[x] = "disputed" => db.status[x] = "disputed"
  BY <1>1
<1> QED BY <1>3, <1>4, DisputesStand

\* Only the replay on an old backup leaves a disputed claim without its case: no
\* other step closes a case and leaves a side disputed (_assert_deletable,
\* ConflictService).
THEOREM ReplayOrphans == Spec => OnlyReplayOrphans
<1>1. ASSUME DeletionInv, [Next]_vars
      PROVE  Orphans(db') \subseteq Orphans(db) \/ restores' # restores
  <2>0. db \in Databases /\ restores \in Nat
    BY <1>1, DeletionAssumption DEF DeletionInv, TypeOK
  <2>1. CASE \E e \in Events : Ingest(e) \/ EventMissing(e) \/ RetryExtraction(e) \/ Purge(e)
    <3>1. db'.cases = db.cases /\ db'.status = db.status
      BY <2>0, <2>1 DEF Ingest, EventMissing, RetryExtraction, Purge, Databases
    <3> QED BY <2>0, <3>1, DisputesStand
  <2>2. CASE Extraction
    <3>1. CASE \E window \in SUBSET Events : ReadEvents(window)
      BY <3>1, <2>0, DisputesStand DEF ReadEvents
    <3>2. CASE \E sources \in SUBSET running, old \in SUBSET Ids : StoreClaim(sources, old)
      <4>1. PICK sources \in SUBSET running, old \in SUBSET Ids : StoreClaim(sources, old)
        BY <3>2
      <4>2. /\ db'.cases = db.cases
            /\ db'.status = [d \in Ids |-> IF d = minted + 1 THEN "active"
                                          ELSE IF d \in old THEN "inactive" ELSE db.status[d]]
        BY <4>1, <2>0 DEF StoreClaim, NewClaim, Databases
      <4> QED BY <4>2, <2>0, DisputesStand
    <3>3. CASE \E sources \in SUBSET running, c \in Ids : AddEvidence(c, sources)
      <4>1. db'.cases = db.cases /\ db'.status = db.status
        BY <3>3, <2>0 DEF AddEvidence, Databases
      <4> QED BY <4>1, <2>0, DisputesStand
    <3>4. CASE \E again, deferred \in SUBSET running : ExtractionEnds(again, deferred)
      <4>1. db'.cases = db.cases /\ db'.status = db.status
        BY <3>4, <2>0 DEF ExtractionEnds, Databases
      <4> QED BY <4>1, <2>0, DisputesStand
    <3> QED BY <2>2, <3>1, <3>2, <3>3, <3>4 DEF Extraction
  <2>3. CASE \E c \in Ids : DeleteClaim(c) \/ DeleteExpired(c) \/ AlreadyDeleted(c)
    <3>1. PICK c \in Ids : DeleteClaim(c) \/ DeleteExpired(c) \/ AlreadyDeleted(c) BY <2>3
    <3>2. CASE Delete(c) /\ ~InOpenCase(db, c)
      BY <3>2, <2>0, DeletionKeepsDisputes
    <3>3. CASE db' = db BY <3>3, <2>0, DisputesStand
    <3> QED
      BY <3>1, <3>2, <3>3 DEF DeleteClaim, DeleteExpired, MayDelete, DeletionDies, AlreadyDeleted
  <2>4. CASE \E c \in Ids, s \in Statuses : ChangeStatus(c, s)
    <3>1. PICK c \in Ids, s \in Statuses : ChangeStatus(c, s) BY <2>4
    <3>2. db'.cases = db.cases /\ db'.status = [db.status EXCEPT ![c] = s] /\ s # "disputed"
      BY <3>1, <2>0 DEF ChangeStatus, Databases
    <3>3. db.status \in [Ids -> Statuses] BY <2>0 DEF Databases
    <3> QED BY <3>2, <3>3, <2>0, DisputesStand
  <2>5. CASE \E c, d \in Ids : Dispute(c, d)
    <3>1. PICK c \in Ids, d \in Ids : Dispute(c, d) BY <2>5
    <3>2. /\ db'.cases = db.cases \cup {<<c, d>>}
          /\ db'.status = [[db.status EXCEPT ![c] = "disputed"] EXCEPT ![d] = "disputed"]
      BY <3>1, <2>0 DEF Dispute, Databases
    <3>3. db.status \in [Ids -> Statuses] BY <2>0 DEF Databases
    <3>4. \A x \in Ids : InOpenCase(db, x) => InOpenCase(db', x)
      BY <3>2 DEF InOpenCase
    <3>5. InOpenCase(db', c) /\ InOpenCase(db', d)
      <4>1. <<c, d>> \in db'.cases BY <3>2
      <4> QED BY <4>1 DEF InOpenCase
    <3>6. \A x \in Ids \ {c, d} : db'.status[x] = db.status[x] BY <3>2, <3>3
    <3> QED BY <3>4, <3>5, <3>6 DEF Orphans
  <2>6. CASE \E k \in Ids \X Ids : \E winner \in {k[1], k[2]} : Resolve(k, winner)
    <3>1. PICK k \in Ids \X Ids : \E winner \in {k[1], k[2]} : Resolve(k, winner) BY <2>6
    <3>2. PICK winner \in {k[1], k[2]} : Resolve(k, winner) BY <3>1
    <3>3. /\ db'.cases = db.cases \ {k}
          /\ db'.status = [c \in Ids |->
                              IF c \notin {k[1], k[2]} \/ db.status[c] # "disputed" THEN db.status[c]
                              ELSE IF c = winner THEN "active" ELSE "inactive"]
      BY <3>2, <2>0 DEF Resolve, Databases
    <3>4. \A x \in Ids : db'.status[x] = "disputed"
                        => db.status[x] = "disputed" /\ x \notin {k[1], k[2]}
      BY <3>3
    <3>5. \A x \in Ids : InOpenCase(db, x) /\ x \notin {k[1], k[2]} => InOpenCase(db', x)
      BY <3>3 DEF InOpenCase
    <3> QED BY <3>4, <3>5 DEF Orphans
  <2>7. CASE CopyDatabase \/ Seal \/ UNCHANGED vars
    BY <2>7, <2>0, DisputesStand DEF CopyDatabase, Seal, vars
  <2>8. CASE Restore BY <2>8, <2>0 DEF Restore
  <2>9. CASE \E old \in Ids : Correct(old)
    <3>1. PICK old \in Ids : NewClaim({}, {old}) BY <2>9 DEF Correct
    <3>2. /\ db'.cases = db.cases
          /\ db'.status = [d \in Ids |-> IF d = minted + 1 THEN "active"
                                        ELSE IF d \in {old} THEN "inactive" ELSE db.status[d]]
      BY <3>1, <2>0 DEF NewClaim, Databases
    <3> QED BY <3>2, <2>0, DisputesStand
  <2> QED BY <1>1, <2>1, <2>2, <2>3, <2>4, <2>5, <2>6, <2>7, <2>8, <2>9 DEF Next
<1>2. DeletionInv /\ [Next]_vars
        => [Orphans(db') \subseteq Orphans(db) \/ restores' # restores]_vars
  BY <1>1
<1> QED BY <1>2, DeletionInvariant, PTL DEF Spec, OnlyReplayOrphans

\* The entry of a deletion is in the ledger, written now or by an attempt that died
\* (record_deletion).
LEMMA RecordedHasEntry ==
    ASSUME ledger \in Seq(Entries), NEW c \in Ids, NEW E \in SUBSET Events
    PROVE  \E j \in DOMAIN Recorded(c, E) : Recorded(c, E)[j].events = E
<1> DEFINE entry == [claim |-> c, events |-> E]
<1>1. entry \in Entries /\ entry.events = E BY DEF Entries
<1>2. CASE \E i \in DOMAIN ledger : ledger[i] = entry
  BY <1>1, <1>2 DEF Recorded
<1>3. CASE ~\E i \in DOMAIN ledger : ledger[i] = entry
  <2>1. Recorded(c, E) = Append(ledger, entry) BY <1>3 DEF Recorded
  <2> HIDE DEF entry
  <2>2. /\ DOMAIN Append(ledger, entry) = 1..(Len(ledger) + 1)
        /\ Len(ledger) \in Nat
        /\ Append(ledger, entry)[Len(ledger) + 1] = entry
    BY <1>1
  <2>3. Len(ledger) + 1 \in DOMAIN Append(ledger, entry) BY <2>2
  <2> QED BY <1>1, <2>1, <2>2, <2>3
<1> QED BY <1>2, <1>3

\* Both ways a deletion can go leave an entry for the events it erases, and keep
\* those of the deletions before it.
LEMMA DeletionRecordsEvents ==
    ASSUME DeletionInv, ErasedIsRecorded, NEW c \in Ids, Delete(c) \/ DeletionDies(c)
    PROVE  ErasedIsRecorded'
<1> USE DEF DeletionInv, TypeOK
<1> DEFINE E == Exclusive(db, c)
<1>1. E \in SUBSET Events BY DEF Exclusive
<1>2. ledger' = Recorded(c, E) /\ erased' \subseteq erased \cup E
  BY DEF Delete, DeletionDies
<1> HIDE DEF E
<1>3. \E j \in DOMAIN ledger' : ledger'[j].events = E
  BY <1>1, <1>2, RecordedHasEntry
<1>4. \A i \in DOMAIN ledger : \E j \in DOMAIN ledger' : ledger'[j] = ledger[i]
  BY <1>1, <1>2, RecordedKeeps
<1>5. ASSUME NEW e \in erased' PROVE \E j \in DOMAIN ledger' : e \in ledger'[j].events
  <2>1. CASE e \in E BY <2>1, <1>3
  <2>2. CASE e \in erased
    <3>1. PICK i \in DOMAIN ledger : e \in ledger[i].events
      BY <2>2 DEF ErasedIsRecorded
    <3> QED BY <3>1, <1>4
  <2> QED BY <1>2, <2>1, <2>2
<1> QED BY <1>5 DEF ErasedIsRecorded

\* No other step writes the ledger, and a repeated deletion answers from it.
LEMMA StepKeepsErased == DeletionInv /\ ErasedIsRecorded /\ [Next]_vars => ErasedIsRecorded'
<1> SUFFICES ASSUME DeletionInv, ErasedIsRecorded, [Next]_vars PROVE ErasedIsRecorded'
  OBVIOUS
<1>1. CASE \E c \in Ids : Delete(c) \/ DeletionDies(c)
  BY <1>1, DeletionRecordsEvents
<1>2. CASE ledger' = ledger /\ erased' \subseteq erased
  BY <1>2 DEF ErasedIsRecorded
<1>3. CASE \E e \in Events : Ingest(e) \/ EventMissing(e) \/ RetryExtraction(e) \/ Purge(e)
  BY <1>2, <1>3 DEF Ingest, EventMissing, RetryExtraction, Purge, Quiet
<1>4. CASE Extraction
  BY <1>2, <1>4 DEF Extraction, ReadEvents, StoreClaim, NewClaim, AddEvidence,
                    ExtractionEnds, Quiet
<1>5. CASE \E c \in Ids : DeleteClaim(c) \/ DeleteExpired(c) \/ AlreadyDeleted(c)
  <2>1. CASE \E c \in Ids : AlreadyDeleted(c)
    BY <2>1 DEF AlreadyDeleted, ErasedIsRecorded
  <2> QED BY <1>1, <1>5, <2>1 DEF DeleteClaim, DeleteExpired
<1>6. CASE \/ \E old \in Ids : Correct(old)
           \/ \E c \in Ids, s \in Statuses : ChangeStatus(c, s)
           \/ \E c, d \in Ids : Dispute(c, d)
           \/ \E k \in Ids \X Ids : \E winner \in {k[1], k[2]} : Resolve(k, winner)
  BY <1>2, <1>6 DEF Correct, NewClaim, ChangeStatus, Dispute, Resolve, Quiet
<1>7. CASE CopyDatabase \/ Seal \/ Restore \/ UNCHANGED vars
  BY <1>2, <1>7 DEF CopyDatabase, Seal, Restore, vars
<1> QED BY <1>3, <1>4, <1>5, <1>6, <1>7 DEF Next

\* Every event whose deletion was answered is in an entry of the ledger, whatever
\* died in between (the write order of _delete_claim).
THEOREM ErasureIsRecorded == Spec => []ErasedIsRecorded
<1>1. Init => ErasedIsRecorded BY DEF Init, ErasedIsRecorded
<1>2. DeletionInv /\ ErasedIsRecorded /\ [Next]_vars => ErasedIsRecorded'
  BY StepKeepsErased
<1> QED BY <1>1, <1>2, DeletionInvariant, PTL DEF Spec

\* Outside a restore an event only appears by being ingested, and then it no
\* longer counts as deleted.
LEMMA OnlyIngestAdds ==
    ASSUME DeletionInv, [Next]_vars, ~Restore, NEW e \in db'.events \ db.events
    PROVE  e \notin erased'
<1> USE DEF DeletionInv, TypeOK
<1>0. db \in Databases OBVIOUS
<1>1. CASE \E x \in Events : Ingest(x) \/ EventMissing(x) \/ RetryExtraction(x) \/ Purge(x)
  <2>1. PICK x \in Events : Ingest(x) \/ EventMissing(x) \/ RetryExtraction(x) \/ Purge(x)
    BY <1>1
  <2>2. CASE Ingest(x)
    <3>1. db'.events = db.events \cup {x} /\ erased' = erased \ {x}
      BY <2>2, <1>0 DEF Ingest, Databases
    <3> QED BY <3>1
  <2>3. CASE EventMissing(x) BY <2>3, <1>0 DEF EventMissing, Databases
  <2>4. CASE RetryExtraction(x) BY <2>4, <1>0 DEF RetryExtraction, Databases
  <2>5. CASE Purge(x) BY <2>5, <1>0 DEF Purge, Databases
  <2> QED BY <2>1, <2>2, <2>3, <2>4, <2>5
<1>2. CASE Extraction
  <2>1. CASE \E window \in SUBSET Events : ReadEvents(window) BY <2>1 DEF ReadEvents
  <2>2. CASE \E sources \in SUBSET running, old \in SUBSET Ids : StoreClaim(sources, old)
    BY <2>2, <1>0 DEF StoreClaim, NewClaim, Databases
  <2>3. CASE \E sources \in SUBSET running, c \in Ids : AddEvidence(c, sources)
    BY <2>3, <1>0 DEF AddEvidence, Databases
  <2>4. CASE \E again, deferred \in SUBSET running : ExtractionEnds(again, deferred)
    BY <2>4, <1>0 DEF ExtractionEnds, Databases
  <2> QED BY <1>2, <2>1, <2>2, <2>3, <2>4 DEF Extraction
<1>3. CASE \E c \in Ids : DeleteClaim(c) \/ DeleteExpired(c) \/ AlreadyDeleted(c)
  <2>1. PICK c \in Ids : DeleteClaim(c) \/ DeleteExpired(c) \/ AlreadyDeleted(c) BY <1>3
  <2>2. CASE Delete(c) BY <2>2, <1>0 DEF Delete, Closure, Databases
  <2>3. CASE DeletionDies(c) \/ AlreadyDeleted(c)
    BY <2>3 DEF DeletionDies, AlreadyDeleted
  <2> QED BY <2>1, <2>2, <2>3 DEF DeleteClaim, DeleteExpired
<1>4. CASE \E c \in Ids, s \in Statuses : ChangeStatus(c, s)
  BY <1>4, <1>0 DEF ChangeStatus, Databases
<1>5. CASE \E c, d \in Ids : Dispute(c, d)
  BY <1>5, <1>0 DEF Dispute, Databases
<1>6. CASE \E k \in Ids \X Ids : \E winner \in {k[1], k[2]} : Resolve(k, winner)
  BY <1>6, <1>0 DEF Resolve, Databases
<1>7. CASE CopyDatabase \/ Seal \/ UNCHANGED vars
  BY <1>7 DEF CopyDatabase, Seal, vars
<1>8. CASE \E old \in Ids : Correct(old)
  <2>1. PICK old \in Ids : NewClaim({}, {old}) BY <1>8 DEF Correct
  <2> QED BY <2>1, <1>0 DEF NewClaim, Databases
<1> QED BY <1>1, <1>2, <1>3, <1>4, <1>5, <1>6, <1>7, <1>8 DEF Next

\* An event that a restore brings back although the ledger has its entry was spared
\* at that entry: for a retry, which no replay takes away; for a claim that stays;
\* or for a claim whose own entry comes later (replay_tombstone).
LEMMA ReplaySpares ==
    ASSUME DeletionInv, ErasedIsRecorded, Restore, NEW e \in erased, e \in db'.events
    PROVE  Spared(db', e) \/ Overtaken(e)
<1> USE DEF DeletionInv, TypeOK
<1> DEFINE b == backup.db
           C == ReplayedClaims(Len(ledger))
           E == UNION {ReplayedEvents(b, n) : n \in DOMAIN ledger}
<1>0. b \in Databases /\ e \in Events /\ DOMAIN ledger = 1..Len(ledger)
      /\ Len(ledger) \in Nat /\ \A i \in DOMAIN ledger : ledger[i].claim \in Ids
  BY LedgerNamesClaims
<1>1. /\ db'.cites = {l \in b.cites : l[1] \notin C}
      /\ db'.events = b.events \ E
      /\ db'.task = b.task
  BY <1>0 DEF Restore, Replayed, Closure, Databases
<1>2. PICK i \in DOMAIN ledger : e \in ledger[i].events
  BY DEF ErasedIsRecorded
<1>3. e \notin ReplayedEvents(b, i)
  BY <1>1, <1>2
<1>4. Pending(b, e) \/ \E c \in Citers(b, e) : c \notin ReplayedClaims(i)
  BY <1>2, <1>3 DEF ReplayedEvents
<1>5. CASE Pending(b, e)
  BY <1>1, <1>5 DEF Spared, Pending
<1>6. CASE \E c \in Citers(b, e) : c \notin ReplayedClaims(i)
  <2>1. PICK c \in Citers(b, e) : c \notin ReplayedClaims(i) BY <1>6
  <2>2. CASE c \in C
    <3>1. PICK j \in 1..Len(ledger) : ledger[j].claim = c
      BY <2>2 DEF ReplayedClaims
    <3>2. j \notin 1..i BY <2>1, <3>1 DEF ReplayedClaims
    <3>3. i < j BY <1>0, <3>1, <3>2
    <3> QED BY <1>0, <1>2, <2>1, <3>1, <3>3 DEF Overtaken
  <2>3. CASE c \notin C
    <3>1. c \in Ids /\ <<c, e>> \in b.cites BY <2>1 DEF Citers
    <3>2. <<c, e>> \in db'.cites BY <1>1, <2>3, <3>1
    <3>3. c \in Citers(db', e) BY <3>1, <3>2 DEF Citers
    <3> QED BY <3>3 DEF Spared
  <2> QED BY <2>2, <2>3
<1> QED BY <1>4, <1>5, <1>6

\* An event whose deletion was answered comes back through nothing but a restore,
\* and then because the backup has a retry or a living claim that needs it, or its
\* entry is overtaken (record_deletion, replay_tombstone).
THEOREM ErasedEventsStayAway == Spec => ErasedComesBackSpared
<1>1. ASSUME DeletionInv, ErasedIsRecorded, [Next]_vars
      PROVE  \A e \in erased \cap erased' :
                e \in db'.events \ db.events =>
                  restores' # restores /\ (Spared(db', e) \/ Overtaken(e))
  <2> SUFFICES ASSUME NEW e \in erased \cap erased', e \in db'.events \ db.events
               PROVE  restores' # restores /\ (Spared(db', e) \/ Overtaken(e))
    OBVIOUS
  <2>1. Restore BY <1>1, OnlyIngestAdds
  <2>2. restores' # restores
    <3>1. restores \in Nat BY <1>1, DeletionAssumption DEF DeletionInv, TypeOK
    <3> QED BY <2>1, <3>1 DEF Restore
  <2>3. Spared(db', e) \/ Overtaken(e) BY <1>1, <2>1, ReplaySpares
  <2> QED BY <2>2, <2>3
<1>2. DeletionInv /\ ErasedIsRecorded /\ [Next]_vars
        => [\A e \in erased \cap erased' :
               e \in db'.events \ db.events =>
                 restores' # restores /\ (Spared(db', e) \/ Overtaken(e))]_vars
  BY <1>1
<1> QED BY <1>2, DeletionInvariant, ErasureIsRecorded, PTL DEF Spec, ErasedComesBackSpared
=============================================================================
