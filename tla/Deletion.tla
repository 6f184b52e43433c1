------------------------------ MODULE Deletion ------------------------------
(***************************************************************************)
(* Physical deletion and what a restore may bring back.  A claim is deleted *)
(* with its closure in one transaction (application/deletion.py) after the  *)
(* deletion was written to a ledger in a database file of its own           *)
(* (storage/tombstones.py); retention removes events nobody cites           *)
(* (security/retention.py); a backup copies the database and seals the copy *)
(* with a manifest (storage/backup.py); a restore replays the whole ledger  *)
(* on a private copy of the backup and only then exposes it                 *)
(* (application/restore.py).  Beside all this extractions read events and   *)
(* store claims later, and their retries wait in deferred_tasks.            *)
(***************************************************************************)
EXTENDS Integers, Sequences, FiniteSets

CONSTANTS
    Events,
    MaxClaims,      \* bound: claims ever stored
    MaxFaults,      \* bound: deaths during a deletion or an extraction
    MaxRestores     \* bound: restores, and no copy is taken after the last

ASSUME DeletionAssumption ==
    MaxClaims \in Nat /\ MaxFaults \in Nat /\ MaxRestores \in Nat

VARIABLES
    db,         \* the main database
    ledger,     \* the tombstones in the order of their clock
    running,    \* the events a running extraction has read, or none
    backup,     \* the copy of the database that is kept, and whether its
                \* manifest was written
    minted,     \* claim ids handed out so far, by any history of the database
    confirmed,  \* claims whose deletion was answered to the caller
    erased,     \* events a caller was told are deleted, until one is ingested again
    faults, restores

vars == <<db, ledger, running, backup, minted, confirmed, erased, faults, restores>>

\* Claim ids are random and never used twice; they are numbered as handed out.
Ids == 1..MaxClaims

\* inactive stands for superseded, archived and retracted, which deletion
\* treats alike; disputed stands for candidate, too.
Statuses == {"none", "active", "inactive", "disputed", "expired"}
Deletable == {"active", "inactive"}

Databases ==
    [status  : [Ids -> Statuses],           \* claims
     cites   : SUBSET (Ids \X Events),      \* evidence_links to events
     derived : SUBSET (Ids \X Ids),         \* evidence_links to claims
     cases   : SUBSET (Ids \X Ids),         \* open conflict cases, left and right
     events  : SUBSET Events,
     task    : [Events -> {"none", "pending", "over"}],    \* deferred_tasks
     jobs    : SUBSET Events,               \* unfinished extraction jobs
     keys    : SUBSET Events]               \* idempotency keys extract:<id>

Entries == [claim : Ids, events : SUBSET Events]

Exists(d, c) == d.status[c] # "none"
Citers(d, e) == {c \in Ids : <<c, e>> \in d.cites}
Pending(d, e) == d.task[e] = "pending"
InOpenCase(d, c) == \E k \in d.cases : c \in {k[1], k[2]}

\* _delete_closure on a set of claims and of events.
Closure(d, C, E) ==
    [d EXCEPT
        !.status  = [c \in Ids |-> IF c \in C THEN "none" ELSE @[c]],
        !.cites   = {l \in @ : l[1] \notin C},
        !.derived = {l \in @ : {l[1], l[2]} \cap C = {}},
        !.cases   = {k \in @ : {k[1], k[2]} \cap C = {}},
        !.events  = @ \ E]

\* The clause for other citers left out.
ExclusiveOrShared(d, c) == {e \in Events : c \in Citers(d, e) /\ ~Pending(d, e)}

\* _exclusive_event_ids: cited by no other claim and awaited by no retry.  It
\* asks the links, not whether the event is still there.
Exclusive(d, c) == {e \in Events : Citers(d, e) = {c} /\ ~Pending(d, e)}

\* record_deletion is idempotent by the ids in the entry.
Recorded(c, E) ==
    LET entry == [claim |-> c, events |-> E]
    IN  IF \E i \in DOMAIN ledger : ledger[i] = entry THEN ledger ELSE Append(ledger, entry)
-----------------------------------------------------------------------------
(* Ingestion and extraction *)

Quiet == UNCHANGED <<ledger, backup, confirmed, faults, restores>>

\* ingest_batch: the caller may choose the id of a deleted event again.  The job
\* of the first time stays behind under the key of the event.
Ingest(e) ==
    /\ e \notin db.events
    /\ db' = [db EXCEPT !.events = @ \cup {e},
                        !.jobs = @ \cup ({e} \ db.keys),
                        !.keys = @ \cup {e}]
    /\ erased' = erased \ {e}
    /\ Quiet /\ UNCHANGED <<running, minted>>

\* A worker leases the jobs of a window and reads its events.
ReadEvents(window) ==
    /\ running = {}
    /\ window # {}
    /\ window \subseteq db.jobs \cap db.events
    /\ running' = window
    /\ Quiet /\ UNCHANGED <<db, minted, erased>>

\* ... or one of them is gone: the job fails until it is dead, and with it the retry.
EventMissing(e) ==
    /\ e \in db.jobs \ (db.events \cup running)
    /\ db' = [db EXCEPT !.jobs = @ \ {e},
                        !.task[e] = IF @ = "pending" THEN "over" ELSE @]
    /\ Quiet /\ UNCHANGED <<running, minted, erased>>

\* A new claim with its evidence takes the place of an active one, if any
\* (insert_claim, supersede_with_inline).
NewClaim(sources, old) ==
    LET c == minted + 1 IN
    /\ c \in Ids
    /\ \A o \in old : db.status[o] = "active"
    /\ Cardinality(old) <= 1
    /\ db' = [db EXCEPT
                !.status  = [d \in Ids |-> IF d = c THEN "active"
                                           ELSE IF d \in old THEN "inactive" ELSE @[d]],
                !.cites   = @ \cup ({c} \X sources),
                !.derived = @ \cup ({c} \X old)]
    /\ minted' = c
    /\ Quiet /\ UNCHANGED <<running, erased>>

\* store_extracted: a claim from some events of the window.
StoreClaim(sources, old) == sources # {} /\ NewClaim(sources, old)

\* correct: the event that records the correction is the claim's own, and left out.
Correct(old) == NewClaim({}, {old})

\* ... or the claim is known, and its evidence grows (_resolve_exact_duplicate).
AddEvidence(c, sources) ==
    /\ sources # {}
    /\ db.status[c] \in {"active", "disputed"}
    /\ ~({c} \X sources \subseteq db.cites)
    /\ db' = [db EXCEPT !.cites = @ \cup ({c} \X sources)]
    /\ Quiet /\ UNCHANGED <<running, minted, erased>>

\* The window ends, or its worker dies: some jobs are run again, some events are
\* put off after HTTP 429, and a retry that ran otherwise is over.
ExtractionEnds(again, deferred) ==
    /\ running # {}
    /\ deferred \cap again = {}
    /\ db' = [db EXCEPT
                !.jobs = @ \ (running \ again),
                !.task = [e \in Events |->
                            IF e \in deferred /\ @[e] = "none" THEN "pending"
                            ELSE IF e \in running \ (again \cup deferred) /\ @[e] = "pending"
                                 THEN "over" ELSE @[e]]]
    /\ running' = {}
    /\ Quiet /\ UNCHANGED <<minted, erased>>

\* process_deferred_tasks
RetryExtraction(e) ==
    /\ Pending(db, e)
    /\ e \notin db.jobs
    /\ db' = IF e \in db.events THEN [db EXCEPT !.jobs = @ \cup {e}]
             ELSE [db EXCEPT !.task[e] = "over"]
    /\ Quiet /\ UNCHANGED <<running, minted, erased>>

\* Supersession by review, archiving, retraction, expiry, resurrection: claims
\* change beside open cases, which stay.
ChangeStatus(c, s) ==
    /\ \/ db.status[c] \in {"active", "disputed"} /\ s \in {"inactive", "expired"}
       \/ db.status[c] = "inactive" /\ s = "active"
    /\ db' = [db EXCEPT !.status[c] = s]
    /\ Quiet /\ UNCHANGED <<running, minted, erased>>

\* ensure_group_conflict_case on two claims
Dispute(c, d) ==
    /\ c # d
    /\ \A x \in {c, d} : db.status[x] = "active" /\ ~InOpenCase(db, x)
    /\ db' = [db EXCEPT !.status[c] = "disputed", !.status[d] = "disputed",
                        !.cases = @ \cup {<<c, d>>}]
    /\ Quiet /\ UNCHANGED <<running, minted, erased>>

\* A decision: at most one side goes on, the case is closed.
Resolve(k, winner) ==
    /\ k \in db.cases /\ winner \in {k[1], k[2]}
    /\ db' = [db EXCEPT
                !.status = [c \in Ids |->
                              IF c \notin {k[1], k[2]} \/ @[c] # "disputed" THEN @[c]
                              ELSE IF c = winner THEN "active" ELSE "inactive"],
                !.cases = @ \ {k}]
    /\ Quiet /\ UNCHANGED <<running, minted, erased>>
-----------------------------------------------------------------------------
(* Deletion *)

\* The status alone, without the open case.
HasStatus(c, statuses) == db.status[c] \in statuses

\* _assert_deletable
MayDelete(c, statuses) == db.status[c] \in statuses /\ ~InOpenCase(db, c)

\* _delete_claim: the ledger commits first, the database after it.
Delete(c) ==
    LET E == Exclusive(db, c) IN
    /\ ledger' = Recorded(c, E)
    /\ db' = Closure(db, {c}, E)
    /\ confirmed' = confirmed \cup {c}
    /\ erased' = erased \cup E
    /\ UNCHANGED <<running, backup, minted, faults, restores>>

\* The process dies, or the commit fails, between the two.
DeletionDies(c) ==
    /\ faults < MaxFaults
    /\ faults' = faults + 1
    /\ ledger' = Recorded(c, Exclusive(db, c))
    /\ UNCHANGED <<db, running, backup, minted, confirmed, erased, restores>>

\* forget and cleanup_archived
DeleteClaim(c) == MayDelete(c, Deletable) /\ (Delete(c) \/ DeletionDies(c))

\* cleanup_expired_claims: nothing may be derived from the claim.
DeleteExpired(c) ==
    /\ MayDelete(c, {"expired"})
    /\ \A l \in db.derived : l[2] # c
    /\ Delete(c) \/ DeletionDies(c)

\* find_by_claim_id: the newest entry of a claim.
Newest(i) == \A j \in DOMAIN ledger : ledger[j].claim = ledger[i].claim => j <= i

\* _idempotent_replay: a claim that is gone and in the ledger counts as deleted, and
\* so do the events of its entry, whether they are there or not.
AlreadyDeleted(c) ==
    /\ ~Exists(db, c)
    /\ \E i \in DOMAIN ledger :
         /\ ledger[i].claim = c /\ Newest(i)
         /\ erased' = erased \cup ledger[i].events
    /\ confirmed' = confirmed \cup {c}
    /\ UNCHANGED <<db, ledger, running, backup, minted, faults, restores>>

\* purge_retained_events
Purge(e) ==
    /\ e \in db.events
    /\ Citers(db, e) = {}
    /\ ~Pending(db, e)
    /\ db' = [db EXCEPT !.events = @ \ {e}]
    /\ Quiet /\ UNCHANGED <<running, minted, erased>>
-----------------------------------------------------------------------------
(* Backup and restore *)

\* backup_database: the copy takes the place of the last one ...
CopyDatabase ==
    /\ restores < MaxRestores
    /\ backup' = [db |-> db, sealed |-> FALSE]
    /\ UNCHANGED <<db, ledger, running, minted, confirmed, erased, faults, restores>>

\* ... and until its manifest is written, no manifest fits it.
Seal ==
    /\ ~backup.sealed
    /\ backup' = [backup EXCEPT !.sealed = TRUE]
    /\ UNCHANGED <<db, ledger, running, minted, confirmed, erased, faults, restores>>

\* replay_tombstone on the entries 1..n in their order: after entry n the claims
\* of all entries so far are gone with their links ...
ReplayedClaims(n) == {ledger[i].claim : i \in 1..n}

\* As if each entry stood alone.
ReplayedEventsAlone(d, n) ==
    {e \in ledger[n].events : Citers(d, e) \subseteq {ledger[n].claim} /\ ~Pending(d, e)}

\* ... and each of its events that no link cites then and no retry awaits.
ReplayedEvents(d, n) ==
    {e \in ledger[n].events : Citers(d, e) \subseteq ReplayedClaims(n) /\ ~Pending(d, e)}

\* Only what a deletion would accept, as the snapshot has it.
ReplayedDeletable(d) ==
    LET C == {c \in ReplayedClaims(Len(ledger)) : d.status[c] \in Deletable}
    IN  Closure(d, C, UNION {ReplayedEvents(d, n) : n \in DOMAIN ledger})

Replayed(d) ==
    Closure(d, ReplayedClaims(Len(ledger)),
            UNION {ReplayedEvents(d, n) : n \in DOMAIN ledger})

\* restore_database: nobody uses the database, the backup has its manifest, and
\* the result takes the place of the database in one step.
Restore ==
    /\ restores < MaxRestores
    /\ running = {}
    /\ backup.sealed
    /\ db' = Replayed(backup.db)
    /\ restores' = restores + 1
    /\ UNCHANGED <<ledger, running, backup, minted, confirmed, erased, faults>>
-----------------------------------------------------------------------------
Empty ==
    [status |-> [c \in Ids |-> "none"], cites |-> {}, derived |-> {}, cases |-> {},
     events |-> {}, task |-> [e \in Events |-> "none"], jobs |-> {}, keys |-> {}]

\* The first backup, of the empty database, fits any history.
Init ==
    /\ db = Empty
    /\ ledger = <<>>
    /\ running = {}
    /\ backup = [db |-> Empty, sealed |-> TRUE]
    /\ minted = 0
    /\ confirmed = {} /\ erased = {}
    /\ faults = 0 /\ restores = 0

Extraction ==
    \/ \E window \in SUBSET Events : ReadEvents(window)
    \/ \E sources \in SUBSET running, old \in SUBSET Ids : StoreClaim(sources, old)
    \/ \E sources \in SUBSET running, c \in Ids : AddEvidence(c, sources)
    \/ \E again, deferred \in SUBSET running : ExtractionEnds(again, deferred)

Next ==
    \/ \E e \in Events : Ingest(e) \/ EventMissing(e) \/ RetryExtraction(e) \/ Purge(e)
    \/ Extraction
    \/ \E c \in Ids : DeleteClaim(c) \/ DeleteExpired(c) \/ AlreadyDeleted(c)
    \/ \E old \in Ids : Correct(old)
    \/ \E c \in Ids, s \in Statuses : ChangeStatus(c, s)
    \/ \E c, d \in Ids : Dispute(c, d)
    \/ \E k \in Ids \X Ids : \E winner \in {k[1], k[2]} : Resolve(k, winner)
    \/ CopyDatabase \/ Seal \/ Restore

Spec == Init /\ [][Next]_vars
-----------------------------------------------------------------------------
TypeOK ==
    /\ db \in Databases
    /\ ledger \in Seq(Entries)
    /\ running \in SUBSET Events
    /\ backup \in [db : Databases, sealed : BOOLEAN]
    /\ minted \in 0..MaxClaims
    /\ confirmed \in SUBSET Ids
    /\ erased \in SUBSET Events
    /\ faults \in 0..MaxFaults /\ restores \in 0..MaxRestores

\* A deletion that was answered holds for ever: whatever crashes, is backed up and
\* restored later, the claim and everything that refers to it stays away (the
\* write order of _delete_claim against replay_tombstone).
DeletedStaysDeleted ==
    \A c \in confirmed :
        /\ ~Exists(db, c)
        /\ \A l \in db.cites : l[1] # c
        /\ \A l \in db.derived \cup db.cases : c \notin {l[1], l[2]}

\* An event whose deletion was answered can only come back through a restore, and
\* only because a retry that waits in the backup spared it, a living claim of the
\* backup rests on it, or its entry is overtaken: it was written by a deletion that
\* died, is reused by the one that was answered, and so stands before the entry
\* of another claim that cites the event in the backup (record_deletion keeps the
\* place of a known entry; replay_tombstone spares a cited event for good).
Spared(d, e) == Pending(d, e) \/ Citers(d, e) # {}

Overtaken(e) ==
    \E i, j \in DOMAIN ledger :
        i < j /\ e \in ledger[i].events /\ ledger[j].claim \in Citers(backup.db, e)

ErasedComesBackSpared ==
    [][\A e \in erased \cap erased' :
         e \in db'.events \ db.events =>
            restores' # restores /\ (Spared(db', e) \/ Overtaken(e))]_vars

\* Evidence that points nowhere.
Dangling(d) ==
    {l \in d.cites : ~Exists(d, l[1]) \/ l[2] \notin d.events}
        \cup {l \in d.derived : ~Exists(d, l[1]) \/ ~Exists(d, l[2])}

\* Deletion, retention and restore leave no evidence that points nowhere: the only
\* source of it is an extraction that stores what it read from an event deleted
\* since (the three entries of DeletionService, purge_retained_events).
OnlyLateClaimsDangle ==
    [][\A l \in Dangling(db') :
         \/ l \in Dangling(db) \cup Dangling(backup.db)
         \/ l \notin db.cites /\ running # {}]_vars

\* Disputed claims whose case is gone: out of recall and out of review.
Orphans(d) == {c \in Ids : d.status[c] = "disputed" /\ ~InOpenCase(d, c)}

\* No deletion takes the case of a dispute from the other side; only the replay of
\* an old backup does, which does not look at open cases (_assert_deletable).
OnlyReplayOrphans ==
    [][Orphans(db') \subseteq Orphans(db) \/ restores' # restores]_vars

\* The inductive invariant behind these: what claims refer to exists, in the
\* database and in the backup ...
ClaimsExist(d) ==
    /\ \A l \in d.cites : Exists(d, l[1])
    /\ \A l \in d.derived \cup d.cases : Exists(d, l[1]) /\ Exists(d, l[2])

\* ... no claim exists before its id is handed out, ...
OnlyMinted ==
    /\ \A c \in Ids : c > minted => ~Exists(db, c) /\ ~Exists(backup.db, c)
    /\ \A i \in DOMAIN ledger : ledger[i].claim <= minted

\* ... and an answered deletion is in the ledger.
ConfirmedIsRecorded == \A c \in confirmed : \E i \in DOMAIN ledger : ledger[i].claim = c

\* ... and so is the deletion of an event, with the claim it went with.
ErasedIsRecorded == \A e \in erased : \E i \in DOMAIN ledger : e \in ledger[i].events

\* They hold in every reachable state and after every step (DeletionProofs).
DeletionInv ==
    /\ TypeOK
    /\ ClaimsExist(db) /\ ClaimsExist(backup.db)
    /\ OnlyMinted
    /\ ConfirmedIsRecorded
    /\ DeletedStaysDeleted
=============================================================================
