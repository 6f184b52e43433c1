---------------------------- MODULE ClaimGroups ----------------------------
(***************************************************************************)
(* The claims of one mutually exclusive conflict group and the review of    *)
(* their disputes.  Extractions state facts about the group's coordinate    *)
(* (application/ingest.py, application/_ingest_resolution.py); a dispute    *)
(* quarantines the group under one case per generation                      *)
(* (storage/claims.py); SQL triggers keep the revision of the case and its  *)
(* place in the dirty queue (storage/migrations/045_conflict_review_queue); *)
(* the maintenance reviewer decides outside a transaction and applies under *)
(* a compare-and-set (workers/auto_resolve_conflicts.py); people decide     *)
(* from a dossier they read earlier (application/conflicts.py); expiry,     *)
(* decay, retraction and resurrection change claims in between.             *)
(*                                                                         *)
(* Every operation that writes is one BEGIN IMMEDIATE transaction and so    *)
(* one action; what it would do and then roll back is not an action.        *)
(***************************************************************************)
EXTENDS Integers, Sequences, FiniteSets, FiniteSetsExt, SequencesExt

CONSTANTS
    Facts,              \* what an extraction may state, from when on, and with what
                        \* authority; until: when it ends, should it ever end
    ChangePredicates,   \* predicates whose new value replaces the old one
    MaxClaims,          \* bound: claims of the group
    MaxCases,           \* bound: generations of its case
    MaxUpkeep,          \* bound: retractions, expiries, archivings, deaths of the reviewer
    IdRank,             \* the order of the random claim ids as strings
    None, Stale

ASSUME GroupAssumption ==
    /\ \A f \in Facts : /\ f.value \in Nat /\ f.change \in BOOLEAN
                        /\ {f.since, f.until, f.authority} \subseteq Nat
    /\ MaxClaims \in Nat \ {0} /\ MaxCases \in Nat /\ MaxUpkeep \in Nat
    /\ None \notin Nat \cup Facts /\ Stale # None

VARIABLES
    status,     \* of each claim row, "none" where there is no row
    fact,       \* what the claim states
    by,         \* claims.superseded_by_id
    rejected,   \* claims retracted with their candidate, which sets valid_to
    case,       \* the open conflict_cases row of the group with its candidates,
                \* members and conflict_review_state row, or None
    ended,      \* how each earlier generation was closed
    verdict,    \* what the reviewer decided and on which docket, None or Stale
    dossier,    \* what a person has read of the open case, or None
    upkeep      \* lifecycle operations so far

vars == <<status, fact, by, rejected, case, ended, verdict, dossier, upkeep>>

\* Claims are numbered in the order they are recorded.
Ids == 1..MaxClaims
Values == {f.value : f \in Facts}

ASSUME IdRankAssumption ==
    IdRank \in [Ids -> Nat] /\ \A c, d \in Ids : IdRank[c] = IdRank[d] => c = d

Statuses == {"active", "disputed", "superseded", "retracted", "expired", "archived"}
Nonterminal == {"active", "disputed"}
\* is_terminal_conflict_status: an archived or retracted claim is not terminal.
Gone == {"superseded", "expired"}

\* An open case with its candidates (rep), their members and its review state.
Cases ==
    [revision : 0..1, dirty : BOOLEAN, tips : SUBSET Ids, left : Ids, right : Ids,
     rep : UNION {[V -> Ids] : V \in SUBSET Values}, member : [Ids -> Values \cup {None}]]

ASSUME NoneAssumption == None \notin Cases

Value(c) == fact[c].value
Exists(c) == status[c] # "none"
Group == {c \in Ids : status[c] \in Nonterminal}
ActiveOnes == {c \in Ids : status[c] = "active"}
NextId == 1 + Cardinality({c \in Ids : Exists(c)})

\* resolve_claim_lineage: the end of the supersession chain of a claim.
Tip(c) ==
    LET walk[n \in 0..MaxClaims] ==
            IF n = 0 THEN c
            ELSE LET d == walk[n - 1] IN IF by[d] = None THEN d ELSE by[d]
    IN  IF by[c] = None THEN c ELSE walk[MaxClaims]

----------------------------------------------------------------------------
(* Cases *)

HasOpen == case # None
Keys(k) == DOMAIN k.rep
Members(k) == {c \in Ids : k.member[c] # None}

\* Of a revision only matters whether this transaction raised it, however often:
\* it flips once.
Raised == IF HasOpen THEN 1 - case.revision ELSE 0

\* The trigger's first UPDATE without its second.
BumpRevision(k) == [k EXCEPT !.revision = Raised]

\* A change of the candidates or of a watched claim: the revision rises and
\* the case is queued for review.
Bump(k) == [k EXCEPT !.revision = Raised, !.dirty = TRUE]

\* When the case moves on, the verdict in hand is stale and a dossier is as good
\* as none: both are refused for their revision alone.
MovesOn == HasOpen /\ (case' = None \/ case'.revision # case.revision)
AgedVerdict == IF verdict # None /\ MovesOn THEN Stale ELSE verdict
AgedDossier == IF MovesOn THEN None ELSE dossier
NobodyDecides == verdict' = AgedVerdict /\ dossier' = AgedDossier

\* conflict_claim_input_changed fires for these claims.
Watched(k) == {k.left, k.right} \cup k.tips \cup Members(k)

\* The trigger without the clause for members.
TouchedEndpoints(st, sup) ==
    IF HasOpen /\ \E c \in {case.left, case.right} : st[c] # status[c] \/ sup[c] # by[c]
    THEN Bump(case) ELSE case

\* The case after the trigger has seen claims change to st and sup.
Touched(st, sup) ==
    IF HasOpen /\ \E c \in Watched(case) : st[c] # status[c] \/ sup[c] # by[c]
    THEN Bump(case) ELSE case

\* find_by_conflict_key lists the active claim first, then the newest; the
\* claim being ingested comes last.
FirstOf(M) ==
    IF M \cap ActiveOnes # {} THEN Min(M \cap ActiveOnes)
    ELSE IF M \cap Group # {} THEN Max(M \cap Group) ELSE Min(M)

\* Only a new candidate raises the revision and the dirty mark; a further
\* member of a candidate does neither.
Attach(k, M, said) ==
    LET fresh == {said[c].value : c \in M} \ Keys(k)
        grown == [k EXCEPT
                    !.rep = [v \in Keys(k) \cup fresh |->
                                IF v \in Keys(k) THEN k.rep[v]
                                ELSE FirstOf({c \in M : said[c].value = v})],
                    !.member = [c \in Ids |->
                                IF c \in M /\ @[c] = None THEN said[c].value ELSE @[c]]]
    IN  IF fresh = {} THEN grown ELSE Bump(grown)

\* The two smallest candidate keys give a new case its left and right claim.
NewCase(M, said) ==
    LET keys == {said[c].value : c \in M}
        low == Min(keys)
        oldest(v) == Min({c \in M : said[c].value = v})
    IN  [revision |-> 0, dirty |-> TRUE, tips |-> {},
         left |-> oldest(low), right |-> oldest(Min(keys \ {low})),
         rep |-> [v \in {} |-> 0], member |-> [c \in Ids |-> None]]

\* ensure_group_conflict_case reuses the open case of the group; a new one
\* needs two distinct candidates, or the whole ingest rolls back.
CanEnsure(M, said) ==
    HasOpen \/ (Cardinality({said[c].value : c \in M}) > 1 /\ Len(ended) < MaxCases)
Ensured(k, M, said) ==
    Attach(IF k = None THEN NewCase(M, said) ELSE k, M, said)

----------------------------------------------------------------------------
(* Ingest *)

\* Everything else of the group is superseded by the winner, which becomes
\* active.
Superseding(winner) ==
    [c \in Ids |-> IF c = winner THEN "active"
                   ELSE IF c \in Group THEN "superseded" ELSE status[c]]
Succession(winner) == [c \in Ids |-> IF c \in Group \ {winner} THEN winner ELSE by[c]]

\* supersede() without a successor, the older form of supersede_with_inline.
ConvergeUnlinked(winner) ==
    /\ status' = Superseding(winner)
    /\ by' = by

\* Convergence over the members of the case instead of the whole group.
ConvergeMembers(winner) ==
    LET losers == IF HasOpen THEN (Members(case) \cap Group) \ {winner} ELSE {}
    IN  /\ status' = [c \in Ids |-> IF c = winner THEN "active"
                                    ELSE IF c \in losers THEN "superseded" ELSE status[c]]
        /\ by' = [c \in Ids |-> IF c \in losers THEN winner ELSE by[c]]

Converge(winner) ==
    /\ status' = Superseding(winner)
    /\ by' = Succession(winner)

\* find_by_fact_hash: the newest living claim that states the same; the hash
\* covers predicate and value but not the qualifiers.
SameHash(f) == {c \in Group : fact[c].value = f.value /\ fact[c].predicate = f.predicate}
ExactDuplicate(f) == SameHash(f) # {} /\ fact[Max(SameHash(f))].change = f.change

SignalsChange(f) == f.change \/ f.predicate \in ChangePredicates
AllEntail(f) == Cardinality(ActiveOnes) <= 1 /\ \A c \in Group : Value(c) = f.value
AllChange(f) == /\ Cardinality(ActiveOnes) <= 1
                /\ SignalsChange(f) /\ \A c \in Group : Value(c) # f.value

\* A group whose latest case is closed is reopened by any new claim.
ReopensTerminal == ended # <<>> /\ ~HasOpen

Keep == NobodyDecides /\ UNCHANGED <<rejected, ended, upkeep>>

\* An exact duplicate of an undisputed group, or the same value in other
\* words: no new row, the group converges on its representative.
Reassert(f) ==
    LET exact == ExactDuplicate(f)
        winner == IF ActiveOnes # {} THEN Min(ActiveOnes)
                  ELSE IF exact THEN Max(SameHash(f)) ELSE FirstOf(Group)
    IN  /\ exact \/ (SameHash(f) = {} /\ Group # {} /\ ~ReopensTerminal)
        /\ AllEntail(f)
        /\ Converge(winner)
        /\ case' = Touched(status', by')
        /\ UNCHANGED fact /\ Keep

\* An exact duplicate in a group that is not of one value quarantines it.
ReassertInDispute(f) ==
    /\ ExactDuplicate(f)
    /\ ~AllEntail(f)
    /\ CanEnsure(Group, fact)
    /\ status' = [c \in Ids |-> IF c \in Group THEN "disputed" ELSE status[c]]
    /\ case' = Ensured(Touched(status', by), Group, fact)
    /\ UNCHANGED <<fact, by>> /\ Keep

Insert(f) ==
    /\ NextId \in Ids
    /\ fact' = [fact EXCEPT ![NextId] = f]

\* Nothing to compare with: the first claim, or one whose hash is known with
\* other qualifiers, which skips the conflict check and reaches the database;
\* its guard admits no second active claim of the group.
State(f) ==
    /\ Insert(f)
    /\ ActiveOnes = {}
    /\ \/ Group = {}
       \/ SameHash(f) # {} /\ ~ExactDuplicate(f)
    /\ status' = [status EXCEPT ![NextId] = "active"]
    /\ UNCHANGED <<by, case>> /\ Keep

\* A state change supersedes the whole group; an open case stays open.
Supersede(f) ==
    /\ Insert(f)
    /\ ~ReopensTerminal /\ Group # {} /\ SameHash(f) = {}
    /\ AllChange(f)
    /\ status' = Superseding(NextId)
    /\ by' = Succession(NextId)
    /\ case' = Touched(status', by')
    /\ Keep

\* Contradictory, mixed or reopening: the claim and the group are disputed.
Contest(f) ==
    LET M == Group \cup {NextId}
    IN  /\ Insert(f)
        /\ Group # {} /\ SameHash(f) = {}
        /\ ReopensTerminal \/ ~(AllEntail(f) \/ AllChange(f))
        /\ CanEnsure(M, fact')
        /\ status' = [c \in Ids |-> IF c \in M THEN "disputed" ELSE status[c]]
        /\ case' = Ensured(Touched(status', by), M, fact')
        /\ UNCHANGED by /\ Keep

----------------------------------------------------------------------------
(* The lifecycle of a claim outside the group's arbitration *)

Upkeep == upkeep < MaxUpkeep /\ upkeep' = upkeep + 1

Turn(c, st) ==
    /\ status' = [status EXCEPT ![c] = st]
    /\ case' = Touched(status', by)
    /\ NobodyDecides
    /\ UNCHANGED <<fact, by, rejected, ended>>

\* The check made before BEGIN IMMEDIATE only: the claim may be gone by then.
RetractUnchecked(c) == status[c] \in Nonterminal \cup {"superseded"} /\ Turn(c, "retracted") /\ Upkeep

\* CorrectionService.retract checks the transition again in its transaction.
Retract(c) == status[c] \in Nonterminal /\ Turn(c, "retracted") /\ Upkeep

Expire(c) == status[c] \in Nonterminal /\ Turn(c, "expired") /\ Upkeep
Archive(c) == status[c] \in Nonterminal /\ Turn(c, "archived") /\ Upkeep

\* ResurrectionService looks for an active rival only.
Resurrect(c) ==
    status[c] = "archived" /\ ActiveOnes = {} /\ Turn(c, "active") /\ UNCHANGED upkeep

----------------------------------------------------------------------------
(* The maintenance reviewer *)

IsGone(c) == status[Tip(c)] \in Gone
Living(k) == {v \in Keys(k) : \E c \in Members(k) : k.member[c] = v /\ ~IsGone(c)}
Sides(k) == {k.left, k.right}

Manual == [kind |-> "manual", winner |-> None]
Obsolete == [kind |-> "obsolete", winner |-> None]
Choose(c) == [kind |-> "choose", winner |-> c]      \* the candidate c stands for
KeepSide(c) == [kind |-> "keep", winner |-> c]      \* the side whose chain ends in c

\* decide_l0 on a group case with candidates.
DecideGroup(k) ==
    LET living == Living(k)
    IN  IF living = {} THEN Obsolete
        ELSE IF Cardinality(living) = 1 THEN Choose(Tip(k.rep[Min(living)]))
        ELSE Manual

\* ... and without: what the rules for two claims see of the end of a chain.
\* valid_to is set when a claim expires and when its candidate is rejected, not
\* when it is retracted or archived.
Row(c) == [id |-> c, status |-> status[c], fact |-> fact[c],
           ended |-> status[c] = "expired" \/ c \in rejected]

EndsBefore(l, r) == l.ended /\ l.fact.until <= r.fact.since
StateChanges(l, r) ==
    /\ l.fact.since # r.fact.since
    /\ l.fact.change \/ r.fact.change \/ EndsBefore(l, r) \/ EndsBefore(r, l)

Prefer(l, r, better) == KeepSide(IF better THEN l.id ELSE r.id)

\* Only the second rule asks whether what it keeps can be activated.
DecidePair(l, r) ==
    IF {l.status, r.status} \subseteq Gone THEN Obsolete
    ELSE IF \/ l.status \in Gone /\ r.status \in Nonterminal
            \/ r.status \in Gone /\ l.status \in Nonterminal
         THEN Prefer(l, r, r.status \in Gone)
    ELSE IF l.fact.value = r.fact.value THEN Prefer(l, r, IdRank[l.id] < IdRank[r.id])
    ELSE IF StateChanges(l, r) THEN Prefer(l, r, l.fact.since > r.fact.since)
    ELSE IF l.fact.authority # r.fact.authority
         THEN Prefer(l, r, l.fact.authority > r.fact.authority)
    ELSE Manual

Decide(k) ==
    IF Tip(k.left) = Tip(k.right) THEN Obsolete
    ELSE IF Keys(k) # {} THEN DecideGroup(k)
    ELSE DecidePair(Row(Tip(k.left)), Row(Tip(k.right)))

\* What the fingerprint covers: the case, its candidates and members, and
\* every claim of the group.
Docket ==
    [case |-> [case EXCEPT !.dirty = FALSE, !.tips = {}], status |-> status,
     fact |-> fact, by |-> by, rejected |-> rejected]

Review ==
    /\ verdict = None
    /\ HasOpen /\ case.dirty
    /\ verdict' = [docket |-> Docket, decision |-> Decide(case)]
    /\ UNCHANGED <<status, fact, by, rejected, case, ended, dossier, upkeep>>

\* Compare-and-set on the revision alone.
SameRevision == HasOpen /\ verdict # Stale

StillCurrent == HasOpen /\ verdict # Stale /\ verdict.docket = Docket

Close(how) == case' = None /\ ended' = Append(ended, how)

\* The case closes on its winner and the rivals are left as they are.
SettleWinnerOnly(winner) ==
    /\ status[winner] \in Nonterminal
    /\ status' = [status EXCEPT ![winner] = "active"]
    /\ by' = by
    /\ Close("chosen")

\* _converge_winner: refuses a winner that cannot be activated.
Settle(winner) ==
    /\ status[winner] \in Nonterminal
    /\ Converge(winner)
    /\ Close("chosen")

\* A winner must be one that can be activated, a kept side the end of its own
\* chain: following the chain is refused for a case of a group.
Accepts(decision) ==
    /\ decision.kind \in {"choose", "keep"} => status[decision.winner] \in Nonterminal
    /\ decision.kind = "keep" => decision.winner \in Sides(case)

Apply ==
    /\ verdict # None /\ StillCurrent
    /\ \/ /\ verdict.decision = Manual
          /\ case' = [case EXCEPT !.dirty = FALSE, !.tips = {Tip(case.left), Tip(case.right)}]
          /\ UNCHANGED <<status, by, ended>>
       \/ /\ verdict.decision = Obsolete
          /\ Close("obsolete")
          /\ UNCHANGED <<status, by>>
       \/ /\ verdict.decision.kind \in {"choose", "keep"}
          /\ Accepts(verdict.decision)
          /\ Settle(verdict.decision.winner)
    /\ verdict' = None /\ dossier' = AgedDossier
    /\ UNCHANGED <<fact, rejected, upkeep>>

Applicable == StillCurrent /\ Accepts(verdict.decision)

\* A failed application that counts as a review.
RefuseAndClean ==
    /\ verdict # None /\ ~Applicable
    /\ verdict' = None
    /\ case' = IF HasOpen THEN [case EXCEPT !.dirty = FALSE] ELSE None
    /\ UNCHANGED <<status, fact, by, rejected, ended, dossier, upkeep>>

\* A stale verdict, or one that is not accepted: the transaction rolls back; the
\* case stays dirty and is tried again after a backoff.
Refuse ==
    /\ verdict # None /\ ~Applicable
    /\ verdict' = None
    /\ UNCHANGED <<status, fact, by, rejected, case, ended, dossier, upkeep>>

\* One thread takes these steps in turn.
Reviewing == Review \/ Apply \/ Refuse

ReviewerDies ==
    /\ verdict # None /\ Upkeep
    /\ verdict' = None
    /\ UNCHANGED <<status, fact, by, rejected, case, ended, dossier>>

----------------------------------------------------------------------------
(* People *)

\* The status of every claim the dossier lists.
ReadDossier ==
    /\ HasOpen
    /\ dossier' = [c \in Sides(case) \cup Members(case) |-> status[c]]
    /\ UNCHANGED <<status, fact, by, rejected, case, ended, verdict, upkeep>>

\* The compulsory revision; the optional fingerprint only refuses more.
DossierFresh == dossier # None /\ HasOpen

\* select_candidate, or keep_left and keep_right of the command line.
Select(winner) ==
    /\ DossierFresh
    /\ winner \in {Tip(case.rep[v]) : v \in Keys(case)} \cup {Tip(c) : c \in Sides(case)}
    /\ Settle(winner)
    /\ dossier' = None /\ verdict' = AgedVerdict
    /\ UNCHANGED <<fact, rejected, upkeep>>

\* reject_candidate: the candidate goes, then its living members.
Reject(v) ==
    LET dropped == {c \in Ids : case.member[c] = v}
    IN  /\ DossierFresh
        /\ v \in Keys(case)
        /\ status' = [c \in Ids |-> IF c \in dropped \cap Group THEN "retracted" ELSE status[c]]
        /\ rejected' = rejected \cup (dropped \cap Group)
        /\ case' = Bump([case EXCEPT !.rep = [w \in Keys(case) \ {v} |-> @[w]],
                                     !.member = [c \in Ids |-> IF c \in dropped THEN None ELSE @[c]]])
        /\ dossier' = None /\ verdict' = AgedVerdict
        /\ UNCHANGED <<fact, by, ended, upkeep>>

----------------------------------------------------------------------------

Init ==
    /\ status = [c \in Ids |-> "none"]
    /\ fact = [c \in Ids |-> None]
    /\ by = [c \in Ids |-> None]
    /\ rejected = {}
    /\ case = None
    /\ ended = <<>>
    /\ verdict = None
    /\ dossier = None
    /\ upkeep = 0

Next ==
    \/ \E f \in Facts : \/ Reassert(f) \/ ReassertInDispute(f)
                        \/ State(f) \/ Supersede(f) \/ Contest(f)
    \/ \E c \in Ids : \/ Retract(c) \/ Expire(c) \/ Archive(c) \/ Resurrect(c)
                      \/ Select(c)
    \/ \E v \in Values : Reject(v)
    \/ Reviewing \/ ReviewerDies
    \/ ReadDossier

Spec == Init /\ [][Next]_vars

\* run_maintenance calls the reviewer in every round and a failed case becomes
\* ready again when its backoff is over.  Nobody is obliged to read a dossier.
Fairness == WF_vars(Reviewing)
FairSpec == Spec /\ Fairness

----------------------------------------------------------------------------
(* Properties *)

CaseOK(k) ==
    /\ k \in Cases
    /\ {k.left, k.right} \cup k.tips \subseteq {c \in Ids : Exists(c)} /\ k.left # k.right
    /\ \A c \in Members(k) : k.member[c] \in Keys(k)
    /\ \A v \in Keys(k) : k.member[k.rep[v]] = v

\* Types, and the shape every reader of conflict_snapshot.py relies on: a
\* superseded claim has a successor, every chain ends, a candidate's
\* representative is one of its members.
TypeOK ==
    /\ status \in [Ids -> Statuses \cup {"none"}]
    /\ fact \in [Ids -> Facts \cup {None}]
    /\ by \in [Ids -> Ids \cup {None}]
    /\ rejected \subseteq Ids
    /\ \A c \in Ids : /\ (status[c] = "none") <=> (fact[c] = None)
                      /\ (status[c] = "superseded") <=> (by[c] # None)
                      /\ by[Tip(c)] = None
    /\ HasOpen => CaseOK(case)
    /\ ended \in Seq({"obsolete", "chosen"})
    /\ upkeep \in 0..MaxUpkeep

\* No transaction leaves two active claims in the group (conflict_invariants.py
\* _active_group_violations), although claims become active by four routes and
\* only one of them knows every member.  The database guard is assumed on
\* insertion alone.
OneActive == Cardinality(ActiveOnes) <= 1

InOpenCase(c) == HasOpen /\ c \in Sides(case) \cup Members(case)

\* A disputed claim is hidden from recall until its case is decided: every one
\* belongs to an open case (conflict_invariants.py find_orphan_disputed_claims).
NoOrphanDisputed == \A c \in Ids : status[c] = "disputed" => InOpenCase(c)

\* What holds instead: orphans appear only where the reviewer has closed the
\* newest case as obsolete, never after a choice or a rejection.
OnlyObsoleteOrphans ==
    \A c \in Ids : status[c] = "disputed" =>
        InOpenCase(c) \/ (ReopensTerminal /\ Last(ended) = "obsolete")

\* A member was superseded by a claim that is not watched, and that one is gone:
\* the triggers watch the members and the tips of the two sides, the reviewer
\* looks at the tips of all members.
EndedUnseen == \E c \in Members(case) : IsGone(c) /\ Tip(c) \notin Watched(case)

\* The dirty queue misses nothing else: an open case that is not queued is one the
\* reviewer would still leave to people, whatever has happened to the claims
\* it reads (045_conflict_review_queue.sql).
CleanMeansManual == (HasOpen /\ ~case.dirty) => Decide(case) = Manual \/ EndedUnseen

\* The reviewer never applies a decision the group no longer calls for, though
\* it decides outside the transaction.
VerdictFitsDocket ==
    [][(verdict \notin {None, Stale} /\ verdict' = None /\ <<status, case, ended>>' # <<status, case, ended>>)
        => verdict.decision = Decide(case)]_vars

\* The revision guards what a person decides on: as long as a decision would
\* be accepted, every claim the dossier listed is in the status it was read in.
\* (Claims that joined a listed candidate later are not covered.)
DossierHolds == dossier # None => \A c \in DOMAIN dossier : status[c] = dossier[c]

\* lifecycle.py ALLOWED_TRANSITIONS, over whole transactions.
Allowed ==
    [none |-> {"active", "disputed"},
     active |-> {"disputed", "expired", "archived", "superseded", "retracted"},
     disputed |-> {"archived", "expired", "active", "superseded", "retracted"},
     archived |-> {"active"},
     superseded |-> {}, retracted |-> {}, expired |-> {}]

\* Whatever the interleaving of ingest, review, people and lifecycle jobs, a
\* claim moves along the transition matrix only; what has left for good never
\* comes back.
LegalTransitions ==
    [][\A c \in Ids : status'[c] # status[c] => status'[c] \in Allowed[status[c]]]_vars

\* The reviewer could close the case by what it reads now.
Decidable ==
    /\ HasOpen
    /\ LET decision == Decide(case) IN decision # Manual /\ Accepts(decision)

\* A dispute that time has decided does not stay open unless its end went unseen:
\* expiry, decay and retraction in any order, stale verdicts and deaths of the
\* reviewer included.
DecidedCaseCloses == []<>~(Decidable /\ (case.dirty \/ ~EndedUnseen))

============================================================================
