-------------------------- MODULE ClaimGroupsProofs --------------------------
(***************************************************************************)
(* Proofs about ClaimGroups for any facts, any number of claims, cases and  *)
(* lifecycle operations.  GroupInv is the inductive invariant.              *)
(***************************************************************************)
EXTENDS ClaimGroups, FiniteSetTheorems, WellFoundedInduction, TLAPS

Existing == {c \in Ids : Exists(c)}

\* Claims are numbered without gaps and state facts.
RowsFit ==
    /\ status \in [Ids -> Statuses \cup {"none"}]
    /\ fact \in [Ids -> Facts \cup {None}]
    /\ by \in [Ids -> Ids \cup {None}]
    /\ \A c \in Existing : fact[c] \in Facts
    /\ \E n \in 0..MaxClaims : Existing = 1..n

CaseFits == HasOpen => case \in Cases
CaseOfClaims == HasOpen => Sides(case) \cup Members(case) \subseteq Existing
EndedFits == ended \in Seq({"obsolete", "chosen"})

AtMostOne == \A c, d \in ActiveOnes : c = d

\* A dossier lists claims of the open case, in the status they have.
DossierFits ==
    dossier # None =>
        /\ HasOpen
        /\ DOMAIN dossier \subseteq Sides(case) \cup Members(case)
        /\ \A c \in DOMAIN dossier : status[c] = dossier[c]

\* Tip, IsGone, Living and Decide on the claims st and b of a docket.
TipIn(b, c) ==
    LET walk[n \in 0..MaxClaims] ==
            IF n = 0 THEN c
            ELSE LET d == walk[n - 1] IN IF b[d] = None THEN d ELSE b[d]
    IN  IF b[c] = None THEN c ELSE walk[MaxClaims]
GoneIn(st, b, c) == st[TipIn(b, c)] \in Gone
LivingIn(st, b, k) == {v \in Keys(k) : \E c \in Members(k) : k.member[c] = v /\ ~GoneIn(st, b, c)}
RowIn(st, fc, rj, c) ==
    [id |-> c, status |-> st[c], fact |-> fc[c], ended |-> st[c] = "expired" \/ c \in rj]
DecideIn(st, b, fc, rj, k) ==
    IF TipIn(b, k.left) = TipIn(b, k.right) THEN Obsolete
    ELSE IF Keys(k) # {} THEN
        IF LivingIn(st, b, k) = {} THEN Obsolete
        ELSE IF Cardinality(LivingIn(st, b, k)) = 1
             THEN Choose(TipIn(b, k.rep[Min(LivingIn(st, b, k))]))
        ELSE Manual
    ELSE DecidePair(RowIn(st, fc, rj, TipIn(b, k.left)), RowIn(st, fc, rj, TipIn(b, k.right)))

\* A verdict is what its docket calls for, and chooses a claim if any.
VerdictDecided ==
    verdict \notin {None, Stale} =>
        /\ LET d == verdict.docket
           IN  verdict.decision = DecideIn(d.status, d.by, d.fact, d.rejected, d.case)
        /\ verdict.decision.kind \in {"choose", "keep"} => verdict.decision.winner \in Ids

GroupInv ==
    /\ RowsFit
    /\ CaseFits
    /\ CaseOfClaims
    /\ EndedFits
    /\ AtMostOne
    /\ OnlyObsoleteOrphans
    /\ DossierFits
    /\ VerdictDecided

(* First and last *)

\* What there is to choose from has a first ...
LEMMA MinIsThere ==
    ASSUME NEW S, S \subseteq Nat, S # {}
    PROVE  Min(S) \in S /\ \A x \in S : Min(S) <= x
<1>1. PICK x \in S : \A y \in S : ~ (<<y, x>> \in OpToRel(<, Nat))
  BY NatLessThanWellFounded, WFMin
<1>2. \A y \in S : x <= y
  <2> TAKE y \in S
  <2>1. x \in Nat /\ y \in Nat OBVIOUS
  <2>2. ~ (y < x) BY <1>1, <2>1 DEF OpToRel
  <2> QED BY <2>1, <2>2
<1> QED BY <1>2 DEF Min

\* ... and, if it is bounded, a last.
LEMMA MaxIsThere ==
    ASSUME NEW n \in Nat, NEW S, S \subseteq 1..n, S # {}
    PROVE  Max(S) \in S
<1> DEFINE T == {n - x : x \in S}
<1>1. T \subseteq Nat /\ T # {}
  <2>1. \A x \in S : n - x \in Nat OBVIOUS
  <2> QED BY <2>1
<1>2. Min(T) \in T /\ \A x \in T : Min(T) <= x
  <2> HIDE DEF T
  <2> QED BY <1>1, MinIsThere
<1>3. PICK m \in S : Min(T) = n - m BY <1>2
<1>4. \A x \in S : m >= x
  <2> SUFFICES ASSUME NEW x \in S PROVE m >= x OBVIOUS
  <2>1. n - m <= n - x BY <1>2, <1>3
  <2>2. n \in Int /\ m \in Int /\ x \in Int OBVIOUS
  <2> QED BY <2>1, <2>2
<1> QED BY <1>4 DEF Max

\* f goes n steps along step from c.
Walks(step, c, n, f) == f = [i \in 0..n |-> IF i = 0 THEN c ELSE step[f[i - 1]]]

\* There is such a walk, and it stays in the domain of the function.
LEMMA WalkIsThere ==
    ASSUME NEW S, NEW step \in [S -> S], NEW c \in S, NEW n \in Nat
    PROVE  \E f \in [0..n -> S] : Walks(step, c, n, f)
<1> DEFINE T == {m \in Nat : ~ \E f \in [0..m -> S] : Walks(step, c, m, f)}
<1>1. SUFFICES ASSUME T # {} PROVE FALSE
  <2>1. n \notin T BY <1>1
  <2> QED BY <2>1
<1>2. PICK m \in T : \A k \in T : m <= k
  <2>1. T \subseteq Nat OBVIOUS
  <2> HIDE DEF T
  <2> QED BY <1>1, <2>1, MinIsThere
<1>3. m # 0
  <2>1. [i \in 0..0 |-> c] \in [0..0 -> S] OBVIOUS
  <2>2. Walks(step, c, 0, [i \in 0..0 |-> c]) BY DEF Walks
  <2> QED BY <1>2, <2>1, <2>2
<1>4. m \in Nat /\ m - 1 \in Nat /\ m - 1 \notin T BY <1>2, <1>3
<1>5. PICK f \in [0..(m - 1) -> S] : Walks(step, c, m - 1, f) BY <1>4
<1> DEFINE g == [i \in 0..m |-> IF i = m THEN step[f[m - 1]] ELSE f[i]]
<1>6. g \in [0..m -> S] BY <1>3, <1>4, <1>5
<1>7. Walks(step, c, m, g)
  <2> SUFFICES ASSUME NEW i \in 0..m
               PROVE  g[i] = IF i = 0 THEN c ELSE step[g[i - 1]]
    BY DEF Walks
  <2>1. CASE i = m
    <3>1. g[m] = step[f[m - 1]] /\ g[m - 1] = f[m - 1] BY <1>3, <1>4
    <3> QED BY <1>3, <2>1, <3>1
  <2>2. CASE i # m /\ i # 0
    <3>1. i \in 0..(m - 1) /\ i - 1 \in 0..(m - 1) /\ i - 1 # m BY <1>4, <2>2
    <3>2. f[i] = step[f[i - 1]] BY <1>5, <2>2, <3>1 DEF Walks
    <3> QED BY <2>2, <3>1, <3>2
  <2>3. CASE i # m /\ i = 0
    <3>1. f[0] = c BY <1>3, <1>4, <1>5 DEF Walks
    <3> QED BY <2>3, <3>1
  <2> QED BY <2>1, <2>2, <2>3
<1> QED BY <1>2, <1>6, <1>7

\* The end of a supersession chain is where a walk along superseded_by_id arrives.
LEMMA TipIsWalkedTo ==
    ASSUME NEW b \in [Ids -> Ids \cup {None}], NEW c \in Ids
    PROVE  \E w \in [0..MaxClaims -> Ids] :
               /\ w[0] = c /\ w[MaxClaims] = TipIn(b, c)
               /\ \A n \in 1..MaxClaims :
                     w[n] = IF b[w[n - 1]] = None THEN w[n - 1] ELSE b[w[n - 1]]
<1> DEFINE step == [d \in Ids |-> IF b[d] = None THEN d ELSE b[d]]
           N == 0..MaxClaims
           w == CHOOSE f : f = [n \in N |-> IF n = 0 THEN c
                                ELSE IF b[f[n - 1]] = None THEN f[n - 1] ELSE b[f[n - 1]]]
<1>1. MaxClaims \in Nat BY GroupAssumption
<1>2. step \in [Ids -> Ids] OBVIOUS
<1>3. PICK f \in [N -> Ids] : Walks(step, c, MaxClaims, f)
  <2> HIDE DEF step
  <2> QED BY <1>1, <1>2, WalkIsThere
<1>4. f = [n \in N |-> IF n = 0 THEN c
                       ELSE IF b[f[n - 1]] = None THEN f[n - 1] ELSE b[f[n - 1]]]
  <2>1. \A n \in N : n # 0 => n - 1 \in N BY <1>1
  <2>2. \A n \in N : n # 0 => f[n - 1] \in Ids BY <1>3, <2>1
  <2> QED BY <1>3, <2>2 DEF Walks
<1>5. w = [n \in N |-> IF n = 0 THEN c
                       ELSE IF b[w[n - 1]] = None THEN w[n - 1] ELSE b[w[n - 1]]]
  BY <1>4
<1> DEFINE T == {n \in N : w[n] \notin Ids}
<1> HIDE DEF w
<1>6. T = {}
  <2> SUFFICES ASSUME T # {} PROVE FALSE OBVIOUS
  <2>1. PICK m \in T : \A k \in T : m <= k
    <3>1. T \subseteq Nat BY <1>1
    <3> HIDE DEF T
    <3> QED BY <3>1, MinIsThere
  <2>2. m # 0 BY <1>5, <2>1
  <2>3. m - 1 \in N /\ m - 1 \notin T BY <1>1, <2>1, <2>2
  <2>4. w[m - 1] \in Ids BY <2>3
  <2>5. w[m] \in Ids BY <1>5, <2>1, <2>2, <2>4
  <2> QED BY <2>1, <2>5
<1>7. w \in [N -> Ids] BY <1>5, <1>6
<1>8. w[MaxClaims] = TipIn(b, c)
  <2>1. CASE b[c] # None BY <2>1 DEF TipIn, w
  <2>2. CASE b[c] = None
    <3> DEFINE U == {n \in N : w[n] # c}
    <3>1. U = {}
      <4> SUFFICES ASSUME U # {} PROVE FALSE OBVIOUS
      <4>1. PICK m \in U : \A k \in U : m <= k
        <5>1. U \subseteq Nat BY <1>1
        <5> HIDE DEF U
        <5> QED BY <5>1, MinIsThere
      <4>2. m # 0 BY <1>5, <4>1
      <4>3. m - 1 \in N /\ m - 1 \notin U BY <1>1, <4>1, <4>2
      <4>4. w[m - 1] = c BY <4>3
      <4>5. w[m] = c BY <1>5, <2>2, <4>1, <4>2, <4>4
      <4> QED BY <4>1, <4>5
    <3>2. w[MaxClaims] = c BY <1>1, <3>1
    <3> QED BY <2>2, <3>2 DEF TipIn
  <2> QED BY <2>1, <2>2
<1>9. /\ w[0] = c
      /\ \A n \in 1..MaxClaims :
            w[n] = IF b[w[n - 1]] = None THEN w[n - 1] ELSE b[w[n - 1]]
  BY <1>1, <1>5
<1> QED BY <1>7, <1>8, <1>9

LEMMA EndIsClaim ==
    ASSUME NEW b \in [Ids -> Ids \cup {None}], NEW c \in Ids
    PROVE  TipIn(b, c) \in Ids
<1>1. MaxClaims \in 0..MaxClaims BY GroupAssumption
<1> QED BY <1>1, TipIsWalkedTo

LEMMA TipIsClaim ==
    ASSUME by \in [Ids -> Ids \cup {None}], NEW c \in Ids
    PROVE  Tip(c) \in Ids
<1>1. TipIn(by, c) \in Ids BY EndIsClaim
<1> QED BY <1>1 DEF Tip, TipIn

----------------------------------------------------------------------------
(* The operators *)

LEMMA ConstantsAreNat == MaxClaims \in Nat /\ MaxClaims # 0 /\ Values \subseteq Nat /\ None \notin Values
  BY GroupAssumption DEF Values

\* find_by_conflict_key answers with one of the claims.
LEMMA FirstIsOne ==
    ASSUME NEW M, M \subseteq Ids, M # {}
    PROVE  FirstOf(M) \in M
<1>1. Ids \subseteq Nat BY ConstantsAreNat DEF Ids
<1>2. ASSUME NEW S, S \subseteq Ids, S # {} PROVE Min(S) \in S /\ Max(S) \in S
  <2>1. Min(S) \in S BY <1>1, <1>2, MinIsThere
  <2>2. Max(S) \in S BY <1>2, ConstantsAreNat, MaxIsThere DEF Ids
  <2> QED BY <2>1, <2>2
<1>3. CASE M \cap ActiveOnes # {}
  <2>1. Min(M \cap ActiveOnes) \in M BY <1>2, <1>3
  <2> QED BY <1>3, <2>1 DEF FirstOf
<1>4. CASE M \cap ActiveOnes = {} /\ M \cap Group # {}
  <2>1. Max(M \cap Group) \in M BY <1>2, <1>4
  <2> QED BY <1>4, <2>1 DEF FirstOf
<1>5. CASE M \cap ActiveOnes = {} /\ M \cap Group = {}
  <2>1. Min(M) \in M BY <1>2
  <2> QED BY <1>5, <2>1 DEF FirstOf
<1> QED BY <1>3, <1>4, <1>5

\* A new claim takes the next free number.
LEMMA NextIsNew ==
    ASSUME RowsFit, NextId \in Ids
    PROVE  /\ NextId \notin Existing
           /\ \E n \in 0..MaxClaims : Existing \cup {NextId} = 1..n
<1>1. PICK n \in 0..MaxClaims : Existing = 1..n BY DEF RowsFit
<1>2. Cardinality(1..n) = n
  <2>1. n \in Nat BY ConstantsAreNat
  <2> QED BY <2>1, FS_Interval
<1>3. NextId = n + 1 BY <1>1, <1>2, ConstantsAreNat DEF NextId, Existing
<1>4. (1..n) \cup {n + 1} = 1..(n + 1) BY ConstantsAreNat
<1>5. n + 1 \in 0..MaxClaims BY <1>3, ConstantsAreNat DEF Ids
<1> QED BY <1>1, <1>3, <1>4, <1>5, ConstantsAreNat

\* Raising the revision keeps everything else, and is noticed.
LEMMA BumpFits ==
    ASSUME CaseFits, NEW k \in Cases
    PROVE  /\ Bump(k) \in Cases
           /\ Bump(k).left = k.left /\ Bump(k).right = k.right /\ Bump(k).member = k.member
           /\ HasOpen => Bump(k).revision # case.revision
<1>1. Raised \in 0..1 /\ (HasOpen => Raised # case.revision) BY DEF CaseFits, Raised, Cases
<1>2. Bump(k) = [k EXCEPT !.revision = Raised, !.dirty = TRUE] BY DEF Bump
<1>3. DOMAIN k = {"revision", "dirty", "tips", "left", "right", "rep", "member"} BY DEF Cases
<1> QED BY <1>1, <1>2, <1>3 DEF Cases

\* What the trigger leaves of an open case: it is raised, or no claim it
\* watches has changed.
LEMMA TouchedFits ==
    ASSUME CaseFits, NEW st, NEW sup
    PROVE  /\ ~HasOpen => Touched(st, sup) = case
           /\ HasOpen =>
                LET k == Touched(st, sup)
                IN  /\ k \in Cases
                    /\ k.left = case.left /\ k.right = case.right /\ k.member = case.member
                    /\ \/ k.revision # case.revision
                       \/ k = case /\ \A c \in Sides(case) \cup Members(case) : st[c] = status[c]
<1>1. ~HasOpen => Touched(st, sup) = case BY DEF Touched
<1>2. CASE HasOpen /\ \E c \in Watched(case) : st[c] # status[c] \/ sup[c] # by[c]
  <2>1. Touched(st, sup) = Bump(case) BY <1>2 DEF Touched
  <2>2. case \in Cases BY <1>2 DEF CaseFits
  <2> QED BY <1>2, <2>1, <2>2, BumpFits
<1>3. CASE HasOpen /\ ~\E c \in Watched(case) : st[c] # status[c] \/ sup[c] # by[c]
  <2>1. Touched(st, sup) = case BY <1>3 DEF Touched
  <2>2. case \in Cases BY <1>3 DEF CaseFits
  <2>3. Sides(case) \cup Members(case) \subseteq Watched(case) BY DEF Sides, Watched
  <2> QED BY <1>3, <2>1, <2>2, <2>3
<1> QED BY <1>1, <1>2, <1>3

\* What claims say, as candidates see it.
Said(M, said) == {said[c].value : c \in M}

\* The case with the claims attached, before the trigger has seen it.
RepGrown(k, M, said) ==
    [v \in Keys(k) \cup Said(M, said) |->
        IF v \in Keys(k) THEN k.rep[v] ELSE FirstOf({c \in M : said[c].value = v})]
MemberGrown(k, M, said) ==
    [c \in Ids |-> IF c \in M /\ k.member[c] = None THEN said[c].value ELSE k.member[c]]
Grown(k, M, said) ==
    [k EXCEPT !.rep = RepGrown(k, M, said), !.member = MemberGrown(k, M, said)]

\* It is a case, its candidates are the old ones and what the claims say, and the
\* trigger fires for a new one.
Grows(k, M, said, g) ==
    /\ g \in Cases
    /\ g.revision = k.revision /\ g.dirty = k.dirty /\ g.tips = k.tips
    /\ g.left = k.left /\ g.right = k.right
    /\ g.rep = RepGrown(k, M, said) /\ g.member = MemberGrown(k, M, said)
    /\ Keys(g) = Keys(k) \cup Said(M, said) /\ Members(g) = Members(k) \cup M
    /\ Attach(k, M, said) = IF Said(M, said) \subseteq Keys(k) THEN g ELSE Bump(g)

LEMMA GrownFits ==
    ASSUME NEW k \in Cases,
           NEW M, M \subseteq Ids, NEW said, \A c \in M : said[c].value \in Values
    PROVE  Grows(k, M, said, Grown(k, M, said))
<1> DEFINE rep == RepGrown(k, M, said)
           member == MemberGrown(k, M, said)
           g == Grown(k, M, said)
<1>1. PICK V \in SUBSET Values : k.rep \in [V -> Ids] BY DEF Cases
<1>2. Keys(k) = V BY <1>1 DEF Keys
<1>3. rep \in [V \cup Said(M, said) -> Ids]
  <2> SUFFICES ASSUME NEW v \in V \cup Said(M, said)
               PROVE  (IF v \in V THEN k.rep[v]
                       ELSE FirstOf({c \in M : said[c].value = v})) \in Ids
    BY <1>2 DEF RepGrown
  <2>1. CASE v \in V BY <1>1, <2>1
  <2>2. CASE v \notin V
    <3> DEFINE S == {c \in M : said[c].value = v}
    <3>1. S # {} BY <2>2 DEF Said
    <3>2. S \subseteq Ids OBVIOUS
    <3>3. FirstOf(S) \in S
      <4> HIDE DEF S
      <4> QED BY <3>1, <3>2, FirstIsOne
    <3> QED BY <2>2, <3>2, <3>3
  <2> QED BY <2>1, <2>2
<1>4. V \cup Said(M, said) \subseteq Values BY DEF Said
<1>5. member \in [Ids -> Values \cup {None}]
  <2>1. k.member \in [Ids -> Values \cup {None}] BY DEF Cases
  <2> QED BY <2>1 DEF MemberGrown
<1>6. /\ DOMAIN k = {"revision", "dirty", "tips", "left", "right", "rep", "member"}
      /\ k = [x \in DOMAIN k |-> k[x]]
  BY DEF Cases
<1>7. \A c \in Ids : c \in M \/ k.member[c] # None <=> member[c] # None
  BY ConstantsAreNat DEF MemberGrown
<1>8. DOMAIN rep = Keys(k) \cup Said(M, said) BY DEF RepGrown
<1>9. g = [k EXCEPT !.rep = rep, !.member = member] BY DEF Grown
<1> HIDE DEF rep, member, g
<1>10. /\ g.revision = k.revision /\ g.dirty = k.dirty /\ g.tips = k.tips
       /\ g.left = k.left /\ g.right = k.right /\ g.rep = rep /\ g.member = member
  BY <1>6, <1>9
<1>11. g \in Cases
  <2>1. rep \in UNION {[W -> Ids] : W \in SUBSET Values} BY <1>3, <1>4
  <2> QED BY <1>5, <1>9, <2>1 DEF Cases
<1>12. Keys(g) = Keys(k) \cup Said(M, said) /\ Members(g) = Members(k) \cup M
  BY <1>7, <1>8, <1>10 DEF Keys, Members
<1>13. Attach(k, M, said) = IF Said(M, said) \subseteq Keys(k) THEN g ELSE Bump(g)
  <2> DEFINE fresh == Said(M, said) \ Keys(k)
  <2>1. Keys(k) \cup fresh = Keys(k) \cup Said(M, said) OBVIOUS
  <2>2. fresh = {} <=> Said(M, said) \subseteq Keys(k) OBVIOUS
  <2>3. Attach(k, M, said) =
          LET h == [k EXCEPT
                      !.rep = [v \in Keys(k) \cup fresh |->
                                  IF v \in Keys(k) THEN k.rep[v]
                                  ELSE FirstOf({c \in M : said[c].value = v})],
                      !.member = member]
          IN  IF fresh = {} THEN h ELSE Bump(h)
    BY DEF Attach, Said, member, MemberGrown
  <2> HIDE DEF fresh
  <2> QED BY <1>9, <2>1, <2>2, <2>3 DEF rep, RepGrown
<1> QED BY <1>10, <1>11, <1>12, <1>13 DEF rep, member, g, Grows

\* Attaching claims makes each of them a member and takes no member away.
LEMMA AttachFits ==
    ASSUME CaseFits, NEW k \in Cases,
           NEW M, M \subseteq Ids, NEW said, \A c \in M : said[c].value \in Values
    PROVE  LET e == Attach(k, M, said)
           IN  /\ e \in Cases
               /\ e.left = k.left /\ e.right = k.right
               /\ Members(e) = Members(k) \cup M
               /\ e.revision = k.revision \/ (HasOpen => e.revision # case.revision)
<1> DEFINE g == Grown(k, M, said)
<1>1. /\ g \in Cases /\ g.revision = k.revision /\ g.left = k.left /\ g.right = k.right
      /\ Members(g) = Members(k) \cup M
      /\ Attach(k, M, said) \in {g, Bump(g)}
  <2>1. Grows(k, M, said, g) BY GrownFits
  <2> HIDE DEF g
  <2> QED BY <2>1 DEF Grows
<1> HIDE DEF g
<1>2. /\ Bump(g) \in Cases
      /\ Bump(g).left = g.left /\ Bump(g).right = g.right /\ Bump(g).member = g.member
      /\ HasOpen => Bump(g).revision # case.revision
  BY <1>1, BumpFits
<1>3. Members(Bump(g)) = Members(g) BY <1>2 DEF Members
<1> QED BY <1>1, <1>2, <1>3

\* A new case has two sides, among the claims of the dispute.
LEMMA NewCaseFits ==
    ASSUME NEW M, M \subseteq Ids, NEW said, \A c \in M : said[c].value \in Values,
           Cardinality(Said(M, said)) > 1
    PROVE  /\ NewCase(M, said) \in Cases
           /\ Sides(NewCase(M, said)) \subseteq M /\ Members(NewCase(M, said)) = {}
<1> DEFINE keys == Said(M, said)
           low == Min(keys)
           oldest(v) == Min({c \in M : said[c].value = v})
<1>1. keys \subseteq Nat BY ConstantsAreNat DEF Said
<1>2. keys # {} /\ \A x : keys # {x}
  <2>1. Cardinality(keys) > 1 OBVIOUS
  <2> HIDE DEF keys
  <2>2. keys # {}
    <3>1. Cardinality({}) = 0 BY FS_EmptySet
    <3> QED BY <2>1, <3>1
  <2>3. ASSUME NEW x, keys = {x} PROVE FALSE
    <3>1. Cardinality({x}) = 1 BY FS_Singleton
    <3> QED BY <2>1, <2>3, <3>1
  <2> QED BY <2>2, <2>3
<1>3. ASSUME NEW v \in keys PROVE oldest(v) \in M
  <2> DEFINE S == {c \in M : said[c].value = v}
  <2>1. S # {} BY DEF Said
  <2>2. S \subseteq Ids OBVIOUS
  <2>3. Min(S) \in S
    <3>1. Ids \subseteq Nat BY ConstantsAreNat DEF Ids
    <3> HIDE DEF S
    <3> QED BY <2>1, <2>2, <3>1, MinIsThere
  <2> QED BY <2>2, <2>3
<1>4. low \in keys
  <2> HIDE DEF keys
  <2> QED BY <1>1, <1>2, MinIsThere
<1>5. Min(keys \ {low}) \in keys
  <2> HIDE DEF keys, low
  <2>1. keys \ {low} # {} /\ keys \ {low} \subseteq Nat BY <1>1, <1>2, <1>4
  <2> QED BY <2>1, MinIsThere
<1>6. oldest(low) \in M /\ oldest(Min(keys \ {low})) \in M
  <2> HIDE DEF keys, low, oldest
  <2> QED BY <1>3, <1>4, <1>5
<1> DEFINE noRep == [v \in {} |-> 0]
           noMember == [c \in Ids |-> None]
<1>7. noRep \in UNION {[V -> Ids] : V \in SUBSET Values}
  <2>1. noRep \in [{} -> Ids] /\ {} \in SUBSET Values OBVIOUS
  <2> HIDE DEF noRep
  <2> QED BY <2>1
<1>8. NewCase(M, said) =
        [revision |-> 0, dirty |-> TRUE, tips |-> {},
         left |-> oldest(low), right |-> oldest(Min(keys \ {low})),
         rep |-> noRep, member |-> noMember]
  BY DEF NewCase, Said
<1>9. noMember \in [Ids -> Values \cup {None}] OBVIOUS
<1>10. Members(NewCase(M, said)) = {} BY <1>8 DEF Members
<1> HIDE DEF keys, low, oldest, noRep, noMember
<1>11. Sides(NewCase(M, said)) \subseteq M BY <1>6, <1>8 DEF Sides
<1>12. oldest(low) \in Ids /\ oldest(Min(keys \ {low})) \in Ids BY <1>6
<1>13. NewCase(M, said) \in Cases BY <1>7, <1>8, <1>9, <1>12 DEF Cases
<1> QED BY <1>10, <1>11, <1>13

\* The case after a dispute: the open one grown, or a new one.
LEMMA EnsuredFits ==
    ASSUME CaseFits, NEW k, k = None \/ k \in Cases,
           NEW M, M \subseteq Ids, NEW said, \A c \in M : said[c].value \in Values,
           k = None => Cardinality(Said(M, said)) > 1
    PROVE  LET e == Ensured(k, M, said)
           IN  /\ e \in Cases
               /\ M \subseteq Members(e)
               /\ k = None => Sides(e) \cup Members(e) \subseteq M
               /\ k # None =>
                    /\ e.left = k.left /\ e.right = k.right
                    /\ Members(e) = Members(k) \cup M
                    /\ e.revision = k.revision \/ (HasOpen => e.revision # case.revision)
<1>1. CASE k = None
  <2>1. NewCase(M, said) \in Cases BY <1>1, NewCaseFits
  <2>2. Ensured(k, M, said) = Attach(NewCase(M, said), M, said) BY <1>1 DEF Ensured
  <2>3. Sides(Attach(NewCase(M, said), M, said)) = Sides(NewCase(M, said))
    BY <2>1, AttachFits DEF Sides
  <2>4. /\ Attach(NewCase(M, said), M, said) \in Cases
        /\ Members(Attach(NewCase(M, said), M, said)) = Members(NewCase(M, said)) \cup M
    BY <2>1, AttachFits
  <2>5. Members(NewCase(M, said)) = {} /\ Sides(NewCase(M, said)) \subseteq M
    BY <1>1, NewCaseFits
  <2> QED BY <1>1, <2>2, <2>3, <2>4, <2>5
<1>2. CASE k # None
  <2>1. Ensured(k, M, said) = Attach(k, M, said) BY <1>2 DEF Ensured
  <2>2. /\ Attach(k, M, said) \in Cases
        /\ Attach(k, M, said).left = k.left /\ Attach(k, M, said).right = k.right
        /\ Members(Attach(k, M, said)) = Members(k) \cup M
        /\ \/ Attach(k, M, said).revision = k.revision
           \/ HasOpen => Attach(k, M, said).revision # case.revision
    BY <1>2, AttachFits
  <2> QED BY <1>2, <2>1, <2>2
<1> QED BY <1>1, <1>2

----------------------------------------------------------------------------
(* What the actions share *)

\* A verdict that is neither taken nor replaced stays what its docket called for.
LEMMA VerdictAges ==
    ASSUME VerdictDecided, verdict' \in {verdict, Stale, None}
    PROVE  VerdictDecided'
  BY DEF VerdictDecided

\* A dossier survives only a step that leaves the claims it may list alone.
LEMMA DossierSurvives ==
    ASSUME DossierFits, dossier' = AgedDossier,
           HasOpen =>
               \/ case' = None
               \/ case'.revision # case.revision
               \/ /\ HasOpen'
                  /\ Sides(case) \cup Members(case) \subseteq (Sides(case) \cup Members(case))'
                  /\ \A c \in Sides(case) \cup Members(case) : status'[c] = status[c]
    PROVE  DossierFits'
<1>1. CASE dossier = None
  BY <1>1 DEF AgedDossier, DossierFits
<1>2. CASE dossier # None /\ MovesOn
  BY <1>2 DEF AgedDossier, DossierFits
<1>3. CASE dossier # None /\ ~MovesOn
  <2>1. dossier' = dossier BY <1>3 DEF AgedDossier
  <2>2. HasOpen BY <1>3 DEF DossierFits
  <2>3. /\ HasOpen'
        /\ Sides(case) \cup Members(case) \subseteq (Sides(case) \cup Members(case))'
        /\ \A c \in Sides(case) \cup Members(case) : status'[c] = status[c]
    BY <1>3, <2>2 DEF MovesOn
  <2>4. /\ DOMAIN dossier \subseteq Sides(case) \cup Members(case)
        /\ \A c \in DOMAIN dossier : status[c] = dossier[c]
    BY <1>3 DEF DossierFits
  <2>5. DOMAIN dossier' \subseteq (Sides(case) \cup Members(case))' BY <2>1, <2>3, <2>4
  <2>6. \A c \in DOMAIN dossier' : status'[c] = dossier'[c] BY <2>1, <2>3, <2>4
  <2> QED BY <2>3, <2>5, <2>6 DEF DossierFits
<1> QED BY <1>1, <1>2, <1>3

\* The trigger keeps the case, its claims and what people may still use.
LEMMA TouchedKeeps ==
    ASSUME CaseFits, CaseOfClaims, DossierFits, VerdictDecided, NobodyDecides, NEW sup,
           Existing \subseteq Existing',
           case' = Touched(status', sup)
    PROVE  /\ CaseFits' /\ CaseOfClaims' /\ DossierFits' /\ VerdictDecided'
           /\ HasOpen' = HasOpen
           /\ HasOpen => (Sides(case) \cup Members(case))' = Sides(case) \cup Members(case)
<1>1. HasOpen' = HasOpen /\ CaseFits'
  BY TouchedFits, NoneAssumption DEF HasOpen, CaseFits
<1>2. HasOpen => Sides(case)' = Sides(case) /\ Members(case)' = Members(case)
  BY TouchedFits DEF Sides, Members
<1>3. VerdictDecided' BY VerdictAges DEF NobodyDecides, AgedVerdict
<1>4. HasOpen => \/ case'.revision # case.revision
                 \/ \A c \in Sides(case) \cup Members(case) : status'[c] = status[c]
  BY TouchedFits
<1>5. DossierFits'
  BY <1>1, <1>2, <1>4, DossierSurvives DEF NobodyDecides
<1>6. CaseOfClaims' BY <1>1, <1>2 DEF CaseOfClaims
<1> QED BY <1>1, <1>2, <1>3, <1>5, <1>6

\* So does a dispute, whose claims become members.
LEMMA EnsuredKeeps ==
    ASSUME CaseFits, CaseOfClaims, DossierFits, VerdictDecided, NobodyDecides, NEW sup,
           NEW M, M \subseteq Ids, Existing \cup M \subseteq Existing', NEW said, \A c \in M : said[c].value \in Values,
           CanEnsure(M, said),
           case' = Ensured(Touched(status', sup), M, said)
    PROVE  /\ CaseFits' /\ CaseOfClaims' /\ DossierFits' /\ VerdictDecided'
           /\ HasOpen' /\ M \subseteq Members(case)'
<1> DEFINE k == Touched(status', sup)
<1>1. /\ k = None \/ k \in Cases
      /\ k = None => ~HasOpen
  BY TouchedFits, NoneAssumption DEF HasOpen
<1>2. ~HasOpen => k = None BY TouchedFits DEF HasOpen
<1>3. k = None => Cardinality(Said(M, said)) > 1 BY <1>1 DEF CanEnsure, Said
<1>4. /\ case' \in Cases
      /\ M \subseteq Members(case')
      /\ k = None => Sides(case') \cup Members(case') \subseteq M
      /\ k # None =>
           /\ case'.left = k.left /\ case'.right = k.right
           /\ Members(case') = Members(k) \cup M
           /\ case'.revision = k.revision \/ (HasOpen => case'.revision # case.revision)
  <2>1. case' = Ensured(k, M, said) OBVIOUS
  <2> HIDE DEF k
  <2> QED BY <1>1, <1>3, <2>1, EnsuredFits
<1>5. HasOpen' /\ CaseFits' BY <1>4, NoneAssumption DEF HasOpen, CaseFits
<1>6. VerdictDecided' BY VerdictAges DEF NobodyDecides, AgedVerdict
<1>7. M \subseteq Members(case)' BY <1>4 DEF Members
<1>8. HasOpen =>
        \/ case'.revision # case.revision
        \/ /\ Sides(case) \cup Members(case) \subseteq (Sides(case) \cup Members(case))'
           /\ \A c \in Sides(case) \cup Members(case) : status'[c] = status[c]
  <2> SUFFICES ASSUME HasOpen, case'.revision = case.revision
               PROVE  /\ Sides(case) \cup Members(case) \subseteq (Sides(case) \cup Members(case))'
                      /\ \A c \in Sides(case) \cup Members(case) : status'[c] = status[c]
    OBVIOUS
  <2>1. k # None /\ case'.revision = k.revision BY <1>1, <1>4
  <2>2. k = case /\ \A c \in Sides(case) \cup Members(case) : status'[c] = status[c]
    BY <2>1, TouchedFits
  <2>3. Sides(case) \cup Members(case) \subseteq (Sides(case) \cup Members(case))'
    BY <1>4, <2>1, <2>2 DEF Sides, Members
  <2> QED BY <2>2, <2>3
<1>9. DossierFits' BY <1>5, <1>8, DossierSurvives DEF NobodyDecides
<1>10. CaseOfClaims'
  <2>1. CASE k = None
    <3>1. Sides(case') \cup Members(case') \subseteq Existing' BY <1>4, <2>1
    <3> QED BY <3>1 DEF CaseOfClaims, Sides, Members
  <2>2. CASE k # None
    <3>1. HasOpen BY <1>2, <2>2
    <3>2. Sides(k) = Sides(case) /\ Members(k) = Members(case)
      BY <3>1, TouchedFits DEF Sides, Members
    <3>3. Sides(case') \cup Members(case') \subseteq Sides(k) \cup Members(k) \cup M
      BY <1>4, <2>2 DEF Sides
    <3>4. Sides(case') \cup Members(case') \subseteq Existing'
      BY <3>1, <3>2, <3>3 DEF CaseOfClaims
    <3> QED BY <3>4 DEF CaseOfClaims, Sides, Members
  <2> QED BY <2>1, <2>2
<1> QED BY <1>5, <1>6, <1>7, <1>9, <1>10

\* A convergence leaves one active claim and no disputed one.
LEMMA SupersedingFits ==
    ASSUME RowsFit, NEW w \in Ids,
           status' = Superseding(w), by' = Succession(w)
    PROVE  /\ status' \in [Ids -> Statuses \cup {"none"}]
           /\ by' \in [Ids -> Ids \cup {None}]
           /\ Existing' = Existing \cup {w}
           /\ AtMostOne'
           /\ \A c \in Ids : status'[c] # "disputed"
<1>1. status \in [Ids -> Statuses \cup {"none"}] /\ by \in [Ids -> Ids \cup {None}]
  BY DEF RowsFit
<1>2. \A c \in Ids : status'[c] = IF c = w THEN "active"
                                  ELSE IF c \in Group THEN "superseded" ELSE status[c]
  BY DEF Superseding
<1>3. status' \in [Ids -> Statuses \cup {"none"}] BY <1>1 DEF Superseding, Statuses
<1>4. by' \in [Ids -> Ids \cup {None}] BY <1>1 DEF Succession
<1>5. \A c \in Ids : c \in Group <=> status[c] \in {"active", "disputed"} BY DEF Group, Nonterminal
<1>6. Existing' = Existing \cup {w} BY <1>2, <1>5 DEF Existing, Exists
<1>7. AtMostOne'
  <2>1. \A c \in ActiveOnes' : c = w BY <1>2, <1>5 DEF ActiveOnes
  <2> QED BY <2>1 DEF AtMostOne
<1>8. \A c \in Ids : status'[c] # "disputed" BY <1>2, <1>5
<1> QED BY <1>3, <1>4, <1>6, <1>7, <1>8

\* What the steps of Next may do to the status of a claim.
LegalStep == \A c \in Ids : status'[c] # status[c] => status'[c] \in Allowed[status[c]]

\* The database side of a convergence on a living claim.
LEMMA ConvergeFits ==
    ASSUME RowsFit, NEW w, w \in Ids, status[w] \in Nonterminal, Converge(w), UNCHANGED fact
    PROVE  /\ RowsFit' /\ AtMostOne' /\ LegalStep /\ Existing' = Existing
           /\ \A c \in Ids : status'[c] # "disputed"
<1>1. status' = Superseding(w) /\ by' = Succession(w) BY DEF Converge
<1>2. w \in Existing BY DEF Existing, Exists, Nonterminal
<1>3. Existing' = Existing BY <1>1, <1>2, SupersedingFits
<1>4. RowsFit' BY <1>1, <1>3, SupersedingFits DEF RowsFit
<1>5. LegalStep BY <1>1 DEF LegalStep, Superseding, Group, Nonterminal, Allowed
<1> QED BY <1>1, <1>3, <1>4, <1>5, SupersedingFits

----------------------------------------------------------------------------
(* The steps *)

\* Where no claim is disputed there is no orphan.
LEMMA NoneDisputed ==
    ASSUME \A c \in Ids : status'[c] # "disputed"
    PROVE  OnlyObsoleteOrphans'
  BY DEF OnlyObsoleteOrphans

\* Where the open case and its claims stay and nothing new is disputed, neither.
LEMMA OrphansStay ==
    ASSUME OnlyObsoleteOrphans, UNCHANGED ended, HasOpen' = HasOpen,
           HasOpen => \A c \in Sides(case) \cup Members(case) :
                          c \in (Sides(case) \cup Members(case))' \/ status'[c] # "disputed",
           \A c \in Ids : status'[c] = "disputed" => status[c] = "disputed"
    PROVE  OnlyObsoleteOrphans'
  BY DEF OnlyObsoleteOrphans, InOpenCase, ReopensTerminal

\* Where all disputed claims are members of the open case, neither.
LEMMA DisputedAreMembers ==
    ASSUME HasOpen', \A c \in Ids : status'[c] = "disputed" => c \in Members(case)'
    PROVE  OnlyObsoleteOrphans'
  BY DEF OnlyObsoleteOrphans, InOpenCase

\* A group is reasserted on one of its living claims.
LEMMA WinnerIsLiving ==
    ASSUME NEW f \in Facts, Reassert(f)
    PROVE  \E w \in Ids : status[w] \in Nonterminal /\ Converge(w)
<1> DEFINE w == IF ActiveOnes # {} THEN Min(ActiveOnes)
                ELSE IF ExactDuplicate(f) THEN Max(SameHash(f)) ELSE FirstOf(Group)
<1>1. w \in Ids /\ status[w] \in Nonterminal
  <2>1. Ids \subseteq Nat BY ConstantsAreNat DEF Ids
  <2>2. CASE ActiveOnes # {}
    <3>1. ActiveOnes \subseteq Ids /\ \A c \in ActiveOnes : status[c] \in Nonterminal
      BY DEF ActiveOnes, Nonterminal
    <3>2. Min(ActiveOnes) \in ActiveOnes BY <2>1, <2>2, <3>1, MinIsThere
    <3> QED BY <2>2, <3>1, <3>2
  <2>3. CASE ActiveOnes = {} /\ ExactDuplicate(f)
    <3>1. SameHash(f) \subseteq Group /\ SameHash(f) # {} BY <2>3 DEF SameHash, ExactDuplicate
    <3>2. Group \subseteq Ids /\ \A c \in Group : status[c] \in Nonterminal BY DEF Group
    <3>3. SameHash(f) \subseteq 1..MaxClaims BY <3>1, <3>2 DEF Ids
    <3>4. Max(SameHash(f)) \in SameHash(f) BY <3>1, <3>3, ConstantsAreNat, MaxIsThere
    <3> QED BY <2>3, <3>1, <3>2, <3>4
  <2>4. CASE ActiveOnes = {} /\ ~ExactDuplicate(f)
    <3>1. Group # {} BY <2>4 DEF Reassert
    <3>2. Group \subseteq Ids /\ \A c \in Group : status[c] \in Nonterminal BY DEF Group
    <3>3. FirstOf(Group) \in Group BY <3>1, <3>2, FirstIsOne
    <3> QED BY <2>4, <3>2, <3>3
  <2> QED BY <2>2, <2>3, <2>4
<1>2. Converge(w) BY DEF Reassert
<1> HIDE DEF w
<1> QED BY <1>1, <1>2

LEMMA ReassertStep ==
    ASSUME GroupInv, NEW f \in Facts, Reassert(f)
    PROVE  GroupInv' /\ LegalStep
<1> USE DEF GroupInv
<1>1. PICK w \in Ids : status[w] \in Nonterminal /\ Converge(w) BY WinnerIsLiving
<1>2. /\ UNCHANGED fact
      /\ case' = Touched(status', by') /\ NobodyDecides /\ UNCHANGED ended
  BY DEF Reassert, Keep
<1>3. /\ RowsFit' /\ AtMostOne' /\ LegalStep /\ Existing' = Existing
      /\ \A c \in Ids : status'[c] # "disputed"
  BY <1>1, <1>2, ConvergeFits
<1>4. CaseFits' /\ CaseOfClaims' /\ DossierFits' /\ VerdictDecided' BY <1>2, <1>3, TouchedKeeps
<1>5. EndedFits' BY <1>2 DEF EndedFits
<1> QED BY <1>3, <1>4, <1>5, NoneDisputed

LEMMA ReassertInDisputeStep ==
    ASSUME GroupInv, NEW f \in Facts, ReassertInDispute(f)
    PROVE  GroupInv' /\ LegalStep
<1> USE DEF GroupInv
<1>1. /\ status' = [c \in Ids |-> IF c \in Group THEN "disputed" ELSE status[c]]
      /\ case' = Ensured(Touched(status', by), Group, fact)
      /\ CanEnsure(Group, fact)
      /\ NobodyDecides /\ UNCHANGED <<fact, by, ended>>
  BY DEF ReassertInDispute, Keep
<1>2. Group \subseteq Ids /\ \A c \in Ids : c \in Group <=> status[c] \in {"active", "disputed"}
  BY DEF Group, Nonterminal
<1>3. \A c \in Group : fact[c].value \in Values
  BY <1>2 DEF RowsFit, Existing, Exists, Values
<1>4. Existing' = Existing /\ Group \subseteq Existing
  BY <1>1, <1>2 DEF Existing, Exists
<1>5. /\ CaseFits' /\ CaseOfClaims' /\ DossierFits' /\ VerdictDecided'
      /\ HasOpen' /\ Group \subseteq Members(case)'
  BY <1>1, <1>2, <1>3, <1>4, EnsuredKeeps
<1>6. status' \in [Ids -> Statuses \cup {"none"}] BY <1>1 DEF RowsFit, Statuses
<1>7. RowsFit' BY <1>1, <1>4, <1>6 DEF RowsFit
<1>8. AtMostOne' BY <1>1, <1>2 DEF AtMostOne, ActiveOnes
<1>9. OnlyObsoleteOrphans' BY <1>1, <1>2, <1>5, DisputedAreMembers
<1>10. LegalStep BY <1>1, <1>2 DEF LegalStep, Allowed
<1> QED BY <1>1, <1>5, <1>7, <1>8, <1>9, <1>10 DEF EndedFits

\* The new row and what it says.
LEMMA InsertFits ==
    ASSUME RowsFit, NEW f \in Facts, Insert(f)
    PROVE  /\ NextId \in Ids /\ NextId \notin Existing /\ status[NextId] = "none"
           /\ fact' \in [Ids -> Facts \cup {None}]
           /\ \A c \in Existing \cup {NextId} : fact'[c] \in Facts
           /\ \E n \in 0..MaxClaims : Existing \cup {NextId} = 1..n
<1>1. NextId \in Ids /\ fact' = [fact EXCEPT ![NextId] = f] BY DEF Insert
<1>2. NextId \notin Existing /\ \E n \in 0..MaxClaims : Existing \cup {NextId} = 1..n
  BY <1>1, NextIsNew
<1>3. fact \in [Ids -> Facts \cup {None}] /\ \A c \in Existing : c \in Ids /\ fact[c] \in Facts
  BY DEF RowsFit, Existing
<1> HIDE DEF NextId
<1>4. fact' \in [Ids -> Facts \cup {None}] /\ \A c \in Existing \cup {NextId} : fact'[c] \in Facts
  BY <1>1, <1>2, <1>3
<1> QED BY <1>1, <1>2, <1>4 DEF Existing, Exists

LEMMA StateStep ==
    ASSUME GroupInv, NEW f \in Facts, State(f)
    PROVE  GroupInv' /\ LegalStep
<1> USE DEF GroupInv
<1> DEFINE n == NextId
<1>1. /\ n \in Ids /\ n \notin Existing /\ status[n] = "none"
      /\ fact' \in [Ids -> Facts \cup {None}]
      /\ \A c \in Existing \cup {n} : fact'[c] \in Facts
      /\ \E m \in 0..MaxClaims : Existing \cup {n} = 1..m
  BY InsertFits DEF State
<1>2. /\ ActiveOnes = {}
      /\ status' = [status EXCEPT ![n] = "active"]
      /\ NobodyDecides /\ UNCHANGED <<by, case, ended>>
  BY DEF State, Keep
<1> HIDE DEF n
<1>3. status \in [Ids -> Statuses \cup {"none"}] BY DEF RowsFit
<1>4. status' \in [Ids -> Statuses \cup {"none"}] BY <1>2, <1>3 DEF Statuses
<1>5. Existing' = Existing \cup {n} BY <1>1, <1>2, <1>3 DEF Existing, Exists
<1>6. RowsFit' BY <1>1, <1>2, <1>4, <1>5 DEF RowsFit
<1>7. \A c \in ActiveOnes' : c = n BY <1>2, <1>3 DEF ActiveOnes
<1>8. AtMostOne' BY <1>7 DEF AtMostOne
<1>9. LegalStep BY <1>1, <1>2, <1>3 DEF LegalStep, Allowed
<1>10. OnlyObsoleteOrphans'
  <2>1. \A c \in Ids : status'[c] = "disputed" => status[c] = "disputed" BY <1>2, <1>3
  <2>2. HasOpen' = HasOpen /\ (Sides(case) \cup Members(case))' = Sides(case) \cup Members(case)
    BY <1>2 DEF HasOpen, Sides, Members
  <2> QED BY <1>2, <2>1, <2>2, OrphansStay
<1>11. CaseFits' /\ EndedFits' BY <1>2 DEF CaseFits, EndedFits, HasOpen
<1>12. CaseOfClaims' BY <1>2, <1>5 DEF CaseOfClaims, HasOpen, Sides, Members
<1>13. DossierFits'
  <2>1. HasOpen => \A c \in Sides(case) \cup Members(case) : status'[c] = status[c]
    BY <1>1, <1>2, <1>3 DEF CaseOfClaims, Existing
  <2>2. HasOpen' = HasOpen /\ (Sides(case) \cup Members(case))' = Sides(case) \cup Members(case)
    BY <1>2 DEF HasOpen, Sides, Members
  <2> QED BY <1>2, <2>1, <2>2, DossierSurvives DEF NobodyDecides
<1>14. VerdictDecided' BY <1>2, VerdictAges DEF NobodyDecides, AgedVerdict
<1> QED BY <1>6, <1>8, <1>9, <1>10, <1>11, <1>12, <1>13, <1>14

LEMMA SupersedeStep ==
    ASSUME GroupInv, NEW f \in Facts, Supersede(f)
    PROVE  GroupInv' /\ LegalStep
<1> USE DEF GroupInv
<1> DEFINE n == NextId
<1>1. /\ n \in Ids /\ n \notin Existing /\ status[n] = "none"
      /\ fact' \in [Ids -> Facts \cup {None}]
      /\ \A c \in Existing \cup {n} : fact'[c] \in Facts
      /\ \E m \in 0..MaxClaims : Existing \cup {n} = 1..m
  BY InsertFits DEF Supersede
<1>2. /\ status' = Superseding(n) /\ by' = Succession(n)
      /\ case' = Touched(status', by') /\ NobodyDecides /\ UNCHANGED ended
  BY DEF Supersede, Keep
<1> HIDE DEF n
<1>3. /\ status' \in [Ids -> Statuses \cup {"none"}] /\ by' \in [Ids -> Ids \cup {None}]
      /\ Existing' = Existing \cup {n}
      /\ AtMostOne' /\ \A c \in Ids : status'[c] # "disputed"
  BY <1>1, <1>2, SupersedingFits
<1>4. RowsFit' BY <1>1, <1>3 DEF RowsFit
<1>5. CaseFits' /\ CaseOfClaims' /\ DossierFits' /\ VerdictDecided' BY <1>2, <1>3, TouchedKeeps
<1>6. LegalStep BY <1>1, <1>2 DEF LegalStep, Superseding, Group, Nonterminal, Allowed
<1> QED BY <1>2, <1>3, <1>4, <1>5, <1>6, NoneDisputed DEF EndedFits

LEMMA ContestStep ==
    ASSUME GroupInv, NEW f \in Facts, Contest(f)
    PROVE  GroupInv' /\ LegalStep
<1> USE DEF GroupInv
<1> DEFINE n == NextId
           M == Group \cup {n}
<1>1. /\ n \in Ids /\ n \notin Existing /\ status[n] = "none"
      /\ fact' \in [Ids -> Facts \cup {None}]
      /\ \A c \in Existing \cup {n} : fact'[c] \in Facts
      /\ \E m \in 0..MaxClaims : Existing \cup {n} = 1..m
  BY InsertFits DEF Contest
<1>2. /\ status' = [c \in Ids |-> IF c \in M THEN "disputed" ELSE status[c]]
      /\ case' = Ensured(Touched(status', by), M, fact')
      /\ CanEnsure(M, fact')
      /\ NobodyDecides /\ UNCHANGED <<by, ended>>
  BY DEF Contest, Keep
<1> HIDE DEF n
<1>3. Group \subseteq Ids /\ \A c \in Ids : c \in Group <=> status[c] \in {"active", "disputed"}
  BY DEF Group, Nonterminal
<1>4. M \subseteq Ids /\ Group \subseteq Existing BY <1>1, <1>3 DEF Existing, Exists
<1>5. \A c \in M : fact'[c].value \in Values BY <1>1, <1>4 DEF Values
<1>6. Existing' = Existing \cup {n} BY <1>1, <1>2, <1>3 DEF Existing, Exists
<1>7. /\ CaseFits' /\ CaseOfClaims' /\ DossierFits' /\ VerdictDecided'
      /\ HasOpen' /\ M \subseteq Members(case)'
  <2>1. Existing \cup M \subseteq Existing' BY <1>4, <1>6
  <2> HIDE DEF M
  <2> QED BY <1>2, <1>4, <1>5, <2>1, EnsuredKeeps
<1>8. status' \in [Ids -> Statuses \cup {"none"}] BY <1>2 DEF RowsFit, Statuses
<1>9. RowsFit' BY <1>1, <1>2, <1>6, <1>8 DEF RowsFit
<1>10. AtMostOne' BY <1>2, <1>3 DEF AtMostOne, ActiveOnes
<1>11. OnlyObsoleteOrphans' BY <1>2, <1>3, <1>7, DisputedAreMembers
<1>12. LegalStep BY <1>1, <1>2, <1>3 DEF LegalStep, Allowed
<1> QED BY <1>2, <1>7, <1>9, <1>10, <1>11, <1>12 DEF EndedFits

\* The end of a claim, and its return.
LEMMA TurnStep ==
    ASSUME GroupInv, NEW c \in Ids, NEW st \in Statuses, Turn(c, st),
           st # "disputed", st \in Allowed[status[c]], status[c] # "none",
           st = "active" => ActiveOnes = {}
    PROVE  GroupInv' /\ LegalStep
<1> USE DEF GroupInv
<1>1. /\ status' = [status EXCEPT ![c] = st]
      /\ case' = Touched(status', by)
      /\ NobodyDecides /\ UNCHANGED <<fact, by, ended>>
  BY DEF Turn
<1>2. status \in [Ids -> Statuses \cup {"none"}] BY DEF RowsFit
<1>3. status' \in [Ids -> Statuses \cup {"none"}] BY <1>1, <1>2
<1>4. Existing' = Existing BY <1>1, <1>2 DEF Existing, Exists, Statuses
<1>5. RowsFit' BY <1>1, <1>3, <1>4 DEF RowsFit
<1>6. AtMostOne' BY <1>1, <1>2 DEF AtMostOne, ActiveOnes
<1>7. /\ CaseFits' /\ CaseOfClaims' /\ DossierFits' /\ VerdictDecided'
      /\ HasOpen' = HasOpen
      /\ HasOpen => (Sides(case) \cup Members(case))' = Sides(case) \cup Members(case)
  BY <1>1, <1>4, TouchedKeeps
<1>8. OnlyObsoleteOrphans'
  <2>1. \A d \in Ids : status'[d] = "disputed" => status[d] = "disputed" BY <1>1, <1>2
  <2> QED BY <1>1, <1>7, <2>1, OrphansStay
<1>9. LegalStep BY <1>1, <1>2 DEF LegalStep
<1> QED BY <1>1, <1>5, <1>6, <1>7, <1>8, <1>9 DEF EndedFits

LEMMA LifecycleStep ==
    ASSUME GroupInv, NEW c \in Ids,
           Retract(c) \/ Expire(c) \/ Archive(c) \/ Resurrect(c)
    PROVE  GroupInv' /\ LegalStep
<1> USE DEF Statuses, Nonterminal, Allowed
<1>1. CASE Retract(c) BY <1>1, TurnStep DEF Retract
<1>2. CASE Expire(c) BY <1>2, TurnStep DEF Expire
<1>3. CASE Archive(c) BY <1>3, TurnStep DEF Archive
<1>4. CASE Resurrect(c) BY <1>4, TurnStep DEF Resurrect
<1> QED BY <1>1, <1>2, <1>3, <1>4

----------------------------------------------------------------------------
(* The reviewer *)

\* decide_l0 looks at the docket and at nothing else.
LEMMA DecideReads ==
    ASSUME NEW k
    PROVE  DecideIn(status, by, fact, rejected, k) = Decide(k)
<1>1. \A c : Tip(c) = TipIn(by, c) BY DEF TipIn, Tip
<1>2. \A c : Row(c) = RowIn(status, fact, rejected, c) BY DEF Row, RowIn
<1>3. Living(k) = LivingIn(status, by, k) BY <1>1 DEF LivingIn, Living, GoneIn, IsGone
<1> QED BY <1>1, <1>2, <1>3 DEF DecideIn, Decide, DecideGroup

\* The case without its place in the dirty queue and the tips it watches.
Plain(k) == [k EXCEPT !.dirty = FALSE, !.tips = {}]

\* Neither of which the decision depends on.
LEMMA DecideReadsPlain ==
    ASSUME NEW k \in Cases
    PROVE  Decide(Plain(k)) = Decide(k)
<1>1. /\ Plain(k).left = k.left /\ Plain(k).right = k.right
      /\ Plain(k).rep = k.rep /\ Plain(k).member = k.member
  BY DEF Plain, Cases
<1>2. Keys(Plain(k)) = Keys(k) /\ Members(Plain(k)) = Members(k) /\ Sides(Plain(k)) = Sides(k)
  BY <1>1 DEF Keys, Members, Sides
<1>3. Living(Plain(k)) = Living(k) BY <1>1, <1>2 DEF Living
<1> QED BY <1>1, <1>2, <1>3 DEF Decide, DecideGroup

\* What the rules for two claims keep is one of them.
LEMMA PairKeepsOne ==
    ASSUME NEW l, NEW r
    PROVE  \/ DecidePair(l, r) \in {Obsolete, Manual}
           \/ DecidePair(l, r) \in {KeepSide(l.id), KeepSide(r.id)}
  BY DEF DecidePair, Prefer

\* A choice is a claim.
LEMMA ChoiceIsClaim ==
    ASSUME RowsFit, NEW k \in Cases, Decide(k).kind \in {"choose", "keep"}
    PROVE  Decide(k).winner \in Ids
<1>1. Manual.kind \notin {"choose", "keep"} /\ Obsolete.kind \notin {"choose", "keep"}
  BY DEF Manual, Obsolete
<1>2. \A c : Choose(c).winner = c /\ KeepSide(c).winner = c BY DEF Choose, KeepSide
<1>3. by \in [Ids -> Ids \cup {None}] BY DEF RowsFit
<1>4. CASE /\ Keys(k) # {} /\ Living(k) # {}
           /\ Decide(k) = Choose(Tip(k.rep[Min(Living(k))]))
  <2>1. Living(k) \subseteq Keys(k) BY DEF Living
  <2>2. PICK V \in SUBSET Values : k.rep \in [V -> Ids] BY DEF Cases
  <2>3. Keys(k) = V BY <2>2 DEF Keys
  <2>4. Min(Living(k)) \in Living(k)
    BY <1>4, <2>1, <2>3, ConstantsAreNat, MinIsThere
  <2>5. k.rep[Min(Living(k))] \in Ids BY <2>1, <2>2, <2>3, <2>4
  <2> QED BY <1>2, <1>3, <1>4, <2>5, TipIsClaim
<1>5. CASE Decide(k) = DecidePair(Row(Tip(k.left)), Row(Tip(k.right)))
  <2>1. Tip(k.left) \in Ids /\ Tip(k.right) \in Ids BY <1>3, TipIsClaim DEF Cases
  <2>2. \A c : Row(c).id = c BY DEF Row
  <2> QED BY <1>1, <1>2, <1>5, <2>1, <2>2, PairKeepsOne
<1> QED BY <1>1, <1>4, <1>5 DEF Decide, DecideGroup

LEMMA ReviewStep ==
    ASSUME GroupInv, Review
    PROVE  GroupInv' /\ LegalStep
<1> USE DEF GroupInv
<1>1. /\ HasOpen
      /\ verdict' = [docket |-> Docket, decision |-> Decide(case)]
      /\ UNCHANGED <<status, fact, by, case, ended, dossier>>
  BY DEF Review
<1>2. case \in Cases BY <1>1 DEF CaseFits
<1>3. Docket = [case |-> Plain(case), status |-> status,
                fact |-> fact, by |-> by, rejected |-> rejected]
  BY DEF Docket, Plain
<1>4. Decide(case) = DecideIn(status, by, fact, rejected, Plain(case))
  BY <1>2, DecideReads, DecideReadsPlain
<1>5. Decide(case).kind \in {"choose", "keep"} => Decide(case).winner \in Ids
  BY <1>2, ChoiceIsClaim
<1>6. VerdictDecided' BY <1>1, <1>3, <1>4, <1>5 DEF VerdictDecided
<1>7. RowsFit' /\ CaseFits' /\ CaseOfClaims' /\ EndedFits'
  BY <1>1 DEF RowsFit, CaseFits, CaseOfClaims, EndedFits, HasOpen, Sides, Members, Existing, Exists
<1>8. AtMostOne' /\ DossierFits'
  BY <1>1 DEF AtMostOne, ActiveOnes, DossierFits, HasOpen, Sides, Members
<1>9. OnlyObsoleteOrphans'
  BY <1>1 DEF OnlyObsoleteOrphans, InOpenCase, ReopensTerminal, HasOpen, Sides, Members
<1> QED BY <1>1, <1>6, <1>7, <1>8, <1>9 DEF LegalStep

\* The verdict is dropped and nothing else happens.
LEMMA DroppedStep ==
    ASSUME GroupInv, verdict' = None, UNCHANGED <<status, fact, by, case, ended, dossier>>
    PROVE  GroupInv' /\ LegalStep
<1> USE DEF GroupInv
<1>1. VerdictDecided' BY DEF VerdictDecided
<1>2. RowsFit' /\ CaseFits' /\ CaseOfClaims' /\ EndedFits'
  BY DEF RowsFit, CaseFits, CaseOfClaims, EndedFits, HasOpen, Sides, Members, Existing, Exists
<1>3. AtMostOne' /\ DossierFits'
  BY DEF AtMostOne, ActiveOnes, DossierFits, HasOpen, Sides, Members
<1>4. OnlyObsoleteOrphans'
  BY DEF OnlyObsoleteOrphans, InOpenCase, ReopensTerminal, HasOpen, Sides, Members
<1> QED BY <1>1, <1>2, <1>3, <1>4 DEF LegalStep

\* A choice, of the reviewer or of a person, closes the case.
LEMMA SettleStep ==
    ASSUME GroupInv, NEW w \in Ids, Settle(w), UNCHANGED fact,
           verdict' \in {verdict, Stale, None}, dossier' = AgedDossier \/ dossier' = None
    PROVE  GroupInv' /\ LegalStep
<1> USE DEF GroupInv
<1>1. /\ status[w] \in Nonterminal /\ Converge(w)
      /\ case' = None /\ ended' = Append(ended, "chosen")
  BY DEF Settle, Close
<1>2. /\ RowsFit' /\ AtMostOne' /\ LegalStep
      /\ \A c \in Ids : status'[c] # "disputed"
  BY <1>1, ConvergeFits
<1>3. CaseFits' /\ CaseOfClaims' BY <1>1 DEF CaseFits, CaseOfClaims, HasOpen
<1>4. EndedFits' BY <1>1 DEF EndedFits
<1>5. DossierFits'
  <2>1. CASE dossier' = None BY <2>1 DEF DossierFits
  <2>2. CASE dossier' = AgedDossier BY <1>1, <2>2, DossierSurvives
  <2> QED BY <2>1, <2>2
<1> QED BY <1>2, <1>3, <1>4, <1>5, VerdictAges, NoneDisputed

LEMMA ApplyStep ==
    ASSUME GroupInv, Apply
    PROVE  GroupInv' /\ LegalStep
<1> USE DEF GroupInv
<1>1. /\ HasOpen /\ verdict \notin {None, Stale}
      /\ verdict' = None /\ dossier' = AgedDossier /\ UNCHANGED fact
  BY DEF Apply, StillCurrent
<1>2. case \in Cases BY <1>1 DEF CaseFits
<1>3. VerdictDecided' BY <1>1 DEF VerdictDecided
<1>4. CASE /\ case' = [case EXCEPT !.dirty = FALSE, !.tips = {Tip(case.left), Tip(case.right)}]
           /\ UNCHANGED <<status, by, ended>>
  <2>1. by \in [Ids -> Ids \cup {None}] /\ case.left \in Ids /\ case.right \in Ids
    BY <1>2 DEF RowsFit, Cases
  <2>2. {Tip(case.left), Tip(case.right)} \in SUBSET Ids BY <2>1, TipIsClaim
  <2>3. case' \in Cases BY <1>2, <1>4, <2>2 DEF Cases
  <2>4. /\ case'.revision = case.revision
        /\ case'.left = case.left /\ case'.right = case.right /\ case'.member = case.member
    BY <1>2, <1>4 DEF Cases
  <2>5. /\ HasOpen' /\ CaseFits'
        /\ (Sides(case) \cup Members(case))' = Sides(case) \cup Members(case)
    BY <2>3, <2>4, NoneAssumption DEF HasOpen, CaseFits, Sides, Members
  <2>6. DossierFits' BY <1>1, <1>4, <2>5, DossierSurvives
  <2>7. RowsFit' BY <1>1, <1>4 DEF RowsFit, Existing, Exists
  <2>8. CaseOfClaims' BY <1>1, <1>4, <2>5 DEF CaseOfClaims, Existing, Exists
  <2>9. OnlyObsoleteOrphans' BY <1>1, <1>4, <2>5, OrphansStay
  <2>10. AtMostOne' /\ EndedFits' /\ LegalStep
    BY <1>4 DEF AtMostOne, ActiveOnes, EndedFits, LegalStep
  <2> QED BY <1>3, <2>5, <2>6, <2>7, <2>8, <2>9, <2>10
<1>5. CASE Close("obsolete") /\ UNCHANGED <<status, by>>
  <2>1. case' = None /\ ended' = Append(ended, "obsolete") BY <1>5 DEF Close
  <2>2. EndedFits' /\ ended' # <<>> /\ Last(ended') = "obsolete"
    BY <2>1 DEF EndedFits, Last
  <2>3. OnlyObsoleteOrphans' BY <2>1, <2>2 DEF OnlyObsoleteOrphans, ReopensTerminal, HasOpen
  <2>4. CaseFits' /\ CaseOfClaims' BY <2>1 DEF CaseFits, CaseOfClaims, HasOpen
  <2>5. DossierFits' BY <1>1, <2>1, DossierSurvives
  <2>6. RowsFit' /\ AtMostOne' /\ LegalStep
    BY <1>1, <1>5 DEF RowsFit, Existing, Exists, AtMostOne, ActiveOnes, LegalStep
  <2> QED BY <1>3, <2>2, <2>3, <2>4, <2>5, <2>6
<1>6. CASE verdict.decision.kind \in {"choose", "keep"} /\ Settle(verdict.decision.winner)
  <2>1. verdict.decision.winner \in Ids BY <1>1, <1>6 DEF VerdictDecided
  <2> QED BY <1>1, <1>6, <2>1, SettleStep
<1> QED BY <1>4, <1>5, <1>6 DEF Apply

----------------------------------------------------------------------------
(* People *)

LEMMA ReadDossierStep ==
    ASSUME GroupInv, ReadDossier
    PROVE  GroupInv' /\ LegalStep
<1> USE DEF GroupInv
<1>1. /\ HasOpen
      /\ dossier' = [c \in Sides(case) \cup Members(case) |-> status[c]]
      /\ UNCHANGED <<status, fact, by, case, ended, verdict>>
  BY DEF ReadDossier
<1>2. DossierFits'
  <2>1. /\ DOMAIN dossier' = Sides(case) \cup Members(case)
        /\ \A c \in DOMAIN dossier' : dossier'[c] = status[c]
    BY <1>1
  <2> QED BY <1>1, <2>1 DEF DossierFits, HasOpen, Sides, Members
<1>3. RowsFit' /\ CaseFits' /\ CaseOfClaims' /\ EndedFits'
  BY <1>1 DEF RowsFit, CaseFits, CaseOfClaims, EndedFits, HasOpen, Sides, Members, Existing, Exists
<1>4. AtMostOne' /\ VerdictDecided'
  BY <1>1 DEF AtMostOne, ActiveOnes, VerdictDecided
<1>5. OnlyObsoleteOrphans'
  BY <1>1 DEF OnlyObsoleteOrphans, InOpenCase, ReopensTerminal, HasOpen, Sides, Members
<1> QED BY <1>1, <1>2, <1>3, <1>4, <1>5 DEF LegalStep

LEMMA SelectStep ==
    ASSUME GroupInv, NEW w \in Ids, Select(w)
    PROVE  GroupInv' /\ LegalStep
<1>1. /\ Settle(w) /\ UNCHANGED fact
      /\ dossier' = None /\ verdict' \in {verdict, Stale, None}
  BY DEF Select, AgedVerdict
<1> QED BY <1>1, SettleStep

LEMMA RejectStep ==
    ASSUME GroupInv, NEW v \in Values, Reject(v)
    PROVE  GroupInv' /\ LegalStep
<1> USE DEF GroupInv
<1> DEFINE dropped == {c \in Ids : case.member[c] = v}
           rep == [w \in Keys(case) \ {v} |-> case.rep[w]]
           member == [c \in Ids |-> IF c \in dropped THEN None ELSE case.member[c]]
           k == [case EXCEPT !.rep = rep, !.member = member]
<1>1. /\ HasOpen
      /\ status' = [c \in Ids |-> IF c \in dropped \cap Group THEN "retracted" ELSE status[c]]
      /\ dossier' = None /\ verdict' = AgedVerdict
      /\ UNCHANGED <<fact, by, ended>>
  BY DEF Reject, DossierFresh
<1>2. case' = Bump(k) BY DEF Reject
<1>3. case \in Cases BY <1>1 DEF CaseFits
<1>4. /\ k \in Cases
      /\ k.left = case.left /\ k.right = case.right /\ k.member = member
  <2>1. PICK V \in SUBSET Values : case.rep \in [V -> Ids] BY <1>3 DEF Cases
  <2>2. Keys(case) = V BY <2>1 DEF Keys
  <2>3. rep \in [V \ {v} -> Ids] /\ V \ {v} \in SUBSET Values BY <2>1, <2>2
  <2>4. member \in [Ids -> Values \cup {None}] BY <1>3 DEF Cases
  <2>5. rep \in UNION {[W -> Ids] : W \in SUBSET Values}
    <3> HIDE DEF rep
    <3> QED BY <2>3
  <2> HIDE DEF rep, member
  <2> QED BY <1>3, <2>4, <2>5 DEF Cases
<1>5. /\ case' \in Cases
      /\ case'.left = case.left /\ case'.right = case.right /\ case'.member = member
  <2> HIDE DEF k, member
  <2> QED BY <1>2, <1>4, BumpFits
<1>6. HasOpen' /\ CaseFits' BY <1>5, NoneAssumption DEF HasOpen, CaseFits
<1>7. /\ Sides(case)' = Sides(case)
      /\ Members(case)' = Members(case) \ dropped
  <2>1. \A c \in Ids : member[c] # None <=> case.member[c] # None /\ c \notin dropped
    OBVIOUS
  <2> HIDE DEF member, dropped
  <2> QED BY <1>5, <2>1 DEF Sides, Members
<1>8. Group \subseteq Ids /\ \A c \in Ids : c \in Group <=> status[c] \in {"active", "disputed"}
  BY DEF Group, Nonterminal
<1> HIDE DEF dropped
<1>9. Existing' = Existing BY <1>1, <1>8 DEF Existing, Exists
<1>10. status' \in [Ids -> Statuses \cup {"none"}] BY <1>1 DEF RowsFit, Statuses
<1>11. RowsFit' BY <1>1, <1>9, <1>10 DEF RowsFit
<1>12. CaseOfClaims' BY <1>1, <1>7, <1>9 DEF CaseOfClaims
<1>13. AtMostOne' BY <1>1 DEF AtMostOne, ActiveOnes
<1>14. OnlyObsoleteOrphans'
  <2>1. \A c \in Ids : status'[c] = "disputed" => status[c] = "disputed" /\ c \notin dropped
    BY <1>1, <1>8
  <2>2. Sides(case) \cup Members(case) \subseteq Ids
    BY <1>3 DEF Sides, Members, Cases
  <2> QED BY <1>1, <1>6, <1>7, <2>1, <2>2, OrphansStay
<1>15. LegalStep BY <1>1, <1>8 DEF LegalStep, Allowed
<1>16. VerdictDecided' BY <1>1, VerdictAges DEF AgedVerdict
<1>17. DossierFits' BY <1>1 DEF DossierFits
<1> QED BY <1>1, <1>6, <1>11, <1>12, <1>13, <1>14, <1>15, <1>16, <1>17 DEF EndedFits

----------------------------------------------------------------------------
(* The theorems *)

LEMMA GroupInit ==
    ASSUME Init
    PROVE  GroupInv
<1> USE DEF Init
<1>1. Existing = {} BY DEF Existing, Exists
<1>2. Existing = 1..0 /\ 0 \in 0..MaxClaims BY <1>1, ConstantsAreNat
<1>3. RowsFit BY <1>1, <1>2 DEF RowsFit
<1>4. CaseFits /\ CaseOfClaims /\ DossierFits /\ VerdictDecided
  BY DEF CaseFits, CaseOfClaims, HasOpen, DossierFits, VerdictDecided
<1>5. EndedFits BY DEF EndedFits
<1>6. AtMostOne /\ OnlyObsoleteOrphans BY DEF AtMostOne, ActiveOnes, OnlyObsoleteOrphans
<1> QED BY <1>3, <1>4, <1>5, <1>6 DEF GroupInv

LEMMA GroupStep ==
    ASSUME GroupInv, [Next]_vars
    PROVE  GroupInv' /\ LegalStep
<1>1. ASSUME NEW f \in Facts,
             Reassert(f) \/ ReassertInDispute(f) \/ State(f) \/ Supersede(f) \/ Contest(f)
      PROVE  GroupInv' /\ LegalStep
  BY <1>1, ReassertStep, ReassertInDisputeStep, StateStep, SupersedeStep, ContestStep
<1>2. ASSUME NEW c \in Ids, Retract(c) \/ Expire(c) \/ Archive(c) \/ Resurrect(c) \/ Select(c)
      PROVE  GroupInv' /\ LegalStep
  BY <1>2, LifecycleStep, SelectStep
<1>3. ASSUME NEW v \in Values, Reject(v) PROVE GroupInv' /\ LegalStep
  BY <1>3, RejectStep
<1>4. CASE Review BY <1>4, ReviewStep
<1>5. CASE Apply BY <1>5, ApplyStep
<1>6. CASE Refuse \/ ReviewerDies BY <1>6, DroppedStep DEF Refuse, ReviewerDies
<1>7. CASE ReadDossier BY <1>7, ReadDossierStep
<1>8. CASE UNCHANGED vars
  <2> USE <1>8 DEF vars
  <2>1. RowsFit' /\ CaseFits' /\ CaseOfClaims' /\ EndedFits'
    BY DEF GroupInv, RowsFit, CaseFits, CaseOfClaims, EndedFits, HasOpen, Sides, Members,
           Existing, Exists
  <2>2. AtMostOne' /\ DossierFits' /\ VerdictDecided'
    BY DEF GroupInv, AtMostOne, ActiveOnes, DossierFits, VerdictDecided, HasOpen, Sides, Members
  <2>3. OnlyObsoleteOrphans'
    BY DEF GroupInv, OnlyObsoleteOrphans, InOpenCase, ReopensTerminal, HasOpen, Sides, Members
  <2> QED BY <2>1, <2>2, <2>3 DEF GroupInv, LegalStep
<1> QED BY <1>1, <1>2, <1>3, <1>4, <1>5, <1>6, <1>7, <1>8 DEF Next, Reviewing

\* The invariant of the group: its rows, its case, what people and the reviewer
\* have in hand.
THEOREM GroupInvariant == Spec => []GroupInv
<1>1. GroupInv /\ [Next]_vars => GroupInv' BY GroupStep
<1> QED BY <1>1, GroupInit, PTL DEF Spec

\* At most one claim of an exclusive group is active, whichever of ingestion,
\* reviewer, people and resurrection activates it.
THEOREM OneActiveClaim == Spec => []OneActive
<1>1. GroupInv => OneActive
  <2> SUFFICES ASSUME GroupInv PROVE Cardinality(ActiveOnes) <= 1 BY DEF OneActive
  <2>1. CASE ActiveOnes = {} BY <2>1, FS_EmptySet
  <2>2. CASE ActiveOnes # {}
    <3>1. PICK c \in ActiveOnes : TRUE BY <2>2
    <3>2. ActiveOnes = {c} BY <3>1 DEF GroupInv, AtMostOne
    <3>3. Cardinality({c}) = 1 BY FS_Singleton
    <3> QED BY <3>2, <3>3
  <2> QED BY <2>1, <2>2
<1> QED BY <1>1, GroupInvariant, PTL

\* Disputed claims are under review, except those the reviewer has left behind
\* by closing the newest case as obsolete.
THEOREM OrphansAreObsolete == Spec => []OnlyObsoleteOrphans
<1>1. GroupInv => OnlyObsoleteOrphans BY DEF GroupInv
<1> QED BY <1>1, GroupInvariant, PTL

\* The revision a person must present covers the status of every claim of the
\* dossier.
THEOREM DossiersHold == Spec => []DossierHolds
<1>1. GroupInv => DossierHolds BY DEF GroupInv, DossierFits, DossierHolds
<1> QED BY <1>1, GroupInvariant, PTL

\* Claims move along the transition matrix.
THEOREM TransitionsAreLegal == Spec => LegalTransitions
<1>1. GroupInv /\ [Next]_vars =>
        [\A c \in Ids : status'[c] # status[c] => status'[c] \in Allowed[status[c]]]_vars
  BY GroupStep DEF LegalStep
<1> QED BY <1>1, GroupInvariant, PTL DEF Spec, LegalTransitions

\* The compare-and-set lets the reviewer apply only what it would decide now.
THEOREM VerdictsFit == Spec => VerdictFitsDocket
<1> DEFINE Taken == verdict \notin {None, Stale} /\ verdict' = None
                    /\ <<status, case, ended>>' # <<status, case, ended>>
           Fits == Taken => verdict.decision = Decide(case)
<1>1. ASSUME GroupInv, Apply PROVE Fits
  <2>1. /\ HasOpen /\ verdict \notin {None, Stale} /\ verdict.docket = Docket
    BY <1>1 DEF Apply, StillCurrent
  <2>2. case \in Cases BY <1>1, <2>1 DEF GroupInv, CaseFits
  <2>3. Docket = [case |-> Plain(case), status |-> status,
                  fact |-> fact, by |-> by, rejected |-> rejected]
    BY DEF Docket, Plain
  <2>4. verdict.decision = DecideIn(status, by, fact, rejected, Plain(case))
    BY <1>1, <2>1, <2>3 DEF GroupInv, VerdictDecided
  <2> QED BY <2>2, <2>4, DecideReads, DecideReadsPlain
<1>2. ASSUME NobodyDecides \/ verdict' = AgedVerdict PROVE Fits
  BY <1>2, GroupAssumption DEF NobodyDecides, AgedVerdict
<1>3. ASSUME Review PROVE Fits
  BY <1>3 DEF Review
<1>4. ASSUME Refuse \/ ReviewerDies \/ ReadDossier PROVE Fits
  BY <1>4 DEF Refuse, ReviewerDies, ReadDossier
<1>5. ASSUME NEW f \in Facts,
             Reassert(f) \/ ReassertInDispute(f) \/ State(f) \/ Supersede(f) \/ Contest(f)
      PROVE  NobodyDecides
  BY <1>5 DEF Reassert, ReassertInDispute, State, Supersede, Contest, Keep
<1>6. ASSUME NEW c \in Ids, Retract(c) \/ Expire(c) \/ Archive(c) \/ Resurrect(c)
      PROVE  NobodyDecides
  BY <1>6 DEF Retract, Expire, Archive, Resurrect, Turn
<1>7. ASSUME NEW c \in Ids, Select(c) PROVE verdict' = AgedVerdict
  BY <1>7 DEF Select
<1>8. ASSUME NEW v \in Values, Reject(v) PROVE verdict' = AgedVerdict
  BY <1>8 DEF Reject
<1>9. GroupInv /\ [Next]_vars => [Fits]_vars
  <2> HIDE DEF Fits
  <2> QED BY <1>1, <1>2, <1>3, <1>4, <1>5, <1>6, <1>7, <1>8 DEF Next, Reviewing
<1> QED BY <1>9, GroupInvariant, PTL DEF Spec, VerdictFitsDocket
=============================================================================
