------------------------- MODULE ClaimLineageProofs -------------------------
(***************************************************************************)
(* Proofs about the supersession chains of ClaimGroups and, with them,      *)
(* about the dirty queue: what the triggers see of the claims the reviewer  *)
(* reads.                                                                   *)
(***************************************************************************)
EXTENDS ClaimGroupsProofs

----------------------------------------------------------------------------
(* Chains *)

Superseded(b) == {c \in Ids : b[c] # None}

\* Along a chain the rank falls, and no rank is higher than there are
\* superseded claims.
Ranks(b, r) == \A c \in Superseded(b) : r[b[c]] < r[c]
Ranked(b) == \E r \in [Ids -> 0..Cardinality(Superseded(b))] : Ranks(b, r)

\* A property of claims that the successor inherits is one of the tip.
LEMMA TipInherits ==
    ASSUME NEW b \in [Ids -> Ids \cup {None}], NEW S, S \subseteq Ids,
           \A d \in S : b[d] # None => b[d] \in S,
           NEW c \in S
    PROVE  TipIn(b, c) \in S
<1>1. PICK w \in [0..MaxClaims -> Ids] :
        /\ w[0] = c /\ w[MaxClaims] = TipIn(b, c)
        /\ \A n \in 1..MaxClaims :
              w[n] = IF b[w[n - 1]] = None THEN w[n - 1] ELSE b[w[n - 1]]
  BY TipIsWalkedTo
<1> DEFINE T == {n \in 0..MaxClaims : w[n] \notin S}
<1>2. SUFFICES ASSUME T # {} PROVE FALSE
  <2>1. MaxClaims \in 0..MaxClaims BY ConstantsAreNat
  <2> QED BY <1>1, <2>1
<1>3. PICK m \in T : \A k \in T : m <= k
  <2>1. T \subseteq Nat BY ConstantsAreNat
  <2> HIDE DEF T
  <2> QED BY <1>2, <2>1, MinIsThere
<1>4. m # 0 BY <1>1, <1>3
<1>5. m \in 1..MaxClaims /\ m - 1 \in 0..MaxClaims /\ m - 1 \notin T
  BY <1>3, <1>4, ConstantsAreNat
<1>6. w[m - 1] \in S BY <1>5
<1>7. w[m] \in S BY <1>1, <1>5, <1>6
<1> QED BY <1>3, <1>7

\* A claim that is not superseded is its own tip.
LEMMA TipOfTip ==
    ASSUME NEW b \in [Ids -> Ids \cup {None}], NEW c \in Ids, b[c] = None
    PROVE  TipIn(b, c) = c
<1> DEFINE S == {c}
<1>1. S \subseteq Ids /\ c \in S /\ \A d \in S : b[d] # None => b[d] \in S OBVIOUS
<1>2. TipIn(b, c) \in S
  <2> HIDE DEF S
  <2> QED BY <1>1, TipInherits
<1> QED BY <1>2

LEMMA SupersededIsFinite ==
    ASSUME NEW b
    PROVE  /\ IsFiniteSet(Superseded(b))
           /\ Cardinality(Superseded(b)) \in Nat /\ Cardinality(Superseded(b)) <= MaxClaims
<1>1. IsFiniteSet(Ids) /\ Cardinality(Ids) = MaxClaims
  BY ConstantsAreNat, FS_Interval DEF Ids
<1>2. Superseded(b) \in SUBSET Ids BY DEF Superseded
<1> QED BY <1>1, <1>2, FS_Subset, FS_CardinalityType

\* Every chain ends in a claim that is not superseded.
LEMMA TipIsLast ==
    ASSUME NEW b \in [Ids -> Ids \cup {None}], Ranked(b), NEW c \in Ids
    PROVE  b[TipIn(b, c)] = None
<1>1. PICK w \in [0..MaxClaims -> Ids] :
        /\ w[0] = c /\ w[MaxClaims] = TipIn(b, c)
        /\ \A n \in 1..MaxClaims :
              w[n] = IF b[w[n - 1]] = None THEN w[n - 1] ELSE b[w[n - 1]]
  BY TipIsWalkedTo
<1>2. PICK r \in [Ids -> 0..MaxClaims] : Ranks(b, r)
  <2>1. PICK q \in [Ids -> 0..Cardinality(Superseded(b))] : Ranks(b, q) BY DEF Ranked
  <2>2. 0..Cardinality(Superseded(b)) \subseteq 0..MaxClaims BY SupersededIsFinite, ConstantsAreNat
  <2>3. q \in [Ids -> 0..MaxClaims] BY <2>2
  <2> QED BY <2>1, <2>3
<1> DEFINE Down(n) == b[w[n]] = None \/ r[w[n]] + n <= MaxClaims
           T == {n \in 0..MaxClaims : ~Down(n)}
<1>3. T = {}
  <2> SUFFICES ASSUME T # {} PROVE FALSE OBVIOUS
  <2>1. PICK m \in T : \A k \in T : m <= k
    <3>1. T \subseteq Nat BY ConstantsAreNat
    <3> HIDE DEF T
    <3> QED BY <3>1, MinIsThere
  <2>2. m # 0
    <3>1. Down(0) BY <1>1, <1>2, ConstantsAreNat
    <3> HIDE DEF Down
    <3> QED BY <2>1, <3>1
  <2>3. m \in 1..MaxClaims /\ m - 1 \in 0..MaxClaims /\ m - 1 \notin T
    BY <2>1, <2>2, ConstantsAreNat
  <2>4. Down(m - 1) BY <2>3
  <2>5. w[m] = IF b[w[m - 1]] = None THEN w[m - 1] ELSE b[w[m - 1]] BY <1>1, <2>3
  <2>6. CASE b[w[m - 1]] = None BY <2>1, <2>5, <2>6
  <2>7. CASE b[w[m - 1]] # None
    <3>1. w[m - 1] \in Superseded(b) /\ w[m] = b[w[m - 1]] /\ w[m] \in Ids
      BY <2>3, <2>5, <2>7 DEF Superseded
    <3>2. r[w[m]] < r[w[m - 1]] BY <1>2, <3>1 DEF Ranks
    <3>3. r[w[m - 1]] + (m - 1) <= MaxClaims BY <2>4, <2>7
    <3>4. r[w[m]] \in Int /\ r[w[m - 1]] \in Int /\ m \in Int
      BY <1>2, <2>3, <3>1 DEF Superseded
    <3>5. r[w[m]] + m <= MaxClaims
      <4> DEFINE x == r[w[m]]
                 y == r[w[m - 1]]
      <4>1. x \in Int /\ y \in Int /\ m \in Int /\ x < y /\ y + (m - 1) <= MaxClaims
        BY <3>2, <3>3, <3>4
      <4> HIDE DEF x, y, T
      <4>2. x + m <= MaxClaims BY <4>1, ConstantsAreNat
      <4> QED BY <4>2 DEF x
    <3> QED BY <2>1, <3>5
  <2> QED BY <2>6, <2>7
<1>4. MaxClaims \in 0..MaxClaims BY ConstantsAreNat
<1>5. Down(MaxClaims) BY <1>3, <1>4
<1>6. SUFFICES ASSUME b[TipIn(b, c)] # None PROVE FALSE OBVIOUS
<1>7. TipIn(b, c) \in Ids BY EndIsClaim
<1>8. r[TipIn(b, c)] + MaxClaims <= MaxClaims BY <1>1, <1>5, <1>6
<1>9. TipIn(b, c) \in Superseded(b) /\ b[TipIn(b, c)] \in Ids BY <1>6, <1>7 DEF Superseded
<1>10. r[b[TipIn(b, c)]] < r[TipIn(b, c)] BY <1>2, <1>9 DEF Ranks
<1> QED BY <1>2, <1>7, <1>8, <1>9, <1>10, ConstantsAreNat

\* A superseded claim and its successor have the same tip.
LEMMA TipOfSuccessor ==
    ASSUME NEW b \in [Ids -> Ids \cup {None}], Ranked(b), NEW c \in Superseded(b)
    PROVE  TipIn(b, c) = TipIn(b, b[c])
<1> DEFINE d == b[c]
<1>1. c \in Ids /\ d \in Ids /\ b[c] # None BY DEF Superseded
<1>2. PICK w \in [0..MaxClaims -> Ids] :
        /\ w[0] = d /\ w[MaxClaims] = TipIn(b, d)
        /\ \A n \in 1..MaxClaims :
              w[n] = IF b[w[n - 1]] = None THEN w[n - 1] ELSE b[w[n - 1]]
  BY <1>1, TipIsWalkedTo
<1> DEFINE R == {c} \cup {w[n] : n \in 0..MaxClaims}
<1>3. \A x \in R : b[x] # None => b[x] \in R
  <2> SUFFICES ASSUME NEW x \in R, b[x] # None PROVE b[x] \in R OBVIOUS
  <2>1. CASE x = c BY <1>2, <2>1, ConstantsAreNat
  <2>2. CASE x # c
    <3>1. PICK n \in 0..MaxClaims : x = w[n] BY <2>2
    <3>2. n # MaxClaims BY <1>1, <1>2, <3>1, TipIsLast
    <3>3. n + 1 \in 1..MaxClaims /\ n + 1 \in 0..MaxClaims /\ (n + 1) - 1 = n
      BY <3>1, <3>2, ConstantsAreNat
    <3>4. w[n + 1] = b[x] BY <1>2, <3>1, <3>3
    <3> QED BY <3>3, <3>4
  <2> QED BY <2>1, <2>2
<1>4. R \subseteq Ids /\ c \in R BY <1>1, <1>2
<1>5. TipIn(b, c) \in R
  <2> HIDE DEF R, d
  <2> QED BY <1>3, <1>4, TipInherits
<1>6. b[TipIn(b, c)] = None BY <1>1, TipIsLast
<1>7. PICK n \in 0..MaxClaims : TipIn(b, c) = w[n] BY <1>1, <1>5, <1>6
<1> DEFINE T == {m \in 0..MaxClaims : n <= m /\ w[m] # w[n]}
<1>8. T = {}
  <2> SUFFICES ASSUME T # {} PROVE FALSE OBVIOUS
  <2>1. PICK m \in T : \A k \in T : m <= k
    <3>1. T \subseteq Nat BY ConstantsAreNat
    <3> HIDE DEF T
    <3> QED BY <3>1, MinIsThere
  <2>2. m \in 1..MaxClaims /\ m - 1 \in 0..MaxClaims /\ m - 1 \notin T /\ n <= m - 1
    BY <1>7, <2>1, ConstantsAreNat
  <2>3. w[m - 1] = w[n] BY <2>2
  <2>4. w[m] = w[n] BY <1>2, <1>6, <1>7, <2>2, <2>3
  <2> QED BY <2>1, <2>4
<1>9. MaxClaims \in 0..MaxClaims /\ n <= MaxClaims BY ConstantsAreNat
<1>10. w[MaxClaims] = w[n] BY <1>8, <1>9
<1> QED BY <1>2, <1>7, <1>10

\* The tip is the only answer consistent along the chains.
LEMMA TipIsSolution ==
    ASSUME NEW b \in [Ids -> Ids \cup {None}], Ranked(b),
           NEW g, \A c \in Ids : g[c] = IF b[c] = None THEN c ELSE g[b[c]],
           NEW c \in Ids
    PROVE  TipIn(b, c) = g[c]
<1> DEFINE S == {d \in Ids : g[d] = g[c]}
<1>1. S \subseteq Ids /\ c \in S /\ \A d \in S : b[d] # None => b[d] \in S OBVIOUS
<1>2. TipIn(b, c) \in S
  <2> HIDE DEF S
  <2> QED BY <1>1, TipInherits
<1>3. b[TipIn(b, c)] = None BY TipIsLast
<1> QED BY <1>2, <1>3

\* A convergence on w moves the tips it supersedes to w and no other.
LEMMA TipMoves ==
    ASSUME NEW b \in [Ids -> Ids \cup {None}], Ranked(b), None \notin Ids,
           NEW L, L \subseteq Ids, \A c \in L : b[c] = None,
           NEW w \in Ids, w \notin L, b[w] = None,
           NEW b2, b2 = [c \in Ids |-> IF c \in L THEN w ELSE b[c]]
    PROVE  /\ Ranked(b2)
           /\ \A c \in Ids :
                 TipIn(b2, c) = IF TipIn(b, c) \in L THEN w ELSE TipIn(b, c)
<1>1. b2 \in [Ids -> Ids \cup {None}] OBVIOUS
<1>2. Superseded(b2) = Superseded(b) \cup L /\ Superseded(b) \cap L = {} BY DEF Superseded
<1>3. CASE L = {}
  <2>1. b2 = b BY <1>3
  <2> QED BY <1>3, <2>1
<1>4. CASE L # {}
  <2>1. Cardinality(Superseded(b)) < Cardinality(Superseded(b2))
    <3>1. IsFiniteSet(Superseded(b2)) /\ Superseded(b) \in SUBSET Superseded(b2)
      BY <1>2, SupersededIsFinite
    <3>2. Superseded(b) # Superseded(b2) BY <1>2, <1>4
    <3>3. Cardinality(Superseded(b)) \in Nat /\ Cardinality(Superseded(b2)) \in Nat
      BY SupersededIsFinite
    <3>4. /\ Cardinality(Superseded(b)) <= Cardinality(Superseded(b2))
          /\ Cardinality(Superseded(b)) # Cardinality(Superseded(b2))
      BY <3>1, <3>2, FS_Subset
    <3> QED BY <3>3, <3>4
  <2>2. PICK r \in [Ids -> 0..Cardinality(Superseded(b))] : Ranks(b, r) BY DEF Ranked
  <2> DEFINE q == [c \in Ids |-> IF c \in Superseded(b2) THEN r[c] + 1 ELSE 0]
  <2>3. q \in [Ids -> 0..Cardinality(Superseded(b2))]
    BY <2>1, <2>2, SupersededIsFinite
  <2>4. Ranks(b2, q)
    <3> SUFFICES ASSUME NEW c \in Superseded(b2) PROVE q[b2[c]] < q[c] BY DEF Ranks
    <3>1. c \in Ids /\ b2[c] \in Ids BY <1>1 DEF Superseded
    <3>2. \A d \in Ids : r[d] \in Nat BY <2>2, SupersededIsFinite
    <3>3. CASE b2[c] \notin Superseded(b2) BY <3>1, <3>2, <3>3
    <3>4. CASE b2[c] \in Superseded(b2)
      <4>1. b2[c] # w BY <1>2, <3>4 DEF Superseded
      <4>2. c \in Superseded(b) /\ b2[c] = b[c] BY <1>2, <3>1, <4>1
      <4>3. r[b[c]] < r[c] BY <2>2, <4>2 DEF Ranks
      <4>4. q[b2[c]] = r[b[c]] + 1 /\ q[c] = r[c] + 1 BY <3>1, <3>4, <4>2
      <4>5. r[b[c]] \in Nat /\ r[c] \in Nat BY <3>1, <3>2, <4>2
      <4> QED BY <4>3, <4>4, <4>5
    <3> QED BY <3>3, <3>4
  <2>5. Ranked(b2)
    <3> HIDE DEF q
    <3> QED BY <2>3, <2>4 DEF Ranked
  <2> DEFINE g == [c \in Ids |-> IF TipIn(b, c) \in L THEN w ELSE TipIn(b, c)]
  <2>6. ASSUME NEW c \in Ids PROVE g[c] = IF b2[c] = None THEN c ELSE g[b2[c]]
    <3>1. CASE c \in L
      <4>1. TipIn(b, c) = c /\ TipIn(b, w) = w BY <3>1, TipOfTip
      <4>2. b2[c] = w BY <3>1
      <4> QED BY <3>1, <4>1, <4>2
    <3>2. CASE c \notin L /\ b[c] = None
      <4>1. TipIn(b, c) = c BY <3>2, TipOfTip
      <4> QED BY <3>2, <4>1
    <3>3. CASE c \notin L /\ b[c] # None
      <4>1. c \in Superseded(b) BY <3>3 DEF Superseded
      <4>2. TipIn(b, c) = TipIn(b, b[c]) BY <4>1, TipOfSuccessor
      <4> QED BY <3>3, <4>2
    <3> QED BY <3>1, <3>2, <3>3
  <2>7. \A c \in Ids : TipIn(b2, c) = g[c]
    <3> HIDE DEF g
    <3> QED BY <1>1, <2>5, <2>6, TipIsSolution
  <2> QED BY <2>5, <2>7
<1> QED BY <1>3, <1>4

----------------------------------------------------------------------------
(* What a case that is not queued looks like *)

EndedIn(st, b, k) == \E c \in Members(k) : TipIn(b, c) \notin Watched(k) /\ GoneIn(st, b, c)
CleanIn(st, b, fc, rj, k) == DecideIn(st, b, fc, rj, k) = Manual \/ EndedIn(st, b, k)

\* When decide_l0 leaves a case to people.
LEMMA ManualMeans ==
    ASSUME NEW st, NEW b, NEW fc, NEW rj, NEW k
    PROVE  DecideIn(st, b, fc, rj, k) = Manual <=>
             /\ TipIn(b, k.left) # TipIn(b, k.right)
             /\ Keys(k) # {} => LivingIn(st, b, k) # {} /\ Cardinality(LivingIn(st, b, k)) # 1
             /\ Keys(k) = {} =>
                  DecidePair(RowIn(st, fc, rj, TipIn(b, k.left)),
                             RowIn(st, fc, rj, TipIn(b, k.right))) = Manual
<1>1. Manual # Obsolete /\ \A x : Manual # Choose(x)
  <2>1. Manual.kind = "manual" /\ Obsolete.kind = "obsolete" /\ \A x : Choose(x).kind = "choose"
    BY DEF Manual, Obsolete, Choose
  <2>2. "manual" # "obsolete" /\ "manual" # "choose" OBVIOUS
  <2> QED BY <2>1, <2>2
<1>2. CASE TipIn(b, k.left) = TipIn(b, k.right) BY <1>1, <1>2 DEF DecideIn
<1>3. CASE TipIn(b, k.left) # TipIn(b, k.right) /\ Keys(k) # {}
  BY <1>1, <1>3 DEF DecideIn
<1>4. CASE TipIn(b, k.left) # TipIn(b, k.right) /\ Keys(k) = {}
  BY <1>1, <1>4 DEF DecideIn
<1> QED BY <1>2, <1>3, <1>4

LEMMA LivingIsFinite ==
    ASSUME NEW st, NEW b, NEW k
    PROVE  IsFiniteSet(LivingIn(st, b, k))
<1> DEFINE said == {k.member[c] : c \in Ids}
<1>1. IsFiniteSet(Ids) BY ConstantsAreNat, FS_Interval DEF Ids
<1>2. IsFiniteSet(said)
  <2>1. [c \in Ids |-> k.member[c]] \in Surjection(Ids, said) BY DEF Surjection
  <2> HIDE DEF said
  <2> QED BY <1>1, <2>1, FS_Surjection
<1>3. LivingIn(st, b, k) \in SUBSET said BY DEF LivingIn, Members
<1> HIDE DEF said
<1> QED BY <1>2, <1>3, FS_Subset

\* Between two moments the triggers have seen nothing of the case: tips moved
\* where claims were superseded by living ones, expired claims stayed expired,
\* what was watched is the same, and claims that joined candidates are alive.
Unseen(st, st2, b, b2, fc, fc2, rj, rj2, k, k2) ==
    /\ \A c \in Ids : st[c] = "superseded" <=> b[c] # None
    /\ \A c \in Ids : st2[c] = "superseded" <=> b2[c] # None
    /\ \A c \in Ids : st[c] = "expired" => st2[c] = "expired"
    /\ \A c \in Ids : \/ TipIn(b2, c) = TipIn(b, c)
                      \/ b2[TipIn(b, c)] # b[TipIn(b, c)] /\ st2[TipIn(b2, c)] \notin Gone
    /\ k2.left = k.left /\ k2.right = k.right /\ k2.tips = k.tips /\ Keys(k2) = Keys(k)
    /\ \A c \in Members(k) : k2.member[c] = k.member[c]
    /\ \A c \in Members(k2) \ Members(k) : st2[c] \notin Gone
    /\ \A c \in Watched(k) : /\ st2[c] = st[c] /\ b2[c] = b[c] /\ fc2[c] = fc[c]
                            /\ (c \in rj2 <=> c \in rj)

\* The heart of the dirty queue: then a case left to people stays one for people,
\* or a candidate has ended unseen.
LEMMA QuietKeepsClean ==
    ASSUME NEW st \in [Ids -> Statuses \cup {"none"}], NEW st2 \in [Ids -> Statuses \cup {"none"}],
           NEW b \in [Ids -> Ids \cup {None}], NEW b2 \in [Ids -> Ids \cup {None}],
           NEW fc, NEW fc2, NEW rj, NEW rj2, NEW k \in Cases, NEW k2 \in Cases,
           Ranked(b), Unseen(st, st2, b, b2, fc, fc2, rj, rj2, k, k2),
           k.tips = {TipIn(b, k.left), TipIn(b, k.right)},
           CleanIn(st, b, fc, rj, k)
    PROVE  CleanIn(st2, b2, fc2, rj2, k2) /\ k2.tips = {TipIn(b2, k2.left), TipIn(b2, k2.right)}
<1> USE DEF Unseen
<1>1. Sides(k) \subseteq Ids /\ Sides(k2) = Sides(k) /\ Members(k) \subseteq Members(k2)
      /\ Members(k2) \subseteq Ids
  BY DEF Sides, Members, Cases
<1>2. \A s \in Sides(k) : /\ TipIn(b2, s) = TipIn(b, s)
                          /\ RowIn(st2, fc2, rj2, TipIn(b, s)) = RowIn(st, fc, rj, TipIn(b, s))
  <2> SUFFICES ASSUME NEW s \in Sides(k)
               PROVE  /\ TipIn(b2, s) = TipIn(b, s)
                      /\ RowIn(st2, fc2, rj2, TipIn(b, s)) = RowIn(st, fc, rj, TipIn(b, s))
    OBVIOUS
  <2>1. TipIn(b, s) \in Watched(k) BY DEF Sides, Watched
  <2>2. TipIn(b2, s) = TipIn(b, s) BY <1>1, <2>1
  <2>3. RowIn(st2, fc2, rj2, TipIn(b, s)) = RowIn(st, fc, rj, TipIn(b, s)) BY <2>1 DEF RowIn
  <2> QED BY <2>2, <2>3
<1>3. k2.tips = {TipIn(b2, k2.left), TipIn(b2, k2.right)} BY <1>2 DEF Sides
<1>4. \A y \in Watched(k2) \ Watched(k) : st2[y] \notin Gone
  BY <1>1 DEF Watched
<1>5. CASE EndedIn(st, b, k)
  <2>1. PICK c \in Members(k) : TipIn(b, c) \notin Watched(k) /\ GoneIn(st, b, c)
    BY <1>5 DEF EndedIn
  <2> DEFINE y == TipIn(b, c)
  <2>2. c \in Ids /\ y \in Ids /\ b[y] = None BY <1>1, <2>1, EndIsClaim, TipIsLast
  <2>3. st[y] = "expired" BY <2>1, <2>2 DEF GoneIn, Gone
  <2>4. st2[y] = "expired" BY <2>2, <2>3
  <2>5. b2[y] = b[y] BY <2>2, <2>4
  <2>6. TipIn(b2, c) = y BY <2>2, <2>5
  <2>7. y \notin Watched(k2) BY <1>4, <2>1, <2>4 DEF Gone
  <2>8. GoneIn(st2, b2, c) BY <2>4, <2>6 DEF GoneIn, Gone
  <2>9. EndedIn(st2, b2, k2)
    <3> HIDE DEF y
    <3> QED BY <1>1, <2>6, <2>7, <2>8 DEF EndedIn
  <2> QED BY <1>3, <2>9 DEF CleanIn
<1>6. CASE DecideIn(st, b, fc, rj, k) = Manual /\ ~EndedIn(st2, b2, k2)
  <2>1. LivingIn(st, b, k) \subseteq LivingIn(st2, b2, k2)
    <3> SUFFICES ASSUME NEW v \in Keys(k), NEW c \in Members(k),
                        k.member[c] = v, ~GoneIn(st, b, c)
                 PROVE  ~GoneIn(st2, b2, c)
      BY <1>1 DEF LivingIn
    <3>1. CASE TipIn(b2, c) # TipIn(b, c) BY <1>1, <3>1 DEF GoneIn
    <3>2. CASE TipIn(b2, c) = TipIn(b, c)
      <4>1. SUFFICES ASSUME st2[TipIn(b, c)] \in Gone PROVE FALSE BY <3>2 DEF GoneIn
      <4>2. TipIn(b, c) \in Watched(k2) BY <1>1, <1>6, <3>2, <4>1 DEF EndedIn, GoneIn
      <4>3. TipIn(b, c) \in Watched(k) BY <1>4, <4>1, <4>2
      <4>4. st[TipIn(b, c)] \in Gone BY <4>1, <4>3
      <4> QED BY <4>4 DEF GoneIn
    <3> QED BY <3>1, <3>2
  <2>2. CASE Keys(k) # {}
    <3>1. LivingIn(st, b, k) # {} /\ Cardinality(LivingIn(st, b, k)) # 1
      BY <1>6, <2>2, ManualMeans
    <3>2. Cardinality(LivingIn(st2, b2, k2)) # 1
      <4>1. SUFFICES ASSUME Cardinality(LivingIn(st2, b2, k2)) = 1 PROVE FALSE OBVIOUS
      <4>2. PICK x : LivingIn(st2, b2, k2) = {x} BY <4>1, LivingIsFinite, FS_Singleton
      <4>3. LivingIn(st, b, k) = {x} BY <2>1, <3>1, <4>2
      <4>4. Cardinality({x}) = 1 BY FS_Singleton
      <4> QED BY <3>1, <4>3, <4>4
    <3>3. TipIn(b2, k2.left) # TipIn(b2, k2.right)
      BY <1>2, <1>6, ManualMeans DEF Sides
    <3>4. DecideIn(st2, b2, fc2, rj2, k2) = Manual
      BY <2>1, <2>2, <3>1, <3>2, <3>3, ManualMeans
    <3> QED BY <1>3, <3>4 DEF CleanIn
  <2>3. CASE Keys(k) = {}
    <3>1. /\ TipIn(b, k.left) # TipIn(b, k.right)
          /\ DecidePair(RowIn(st, fc, rj, TipIn(b, k.left)),
                        RowIn(st, fc, rj, TipIn(b, k.right))) = Manual
      BY <1>6, <2>3, ManualMeans
    <3>2. k.left \in Sides(k) /\ k.right \in Sides(k) BY DEF Sides
    <3>3. /\ TipIn(b2, k2.left) # TipIn(b2, k2.right)
          /\ DecidePair(RowIn(st2, fc2, rj2, TipIn(b2, k2.left)),
                        RowIn(st2, fc2, rj2, TipIn(b2, k2.right))) = Manual
      BY <1>2, <3>1, <3>2
    <3>4. DecideIn(st2, b2, fc2, rj2, k2) = Manual BY <2>3, <3>3, ManualMeans
    <3> QED BY <1>3, <3>4 DEF CleanIn
  <2> QED BY <2>2, <2>3
<1> QED BY <1>3, <1>5, <1>6 DEF CleanIn

----------------------------------------------------------------------------
(* The invariant of the queue *)

SupersededFits == \A c \in Ids : status[c] = "superseded" <=> by[c] # None
ReplacedByClaims == \A c \in Superseded(by) : by[c] \in Existing

\* Two sides; candidates, members and what the claims say agree.
Agrees(k, said) ==
    /\ k.left # k.right
    /\ \A c \in Members(k) : k.member[c] = said[c].value /\ k.member[c] \in Keys(k)
    /\ \A v \in Keys(k) : k.member[k.rep[v]] = v

CandidatesFit == HasOpen => Agrees(case, fact)

\* A clean case watches the tips of its sides, and is one for people.
TipsFit == HasOpen => case.tips \subseteq Existing
CleanFits ==
    HasOpen /\ ~case.dirty =>
        /\ case.tips = {TipIn(by, case.left), TipIn(by, case.right)}
        /\ CleanIn(status, by, fact, rejected, case)

LineInv ==
    /\ SupersededFits
    /\ Ranked(by)
    /\ ReplacedByClaims
    /\ CandidatesFit
    /\ TipsFit
    /\ CleanFits

\* The trigger queues the case it raises and changes nothing else.
LEMMA BumpKeeps ==
    ASSUME NEW k \in Cases
    PROVE  /\ Bump(k).dirty
           /\ Bump(k).left = k.left /\ Bump(k).right = k.right /\ Bump(k).tips = k.tips
           /\ Bump(k).rep = k.rep /\ Bump(k).member = k.member
  BY DEF Bump, Cases

LEMMA TouchedIsQuiet ==
    ASSUME CaseFits, HasOpen, NEW st, NEW sup
    PROVE  LET k == Touched(st, sup)
           IN  /\ k.left = case.left /\ k.right = case.right /\ k.tips = case.tips
               /\ k.rep = case.rep /\ k.member = case.member
               /\ \/ k.dirty
                  \/ k = case /\ \A c \in Watched(case) : st[c] = status[c] /\ sup[c] = by[c]
<1>1. case \in Cases BY DEF CaseFits
<1>2. CASE \E c \in Watched(case) : st[c] # status[c] \/ sup[c] # by[c]
  <2>1. Touched(st, sup) = Bump(case) BY <1>2 DEF Touched
  <2> QED BY <1>1, <2>1, BumpKeeps
<1>3. CASE ~\E c \in Watched(case) : st[c] # status[c] \/ sup[c] # by[c]
  <2>1. Touched(st, sup) = case BY <1>3 DEF Touched
  <2> QED BY <1>3, <2>1
<1> QED BY <1>2, <1>3

\* A claim that joins a case joins the candidate of what it says.
LEMMA AttachAgrees ==
    ASSUME CaseFits, NEW k \in Cases, NEW M, M \subseteq Ids, NEW said,
           \A c \in M : said[c].value \in Values, Agrees(k, said)
    PROVE  LET e == Attach(k, M, said)
           IN  /\ Agrees(e, said)
               /\ e.tips = k.tips
               /\ \/ e.dirty
                  \/ ~k.dirty /\ Keys(e) = Keys(k) /\ \A c \in Members(k) : e.member[c] = k.member[c]
<1> DEFINE g == Grown(k, M, said)
           rep == RepGrown(k, M, said)
           member == MemberGrown(k, M, said)
<1>1. /\ g \in Cases /\ g.dirty = k.dirty /\ g.tips = k.tips
      /\ g.left = k.left /\ g.right = k.right /\ g.rep = rep /\ g.member = member
      /\ Keys(g) = Keys(k) \cup Said(M, said) /\ Members(g) = Members(k) \cup M
      /\ Attach(k, M, said) = IF Said(M, said) \subseteq Keys(k) THEN g ELSE Bump(g)
  <2>1. Grows(k, M, said, g) BY GrownFits
  <2> HIDE DEF g
  <2> QED BY <2>1 DEF Grows
<1>2. ASSUME NEW c \in Members(g)
      PROVE  member[c] = said[c].value /\ member[c] \in Keys(g)
  <2>1. c \in Members(k) \cup M BY <1>1
  <2>2. said[c].value \in Keys(k) \cup Said(M, said) BY <2>1 DEF Agrees, Said
  <2>3. member[c] = said[c].value BY <2>1 DEF MemberGrown, Agrees, Members
  <2> QED BY <1>1, <2>2, <2>3
<1>3. ASSUME NEW v \in Keys(g) PROVE member[rep[v]] = v
  <2>1. CASE v \in Keys(k)
    <3>1. PICK V \in SUBSET Values : k.rep \in [V -> Ids] BY DEF Cases
    <3>2. k.rep[v] \in Ids /\ v \in Values BY <2>1, <3>1 DEF Keys
    <3>3. k.member[k.rep[v]] = v BY <2>1 DEF Agrees
    <3>4. member[k.rep[v]] = v BY <3>2, <3>3, ConstantsAreNat DEF MemberGrown
    <3> QED BY <2>1, <3>4 DEF RepGrown
  <2>2. CASE v \notin Keys(k)
    <3> DEFINE S == {c \in M : said[c].value = v}
    <3>1. v \in Said(M, said) BY <1>1, <2>2
    <3>2. S # {} /\ S \subseteq Ids BY <3>1 DEF Said
    <3>3. FirstOf(S) \in S
      <4> HIDE DEF S
      <4> QED BY <3>2, FirstIsOne
    <3>4. rep[v] = FirstOf(S) BY <2>2, <3>1 DEF RepGrown
    <3>5. member[FirstOf(S)] = v
      <4> HIDE DEF member, g
      <4> QED BY <1>1, <1>2, <3>3
    <3> QED BY <3>4, <3>5
  <2> QED BY <2>1, <2>2
<1>4. \A c \in Members(k) : member[c] = k.member[c] BY DEF MemberGrown, Members
<1>5. k.left # k.right /\ k.dirty \in BOOLEAN BY DEF Agrees, Cases
<1> HIDE DEF g, rep, member
<1>6. Agrees(g, said) BY <1>1, <1>2, <1>3, <1>5 DEF Agrees
<1>7. CASE Said(M, said) \subseteq Keys(k) BY <1>1, <1>4, <1>5, <1>6, <1>7
<1>8. CASE ~(Said(M, said) \subseteq Keys(k))
  <2>1. Attach(k, M, said) = Bump(g) BY <1>1, <1>8
  <2>2. /\ Bump(g).dirty
        /\ Bump(g).left = g.left /\ Bump(g).right = g.right /\ Bump(g).tips = g.tips
        /\ Bump(g).rep = g.rep /\ Bump(g).member = g.member
    BY <1>1, BumpKeeps
  <2>3. Agrees(Bump(g), said) BY <1>6, <2>2 DEF Agrees, Members, Keys
  <2> QED BY <1>1, <2>1, <2>2, <2>3
<1> QED BY <1>7, <1>8

\* The two sides of a new case say different things.
LEMMA NewCaseAgrees ==
    ASSUME NEW M, M \subseteq Ids, NEW said, \A c \in M : said[c].value \in Values,
           Cardinality(Said(M, said)) > 1
    PROVE  /\ Agrees(NewCase(M, said), said)
           /\ NewCase(M, said).dirty /\ NewCase(M, said).tips = {}
<1> DEFINE keys == Said(M, said)
           low == Min(keys)
           next == Min(keys \ {low})
           oldest(v) == Min({c \in M : said[c].value = v})
<1>1. keys \subseteq Nat BY ConstantsAreNat DEF Said
<1>2. keys # {} /\ \A x : keys # {x}
  <2>1. Cardinality(keys) > 1 OBVIOUS
  <2> HIDE DEF keys
  <2>2. keys # {}
    <3>1. Cardinality({}) = 0 BY FS_EmptySet
    <3> QED BY <2>1, <3>1
  <2>3. ASSUME NEW x, keys = {x} PROVE FALSE
    <3>1. Cardinality({x}) = 1 BY FS_Singleton
    <3> QED BY <2>1, <2>3, <3>1
  <2> QED BY <2>2, <2>3
<1>3. ASSUME NEW v \in keys PROVE said[oldest(v)].value = v
  <2> DEFINE S == {c \in M : said[c].value = v}
  <2>1. S # {} BY DEF Said
  <2>2. S \subseteq Ids OBVIOUS
  <2>3. Min(S) \in S
    <3>1. Ids \subseteq Nat BY ConstantsAreNat DEF Ids
    <3> HIDE DEF S
    <3> QED BY <2>1, <2>2, <3>1, MinIsThere
  <2> QED BY <2>3
<1>4. low \in keys
  <2> HIDE DEF keys
  <2> QED BY <1>1, <1>2, MinIsThere
<1>5. next \in keys \ {low}
  <2> HIDE DEF keys, low
  <2>1. keys \ {low} # {} /\ keys \ {low} \subseteq Nat BY <1>1, <1>2, <1>4
  <2> QED BY <2>1, MinIsThere
<1>6. oldest(low) # oldest(next)
  <2> HIDE DEF keys, low, next, oldest
  <2> QED BY <1>3, <1>4, <1>5
<1> DEFINE noRep == [v \in {} |-> 0]
           noMember == [c \in Ids |-> None]
<1>7. NewCase(M, said) =
        [revision |-> 0, dirty |-> TRUE, tips |-> {},
         left |-> oldest(low), right |-> oldest(next),
         rep |-> noRep, member |-> noMember]
  BY DEF NewCase, Said
<1>8. Members(NewCase(M, said)) = {} BY <1>7 DEF Members
<1>9. Keys(NewCase(M, said)) = {} BY <1>7 DEF Keys
<1> HIDE DEF keys, low, next, oldest, noRep, noMember
<1> DEFINE k == NewCase(M, said)
<1>10. k.left # k.right /\ k.dirty /\ k.tips = {} BY <1>6, <1>7
<1> HIDE DEF k
<1>11. Agrees(k, said) BY <1>8, <1>9, <1>10 DEF Agrees, k
<1> QED BY <1>10, <1>11 DEF k

\* A clean case under new circumstances: its sides and candidates are the old
\* ones, the triggers have seen nothing, and what has joined is alive.
Quiet ==
    /\ HasOpen /\ ~case.dirty
    /\ case'.left = case.left /\ case'.right = case.right /\ case'.tips = case.tips
    /\ Keys(case') = Keys(case)
    /\ \A c \in Members(case) : case'.member[c] = case.member[c]
    /\ \A c \in Members(case') \ Members(case) : status'[c] = "disputed"
    /\ \A c \in Watched(case) : status'[c] = status[c] /\ by'[c] = by[c]

\* What every step does to the case, as far as this invariant is concerned.
CaseStep ==
    HasOpen' =>
        /\ Agrees(case', fact')
        /\ case'.tips \subseteq Existing'
        /\ case'.dirty \/ Quiet

\* The trigger alone.
LEMMA TouchedCaseStep ==
    ASSUME GroupInv, LineInv, NEW sup, case' = Touched(status', sup), sup = by',
           \A c \in Existing : fact'[c] = fact[c], Existing \subseteq Existing'
    PROVE  CaseStep
<1> USE DEF GroupInv, LineInv
<1>1. CASE ~HasOpen
  <2>1. case' = None BY <1>1, TouchedFits DEF HasOpen
  <2> QED BY <2>1 DEF CaseStep, HasOpen
<1>2. CASE HasOpen
  <2>1. /\ case'.left = case.left /\ case'.right = case.right /\ case'.tips = case.tips
        /\ case'.rep = case.rep /\ case'.member = case.member
        /\ \/ case'.dirty
           \/ case' = case /\ \A c \in Watched(case) : status'[c] = status[c] /\ by'[c] = by[c]
    BY <1>2, TouchedIsQuiet
  <2>2. Members(case') = Members(case) /\ Keys(case') = Keys(case) BY <2>1 DEF Members, Keys
  <2>3. \A c \in Members(case) : fact'[c] = fact[c] BY <1>2 DEF CaseOfClaims
  <2>4. Agrees(case', fact') BY <1>2, <2>1, <2>2, <2>3 DEF Agrees, CandidatesFit
  <2>5. case'.tips \subseteq Existing' BY <1>2, <2>1 DEF TipsFit
  <2>6. case'.dirty \/ Quiet BY <1>2, <2>1, <2>2 DEF Quiet
  <2> QED BY <2>4, <2>5, <2>6 DEF CaseStep
<1> QED BY <1>1, <1>2

\* A dispute.
LEMMA EnsuredCaseStep ==
    ASSUME GroupInv, LineInv, UNCHANGED by,
           NEW M, M \subseteq Ids, \A c \in M : status'[c] = "disputed",
           NEW said, said = fact', \A c \in M : said[c].value \in Values,
           CanEnsure(M, said),
           case' = Ensured(Touched(status', by), M, said),
           \A c \in Existing : said[c] = fact[c], Existing \subseteq Existing'
    PROVE  CaseStep
<1> USE DEF GroupInv, LineInv
<1> DEFINE k == Touched(status', by)
<1>0. case' = Ensured(k, M, said) OBVIOUS
<1>1. CASE ~HasOpen
  <2>1. k = None BY <1>1, TouchedFits DEF HasOpen
  <2>2. Cardinality(Said(M, said)) > 1 BY <1>1 DEF CanEnsure, Said
  <2>3. NewCase(M, said) \in Cases BY <2>2, NewCaseFits
  <2>4. case' = Attach(NewCase(M, said), M, said) BY <2>1 DEF Ensured
  <2>5. /\ Agrees(NewCase(M, said), said)
        /\ NewCase(M, said).dirty /\ NewCase(M, said).tips = {}
    BY <2>2, NewCaseAgrees
  <2>6. Agrees(case', said) /\ case'.tips = {} /\ case'.dirty
    BY <2>3, <2>4, <2>5, AttachAgrees
  <2> QED BY <2>6 DEF CaseStep
<1>2. CASE HasOpen
  <2>1. /\ k.left = case.left /\ k.right = case.right /\ k.tips = case.tips
        /\ k.rep = case.rep /\ k.member = case.member
        /\ \/ k.dirty
           \/ k = case /\ \A c \in Watched(case) : status'[c] = status[c] /\ by[c] = by[c]
    BY <1>2, TouchedIsQuiet
  <2>2. k \in Cases /\ k # None BY <1>2, TouchedFits, NoneAssumption
  <2> HIDE DEF k
  <2>3. Members(k) = Members(case) /\ Keys(k) = Keys(case) BY <2>1 DEF Members, Keys
  <2>4. \A c \in Members(case) : said[c] = fact[c] BY <1>2 DEF CaseOfClaims
  <2>5. Agrees(k, said) BY <1>2, <2>1, <2>3, <2>4 DEF Agrees, CandidatesFit
  <2>6. case' = Attach(k, M, said) BY <1>0, <2>2 DEF Ensured
  <2>7. /\ Agrees(case', said)
        /\ case'.tips = k.tips
        /\ \/ case'.dirty
           \/ /\ ~k.dirty /\ Keys(case') = Keys(k)
              /\ \A c \in Members(k) : case'.member[c] = k.member[c]
    BY <2>2, <2>5, <2>6, AttachAgrees
  <2>8. /\ case'.left = k.left /\ case'.right = k.right
        /\ Members(case') = Members(k) \cup M
    BY <2>2, <2>6, AttachFits
  <2>9. case'.tips \subseteq Existing' BY <1>2, <2>1, <2>7 DEF TipsFit
  <2>10. case'.dirty \/ Quiet
    <3>1. SUFFICES ASSUME ~case'.dirty PROVE Quiet OBVIOUS
    <3>2. ~k.dirty BY <2>7, <3>1
    <3>3. k = case /\ \A c \in Watched(case) : status'[c] = status[c] BY <2>1, <3>2
    <3> QED BY <1>2, <2>7, <2>8, <3>1, <3>2, <3>3 DEF Quiet
  <2> QED BY <2>7, <2>9, <2>10 DEF CaseStep
<1> QED BY <1>1, <1>2

----------------------------------------------------------------------------
(* What steps do to the chains *)

\* The chains after a step, and where the tips have gone.
ChainStep ==
    /\ SupersededFits' /\ Ranked(by') /\ ReplacedByClaims'
    /\ \A c \in Ids : \/ TipIn(by', c) = TipIn(by, c)
                      \/ /\ by'[TipIn(by, c)] # by[TipIn(by, c)]
                         /\ status'[TipIn(by', c)] = "active"

\* A convergence.
LEMMA ConvergeChainStep ==
    ASSUME GroupInv, LineInv, NEW w \in Ids, status[w] \in Nonterminal \cup {"none"},
           status' = Superseding(w), by' = Succession(w)
    PROVE  ChainStep
<1> USE DEF GroupInv, LineInv
<1> DEFINE L == Group \ {w}
<1>1. by \in [Ids -> Ids \cup {None}] /\ status \in [Ids -> Statuses \cup {"none"}]
  BY DEF RowsFit
<1>2. None \notin Ids BY GroupAssumption DEF Ids
<1>3. L \subseteq Ids /\ \A c \in L : by[c] = None
  BY <1>1 DEF Group, Nonterminal, SupersededFits
<1>4. by[w] = None BY <1>1 DEF Nonterminal, SupersededFits
<1>5. by' = [c \in Ids |-> IF c \in L THEN w ELSE by[c]] BY DEF Succession
<1>6. w \notin L OBVIOUS
<1>7. \A c \in Ids : status'[c] = IF c = w THEN "active" ELSE IF c \in L THEN "superseded" ELSE status[c]
  BY DEF Superseding
<1> HIDE DEF L
<1>8. /\ Ranked(by')
      /\ \A c \in Ids : TipIn(by', c) = IF TipIn(by, c) \in L THEN w ELSE TipIn(by, c)
  BY <1>1, <1>2, <1>3, <1>4, <1>5, <1>6, TipMoves
<1>9. SupersededFits' BY <1>2, <1>3, <1>4, <1>5, <1>6, <1>7 DEF SupersededFits
<1>10. ReplacedByClaims'
  <2>1. Existing \subseteq Existing' /\ w \in Existing' BY <1>7 DEF Existing, Exists
  <2> QED BY <1>2, <1>3, <1>5, <2>1 DEF ReplacedByClaims, Superseded
<1>11. ASSUME NEW c \in Ids, TipIn(by, c) \in L
       PROVE  by'[TipIn(by, c)] # by[TipIn(by, c)] /\ status'[TipIn(by', c)] = "active"
  BY <1>2, <1>3, <1>5, <1>7, <1>8, <1>11
<1> QED BY <1>8, <1>9, <1>10, <1>11 DEF ChainStep

\* Anything else.
LEMMA OtherChainStep ==
    ASSUME GroupInv, LineInv, UNCHANGED by, Existing \subseteq Existing',
           \A c \in Ids : status'[c] # status[c] => "superseded" \notin {status[c], status'[c]}
    PROVE  ChainStep
<1> USE DEF GroupInv, LineInv
<1>1. SupersededFits' BY DEF SupersededFits
<1>2. Ranked(by') OBVIOUS
<1>3. ReplacedByClaims' BY DEF ReplacedByClaims, Superseded
<1> QED BY <1>1, <1>2, <1>3 DEF ChainStep

\* What a claim states never changes, and when one is rejected the case is queued.
DataStep ==
    /\ \A c \in Existing : fact'[c] = fact[c]
    /\ rejected' = rejected \/ case'.dirty

\* With all three, the invariant is kept.
LEMMA LineKeeps ==
    ASSUME GroupInv, GroupInv', LegalStep, LineInv, ChainStep, CaseStep, DataStep
    PROVE  LineInv'
<1> USE DEF GroupInv, LineInv
<1>1. SupersededFits' /\ Ranked(by)' /\ ReplacedByClaims' BY DEF ChainStep
<1>2. CandidatesFit' /\ TipsFit' BY DEF CaseStep, CandidatesFit, TipsFit, HasOpen
<1>3. CleanFits'
  <2>1. SUFFICES ASSUME HasOpen', ~case'.dirty
                 PROVE  /\ case'.tips = {TipIn(by', case'.left), TipIn(by', case'.right)}
                        /\ CleanIn(status', by', fact', rejected', case')
    BY DEF CleanFits
  <2>2. Quiet BY <2>1 DEF CaseStep
  <2>3. /\ case.tips = {TipIn(by, case.left), TipIn(by, case.right)}
        /\ CleanIn(status, by, fact, rejected, case)
    BY <2>2 DEF Quiet, CleanFits
  <2>4. case \in Cases /\ case' \in Cases BY <2>1, <2>2 DEF CaseFits, Quiet
  <2>5. /\ status \in [Ids -> Statuses \cup {"none"}] /\ status' \in [Ids -> Statuses \cup {"none"}]
        /\ by \in [Ids -> Ids \cup {None}] /\ by' \in [Ids -> Ids \cup {None}]
    BY DEF RowsFit
  <2>6. Unseen(status, status', by, by', fact, fact', rejected, rejected', case, case')
    <3>1. \A c \in Ids : status[c] = "expired" => status'[c] = "expired"
      BY DEF LegalStep, Allowed
    <3>2. /\ \A c \in Ids : status[c] = "superseded" <=> by[c] # None
          /\ \A c \in Ids : status'[c] = "superseded" <=> by'[c] # None
      BY <1>1 DEF SupersededFits
    <3>3. \A c \in Ids : \/ TipIn(by', c) = TipIn(by, c)
                         \/ /\ by'[TipIn(by, c)] # by[TipIn(by, c)]
                            /\ status'[TipIn(by', c)] \notin Gone
      BY DEF ChainStep, Gone
    <3>4. \A c \in Members(case') \ Members(case) : status'[c] \notin Gone
      BY <2>2 DEF Quiet, Gone
    <3>5. Watched(case) \subseteq Existing
      BY <2>2 DEF Quiet, CaseOfClaims, TipsFit, Watched, Sides
    <3>6. rejected' = rejected /\ \A c \in Watched(case) : fact'[c] = fact[c]
      BY <2>1, <3>5 DEF DataStep
    <3> QED BY <2>2, <3>1, <3>2, <3>3, <3>4, <3>6 DEF Unseen, Quiet
  <2>7. Ranked(by) OBVIOUS
  <2> HIDE DEF GroupInv, LineInv
  <2> QED BY <2>3, <2>4, <2>5, <2>6, <2>7, QuietKeepsClean
<1> QED BY <1>1, <1>2, <1>3

----------------------------------------------------------------------------
(* The steps *)

LEMMA LineIngest ==
    ASSUME GroupInv, LineInv, LegalStep, NEW f \in Facts,
           Reassert(f) \/ ReassertInDispute(f) \/ State(f) \/ Supersede(f) \/ Contest(f)
    PROVE  ChainStep /\ CaseStep
<1> USE DEF GroupInv
<1>1. status \in [Ids -> Statuses \cup {"none"}] BY DEF RowsFit
<1>2. Existing \subseteq Existing'
  BY <1>1 DEF LegalStep, Allowed, Existing, Exists, Statuses
<1>3. ASSUME Insert(f)
      PROVE  /\ NextId \in Ids /\ NextId \notin Existing /\ status[NextId] = "none"
             /\ \A c \in Existing : fact'[c] = fact[c]
             /\ \A c \in Existing \cup {NextId} : fact'[c] \in Facts
  <2>1. /\ NextId \in Ids /\ NextId \notin Existing /\ status[NextId] = "none"
        /\ \A c \in Existing \cup {NextId} : fact'[c] \in Facts
    BY <1>3, InsertFits
  <2>2. fact \in [Ids -> Facts \cup {None}] /\ fact' = [fact EXCEPT ![NextId] = f]
    BY <1>3 DEF RowsFit, Insert
  <2>3. Existing \subseteq Ids BY DEF Existing
  <2> HIDE DEF NextId, Existing
  <2> QED BY <2>1, <2>2, <2>3
<1>4. CASE Reassert(f)
  <2>1. PICK w \in Ids : status[w] \in Nonterminal /\ Converge(w) BY <1>4, WinnerIsLiving
  <2>2. ChainStep BY <2>1, ConvergeChainStep DEF Converge
  <2>3. CaseStep BY <1>2, <1>4, TouchedCaseStep DEF Reassert
  <2> QED BY <2>2, <2>3
<1>5. CASE ReassertInDispute(f)
  <2>1. /\ status' = [c \in Ids |-> IF c \in Group THEN "disputed" ELSE status[c]]
        /\ case' = Ensured(Touched(status', by), Group, fact)
        /\ CanEnsure(Group, fact) /\ UNCHANGED <<fact, by>>
    BY <1>5 DEF ReassertInDispute
  <2>2. Group \subseteq Ids /\ \A c \in Ids : c \in Group <=> status[c] \in {"active", "disputed"}
    BY DEF Group, Nonterminal
  <2>3. ChainStep BY <1>1, <1>2, <2>1, <2>2, OtherChainStep
  <2>4. \A c \in Group : fact[c].value \in Values
    BY <2>2 DEF RowsFit, Existing, Exists, Values
  <2>5. CaseStep BY <1>2, <2>1, <2>2, <2>4, EnsuredCaseStep
  <2> QED BY <2>3, <2>5
<1>6. CASE State(f)
  <2>1. /\ Insert(f) /\ status' = [status EXCEPT ![NextId] = "active"]
        /\ UNCHANGED <<by, case>>
    BY <1>6 DEF State
  <2> DEFINE n == NextId
  <2>2. /\ n \in Ids /\ n \notin Existing /\ status[n] = "none"
        /\ \A c \in Existing : fact'[c] = fact[c]
    BY <1>3, <2>1
  <2>3. status' = [status EXCEPT ![n] = "active"] BY <2>1
  <2> HIDE DEF n
  <2>4. ChainStep BY <1>1, <1>2, <2>1, <2>2, <2>3, OtherChainStep
  <2>5. HasOpen => Watched(case) \subseteq Existing
    BY DEF LineInv, CaseOfClaims, TipsFit, Watched, Sides
  <2>6. \A c \in Existing : status'[c] = status[c] BY <1>1, <2>2, <2>3 DEF Existing
  <2>7. CaseStep
    <3>1. SUFFICES ASSUME HasOpen PROVE CaseStep BY <2>1 DEF CaseStep, HasOpen
    <3>2. Members(case) \subseteq Existing BY <3>1 DEF CaseOfClaims
    <3>3. Agrees(case', fact') BY <2>1, <2>2, <3>1, <3>2 DEF LineInv, CandidatesFit, Agrees
    <3>4. case'.tips \subseteq Existing' BY <1>2, <2>1, <3>1 DEF LineInv, TipsFit
    <3>5. \A c \in Watched(case) : status'[c] = status[c] /\ by'[c] = by[c]
      BY <2>1, <2>5, <2>6, <3>1
    <3>6. case.dirty \/ Quiet BY <2>1, <3>1, <3>5 DEF Quiet
    <3> QED BY <2>1, <3>3, <3>4, <3>6 DEF CaseStep
  <2> QED BY <2>4, <2>7
<1>7. CASE Supersede(f)
  <2>1. /\ Insert(f) /\ status' = Superseding(NextId) /\ by' = Succession(NextId)
        /\ case' = Touched(status', by')
    BY <1>7 DEF Supersede
  <2>2. NextId \in Ids /\ status[NextId] = "none" BY <1>3, <2>1
  <2>3. ChainStep BY <2>1, <2>2, ConvergeChainStep
  <2>4. CaseStep BY <1>2, <1>3, <2>1, TouchedCaseStep
  <2> QED BY <2>3, <2>4
<1>8. CASE Contest(f)
  <2> DEFINE n == NextId
             M == Group \cup {n}
  <2>1. /\ Insert(f)
        /\ status' = [c \in Ids |-> IF c \in M THEN "disputed" ELSE status[c]]
        /\ case' = Ensured(Touched(status', by), M, fact')
        /\ CanEnsure(M, fact') /\ UNCHANGED by
    BY <1>8 DEF Contest
  <2>2. /\ n \in Ids /\ n \notin Existing /\ status[n] = "none"
        /\ \A c \in Existing : fact'[c] = fact[c]
        /\ \A c \in Existing \cup {n} : fact'[c] \in Facts
    BY <1>3, <2>1
  <2> HIDE DEF n
  <2>3. Group \subseteq Ids /\ \A c \in Ids : c \in Group <=> status[c] \in {"active", "disputed"}
    BY DEF Group, Nonterminal
  <2>4. M \subseteq Ids /\ Group \subseteq Existing BY <2>2, <2>3 DEF Existing, Exists
  <2>5. \A c \in M : fact'[c].value \in Values BY <2>2, <2>4 DEF Values
  <2>6. \A c \in M : status'[c] = "disputed" BY <2>1, <2>4
  <2>7. ChainStep BY <1>1, <1>2, <2>1, <2>2, <2>3, OtherChainStep
  <2>8. CaseStep
    <3> HIDE DEF M
    <3> QED BY <1>2, <2>1, <2>2, <2>4, <2>5, <2>6, EnsuredCaseStep
  <2> QED BY <2>7, <2>8
<1> QED BY <1>4, <1>5, <1>6, <1>7, <1>8

LEMMA LineLifecycle ==
    ASSUME GroupInv, LineInv, LegalStep, NEW c \in Ids,
           Retract(c) \/ Expire(c) \/ Archive(c) \/ Resurrect(c)
    PROVE  ChainStep /\ CaseStep
<1>1. PICK st \in {"retracted", "expired", "archived", "active"} :
        Turn(c, st) /\ status[c] \in {"active", "disputed", "archived"}
  BY DEF Retract, Expire, Archive, Resurrect, Nonterminal
<1>2. /\ status' = [status EXCEPT ![c] = st] /\ case' = Touched(status', by)
      /\ UNCHANGED <<fact, by>>
  BY <1>1 DEF Turn
<1>3. status \in [Ids -> Statuses \cup {"none"}] BY DEF GroupInv, RowsFit
<1>4. Existing \subseteq Existing' BY <1>1, <1>2, <1>3 DEF Existing, Exists
<1>5. ChainStep BY <1>1, <1>2, <1>3, <1>4, OtherChainStep
<1>6. CaseStep BY <1>2, <1>4, TouchedCaseStep
<1> QED BY <1>5, <1>6

LEMMA LineSettle ==
    ASSUME GroupInv, LineInv, NEW w \in Ids, Settle(w)
    PROVE  ChainStep /\ CaseStep
<1>1. /\ status[w] \in Nonterminal
      /\ status' = Superseding(w) /\ by' = Succession(w) /\ case' = None
  BY DEF Settle, Converge, Close
<1>2. ChainStep BY <1>1, ConvergeChainStep
<1> QED BY <1>1, <1>2 DEF CaseStep, HasOpen

LEMMA LineReject ==
    ASSUME GroupInv, GroupInv', LineInv, NEW v \in Values, Reject(v)
    PROVE  ChainStep /\ CaseStep /\ case'.dirty
<1> USE DEF GroupInv, LineInv
<1> DEFINE dropped == {c \in Ids : case.member[c] = v}
           rep == [w \in Keys(case) \ {v} |-> case.rep[w]]
           member == [c \in Ids |-> IF c \in dropped THEN None ELSE case.member[c]]
           k == [case EXCEPT !.rep = rep, !.member = member]
<1>1. /\ HasOpen
      /\ status' = [c \in Ids |-> IF c \in dropped \cap Group THEN "retracted" ELSE status[c]]
      /\ case' = Bump(k) /\ UNCHANGED <<fact, by>>
  BY DEF Reject, DossierFresh
<1>2. case \in Cases BY <1>1 DEF CaseFits
<1>3. Group \subseteq Ids /\ \A c \in Ids : c \in Group <=> status[c] \in {"active", "disputed"}
  BY DEF Group, Nonterminal
<1>4. Existing \subseteq Existing' BY <1>1, <1>3 DEF Existing, Exists
<1>5. ChainStep
  <2>1. \A c \in Ids : status'[c] # status[c] => "superseded" \notin {status[c], status'[c]}
    BY <1>1, <1>3
  <2> QED BY <1>1, <1>4, <2>1, OtherChainStep
<1>6. /\ DOMAIN case = {"revision", "dirty", "tips", "left", "right", "rep", "member"}
      /\ case = [x \in DOMAIN case |-> case[x]]
  BY <1>2 DEF Cases
<1>7. /\ case'.left = case.left /\ case'.right = case.right /\ case'.tips = case.tips
      /\ case'.rep = rep /\ case'.member = member /\ case'.dirty
  <2> HIDE DEF rep, member
  <2> QED BY <1>1, <1>6 DEF Bump
<1>8. Members(case') = Members(case) \ dropped
  <2>1. \A c \in Ids : member[c] # None <=> case.member[c] # None /\ c \notin dropped
    OBVIOUS
  <2> HIDE DEF member, dropped
  <2> QED BY <1>7, <2>1 DEF Members
<1>9. Keys(case') = Keys(case) \ {v} BY <1>7 DEF Keys
<1>10. Agrees(case, fact) BY <1>1 DEF CandidatesFit
<1>11. Agrees(case', fact')
  <2>1. case'.left # case'.right BY <1>7, <1>10 DEF Agrees
  <2>2. ASSUME NEW c \in Members(case')
        PROVE  case'.member[c] = fact'[c].value /\ case'.member[c] \in Keys(case')
    <3>1. c \in Members(case) /\ c \notin dropped /\ c \in Ids BY <1>8 DEF Members
    <3>2. case'.member[c] = case.member[c] /\ case.member[c] # v BY <1>7, <3>1
    <3> HIDE DEF dropped, rep, member, k
    <3> QED BY <1>1, <1>9, <1>10, <3>1, <3>2 DEF Agrees
  <2>3. ASSUME NEW x \in Keys(case') PROVE case'.member[case'.rep[x]] = x
    <3>1. x \in Keys(case) /\ x # v BY <1>9
    <3>2. case.member[case.rep[x]] = x BY <1>10, <3>1 DEF Agrees
    <3>3. case.rep[x] \in Ids
      <4>1. PICK V \in SUBSET Values : case.rep \in [V -> Ids] BY <1>2 DEF Cases
      <4> QED BY <3>1, <4>1 DEF Keys
    <3>4. rep[x] = case.rep[x] /\ member[case.rep[x]] = x BY <3>1, <3>2, <3>3
    <3> HIDE DEF dropped, rep, member, k
    <3> QED BY <1>7, <3>4
  <2> HIDE DEF dropped, rep, member, k
  <2> QED BY <2>1, <2>2, <2>3 DEF Agrees
<1>12. case'.tips \subseteq Existing' BY <1>1, <1>4, <1>7 DEF TipsFit
<1> QED BY <1>5, <1>7, <1>11, <1>12 DEF CaseStep

\* Where claims, their successors and the case stay as they are, so does the
\* invariant.
LEMMA LineUntouched ==
    ASSUME LineInv, UNCHANGED <<status, fact, by, rejected, case>>
    PROVE  LineInv'
<1> USE DEF LineInv
<1>1. Existing' = Existing BY DEF Existing, Exists
<1>2. SupersededFits' /\ Ranked(by)' /\ ReplacedByClaims'
  BY <1>1 DEF SupersededFits, ReplacedByClaims
<1>3. CandidatesFit' BY DEF CandidatesFit, HasOpen
<1>4. TipsFit' BY <1>1 DEF TipsFit, HasOpen
<1>5. CleanFits' BY DEF CleanFits, HasOpen
<1> QED BY <1>2, <1>3, <1>4, <1>5

\* The decision depends on the sides, the candidates and their members.
LEMMA DecideReadsSides ==
    ASSUME NEW k, NEW k2, k2.left = k.left, k2.right = k.right, k2.rep = k.rep, k2.member = k.member
    PROVE  Decide(k2) = Decide(k)
<1>1. Keys(k2) = Keys(k) /\ Members(k2) = Members(k) /\ Sides(k2) = Sides(k)
  BY DEF Keys, Members, Sides
<1>2. Living(k2) = Living(k) BY <1>1 DEF Living
<1> QED BY <1>1, <1>2 DEF Decide, DecideGroup

\* The reviewer leaves the case to people: this is where a case becomes clean.
LEMMA LineManual ==
    ASSUME GroupInv, GroupInv', LineInv, Apply, verdict.decision = Manual,
           case' = [case EXCEPT !.dirty = FALSE, !.tips = {Tip(case.left), Tip(case.right)}],
           UNCHANGED <<status, by>>
    PROVE  LineInv'
<1> USE DEF GroupInv, LineInv
<1>1. HasOpen /\ verdict \notin {None, Stale} /\ verdict.docket = Docket
      /\ UNCHANGED <<fact, rejected>>
  BY DEF Apply, StillCurrent
<1>2. case \in Cases BY <1>1 DEF CaseFits
<1>3. /\ case'.left = case.left /\ case'.right = case.right
      /\ case'.rep = case.rep /\ case'.member = case.member
      /\ ~case'.dirty /\ case'.tips = {Tip(case.left), Tip(case.right)}
  BY <1>2 DEF Cases
<1>4. Members(case') = Members(case) /\ Keys(case') = Keys(case) /\ Sides(case') = Sides(case)
  BY <1>3 DEF Members, Keys, Sides
<1>5. Existing' = Existing BY DEF Existing, Exists
<1>6. \A c : Tip(c) = TipIn(by, c) BY DEF Tip, TipIn
<1>7. SupersededFits' /\ Ranked(by)' /\ ReplacedByClaims'
  BY <1>5 DEF SupersededFits, ReplacedByClaims
<1>8. CandidatesFit'
  <2>1. Agrees(case, fact) BY <1>1 DEF CandidatesFit
  <2>2. Agrees(case', fact') BY <1>1, <1>3, <1>4, <2>1 DEF Agrees
  <2> QED BY <2>2 DEF CandidatesFit
<1>9. TipsFit'
  <2>1. Sides(case) \subseteq Existing BY <1>1 DEF CaseOfClaims
  <2>2. by \in [Ids -> Ids \cup {None}] /\ Existing \subseteq Ids BY DEF RowsFit, Existing
  <2>3. \A d \in Existing : by[d] # None => by[d] \in Existing
    BY <2>2 DEF ReplacedByClaims, Superseded
  <2>4. \A c \in Existing : TipIn(by, c) \in Existing BY <2>2, <2>3, TipInherits
  <2>5. case'.tips \subseteq Existing BY <1>3, <1>6, <2>1, <2>4 DEF Sides
  <2> QED BY <1>5, <2>5 DEF TipsFit
<1>10. CleanFits'
  <2>1. Docket = [case |-> Plain(case), status |-> status,
                  fact |-> fact, by |-> by, rejected |-> rejected]
    BY DEF Docket, Plain
  <2>2. DecideIn(status, by, fact, rejected, Plain(case)) = Manual
    BY <1>1, <2>1 DEF VerdictDecided
  <2>3. Decide(case) = Manual BY <1>2, <2>2, DecideReads, DecideReadsPlain
  <2>4. Decide(case') = Decide(case) BY <1>3, DecideReadsSides
  <2>5. DecideIn(status, by, fact, rejected, case') = Manual BY <2>3, <2>4, DecideReads
  <2>6. CleanIn(status', by', fact', rejected', case') BY <1>1, <2>5 DEF CleanIn
  <2>7. case'.tips = {TipIn(by', case'.left), TipIn(by', case'.right)} BY <1>3, <1>6
  <2> QED BY <2>6, <2>7 DEF CleanFits
<1> QED BY <1>7, <1>8, <1>9, <1>10

LEMMA LineApply ==
    ASSUME GroupInv, GroupInv', LegalStep, LineInv, Apply
    PROVE  LineInv'
<1>1. CASE /\ verdict.decision = Manual
           /\ case' = [case EXCEPT !.dirty = FALSE, !.tips = {Tip(case.left), Tip(case.right)}]
           /\ UNCHANGED <<status, by>>
  BY <1>1, LineManual
<1>2. CASE Close("obsolete") /\ UNCHANGED <<status, by>>
  <2>1. Existing' = Existing BY <1>2 DEF Existing, Exists
  <2>2. ChainStep BY <1>2, <2>1, OtherChainStep
  <2>3. CaseStep BY <1>2 DEF CaseStep, HasOpen, Close
  <2>4. DataStep BY DEF DataStep, Apply
  <2> QED BY <2>2, <2>3, <2>4, LineKeeps
<1>3. CASE verdict.decision.kind \in {"choose", "keep"} /\ Settle(verdict.decision.winner)
  <2>1. verdict.decision.winner \in Ids
    BY <1>3 DEF Apply, StillCurrent, GroupInv, VerdictDecided
  <2>2. DataStep BY DEF DataStep, Apply
  <2> QED BY <1>3, <2>1, <2>2, LineSettle, LineKeeps
<1> QED BY <1>1, <1>2, <1>3 DEF Apply

----------------------------------------------------------------------------
(* The theorems *)

LEMMA LineInit ==
    ASSUME Init
    PROVE  LineInv
<1> USE DEF Init
<1>1. Superseded(by) = {} BY DEF Superseded
<1>2. SupersededFits /\ ReplacedByClaims BY <1>1 DEF SupersededFits, ReplacedByClaims
<1>3. Ranked(by)
  <2>1. Cardinality(Superseded(by)) = 0 BY <1>1, FS_EmptySet
  <2>2. [c \in Ids |-> 0] \in [Ids -> 0..Cardinality(Superseded(by))] BY <2>1
  <2>3. Ranks(by, [c \in Ids |-> 0]) BY <1>1 DEF Ranks
  <2> QED BY <2>2, <2>3 DEF Ranked
<1>4. CandidatesFit /\ TipsFit /\ CleanFits
  BY DEF CandidatesFit, TipsFit, CleanFits, HasOpen
<1> QED BY <1>2, <1>3, <1>4 DEF LineInv

LEMMA LineStep ==
    ASSUME GroupInv, GroupInv', LegalStep, LineInv, [Next]_vars
    PROVE  LineInv'
<1>1. ASSUME NEW f \in Facts,
             Reassert(f) \/ ReassertInDispute(f) \/ State(f) \/ Supersede(f) \/ Contest(f)
      PROVE  LineInv'
  <2>1. \A c \in Existing : fact'[c] = fact[c]
    <3>1. CASE UNCHANGED fact BY <3>1
    <3>2. CASE Insert(f)
      <4>1. /\ NextId \notin Existing
            /\ fact \in [Ids -> Facts \cup {None}] /\ fact' = [fact EXCEPT ![NextId] = f]
        BY <3>2, InsertFits DEF GroupInv, RowsFit, Insert
      <4>2. Existing \subseteq Ids BY DEF Existing
      <4> HIDE DEF NextId, Existing
      <4> QED BY <4>1, <4>2
    <3> QED BY <1>1, <3>1, <3>2 DEF Reassert, ReassertInDispute, State, Supersede, Contest
  <2>2. UNCHANGED rejected
    BY <1>1 DEF Reassert, ReassertInDispute, State, Supersede, Contest, Keep
  <2> QED BY <1>1, <2>1, <2>2, LineIngest, LineKeeps DEF DataStep
<1>2. ASSUME NEW c \in Ids, Retract(c) \/ Expire(c) \/ Archive(c) \/ Resurrect(c)
      PROVE  LineInv'
  <2>1. DataStep BY <1>2 DEF DataStep, Retract, Expire, Archive, Resurrect, Turn
  <2> QED BY <1>2, <2>1, LineLifecycle, LineKeeps
<1>3. ASSUME NEW c \in Ids, Select(c) PROVE LineInv'
  <2>1. Settle(c) /\ DataStep BY <1>3 DEF Select, DataStep
  <2> QED BY <2>1, LineSettle, LineKeeps
<1>4. ASSUME NEW v \in Values, Reject(v) PROVE LineInv'
  <2>1. CaseStep /\ ChainStep /\ case'.dirty BY <1>4, LineReject
  <2>2. DataStep BY <1>4, <2>1 DEF DataStep, Reject
  <2> QED BY <2>1, <2>2, LineKeeps
<1>5. CASE Apply BY <1>5, LineApply
<1>6. CASE Review \/ Refuse \/ ReviewerDies \/ ReadDossier \/ UNCHANGED vars
  BY <1>6, LineUntouched DEF Review, Refuse, ReviewerDies, ReadDossier, vars
<1> QED BY <1>1, <1>2, <1>3, <1>4, <1>5, <1>6 DEF Next, Reviewing

\* The supersession chains end, a case agrees with what its claims say, and what
\* is not queued has been left to people.
THEOREM LineInvariant == Spec => []LineInv
<1>1. GroupInv /\ LineInv /\ [Next]_vars => LineInv' BY GroupStep, LineStep
<1> QED BY <1>1, LineInit, GroupInvariant, PTL DEF Spec

\* The dirty queue misses a case that can be decided only where a member's
\* successor has gone unseen.
THEOREM CleanIsForPeople == Spec => []CleanMeansManual
<1>1. GroupInv /\ LineInv => CleanMeansManual
  <2> SUFFICES ASSUME GroupInv, LineInv, HasOpen, ~case.dirty
               PROVE  Decide(case) = Manual \/ EndedUnseen
    BY DEF CleanMeansManual
  <2>1. CleanIn(status, by, fact, rejected, case) BY DEF LineInv, CleanFits
  <2>2. CASE DecideIn(status, by, fact, rejected, case) = Manual BY <2>2, DecideReads
  <2>3. CASE EndedIn(status, by, case)
    <3>1. \A c : Tip(c) = TipIn(by, c) /\ (IsGone(c) <=> GoneIn(status, by, c))
      BY DEF Tip, TipIn, IsGone, GoneIn
    <3> QED BY <2>3, <3>1 DEF EndedIn, EndedUnseen
  <2> QED BY <2>1, <2>2, <2>3 DEF CleanIn
<1> QED BY <1>1, GroupInvariant, LineInvariant, PTL

\* No row, no fact; claims alone are rejected; and upkeep within its bound.
RowsBlank ==
    /\ \A c \in Ids \ Existing : fact[c] = None
    /\ rejected \subseteq Ids
    /\ upkeep \in 0..MaxUpkeep

LEMMA BlankStep ==
    ASSUME GroupInv, GroupInv', LegalStep, RowsBlank, [Next]_vars
    PROVE  RowsBlank'
<1>1. Existing \subseteq Existing'
  BY DEF LegalStep, Allowed, Existing, Exists, GroupInv, RowsFit, Statuses
<1>2. upkeep \in Nat /\ upkeep <= MaxUpkeep BY GroupAssumption DEF RowsBlank
<1>3. ASSUME UNCHANGED fact, UNCHANGED upkeep \/ Upkeep, rejected' \subseteq Ids
      PROVE  RowsBlank'
  <2>1. upkeep' \in 0..MaxUpkeep BY <1>2, <1>3, GroupAssumption DEF Upkeep
  <2> QED BY <1>1, <1>3, <2>1 DEF RowsBlank
<1>4. ASSUME NEW f \in Facts, Insert(f), NextId \in Existing', UNCHANGED <<rejected, upkeep>>
      PROVE  RowsBlank'
  <2>1. fact \in [Ids -> Facts \cup {None}] /\ fact' = [fact EXCEPT ![NextId] = f]
    BY <1>4 DEF Insert, GroupInv, RowsFit
  <2> DEFINE n == NextId
  <2>2. fact' = [fact EXCEPT ![n] = f] /\ n \in Existing' BY <1>4, <2>1
  <2> HIDE DEF n
  <2> QED BY <1>1, <1>2, <1>4, <2>1, <2>2 DEF RowsBlank
<1>5. ASSUME NEW f \in Facts, State(f) \/ Supersede(f) \/ Contest(f)
      PROVE  RowsBlank'
  <2>1. Insert(f) /\ NextId \in Ids /\ UNCHANGED <<rejected, upkeep>>
    BY <1>5 DEF State, Supersede, Contest, Insert, Keep
  <2>2. status'[NextId] \in {"active", "disputed"}
    <3> DEFINE n == NextId
    <3>1. CASE State(f)
      <4>1. status' = [status EXCEPT ![n] = "active"] BY <3>1 DEF State
      <4>2. status \in [Ids -> Statuses \cup {"none"}] /\ n \in Ids
        BY <2>1 DEF GroupInv, RowsFit
      <4> HIDE DEF n
      <4>3. status'[n] = "active" BY <4>1, <4>2
      <4> QED BY <4>3 DEF n
    <3>2. CASE Supersede(f) BY <2>1, <3>2 DEF Supersede, Superseding
    <3>3. CASE Contest(f)
      <4>1. status' = [c \in Ids |-> IF c \in Group \cup {n} THEN "disputed" ELSE status[c]]
        BY <3>3 DEF Contest
      <4> QED BY <2>1, <4>1
    <3> QED BY <1>5, <3>1, <3>2, <3>3
  <2>3. NextId \in Existing' BY <2>1, <2>2 DEF Existing, Exists
  <2> QED BY <1>4, <2>1, <2>3
<1>6. ASSUME NEW f \in Facts, Reassert(f) \/ ReassertInDispute(f)
      PROVE  RowsBlank'
  BY <1>3, <1>6 DEF Reassert, ReassertInDispute, Keep, RowsBlank
<1>7. ASSUME NEW c \in Ids, Retract(c) \/ Expire(c) \/ Archive(c) \/ Resurrect(c) \/ Select(c)
      PROVE  RowsBlank'
  BY <1>3, <1>7 DEF Retract, Expire, Archive, Resurrect, Turn, Select, RowsBlank
<1>8. ASSUME NEW v \in Values, Reject(v) PROVE RowsBlank'
  BY <1>3, <1>8 DEF Reject, RowsBlank
<1>9. CASE Reviewing \/ ReviewerDies \/ ReadDossier \/ UNCHANGED vars
  BY <1>3, <1>9 DEF Reviewing, Review, Apply, Refuse, ReviewerDies, ReadDossier, vars, RowsBlank
<1> QED BY <1>5, <1>6, <1>7, <1>8, <1>9 DEF Next

\* Types, and the shape the readers of a case rely on: chains end, members belong
\* to candidates, representatives are members.
THEOREM TypeCorrect == Spec => []TypeOK
<1>1. Init => RowsBlank
  <2>1. Init => 0 \in 0..MaxUpkeep BY GroupAssumption
  <2> QED BY <2>1 DEF Init, RowsBlank
<1>2. GroupInv /\ RowsBlank /\ [Next]_vars => RowsBlank' BY GroupStep, BlankStep
<1>3. Spec => []RowsBlank BY <1>1, <1>2, GroupInvariant, PTL DEF Spec
<1>4. GroupInv /\ LineInv /\ RowsBlank => TypeOK
  <2> SUFFICES ASSUME GroupInv, LineInv, RowsBlank PROVE TypeOK OBVIOUS
  <2> USE DEF GroupInv, LineInv, RowsBlank
  <2>1. /\ status \in [Ids -> Statuses \cup {"none"}]
        /\ fact \in [Ids -> Facts \cup {None}]
        /\ by \in [Ids -> Ids \cup {None}]
    BY DEF RowsFit
  <2>2. ASSUME NEW c \in Ids
        PROVE  /\ (status[c] = "none") <=> (fact[c] = None)
               /\ (status[c] = "superseded") <=> (by[c] # None)
               /\ by[Tip(c)] = None
    <3>1. (status[c] = "none") <=> (fact[c] = None)
      BY GroupAssumption DEF RowsFit, Existing, Exists
    <3>2. (status[c] = "superseded") <=> (by[c] # None) BY DEF SupersededFits
    <3>3. by[TipIn(by, c)] = None BY <2>1, TipIsLast
    <3> QED BY <3>1, <3>2, <3>3 DEF Tip, TipIn
  <2>3. HasOpen => CaseOK(case)
    <3> SUFFICES ASSUME HasOpen PROVE CaseOK(case) OBVIOUS
    <3>1. case \in Cases BY DEF CaseFits
    <3>2. {case.left, case.right} \cup case.tips \subseteq {c \in Ids : Exists(c)}
      BY DEF CaseOfClaims, TipsFit, Sides, Existing
    <3>3. Agrees(case, fact) BY DEF CandidatesFit
    <3> QED BY <3>1, <3>2, <3>3 DEF CaseOK, Agrees
  <2> QED BY <2>1, <2>2, <2>3 DEF TypeOK, EndedFits
<1> QED BY <1>3, <1>4, GroupInvariant, LineInvariant, PTL
=============================================================================
