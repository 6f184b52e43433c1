--------------------------- MODULE MCClaimGroups ---------------------------
(* Facts for TLC: three values, one of them stated with two qualifiers.  The *)
(* first is of low authority and, should it end, ends before the others      *)
(* begin; the last two overlap.  All rules for two claims can decide.        *)
EXTENDS ClaimGroups

Fact(v, predicate, change, since, until, authority) ==
    [value |-> v, predicate |-> predicate, change |-> change,
     since |-> since, until |-> until, authority |-> authority]

MCChangePredicates == {"prefers"}
MCFacts == {Fact(1, "uses", FALSE, 1, 2, 1), Fact(1, "uses", TRUE, 2, 3, 2),
            Fact(2, "prefers", FALSE, 2, 4, 2), Fact(3, "prefers", FALSE, 3, 4, 2)}
MCIdRank == <<3, 1, 4, 2>>
=============================================================================
