---------------------------- MODULE EffectLedger ----------------------------
(***************************************************************************)
(* What the recall side effects promise: a record that was taken on has    *)
(* its effect at most once and only after the records it needs, it may be  *)
(* given up but is never forgotten half way, and an effect stays.          *)
(***************************************************************************)
CONSTANTS
    Records,    \* effects somebody may ask for
    Immediate,  \* a subset of Records: those that may also take effect while they are asked for
    Needs       \* Needs[k]: the set of records that must have taken effect before k

VARIABLE ledger \* ledger[k]: what became of record k

LedgerStates == {"none", "taken", "done", "dropped"}

LedgerTypeOK == ledger \in [Records -> LedgerStates]

LedgerInit == ledger = [k \in Records |-> "none"]

Take(k) ==
    /\ ledger[k] = "none"
    /\ ledger' = [ledger EXCEPT ![k] = "taken"]

Do(k) ==
    /\ ledger[k] = "taken" \/ (k \in Immediate /\ ledger[k] # "done")
    /\ \A n \in Needs[k] : ledger[n] = "done"
    /\ ledger' = [ledger EXCEPT ![k] = "done"]

\* A crash may cost several records at once.
Drop(S) ==
    /\ \A k \in S : ledger[k] = "taken"
    /\ ledger' = [k \in Records |-> IF k \in S THEN "dropped" ELSE ledger[k]]

LedgerNext ==
    \/ \E k \in Records : Take(k) \/ Do(k)
    \/ \E S \in SUBSET Records : Drop(S)

LedgerSpec == LedgerInit /\ [][LedgerNext]_ledger
=============================================================================
