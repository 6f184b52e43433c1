---------------------------- MODULE CircuitBreaker ----------------------------
(***************************************************************************)
(* The circuit breaker of the Hermes adapter's HTTP client                  *)
(* (adapters/hermes/http_client.py): a counter of failures, a time until    *)
(* which it is open, and the thread that may probe the server afterwards.   *)
(* Every operation holds the client's lock.                                 *)
(***************************************************************************)
EXTENDS Naturals

CONSTANTS
    Threads,
    NoThread,
    Threshold       \* _failure_threshold

ASSUME BreakerAssumption == NoThread \notin Threads /\ Threshold \in Nat \ {0}

VARIABLES
    circuit,        \* _circuit_open_until: not set, not yet over, over
    failures,       \* _failure_count
    probe           \* _probe_owner

breaker == <<circuit, failures, probe>>

BreakerTypeOK ==
    /\ circuit \in {"closed", "open", "half_open"}
    /\ failures \in 0..(Threshold - 1)
    /\ probe \in Threads \cup {NoThread}

BreakerInit == circuit = "closed" /\ failures = 0 /\ probe = NoThread

\* can_call returns true; past the opening time it does so for one thread.
Granted(t) ==
    \/ circuit = "closed" /\ UNCHANGED breaker
    \/ circuit = "half_open" /\ probe = NoThread /\ probe' = t /\ UNCHANGED <<circuit, failures>>

\* can_call returns false.
Denied ==
    /\ circuit = "open" \/ (circuit = "half_open" /\ probe # NoThread)
    /\ UNCHANGED breaker

\* The result of any call counts unless the breaker is open.
CountsOfAny(t) == circuit # "open"

\* The result of t's call counts: the breaker is not open, nobody else probes.
Counts(t) == circuit # "open" /\ probe \in {NoThread, t}

OnSuccess(t) ==
    IF Counts(t) THEN circuit' = "closed" /\ failures' = 0 /\ probe' = NoThread
    ELSE UNCHANGED breaker

\* The probe right is not given back.
OpenWithProbe == circuit' = "open" /\ failures' = 0 /\ UNCHANGED probe

\* _open_locked
Open == circuit' = "open" /\ failures' = 0 /\ probe' = NoThread

OnFailure(t) ==
    \/ ~Counts(t) /\ UNCHANGED breaker
    \/ Counts(t) /\ (probe = t \/ failures + 1 >= Threshold) /\ Open
    \/ /\ Counts(t) /\ probe # t /\ failures + 1 < Threshold
       /\ failures' = failures + 1
       /\ UNCHANGED <<circuit, probe>>

\* The opening time passes.
Elapse == circuit = "open" /\ circuit' = "half_open" /\ UNCHANGED <<failures, probe>>
===============================================================================
