---------------------------- MODULE RetryRounds ----------------------------
(***************************************************************************)
(* What extraction promises for every ingested event, without jobs, tasks  *)
(* or workers: the event is worked on in rounds, one at a time; the first  *)
(* round starts when it is ingested, and at most MaxDeferred more rounds   *)
(* start afterwards.  ExtractionPipeline is shown to implement this.       *)
(***************************************************************************)
EXTENDS Naturals

CONSTANTS
    Events,
    LegacyEvents,   \* events whose first round an older release closed
    MaxDeferred     \* rounds beyond the first

VARIABLES
    rounds,   \* rounds[e]: rounds started
    open      \* open[e]: a round is going on

roundVars == <<rounds, open>>

RoundsInit ==
    /\ \E old \in SUBSET LegacyEvents :
        rounds = [e \in Events |-> IF e \in old THEN 1 ELSE 0]
    /\ open = [e \in Events |-> FALSE]

StartRound(e) ==
    /\ ~ open[e]
    /\ rounds[e] <= MaxDeferred
    /\ rounds' = [rounds EXCEPT ![e] = rounds[e] + 1]
    /\ open' = [open EXCEPT ![e] = TRUE]

\* The rounds of one window end together.
CloseRounds(S) ==
    /\ \A e \in S : open[e]
    /\ open' = [e \in Events |-> open[e] /\ e \notin S]
    /\ UNCHANGED rounds

RoundsNext ==
    \/ \E e \in Events : StartRound(e)
    \/ \E S \in SUBSET Events : CloseRounds(S)

RoundsSpec == RoundsInit /\ [][RoundsNext]_roundVars
=============================================================================
