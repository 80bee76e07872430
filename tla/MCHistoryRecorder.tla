------------------------- MODULE MCHistoryRecorder -------------------------
\* Instances of HistoryRecorder and RuntimeRecords.
EXTENDS RuntimeRecords, SequencesExt

CONSTANTS o1, a, b

\* One order of two lots, which its intent asked for as one or as two.
MCOneOrder == {o1}
MCTwoLots == [o \in Orders |-> 2]
MCOneLotIntended == [o \in Orders |-> 1]

MCPositions == {-1, 0, 1}
\* A behaviour is about runs and restarts, an order and its run, an order and a
\* restart, or positions.
MCBudgets ==
  {[run |-> 3, order |-> 0, position |-> 0, fault |-> 1],
   [run |-> 2, order |-> 2, position |-> 0, fault |-> 0],
   [run |-> 0, order |-> 4, position |-> 0, fault |-> 1],
   [run |-> 0, order |-> 0, position |-> 3, fault |-> 0],
   [run |-> 0, order |-> 0, position |-> 2, fault |-> 1],
   [run |-> 0, order |-> 1, position |-> 0, fault |-> 2]}

\* In a behaviour about runs alone nobody syncs: there is nothing to record.
MCBound == (events["run"] > 0 /\ events["order"] = 0) => Idle

\* What a behaviour of RuntimeRecords has: two handlers and two tasks that cross, or
\* a dispatch, each with an append that fails.
MCRecordBudgets ==
  {[event |-> 2, dispatch |-> 0, capture |-> 0, note |-> 0, failure |-> 1],
   [event |-> 0, dispatch |-> 0, capture |-> 2, note |-> 2, failure |-> 1],
   [event |-> 1, dispatch |-> 1, capture |-> 0, note |-> 0, failure |-> 1],
   [event |-> 0, dispatch |-> 1, capture |-> 1, note |-> 0, failure |-> 1]}

\* A behaviour is one of the trading history, while the other records rest, or one of
\* these records.
MCInit ==
  /\ Init
  /\ RecordsAtRest
  /\ records_left \in {None} \cup RecordBudgets
MCNext ==
  \/ records_left = None /\ Next /\ UNCHANGED record_vars
  \/ records_left # None /\ RecordsNext
MCSpec == MCInit /\ [][MCNext]_<<vars, record_vars>>

\* What Rebuilt counts is what applying the rows of a listing one by one comes to.
FoldedIsCounted ==
  \A listing \in UNION {[1..n -> {EventFields(action, 1) : action \in DOMAIN Rank}] : n \in 0..4} :
    LET folded == FoldLeft(Applied, NoProjection, listing)
        many(action) == Cardinality({i \in DOMAIN listing : listing[i].action = action})
    IN folded = [total |-> Len(listing), manual |-> many("mode_changed"),
                 succeeded |-> many("dispatch_succeeded"), failed |-> many("dispatch_failed"),
                 last |-> IF listing = <<>> THEN None ELSE Last(listing).id]
ASSUME FoldAssumption == FoldedIsCounted

MCSymmetry == Permutations(Syncs)
=============================================================================
