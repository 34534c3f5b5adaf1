------------------------ MODULE SequencingRefinement ------------------------
(***************************************************************************)
(* Sequencing implements InclusionPromise: the status of an intent and the *)
(* list of slots are read off the log.                                     *)
(***************************************************************************)
EXTENDS Sequencing

\* Dropped beats sequenced, as in Projections::lifecycle (projection.rs:185-200).
StatusIn(entries, id) ==
  IF id \in ExpiredIds(entries) THEN "expired"
  ELSE IF id \in CommittedIds(entries) THEN "sequenced"
  ELSE IF id \in ReceivedIds(entries) THEN "received"
  ELSE "unknown"

\* The contents of the slots, in the order their entries were appended.
SlotsIn(entries) ==
  [n \in 1..Cardinality(Committed(entries)) |->
     entries[CHOOSE p \in Committed(entries) :
               Cardinality({q \in Committed(entries) : q =< p}) = n].intents]

Promise == INSTANCE InclusionPromise
             WITH status <- [id \in Ids |-> StatusIn(log, id)],
                  slots <- SlotsIn(log)

\* Every step of the gate, the sequencer or a crash is a step of the promise or
\* no step at all: nothing leaves "sequenced" or "expired", nothing is
\* sequenced that was not received (README.md:179-189).
PromiseImplemented == Promise!Spec

\* "Sequenced within this window of its arrival, or dropped"
\* (sequencer.rs:9-11): every admitted intent ends in one of the two, whatever
\* the gate does and wherever the process crashed.
EveryIntentSettles == Promise!Settled
=============================================================================
