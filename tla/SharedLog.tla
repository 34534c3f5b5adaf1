------------------------------ MODULE SharedLog ------------------------------
(***************************************************************************)
(* What the stages take the log to be (IntentLog, log.rs:96-106): one      *)
(* append-only sequence of entries.  known is what anybody outside has     *)
(* been told of it, by the answer to an append or by a read: a position    *)
(* and the entry there.  Both survive every restart.  A process that       *)
(* starts blind to the entries there are (log.rs:221) is the exception:    *)
(* its appends write over them.                                            *)
(***************************************************************************)
EXTENDS Naturals, Sequences

CONSTANT Entries

VARIABLES entries, known,
  blind       \* set and cleared from outside: the process took the log for a new one

\* append_batch.  An entry may come to light without its writer being told.
AppendBatch ==
  /\ entries' \in Seq(Entries)
  /\ Len(entries) < Len(entries')
  /\ SubSeq(entries', 1, Len(entries)) = entries
  /\ UNCHANGED known

\* An answer or a read.
Tell ==
  /\ known' # known
  /\ known \subseteq known'
  /\ known' \subseteq known \cup {<<p, entries[p + 1]>> : p \in 0..Len(entries)-1}
  /\ UNCHANGED entries

\* An append, or one that failed and came to light, of a blind process.
Overwrite ==
  /\ blind
  /\ entries' \in Seq(Entries)
  /\ UNCHANGED known

Init == entries \in Seq(Entries) /\ known = {}

Next == AppendBatch \/ Tell \/ Overwrite

Spec == Init /\ [][Next]_<<entries, known>>
=============================================================================
