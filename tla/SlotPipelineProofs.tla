-------------------------- MODULE SlotPipelineProofs --------------------------
(***************************************************************************)
(* The attester and the prover on one log (SlotPipeline), for any batch    *)
(* size and any number of slots, other entries and crashes of either.      *)
(*                                                                         *)
(* What the log holds (CommitInv, RulingInv, VerdictInv) and where the     *)
(* stages are in it (AttesterInv, NextInv, QueueInv, AwaitInv) are one     *)
(* invariant: each stage may append only what its cursor says nobody has   *)
(* appended, and recovers its cursor from what has been.  That much holds  *)
(* whatever comes between a recovery's two reads.  QuietAttester and       *)
(* QuietProver are what holds besides when nothing does.                   *)
(***************************************************************************)
EXTENDS SlotPipeline, Greatest, FiniteSetTheorems, FunctionTheorems,
        SequenceTheorems, TLAPS

-----------------------------------------------------------------------------
(* The invariant.                                                          *)

Attestations(entries) == Of(entries, {"SlotAttested"})
Refusals(entries)     == Of(entries, {"AttestFailed"})

Ruled(s)    == \E p \in Rulings(log) : log[p].slot = s
Attested(s) == \E p \in Attestations(log) : log[p].slot = s
Judged(s)   == \E v \in Verdicts(log) : s \in Covers(log, v)
Queued(s)   == \E k \in DOMAIN pending : pending[k] = s

\* The cursors of the two stages.
CursorInv ==
  /\ attester = "working" => attCursor < batchEnd
  /\ prover = "working" => at < proCursor
  /\ prover \in {"down", "recovering", "waiting"} => at = proCursor
  /\ prover \in {"down", "recovering"} =>
       proCursor = 0 /\ awaiting = {} /\ pending = <<>> /\ ~ flushing

\* Slots are committed one after the other, from 0.
CommitInv ==
  /\ \A p, q \in Commits(log) : p < q => log[p].slot < log[q].slot
  /\ \A p \in Commits(log) : log[p].slot < Cardinality(Commits(log))
  /\ \A s \in 0..Cardinality(Commits(log))-1 :
       \E p \in Commits(log) : log[p].slot = s

\* A ruling is on a slot committed before it and past all those ruled on.
RulingInv ==
  /\ \A p \in Rulings(log) : \E q \in Commits(log) : q < p /\ log[q].slot = log[p].slot
  /\ \A p, q \in Rulings(log) : p < q => log[p].slot < log[q].slot

\* The attester's cursor is past the commitment of every slot ruled on.
AttesterInv ==
  attester \in {"waiting", "working"} =>
    \A p \in Rulings(log) :
      \E q \in Commits(log) : q =< attCursor /\ log[q].slot = log[p].slot

\* A verdict covers slots attested before it, past all those judged, and leaves
\* none attested behind.
VerdictInv ==
  /\ \A v \in Verdicts(log) :
       /\ log[v].from_slot =< log[v].to_slot
       /\ \A s \in Covers(log, v) : \E p \in Attestations(log) : p < v /\ log[p].slot = s
       /\ \A p \in Attestations(log) : log[p].slot =< log[v].to_slot => Judged(log[p].slot)
  /\ \A v, w \in Verdicts(log) : v < w => log[v].to_slot < log[w].from_slot

\* The prover's next slot: past all those judged or queued, on the heels of one
\* ruled on, and nothing attested is left behind.
NextInv ==
  prover \in {"recovering", "waiting", "working"} =>
    /\ \A v \in Verdicts(log) : log[v].to_slot < proNext
    /\ proNext > 0 => Ruled(proNext - 1)
    /\ \A p \in Attestations(log) :
         log[p].slot < proNext => Judged(log[p].slot) \/ Queued(log[p].slot)

\* The queue: a run of attested slots, none of them judged, that ends at
\* next_slot unless it is about to be flushed.
QueueInv ==
  prover \in {"waiting", "working"} =>
    /\ \A k \in DOMAIN pending :
         /\ pending[k] = pending[1] + k - 1
         /\ pending[k] < proNext
         /\ \E p \in Attestations(log) : p =< at /\ log[p].slot = pending[k]
         /\ \A v \in Verdicts(log) : log[v].to_slot < pending[k]
    /\ Len(pending) =< BatchSize
    /\ flushing => pending # <<>>
    /\ ~ flushing =>
         /\ Len(pending) < BatchSize
         /\ pending # <<>> => pending[Len(pending)] = proNext - 1

\* What waits for its ruling, and what is still to be read, is not below
\* next_slot.
AwaitInv ==
  prover \in {"waiting", "working"} =>
    /\ \A s \in awaiting : s >= proNext
    /\ \A p \in Commits(log) : at < p => log[p].slot >= proNext

SlotInv ==
  /\ TypeOK /\ CursorInv /\ CommitInv /\ RulingInv /\ AttesterInv
  /\ VerdictInv /\ NextInv /\ QueueInv /\ AwaitInv

\* The attester has ruled on every slot committed below its cursor.
QuietAttester ==
  /\ \A p \in Rulings(log) : \A s \in 0..log[p].slot-1 :
       \E q \in Rulings(log) : q < p /\ log[q].slot = s
  /\ attester \in {"waiting", "working"} =>
       \A p \in Commits(log) : p =< attCursor => Ruled(log[p].slot)
  /\ attester = "recovering" => \A p \in Commits(log) : Ruled(log[p].slot)

\* The prover has seen every ruling below its cursor, and every commitment of
\* the slots ruled on past it.
QuietProver ==
  /\ prover # "failed"
  /\ prover = "recovering" => \A p \in Commits(log) : log[p].slot < proNext
  /\ prover \in {"waiting", "working"} =>
       /\ \A p \in Rulings(log) : p =< at => log[p].slot < proNext
       /\ \A p \in Commits(log) :
            p =< at /\ log[p].slot >= proNext => log[p].slot \in awaiting

-----------------------------------------------------------------------------
(* The log.                                                                *)

\* Where the entries of each kind are, and what they hold.
LEMMA EntryFields ==
  ASSUME NEW entries \in Seq(SlotEntry)
  PROVE  /\ Len(entries) \in Nat /\ DOMAIN entries = 1..Len(entries)
         /\ Commits(entries) \subseteq 1..Len(entries)
         /\ Rulings(entries) \subseteq 1..Len(entries)
         /\ Verdicts(entries) \subseteq 1..Len(entries)
         /\ Rulings(entries) = Attestations(entries) \cup Refusals(entries)
         /\ Attestations(entries) \cap Refusals(entries) = {}
         /\ \A p \in Commits(entries) \cup Rulings(entries) : entries[p].slot \in Nat
         /\ \A p \in Verdicts(entries) :
              entries[p].from_slot \in Nat /\ entries[p].to_slot \in Nat
<1>1. Len(entries) \in Nat /\ DOMAIN entries = 1..Len(entries)
  OBVIOUS
<1>2. \A p \in 1..Len(entries) : entries[p] \in SlotEntry
  BY <1>1
<1>3. ASSUME NEW e \in SlotEntry, e.kind \in {"SlotCommitted", "SlotAttested", "AttestFailed"}
      PROVE  e.slot \in Nat
  BY <1>3 DEF SlotEntry, Other
<1>4. ASSUME NEW e \in SlotEntry, e.kind \in {"SlotsProven", "ProveFailed"}
      PROVE  e.from_slot \in Nat /\ e.to_slot \in Nat
  BY <1>4 DEF SlotEntry, Other
<1>5. QED
  BY <1>1, <1>2, <1>3, <1>4 DEF Commits, Rulings, Verdicts, Attestations, Refusals, Of

\* An append leaves the entries where they are and adds one of its kind.
LEMMA Appended ==
  ASSUME NEW entries \in Seq(SlotEntry), NEW e \in SlotEntry, NEW K
  PROVE  LET grown == Append(entries, e)
             n     == Len(entries) + 1
         IN  /\ grown \in Seq(SlotEntry)
             /\ Len(grown) = n
             /\ grown[n] = e
             /\ \A p \in 1..Len(entries) : grown[p] = entries[p]
             /\ Of(grown, K) = Of(entries, K) \cup (IF e.kind \in K THEN {n} ELSE {})
<1> DEFINE grown == Append(entries, e)
           n     == Len(entries) + 1
<1>1. /\ grown \in Seq(SlotEntry)
      /\ Len(entries) \in Nat
      /\ Len(grown) = n
      /\ grown[n] = e
      /\ \A p \in 1..Len(entries) : grown[p] = entries[p]
      /\ DOMAIN grown = 1..n /\ DOMAIN entries = 1..Len(entries)
  BY AppendProperties
<1>2. 1..n = (1..Len(entries)) \cup {n}
  BY <1>1
<1> HIDE DEF grown
<1>3. Of(grown, K) = Of(entries, K) \cup (IF e.kind \in K THEN {n} ELSE {})
  BY <1>1, <1>2 DEF Of
<1>4. QED
  BY <1>1, <1>3 DEF grown

\* The same, for the kinds there are.
LEMMA LogGrows ==
  ASSUME TypeOK, NEW e \in SlotEntry, log' = Append(log, e)
  PROVE  LET n == Len(log) + 1
             New(K) == IF e.kind \in K THEN {n} ELSE {}
         IN  /\ log' \in Seq(SlotEntry)
             /\ Len(log) \in Nat
             /\ Len(log') = n
             /\ log'[n] = e
             /\ \A p \in 1..Len(log) : log'[p] = log[p]
             /\ Commits(log') = Commits(log) \cup New({"SlotCommitted"})
             /\ Rulings(log') = Rulings(log) \cup New({"SlotAttested", "AttestFailed"})
             /\ Attestations(log') = Attestations(log) \cup New({"SlotAttested"})
             /\ Refusals(log') = Refusals(log) \cup New({"AttestFailed"})
             /\ Verdicts(log') = Verdicts(log) \cup New({"SlotsProven", "ProveFailed"})
<1>1. log \in Seq(SlotEntry) /\ Len(log) \in Nat
  BY DEF TypeOK
<1>2. QED
  BY <1>1, Appended DEF Commits, Rulings, Attestations, Refusals, Verdicts

\* The entries the stages make.
LEMMA EntriesMade ==
  /\ Other \in SlotEntry /\ Other.kind = "Other"
  /\ \A s \in Nat :
       /\ SlotCommitted(s) \in SlotEntry
       /\ SlotCommitted(s).kind = "SlotCommitted" /\ SlotCommitted(s).slot = s
       /\ SlotAttested(s) \in SlotEntry
       /\ SlotAttested(s).kind = "SlotAttested" /\ SlotAttested(s).slot = s
       /\ AttestFailed(s) \in SlotEntry
       /\ AttestFailed(s).kind = "AttestFailed" /\ AttestFailed(s).slot = s
  /\ \A s, t \in Nat :
       /\ SlotsProven(s, t) \in SlotEntry
       /\ SlotsProven(s, t).kind = "SlotsProven"
       /\ SlotsProven(s, t).from_slot = s /\ SlotsProven(s, t).to_slot = t
       /\ ProveFailed(s, t) \in SlotEntry
       /\ ProveFailed(s, t).kind = "ProveFailed"
       /\ ProveFailed(s, t).from_slot = s /\ ProveFailed(s, t).to_slot = t
BY DEF SlotEntry, Other, SlotCommitted, SlotAttested, AttestFailed, SlotsProven,
       ProveFailed

-----------------------------------------------------------------------------
(* What can be looked up in a log that satisfies the invariant.            *)

\* Both stages read the log as this module does.
LEMMA SameReading ==
  /\ A!RuledSlots(log) = RuledSlots(log)
  /\ A!CommittedSlots(log) = CommittedSlots(log)
  /\ P!CommittedSlots(log) = CommittedSlots(log)
  /\ P!Verdicts(log) = Verdicts(log)
  /\ \A s : A!CommitOf(log, s) = CommitOf(log, s)
  /\ \A s : P!CommitOf(log, s) = CommitOf(log, s)
BY DEF A!RuledSlots, RuledSlots, A!Rulings, Rulings, A!Of, Of,
       A!CommittedSlots, CommittedSlots, A!Commits, Commits, A!CommitOf, CommitOf,
       P!Of, P!CommittedSlots, P!Commits, P!CommitOf, P!Verdicts, Verdicts

\* There are finitely many commitments.
LEMMA CommitCount ==
  ASSUME TypeOK
  PROVE  IsFiniteSet(Commits(log)) /\ Cardinality(Commits(log)) \in Nat
<1>1. Commits(log) \subseteq 1..Len(log) /\ 1 \in Int /\ Len(log) \in Int
  BY EntryFields DEF TypeOK
<1>2. IsFiniteSet(Commits(log))
  BY <1>1, FS_Interval, FS_Subset
<1>3. QED
  BY <1>2, FS_CardinalityType

\* CommitOf finds the one commitment of a slot.
LEMMA CommitOfFinds ==
  ASSUME TypeOK, CommitInv, NEW s \in CommittedSlots(log)
  PROVE  CommitOf(log, s) \in Commits(log) /\ log[CommitOf(log, s)].slot = s
<1>1. PICK p \in Commits(log) : log[p].slot = s
  BY DEF CommittedSlots
<1>2. \A q \in Commits(log) : log[q].slot = s => q =< p
  <2> SUFFICES ASSUME NEW q \in Commits(log), log[q].slot = s, ~ (q =< p)
               PROVE  FALSE
    OBVIOUS
  <2>1. p \in Int /\ q \in Int /\ p < q /\ log[p].slot \in Nat
    BY EntryFields DEF TypeOK
  <2>2. QED
    BY <1>1, <2>1 DEF CommitInv
<1>3. \E x \in Commits(log) :
        log[x].slot = s /\ \A q \in Commits(log) : log[q].slot = s => q =< x
  BY <1>1, <1>2
<1>4. QED
  BY <1>3 DEF CommitOf

\* A slot is committed when it is below the number of commitments.
LEMMA CommittedAreDense ==
  ASSUME TypeOK, CommitInv
  PROVE  CommittedSlots(log) = 0 .. Cardinality(Commits(log)) - 1
<1>1. \A p \in Commits(log) : log[p].slot \in Nat
  BY EntryFields DEF TypeOK
<1>2. Cardinality(Commits(log)) \in Nat
  BY CommitCount
<1>3. QED
  BY <1>1, <1>2 DEF CommittedSlots, CommitInv

\* What is ruled on has been committed.
LEMMA RuledAreCommitted ==
  ASSUME TypeOK, CommitInv, RulingInv
  PROVE  RuledSlots(log) \subseteq 0 .. Cardinality(Commits(log)) - 1
<1>1. RuledSlots(log) \subseteq CommittedSlots(log)
  BY DEF RulingInv, RuledSlots, CommittedSlots
<1>2. QED
  BY <1>1, CommittedAreDense

\* The newest slot ruled on, as recover_attester looks it up.
LEMMA NewestRuled ==
  ASSUME TypeOK, CommitInv, RulingInv, RuledSlots(log) # {}
  PROVE  LET newest == CHOOSE s \in RuledSlots(log) : \A r \in RuledSlots(log) : r =< s
         IN  /\ newest \in RuledSlots(log)
             /\ newest \in Nat
             /\ \A r \in RuledSlots(log) : r =< newest
<1> DEFINE c == Cardinality(Commits(log))
<1>1. c \in Nat /\ 0 \in Int /\ c - 1 \in Int
  BY CommitCount
<1>2. RuledSlots(log) \subseteq 0..c-1
  BY RuledAreCommitted
<1>3. \E m \in RuledSlots(log) : \A r \in RuledSlots(log) : r =< m
  BY <1>1, <1>2, GreatestInRange
<1>4. QED
  BY <1>1, <1>2, <1>3

\* The first slot past every verdict, as recover_prover looks it up.
LEMMA FirstUnjudgedIsPast ==
  ASSUME TypeOK, CommitInv, RulingInv, VerdictInv
  PROVE  LET next == P!FirstUnjudged(log)
         IN  /\ next \in Nat
             /\ \A v \in Verdicts(log) : log[v].to_slot < next
             /\ next > 0 => \E v \in Verdicts(log) : log[v].to_slot = next - 1
<1> DEFINE tops == {log[p].to_slot : p \in Verdicts(log)}
           c    == Cardinality(Commits(log))
<1>1. P!FirstUnjudged(log)
        = IF tops = {} THEN 0 ELSE (CHOOSE t \in tops : \A u \in tops : u =< t) + 1
  BY SameReading DEF P!FirstUnjudged
<1>2. c \in Nat /\ 0 \in Int /\ c - 1 \in Int
  BY CommitCount
<1>3. tops \subseteq 0..c-1
  <2> SUFFICES ASSUME NEW v \in Verdicts(log) PROVE log[v].to_slot \in 0..c-1
    OBVIOUS
  <2>1. /\ log[v].from_slot \in Nat /\ log[v].to_slot \in Nat
        /\ log[v].from_slot =< log[v].to_slot
    BY EntryFields DEF TypeOK, VerdictInv
  <2>2. log[v].to_slot \in Covers(log, v)
    BY <2>1 DEF Covers
  <2>3. PICK p \in Attestations(log) : log[p].slot = log[v].to_slot
    BY <2>2 DEF VerdictInv
  <2>4. log[v].to_slot \in RuledSlots(log)
    BY <2>3, EntryFields DEF RuledSlots, TypeOK
  <2>5. QED
    BY <2>4, RuledAreCommitted
<1>4. CASE tops = {}
  BY <1>1, <1>4
<1>5. CASE tops # {}
  <2>1. \E m \in tops : \A u \in tops : u =< m
    BY <1>2, <1>3, <1>5, GreatestInRange
  <2>2. PICK t \in tops : /\ P!FirstUnjudged(log) = t + 1
                          /\ \A u \in tops : u =< t
    BY <1>1, <1>5, <2>1
  <2>3. \A u \in tops : u \in Nat
    BY <1>2, <1>3
  <2> HIDE DEF tops
  <2>4. t \in Nat /\ t + 1 \in Nat /\ (t + 1) - 1 = t
    BY <2>3
  <2>5. \A u \in tops : u < t + 1
    BY <2>2, <2>3, <2>4
  <2>6. QED
    BY <2>2, <2>4, <2>5 DEF tops
<1>6. QED
  BY <1>4, <1>5

-----------------------------------------------------------------------------
(* Steps that append.                                                      *)

\* What the log said it still says after an append.
LEMMA LogKeeps ==
  ASSUME TypeOK, NEW e \in SlotEntry, log' = Append(log, e)
  PROVE  /\ \A p \in Commits(log) : p \in Commits(log') /\ log'[p] = log[p] /\ p =< Len(log)
         /\ \A p \in Rulings(log) : p \in Rulings(log') /\ log'[p] = log[p] /\ p =< Len(log)
         /\ \A p \in Attestations(log) : p \in Attestations(log') /\ log'[p] = log[p]
         /\ \A p \in Verdicts(log) :
              /\ p \in Verdicts(log') /\ log'[p] = log[p] /\ p =< Len(log)
              /\ Covers(log', p) = Covers(log, p)
         /\ \A s : Ruled(s) => Ruled(s)'
         /\ \A s : Judged(s) => Judged(s)'
<1>1. /\ Commits(log) \subseteq 1..Len(log)
      /\ Rulings(log) \subseteq 1..Len(log)
      /\ Attestations(log) \subseteq 1..Len(log)
      /\ Verdicts(log) \subseteq 1..Len(log)
      /\ Len(log) \in Nat
  BY EntryFields DEF TypeOK
<1>2. /\ \A p \in Commits(log) : p \in Commits(log') /\ log'[p] = log[p] /\ p =< Len(log)
      /\ \A p \in Rulings(log) : p \in Rulings(log') /\ log'[p] = log[p] /\ p =< Len(log)
      /\ \A p \in Attestations(log) : p \in Attestations(log') /\ log'[p] = log[p]
      /\ \A p \in Verdicts(log) : p \in Verdicts(log') /\ log'[p] = log[p] /\ p =< Len(log)
  BY <1>1, LogGrows
<1>3. \A p \in Verdicts(log) : Covers(log', p) = Covers(log, p)
  BY <1>2 DEF Covers
<1>4. \A s : Ruled(s) => Ruled(s)'
  BY <1>2 DEF Ruled
<1>5. \A s : Judged(s) => Judged(s)'
  BY <1>2, <1>3 DEF Judged
<1>6. QED
  BY <1>2, <1>3, <1>4, <1>5

\* A log that grew is as good a log for cursors that stay.
LEMMA TypeGrows ==
  ASSUME TypeOK, NEW e \in SlotEntry, log' = Append(log, e),
         UNCHANGED <<attVars, proVars>>, crashes' = crashes
  PROVE  TypeOK'
<1>1. log' \in Seq(SlotEntry) /\ Len(log) \in Nat /\ Len(log') = Len(log) + 1
  BY LogGrows
<1>2. UNCHANGED <<attester, attCursor, batchEnd, prover, proCursor, at, proNext,
                  awaiting, pending, flushing, error>>
  BY DEF attVars, proVars
<1>3. attCursor \in 0..Len(log') /\ batchEnd \in 0..Len(log') /\ proCursor \in 0..Len(log')
  BY <1>1 DEF TypeOK
<1>4. QED
  BY <1>1, <1>2, <1>3 DEF TypeOK

\* An entry that is neither a ruling nor a verdict leaves what is said of those.
LEMMA RulingsAndVerdictsStay ==
  ASSUME SlotInv, NEW e \in SlotEntry, log' = Append(log, e),
         e.kind \in {"SlotCommitted", "Other"}, UNCHANGED <<attVars, proVars>>
  PROVE  RulingInv' /\ AttesterInv' /\ VerdictInv' /\ NextInv' /\ QueueInv' /\ CursorInv'
<1> USE DEF SlotInv
<1>1. UNCHANGED <<attester, attCursor, batchEnd, prover, proCursor, at, proNext,
                  awaiting, pending, flushing, error>>
  BY DEF attVars, proVars
<1>2. /\ Rulings(log') = Rulings(log)
      /\ Attestations(log') = Attestations(log)
      /\ Verdicts(log') = Verdicts(log)
  BY LogGrows
<1>3. /\ \A p \in Rulings(log) : log'[p] = log[p]
      /\ \A p \in Attestations(log) : log'[p] = log[p]
      /\ \A p \in Verdicts(log) : log'[p] = log[p] /\ Covers(log', p) = Covers(log, p)
      /\ \A p \in Commits(log) : p \in Commits(log') /\ log'[p] = log[p]
  BY LogKeeps
<1>4. \A s : Ruled(s)' <=> Ruled(s)
  BY <1>2, <1>3 DEF Ruled
<1>5. \A s : Judged(s)' <=> Judged(s)
  BY <1>2, <1>3 DEF Judged
<1>6. \A s : Queued(s)' <=> Queued(s)
  BY <1>1 DEF Queued
<1>7. RulingInv'
  <2>1. ASSUME NEW p \in Rulings(log)
        PROVE  \E q \in Commits(log') : q < p /\ log'[q].slot = log'[p].slot
    <3>1. PICK q \in Commits(log) : q < p /\ log[q].slot = log[p].slot
      BY DEF RulingInv
    <3>2. QED
      BY <1>3, <3>1
  <2>2. ASSUME NEW p \in Rulings(log), NEW q \in Rulings(log), p < q
        PROVE  log'[p].slot < log'[q].slot
    BY <1>3, <2>2 DEF RulingInv
  <2>3. QED
    BY <1>2, <2>1, <2>2 DEF RulingInv
<1>8. AttesterInv'
  <2>1. ASSUME NEW p \in Rulings(log), attester \in {"waiting", "working"}
        PROVE  \E q \in Commits(log') : q =< attCursor /\ log'[q].slot = log'[p].slot
    <3>1. PICK q \in Commits(log) : q =< attCursor /\ log[q].slot = log[p].slot
      BY <2>1 DEF AttesterInv
    <3>2. QED
      BY <1>3, <3>1
  <2>2. QED
    BY <1>1, <1>2, <2>1 DEF AttesterInv
<1>9. VerdictInv'
  <2>1. ASSUME NEW v \in Verdicts(log)
        PROVE  /\ log'[v].from_slot =< log'[v].to_slot
               /\ \A s \in Covers(log', v) :
                    \E p \in Attestations(log') : p < v /\ log'[p].slot = s
               /\ \A p \in Attestations(log') :
                    log'[p].slot =< log'[v].to_slot => Judged(log[p].slot)'
    <3>1. log'[v] = log[v] /\ Covers(log', v) = Covers(log, v)
      BY <1>3
    <3>2. \A s \in Covers(log, v) : \E p \in Attestations(log) : p < v /\ log'[p].slot = s
      BY <1>3 DEF VerdictInv
    <3>3. ASSUME NEW p \in Attestations(log), log[p].slot =< log[v].to_slot
          PROVE  Judged(log[p].slot)'
      BY <1>3, <1>5, <3>3 DEF VerdictInv
    <3>4. QED
      BY <1>2, <1>3, <3>1, <3>2, <3>3 DEF VerdictInv
  <2>2. ASSUME NEW v \in Verdicts(log), NEW w \in Verdicts(log), v < w
        PROVE  log'[v].to_slot < log'[w].from_slot
    BY <1>3, <2>2 DEF VerdictInv
  <2>3. QED
    BY <1>2, <2>1, <2>2 DEF VerdictInv
<1>10. NextInv'
  BY <1>1, <1>2, <1>3, <1>4, <1>5, <1>6 DEF NextInv
<1>11. QueueInv'
  BY <1>1, <1>2, <1>3 DEF QueueInv
<1>12. CursorInv'
  BY <1>1 DEF CursorInv
<1>13. QED
  BY <1>7, <1>8, <1>9, <1>10, <1>11, <1>12

\* The next slot is committed: it is past every other, and what the prover
\* awaits is not below it.
LEMMA CommitNextKeeps ==
  ASSUME SlotInv, CommitNext
  PROVE  SlotInv'
<1> USE DEF SlotInv
<1> DEFINE c == Cardinality(Commits(log))
           n == Len(log) + 1
<1>1. c \in Nat /\ IsFiniteSet(Commits(log))
  BY CommitCount
<1>2. PICK e \in SlotEntry : /\ log' = Append(log, e)
                             /\ e.kind = "SlotCommitted" /\ e.slot = c
  BY <1>1, EntriesMade DEF CommitNext
<1>3. UNCHANGED <<attVars, proVars>> /\ crashes' = crashes
  BY DEF CommitNext
<1>4. TypeOK'
  BY <1>2, <1>3, TypeGrows
<1>5. RulingInv' /\ AttesterInv' /\ VerdictInv' /\ NextInv' /\ QueueInv' /\ CursorInv'
  BY <1>2, <1>3, RulingsAndVerdictsStay
<1>6. /\ Commits(log') = Commits(log) \cup {n}
      /\ log'[n].slot = c /\ n \notin Commits(log)
      /\ \A p \in Commits(log) : p \in Nat /\ p < n /\ log'[p] = log[p] /\ log[p].slot \in Nat
      /\ n \in Nat
  <2>1. log \in Seq(SlotEntry)
    BY DEF TypeOK
  <2>2. \A p \in Commits(log) : p \in 1..Len(log) /\ log[p].slot \in Nat
    BY <2>1, EntryFields
  <2>3. QED
    BY <1>2, <2>1, <2>2, LogGrows
<1>7. Cardinality(Commits(log')) = c + 1
  BY <1>1, <1>6, FS_AddElement
<1>8. CommitInv'
  <2>1. ASSUME NEW p \in Commits(log'), NEW q \in Commits(log'), p < q
        PROVE  log'[p].slot < log'[q].slot
    <3>1. p \in Commits(log)
      BY <1>6, <2>1
    <3>2. CASE q = n
      BY <1>6, <3>1, <3>2 DEF CommitInv
    <3>3. CASE q \in Commits(log)
      BY <1>6, <2>1, <3>1, <3>3 DEF CommitInv
    <3>4. QED
      BY <1>6, <3>2, <3>3
  <2>2. \A p \in Commits(log') : log'[p].slot < c + 1
    <3>1. \A p \in Commits(log) : log[p].slot < c
      BY DEF CommitInv
    <3>2. QED
      BY <1>1, <1>6, <3>1
  <2>3. ASSUME NEW s \in 0..(c + 1)-1
        PROVE  \E p \in Commits(log') : log'[p].slot = s
    <3>1. CASE s = c
      BY <1>6, <3>1
    <3>2. CASE s # c
      <4>1. s \in 0..c-1
        BY <1>1, <3>2
      <4>2. PICK p \in Commits(log) : log[p].slot = s
        BY <4>1 DEF CommitInv
      <4>3. QED
        BY <1>6, <4>2
    <3>3. QED
      BY <3>1, <3>2
  <2>4. QED
    BY <1>7, <2>1, <2>2, <2>3 DEF CommitInv
<1>9. AwaitInv'
  <2> SUFFICES ASSUME prover \in {"waiting", "working"}
               PROVE  /\ \A s \in awaiting : s >= proNext
                      /\ \A p \in Commits(log') : at < p => log'[p].slot >= proNext
    BY <1>3 DEF AwaitInv, proVars
  <2>1. c >= proNext
    <3>1. CASE proNext = 0
      BY <1>1, <3>1
    <3>2. CASE proNext # 0
      <4>1. proNext \in Nat /\ proNext > 0
        BY <3>2 DEF TypeOK
      <4>2. proNext - 1 \in RuledSlots(log)
        BY <4>1 DEF NextInv, Ruled, RuledSlots
      <4>3. proNext - 1 \in 0..c-1
        BY <4>2, RuledAreCommitted
      <4>4. QED
        BY <1>1, <4>1, <4>3
    <3>3. QED
      BY <3>1, <3>2
  <2>2. QED
    BY <1>6, <2>1 DEF AwaitInv
<1>10. QED
  BY <1>4, <1>5, <1>8, <1>9

\* Entries of other kinds come between.
LEMMA AppendOtherKeeps ==
  ASSUME SlotInv, AppendOther
  PROVE  SlotInv'
<1> USE DEF SlotInv
<1>1. PICK e \in SlotEntry : log' = Append(log, e) /\ e.kind = "Other"
  BY EntriesMade DEF AppendOther
<1>2. UNCHANGED <<attVars, proVars>> /\ crashes' = crashes
  BY DEF AppendOther
<1>3. TypeOK'
  BY <1>1, <1>2, TypeGrows
<1>4. RulingInv' /\ AttesterInv' /\ VerdictInv' /\ NextInv' /\ QueueInv' /\ CursorInv'
  BY <1>1, <1>2, RulingsAndVerdictsStay
<1>5. Commits(log') = Commits(log) /\ \A p \in Commits(log) : log'[p] = log[p]
  BY <1>1, LogGrows, LogKeeps
<1>6. CommitInv'
  BY <1>5 DEF CommitInv
<1>7. AwaitInv'
  BY <1>2, <1>5 DEF AwaitInv, proVars
<1>8. QED
  BY <1>3, <1>4, <1>6, <1>7

\* The attester rules on the commitment at its cursor.
LEMMA RulingKeeps ==
  ASSUME SlotInv, A!Attests \/ A!Refuses, UNCHANGED <<proVars, crashes>>
  PROVE  SlotInv'
<1> USE DEF SlotInv
<1> DEFINE m == attCursor + 1
           n == Len(log) + 1
           s == log[m].slot
<1>1. /\ attester = "working"
      /\ log[m].kind = "SlotCommitted"
      /\ attCursor' = m
      /\ attester' = IF m = batchEnd THEN "waiting" ELSE "working"
      /\ batchEnd' = batchEnd
      /\ log' = Append(log, A!SlotAttested(s)) \/ log' = Append(log, A!AttestFailed(s))
  BY DEF A!Attests, A!Refuses, A!Rule, A!Advance
<1>2. /\ m \in 1..Len(log) /\ m =< batchEnd /\ attCursor \in Nat /\ n \in Nat
      /\ Len(log) \in Nat /\ batchEnd \in 0..Len(log)
  BY <1>1 DEF TypeOK, CursorInv
<1>3. m \in Commits(log) /\ s \in Nat
  <2>1. m \in Commits(log)
    BY <1>1, <1>2, EntryFields DEF TypeOK, Commits, Of
  <2>2. QED
    BY <2>1, EntryFields DEF TypeOK
<1>4. PICK e \in SlotEntry : /\ log' = Append(log, e)
                             /\ e.kind \in {"SlotAttested", "AttestFailed"}
                             /\ e.slot = s
  BY <1>1, <1>3, EntriesMade DEF A!SlotAttested, A!AttestFailed, SlotAttested, AttestFailed
<1>5. /\ log' \in Seq(SlotEntry) /\ Len(log') = n
      /\ log'[n].slot = s
      /\ Commits(log') = Commits(log)
      /\ Rulings(log') = Rulings(log) \cup {n}
      /\ Attestations(log') \subseteq Attestations(log) \cup {n}
      /\ Verdicts(log') = Verdicts(log)
  BY <1>4, LogGrows
<1>6. /\ \A p \in Commits(log) : log'[p] = log[p] /\ p \in Nat /\ p < n
      /\ \A p \in Rulings(log) : log'[p] = log[p] /\ p \in Nat /\ p < n
      /\ \A p \in Attestations(log) : log'[p] = log[p] /\ p \in Attestations(log')
      /\ \A p \in Verdicts(log) :
           log'[p] = log[p] /\ p \in Nat /\ p < n /\ Covers(log', p) = Covers(log, p)
      /\ \A t : Ruled(t) => Ruled(t)'
      /\ \A t : Judged(t) => Judged(t)'
  <2>1. log \in Seq(SlotEntry)
    BY DEF TypeOK
  <2>2. /\ Commits(log) \subseteq 1..Len(log)
        /\ Rulings(log) \subseteq 1..Len(log)
        /\ Verdicts(log) \subseteq 1..Len(log)
    BY <2>1, EntryFields
  <2>3. \A p \in 1..Len(log) : p \in Nat /\ p < n
    BY <1>2
  <2>4. QED
    BY <1>4, <2>2, <2>3, LogKeeps
<1>7. UNCHANGED <<prover, proCursor, at, proNext, awaiting, pending, flushing, error, crashes>>
  BY DEF proVars
\* The slot is past all those ruled on.
<1>8. \A p \in Rulings(log) : log[p].slot < s
  <2> SUFFICES ASSUME NEW p \in Rulings(log) PROVE log[p].slot < s
    OBVIOUS
  <2>1. PICK q \in Commits(log) : q =< attCursor /\ log[q].slot = log[p].slot
    BY <1>1 DEF AttesterInv
  <2>2. q < m
    BY <1>2, <1>6, <2>1
  <2>3. QED
    BY <1>3, <2>1, <2>2 DEF CommitInv
<1>9. TypeOK'
  BY <1>1, <1>2, <1>5, <1>7 DEF TypeOK
<1>10. CursorInv'
  BY <1>1, <1>2, <1>7 DEF CursorInv
<1>11. CommitInv'
  BY <1>5, <1>6 DEF CommitInv
<1>12. RulingInv'
  <2>1. ASSUME NEW p \in Rulings(log')
        PROVE  \E q \in Commits(log') : q < p /\ log'[q].slot = log'[p].slot
    <3>1. CASE p = n
      BY <1>3, <1>5, <1>6, <3>1
    <3>2. CASE p \in Rulings(log)
      <4>1. PICK q \in Commits(log) : q < p /\ log[q].slot = log[p].slot
        BY <3>2 DEF RulingInv
      <4>2. QED
        BY <1>5, <1>6, <3>2, <4>1
    <3>3. QED
      BY <1>5, <3>1, <3>2
  <2>2. ASSUME NEW p \in Rulings(log'), NEW q \in Rulings(log'), p < q
        PROVE  log'[p].slot < log'[q].slot
    <3>1. p \in Rulings(log)
      BY <1>2, <1>5, <1>6, <2>2
    <3>2. CASE q = n
      BY <1>5, <1>6, <1>8, <3>1, <3>2
    <3>3. CASE q \in Rulings(log)
      BY <1>6, <2>2, <3>1, <3>3 DEF RulingInv
    <3>4. QED
      BY <1>5, <3>2, <3>3
  <2>3. QED
    BY <2>1, <2>2 DEF RulingInv
<1>13. AttesterInv'
  <2>1. ASSUME NEW p \in Rulings(log')
        PROVE  \E q \in Commits(log') : q =< m /\ log'[q].slot = log'[p].slot
    <3>1. CASE p = n
      BY <1>2, <1>3, <1>5, <1>6, <3>1
    <3>2. CASE p \in Rulings(log)
      <4>1. PICK q \in Commits(log) : q =< attCursor /\ log[q].slot = log[p].slot
        BY <1>1, <3>2 DEF AttesterInv
      <4>2. q =< m
        BY <1>2, <1>6, <4>1
      <4>3. QED
        BY <1>5, <1>6, <3>2, <4>1, <4>2
    <3>3. QED
      BY <1>5, <3>1, <3>2
  <2>2. QED
    BY <1>1, <2>1 DEF AttesterInv
<1>14. VerdictInv'
  <2>1. ASSUME NEW v \in Verdicts(log)
        PROVE  /\ log'[v].from_slot =< log'[v].to_slot
               /\ \A t \in Covers(log', v) :
                    \E p \in Attestations(log') : p < v /\ log'[p].slot = t
               /\ \A p \in Attestations(log') :
                    log'[p].slot =< log'[v].to_slot => Judged(log[p].slot)'
    <3>1. /\ log'[v] = log[v] /\ Covers(log', v) = Covers(log, v)
          /\ log[v].from_slot \in Nat /\ log[v].to_slot \in Nat
          /\ log[v].from_slot =< log[v].to_slot
      BY <1>6, EntryFields DEF TypeOK, VerdictInv
    <3>2. ASSUME NEW t \in Covers(log, v)
          PROVE  \E p \in Attestations(log') : p < v /\ log'[p].slot = t
      <4>1. PICK p \in Attestations(log) : p < v /\ log[p].slot = t
        BY DEF VerdictInv
      <4>2. QED
        BY <1>6, <4>1
    <3>3. log[v].to_slot < s
      <4>1. log[v].to_slot \in Covers(log, v)
        BY <3>1 DEF Covers
      <4>2. PICK p \in Attestations(log) : log[p].slot = log[v].to_slot
        BY <4>1 DEF VerdictInv
      <4>3. p \in Rulings(log)
        BY <4>2, EntryFields DEF TypeOK
      <4>4. QED
        BY <1>8, <4>2, <4>3
    <3>4. ASSUME NEW p \in Attestations(log'), log'[p].slot =< log'[v].to_slot
          PROVE  Judged(log[p].slot)'
      <4>1. p # n
        BY <1>3, <1>5, <3>1, <3>3, <3>4
      <4>2. p \in Attestations(log)
        BY <1>5, <4>1
      <4>3. Judged(log[p].slot)
        BY <1>6, <3>1, <3>4, <4>2 DEF VerdictInv
      <4>4. QED
        BY <1>6, <4>2, <4>3
    <3>5. QED
      BY <3>1, <3>2, <3>4
  <2>2. ASSUME NEW v \in Verdicts(log), NEW w \in Verdicts(log), v < w
        PROVE  log'[v].to_slot < log'[w].from_slot
    BY <1>6, <2>2 DEF VerdictInv
  <2>3. QED
    BY <1>5, <2>1, <2>2 DEF VerdictInv
<1>15. NextInv'
  <2> SUFFICES ASSUME prover \in {"recovering", "waiting", "working"}
               PROVE  /\ \A v \in Verdicts(log') : log'[v].to_slot < proNext
                      /\ proNext > 0 => Ruled(proNext - 1)'
                      /\ \A p \in Attestations(log') :
                           log'[p].slot < proNext
                             => Judged(log[p].slot)' \/ Queued(log[p].slot)'
    BY <1>7 DEF NextInv
  <2>1. \A v \in Verdicts(log') : log'[v].to_slot < proNext
    BY <1>5, <1>6 DEF NextInv
  <2>2. proNext > 0 => Ruled(proNext - 1)'
    BY <1>6, <1>7 DEF NextInv
  <2>3. proNext =< s
    <3>1. CASE proNext = 0
      BY <1>3, <3>1
    <3>2. CASE proNext # 0
      <4>1. proNext \in Nat /\ proNext > 0
        BY <3>2 DEF TypeOK
      <4>2. PICK p \in Rulings(log) : log[p].slot = proNext - 1
        BY <4>1 DEF NextInv, Ruled
      <4>3. proNext - 1 < s
        BY <1>8, <4>2
      <4>4. QED
        BY <1>3, <4>1, <4>3
    <3>3. QED
      BY <3>1, <3>2
  <2>4. ASSUME NEW p \in Attestations(log'), log'[p].slot < proNext
        PROVE  Judged(log[p].slot)' \/ Queued(log[p].slot)'
    <3>1. p # n
      BY <1>3, <1>5, <2>3, <2>4 DEF TypeOK
    <3>2. p \in Attestations(log) /\ log'[p] = log[p]
      BY <1>5, <1>6, <3>1
    <3>3. Judged(log[p].slot) \/ Queued(log[p].slot)
      BY <2>4, <3>2 DEF NextInv
    <3>4. Queued(log[p].slot) => Queued(log[p].slot)'
      BY <1>7, <3>2 DEF Queued
    <3>5. QED
      BY <1>6, <3>2, <3>3, <3>4
  <2>5. QED
    BY <2>1, <2>2, <2>4
<1>16. QueueInv'
  <2>1. \A k \in DOMAIN pending :
          (\E p \in Attestations(log) : p =< at /\ log[p].slot = pending[k])
            => \E p \in Attestations(log') : p =< at /\ log'[p].slot = pending[k]
    BY <1>6
  <2>2. QED
    BY <1>5, <1>6, <1>7, <2>1 DEF QueueInv
<1>17. AwaitInv'
  BY <1>5, <1>6, <1>7 DEF AwaitInv
<1>18. QED
  BY <1>9, <1>10, <1>11, <1>12, <1>13, <1>14, <1>15, <1>16, <1>17

\* A verdict is on the whole queue, and empties it.
LEMMA VerdictKeeps ==
  ASSUME SlotInv, P!Proves \/ P!FailsToProve, UNCHANGED <<attVars, crashes>>
  PROVE  SlotInv'
<1> USE DEF SlotInv
<1> DEFINE n     == Len(log) + 1
           first == pending[1]
           last  == pending[Len(pending)]
<1>1. /\ flushing /\ prover \in {"waiting", "working"}
      /\ pending' = <<>> /\ flushing' = FALSE
      /\ UNCHANGED <<prover, proCursor, at, proNext, awaiting, error>>
      /\ \/ log' = Append(log, P!SlotsProven(first, last))
         \/ log' = Append(log, P!ProveFailed(first, last))
  BY DEF P!Proves, P!FailsToProve, P!Flush
<1>2. /\ pending \in Seq(Nat) /\ pending # <<>>
      /\ Len(pending) \in Nat /\ Len(pending) >= 1 /\ DOMAIN pending = 1..Len(pending)
      /\ first \in Nat /\ last \in Nat
      /\ \A k \in 1..Len(pending) : pending[k] = first + k - 1
      /\ last = first + Len(pending) - 1 /\ first =< last /\ last < proNext
  <2>1. pending \in Seq(Nat) /\ pending # <<>>
    BY <1>1 DEF TypeOK, QueueInv
  <2>2. /\ Len(pending) \in Nat /\ Len(pending) >= 1 /\ DOMAIN pending = 1..Len(pending)
        /\ \A k \in 1..Len(pending) : pending[k] \in Nat
    BY <2>1
  <2>3. 1 \in 1..Len(pending) /\ Len(pending) \in 1..Len(pending)
    BY <2>2
  <2>4. \A k \in 1..Len(pending) : pending[k] = first + k - 1 /\ pending[k] < proNext
    BY <1>1, <2>2 DEF QueueInv
  <2>5. last = first + Len(pending) - 1 /\ first \in Nat /\ last \in Nat /\ last < proNext
    BY <2>2, <2>3, <2>4
  <2> HIDE DEF first, last
  <2>6. first =< last
    BY <2>2, <2>5
  <2>7. QED
    BY <2>1, <2>2, <2>4, <2>5, <2>6
<1> HIDE DEF first, last
\* The queue is what lies between its ends.
<1>3. \A s : Queued(s) <=> s \in first..last
  <2>1. ASSUME NEW s, Queued(s)
        PROVE  s \in first..last
    <3>1. PICK k \in 1..Len(pending) : s = first + k - 1
      BY <1>2, <2>1 DEF Queued
    <3>2. QED
      BY <1>2, <3>1
  <2>2. ASSUME NEW s \in first..last
        PROVE  Queued(s)
    <3>1. s - first + 1 \in 1..Len(pending) /\ first + (s - first + 1) - 1 = s
      BY <1>2
    <3>2. QED
      BY <1>2, <3>1 DEF Queued
  <2>3. QED
    BY <2>1, <2>2
<1>4. PICK e \in SlotEntry : /\ log' = Append(log, e)
                             /\ e.kind \in {"SlotsProven", "ProveFailed"}
                             /\ e.from_slot = first /\ e.to_slot = last
  BY <1>1, <1>2, EntriesMade DEF P!SlotsProven, P!ProveFailed, SlotsProven, ProveFailed
<1>5. /\ log' \in Seq(SlotEntry) /\ Len(log') = n /\ Len(log) \in Nat
      /\ log'[n].from_slot = first /\ log'[n].to_slot = last
      /\ Commits(log') = Commits(log)
      /\ Rulings(log') = Rulings(log)
      /\ Attestations(log') = Attestations(log)
      /\ Verdicts(log') = Verdicts(log) \cup {n}
  BY <1>4, LogGrows
<1>6. /\ \A p \in Commits(log) : log'[p] = log[p]
      /\ \A p \in Rulings(log) : log'[p] = log[p]
      /\ \A p \in Attestations(log) : log'[p] = log[p] /\ log[p].slot \in Nat /\ p < n
      /\ \A p \in Verdicts(log) :
           /\ log'[p] = log[p] /\ p \in Nat /\ p < n /\ Covers(log', p) = Covers(log, p)
           /\ log[p].from_slot \in Nat /\ log[p].to_slot \in Nat
      /\ \A t : Judged(t) => Judged(t)'
  <2>1. log \in Seq(SlotEntry)
    BY DEF TypeOK
  <2>2. /\ Verdicts(log) \subseteq 1..Len(log)
        /\ Attestations(log) \subseteq 1..Len(log)
        /\ \A p \in Attestations(log) : log[p].slot \in Nat
        /\ \A p \in Verdicts(log) : log[p].from_slot \in Nat /\ log[p].to_slot \in Nat
    BY <2>1, EntryFields
  <2>3. \A p \in 1..Len(log) : p \in Nat /\ p < n
    BY <1>5
  <2>4. QED
    BY <1>4, <2>2, <2>3, LogKeeps
<1>7. UNCHANGED <<attester, attCursor, batchEnd, crashes>>
  BY DEF attVars
<1>8. Covers(log', n) = first..last /\ \A s \in first..last : Judged(s)'
  BY <1>5 DEF Covers, Judged
<1>9. TypeOK'
  <2>1. /\ attCursor \in 0..Len(log') /\ batchEnd \in 0..Len(log') /\ proCursor \in 0..Len(log')
    BY <1>5 DEF TypeOK
  <2>2. pending' \in Seq(Nat) /\ flushing' \in BOOLEAN
    <3>1. pending' = <<>> /\ flushing' = FALSE
      BY <1>1
    <3>2. <<>> \in Seq(Nat)
      OBVIOUS
    <3>3. QED
      BY <3>1, <3>2
  <2>3. UNCHANGED <<prover, proCursor, at, proNext, awaiting, error>>
    BY <1>1
  <2>4. QED
    BY <1>5, <1>7, <2>1, <2>2, <2>3 DEF TypeOK
<1>10. CursorInv'
  BY <1>1, <1>7 DEF CursorInv
<1>11. CommitInv' /\ RulingInv' /\ AttesterInv'
  BY <1>5, <1>6, <1>7 DEF CommitInv, RulingInv, AttesterInv
\* All the verdicts before this one end below it.
<1>12. \A v \in Verdicts(log) : log[v].to_slot < first
  <2>1. 1 \in DOMAIN pending
    BY <1>2
  <2>2. QED
    BY <1>1, <2>1 DEF QueueInv, first
\* After it nothing attested below next_slot is left.
<1>13. ASSUME NEW p \in Attestations(log), log[p].slot < proNext
       PROVE  Judged(log[p].slot)'
  <2>1. Judged(log[p].slot) \/ Queued(log[p].slot)
    BY <1>1, <1>13 DEF NextInv
  <2>2. QED
    BY <1>3, <1>6, <1>8, <1>13, <2>1
<1>14. VerdictInv'
  <2>1. ASSUME NEW v \in Verdicts(log)
        PROVE  /\ log'[v].from_slot =< log'[v].to_slot
               /\ \A t \in Covers(log', v) :
                    \E p \in Attestations(log') : p < v /\ log'[p].slot = t
               /\ \A p \in Attestations(log') :
                    log'[p].slot =< log'[v].to_slot => Judged(log[p].slot)'
    BY <1>5, <1>6 DEF VerdictInv
  <2>2. /\ log'[n].from_slot =< log'[n].to_slot
        /\ \A t \in Covers(log', n) :
             \E p \in Attestations(log') : p < n /\ log'[p].slot = t
    <3>1. ASSUME NEW t \in first..last
          PROVE  \E p \in Attestations(log) : log[p].slot = t
      <4>1. PICK k \in DOMAIN pending : pending[k] = t
        BY <1>3 DEF Queued
      <4>2. QED
        BY <1>1, <4>1 DEF QueueInv
    <3>2. QED
      BY <1>2, <1>5, <1>6, <1>8, <3>1
  <2>3. \A p \in Attestations(log') :
          log'[p].slot =< log'[n].to_slot => Judged(log[p].slot)'
    <3> SUFFICES ASSUME NEW p \in Attestations(log), log[p].slot =< last
                 PROVE  log[p].slot < proNext
      BY <1>5, <1>6, <1>13
    <3>1. log[p].slot \in Nat /\ proNext \in Nat
      BY <1>6 DEF TypeOK
    <3>2. QED
      BY <1>2, <3>1
  <2>4. ASSUME NEW v \in Verdicts(log'), NEW w \in Verdicts(log'), v < w
        PROVE  log'[v].to_slot < log'[w].from_slot
    <3>1. v \in Verdicts(log)
      BY <1>5, <1>6, <2>4
    <3>2. CASE w = n
      BY <1>5, <1>6, <1>12, <3>1, <3>2
    <3>3. CASE w \in Verdicts(log)
      BY <1>6, <2>4, <3>1, <3>3 DEF VerdictInv
    <3>4. QED
      BY <1>5, <3>2, <3>3
  <2>5. QED
    BY <1>5, <1>6, <2>1, <2>2, <2>3, <2>4 DEF VerdictInv
<1>15. NextInv'
  <2>1. \A v \in Verdicts(log') : log'[v].to_slot < proNext
    BY <1>1, <1>2, <1>5, <1>6 DEF NextInv
  <2>2. proNext > 0 => Ruled(proNext - 1)'
    BY <1>1, <1>5, <1>6 DEF NextInv, Ruled
  <2>3. \A p \in Attestations(log') : log'[p].slot < proNext => Judged(log[p].slot)'
    BY <1>5, <1>6, <1>13
  <2>4. QED
    BY <1>1, <1>5, <1>6, <2>1, <2>2, <2>3 DEF NextInv
<1>16. QueueInv'
  BY <1>1, PipelineAssumption DEF QueueInv
<1>17. AwaitInv'
  BY <1>1, <1>5, <1>6 DEF AwaitInv
<1>18. QED
  BY <1>9, <1>10, <1>11, <1>14, <1>15, <1>16, <1>17

-----------------------------------------------------------------------------
(* Steps that read: nothing is appended.                                   *)

\* A log and a prover that stay as they were.
LEMMA LogAndProverStay ==
  ASSUME SlotInv, UNCHANGED <<log, proVars>>
  PROVE  CommitInv' /\ RulingInv' /\ VerdictInv' /\ NextInv' /\ QueueInv' /\ AwaitInv'
<1> USE DEF SlotInv
<1>1. UNCHANGED <<log, prover, proCursor, at, proNext, awaiting, pending, flushing, error>>
  BY DEF proVars
<1>2. CommitInv' /\ RulingInv' /\ VerdictInv'
  BY <1>1 DEF CommitInv, RulingInv, VerdictInv, Judged
<1>3. NextInv'
  BY <1>1 DEF NextInv, Ruled, Judged, Queued
<1>4. QueueInv' /\ AwaitInv'
  BY <1>1 DEF QueueInv, AwaitInv
<1>5. QED
  BY <1>2, <1>3, <1>4

\* A log and an attester that stay as they were.
LEMMA LogAndAttesterStay ==
  ASSUME SlotInv, UNCHANGED <<log, attVars>>
  PROVE  CommitInv' /\ RulingInv' /\ VerdictInv' /\ AttesterInv'
<1> USE DEF SlotInv
<1>1. UNCHANGED <<log, attester, attCursor, batchEnd>>
  BY DEF attVars
<1>2. QED
  BY <1>1 DEF CommitInv, RulingInv, VerdictInv, AttesterInv, Judged

\* The attester's pass over the log: its cursor is behind the commitment of the
\* first slot nobody has ruled on, and so past those of the others.
LEMMA RecoverAttesterKeeps ==
  ASSUME SlotInv, A!RecoverAttester, UNCHANGED <<proVars, crashes>>
  PROVE  SlotInv'
<1> USE DEF SlotInv
<1> DEFINE newest == CHOOSE s \in RuledSlots(log) : \A r \in RuledSlots(log) : r =< s
           first  == CommitOf(log, newest + 1)
<1>1. /\ UNCHANGED <<log, batchEnd>>
      /\ \/ /\ RuledSlots(log) = {}
            /\ attester' = "waiting" /\ attCursor' = 0
         \/ /\ RuledSlots(log) # {} /\ newest + 1 \in CommittedSlots(log)
            /\ attester' = "waiting" /\ attCursor' = first - 1
         \/ attester' = "recovering" /\ UNCHANGED attCursor
  BY SameReading DEF A!RecoverAttester
<1>2. UNCHANGED <<prover, proCursor, at, proNext, awaiting, pending, flushing, error, crashes>>
  BY DEF proVars
<1>3. CommitInv' /\ RulingInv' /\ VerdictInv' /\ NextInv' /\ QueueInv' /\ AwaitInv'
  BY <1>1, LogAndProverStay
<1>4. Len(log) \in Nat /\ log \in Seq(SlotEntry)
  BY DEF TypeOK
<1>5. ASSUME RuledSlots(log) # {}, newest + 1 \in CommittedSlots(log)
      PROVE  /\ first - 1 \in 0..Len(log)
             /\ \A p \in Rulings(log) :
                  \E q \in Commits(log) : q =< first - 1 /\ log[q].slot = log[p].slot
  <2>1. /\ newest \in Nat /\ \A r \in RuledSlots(log) : r =< newest
    BY <1>5, NewestRuled
  <2>2. first \in Commits(log) /\ log[first].slot = newest + 1
    BY <1>5, CommitOfFinds
  <2> HIDE DEF newest, first
  <2>3. first \in 1..Len(log)
    BY <1>4, <2>2, EntryFields
  <2>4. ASSUME NEW p \in Rulings(log)
        PROVE  \E q \in Commits(log) : q =< first - 1 /\ log[q].slot = log[p].slot
    <3>1. PICK q \in Commits(log) : log[q].slot = log[p].slot
      BY DEF RulingInv
    <3>2. log[p].slot =< newest
      BY <2>1 DEF RuledSlots
    <3>3. q \in Nat /\ first \in Nat /\ log[q].slot \in Nat
      BY <1>4, <2>3, EntryFields
    <3>4. log[q].slot < log[first].slot
      BY <2>1, <2>2, <3>1, <3>2, <3>3
    <3>5. q < first
      <4>1. CASE first < q
        BY <2>1, <2>2, <3>1, <3>3, <3>4, <4>1 DEF CommitInv
      <4>2. CASE first = q
        BY <3>3, <3>4, <4>2
      <4>3. QED
        BY <3>3, <4>1, <4>2
    <3>6. QED
      BY <3>1, <3>3, <3>5
  <2>5. QED
    BY <1>4, <2>3, <2>4
<1> HIDE DEF newest, first
<1>6. attCursor' \in 0..Len(log)
  BY <1>1, <1>4, <1>5 DEF TypeOK
<1>7. TypeOK'
  BY <1>1, <1>2, <1>6 DEF TypeOK
<1>8. CursorInv'
  BY <1>1, <1>2 DEF CursorInv
<1>9. AttesterInv'
  <2> SUFFICES ASSUME attester' = "waiting", NEW p \in Rulings(log)
               PROVE  \E q \in Commits(log) : q =< attCursor' /\ log[q].slot = log[p].slot
    BY <1>1 DEF AttesterInv
  <2>1. RuledSlots(log) # {}
    BY DEF RuledSlots
  <2>2. QED
    BY <1>1, <1>5, <2>1
<1>10. QED
  BY <1>3, <1>7, <1>8, <1>9

\* The attester's cursor moves on, up to the head, or is lost.
LEMMA AttesterReadsKeep ==
  ASSUME SlotInv, A!ResumeAtHead \/ A!ReadBatch \/ A!Skip \/ A!CrashAttester,
         UNCHANGED proVars, crashes' \in Nat
  PROVE  SlotInv'
<1> USE DEF SlotInv
<1>1. UNCHANGED <<log, prover, proCursor, at, proNext, awaiting, pending, flushing, error>>
  BY DEF proVars, A!ResumeAtHead, A!ReadBatch, A!Skip, A!CrashAttester
<1>2. CommitInv' /\ RulingInv' /\ VerdictInv' /\ NextInv' /\ QueueInv' /\ AwaitInv'
  BY <1>1, LogAndProverStay
<1>3. Len(log) \in Nat /\ log \in Seq(SlotEntry)
  BY DEF TypeOK
<1>4. /\ attester' \in {"down", "waiting", "working"}
      /\ attCursor' \in 0..Len(log) /\ batchEnd' \in 0..Len(log)
      /\ attester' = "working" => attCursor' < batchEnd'
  <2>1. CASE A!ResumeAtHead
    BY <1>3, <2>1 DEF A!ResumeAtHead, TypeOK
  <2>2. CASE A!ReadBatch
    BY <1>3, <2>2 DEF A!ReadBatch, TypeOK
  <2>3. CASE A!Skip
    BY <1>3, <2>3 DEF A!Skip, A!Advance, TypeOK, CursorInv
  <2>4. CASE A!CrashAttester
    BY <1>3, <2>4 DEF A!CrashAttester
  <2>5. QED
    BY <2>1, <2>2, <2>3, <2>4
<1>5. TypeOK'
  BY <1>1, <1>4 DEF TypeOK
<1>6. CursorInv'
  BY <1>1, <1>4 DEF CursorInv
<1>7. AttesterInv'
  <2> SUFFICES ASSUME attester' \in {"waiting", "working"}, NEW p \in Rulings(log)
               PROVE  \E q \in Commits(log) : q =< attCursor' /\ log[q].slot = log[p].slot
    BY <1>1 DEF AttesterInv
  <2>1. \A q \in Commits(log) : q \in 1..Len(log)
    BY <1>3, EntryFields
  <2>2. CASE attCursor' = Len(log)
    <3>1. PICK q \in Commits(log) : log[q].slot = log[p].slot
      BY DEF RulingInv
    <3>2. QED
      BY <1>3, <2>1, <2>2, <3>1
  <2>3. CASE attester \in {"waiting", "working"} /\ attCursor' \in {attCursor, attCursor + 1}
    <3>1. PICK q \in Commits(log) : q =< attCursor /\ log[q].slot = log[p].slot
      BY <2>3 DEF AttesterInv
    <3>2. q =< attCursor'
      BY <1>3, <2>1, <2>3, <3>1 DEF TypeOK
    <3>3. QED
      BY <3>1, <3>2
  <2>4. QED
    BY <2>2, <2>3 DEF A!ResumeAtHead, A!ReadBatch, A!Skip, A!Advance, A!CrashAttester
<1>8. QED
  BY <1>2, <1>5, <1>6, <1>7

\* The prover's pass over the log: its next slot is past every verdict, and its
\* cursor behind the commitment of that slot.
LEMMA RecoverProverKeeps ==
  ASSUME SlotInv, P!RecoverProver, UNCHANGED <<attVars, crashes>>
  PROVE  SlotInv'
<1> USE DEF SlotInv
<1> DEFINE next  == P!FirstUnjudged(log)
           first == CommitOf(log, next)
<1>1. /\ prover = "down" /\ proNext' = next
      /\ UNCHANGED <<log, awaiting, pending, flushing, error>>
      /\ \/ /\ next \in CommittedSlots(log) /\ prover' = "waiting"
            /\ proCursor' = first - 1 /\ at' = first - 1
         \/ prover' = "recovering" /\ UNCHANGED <<proCursor, at>>
  BY SameReading DEF P!RecoverProver
<1>2. UNCHANGED <<attester, attCursor, batchEnd, crashes>>
  BY DEF attVars
<1>3. CommitInv' /\ RulingInv' /\ VerdictInv' /\ AttesterInv'
  BY <1>1, LogAndAttesterStay
<1>4. /\ next \in Nat
      /\ \A v \in Verdicts(log) : log[v].to_slot < next
      /\ next > 0 => \E v \in Verdicts(log) : log[v].to_slot = next - 1
  BY FirstUnjudgedIsPast
<1>5. awaiting = {} /\ pending = <<>> /\ ~ flushing /\ at = proCursor /\ proCursor = 0
  BY <1>1 DEF CursorInv
<1>6. Len(log) \in Nat /\ log \in Seq(SlotEntry)
  BY DEF TypeOK
<1>7. /\ \A p \in Commits(log) : p \in 1..Len(log) /\ log[p].slot \in Nat
      /\ \A p \in Attestations(log) : p \in Rulings(log) /\ log[p].slot \in Nat
      /\ \A v \in Verdicts(log) : log[v].from_slot \in Nat /\ log[v].to_slot \in Nat
  BY <1>6, EntryFields
<1> HIDE DEF next
<1>8. ASSUME next \in CommittedSlots(log)
      PROVE  /\ first - 1 \in 0..Len(log)
             /\ \A p \in Commits(log) : first - 1 < p => log[p].slot >= next
  <2>1. first \in Commits(log) /\ log[first].slot = next
    BY <1>8, CommitOfFinds
  <2> HIDE DEF first
  <2>2. ASSUME NEW p \in Commits(log), first - 1 < p
        PROVE  log[p].slot >= next
    <3>1. p = first \/ first < p
      BY <1>6, <1>7, <2>1, <2>2
    <3>2. CASE first < p
      BY <1>4, <1>7, <2>1, <3>2 DEF CommitInv
    <3>3. QED
      BY <1>4, <2>1, <3>1, <3>2
  <2>3. QED
    BY <1>6, <1>7, <2>1, <2>2
<1> HIDE DEF first
<1>9. proCursor' \in 0..Len(log) /\ at' = proCursor'
  BY <1>1, <1>5, <1>6, <1>8
<1>10. TypeOK'
  BY <1>1, <1>2, <1>4, <1>9 DEF TypeOK
<1>11. CursorInv'
  BY <1>1, <1>2, <1>5, <1>9 DEF CursorInv
<1>12. NextInv'
  <2>1. ASSUME next > 0
        PROVE  Ruled(next - 1) /\ \A p \in Attestations(log) :
                 log[p].slot < next => Judged(log[p].slot)
    <3>1. PICK v \in Verdicts(log) : log[v].to_slot = next - 1
      BY <1>4, <2>1
    <3>2. next - 1 \in Covers(log, v)
      BY <1>7, <3>1 DEF Covers, VerdictInv
    <3>3. PICK p \in Attestations(log) : log[p].slot = next - 1
      BY <3>2 DEF VerdictInv
    <3>4. Ruled(next - 1)
      BY <1>7, <3>3 DEF Ruled
    <3>5. ASSUME NEW a \in Attestations(log), log[a].slot < next
          PROVE  Judged(log[a].slot)
      <4>1. log[a].slot =< log[v].to_slot
        BY <1>4, <1>7, <3>1, <3>5
      <4>2. QED
        BY <4>1 DEF VerdictInv
    <3>6. QED
      BY <3>4, <3>5
  <2>2. \A p \in Attestations(log) : log[p].slot < next => Judged(log[p].slot)
    BY <1>4, <1>7, <2>1
  <2>3. \A v \in Verdicts(log') : log'[v].to_slot < proNext'
    BY <1>1, <1>4
  <2>4. proNext' > 0 => Ruled(proNext - 1)'
    BY <1>1, <2>1 DEF Ruled
  <2>5. \A p \in Attestations(log') : log'[p].slot < proNext' => Judged(log[p].slot)'
    BY <1>1, <2>2 DEF Judged
  <2>6. QED
    BY <2>3, <2>4, <2>5 DEF NextInv
<1>13. QueueInv'
  BY <1>1, <1>5, PipelineAssumption DEF QueueInv
<1>14. AwaitInv'
  BY <1>1, <1>5, <1>8 DEF AwaitInv
<1>15. QED
  BY <1>3, <1>10, <1>11, <1>12, <1>13, <1>14

\* The prover resumes at the head, collects the tail, has a flush due, gives up
\* or is gone: it takes no entry.
LEMMA ProverTurnsKeep ==
  ASSUME SlotInv,
         \/ P!ResumeProverAtHead \/ P!CollectBatch \/ P!Fail \/ P!FlushTimer
         \/ P!CrashProver,
         UNCHANGED attVars, crashes' \in Nat
  PROVE  SlotInv'
<1> USE DEF SlotInv
<1>1. UNCHANGED <<log, attester, attCursor, batchEnd>>
  BY DEF attVars, P!ResumeProverAtHead, P!CollectBatch, P!Fail, P!FlushTimer, P!CrashProver
<1>2. CommitInv' /\ RulingInv' /\ VerdictInv' /\ AttesterInv'
  BY <1>1, LogAndAttesterStay
<1>3. Len(log) \in Nat /\ log \in Seq(SlotEntry) /\ <<>> \in Seq(Nat)
  BY DEF TypeOK
<1>4. CASE P!ResumeProverAtHead
  <2>1. /\ prover = "recovering" /\ prover' = "waiting"
        /\ proCursor' = Len(log) /\ at' = Len(log)
        /\ UNCHANGED <<proNext, awaiting, pending, flushing, error>>
    BY <1>4 DEF P!ResumeProverAtHead
  <2>2. awaiting = {} /\ pending = <<>> /\ ~ flushing
    BY <2>1 DEF CursorInv
  <2>3. TypeOK' /\ CursorInv'
    BY <1>1, <1>3, <2>1 DEF TypeOK, CursorInv
  <2>4. NextInv'
    BY <1>1, <2>1 DEF NextInv, Ruled, Judged, Queued
  <2>5. QueueInv'
    BY <2>1, <2>2, PipelineAssumption DEF QueueInv
  <2>6. AwaitInv'
    <3>1. \A p \in Commits(log) : p \in Nat /\ p =< Len(log)
      BY <1>3, EntryFields
    <3>2. QED
      BY <1>1, <1>3, <2>1, <2>2, <3>1 DEF AwaitInv
  <2>7. QED
    BY <1>2, <2>3, <2>4, <2>5, <2>6
<1>5. CASE P!CollectBatch
  <2>1. /\ prover = "waiting" /\ prover' = "working"
        /\ proCursor' = Len(log) /\ proCursor < Len(log)
        /\ UNCHANGED <<at, proNext, awaiting, pending, flushing, error>>
    BY <1>5 DEF P!CollectBatch
  <2>2. TypeOK' /\ CursorInv'
    BY <1>1, <1>3, <2>1 DEF TypeOK, CursorInv
  <2>3. NextInv'
    BY <1>1, <2>1 DEF NextInv, Ruled, Judged, Queued
  <2>4. QueueInv' /\ AwaitInv'
    BY <1>1, <2>1 DEF QueueInv, AwaitInv
  <2>5. QED
    BY <1>2, <2>2, <2>3, <2>4
<1>6. CASE P!Fail
  <2>1. /\ prover' = "failed" /\ error' \in P!ProveError
        /\ UNCHANGED <<proCursor, at, proNext, awaiting, pending, flushing>>
    BY <1>6 DEF P!Fail, P!ProveError
  <2>2. TypeOK' /\ CursorInv'
    BY <1>1, <2>1 DEF TypeOK, CursorInv
  <2>3. NextInv' /\ QueueInv' /\ AwaitInv'
    BY <2>1 DEF NextInv, QueueInv, AwaitInv
  <2>4. QED
    BY <1>2, <2>2, <2>3
<1>7. CASE P!FlushTimer
  <2>1. /\ prover = "waiting" /\ prover' = "waiting" /\ pending # <<>> /\ flushing' = TRUE
        /\ UNCHANGED <<proCursor, at, proNext, awaiting, pending, error>>
    BY <1>7 DEF P!FlushTimer
  <2>2. TypeOK' /\ CursorInv'
    BY <1>1, <2>1 DEF TypeOK, CursorInv
  <2>3. NextInv'
    BY <1>1, <2>1 DEF NextInv, Ruled, Judged, Queued
  <2>4. QueueInv' /\ AwaitInv'
    BY <1>1, <2>1 DEF QueueInv, AwaitInv
  <2>5. QED
    BY <1>2, <2>2, <2>3, <2>4
<1>8. CASE P!CrashProver
  <2>1. /\ prover' = "down" /\ proCursor' = 0 /\ at' = 0 /\ proNext' = 0
        /\ awaiting' = {} /\ pending' = <<>> /\ flushing' = FALSE /\ error' = "none"
    BY <1>8 DEF P!CrashProver
  <2>2. pending' \in Seq(Nat) /\ proCursor' \in 0..Len(log) /\ at' \in 0..proCursor'
    <3>1. proCursor' \in 0..Len(log) /\ at' \in 0..proCursor'
      BY <1>3, <2>1
    <3>2. QED
      BY <1>3, <2>1, <3>1
  <2>3. TypeOK'
    BY <1>1, <2>1, <2>2 DEF TypeOK
  <2>4. CursorInv'
    BY <1>1, <2>1 DEF CursorInv
  <2>5. NextInv' /\ QueueInv' /\ AwaitInv'
    BY <2>1 DEF NextInv, QueueInv, AwaitInv
  <2>6. QED
    BY <1>2, <2>3, <2>4, <2>5
<1>9. QED
  BY <1>4, <1>5, <1>6, <1>7, <1>8

\* The prover moves past one entry: what it holds of the log.
LEMMA EntryTaken ==
  ASSUME SlotInv, prover = "working", P!NextEntry, UNCHANGED <<attVars, crashes>>,
         proNext' \in Nat, awaiting' \subseteq Nat, pending' \in Seq(Nat),
         flushing' \in BOOLEAN
  PROVE  /\ TypeOK' /\ CursorInv'
         /\ CommitInv' /\ RulingInv' /\ VerdictInv' /\ AttesterInv'
         /\ log' = log /\ at' = at + 1 /\ at \in Nat
         /\ prover' \in {"waiting", "working"}
         /\ at + 1 \in 1..Len(log) /\ Len(log) \in Nat
<1> USE DEF SlotInv
<1>1. /\ UNCHANGED <<log, attester, attCursor, batchEnd, crashes, proCursor, error>>
      /\ at' = at + 1
      /\ prover' = IF at + 1 = proCursor THEN "waiting" ELSE "working"
  BY DEF P!NextEntry, attVars
<1>2. CommitInv' /\ RulingInv' /\ VerdictInv' /\ AttesterInv'
  BY <1>1, LogAndAttesterStay
<1>3. /\ Len(log) \in Nat /\ at \in Nat /\ proCursor \in 0..Len(log)
      /\ at < proCursor /\ at + 1 \in 0..proCursor /\ at + 1 \in 1..Len(log)
  BY DEF TypeOK, CursorInv
<1>4. TypeOK'
  BY <1>1, <1>3 DEF TypeOK
<1>5. CursorInv'
  BY <1>1, <1>3 DEF CursorInv
<1>6. QED
  BY <1>1, <1>2, <1>3, <1>4, <1>5

\* A commitment is not below the next slot, and starts to wait.
LEMMA TakeCommitKeeps ==
  ASSUME SlotInv, P!TakeCommit, UNCHANGED <<attVars, crashes>>
  PROVE  SlotInv'
<1> USE DEF SlotInv
<1> DEFINE s == log[at + 1].slot
<1>1. /\ prover = "working" /\ ~ flushing /\ log[at + 1].kind = "SlotCommitted"
      /\ P!NextEntry
      /\ awaiting' = awaiting \cup {s}
      /\ proNext' = proNext /\ pending' = pending
      /\ flushing' = (Len(pending) >= BatchSize)
  BY DEF P!TakeCommit, P!Taking
<1>2. Len(pending) \in Nat /\ Len(pending) < BatchSize /\ BatchSize \in Nat
  BY <1>1, PipelineAssumption DEF TypeOK, QueueInv
<1>3. flushing' = FALSE
  <2>1. (Len(pending) >= BatchSize) = FALSE
    BY <1>2
  <2>2. QED
    BY <1>1, <2>1, Zenon
<1>4. at + 1 \in Commits(log) /\ s \in Nat
  <2>1. at + 1 \in 1..Len(log)
    BY <1>1 DEF TypeOK, CursorInv
  <2>2. at + 1 \in Commits(log)
    BY <1>1, <2>1, EntryFields DEF TypeOK, Commits, Of
  <2>3. QED
    BY <2>2, EntryFields DEF TypeOK
<1>5. proNext' \in Nat /\ awaiting' \subseteq Nat /\ pending' \in Seq(Nat) /\ flushing' \in BOOLEAN
  BY <1>1, <1>3, <1>4 DEF TypeOK
<1>6. /\ TypeOK' /\ CursorInv'
      /\ CommitInv' /\ RulingInv' /\ VerdictInv' /\ AttesterInv'
      /\ log' = log /\ at' = at + 1 /\ at \in Nat
      /\ prover' \in {"waiting", "working"}
      /\ at + 1 \in 1..Len(log) /\ Len(log) \in Nat
  BY <1>1, <1>5, EntryTaken
<1>7. NextInv'
  BY <1>1, <1>6 DEF NextInv, Ruled, Judged, Queued
<1>8. QueueInv'
  <2>1. ASSUME NEW k \in DOMAIN pending
        PROVE  \E p \in Attestations(log) : p =< at + 1 /\ log[p].slot = pending[k]
    <3>1. PICK p \in Attestations(log) : p =< at /\ log[p].slot = pending[k]
      BY <1>1 DEF QueueInv
    <3>2. p \in Nat
      BY EntryFields DEF TypeOK
    <3>3. QED
      BY <1>6, <3>1, <3>2
  <2>2. QED
    BY <1>1, <1>3, <1>6, <2>1 DEF QueueInv
<1>9. AwaitInv'
  <2>1. \A p \in Commits(log) : p \in Nat
    BY EntryFields DEF TypeOK
  <2>2. s >= proNext
    BY <1>1, <1>4, <1>6 DEF AwaitInv
  <2>3. \A p \in Commits(log) : at + 1 < p => log[p].slot >= proNext
    BY <1>1, <1>6, <2>1 DEF AwaitInv
  <2>4. QED
    BY <1>1, <1>6, <2>2, <2>3 DEF AwaitInv
<1>10. QED
  BY <1>6, <1>7, <1>8, <1>9

\* An entry that passes by changes nothing but the cursor.
LEMMA PassingByKeeps ==
  ASSUME SlotInv, P!TakeOther \/ P!TakeOldRuling, UNCHANGED <<attVars, crashes>>
  PROVE  SlotInv'
<1> USE DEF SlotInv
<1>1. /\ prover = "working" /\ ~ flushing /\ P!NextEntry
      /\ UNCHANGED <<proNext, awaiting, pending>>
      /\ flushing' = (Len(pending) >= BatchSize) \/ flushing' = flushing
  BY DEF P!TakeOther, P!TakeOldRuling, P!Taking
<1>2. Len(pending) \in Nat /\ Len(pending) < BatchSize /\ BatchSize \in Nat
  BY <1>1, PipelineAssumption DEF TypeOK, QueueInv
<1>3. flushing' = FALSE
  BY <1>1, <1>2 DEF TypeOK
<1>4. proNext' \in Nat /\ awaiting' \subseteq Nat /\ pending' \in Seq(Nat) /\ flushing' \in BOOLEAN
  BY <1>1, <1>3 DEF TypeOK
<1>5. /\ TypeOK' /\ CursorInv'
      /\ CommitInv' /\ RulingInv' /\ VerdictInv' /\ AttesterInv'
      /\ log' = log /\ at' = at + 1 /\ at \in Nat
      /\ prover' \in {"waiting", "working"}
      /\ at + 1 \in 1..Len(log) /\ Len(log) \in Nat
  BY <1>1, <1>4, EntryTaken
<1>6. NextInv'
  BY <1>1, <1>5 DEF NextInv, Ruled, Judged, Queued
<1>7. QueueInv'
  <2>1. ASSUME NEW k \in DOMAIN pending
        PROVE  \E p \in Attestations(log) : p =< at + 1 /\ log[p].slot = pending[k]
    <3>1. PICK p \in Attestations(log) : p =< at /\ log[p].slot = pending[k]
      BY <1>1 DEF QueueInv
    <3>2. p \in Nat
      BY EntryFields DEF TypeOK
    <3>3. QED
      BY <1>5, <3>1, <3>2
  <2>2. QED
    BY <1>1, <1>3, <1>5, <2>1 DEF QueueInv
<1>8. AwaitInv'
  <2>1. \A p \in Commits(log) : p \in Nat
    BY EntryFields DEF TypeOK
  <2>2. \A p \in Commits(log) : at + 1 < p => log[p].slot >= proNext
    BY <1>1, <1>5, <2>1 DEF AwaitInv
  <2>3. QED
    BY <1>1, <1>5, <2>2 DEF AwaitInv
<1>9. QED
  BY <1>5, <1>6, <1>7, <1>8

\* The slot a ruling is on was committed before: no commitment of it follows.
LEMMA RulingIsPastItsCommit ==
  ASSUME TypeOK, CommitInv, RulingInv, NEW r \in Rulings(log),
         NEW p \in Commits(log), r < p
  PROVE  log[p].slot # log[r].slot
<1>1. PICK q \in Commits(log) : q < r /\ log[q].slot = log[r].slot
  BY DEF RulingInv
<1>2. /\ q \in Nat /\ r \in Nat /\ p \in Nat
      /\ log[q].slot \in Nat /\ log[p].slot \in Nat
  BY EntryFields DEF TypeOK
<1>3. log[q].slot < log[p].slot
  BY <1>1, <1>2 DEF CommitInv
<1>4. QED
  BY <1>1, <1>2, <1>3

\* There is one ruling on a slot.
LEMMA OneRulingOnASlot ==
  ASSUME TypeOK, RulingInv, NEW p \in Rulings(log), NEW q \in Rulings(log),
         log[p].slot = log[q].slot
  PROVE  p = q
<1>1. p \in Nat /\ q \in Nat /\ log[p].slot \in Nat
  BY EntryFields DEF TypeOK
<1>2. QED
  BY <1>1 DEF RulingInv

\* The ruling the prover meets at its next slot: no commitment of that slot is
\* still to come.
LEMMA RulingMet ==
  ASSUME SlotInv, prover = "working",
         log[at + 1].kind \in {"SlotAttested", "AttestFailed"},
         log[at + 1].slot = proNext
  PROVE  /\ at + 1 \in Rulings(log) /\ Ruled(proNext)
         /\ \A p \in Commits(log) : at + 1 < p => log[p].slot >= proNext + 1
<1> USE DEF SlotInv
<1>1. at \in Nat /\ at + 1 \in 1..Len(log) /\ log \in Seq(SlotEntry)
  BY DEF TypeOK, CursorInv
<1>2. at + 1 \in Rulings(log)
  BY <1>1, EntryFields DEF Rulings, Of
<1>3. ASSUME NEW p \in Commits(log), at + 1 < p
      PROVE  log[p].slot >= proNext + 1
  <2>1. p \in Nat /\ log[p].slot \in Nat /\ proNext \in Nat
    BY <1>1, EntryFields DEF TypeOK
  <2>2. log[p].slot >= proNext
    BY <1>1, <1>3, <2>1 DEF AwaitInv
  <2>3. log[p].slot # proNext
    BY <1>2, <1>3, RulingIsPastItsCommit
  <2>4. QED
    BY <2>1, <2>2, <2>3
<1>4. QED
  BY <1>2, <1>3 DEF Ruled

\* An attestation of the next slot queues it.
LEMMA TakeAttestedKeeps ==
  ASSUME SlotInv, P!TakeAttested, UNCHANGED <<attVars, crashes>>
  PROVE  SlotInv'
<1> USE DEF SlotInv
<1> DEFINE len == Len(pending)
<1>1. /\ prover = "working" /\ ~ flushing
      /\ log[at + 1].kind = "SlotAttested" /\ log[at + 1].slot = proNext
      /\ P!NextEntry
      /\ awaiting' = awaiting \ {proNext}
      /\ pending' = Append(pending, proNext)
      /\ proNext' = proNext + 1
      /\ flushing' = (Len(pending') >= BatchSize)
  BY DEF P!TakeAttested, P!Taking
<1>2. /\ pending \in Seq(Nat) /\ proNext \in Nat
      /\ len \in Nat /\ len < BatchSize /\ BatchSize \in Nat
      /\ DOMAIN pending = 1..len
      /\ pending # <<>> => len >= 1 /\ pending[len] = proNext - 1
  BY <1>1, PipelineAssumption DEF TypeOK, QueueInv
<1>3. /\ pending' \in Seq(Nat) /\ Len(pending') = len + 1 /\ DOMAIN pending' = 1..len+1
      /\ pending'[len + 1] = proNext
      /\ \A k \in 1..len : pending'[k] = pending[k]
      /\ pending' # <<>>
  BY <1>1, <1>2, AppendProperties
<1> HIDE DEF len
<1>4. flushing' \in BOOLEAN /\ (~ flushing' => len + 1 < BatchSize)
  <2>1. CASE len + 1 < BatchSize
    <3>1. (Len(pending') >= BatchSize) = FALSE
      BY <1>2, <1>3, <2>1
    <3>2. flushing' = FALSE
      BY <1>1, <3>1, Zenon
    <3>3. QED
      BY <2>1, <3>2
  <2>2. CASE ~ (len + 1 < BatchSize)
    <3>1. (Len(pending') >= BatchSize) = TRUE
      BY <1>2, <1>3, <2>2
    <3>2. flushing' = TRUE
      BY <1>1, <3>1, Zenon
    <3>3. QED
      BY <3>2
  <2>3. QED
    BY <2>1, <2>2
<1>5. proNext' \in Nat /\ awaiting' \subseteq Nat
  BY <1>1, <1>2 DEF TypeOK
<1>6. /\ TypeOK' /\ CursorInv'
      /\ CommitInv' /\ RulingInv' /\ VerdictInv' /\ AttesterInv'
      /\ log' = log /\ at' = at + 1 /\ at \in Nat
      /\ prover' \in {"waiting", "working"}
      /\ at + 1 \in 1..Len(log) /\ Len(log) \in Nat
  BY <1>1, <1>3, <1>4, <1>5, EntryTaken
<1>7. /\ at + 1 \in Rulings(log) /\ Ruled(proNext)
      /\ \A p \in Commits(log) : at + 1 < p => log[p].slot >= proNext + 1
  BY <1>1, RulingMet
<1>8. at + 1 \in Attestations(log)
  BY <1>1, <1>6, EntryFields DEF TypeOK, Attestations, Of
<1>9. /\ \A p \in Attestations(log) : log[p].slot \in Nat /\ p \in Nat
      /\ \A p \in Verdicts(log) : log[p].to_slot \in Nat
  BY EntryFields DEF TypeOK
<1>10. \A k \in 1..len : /\ pending[k] = pending[1] + k - 1 /\ pending[k] < proNext
                         /\ \E p \in Attestations(log) : p =< at /\ log[p].slot = pending[k]
                         /\ \A v \in Verdicts(log) : log[v].to_slot < pending[k]
                         /\ pending[k] \in Nat
  <2>1. \A k \in 1..len : pending[k] \in Nat
    BY <1>2
  <2>2. QED
    BY <1>1, <1>2, <2>1 DEF QueueInv
<1>11. \A v \in Verdicts(log) : log[v].to_slot < proNext
  BY <1>1 DEF NextInv
<1>12. NextInv'
  <2>1. \A v \in Verdicts(log) : log[v].to_slot < proNext + 1
    BY <1>2, <1>9, <1>11
  <2>2. Ruled((proNext + 1) - 1)
    BY <1>2, <1>7
  <2>3. ASSUME NEW p \in Attestations(log), log[p].slot < proNext + 1
        PROVE  Judged(log[p].slot) \/ \E k \in DOMAIN pending' : pending'[k] = log[p].slot
    <3>1. CASE log[p].slot = proNext
      <4>1. len + 1 \in DOMAIN pending'
        BY <1>2, <1>3
      <4>2. QED
        BY <1>3, <3>1, <4>1
    <3>2. CASE log[p].slot < proNext
      <4>1. Judged(log[p].slot) \/ Queued(log[p].slot)
        BY <1>1, <3>2 DEF NextInv
      <4>2. CASE Queued(log[p].slot)
        <5>1. PICK k \in 1..len : pending[k] = log[p].slot
          BY <1>2, <4>2 DEF Queued
        <5>2. k \in DOMAIN pending' /\ pending'[k] = log[p].slot
          BY <1>2, <1>3, <5>1
        <5>3. QED
          BY <5>2
      <4>3. QED
        BY <4>1, <4>2
    <3>3. QED
      BY <1>2, <1>9, <2>3, <3>1, <3>2
  <2>4. QED
    BY <1>1, <1>6, <2>1, <2>2, <2>3 DEF NextInv, Ruled, Judged, Queued
<1>13. QueueInv'
  <2>1. ASSUME NEW k \in 1..len+1
        PROVE  /\ pending'[k] = pending'[1] + k - 1
               /\ pending'[k] < proNext + 1
               /\ \E p \in Attestations(log) : p =< at + 1 /\ log[p].slot = pending'[k]
               /\ \A v \in Verdicts(log) : log[v].to_slot < pending'[k]
    <3>1. CASE k \in 1..len
      <4>1. pending'[k] = pending[k] /\ pending'[1] = pending[1]
        BY <1>2, <1>3, <3>1
      <4>2. PICK p \in Attestations(log) : p =< at /\ log[p].slot = pending[k]
        BY <1>10, <3>1
      <4>3. p =< at + 1
        BY <1>6, <1>9, <4>2
      <4>4. pending[k] < proNext + 1
        BY <1>2, <1>10, <3>1
      <4>5. QED
        BY <1>10, <3>1, <4>1, <4>2, <4>3, <4>4
    <3>2. CASE k = len + 1
      <4>1. pending'[k] = pending'[1] + k - 1
        <5>1. CASE len = 0
          BY <1>2, <1>3, <3>2, <5>1
        <5>2. CASE len # 0
          <6>1. 1 \in 1..len /\ len \in 1..len /\ pending # <<>>
            BY <1>2, <5>2 DEF len
          <6>2. proNext - 1 = pending[1] + len - 1 /\ pending[1] \in Nat
            BY <1>2, <1>10, <6>1
          <6>3. QED
            BY <1>2, <1>3, <3>2, <6>1, <6>2
        <5>3. QED
          BY <5>1, <5>2
      <4>2. /\ pending'[k] < proNext + 1
            /\ \E p \in Attestations(log) : p =< at + 1 /\ log[p].slot = pending'[k]
            /\ \A v \in Verdicts(log) : log[v].to_slot < pending'[k]
        BY <1>1, <1>2, <1>3, <1>6, <1>8, <1>11, <3>2
      <4>3. QED
        BY <4>1, <4>2
    <3>3. QED
      BY <1>2, <3>1, <3>2
  <2>2. Len(pending') =< BatchSize /\ (~ flushing' => Len(pending') < BatchSize)
    BY <1>2, <1>3, <1>4
  <2>3. pending'[Len(pending')] = (proNext + 1) - 1
    BY <1>2, <1>3
  <2>4. QED
    BY <1>1, <1>3, <1>6, <2>1, <2>2, <2>3 DEF QueueInv
<1>14. AwaitInv'
  <2>1. \A s \in awaiting \ {proNext} : s >= proNext + 1
    BY <1>1, <1>2 DEF AwaitInv, TypeOK
  <2>2. QED
    BY <1>1, <1>6, <1>7, <2>1 DEF AwaitInv
<1>15. QED
  BY <1>6, <1>12, <1>13, <1>14

\* A refusal of the next slot closes the batch before it.
LEMMA TakeAttestFailedKeeps ==
  ASSUME SlotInv, P!TakeAttestFailed, UNCHANGED <<attVars, crashes>>
  PROVE  SlotInv'
<1> USE DEF SlotInv
<1>1. /\ prover = "working" /\ ~ flushing
      /\ log[at + 1].kind = "AttestFailed" /\ log[at + 1].slot = proNext
      /\ P!NextEntry
      /\ awaiting' = awaiting \ {proNext}
      /\ pending' = pending
      /\ proNext' = proNext + 1
      /\ flushing' = (pending # <<>>)
  BY DEF P!TakeAttestFailed, P!Taking
<1>2. pending \in Seq(Nat) /\ proNext \in Nat /\ awaiting \subseteq Nat
  BY DEF TypeOK
<1>3. flushing' \in BOOLEAN /\ (flushing' <=> pending # <<>>)
  BY <1>1
<1>4. proNext' \in Nat /\ awaiting' \subseteq Nat /\ pending' \in Seq(Nat)
  BY <1>1, <1>2
<1>5. /\ TypeOK' /\ CursorInv'
      /\ CommitInv' /\ RulingInv' /\ VerdictInv' /\ AttesterInv'
      /\ log' = log /\ at' = at + 1 /\ at \in Nat
      /\ prover' \in {"waiting", "working"}
      /\ at + 1 \in 1..Len(log) /\ Len(log) \in Nat
  BY <1>1, <1>3, <1>4, EntryTaken
<1>6. /\ at + 1 \in Rulings(log) /\ Ruled(proNext)
      /\ \A p \in Commits(log) : at + 1 < p => log[p].slot >= proNext + 1
  BY <1>1, RulingMet
<1>7. /\ \A p \in Attestations(log) : p \in Rulings(log) /\ log[p].slot \in Nat /\ p \in Nat
      /\ \A p \in Verdicts(log) : log[p].to_slot \in Nat
  BY EntryFields DEF TypeOK
\* The slot was refused: it was not attested.
<1>8. ASSUME NEW p \in Attestations(log)
      PROVE  log[p].slot # proNext
  <2> SUFFICES ASSUME log[p].slot = proNext PROVE FALSE
    OBVIOUS
  <2>1. p = at + 1
    BY <1>1, <1>6, <1>7, OneRulingOnASlot
  <2>2. log[p].kind = "SlotAttested"
    BY DEF Attestations, Of
  <2>3. QED
    BY <1>1, <2>1, <2>2
<1>9. NextInv'
  <2>1. \A v \in Verdicts(log) : log[v].to_slot < proNext + 1
    BY <1>1, <1>2, <1>7 DEF NextInv
  <2>2. Ruled((proNext + 1) - 1)
    BY <1>2, <1>6
  <2>3. ASSUME NEW p \in Attestations(log), log[p].slot < proNext + 1
        PROVE  Judged(log[p].slot) \/ Queued(log[p].slot)
    <3>1. log[p].slot < proNext
      BY <1>2, <1>7, <1>8, <2>3
    <3>2. QED
      BY <1>1, <3>1 DEF NextInv
  <2>4. QED
    BY <1>1, <1>5, <2>1, <2>2, <2>3 DEF NextInv, Ruled, Judged, Queued
<1>10. QueueInv'
  <2>1. ASSUME NEW k \in DOMAIN pending
        PROVE  /\ \E p \in Attestations(log) : p =< at + 1 /\ log[p].slot = pending[k]
               /\ pending[k] < proNext + 1
    <3>1. PICK p \in Attestations(log) : p =< at /\ log[p].slot = pending[k]
      BY <1>1 DEF QueueInv
    <3>2. p =< at + 1
      BY <1>5, <1>7, <3>1
    <3>3. pending[k] < proNext /\ pending[k] \in Nat
      BY <1>1, <1>2 DEF QueueInv
    <3>4. QED
      BY <1>2, <3>1, <3>2, <3>3
  <2>2. Len(pending) =< BatchSize /\ (pending = <<>> => Len(pending) < BatchSize)
    BY <1>1, PipelineAssumption DEF QueueInv
  <2>3. QED
    BY <1>1, <1>3, <1>5, <2>1, <2>2 DEF QueueInv
<1>11. AwaitInv'
  <2>1. \A s \in awaiting \ {proNext} : s >= proNext + 1
    BY <1>1, <1>2 DEF AwaitInv
  <2>2. QED
    BY <1>1, <1>5, <1>6, <2>1 DEF AwaitInv
<1>12. QED
  BY <1>5, <1>9, <1>10, <1>11

-----------------------------------------------------------------------------
(* The invariant holds.                                                    *)

\* Nothing has happened.
LEMMA InitEstablishes ==
  ASSUME Init
  PROVE  SlotInv
<1>1. /\ log = <<>> /\ crashes = 0
      /\ attester = "down" /\ attCursor = 0 /\ batchEnd = 0
      /\ prover = "down" /\ proCursor = 0 /\ at = 0 /\ proNext = 0
      /\ awaiting = {} /\ pending = <<>> /\ flushing = FALSE /\ error = "none"
  BY DEF Init, A!AttInit, P!ProInit
<1>2. Len(log) = 0 /\ log \in Seq(SlotEntry) /\ <<>> \in Seq(Nat)
  BY <1>1
<1>3. TypeOK
  <2>1. pending \in Seq(Nat)
    BY <1>1, <1>2
  <2>2. /\ attCursor \in 0..Len(log) /\ batchEnd \in 0..Len(log)
        /\ proCursor \in 0..Len(log) /\ at \in 0..proCursor
        /\ proNext \in Nat /\ crashes \in Nat /\ flushing \in BOOLEAN
        /\ awaiting \subseteq Nat
    <3>1. attCursor = 0 /\ batchEnd = 0 /\ proCursor = 0 /\ at = 0 /\ proNext = 0 /\ crashes = 0
      BY <1>1
    <3>2. 0 \in 0..Len(log) /\ 0 \in 0..0 /\ 0 \in Nat
      BY <1>2
    <3>3. flushing \in BOOLEAN /\ awaiting \subseteq Nat
      BY <1>1
    <3>4. QED
      BY <3>1, <3>2, <3>3
  <2>3. attester = "down" /\ prover = "down" /\ error = "none"
    BY <1>1
  <2>4. QED
    BY <1>2, <2>1, <2>2, <2>3 DEF TypeOK
<1>4. Commits(log) = {} /\ Rulings(log) = {} /\ Verdicts(log) = {}
  BY <1>1 DEF Commits, Rulings, Verdicts, Of
<1>5. CommitInv /\ RulingInv /\ VerdictInv
  <2>1. Cardinality(Commits(log)) = 0
    BY <1>4, FS_EmptySet
  <2>2. QED
    BY <1>4, <2>1 DEF CommitInv, RulingInv, VerdictInv
<1>6. CursorInv /\ AttesterInv /\ NextInv /\ QueueInv /\ AwaitInv
  BY <1>1 DEF CursorInv, AttesterInv, NextInv, QueueInv, AwaitInv
<1>7. QED
  BY <1>3, <1>5, <1>6 DEF SlotInv

\* Every step keeps the invariant.
LEMMA NextKeeps ==
  ASSUME SlotInv, [Next]_vars
  PROVE  SlotInv'
<1>1. CASE CommitNext
  BY <1>1, CommitNextKeeps
<1>2. CASE AppendOther
  BY <1>2, AppendOtherKeeps
<1>3. CASE Attest
  <2>1. UNCHANGED proVars /\ UNCHANGED crashes /\ crashes' \in Nat
    BY <1>3 DEF Attest, SlotInv, TypeOK
  <2>2. CASE A!RecoverAttester
    BY <2>1, <2>2, RecoverAttesterKeeps
  <2>3. CASE A!ResumeAtHead \/ A!ReadBatch \/ A!Skip
    BY <2>1, <2>3, AttesterReadsKeep
  <2>4. CASE A!Attests \/ A!Refuses
    BY <2>1, <2>4, RulingKeeps
  <2>5. QED
    BY <1>3, <2>2, <2>3, <2>4 DEF Attest, A!AttStep
<1>4. CASE Prove
  <2>1. UNCHANGED attVars /\ UNCHANGED crashes /\ crashes' \in Nat
    BY <1>4 DEF Prove, SlotInv, TypeOK
  <2>2. CASE P!RecoverProver
    BY <2>1, <2>2, RecoverProverKeeps
  <2>3. CASE P!ResumeProverAtHead \/ P!CollectBatch \/ P!Fail \/ P!FlushTimer
    BY <2>1, <2>3, ProverTurnsKeep
  <2>4. CASE P!TakeCommit
    BY <2>1, <2>4, TakeCommitKeeps
  <2>5. CASE P!TakeOldRuling \/ P!TakeOther
    BY <2>1, <2>5, PassingByKeeps
  <2>6. CASE P!TakeAttested
    BY <2>1, <2>6, TakeAttestedKeeps
  <2>7. CASE P!TakeAttestFailed
    BY <2>1, <2>7, TakeAttestFailedKeeps
  <2>8. CASE P!Proves \/ P!FailsToProve
    BY <2>1, <2>8, VerdictKeeps
  <2>9. QED
    BY <1>4, <2>2, <2>3, <2>4, <2>5, <2>6, <2>7, <2>8 DEF Prove, P!ProStep
<1>5. CASE Crash
  <2>1. crashes' \in Nat
    BY <1>5 DEF Crash, SlotInv, TypeOK
  <2>2. CASE A!CrashAttester /\ UNCHANGED proVars
    BY <2>1, <2>2, AttesterReadsKeep
  <2>3. CASE P!CrashProver /\ UNCHANGED attVars
    BY <2>1, <2>3, ProverTurnsKeep
  <2>4. QED
    BY <1>5, <2>2, <2>3 DEF Crash
<1>6. CASE UNCHANGED vars
  <2>1. UNCHANGED <<log, attVars, proVars, crashes>>
    BY <1>6 DEF vars
  <2>2. CommitInv' /\ RulingInv' /\ VerdictInv' /\ AttesterInv'
    BY <2>1, LogAndAttesterStay
  <2>3. NextInv' /\ QueueInv' /\ AwaitInv'
    BY <2>1, LogAndProverStay
  <2>4. TypeOK' /\ CursorInv'
    BY <2>1 DEF attVars, proVars, SlotInv, TypeOK, CursorInv
  <2>5. QED
    BY <2>2, <2>3, <2>4 DEF SlotInv
<1>7. QED
  BY <1>1, <1>2, <1>3, <1>4, <1>5, <1>6 DEF Next

\* The invariant is one.
LEMMA InvariantHolds == Spec => []SlotInv
<1>1. Init => SlotInv
  BY InitEstablishes
<1>2. SlotInv /\ [Next]_vars => SlotInv'
  BY NextKeeps
<1>3. QED
  BY <1>1, <1>2, PTL DEF Spec

\* The cursors stay within the log and the queue holds slots: what either stage
\* indexes the log with is an entry of it (attest.rs:201-215, prove/mod.rs:230-252).
THEOREM StagesAreWellTyped == Spec => []TypeOK
<1>1. SlotInv => TypeOK
  BY DEF SlotInv
<1>2. QED
  BY <1>1, InvariantHolds, PTL

\* A slot is ruled on once, after it was committed, wherever the attester was
\* when it crashed and whatever came between its two reads
\* (attest.rs:206-211, 244-245).
THEOREM RuledOnOnce == Spec => []OneRulingPerSlot
<1>1. SlotInv => OneRulingPerSlot
  <2> SUFFICES ASSUME SlotInv, NEW p \in Rulings(log)
               PROVE  /\ \E q \in Commits(log) : q < p /\ log[q].slot = log[p].slot
                      /\ \A q \in Rulings(log) : log[p].slot = log[q].slot => p = q
    BY DEF OneRulingPerSlot
  <2>1. \E q \in Commits(log) : q < p /\ log[q].slot = log[p].slot
    BY DEF SlotInv, RulingInv
  <2>2. \A q \in Rulings(log) : log[p].slot = log[q].slot => p = q
    BY OneRulingOnASlot DEF SlotInv
  <2>3. QED
    BY <2>1, <2>2
<1>2. QED
  BY <1>1, InvariantHolds, PTL

\* A verdict covers slots attested before it, none refused and none judged by
\* another verdict, whatever the prover forgot in a crash
\* (prove/mod.rs:176-188, 230-252).
THEOREM JudgedOnce == Spec => []VerdictsCoverAttestedOnce
<1>1. SlotInv => VerdictsCoverAttestedOnce
  <2> SUFFICES ASSUME SlotInv, NEW v \in Verdicts(log)
               PROVE  /\ log[v].from_slot =< log[v].to_slot
                      /\ \A s \in Covers(log, v) :
                           /\ \E q \in Of(log, {"SlotAttested"}) : q < v /\ log[q].slot = s
                           /\ \A q \in Of(log, {"AttestFailed"}) : log[q].slot # s
                           /\ \A q \in Verdicts(log) \ {v} : s \notin Covers(log, q)
    BY DEF VerdictsCoverAttestedOnce
  <2>1. log[v].from_slot =< log[v].to_slot
    BY DEF SlotInv, VerdictInv
  <2>2. ASSUME NEW s \in Covers(log, v)
        PROVE  /\ \E q \in Of(log, {"SlotAttested"}) : q < v /\ log[q].slot = s
               /\ \A q \in Of(log, {"AttestFailed"}) : log[q].slot # s
               /\ \A q \in Verdicts(log) \ {v} : s \notin Covers(log, q)
    <3>1. PICK a \in Attestations(log) : a < v /\ log[a].slot = s
      BY DEF SlotInv, VerdictInv
    <3>2. ASSUME NEW q \in Refusals(log)
          PROVE  log[q].slot # s
      <4> SUFFICES ASSUME log[q].slot = s PROVE FALSE
        OBVIOUS
      <4>1. a \in Rulings(log) /\ q \in Rulings(log)
        BY <3>1, EntryFields DEF SlotInv, TypeOK
      <4>2. a = q
        BY <3>1, <4>1, OneRulingOnASlot DEF SlotInv
      <4>3. QED
        BY <3>1, <4>2, EntryFields DEF SlotInv, TypeOK
    <3>3. ASSUME NEW q \in Verdicts(log) \ {v}
          PROVE  s \notin Covers(log, q)
      <4>1. /\ v \in Nat /\ q \in Nat /\ q # v
            /\ log[v].from_slot \in Nat /\ log[v].to_slot \in Nat
            /\ log[q].from_slot \in Nat /\ log[q].to_slot \in Nat
        BY EntryFields DEF SlotInv, TypeOK
      <4>2. CASE q < v
        BY <4>1, <4>2 DEF SlotInv, VerdictInv, Covers
      <4>3. CASE v < q
        BY <4>1, <4>3 DEF SlotInv, VerdictInv, Covers
      <4>4. QED
        BY <4>1, <4>2, <4>3
    <3>4. QED
      BY <3>1, <3>2, <3>3 DEF Attestations, Refusals
  <2>3. QED
    BY <2>1, <2>2
<1>2. QED
  BY <1>1, InvariantHolds, PTL

-----------------------------------------------------------------------------
(* When nothing comes between a recovery's two reads.                      *)

\* Where the entries are, before and after an append.
LEMMA PlacesGrow ==
  ASSUME TypeOK, NEW e \in SlotEntry, log' = Append(log, e)
  PROVE  LET n == Len(log) + 1
         IN  /\ n \in Nat /\ attCursor < n /\ at < n
             /\ \A p \in Commits(log) \cup Rulings(log) :
                  p \in Nat /\ p < n /\ log[p].slot \in Nat /\ log'[p] = log[p]
             /\ Commits(log) \subseteq Commits(log')
             /\ Rulings(log) \subseteq Rulings(log')
             /\ \A p \in Commits(log') : p \in Commits(log) \/ (p = n /\ e.kind = "SlotCommitted")
             /\ \A p \in Rulings(log') :
                  p \in Rulings(log) \/ (p = n /\ e.kind \in {"SlotAttested", "AttestFailed"})
<1> DEFINE n == Len(log) + 1
<1>1. log \in Seq(SlotEntry) /\ Len(log) \in Nat
  BY DEF TypeOK
<1>2. n \in Nat /\ attCursor < n /\ at < n /\ \A p \in 1..Len(log) : p \in Nat /\ p < n
  BY <1>1 DEF TypeOK
<1>3. \A p \in Commits(log) \cup Rulings(log) : p \in 1..Len(log) /\ log[p].slot \in Nat
  BY <1>1, EntryFields
<1>4. \A p \in 1..Len(log) : log'[p] = log[p]
  BY LogGrows
<1>5. /\ Commits(log') = Commits(log) \cup (IF e.kind = "SlotCommitted" THEN {n} ELSE {})
      /\ Rulings(log') = Rulings(log) \cup (IF e.kind \in {"SlotAttested", "AttestFailed"} THEN {n} ELSE {})
  BY LogGrows
<1> HIDE DEF n
<1>6. QED
  BY <1>2, <1>3, <1>4, <1>5 DEF n

\* An entry that is not a ruling leaves no slot unruled behind the attester.
LEMMA QuietAttesterAppends ==
  ASSUME TypeOK, QuietAttester, NEW e \in SlotEntry, log' = Append(log, e),
         e.kind \notin {"SlotAttested", "AttestFailed"},
         e.kind = "SlotCommitted" => attester # "recovering",
         UNCHANGED attVars
  PROVE  QuietAttester'
<1>1. attester' = attester /\ attCursor' = attCursor
  BY DEF attVars
<1>2. /\ attCursor < Len(log) + 1 /\ Len(log) + 1 \in Nat /\ attCursor \in Nat
      /\ \A p \in Rulings(log) : log'[p] = log[p]
      /\ \A p \in Commits(log) : log'[p] = log[p]
      /\ Rulings(log') = Rulings(log)
      /\ \A p \in Commits(log') : p \in Commits(log) \/ (p = Len(log) + 1 /\ e.kind = "SlotCommitted")
  BY PlacesGrow DEF TypeOK
<1>3. \A s : Ruled(s) => Ruled(s)'
  BY <1>2 DEF Ruled
<1>4. ASSUME NEW p \in Rulings(log'), NEW s \in 0..log'[p].slot-1
      PROVE  \E q \in Rulings(log') : q < p /\ log'[q].slot = s
  <2>1. p \in Rulings(log) /\ s \in 0..log[p].slot-1
    BY <1>2, <1>4
  <2>2. PICK q \in Rulings(log) : q < p /\ log[q].slot = s
    BY <2>1 DEF QuietAttester
  <2>3. QED
    BY <1>2, <2>2
<1>5. ASSUME attester \in {"waiting", "working"}, NEW p \in Commits(log'), p =< attCursor
      PROVE  Ruled(log[p].slot)'
  <2>1. p \in Commits(log)
    BY <1>2, <1>5
  <2>2. Ruled(log[p].slot)
    BY <1>5, <2>1 DEF QuietAttester
  <2>3. QED
    BY <1>2, <1>3, <2>1, <2>2
<1>6. ASSUME attester = "recovering", NEW p \in Commits(log')
      PROVE  Ruled(log[p].slot)'
  <2>1. p \in Commits(log)
    BY <1>2, <1>6
  <2>2. Ruled(log[p].slot)
    BY <1>6, <2>1 DEF QuietAttester
  <2>3. QED
    BY <1>2, <1>3, <2>1, <2>2
<1>7. QED
  BY <1>1, <1>4, <1>5, <1>6 DEF QuietAttester

\* What is appended is past the prover.
LEMMA QuietProverAppends ==
  ASSUME TypeOK, QuietProver, NEW e \in SlotEntry, log' = Append(log, e),
         e.kind = "SlotCommitted" => prover # "recovering",
         UNCHANGED <<prover, at, proNext, awaiting>>
  PROVE  QuietProver'
<1>1. /\ at < Len(log) + 1 /\ Len(log) + 1 \in Nat /\ at \in Nat
      /\ \A p \in Rulings(log) : log'[p] = log[p]
      /\ \A p \in Commits(log) : log'[p] = log[p]
      /\ \A p \in Commits(log') : p \in Commits(log) \/ (p = Len(log) + 1 /\ e.kind = "SlotCommitted")
      /\ \A p \in Rulings(log') : p \in Rulings(log) \/ p = Len(log) + 1
  <2>1. at \in Nat
    BY DEF TypeOK
  <2>2. QED
    BY <2>1, PlacesGrow
<1>2. \A p \in Commits(log') : p =< at => p \in Commits(log)
  BY <1>1
<1>3. \A p \in Rulings(log') : p =< at => p \in Rulings(log)
  BY <1>1
<1>4. QED
  BY <1>1, <1>2, <1>3 DEF QuietProver

\* An attester that stays as it was, with its log.
LEMMA QuietAttesterStays ==
  ASSUME QuietAttester, UNCHANGED <<log, attVars>>
  PROVE  QuietAttester'
BY DEF QuietAttester, attVars, Ruled

\* A slot is ruled on when a later one is.
LEMMA RuledInOrder ==
  ASSUME TypeOK, QuietAttester, NEW r, Ruled(r), NEW s \in Nat, s =< r
  PROVE  Ruled(s)
<1>1. PICK p \in Rulings(log) : log[p].slot = r
  BY DEF Ruled
<1>2. r \in Nat
  BY <1>1, EntryFields DEF TypeOK
<1>3. CASE s = r
  BY <1>3
<1>4. CASE s < r
  <2>1. s \in 0..log[p].slot-1
    BY <1>1, <1>2, <1>4
  <2>2. QED
    BY <2>1 DEF QuietAttester, Ruled
<1>5. QED
  BY <1>2, <1>3, <1>4

\* The attester's own steps leave no slot unruled behind it.
LEMMA QuietAttesterKeeps ==
  ASSUME SlotInv, QuietAttester, A!AttStep \/ A!CrashAttester
  PROVE  QuietAttester'
<1> USE DEF SlotInv
<1>1. /\ log \in Seq(SlotEntry) /\ Len(log) \in Nat /\ attCursor \in Nat
      /\ \A p \in Commits(log) : p \in 1..Len(log) /\ p \in Nat /\ log[p].slot \in Nat
      /\ \A p \in Rulings(log) : p \in Nat /\ log[p].slot \in Nat
  BY EntryFields DEF TypeOK
<1>2. CASE A!RecoverAttester
  <2> DEFINE newest == CHOOSE s \in RuledSlots(log) : \A r \in RuledSlots(log) : r =< s
             first  == CommitOf(log, newest + 1)
  <2>1. /\ log' = log
        /\ \/ attester' = "waiting" /\ attCursor' = 0
           \/ /\ RuledSlots(log) # {} /\ newest + 1 \in CommittedSlots(log)
              /\ attester' = "waiting" /\ attCursor' = first - 1
           \/ /\ RuledSlots(log) # {} /\ newest + 1 \notin CommittedSlots(log)
              /\ attester' = "recovering"
    BY <1>2, SameReading DEF A!RecoverAttester
  <2>2. ASSUME RuledSlots(log) # {}, NEW s \in Nat, s < newest + 1
        PROVE  Ruled(s)
    <3>1. newest \in RuledSlots(log) /\ newest \in Nat
      BY <2>2, NewestRuled
    <3> HIDE DEF newest
    <3>2. s =< newest
      BY <2>2, <3>1
    <3>3. QED
      BY <3>1, <3>2, RuledInOrder DEF RuledSlots, Ruled
  <2>3. ASSUME RuledSlots(log) # {}, newest + 1 \in CommittedSlots(log),
               NEW p \in Commits(log), p =< first - 1
        PROVE  Ruled(log[p].slot)
    <3>1. first \in Commits(log) /\ log[first].slot = newest + 1
      BY <2>3, CommitOfFinds
    <3> HIDE DEF first, newest
    <3>2. p < first
      BY <1>1, <2>3, <3>1
    <3>3. log[p].slot < newest + 1
      BY <3>1, <3>2 DEF CommitInv
    <3>4. QED
      BY <1>1, <2>2, <2>3, <3>3
  <2>4. ASSUME RuledSlots(log) # {}, newest + 1 \notin CommittedSlots(log),
               NEW p \in Commits(log)
        PROVE  Ruled(log[p].slot)
    <3>1. newest \in Nat
      BY <2>4, NewestRuled
    <3>2. log[p].slot \in CommittedSlots(log)
      BY DEF CommittedSlots
    <3> HIDE DEF newest
    <3>3. log[p].slot < newest + 1
      BY <1>1, <2>4, <3>1, <3>2, CommitCount, CommittedAreDense
    <3>4. QED
      BY <1>1, <2>2, <2>4, <3>3
  <2> HIDE DEF newest, first
  <2>5. attester' = "waiting" => \A p \in Commits(log) : p =< attCursor' => Ruled(log[p].slot)
    BY <1>1, <2>1, <2>3
  <2>6. attester' = "recovering" => \A p \in Commits(log) : Ruled(log[p].slot)
    BY <2>1, <2>4
  <2>7. QED
    BY <2>1, <2>5, <2>6 DEF QuietAttester, Ruled
<1>3. CASE A!ResumeAtHead \/ A!ReadBatch \/ A!Skip \/ A!CrashAttester
  <2>1. log' = log /\ attester' # "recovering"
    BY <1>3 DEF A!ResumeAtHead, A!ReadBatch, A!Skip, A!Advance, A!CrashAttester
  <2>2. ASSUME attester' \in {"waiting", "working"}, NEW p \in Commits(log), p =< attCursor'
        PROVE  Ruled(log[p].slot)
    <3>1. CASE A!ResumeAtHead
      BY <3>1 DEF A!ResumeAtHead, QuietAttester
    <3>2. CASE A!ReadBatch
      BY <2>2, <3>2 DEF A!ReadBatch, QuietAttester
    <3>3. CASE A!Skip
      <4>1. /\ attester = "working" /\ attCursor' = attCursor + 1
            /\ log[attCursor + 1].kind # "SlotCommitted"
        BY <3>3 DEF A!Skip, A!Advance
      <4>2. p # attCursor + 1
        BY <4>1 DEF Commits, Of
      <4>3. p =< attCursor
        BY <1>1, <2>2, <4>1, <4>2
      <4>4. QED
        BY <4>1, <4>3 DEF QuietAttester
    <3>4. CASE A!CrashAttester
      BY <2>2, <3>4 DEF A!CrashAttester
    <3>5. QED
      BY <1>3, <3>1, <3>2, <3>3, <3>4
  <2>3. QED
    BY <2>1, <2>2 DEF QuietAttester, Ruled
<1>4. CASE A!Attests \/ A!Refuses
  <2> DEFINE m == attCursor + 1
             n == Len(log) + 1
  <2>1. /\ attester = "working" /\ log[m].kind = "SlotCommitted"
        /\ attCursor' = m /\ attester' \in {"waiting", "working"}
        /\ \/ log' = Append(log, A!SlotAttested(log[m].slot))
           \/ log' = Append(log, A!AttestFailed(log[m].slot))
    BY <1>4 DEF A!Attests, A!Refuses, A!Rule, A!Advance
  <2>2. PICK s \in Nat : log[m].slot = s /\ m \in Commits(log) /\ m \in Nat
    <3>1. m \in 1..Len(log)
      BY <2>1 DEF TypeOK, CursorInv
    <3>2. m \in Commits(log)
      BY <1>1, <2>1, <3>1 DEF Commits, Of
    <3>3. QED
      BY <1>1, <3>2
  <2>3. PICK e \in SlotEntry : /\ log' = Append(log, e)
                               /\ e.kind \in {"SlotAttested", "AttestFailed"}
                               /\ e.slot = s
    BY <2>1, <2>2, EntriesMade DEF A!SlotAttested, A!AttestFailed, SlotAttested, AttestFailed
  <2>4. /\ n \in Nat /\ log'[n].slot = s
        /\ Commits(log') = Commits(log) /\ Rulings(log') = Rulings(log) \cup {n}
    <3>1. n \in Nat
      BY <1>1
    <3>2. QED
      BY <2>3, <3>1, LogGrows
  <2>5. /\ \A p \in Commits(log) : log'[p] = log[p] /\ p < n
        /\ \A p \in Rulings(log) : log'[p] = log[p] /\ p < n
        /\ \A t : Ruled(t) => Ruled(t)'
    BY <2>3, PlacesGrow, LogKeeps
  <2>6. Ruled(s)'
    BY <2>4 DEF Ruled
\* The slots before this one are ruled on: their commitments are behind the cursor.
  <2>7. ASSUME NEW t \in 0..s-1
        PROVE  Ruled(t)
    <3>1. PICK q \in Commits(log) : log[q].slot = t
      <4>1. s < Cardinality(Commits(log)) /\ Cardinality(Commits(log)) \in Nat
        BY <2>2, CommitCount DEF CommitInv
      <4>2. t \in 0..Cardinality(Commits(log))-1
        BY <2>2, <4>1
      <4>3. QED
        BY <4>2 DEF CommitInv
    <3>2. q =< attCursor
      <4>1. CASE q < m
        BY <1>1, <3>1, <4>1
      <4>2. CASE q = m
        BY <2>2, <3>1, <4>2
      <4>3. CASE m < q
        BY <2>2, <3>1, <4>3 DEF CommitInv
      <4>4. QED
        BY <1>1, <2>2, <3>1, <4>1, <4>2, <4>3
    <3>3. QED
      BY <2>1, <3>1, <3>2 DEF QuietAttester
  <2>8. ASSUME NEW p \in Rulings(log'), NEW t \in 0..log'[p].slot-1
        PROVE  \E q \in Rulings(log') : q < p /\ log'[q].slot = t
    <3>1. CASE p = n
      <4>1. Ruled(t)
        BY <2>4, <2>7, <2>8, <3>1
      <4>2. PICK q \in Rulings(log) : log[q].slot = t
        BY <4>1 DEF Ruled
      <4>3. QED
        BY <2>4, <2>5, <3>1, <4>2
    <3>2. CASE p \in Rulings(log)
      <4>1. t \in 0..log[p].slot-1
        BY <2>5, <2>8, <3>2
      <4>2. PICK q \in Rulings(log) : q < p /\ log[q].slot = t
        BY <3>2, <4>1 DEF QuietAttester
      <4>3. QED
        BY <2>4, <2>5, <4>2
    <3>3. QED
      BY <2>4, <3>1, <3>2
  <2>9. ASSUME NEW p \in Commits(log), p =< m
        PROVE  Ruled(log[p].slot)'
    <3>1. CASE p = m
      BY <2>2, <2>5, <2>6, <3>1
    <3>2. CASE p =< attCursor
      <4>1. Ruled(log[p].slot)
        BY <2>1, <3>2 DEF QuietAttester
      <4>2. QED
        BY <2>5, <4>1
    <3>3. QED
      BY <1>1, <2>9, <3>1, <3>2
  <2>10. QED
    BY <2>1, <2>4, <2>8, <2>9 DEF QuietAttester
<1>5. QED
  BY <1>2, <1>3, <1>4 DEF A!AttStep

\* The prover's pass: where it resumes, or next_slot alone, is past every ruling
\* it will not read.
LEMMA QuietRecoverProver ==
  ASSUME SlotInv, P!RecoverProver
  PROVE  QuietProver'
<1> USE DEF SlotInv
<1> DEFINE next  == P!FirstUnjudged(log)
           first == CommitOf(log, next)
<1>1. /\ log' = log /\ proNext' = next
      /\ \/ /\ next \in CommittedSlots(log) /\ prover' = "waiting" /\ at' = first - 1
         \/ next \notin CommittedSlots(log) /\ prover' = "recovering"
  BY SameReading DEF P!RecoverProver
<1>2. next \in Nat
  BY FirstUnjudgedIsPast
<1>3. /\ \A p \in Commits(log) : p \in Nat /\ log[p].slot \in Nat
      /\ \A p \in Rulings(log) : p \in Nat /\ log[p].slot \in Nat
  BY EntryFields DEF TypeOK
<1> HIDE DEF next
<1>4. ASSUME next \in CommittedSlots(log)
      PROVE  /\ \A p \in Commits(log) : p =< first - 1 => log[p].slot < next
             /\ \A p \in Rulings(log) : p =< first - 1 => log[p].slot < next
  <2>1. first \in Commits(log) /\ log[first].slot = next
    BY <1>4, CommitOfFinds
  <2> HIDE DEF first
  <2>2. ASSUME NEW p \in Commits(log), p =< first - 1
        PROVE  log[p].slot < next
    <3>1. p < first
      BY <1>3, <2>1, <2>2
    <3>2. QED
      BY <2>1, <3>1 DEF CommitInv
  <2>3. ASSUME NEW p \in Rulings(log), p =< first - 1
        PROVE  log[p].slot < next
    <3>1. PICK q \in Commits(log) : q < p /\ log[q].slot = log[p].slot
      BY DEF RulingInv
    <3>2. q =< first - 1
      BY <1>3, <2>1, <2>3, <3>1
    <3>3. QED
      BY <2>2, <3>1, <3>2
  <2>4. QED
    BY <2>2, <2>3
<1>5. ASSUME next \notin CommittedSlots(log), NEW p \in Commits(log)
      PROVE  log[p].slot < next
  <2>1. log[p].slot \in CommittedSlots(log)
    BY DEF CommittedSlots
  <2>2. QED
    BY <1>2, <1>3, <1>5, <2>1, CommitCount, CommittedAreDense
<1> HIDE DEF first
<1>6. CASE prover' = "waiting"
  <2>1. /\ at' = first - 1
        /\ \A p \in Commits(log) : p =< first - 1 => log[p].slot < next
        /\ \A p \in Rulings(log) : p =< first - 1 => log[p].slot < next
    BY <1>1, <1>4, <1>6
  <2>2. \A p \in Commits(log) : p =< first - 1 => ~ (log[p].slot >= next)
    BY <1>2, <1>3, <2>1
  <2>3. QED
    BY <1>1, <1>6, <2>1, <2>2 DEF QuietProver
<1>7. CASE prover' = "recovering"
  BY <1>1, <1>5, <1>7 DEF QuietProver
<1>8. QED
  BY <1>1, <1>6, <1>7

\* A ruling on a slot past the next one would have come after one on the next,
\* and one on the next after its commitment: the prover has read both, and has
\* no reason to give up.
LEMMA NothingToFailOn ==
  ASSUME SlotInv, QuietAttester, QuietProver
  PROVE  ~ P!Fail
<1> USE DEF SlotInv
<1> SUFFICES ASSUME P!Fail PROVE FALSE
  OBVIOUS
<1>1. /\ prover = "working"
      /\ log[at + 1].kind \in {"SlotAttested", "AttestFailed"}
      /\ \/ log[at + 1].slot > proNext
         \/ log[at + 1].slot = proNext /\ proNext \notin awaiting
  BY DEF P!Fail, P!Taking
<1>2. at \in Nat /\ at + 1 \in 1..Len(log) /\ proNext \in Nat /\ log \in Seq(SlotEntry)
  BY <1>1 DEF TypeOK, CursorInv
<1>3. at + 1 \in Rulings(log)
  BY <1>1, <1>2, EntryFields DEF Rulings, Of
<1>4. /\ \A p \in Commits(log) : p \in Nat /\ log[p].slot \in Nat
      /\ \A p \in Rulings(log) : p \in Nat /\ log[p].slot \in Nat
  BY <1>2, EntryFields
<1>5. CASE log[at + 1].slot > proNext
  <2>1. proNext \in 0..log[at + 1].slot-1
    BY <1>2, <1>3, <1>4, <1>5
  <2>2. PICK q \in Rulings(log) : q < at + 1 /\ log[q].slot = proNext
    BY <1>3, <2>1 DEF QuietAttester
  <2>3. q =< at
    BY <1>2, <1>4, <2>2
  <2>4. log[q].slot < proNext
    BY <1>1, <2>3 DEF QuietProver
  <2>5. QED
    BY <1>2, <2>2, <2>4
<1>6. CASE log[at + 1].slot = proNext /\ proNext \notin awaiting
  <2>1. PICK q \in Commits(log) : q < at + 1 /\ log[q].slot = log[at + 1].slot
    BY <1>3 DEF RulingInv
  <2>2. q =< at /\ log[q].slot >= proNext
    BY <1>2, <1>4, <1>6, <2>1
  <2>3. log[q].slot \in awaiting
    BY <1>1, <2>2 DEF QuietProver
  <2>4. QED
    BY <1>6, <2>1, <2>3
<1>7. QED
  BY <1>1, <1>5, <1>6

\* An entry the prover takes is accounted for.
LEMMA QuietProverTakes ==
  ASSUME SlotInv, QuietProver,
         \/ P!TakeCommit \/ P!TakeOldRuling \/ P!TakeAttested
         \/ P!TakeAttestFailed \/ P!TakeOther
  PROVE  QuietProver'
<1> USE DEF SlotInv
<1>1. /\ prover = "working" /\ log' = log /\ at' = at + 1
      /\ prover' \in {"waiting", "working"}
  BY DEF P!TakeCommit, P!TakeOldRuling, P!TakeAttested, P!TakeAttestFailed, P!TakeOther,
         P!Taking, P!NextEntry
<1>2. /\ at \in Nat /\ proNext \in Nat
      /\ \A p \in Commits(log) : p \in Nat /\ log[p].slot \in Nat
      /\ \A p \in Rulings(log) : p \in Nat /\ log[p].slot \in Nat
  BY EntryFields DEF TypeOK
<1>3. /\ \A p \in Rulings(log) : p =< at => log[p].slot < proNext
      /\ \A p \in Commits(log) : p =< at /\ log[p].slot >= proNext => log[p].slot \in awaiting
  BY <1>1 DEF QuietProver
<1>4. /\ at + 1 \in Commits(log) => log[at + 1].kind = "SlotCommitted"
      /\ at + 1 \in Rulings(log) => log[at + 1].kind \in {"SlotAttested", "AttestFailed"}
  BY DEF Commits, Rulings, Of
<1>5. proNext' = proNext \/ proNext' = proNext + 1
  BY DEF P!TakeCommit, P!TakeOldRuling, P!TakeAttested, P!TakeAttestFailed, P!TakeOther
<1>6. at + 1 \in Rulings(log) => log[at + 1].slot < proNext'
  BY <1>2, <1>4 DEF P!TakeCommit, P!TakeOldRuling, P!TakeAttested, P!TakeAttestFailed,
                    P!TakeOther, P!Taking
<1>7. at + 1 \in Commits(log) => log[at + 1].slot \in awaiting'
  BY <1>4 DEF P!TakeCommit, P!TakeOldRuling, P!TakeAttested, P!TakeAttestFailed,
              P!TakeOther, P!Taking
<1>8. \A s \in awaiting : s >= proNext' => s \in awaiting'
  BY <1>2 DEF P!TakeCommit, P!TakeOldRuling, P!TakeAttested, P!TakeAttestFailed, P!TakeOther
<1>9. ASSUME NEW p \in Rulings(log), p =< at + 1
      PROVE  log[p].slot < proNext'
  <2>1. CASE p = at + 1
    BY <1>6, <2>1
  <2>2. CASE p =< at
    BY <1>2, <1>3, <1>5, <2>2
  <2>3. QED
    BY <1>2, <1>9, <2>1, <2>2
<1>10. ASSUME NEW p \in Commits(log), p =< at + 1, log[p].slot >= proNext'
       PROVE  log[p].slot \in awaiting'
  <2>1. CASE p = at + 1
    BY <1>7, <2>1
  <2>2. CASE p =< at
    <3>1. log[p].slot >= proNext
      BY <1>2, <1>5, <1>10
    <3>2. log[p].slot \in awaiting
      BY <1>3, <2>2, <3>1
    <3>3. QED
      BY <1>8, <1>10, <3>2
  <2>3. QED
    BY <1>2, <1>10, <2>1, <2>2
<1>11. QED
  BY <1>1, <1>9, <1>10 DEF QuietProver

\* The prover's other turns leave nothing behind it unaccounted for.
LEMMA QuietProverTurns ==
  ASSUME SlotInv, QuietProver,
         P!ResumeProverAtHead \/ P!CollectBatch \/ P!FlushTimer \/ P!CrashProver
  PROVE  QuietProver'
<1> USE DEF SlotInv
<1>1. CASE P!ResumeProverAtHead
  <2>1. /\ prover = "recovering" /\ prover' = "waiting"
        /\ UNCHANGED <<log, proNext, awaiting>>
    BY <1>1 DEF P!ResumeProverAtHead
  <2>2. \A p \in Commits(log) : log[p].slot < proNext
    BY <2>1 DEF QuietProver
  <2>3. \A p \in Rulings(log) : log[p].slot < proNext
    BY <2>2 DEF RulingInv
  <2>4. \A p \in Commits(log) : ~ (log[p].slot >= proNext)
    BY <2>2, EntryFields DEF TypeOK
  <2>5. QED
    BY <2>1, <2>3, <2>4 DEF QuietProver
<1>2. CASE P!CollectBatch \/ P!FlushTimer
  <2>1. /\ UNCHANGED <<log, at, proNext, awaiting>>
        /\ prover = "waiting" /\ prover' \in {"waiting", "working"}
    BY <1>2 DEF P!CollectBatch, P!FlushTimer
  <2>2. QED
    BY <2>1 DEF QuietProver
<1>3. CASE P!CrashProver
  BY <1>3 DEF P!CrashProver, QuietProver
<1>4. QED
  BY <1>1, <1>2, <1>3

\* The entry a ruling appends.
LEMMA RulingAppends ==
  ASSUME SlotInv, A!Attests \/ A!Refuses
  PROVE  \E e \in SlotEntry :
           /\ log' = Append(log, e)
           /\ e.kind \in {"SlotAttested", "AttestFailed"}
           /\ e.kind # "SlotCommitted"
           /\ attCursor + 1 \in Commits(log) /\ e.slot = log[attCursor + 1].slot
<1> USE DEF SlotInv
<1> DEFINE m == attCursor + 1
<1>1. /\ attester = "working" /\ log[m].kind = "SlotCommitted"
      /\ \/ log' = Append(log, A!SlotAttested(log[m].slot))
         \/ log' = Append(log, A!AttestFailed(log[m].slot))
  BY DEF A!Attests, A!Refuses, A!Rule
<1>2. m \in 1..Len(log) /\ log \in Seq(SlotEntry)
  BY <1>1 DEF TypeOK, CursorInv
<1>3. m \in Commits(log)
  BY <1>1, <1>2, EntryFields DEF Commits, Of
<1>4. log[m].slot \in Nat
  BY <1>2, <1>3, EntryFields
<1>5. QED
  BY <1>1, <1>3, <1>4, EntriesMade DEF A!SlotAttested, A!AttestFailed, SlotAttested, AttestFailed

\* The entry a verdict appends: it covers the queue.
LEMMA VerdictAppends ==
  ASSUME SlotInv, P!Proves \/ P!FailsToProve
  PROVE  \E e \in SlotEntry :
           /\ log' = Append(log, e)
           /\ e.kind \in {"SlotsProven", "ProveFailed"}
           /\ e.from_slot = pending[1] /\ e.to_slot = pending[Len(pending)]
<1> USE DEF SlotInv
<1>1. /\ flushing /\ prover \in {"waiting", "working"}
      /\ \/ log' = Append(log, P!SlotsProven(pending[1], pending[Len(pending)]))
         \/ log' = Append(log, P!ProveFailed(pending[1], pending[Len(pending)]))
  BY DEF P!Proves, P!FailsToProve, P!Flush
<1>2. pending \in Seq(Nat) /\ pending # <<>>
  BY <1>1 DEF TypeOK, QueueInv
<1>3. pending[1] \in Nat /\ pending[Len(pending)] \in Nat
  BY <1>2
<1>4. QED
  BY <1>1, <1>3, EntriesMade DEF P!SlotsProven, P!ProveFailed, SlotsProven, ProveFailed

\* Every step keeps what holds when nothing comes between two reads.
LEMMA QuietKeeps ==
  ASSUME QuietRecovery, SlotInv, QuietAttester, QuietProver, [Next]_vars
  PROVE  QuietAttester' /\ QuietProver'
<1>0. TypeOK
  BY DEF SlotInv
<1>1. CASE CommitNext
  <2>1. PICK e \in SlotEntry : log' = Append(log, e) /\ e.kind = "SlotCommitted"
    BY <1>0, <1>1, CommitCount, EntriesMade DEF CommitNext
  <2>2. /\ attester # "recovering" /\ prover # "recovering"
        /\ UNCHANGED attVars /\ UNCHANGED <<prover, at, proNext, awaiting>>
    BY <1>1 DEF CommitNext, Undisturbed, proVars
  <2>3. QED
    BY <1>0, <2>1, <2>2, QuietAttesterAppends, QuietProverAppends
<1>2. CASE AppendOther
  <2>1. PICK e \in SlotEntry : log' = Append(log, e) /\ e.kind = "Other"
    BY <1>2, EntriesMade DEF AppendOther
  <2>2. UNCHANGED attVars /\ UNCHANGED <<prover, at, proNext, awaiting>>
    BY <1>2 DEF AppendOther, proVars
  <2>3. QED
    BY <1>0, <2>1, <2>2, QuietAttesterAppends, QuietProverAppends
<1>3. CASE Attest
  <2>1. A!AttStep /\ UNCHANGED <<prover, at, proNext, awaiting>>
    BY <1>3 DEF Attest, proVars
  <2>2. QuietAttester'
    BY <2>1, QuietAttesterKeeps
  <2>3. QuietProver'
    <3>1. CASE A!Attests \/ A!Refuses
      <4>1. PICK e \in SlotEntry : log' = Append(log, e) /\ e.kind # "SlotCommitted"
        BY <3>1, RulingAppends
      <4>2. QED
        BY <1>0, <2>1, <4>1, QuietProverAppends
    <3>2. CASE log' = log
      BY <2>1, <3>2 DEF QuietProver
    <3>3. QED
      BY <2>1, <3>1, <3>2 DEF A!AttStep, A!RecoverAttester, A!ResumeAtHead, A!ReadBatch, A!Skip
  <2>4. QED
    BY <2>2, <2>3
<1>4. CASE Prove
  <2>1. P!ProStep /\ UNCHANGED attVars
    BY <1>4 DEF Prove
  <2>2. CASE P!Proves \/ P!FailsToProve
    <3>1. PICK e \in SlotEntry : /\ log' = Append(log, e)
                                 /\ e.kind \in {"SlotsProven", "ProveFailed"}
      BY <2>2, VerdictAppends
    <3>2. UNCHANGED <<prover, at, proNext, awaiting>>
      BY <2>2 DEF P!Proves, P!FailsToProve, P!Flush
    <3>3. QED
      BY <1>0, <2>1, <3>1, <3>2, QuietAttesterAppends, QuietProverAppends
  <2>3. CASE ~ (P!Proves \/ P!FailsToProve)
    <3>1. log' = log
      BY <2>1, <2>3 DEF P!ProStep, P!RecoverProver, P!ResumeProverAtHead, P!CollectBatch,
           P!TakeCommit, P!TakeOldRuling, P!TakeAttested, P!TakeAttestFailed, P!TakeOther,
           P!Fail, P!FlushTimer, P!NextEntry
    <3>2. QuietAttester'
      BY <2>1, <3>1, QuietAttesterStays
    <3>3. QuietProver'
      BY <2>1, <2>3, QuietRecoverProver, QuietProverTakes, QuietProverTurns,
         NothingToFailOn DEF P!ProStep
    <3>4. QED
      BY <3>2, <3>3
  <2>4. QED
    BY <2>2, <2>3
<1>5. CASE Crash
  <2>1. CASE A!CrashAttester /\ UNCHANGED proVars
    <3>1. QuietAttester'
      BY <2>1, QuietAttesterKeeps
    <3>2. QuietProver'
      BY <2>1 DEF A!CrashAttester, QuietProver, proVars
    <3>3. QED
      BY <3>1, <3>2
  <2>2. CASE P!CrashProver /\ UNCHANGED attVars
    <3>1. QuietAttester'
      BY <2>2, QuietAttesterStays DEF P!CrashProver
    <3>2. QED
      BY <2>2, <3>1, QuietProverTurns
  <2>3. QED
    BY <1>5, <2>1, <2>2 DEF Crash
<1>6. CASE UNCHANGED vars
  <2>1. UNCHANGED <<log, attVars, proVars>>
    BY <1>6 DEF vars
  <2>2. QuietAttester'
    BY <2>1, QuietAttesterStays
  <2>3. QuietProver'
    BY <2>1 DEF QuietProver, proVars
  <2>4. QED
    BY <2>2, <2>3
<1>7. QED
  BY <1>1, <1>2, <1>3, <1>4, <1>5, <1>6 DEF Next

\* The invariant of the schedules that leave a recovery alone.
LEMMA QuietHolds ==
  ASSUME QuietRecovery
  PROVE  Spec => [](SlotInv /\ QuietAttester /\ QuietProver)
<1>1. Init => SlotInv /\ QuietAttester /\ QuietProver
  <2> SUFFICES ASSUME Init PROVE SlotInv /\ QuietAttester /\ QuietProver
    OBVIOUS
  <2>1. log = <<>> /\ attester = "down" /\ prover = "down"
    BY DEF Init, A!AttInit, P!ProInit
  <2>2. Rulings(log) = {} /\ Commits(log) = {}
    BY <2>1 DEF Rulings, Commits, Of
  <2>3. QED
    BY <2>1, <2>2, InitEstablishes DEF QuietAttester, QuietProver
<1>2. (SlotInv /\ QuietAttester /\ QuietProver) /\ [Next]_vars
        => (SlotInv /\ QuietAttester /\ QuietProver)'
  BY NextKeeps, QuietKeeps
<1>3. QED
  BY <1>1, <1>2, PTL DEF Spec

\* The prover runs strictly behind the attester, in order: it never meets a gap
\* nor a slot without its commitment (README.md:59-61, prove/mod.rs:103-113).
THEOREM ProverKeepsOn ==
  ASSUME QuietRecovery
  PROVE  Spec => []ProverNeverFails
<1>1. SlotInv /\ QuietAttester /\ QuietProver => ProverNeverFails
  BY DEF QuietProver, ProverNeverFails
<1>2. QED
  BY <1>1, QuietHolds, PTL

\* Rulings leave no slot out: each is on the slot whose number is the count of
\* those before it (attest.rs:201-246, 996).
THEOREM RuledInSequence ==
  ASSUME QuietRecovery
  PROVE  Spec => []RulingsInOrder
<1>1. ASSUME SlotInv, QuietAttester, NEW p \in Rulings(log)
      PROVE  log[p].slot = Cardinality({q \in Rulings(log) : q < p})
  <2> DEFINE S == {q \in Rulings(log) : q < p}
             s == log[p].slot
             F == [q \in S |-> log[q].slot + 1]
  <2>1. /\ Rulings(log) \subseteq 1..Len(log) /\ Len(log) \in Nat
        /\ \A q \in Rulings(log) : q \in Nat /\ log[q].slot \in Nat
    BY <1>1, EntryFields DEF SlotInv, TypeOK
  <2>2. IsFiniteSet(S)
    <3>1. S \in SUBSET (1..Len(log))
      BY <2>1
    <3>2. IsFiniteSet(1..Len(log))
      BY <2>1, FS_Interval
    <3> HIDE DEF S
    <3>3. QED
      BY <3>1, <3>2, FS_Subset
  <2>3. F \in [S -> 1..s]
    BY <1>1, <2>1 DEF SlotInv, RulingInv
  <2>4. \A a, b \in S : F[a] = F[b] => a = b
    <3> SUFFICES ASSUME NEW a \in S, NEW b \in S, F[a] = F[b] PROVE a = b
      OBVIOUS
    <3>1. log[a].slot = log[b].slot
      BY <2>1
    <3>2. QED
      BY <1>1, <3>1, OneRulingOnASlot DEF SlotInv
  <2>5. \A k \in 1..s : \E a \in S : F[a] = k
    <3> SUFFICES ASSUME NEW k \in 1..s PROVE \E a \in S : F[a] = k
      OBVIOUS
    <3>1. k - 1 \in 0..s-1
      BY <2>1
    <3>2. PICK a \in Rulings(log) : a < p /\ log[a].slot = k - 1
      BY <1>1, <3>1 DEF QuietAttester
    <3>3. QED
      BY <2>1, <3>2
  <2> HIDE DEF F, S
  <2>6. F \in Bijection(S, 1..s)
    BY <2>3, <2>4, <2>5, Fun_IsBij
  <2>7. Cardinality(1..s) = Cardinality(S)
    BY <2>2, <2>6, FS_Bijection DEF ExistsBijection
  <2>8. s \in Nat /\ Cardinality(1..s) = s
    <3>1. s \in Nat
      BY <2>1
    <3> HIDE DEF s
    <3>2. Cardinality(1..s) = IF 1 > s THEN 0 ELSE s - 1 + 1
      BY <3>1, FS_Interval
    <3>3. QED
      BY <3>1, <3>2
  <2>9. QED
    BY <2>7, <2>8 DEF S
<1>2. SlotInv /\ QuietAttester /\ QuietProver => RulingsInOrder
  BY <1>1 DEF RulingsInOrder
<1>3. QED
  BY <1>2, QuietHolds, PTL

\* The prover's queue is the attested slots it has read of that no verdict
\* covers, a run that ends below next_slot; its other map has every slot it has
\* read the commitment of that waits for a ruling (prove/mod.rs:117-122).
THEOREM QueueIsOfTheLog ==
  ASSUME QuietRecovery
  PROVE  Spec => []QueueMirrorsTheLog
<1>1. ASSUME SlotInv, QuietProver, prover \in {"waiting", "working"}
      PROVE  LET read == SubSeq(log, 1, at)
             IN  /\ pending = [k \in 1..Len(pending) |-> pending[1] + k - 1]
                 /\ Len(pending) > 0 => pending[Len(pending)] < proNext
                 /\ {pending[k] : k \in DOMAIN pending}
                      = {s \in AttestedSlots(read) : s < proNext} \ JudgedSlots(log)
                 /\ {s \in CommittedSlots(read) : s >= proNext} \subseteq awaiting
                 /\ \A s \in awaiting : s >= proNext
  <2> DEFINE read == SubSeq(log, 1, at)
  <2>1. /\ log \in Seq(SlotEntry) /\ Len(log) \in Nat /\ at \in 0..Len(log)
        /\ pending \in Seq(Nat)
    BY <1>1 DEF SlotInv, TypeOK
  <2>2. \A k \in DOMAIN pending : pending[k] = pending[1] + k - 1 /\ pending[k] < proNext
    BY <1>1 DEF SlotInv, QueueInv
  <2>3. pending = [k \in 1..Len(pending) |-> pending[1] + k - 1]
    <3>1. DOMAIN pending = 1..Len(pending) /\ pending = [k \in DOMAIN pending |-> pending[k]]
      BY <2>1
    <3>2. QED
      BY <2>2, <3>1
  <2>4. Len(pending) > 0 => pending[Len(pending)] < proNext
    BY <2>1, <2>2
  <2>5. Len(read) = at /\ DOMAIN read = 1..at /\ \A p \in 1..at : read[p] = log[p]
    BY <2>1, SubSeqProperties
  <2> HIDE DEF read
  <2>6. DOMAIN log = 1..Len(log) /\ \A p \in 1..at : p \in 1..Len(log)
    BY <2>1
  <2>7. /\ \A p \in Of(read, {"SlotAttested"}) : p \in Attestations(log) /\ read[p] = log[p]
        /\ \A p \in Commits(read) : p \in Commits(log) /\ p =< at /\ read[p] = log[p]
        /\ \A p \in Attestations(log) :
             p =< at => p \in Of(read, {"SlotAttested"}) /\ read[p] = log[p]
    BY <2>1, <2>5, <2>6 DEF Commits, Attestations, Of
  <2>8. /\ \A p \in Attestations(log) : log[p].slot \in Nat
        /\ \A v \in Verdicts(log) : log[v].from_slot \in Nat /\ log[v].to_slot \in Nat
    BY <2>1, EntryFields
  <2>9. ASSUME NEW k \in DOMAIN pending
        PROVE  pending[k] \in {s \in AttestedSlots(read) : s < proNext} \ JudgedSlots(log)
    <3>1. PICK p \in Attestations(log) : p =< at /\ log[p].slot = pending[k]
      BY <1>1 DEF SlotInv, QueueInv
    <3>2. pending[k] \in AttestedSlots(read)
      BY <2>7, <3>1 DEF AttestedSlots
    <3>3. \A v \in Verdicts(log) : log[v].to_slot < pending[k]
      BY <1>1 DEF SlotInv, QueueInv
    <3>4. \A v \in Verdicts(log) : pending[k] \notin Covers(log, v)
      BY <2>8, <3>1, <3>3 DEF Covers
    <3>5. QED
      BY <2>2, <3>2, <3>4 DEF JudgedSlots
  <2>10. ASSUME NEW s \in AttestedSlots(read), s < proNext, s \notin JudgedSlots(log)
         PROVE  \E k \in DOMAIN pending : pending[k] = s
    <3>1. PICK p \in Attestations(log) : log[p].slot = s
      BY <2>7 DEF AttestedSlots
    <3>2. Judged(s) \/ Queued(s)
      BY <1>1, <2>10, <3>1 DEF SlotInv, NextInv
    <3>3. ~ Judged(s)
      BY <2>10 DEF Judged, JudgedSlots
    <3>4. QED
      BY <3>2, <3>3 DEF Queued
  <2>11. {pending[k] : k \in DOMAIN pending}
           = {s \in AttestedSlots(read) : s < proNext} \ JudgedSlots(log)
    BY <2>9, <2>10
  <2>12. {s \in CommittedSlots(read) : s >= proNext} \subseteq awaiting
    BY <1>1, <2>7 DEF CommittedSlots, QuietProver
  <2>13. \A s \in awaiting : s >= proNext
    BY <1>1 DEF SlotInv, AwaitInv
  <2>14. QED
    BY <2>3, <2>4, <2>11, <2>12, <2>13 DEF read
<1>2. SlotInv /\ QuietAttester /\ QuietProver => QueueMirrorsTheLog
  BY <1>1 DEF QueueMirrorsTheLog
<1>3. QED
  BY <1>2, QuietHolds, PTL

-----------------------------------------------------------------------------
(* The life of a slot.                                                     *)

JudgedIn(entries, s) == \E p \in Verdicts(entries) : s \in Covers(entries, p)
ProvenIn(entries, s) ==
  \E p \in Verdicts(entries) : s \in Covers(entries, p) /\ entries[p].kind = "SlotsProven"
SlotIn(entries, kind, s) == \E p \in Of(entries, {kind}) : entries[p].slot = s

Stage == [s \in 0..MaxSlots-1 |-> StageIn(log, s)]

\* The stage of a slot is the furthest an entry says it got.
LEMMA StageBy ==
  ASSUME NEW entries, NEW s
  PROVE  StageIn(entries, s) =
           IF ProvenIn(entries, s) THEN "proven"
           ELSE IF JudgedIn(entries, s) THEN "unproven"
           ELSE IF SlotIn(entries, "AttestFailed", s) THEN "refused"
           ELSE IF SlotIn(entries, "SlotAttested", s) THEN "attested"
           ELSE IF SlotIn(entries, "SlotCommitted", s) THEN "committed"
           ELSE "open"
<1> DEFINE verdict == {p \in Verdicts(entries) : s \in Covers(entries, p)}
<1>1. (\E p \in verdict : entries[p].kind = "SlotsProven") <=> ProvenIn(entries, s)
  BY DEF ProvenIn
<1>2. verdict # {} <=> JudgedIn(entries, s)
  BY DEF JudgedIn
<1> HIDE DEF verdict
<1>3. StageIn(entries, s) =
        IF \E p \in verdict : entries[p].kind = "SlotsProven" THEN "proven"
        ELSE IF verdict # {} THEN "unproven"
        ELSE IF SlotIn(entries, "AttestFailed", s) THEN "refused"
        ELSE IF SlotIn(entries, "SlotAttested", s) THEN "attested"
        ELSE IF SlotIn(entries, "SlotCommitted", s) THEN "committed"
        ELSE "open"
  BY DEF StageIn, SlotIn, verdict
<1>4. QED
  BY <1>1, <1>2, <1>3

\* What an append adds to what the log says of a slot.
LEMMA SaysMore ==
  ASSUME TypeOK, NEW e \in SlotEntry, log' = Append(log, e), NEW s
  PROVE  /\ \A kind : SlotIn(log', kind, s)
                        <=> SlotIn(log, kind, s) \/ (e.kind = kind /\ e.slot = s)
         /\ JudgedIn(log', s)
              <=> \/ JudgedIn(log, s)
                  \/ e.kind \in {"SlotsProven", "ProveFailed"} /\ s \in e.from_slot..e.to_slot
         /\ ProvenIn(log', s)
              <=> \/ ProvenIn(log, s)
                  \/ e.kind = "SlotsProven" /\ s \in e.from_slot..e.to_slot
<1> DEFINE n == Len(log) + 1
<1>1. log \in Seq(SlotEntry)
  BY DEF TypeOK
<1>2. /\ log'[n] = e
      /\ \A p \in 1..Len(log) : log'[p] = log[p]
      /\ \A K : Of(log', K) = Of(log, K) \cup (IF e.kind \in K THEN {n} ELSE {})
  BY <1>1, Appended
<1>3. \A K : Of(log, K) \subseteq 1..Len(log)
  BY <1>1, EntryFields DEF Of
<1> HIDE DEF n
<1>4. ASSUME NEW kind
      PROVE  SlotIn(log', kind, s) <=> SlotIn(log, kind, s) \/ (e.kind = kind /\ e.slot = s)
  <2>1. Of(log', {kind}) = Of(log, {kind}) \cup (IF e.kind = kind THEN {n} ELSE {})
    BY <1>2
  <2>2. \A p \in Of(log, {kind}) : log'[p] = log[p]
    BY <1>2, <1>3
  <2>3. QED
    BY <1>2, <2>1, <2>2 DEF SlotIn
<1>5. /\ Verdicts(log') = Verdicts(log)
                            \cup (IF e.kind \in {"SlotsProven", "ProveFailed"} THEN {n} ELSE {})
      /\ \A p \in Verdicts(log) : log'[p] = log[p] /\ Covers(log', p) = Covers(log, p)
      /\ Covers(log', n) = e.from_slot..e.to_slot
  BY <1>2, <1>3 DEF Verdicts, Covers
<1>6. JudgedIn(log', s)
        <=> \/ JudgedIn(log, s)
            \/ e.kind \in {"SlotsProven", "ProveFailed"} /\ s \in e.from_slot..e.to_slot
  BY <1>5 DEF JudgedIn
<1>7. ProvenIn(log', s)
        <=> \/ ProvenIn(log, s)
            \/ e.kind = "SlotsProven" /\ s \in e.from_slot..e.to_slot
  BY <1>2, <1>5 DEF ProvenIn
<1>8. QED
  BY <1>4, <1>6, <1>7

\* The sequencer commits no more slots than the bound.
SlotsBounded == Cardinality(Commits(log)) =< MaxSlots

\* What each step appends, if anything.
LEMMA StepsAppend ==
  ASSUME SlotInv, [Next]_vars
  PROVE  \/ log' = log
         \/ CommitNext
         \/ AppendOther
         \/ A!Attests \/ A!Refuses
         \/ P!Proves \/ P!FailsToProve
<1>1. CASE Attest
  BY <1>1 DEF Attest, A!AttStep, A!RecoverAttester, A!ResumeAtHead, A!ReadBatch, A!Skip
<1>2. CASE Prove
  BY <1>2 DEF Prove, P!ProStep, P!RecoverProver, P!ResumeProverAtHead, P!CollectBatch,
       P!TakeCommit, P!TakeOldRuling, P!TakeAttested, P!TakeAttestFailed, P!TakeOther,
       P!Fail, P!FlushTimer, P!NextEntry
<1>3. CASE Crash
  BY <1>3 DEF Crash, A!CrashAttester, P!CrashProver
<1>4. QED
  BY <1>1, <1>2, <1>3 DEF Next, vars

\* The bound is kept.
LEMMA BoundKeeps ==
  ASSUME SlotInv, SlotsBounded, [Next]_vars
  PROVE  SlotsBounded'
<1>0. TypeOK
  BY DEF SlotInv
<1> DEFINE c == Cardinality(Commits(log))
<1>1. c \in Nat /\ IsFiniteSet(Commits(log)) /\ MaxSlots \in Nat
  BY <1>0, CommitCount, PipelineAssumption
<1>2. CASE log' = log
  BY <1>2 DEF SlotsBounded
<1>3. CASE CommitNext
  <2>1. PICK e \in SlotEntry : log' = Append(log, e) /\ e.kind = "SlotCommitted"
    BY <1>1, <1>3, EntriesMade DEF CommitNext
  <2>2. Commits(log') = Commits(log) \cup {Len(log) + 1} /\ Len(log) + 1 \notin Commits(log)
    <3>1. Commits(log) \subseteq 1..Len(log) /\ Len(log) \in Nat
      BY <1>0, EntryFields DEF TypeOK
    <3>2. QED
      BY <1>0, <2>1, <3>1, LogGrows
  <2>3. Cardinality(Commits(log')) = c + 1
    BY <1>1, <2>2, FS_AddElement
  <2>4. c < MaxSlots
    BY <1>3 DEF CommitNext
  <2>5. QED
    BY <1>1, <2>3, <2>4 DEF SlotsBounded
<1>4. ASSUME NEW e \in SlotEntry, log' = Append(log, e), e.kind # "SlotCommitted"
      PROVE  SlotsBounded'
  <2>1. Commits(log') = Commits(log)
    BY <1>0, <1>4, LogGrows
  <2>2. QED
    BY <2>1 DEF SlotsBounded
<1>5. CASE AppendOther
  BY <1>4, <1>5, EntriesMade DEF AppendOther
<1>6. CASE A!Attests \/ A!Refuses
  BY <1>4, <1>6, RulingAppends
<1>7. CASE P!Proves \/ P!FailsToProve
  BY <1>4, <1>7, VerdictAppends
<1>8. QED
  BY <1>2, <1>3, <1>5, <1>6, <1>7, StepsAppend

\* What the log says of a slot goes together.
LEMMA LifeFacts ==
  ASSUME SlotInv, NEW s
  PROVE  /\ SlotIn(log, "SlotCommitted", s) <=> s \in 0..Cardinality(Commits(log))-1
         /\ SlotIn(log, "SlotAttested", s) =>
              SlotIn(log, "SlotCommitted", s) /\ ~ SlotIn(log, "AttestFailed", s)
         /\ SlotIn(log, "AttestFailed", s) => SlotIn(log, "SlotCommitted", s)
         /\ Ruled(s) => SlotIn(log, "SlotCommitted", s)
         /\ JudgedIn(log, s) => SlotIn(log, "SlotAttested", s)
         /\ ProvenIn(log, s) => JudgedIn(log, s)
<1> USE DEF SlotInv
<1>1. log \in Seq(SlotEntry)
  BY DEF TypeOK
<1>2. SlotIn(log, "SlotCommitted", s) <=> s \in CommittedSlots(log)
  BY DEF SlotIn, CommittedSlots, Commits
<1>3. CommittedSlots(log) = 0..Cardinality(Commits(log))-1
  BY CommittedAreDense
<1>4. /\ SlotIn(log, "SlotAttested", s) => \E p \in Attestations(log) : log[p].slot = s
      /\ SlotIn(log, "AttestFailed", s) => \E p \in Refusals(log) : log[p].slot = s
  BY DEF SlotIn, Attestations, Refusals
<1>5. /\ \A p \in Attestations(log) : p \in Rulings(log)
      /\ \A p \in Refusals(log) : p \in Rulings(log)
      /\ Attestations(log) \cap Refusals(log) = {}
  BY <1>1, EntryFields
<1>6. Ruled(s) => s \in CommittedSlots(log)
  BY DEF Ruled, RulingInv, CommittedSlots
<1>7. ~ (SlotIn(log, "SlotAttested", s) /\ SlotIn(log, "AttestFailed", s))
  BY <1>4, <1>5, OneRulingOnASlot
<1>8. JudgedIn(log, s) => SlotIn(log, "SlotAttested", s)
  BY DEF JudgedIn, VerdictInv, SlotIn, Attestations
<1>9. ProvenIn(log, s) => JudgedIn(log, s)
  BY DEF ProvenIn, JudgedIn
<1>10. /\ SlotIn(log, "SlotAttested", s) => Ruled(s)
       /\ SlotIn(log, "AttestFailed", s) => Ruled(s)
  BY <1>4, <1>5 DEF Ruled
<1>11. QED
  BY <1>2, <1>3, <1>6, <1>7, <1>8, <1>9, <1>10

\* A commitment opens the life of the next slot.
LEMMA CommitsInTurn ==
  ASSUME SlotInv, CommitNext
  PROVE  \E s \in 0..MaxSlots-1 : Life!Commit(s)
<1>0. TypeOK
  BY DEF SlotInv
<1>1. PICK c \in Nat : c = Cardinality(Commits(log)) /\ c < MaxSlots
  BY <1>0, CommitCount DEF CommitNext
<1>2. c \in 0..MaxSlots-1 /\ MaxSlots \in Nat
  BY <1>1, PipelineAssumption
<1>3. PICK e \in SlotEntry : /\ log' = Append(log, e)
                             /\ e.kind = "SlotCommitted" /\ e.slot = c
  BY <1>1, EntriesMade DEF CommitNext
<1>4. \A s : SlotIn(log, "SlotCommitted", s) <=> s \in 0..c-1
  BY <1>1, LifeFacts
<1>5. Stage[c] = "open"
  <2>1. ~ SlotIn(log, "SlotCommitted", c)
    BY <1>1, <1>4
  <2>2. /\ ~ SlotIn(log, "SlotAttested", c) /\ ~ SlotIn(log, "AttestFailed", c)
        /\ ~ JudgedIn(log, c) /\ ~ ProvenIn(log, c)
    BY <2>1, LifeFacts
  <2>3. StageIn(log, c) = "open"
    BY <2>1, <2>2, StageBy
  <2>4. QED
    BY <1>2, <2>3 DEF Stage
<1>6. ASSUME NEW t \in 0..MaxSlots-1, t < c
      PROVE  Stage[t] # "open"
  <2>1. SlotIn(log, "SlotCommitted", t)
    BY <1>1, <1>2, <1>4, <1>6
  <2>2. StageIn(log, t) # "open"
    BY <2>1, StageBy
  <2>3. QED
    BY <2>2 DEF Stage
<1>7. ASSUME NEW s \in 0..MaxSlots-1
      PROVE  StageIn(log', s) = IF s = c THEN "committed" ELSE StageIn(log, s)
  <2>1. /\ JudgedIn(log', s) <=> JudgedIn(log, s)
        /\ ProvenIn(log', s) <=> ProvenIn(log, s)
        /\ SlotIn(log', "AttestFailed", s) <=> SlotIn(log, "AttestFailed", s)
        /\ SlotIn(log', "SlotAttested", s) <=> SlotIn(log, "SlotAttested", s)
        /\ SlotIn(log', "SlotCommitted", s) <=> SlotIn(log, "SlotCommitted", s) \/ s = c
    BY <1>0, <1>3, SaysMore
  <2>2. CASE s = c
    <3>1. ~ SlotIn(log, "SlotCommitted", c)
      BY <1>1, <1>4
    <3>2. /\ ~ SlotIn(log, "SlotAttested", c) /\ ~ SlotIn(log, "AttestFailed", c)
          /\ ~ JudgedIn(log, c) /\ ~ ProvenIn(log, c)
      BY <3>1, LifeFacts
    <3>3. QED
      BY <2>1, <2>2, <3>2, StageBy
  <2>3. CASE s # c
    BY <2>1, <2>3, StageBy
  <2>4. QED
    BY <2>2, <2>3
<1>8. Stage' = [Stage EXCEPT ![c] = "committed"]
  BY <1>7 DEF Stage
<1>9. QED
  BY <1>2, <1>5, <1>6, <1>8 DEF Life!Commit, Life!Below, Stage

\* A ruling is on a slot that was committed and nothing more.
LEMMA RulesOnCommitted ==
  ASSUME SlotInv, A!Attests \/ A!Refuses
  PROVE  Stage' = Stage \/ \E s \in 0..MaxSlots-1 : Life!Rule(s)
<1>0. TypeOK
  BY DEF SlotInv
<1>1. PICK e \in SlotEntry : /\ log' = Append(log, e)
                             /\ e.kind \in {"SlotAttested", "AttestFailed"}
                             /\ attCursor + 1 \in Commits(log)
                             /\ e.slot = log[attCursor + 1].slot
  BY RulingAppends
<1>2. PICK r : r = e.slot
  OBVIOUS
<1>3. SlotIn(log, "SlotCommitted", r)
  BY <1>1, <1>2 DEF SlotIn, Commits
\* The attester has not ruled on it.
<1>4. ~ Ruled(r)
  <2> SUFFICES ASSUME Ruled(r) PROVE FALSE
    OBVIOUS
  <2>1. PICK p \in Rulings(log) : log[p].slot = r
    BY DEF Ruled
  <2>2. attester = "working"
    BY DEF A!Attests, A!Refuses, A!Rule
  <2>3. PICK q \in Commits(log) : q =< attCursor /\ log[q].slot = r
    BY <2>1, <2>2 DEF SlotInv, AttesterInv
  <2>4. q \in Nat /\ attCursor \in Nat /\ log[q].slot \in Nat
    BY <1>0, <2>3, EntryFields DEF TypeOK
  <2>5. log[q].slot < log[attCursor + 1].slot
    BY <1>1, <2>3, <2>4 DEF SlotInv, CommitInv
  <2>6. QED
    BY <1>1, <1>2, <2>3, <2>4, <2>5
<1>5. /\ ~ SlotIn(log, "SlotAttested", r) /\ ~ SlotIn(log, "AttestFailed", r)
      /\ ~ JudgedIn(log, r) /\ ~ ProvenIn(log, r)
  <2>1. /\ SlotIn(log, "SlotAttested", r) => Ruled(r)
        /\ SlotIn(log, "AttestFailed", r) => Ruled(r)
    BY DEF SlotIn, Ruled, Rulings, Of
  <2>2. QED
    BY <1>4, <2>1, LifeFacts
<1>6. StageIn(log, r) = "committed"
  BY <1>3, <1>5, StageBy
<1>7. PICK ruling \in {"attested", "refused"} :
        ruling = IF e.kind = "SlotAttested" THEN "attested" ELSE "refused"
  OBVIOUS
<1>8. ASSUME NEW s \in 0..MaxSlots-1
      PROVE  StageIn(log', s) = IF s = r THEN ruling ELSE StageIn(log, s)
  <2>1. /\ JudgedIn(log', s) <=> JudgedIn(log, s)
        /\ ProvenIn(log', s) <=> ProvenIn(log, s)
        /\ SlotIn(log', "AttestFailed", s)
             <=> SlotIn(log, "AttestFailed", s) \/ (e.kind = "AttestFailed" /\ s = r)
        /\ SlotIn(log', "SlotAttested", s)
             <=> SlotIn(log, "SlotAttested", s) \/ (e.kind = "SlotAttested" /\ s = r)
        /\ SlotIn(log', "SlotCommitted", s) <=> SlotIn(log, "SlotCommitted", s)
    BY <1>0, <1>1, <1>2, SaysMore
  <2>2. CASE s = r
    BY <1>1, <1>5, <1>7, <2>1, <2>2, StageBy
  <2>3. CASE s # r
    BY <2>1, <2>3, StageBy
  <2>4. QED
    BY <2>2, <2>3
<1>9. CASE r \notin 0..MaxSlots-1
  <2>1. \A s \in 0..MaxSlots-1 : StageIn(log', s) = StageIn(log, s)
    BY <1>8, <1>9
  <2>2. QED
    BY <2>1 DEF Stage
<1>10. CASE r \in 0..MaxSlots-1
  <2>1. Stage[r] = "committed"
    BY <1>6, <1>10 DEF Stage
  <2>2. Stage' = [Stage EXCEPT ![r] = ruling]
    BY <1>8 DEF Stage
  <2>3. Life!Rule(r)
    BY <2>1, <2>2 DEF Life!Rule, Stage
  <2>4. QED
    BY <1>10, <2>3
<1>11. QED
  BY <1>9, <1>10

\* A verdict is on a run of attested slots, with none attested before it.
LEMMA JudgesAttested ==
  ASSUME SlotInv, SlotsBounded, P!Proves \/ P!FailsToProve
  PROVE  \E from, to \in 0..MaxSlots-1 : Life!Judge(from, to)
<1>0. TypeOK
  BY DEF SlotInv
<1>1. PICK e \in SlotEntry : /\ log' = Append(log, e)
                             /\ e.kind \in {"SlotsProven", "ProveFailed"}
                             /\ e.from_slot = pending[1] /\ e.to_slot = pending[Len(pending)]
  BY VerdictAppends
<1>2. flushing /\ prover \in {"waiting", "working"} /\ pending # <<>> /\ pending \in Seq(Nat)
  <2>1. flushing /\ prover \in {"waiting", "working"}
    BY DEF P!Proves, P!FailsToProve, P!Flush
  <2>2. QED
    BY <1>0, <2>1 DEF SlotInv, QueueInv, TypeOK
<1>3. PICK from, to : from = pending[1] /\ to = pending[Len(pending)]
  OBVIOUS
<1>4. PICK len \in Nat : len = Len(pending) /\ len >= 1 /\ DOMAIN pending = 1..len
  BY <1>2
<1>5. /\ from \in Nat /\ to \in Nat
      /\ \A k \in 1..len : pending[k] = from + k - 1 /\ pending[k] < proNext
      /\ len =< BatchSize /\ BatchSize \in Nat /\ proNext \in Nat
  <2>1. 1 \in 1..len /\ len \in 1..len
    BY <1>4
  <2>2. from \in Nat /\ to \in Nat
    BY <1>2, <1>3, <1>4, <2>1
  <2>3. \A k \in 1..len : pending[k] = from + k - 1 /\ pending[k] < proNext
    BY <1>2, <1>3, <1>4 DEF SlotInv, QueueInv
  <2>4. len =< BatchSize /\ BatchSize \in Nat /\ proNext \in Nat
    BY <1>0, <1>2, <1>4, PipelineAssumption DEF SlotInv, QueueInv, TypeOK
  <2>5. QED
    BY <2>2, <2>3, <2>4
<1>6. to = from + len - 1 /\ to < proNext /\ from =< to /\ to - from < BatchSize
  <2>1. len \in 1..len
    BY <1>4
  <2>2. to = from + len - 1 /\ to < proNext
    BY <1>3, <1>4, <1>5, <2>1
  <2>3. QED
    BY <1>4, <1>5, <2>2
<1>7. ASSUME NEW s \in from..to
      PROVE  \E k \in 1..len : pending[k] = s
  <2>1. s - from + 1 \in 1..len /\ from + (s - from + 1) - 1 = s
    BY <1>4, <1>5, <1>6
  <2>2. QED
    BY <1>5, <2>1
\* Each slot of the queue is attested and not judged.
<1>8. ASSUME NEW s \in from..to
      PROVE  /\ SlotIn(log, "SlotAttested", s) /\ ~ SlotIn(log, "AttestFailed", s)
             /\ ~ JudgedIn(log, s) /\ ~ ProvenIn(log, s)
             /\ s \in 0..MaxSlots-1
  <2>1. PICK k \in 1..len : pending[k] = s
    BY <1>7
  <2>2. PICK p \in Attestations(log) : log[p].slot = s
    BY <1>2, <1>4, <2>1 DEF SlotInv, QueueInv
  <2>3. SlotIn(log, "SlotAttested", s)
    BY <2>2 DEF SlotIn, Attestations
  <2>4. \A v \in Verdicts(log) : log[v].to_slot < s
    BY <1>2, <1>4, <2>1 DEF SlotInv, QueueInv
  <2>5. ~ JudgedIn(log, s)
    <3>1. /\ s \in Nat
          /\ \A v \in Verdicts(log) : log[v].from_slot \in Nat /\ log[v].to_slot \in Nat
      BY <1>0, <1>5, EntryFields DEF TypeOK
    <3>2. QED
      BY <2>4, <3>1 DEF JudgedIn, Covers
  <2>6. s \in 0..Cardinality(Commits(log))-1
    BY <2>3, LifeFacts
  <2>7. s \in 0..MaxSlots-1
    BY <1>0, <2>6, CommitCount, PipelineAssumption DEF SlotsBounded
  <2>8. QED
    BY <2>3, <2>5, <2>7, LifeFacts
<1>9. from \in 0..MaxSlots-1 /\ to \in 0..MaxSlots-1 /\ from \in from..to
  BY <1>5, <1>6, <1>8
<1>10. \A s \in from..to : Stage[s] = "attested"
  <2>1. ASSUME NEW s \in from..to
        PROVE  StageIn(log, s) = "attested"
    BY <1>8, StageBy
  <2>2. QED
    BY <1>8, <2>1 DEF Stage
<1>11. ASSUME NEW t \in 0..MaxSlots-1, t < from
       PROVE  Stage[t] # "attested"
  <2> SUFFICES ASSUME Stage[t] = "attested" PROVE FALSE
    OBVIOUS
  <2>1. StageIn(log, t) = "attested"
    BY DEF Stage
  <2>2. SlotIn(log, "SlotAttested", t) /\ ~ JudgedIn(log, t)
    BY <2>1, StageBy
  <2>3. PICK p \in Attestations(log) : log[p].slot = t
    BY <2>2 DEF SlotIn, Attestations
  <2>4. t < proNext
    BY <1>5, <1>6, <1>11
  <2>5. Judged(t) \/ Queued(t)
    BY <1>2, <2>3, <2>4 DEF SlotInv, NextInv
  <2>6. ~ Judged(t)
    BY <2>2 DEF Judged, JudgedIn
  <2>7. PICK k \in 1..len : pending[k] = t
    BY <1>4, <2>5, <2>6 DEF Queued
  <2>8. QED
    BY <1>5, <1>11, <2>7
<1>12. PICK verdict \in {"proven", "unproven"} :
         verdict = IF e.kind = "SlotsProven" THEN "proven" ELSE "unproven"
  OBVIOUS
<1>13. ASSUME NEW s \in 0..MaxSlots-1
       PROVE  StageIn(log', s) = IF s \in from..to THEN verdict ELSE StageIn(log, s)
  <2>1. /\ JudgedIn(log', s) <=> JudgedIn(log, s) \/ s \in from..to
        /\ ProvenIn(log', s) <=> ProvenIn(log, s) \/ (e.kind = "SlotsProven" /\ s \in from..to)
        /\ SlotIn(log', "AttestFailed", s) <=> SlotIn(log, "AttestFailed", s)
        /\ SlotIn(log', "SlotAttested", s) <=> SlotIn(log, "SlotAttested", s)
        /\ SlotIn(log', "SlotCommitted", s) <=> SlotIn(log, "SlotCommitted", s)
    BY <1>0, <1>1, <1>3, SaysMore
  <2>2. CASE s \in from..to
    BY <1>8, <1>12, <2>1, <2>2, StageBy
  <2>3. CASE s \notin from..to
    BY <2>1, <2>3, StageBy
  <2>4. QED
    BY <2>2, <2>3
<1>14. Stage' = [s \in 0..MaxSlots-1 |-> IF s \in from..to THEN verdict ELSE Stage[s]]
  BY <1>13 DEF Stage
<1>15. Life!Judge(from, to)
  BY <1>6, <1>10, <1>11, <1>14 DEF Life!Judge, Life!Below, Stage
<1>16. QED
  BY <1>9, <1>15

\* The pipeline implements the life of a slot: through every crash and restart
\* of either stage, and whatever comes between a recovery's reads, an entry
\* takes a slot one stage on, in turn, and never back (log.rs:55-81,
\* projection.rs:11-19, 144-147).
THEOREM ImplementsSlotLife == Spec => LifeImplemented
<1>1. Init => Life!Init
  <2> SUFFICES ASSUME Init PROVE Life!Init
    OBVIOUS
  <2>1. log = <<>>
    BY DEF Init
  <2>2. \A K : Of(log, K) = {}
    BY <2>1 DEF Of
  <2>3. \A s : StageIn(log, s) = "open"
    BY <2>2, StageBy DEF ProvenIn, JudgedIn, SlotIn, Verdicts
  <2>4. QED
    BY <2>3 DEF Life!Init
<1>2. ASSUME SlotInv, SlotsBounded, [Next]_vars
      PROVE  [Life!Next]_Stage
  <2>1. CASE log' = log
    BY <2>1 DEF Stage
  <2>2. CASE CommitNext
    BY <1>2, <2>2, CommitsInTurn DEF Life!Next
  <2>3. CASE AppendOther
    <3>1. TypeOK
      BY <1>2 DEF SlotInv
    <3>2. PICK e \in SlotEntry : log' = Append(log, e) /\ e.kind = "Other"
      BY <2>3, EntriesMade DEF AppendOther
    <3>3. ASSUME NEW s
          PROVE  StageIn(log', s) = StageIn(log, s)
      <4>1. /\ JudgedIn(log', s) <=> JudgedIn(log, s)
            /\ ProvenIn(log', s) <=> ProvenIn(log, s)
            /\ SlotIn(log', "AttestFailed", s) <=> SlotIn(log, "AttestFailed", s)
            /\ SlotIn(log', "SlotAttested", s) <=> SlotIn(log, "SlotAttested", s)
            /\ SlotIn(log', "SlotCommitted", s) <=> SlotIn(log, "SlotCommitted", s)
        BY <3>1, <3>2, SaysMore
      <4>2. QED
        BY <4>1, StageBy
    <3>4. QED
      BY <3>3 DEF Stage
  <2>4. CASE A!Attests \/ A!Refuses
    BY <1>2, <2>4, RulesOnCommitted DEF Life!Next
  <2>5. CASE P!Proves \/ P!FailsToProve
    BY <1>2, <2>5, JudgesAttested DEF Life!Next
  <2>6. \/ log' = log \/ CommitNext \/ AppendOther
        \/ A!Attests \/ A!Refuses \/ P!Proves \/ P!FailsToProve
    BY <1>2, StepsAppend
  <2>7. QED
    BY <2>1, <2>2, <2>3, <2>4, <2>5, <2>6
<1>3. Init => SlotsBounded
  <2> SUFFICES ASSUME Init PROVE SlotsBounded
    OBVIOUS
  <2>1. Commits(log) = {}
    BY DEF Init, Commits, Of
  <2>2. QED
    BY <2>1, FS_EmptySet, PipelineAssumption DEF SlotsBounded
<1>4. SlotInv /\ SlotsBounded /\ [Next]_vars => SlotsBounded'
  BY BoundKeeps
<1>5. SlotInv /\ SlotsBounded /\ [Next]_vars
        => [Life!Next]_[s \in 0..MaxSlots-1 |-> StageIn(log, s)]
  BY <1>2 DEF Stage
<1>6. QED
  BY <1>1, <1>3, <1>4, <1>5, InvariantHolds, PTL DEF Spec, LifeImplemented, Life!Spec
=============================================================================
