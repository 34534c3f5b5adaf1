# A verification of the zequencer pipeline

zequencer is a single-process intent sequencer in Rust. Clients post signed
intents over HTTP; a gate admits them into a shared append-only log; a sequencer
batches them into slots, an attester (a mock TEE) rules on each slot, a prover
proves batches of attested slots, and a projector folds the log into the read
model behind the API. Every stage is a task of its own that follows the log
with a cursor, sleeps on a doorbell, and rebuilds its position from the log when
it starts. This directory models that pipeline in TLA+, checks it with TLC on
small instances and proves part of it with TLAPS for all instances.

Paths below are relative to the repository (`sequencer.rs` is
`src/sequencer.rs` there).

## 1. Inventory

| part | state | operations | what makes it correct |
|---|---|---|---|
| intent (`intent.rs`) | none | `id` (keccak over every field), `parse` | equal ids only for equal intents, which two market names written one after the other would break |
| log, in memory (`log.rs:107-189`) | `entries` behind an RwLock, `doorbell` (a tokio watch) | `append`, `append_batch`, `read_from`, `head`, `subscribe` | append-only; push and ring are two steps, yet no reader sleeps on unread entries |
| log, durable (`log.rs:191-322`) | a redb table, an append mutex, an atomic `head`, `doorbell` | the same, plus `open` | what append returned survives; head, rows and bell agree after a crash; main does not use it yet |
| gate (`admission.rs`, `api.rs:68-78`) | `seen` ids, highest `nonces`, behind one mutex | `check`, `record`, `recover`, `admit_and_append` | no id twice, nonces per submitter strictly increase, over races, failed appends and restarts |
| sequencer (`sequencer.rs`) | `buffer`, `cursor`, `next_slot`, two timers in a `select!` | `recover`, drain, close a slot (`partition_expired`, `order_slot`) | the inclusion promise, no duplicate inclusion, dropped xor committed, dense slots, deterministic order |
| attester (`attest.rs`) | `cursor`, the batch it is working through | `recover_attester`, `run` | one ruling per committed slot, in order |
| prover (`prove/mod.rs`) | `cursor`, `next_slot`, `awaiting`, `pending`, flush timer | `recover_prover`, `run`, `flush` | every verdict covers a contiguous run of attested slots, once each; strictly behind the attester |
| enclave and its verifier, proof backend and its verifier (`attest.rs:9-175, 276-352`, `prove/mod.rs:28-103, 254-352`) | none (mocks) | `attest`, `verify_preconf`, `prove`, `verify` | a preconf or a proof verifies only for the contents it was made for |
| projector (`projection.rs`) | `intents`, `slots`, `cursor` behind an RwLock | `apply`, `status_of`, `receipt_of`, `run_projector` | the status is what the log says, and only moves forward |
| API (`api.rs`) | none of its own | `submit`, `status`, `receipt`, `miss` | an acknowledged intent is never "not found" |
| wiring (`main.rs`) | the tasks | spawn, recover the gate, `select!` over all tasks | one dead stage takes the process down |

How they interact: every arrow of the pipeline goes through the log. The gate's
mutex orders submissions; the log's lock orders appends; the doorbell carries
"there is more", never data. Two tasks share memory only in the projector/API
pair (an RwLock) and in the gate.

What is hard here: clients racing for a nonce while a restart rebuilds the
gate; a clock sampled before a lock is taken; a sequencer that crashes between
recording a miss and committing the slot; a stage that recovers with two reads
of a log that grows in between; bells that coalesce; batches that must not span
a failed slot. PROJECT.json lists each of these with its line and the property
that covers it.

## 2. Modules

    Policy ──── OrderSlot ──── MCOrderSlot
       │
    LogEntries ── Sequencing ── SequencingRefinement ── MCSequencing
                      │                 │
                      │            InclusionPromise (abstract)
                      └── HttpApi ── MCHttpApi
                             │
    ReadModel ───────────────┤
       │                     │
    SlotEntries ── Projection│
       │                     │
       ├── Attester, Prover ── SlotPipeline ── SlotLife (abstract)
       │
       └── Pipeline ── MCPipeline
              │
    IntentIdentity ── Evidence

    Doorbell            DurableLog ── SharedLog (abstract)

The proofs stand beside them, each in a module that extends what it is about:

    Greatest ─┬─ DurableLogProofs
              ├─ SlotPipelineProofs
              └─ SequencingProofs (HttpApi, SequencingRefinement, OrderSlot)
                    │
    ReadModelProofs ┼─ ProjectionProofs
                    └─ EvidenceProofs (Pipeline, Evidence, IntentIdentity)
    DoorbellProofs

- **Policy** says, as a predicate, which order the ordering policy
  (`sequencer.rs:38-64, 101-136`) demands. **OrderSlot** is the loop that
  computes it (`order_slot`, `order_domain`), over a buffer that is filled in
  every order. Queues hold places of the buffer where the code moves the
  `Pending` itself; the turns of the loop and the markets are recursive
  functions, so that the loop can be proved about.
- **Sequencing** is the gate and the sequencer on either side of the log, with
  the wall clock, crashes and restarts. State: `seen`, `nonces`, `lock`
  (Admission and its mutex), `request` (one submission per client in flight),
  `buffer`, `cursor`, `nextSlot` (Sequencer), `closedAt`, `live`, `misses` (the
  locals of the slot-close branch), `log`, `clock`. Actions are named after the
  code: `Arrive` (the handler samples the clock, `api.rs:73`), `Reject`,
  `AppendFails`, `Admit` and `Record` (`admit_and_append`), `RecoverGate`,
  `RecoverSequencer`, `Drain` (doorbell branch), `CloseSlot`, `RecordMiss`,
  `CommitSlot` (boundary branch), `Tick`, `Crash`. `Checks` is the list of the
  gate's seven checks in the code's order.
- **InclusionPromise** is what a client is promised: received once, then in one
  slot or dropped, never both, never undone. **SequencingRefinement** reads both
  off the log and states that Sequencing implements it.
- **Doorbell** is the wake-up protocol between any appender and any reader of
  the log in memory.
- **DurableLog** is `RedbLog` step by step: mutex, position, transaction,
  `head.store`, bell, answer; readers that take snapshots without the mutex; a
  transaction that fails, a commit that failed and is in the file all the same
  at the next `open`, rows that cannot be read or were written by another
  build, and an `open` that fails to open the table and takes the log for a new
  one (`log.rs:221`; `blind` in the model). It implements **SharedLog**: an
  append puts a batch at the end, and what anybody was told of a position stays
  so, where only a blind process, finding 3, overwrites. Every other module's
  `log` is such a log without blind processes; the one `main` runs on is in
  memory, where there is no table to open.
- **Attester** and **Prover** are the two stages; **SlotPipeline** composes
  them on one log, with a sequencer reduced to committing slots in sequence
  (what `SlotsAreDense` shows of the real one) and each stage crashing on its
  own. The code ends the whole process when a task dies (`main.rs:100-118`); a
  crash of both is two crashes here, so single crashes only add behaviours.
- **SlotLife** is what the two stages promise of a slot: committed in its turn,
  ruled on once, judged once with its neighbours, after every attested slot
  below it. SlotPipeline implements it, reading the stage off the log
  (`StageIn`), with the recovery of the code.
- **ReadModel** is the read model as data: `apply`, entry by entry,
  `lifecycle` with the reason of a failure, `status_of` and `receipt_of`, every
  field of a receipt (`receipt.rs`) but `max_slots`. **Projection** adds the task that feeds it
  (`Wake`, `ReadTail`, `SkipRead`, `Apply`: `projection.rs:285-296`), restarts,
  and a client that polls (`Look` under the read guard, then `Miss` with
  `head()`). The rest of the pipeline is any writer that keeps to
  InclusionPromise and SlotLife.
- **HttpApi** composes Sequencing's gate with the read model into what a client
  sees: each submission answered with its code, reason and position (`Accept`,
  `Refuse`, `FailToLog`), each lookup answered from the model or as a miss
  (`Look`, `Miss`, `AskBadly`), while two clients race and the projector lags.
  The projector's fold waits for the guards that lookups hold (`looking`).
- **IntentIdentity** is `Intent::id` and the encoding it hashes, string by
  string, since where one string ends and the next begins is the point.
  **Evidence** is what the mock enclave and the mock backend produce and what
  `verify_preconf` and `verify` answer, one error per check, in order. Keccak is
  a constructor: two inputs never collide.
- **Pipeline** is the whole process with evidence on real values: intents that
  differ only in where a market's base ends, commitments of their ids, quotes,
  signatures, proofs, injected failures (`FAIL_SLOTS`), restarts, and the read
  model at the end. Each stage is one action there, what it appends to the log.
  This is sound for what the module asks, because SlotPipeline shows that what
  the attester and prover append steps like that (`LifeImplemented`), Sequencing
  that slots are dense and drops and commitments exclude each other, and
  Projection that the model does not depend on how entries were batched. The
  schedules of findings 1 and 2 are the exception and are not in it.

A log is a sequence whose k-th element is the entry at `Position(k - 1)`, so a
cursor (the next position to read) is the number of entries read and `head()`
is its length. Position lists that the code keeps (`buffer`, `live`, `misses`)
are sets of log indices, since arrival order is log order.

What is abstracted: in the modules other than Evidence and Pipeline, hashes,
quotes, signatures, proofs and reasons are left out or are a `Stamp` that tells
which entry they came from (no stage branches on them); addresses and ids are
integers, of which only equality and order are used. The commitment check in
the attester is one of the ways a slot is refused in SlotPipeline; in Pipeline
it is computed. An append that fails ends the sequencer, attester or prover
with an error, which is `Crash`; in the gate it is `AppendFails`.

Definitions headed *Mutant of* are faulty variants of the one that follows.
Substituting one for the definition it varies must break a property of the
table below (PROJECT.json says which); no specification uses them.

## 3. Runs

The runs spend their properties on the hazards; Sequencing's `TypeOK`, which the
proofs rest on, and SlotPipeline's are the type invariants among them.

| run | instance | what it shows |
|---|---|---|
| `ordering` | buffers of up to 4 of 9 intents, 3 submitters, 2 markets | the merge loop computes the one order the declared policy allows, nonce order within a market being its first rule; a slot depends on the buffered set and not on its order; markets do not affect each other |
| `http` | 2 concurrent clients, 6 intents of one submitter: 2 for one nonce, 1 for the next, 1 each with too much slippage, no size and no market; window 2, clock 0..3, 1 crash | through races, failed appends and a restart: the tables equal the log whenever the lock is free; no replay and no stale nonce is let in; the position a 200 carries from the append is where the intent is; each of the seven refusals gives a reason that is true; no lookup takes back what a 200 or an earlier lookup said |
| `sequencing` | 3 intents, window 1, clock 0..2, 1 crash, fair | the inclusion promise and the log's consistency (seven invariants); refinement of InclusionPromise; every admitted intent is sequenced or dropped |
| `doorbell` | 2 appenders, 2 readers of which 1 skips failed reads, batches of up to 2, 3 entries, fair | no lost wake-up; every entry is read by every reader that stays up and skips nothing |
| `slots` | 3 slots, batches of 2, 2 crashes, recovery as in the code | one ruling per slot, verdicts cover attested slots once; refinement of SlotLife: in turn, none skipped, batches bounded |
| `slots_quiet` | 2 slots, batches of 2, 1 other entry, 2 crashes, recovery undisturbed, fair | rulings leave no slot out, the prover's queue mirrors the log, the prover never fails; every slot committed is refused, or attested and judged |
| `durable_log` | 2 writers, 2 readers of which 1 skips failed reads, batches of up to 2, 3 rows of which up to 1 of another build, 1 crash, 1 fault (a commit, a read, a row or the opening of the table), fair | `RedbLog` implements SharedLog, so that what anyone was told stays so unless a blind process writes over it; the head never leads, and agrees with the rows between appends unless the open was blind; nothing is passed over but rows that failed to read and rows written over; every row reaches every reader that stays up |
| `read_model` | 2 intents, 2 slots, logs of up to 6 entries, 1 failed read or restart, a client polling 1 intent | folded in any batches, status, reason and every field of a receipt but `max_slots` are what a direct reading of the log says, asked at the last instant of the inclusion window and the one after (`pending`, `overdue`); the client is never told "not found" of an intent the log had when it asked, and never shown an earlier status |
| `pipeline` | 3 intents (2 that differ only in where base ends, 1 that follows), batches of 2, nothing injected or slot 0 and range 2-3 failing, 1 restart, fair | the status under an id is that intent's; a receipt's evidence verifies; evidence mixed from two slots is refused by the right check; a proof verifies for its slots and no others; only injected failures occur; every intent comes to rest where it should |
| `attester_skips_a_slot` | 3 slots, 1 crash, recovery as in the code | **violation**, finding 1 |
| `prover_misses_a_commit` | the same | **violation**, finding 2 |
| `blind_open_overwrites` | as `durable_log` | **violation**, finding 3 |

**Bounds.** A window of 1 and a clock of 0..2 has an intent meet its window, miss
it, and meet it at its last instant. One crash puts a restart after every
prefix of every step; two in the slot runs let a stage fail while another recovers.
Three intents give a same-submitter pair and a rival; three slots with batches
of two give a full batch, a partial one, and a batch cut by a failed slot.
`MaxIdleSlots` only limits slots that nothing is waiting for when they close;
at 0 in `sequencing` slots still close empty, when all that waits has missed
its window. The third entry of `Doorbell` lets a batch and a single append
overlap while a reader is between bell and read. The SlotPipeline runs, `http`, `durable_log` and `pipeline` switch deadlock
checking off, because a bounded number of slots, submissions or rows ends; in
the others the system never stops. Six entries let one intent go all the way to
a proof while the other is dropped or shares its slot, and a batch fail that
covers two slots. In `http` the window of 2 within a clock of 3 makes every
refusal happen that depends on the clock or on what was admitted,
`unmeetable_window` and `expired` at their boundaries, and the three that
depend on the intent alone have an intent each. In `durable_log` three rows hold a batch of two and a single append
in either order behind a row of another build, and one crash and one fault
meet at every step of either, so that a blind process writes over a batch in
part or whole. In `pipeline` three intents and one idle slot
make batches of one and two, a batch that meets a range at its first or last
slot, and slots with the same contents, or none. No run distinguishes ids by
more than equality except where order is by id (Policy).

**Fairness.** `FairSpec` of Sequencing has weak fairness of the sequencer's own
steps (the runtime polls the task, the interval timer fires) and strong
fairness of `Drain`: `tokio::select!` picks among ready branches at random, and a
doorbell that has rung stays ready until it is seen, so it is taken in the end
though slot closes disable it again and again. The gate has no fairness: no
client need submit. Doorbell: an appender that pushed goes on to ring, since no
await lies between; readers that can step do. Nothing makes anyone append.
SlotPipeline: the two stages and the sequencer step when they can; the enclave
and the proof backend answer. DurableLog: an append that holds the mutex goes
through, as it has no await; readers are polled; nothing makes anyone append,
nor a crashed process start. Pipeline: the slot timer and the flush timer keep
firing and every task is polled; nothing makes anyone submit, drop or crash.

**Findings.**

1. `recover_attester` reads the log twice: a pass that finds no commitment after
   the newest ruling, then `head()` (`attest.rs:267-273`, "nothing newer
   committed yet"). A slot committed between the two lies before the cursor and
   is never ruled on; the attester goes on with the one after. The test at
   `attest.rs:996` says "slots committed before the attester started must still
   be attested, in order".
2. `recover_prover` does the same (`prove/mod.rs:247-250`). When slot 0 is
   committed between its two reads, on a first start on an empty log already,
   the prover meets the attestation of a slot whose commitment it passed over
   and ends with "slot {slot} was attested but never committed"
   (`prove/mod.rs:111`), of a slot the log has committed.
3. `RedbLog::open` is to "Recover head from the table's last key"
   (`log.rs:210`), and takes any error of `open_table` for "table doesn't exist
   yet" (`log.rs:221`), a storage or type error over rows that are there
   included. The head is then 0, the next append writes over row 0 and on, and
   a position that an append has answered for holds another entry
   (`WhatWasToldStays`). `read_from` tells the missing table from the other
   errors and says "`open` treats it the same way" (`log.rs:281-285`).

Finding 1 has a sequel within the prover: with a slot left out, its next start
meets the ruling of a later one and ends with `SlotGap` (`SlotPipeline`'s
`ProverNeverFails` holds with `QuietRecovery` only).

One comment is out of date, with no run of its own because the code is what the
properties state. `receipt.rs:71` says of a receipt's `intent_deadline_ms`: "The
client's own expiry, echoed back. Not yet enforced." The gate does enforce it:
it refuses an intent whose expiry is past or falls within the inclusion window
(`admission.rs:64-78`), and since a slot takes an intent within its window only,
none is committed after its expiry either. `PromiseKept` says so of every
commitment, so it contradicts the comment, and `RefusalsAreTrue` is about
submissions refused for their expiry alone.

Three things the models show that are no divergence from what the code says of
itself, and that a reader may want to know:

- The comment on rule 1 of the policy (`sequencer.rs:39-40`) can be read as if a
  submitter's intents were never reordered at all. A slot lays markets out one
  after the other, so they can be across markets; README.md lines 152-153
  limit the rule to a market, which is how Policy states it (`QueuedBefore`).
- Rows that redb fails to read are dropped without a word (`log.rs:291`), and
  the cursor passes them. `NothingIsPassedOver` holds with exactly this
  exception and finding 3's.
- A receipt can say `overdue` of an intent whose slot is committed, while the
  projector lags; and a miss recorded again after a crash moves
  `expired_at_ms`. A receipt leaves a proof's public inputs out, so its holder
  derives the statement from the slots, which is also what `verify` wants.

`QuietRecovery = TRUE` removes exactly the schedules of findings 1 and 2 and
nothing else. What holds without that restriction is checked without it (`slots`).

## 4. Proofs

The theorems are about the same specifications the runs check, for every value
of the constants: any set of intents and any numbers of clients, readers,
writers, slots, rows, ticks, faults and crashes, any window and batch size.
They assume what the modules declare and no more: `IntentsAssumption` (an id
determines its intent, which is what `IdNamesOneIntent` shows of the code),
that bounds are numbers and sizes positive, that no client or writer is named
"nobody" (`SequencingAssumption`, `DurableLogAssumption`,
`DoorbellAssumption`, `PipelineAssumption`, `ProjectionAssumption`,
`WiringAssumption`), that `None` is none of the values it is told from, as
Rust's type says of an Option (`NoneAssumption`), and that what a buffer may
hold are `Pending` records with numbers to compare (`CandidatesAssumption`). Three theorems
on SlotPipeline have `QuietRecovery` as a hypothesis, since findings 1 and 2
refute them without it. Those on evidence rest on Keccak256 being a constructor.

| theorem | says | along which argument |
|---|---|---|
| **SequencingProofs** | | |
| `TypeCorrect` | `[]TypeOK`: what the sequencer holds are admissions the log has, its cursor is never past the head | inductive as it stands, given that an append keeps every index and that recovery's `CHOOSE` has a witness |
| `GateCorrect` | `[](GateKnowsTheLog /\ NoncesAdvance)` | `GateInv` |
| `GateKnows`, `NoReplay` | the two parts by themselves | from `GateCorrect` |
| `PromiseCorrect` | `[](PromiseKept /\ NoDuplicateInclusion /\ NeverDroppedAndCommitted /\ NothingForgotten)` | `PromiseInv`, on top of `GateCorrect` |
| `IncludedOnce`, `DroppedXorCommitted`, `CursorForgetsNothing` | three of its parts by themselves | from `PromiseCorrect` |
| `DenseSlots` | `[]SlotsAreDense` | `SlotsInv`: a live sequencer's next number is the count of slots in the log |
| `NonceOrder` | `[]CommittedInNonceOrder` | `SlotsInv` and the policy's first rule |
| `SlotIsDetermined` | whenever a slot closes, the policy allows exactly one order of what is held | `OrderExists` (a smallest set without an order would, less the intent it pops, have one) and `OneOrder` (at the first difference two intents would pop from the same queues); ids and nonces are told apart by `NoncesAdvance` |
| `SlotIsOfTheSet` | the same intents, arrived in another order, have the same policy order | renumbering carries one order to the other, and `OneOrder` |
| `MarketsApart` | the order of two intents of a market does not depend on other markets | what pops of all queues pops of its market's (`PopsOfItsMarket`), place by place |
| `LoopOrders` | on any buffer whose ids, and whose nonces per submitter, are told apart, what the loop returns is all of it in policy order | a turn pops what `PopsNext` (`WinnerPops`), and a market's loop stays within its market (`DomainsInOrder`) |
| `LoopIsPolicy` | `[]LoopFollowsPolicy` | `LoopOrders`, `OneOrder`, and `OrderInv` |
| `LoopIsOfTheSet` | `[]SlotIsAFunctionOfTheSet`, of the loop | `LoopOrders` for both buffers, and `SlotIsOfTheSet` |
| `LoopKeepsMarketsApart` | `[]MarketsDoNotCompete`, of the loop | `LoopOrders` with and without the other markets, and `MarketsApart` |
| `ImplementsPromise` | Sequencing implements InclusionPromise | each action is a step of it or a stutter, from `PromiseInv` and `SlotsInv` |
| `GateKnowsUnderApi` | the gate's theorem again under `ApiSpec` | a step of the API is one of Sequencing or appends a miss (`GateSteps`) |
| `AcknowledgedForGood` | `[]AcknowledgedIsInTheLog`, of the position taken at the append and carried to the answer | `AnswersInv` |
| `RefusedForCause` | `[]RefusalsAreTrue`, for all seven refusals | `AnswersInv` and `GateCorrect`: the tables a refusal quotes are the log's |
| `LookupsAgree` | `[]AnswersHold`: what lookups say to what submissions said | `LookupsInv`, on top of `AnswersInv` |
| **SlotPipelineProofs** | | |
| `StagesAreWellTyped`, `RuledOnOnce`, `JudgedOnce` | `TypeOK`, `OneRulingPerSlot`, `VerdictsCoverAttestedOnce`, recovery as in the code | `SlotInv` |
| `ImplementsSlotLife` | SlotPipeline implements SlotLife, recovery as in the code | `SlotInv` and the bound on slots |
| `RuledInSequence`, `QueueIsOfTheLog`, `ProverKeepsOn` | `RulingsInOrder`, `QueueMirrorsTheLog`, `ProverNeverFails`, with `QuietRecovery` | `QuietAttester` and `QuietProver` on top of `SlotInv` |
| **ProjectionProofs** | | |
| `FoldedFaithfully` | `[]ReadModelIsTheLog`: every lifecycle, reason and field of a receipt but `max_slots` | `ProjectionInv`, and the receipt read off rows that are the log's |
| `NeverFalselyUnknown` | `[]NotFoundIsTrue` | `ProjectionInv`: a miss of an intent the log has is one of a model that lags, for as long as the guard is held |
| `OnlyForward` | `AnswersMoveForward` | `ShownInv`: what was shown is what a prefix of the log says, and a longer one says the same or what follows |
| **DoorbellProofs** | | |
| `WakeupsAreKept` | `[]NoLostWakeup` | with `DoorbellType`: no cursor is ahead of the log |
| **DurableLogProofs** | | |
| `HeadIsRight`, `NoReaderSkips` | `HeadFollowsTheRows`, `NothingIsPassedOver`, blind opens included | `DurableInv` |
| `ImplementsSharedLog` | DurableLog implements SharedLog, blind processes included, which are the only ones that overwrite | `DurableInv`: the table grows only at its end unless the process is blind, and what is told lies within it |
| **EvidenceProofs** | | |
| `IdNamesOneIntent` | intents with one id agree in every field, names of any length | the encoding determines its parts: lengths come before the names they are of (`LengthOfBase`, `SplitAlike`) |
| `CommitmentBinds` | a commitment names one slot and one list of intents | the length comes first, and the ids follow it one to one |
| `PreconfBinds` | preconfs that verify and share a quote or a signature are of one slot and one list | an accepted claim's commitment is its contents', and the signature is over it (`AcceptedPreconf`) |
| `ProofBinds` | a handle verifies for one run of slots | the statement is the commitments in order, and each of them binds |
| `OnlyInjected` | `[]FailuresAreInjected` | `PipelineInv` |
| `ProofsOwn` | `[]ProofsAreOfTheirSlots` | `PipelineInv` and `ProofBinds`' lemmas: dense slots make a range's statement its own |
| `MixedRefused` | `[]MixedEvidenceIsRejected` | `PipelineInv`: two slots of one log differ in number, so in commitment, quote and signature |
| `StatusOwn` | `[]StatusIsOfTheIntent` | `PipelineInv`: the row leads to the admission it was made from, and `IdNamesOneIntent` |
| `EvidenceGenuine` | `[]EvidenceVerifies` | `PipelineInv`: the rows lead to the entries of one slot (`SlotEvidence`, `PlaceOfIntent`), which hold what the slot's commitment calls for |

**Greatest** states once what a `CHOOSE` of the greatest member returns, for
the last row, the newest slot ruled on and the highest nonce.

The inductive invariants, and why the properties do not stand alone:

`GateInv`: `GateKnowsTheLog` says nothing while the lock is taken. It adds that
between append and record the tables are behind the log by exactly the holder's
entry, and that only the lock's holder is in that window. That is what makes
`Record` restore the match, and what makes the check of the next admission a
check against the log.

`PromiseInv` has five parts. `HandInv` says what the sequencer holds: nothing at
or below the last slot's cursor, nothing above its own, `live` and `misses` told
apart by the clock sampled at the close. `KeptInv` ties every commitment and
every drop in the log to one admission and to the instant that justified it.
`Once`, `Apart` and `Remembered` are the three remaining properties stated on
entries. None stands alone: a new slot repeats no id because what is in hand
lies past the cursor (`HandInv`) while everything committed lies before it
(`KeptInv`) and an id has a single admission (`NoncesAdvance`); and a drop
forgotten in a crash cannot be followed by a commitment because the drop was
after the deadline, the commitment would have to be before it, and the clock
does not step back.

`SlotsInv` adds the numbering. `NumberInv` counts commitments against
`nextSlot`, which `RecoverSequencer` reads off the newest one. `NonceInv` states
the order of nonces on admissions and their places. A new slot keeps it because
what it takes lies past the last slot's cursor (`HandInv`), so arrived after all
that earlier slots took, and arrival order within a submitter is nonce order
(`NoncesAdvance`). What a single slot does is the policy's (`CommitSlot` takes
any arrangement `Policy` allows), so the theorem needs no induction over the
merge loop; that the loop computes such an arrangement is `LoopIsPolicy`.

`OrderInv` says of a buffer that ids, and the nonces of one submitter, are told
apart. That is the gate's doing (`NoncesAdvance`), and the loop needs it: the
sort is stable, so it would let arrival decide between equal nonces. From there
the proof goes by the turn. That a sorted queue exists is a smallest
counterexample (`SortExists`). `MergeState` holds before each turn: what was
popped was each time what the policy takes next, each queue is what is left of a
submitter's intents in nonce order, and as many turns are to come as there are
intents left. A turn keeps it (`MergeTurn`), since the winning head is what the
policy takes next (`WinnerPops`): heads are the fronts of the queues, and rank
with address leaves no tie between two of them. The markets are then joined one
by one (`DomainsInOrder`).

`AnswersInv` adds to the gate's invariant what answers need of requests: a
clock sample is never ahead of the clock, and between append and answer the
holder's entry is in the log at the position the append returned, the log's
length when it was pushed. Sequencer and projector append and read meanwhile,
and no step moves an entry, so the position is still right when it is answered.

`LookupsInv` adds the read model. `ReadInv`: it is what the entries below its
cursor say, which are admissions and misses here. `GuardInv`: a client that was
told of an intent and misses it holds its guard over a model that lags, and goes
on to do so, since a fold waits for the guard and the head does not fall. So
`Miss` reads a head past the cursor and answers NotReady, not NotFound.

`SlotInv` ties each stage to the log. Rulings ascend and lie past their
commitments (`RulingInv`), and the attester's cursor is past the commitment of
every slot ruled on (`AttesterInv`), so it rules on none again. Verdicts ascend
too and leave no attested slot behind (`VerdictInv`); what the prover has queued
is a run of attested slots past the newest verdict and below its next slot
(`QueueInv`, `NextInv`), and what it awaits or has yet to read is not below it
(`AwaitInv`). That much survives findings 1 and 2: a slot left out is never
ruled on later. `QuietAttester` and `QuietProver` say
besides that nothing *is* left out.

`DurableInv` goes by the phase of the one append that can hold the mutex
(`PhaseInv`): rows ahead of the head by exactly what it wrote, or not at all, or
written by a commit that failed. From it a cursor has passed only what its
reader was given, or what a blind process has written over since (`ReadInv`).
Unless the process is blind the table grows only at its end, and nobody, blind
process or not, is told of a row that is not there at that moment.

`ProjectionInv`: the writers keep to what may follow what (`LogInv`), the model
is what the entries below its cursor say, row by row (`ModelInv`), and a client's
miss under the guard is of a model that lags (`ClientInv`). That a batch keeps
`ModelInv` is **ReadModelProofs**: each entry keeps a model and the entries it
was read from in step (`ReadsOn`), for each kind of entry and each kind of row,
and what each entry keeps a batch of any length keeps (`FoldReads`), by way of
the smallest counterexample (`StepByStep`), since the fold is a recursive
function. `ShownInv` says that what a client was last shown is what some prefix
of the log says, one that the model has read or, emptied by a restart, will
have read before it shows anything.

`PipelineInv` says that each entry is what the stage before it wrote, worked on:
admissions under the id of the intent they hold (`MadeFrom`), commitments of
known ids numbered in turn (`CommitsInv`), rulings of the enclave on exactly that
slot (`RulingsInv`), verdicts of the backend on exactly those attested slots
(`VerdictsInv`). It says too that each entry may follow on those before it
(`History`), so that ReadModelProofs applies: after any number of entries the
model is what they say (`ModelIsRead`), and each row leads back to entries that
the rest of the invariant is about.

Only model-checked: liveness and all that is under fairness (`sequencing`,
`doorbell`, `slots_quiet`, `durable_log`, `pipeline`), which is out of the
prover's reach. Every invariant and every refinement of the passing runs is a
theorem.

## 5. What is not modelled, and the plan

Not modelled: serde and postcard text and byte forms, HTTP framing, health,
gauges and log lines, the benchmarks and the demo script (pure functions or I/O
without the state that matters here); `VerifyFailure::Malformed` and
`ProveFailure::Timeout`, which the code declares and never produces; the
latencies the mocks sleep for and the lists of what they were called with. Of
the test kit its pipeline is `pipeline`'s instance and `await_proven` what its
liveness is about; the rest is test data. A wall clock that steps back is
excluded (`Tick`), as README.md:316 says the code does not handle it. A
poisoned mutex (`admission.rs:165`, `log.rs:244`) needs a panic that the
modelled code does not raise. redb is external: DurableLog's heading lists what
the code needs of it. Batch
sizes are positive, as they are wherever the code fills one in (10 and 2).

The plan is carried out. What it leaves to the model checker is liveness.
