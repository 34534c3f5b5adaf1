------------------------------ MODULE HttpApi ------------------------------
(***************************************************************************)
(* The HTTP surface (api.rs) over the gate of Sequencing and the read model *)
(* of ReadModel: what submitIntent, getStatus and getReceipt answer, while  *)
(* submissions race, appends fail, the projector lags and the process      *)
(* crashes.                                                                *)
(*                                                                         *)
(* The gate's steps are Sequencing's, each with the answer it sends.  Of   *)
(* the sequencer only the misses it appends are kept: they move the head    *)
(* between an append and its answer.  A lookup holds a read guard on the    *)
(* model until it has asked for the head, and the projector folds when no   *)
(* one holds a guard; how it gets its batch is Projection's subject.       *)
(***************************************************************************)
EXTENDS Sequencing

CONSTANT None   \* Rust's None

R == INSTANCE ReadModel

ASSUME NoneAssumption == R!NoneIsDistinct(Nat, Ids)

VARIABLES
  model,    \* AppState::projections
  looking,  \* per client, the missed lookup whose guard it still holds
  answer,   \* the answer the last step sent, with what it answers, or None
  told      \* what clients were told by a 200 to a submission

apiVars == <<model, looking, answer, told>>

-----------------------------------------------------------------------------
(* Refusals.                                                               *)

\* Mutant of FirstFailing: the last check that fails, so that a replay is told
\* its nonce is stale.
LastFailing(i, now) ==
  CHOOSE k \in 1..7 :
    ~ Checks(i, now)[k] /\ \A n \in (k + 1)..7 : Checks(i, now)[n]

\* Each check returns as it fails.
FirstFailing(i, now) ==
  CHOOSE k \in 1..7 :
    ~ Checks(i, now)[k] /\ \A n \in 1..(k - 1) : Checks(i, now)[n]

\* Rejection, for the check that failed.
Rejection(i, now) ==
  LET failed == FirstFailing(i, now)
  IN  CASE failed = 1 -> [reason |-> "zero_size"]
        [] failed = 2 -> [reason |-> "empty_market"]
        [] failed = 3 -> [reason |-> "slippage_out_of_range",
                          got |-> i.max_slippage_bps, limit |-> MAX_SLIPPAGE_BPS]
        [] failed = 4 -> [reason |-> "expired",
                          deadline_ms |-> i.deadline_ms, now_ms |-> now]
        [] failed = 5 -> [reason |-> "unmeetable_window",
                          deadline_ms |-> i.deadline_ms,
                          guarantee_deadline_ms |-> deadline_for(now)]
        [] failed = 6 -> [reason |-> "replay", intent_id |-> i.id]
        [] failed = 7 -> [reason |-> "stale_nonce", got |-> i.nonce,
                          last |-> nonces[i.submitter]]

\* Rejection::status: a conflict with admitted history, or a bad request.
status(rejection) ==
  IF rejection.reason \in {"replay", "stale_nonce"} THEN 409 ELSE 400

\* ApiError::into_response.
into_response(error) ==
  CASE error = "NotFound"    -> 404
    [] error = "NotReady"    -> 503
    [] error = "BadIntentId" -> 400
    [] error = "Log"         -> 500

\* SubmitResponse.
SubmitResponse(id, position) == [intent_id |-> id, log_position |-> position]

-----------------------------------------------------------------------------
(* submit.                                                                 *)

Submit(c, i) ==
  /\ looking[c] = None
  /\ Arrive(c, i)
  /\ answer' = None
  /\ UNCHANGED <<model, looking, told>>

Answer(c, code, body) ==
  answer' = [to |-> request[c], code |-> code, body |-> body]

Refuse(c) ==
  /\ Reject(c)
  /\ LET rejection == Rejection(request[c].intent, request[c].now)
     IN  Answer(c, status(rejection), rejection)
  /\ UNCHANGED <<model, looking, told>>

FailToLog(c) ==
  /\ AppendFails(c)
  /\ Answer(c, into_response("Log"), "Log")
  /\ UNCHANGED <<model, looking, told>>

\* The position append returned stays with the request until it is answered.
AdmitAt(c) ==
  /\ Admit(c)
  /\ answer' = None
  /\ UNCHANGED <<model, looking, told>>

\* Mutant of PositionOf: the position of the newest entry, from a second lock on
\* the log after the append has dropped the first.
PositionAtHead(c) == Len(log) - 1

\* admit_and_append hands on the position that append returned.
PositionOf(c) == request[c].position

\* Ok((intent_id, pos)), and the SubmitResponse made of it.
Accept(c) ==
  /\ Record(c)
  /\ LET body == SubmitResponse(request[c].intent.id, PositionOf(c))
     IN  /\ Answer(c, 200, body)
         /\ told' = told \cup
              {[intent_id |-> body.intent_id, log_position |-> body.log_position,
                received_at |-> request[c].now]}
  /\ UNCHANGED <<model, looking>>

-----------------------------------------------------------------------------
(* status and receipt.                                                     *)

Asks(c, id) == [pc |-> "asked", id |-> id]

\* IntentId::parse fails.
AskBadly(c) ==
  /\ gateUp
  /\ request[c] = Idle
  /\ looking[c] = None
  /\ answer' = [to |-> Asks(c, None), code |-> into_response("BadIntentId"),
                body |-> "BadIntentId"]
  /\ UNCHANGED <<vars, model, looking, told>>

\* The lookup under the read guard, for a receipt: it holds all a status does.
Look(c, id) ==
  /\ gateUp
  /\ request[c] = Idle
  /\ looking[c] = None
  /\ IF R!status_of(model, id) # None
     THEN /\ answer' = [to |-> Asks(c, id), code |-> 200,
                        body |-> R!receipt_of(model, id, clock)]
          /\ UNCHANGED looking
     ELSE /\ answer' = None
          /\ looking' = [looking EXCEPT ![c] =
               [pc |-> "missed", id |-> id,
                told |-> \E t \in told : t.intent_id = id]]
  /\ UNCHANGED <<vars, model, told>>

\* miss, with the guard still held: a lag is a retry, no lag is final.
Miss(c) ==
  /\ looking[c] # None
  /\ LET error == IF R!Lagging(model, Len(log)) THEN "NotReady" ELSE "NotFound"
     IN  answer' = [to |-> looking[c], code |-> into_response(error),
                    body |-> error]
  /\ looking' = [looking EXCEPT ![c] = None]
  /\ UNCHANGED <<vars, model, told>>

-----------------------------------------------------------------------------
(* The rest of the process.                                                *)

\* Mutant of Fold: without waiting for the guards.
FoldUnlocked ==
  /\ \E end \in (model.cursor + 1)..Len(log) : model' = R!Folded(model, log, end)
  /\ answer' = None
  /\ UNCHANGED <<vars, looking, told>>

\* The projector takes the write guard and applies a batch it copied.
Fold ==
  /\ \A c \in Clients : looking[c] = None
  /\ \E end \in (model.cursor + 1)..Len(log) : model' = R!Folded(model, log, end)
  /\ answer' = None
  /\ UNCHANGED <<vars, looking, told>>

\* The sequencer records a miss.
Drop ==
  /\ \E p \in Received(log) :
       /\ RanOut(p, clock)
       /\ log[p].intent.id \notin ExpiredIds(log)
       /\ log' = Append(log, IntentExpired(log[p].intent.id,
                               deadline_for(log[p].received_at), clock))
  /\ answer' = None
  /\ UNCHANGED <<clock, crashes, gateVars, seqVars, model, looking, told>>

\* Admission::recover runs before the server listens (main.rs); the projector and
\* the sequencer are under way by then.
Restarted ==
  /\ RecoverGate
  /\ answer' = None
  /\ UNCHANGED <<model, looking, told>>

ApiTick ==
  /\ Tick
  /\ answer' = None
  /\ UNCHANGED <<model, looking, told>>

\* Requests in flight get no answer.
ApiCrash ==
  /\ Crash
  /\ model' = R!Empty
  /\ looking' = [c \in Clients |-> None]
  /\ answer' = None
  /\ UNCHANGED told

ApiInit ==
  /\ Init
  /\ model = R!Empty
  /\ looking = [c \in Clients |-> None]
  /\ answer = None
  /\ told = {}

ApiNext ==
  \/ \E c \in Clients :
       \/ \E i \in Intents : Submit(c, i) \/ Look(c, i.id)
       \/ Refuse(c) \/ FailToLog(c) \/ AdmitAt(c) \/ Accept(c)
       \/ AskBadly(c) \/ Miss(c)
  \/ Fold \/ Drop \/ Restarted \/ ApiTick \/ ApiCrash

ApiSpec == ApiInit /\ [][ApiNext]_<<vars, apiVars>>

-----------------------------------------------------------------------------
(* Properties.                                                             *)

\* What a client was told holds for good: at the position in the response is the
\* client's intent, with the clock its submission sampled, and no other
\* submission was told of that position.  The sequencer's appends and a crash
\* come in between (api.rs:20-26, admission.rs:165-174).
AcknowledgedIsInTheLog ==
  /\ \A t \in told :
       /\ t.log_position + 1 \in Received(log)
       /\ LET e == log[t.log_position + 1]
          IN  e.intent.id = t.intent_id /\ e.received_at = t.received_at
  /\ \A t, u \in told : t.log_position = u.log_position => t = u

\* A refusal is the truth about the intent, the clock sampled and the log, and
\* what it quotes is what they hold.  "A conflict with admitted history"
\* (admission.rs:139) is answered only when the log holds what the intent
\* conflicts with, so an intent whose append failed, or whose answer a crash ate
\* before the append, is never refused as its own replay.
RefusalsAreTrue ==
  answer # None /\ answer.to.pc = "arrived" /\ answer.code \in {400, 409} =>
    LET i == answer.to.intent
        now == answer.to.now
        b == answer.body
    IN  /\ answer.code = 409 =>
             \E p \in Received(log) :
               \/ b.reason = "replay" /\ b.intent_id = i.id /\ log[p].intent = i
               \/ /\ b.reason = "stale_nonce"
                  /\ log[p].intent # i
                  /\ log[p].intent.submitter = i.submitter
                  /\ log[p].intent.nonce = b.last
                  /\ b.got = i.nonce
                  /\ i.nonce =< b.last
                  /\ \A q \in Received(log) :
                       log[q].intent.submitter = i.submitter
                         => log[q].intent.nonce =< b.last
        /\ b.reason = "zero_size" => i.size = 0
        /\ b.reason = "empty_market" => ~ i.named
        /\ b.reason = "slippage_out_of_range" =>
             /\ i.max_slippage_bps > MAX_SLIPPAGE_BPS
             /\ b.got = i.max_slippage_bps /\ b.limit = MAX_SLIPPAGE_BPS
        /\ b.reason = "expired" =>
             /\ i.deadline_ms =< now /\ now =< clock
             /\ b.deadline_ms = i.deadline_ms /\ b.now_ms = now
        /\ b.reason = "unmeetable_window" =>
             /\ now < i.deadline_ms /\ i.deadline_ms < now + Window /\ now =< clock
             /\ b.deadline_ms = i.deadline_ms
             /\ b.guarantee_deadline_ms = now + Window

\* The lookups keep to what submissions were told.  Once a client has its 200,
\* no lookup that starts later answers "unknown intent" (api.rs:97-107), a
\* restart with an empty model included; and a receipt repeats the position
\* and the arrival time of the response (README.md:120-138).
AnswersHold ==
  answer # None =>
    /\ answer.code = 404 => ~ answer.to.told
    /\ answer.to.pc = "asked" /\ answer.code = 200 =>
         \A t \in told : t.intent_id = answer.to.id =>
           /\ answer.body.log_position = t.log_position
           /\ answer.body.guarantee.received_at_ms = t.received_at
           /\ answer.body.guarantee.deadline_ms = deadline_for(t.received_at)
=============================================================================
