------------------------------ MODULE Evidence ------------------------------
(***************************************************************************)
(* What a receipt's evidence is made of and how its holder checks it: slot *)
(* commitments (sequencer.rs), the mock enclave's quotes and signatures    *)
(* (attest.rs) and the mock backend's proofs (prove/mod.rs).               *)
(*                                                                         *)
(* A Result is a record with a field ok or a field err, the error's name;  *)
(* Ok(()) is the string "Ok".                                              *)
(***************************************************************************)
EXTENDS IntentIdentity

\* The commitment to a slot's contents.
commit(slot, intents) == Keccak256(<<slot, Len(intents)>> \o intents)

\* Mutant of mock_over: the tag is signed and nothing else.
mock_over_tag(commitment) == Keccak256(<<"MOCKSIG">>)

\* Signature::mock_over.
mock_over(commitment) == Keccak256(<<"MOCKSIG", commitment>>)

Succeeded(result) == "ok" \in DOMAIN result

-----------------------------------------------------------------------------
(* Quotes and preconfirmations.                                            *)

MOCK_MEASUREMENT == "build 5e"

\* magic, version, slot, commitment, measurement.
encode_quote(slot, commitment, measurement) ==
  <<"MOCKQUOTE", 1, slot, commitment, measurement>>

WellFormed(quote) == Len(quote) = 5 /\ quote[1] = "MOCKQUOTE" /\ quote[2] = 1

decode_quote(quote) ==
  [slot |-> quote[3], commitment |-> quote[4], measurement |-> quote[5]]

\* What can be wrong with a preconfirmation.
VerifyError ==
  {"MalformedQuote", "SlotMismatch", "CommitmentMismatch", "ContentsMismatch",
   "UntrustedMeasurement", "BadSignature"}

\* PreconfClaim.
PreconfClaim(slot, commitment, quote, signature) ==
  [slot |-> slot, commitment |-> commitment, quote |-> quote,
   signature |-> signature]

\* Verifier, as MockVerifier implements it.
trusts(pinned, measurement) == measurement = pinned
signature_is_valid(commitment, signature) == signature = mock_over(commitment)

\* Each check returns its error; the contents come first.
verify_preconf(pinned, claim, intents) ==
  LET quoted == decode_quote(claim.quote)
  IN  IF commit(claim.slot, intents) # claim.commitment THEN "ContentsMismatch"
      ELSE IF ~ WellFormed(claim.quote) THEN "MalformedQuote"
      ELSE IF quoted.slot # claim.slot THEN "SlotMismatch"
      ELSE IF quoted.commitment # claim.commitment THEN "CommitmentMismatch"
      ELSE IF ~ trusts(pinned, quoted.measurement) THEN "UntrustedMeasurement"
      ELSE IF ~ signature_is_valid(quoted.commitment, claim.signature)
           THEN "BadSignature"
      ELSE "Ok"

\* Why an enclave signs nothing.
EnclaveError == {"Unavailable", "Quote"}

\* A new MockEnclave, failing_on some slots.
MockEnclave(slots) == [fail_slots |-> slots, measurement |-> MOCK_MEASUREMENT]

\* MockEnclave::attest.
attest(enclave, slot, intents, commitment) ==
  IF slot \in enclave.fail_slots THEN [err |-> "Unavailable"]
  ELSE IF commit(slot, intents) # commitment THEN [err |-> "Quote"]
  ELSE [ok |-> [quote |-> encode_quote(slot, commitment, enclave.measurement),
                sig   |-> mock_over(commitment)]]

-----------------------------------------------------------------------------
(* Proofs.  slots is a sequence of committed slots: slot, intents and      *)
(* commitment.                                                             *)

MOCK_VKEY_HASH == "aa"

statement(slots) == [k \in DOMAIN slots |-> slots[k].commitment]
chain(slots)     == Keccak256(statement(slots))

\* Why there is no proof, and what can be wrong with one.
ProveFailure  == {"Backend", "Timeout"}
VerifyFailure ==
  {"WrongBackend", "WrongVerifyingKey", "WrongStatement", "Malformed", "Invalid"}

\* ProofHandle, from the one backend there is.
ProofHandle(slots) ==
  [backend |-> "mock", proof |-> chain(slots), public_inputs |-> statement(slots),
   vkey_hash |-> MOCK_VKEY_HASH]

\* fail_slots in main.rs: the process stops on a range that runs backwards.
fail_slots(ranges) == \A range \in ranges : range[1] =< range[2]

Overlaps(from, to, range) == from =< range[2] /\ to >= range[1]

\* A new MockProver, failing_on some ranges, pairs <<from, to>>.
MockProver(ranges) == [fail_ranges |-> ranges]

\* MockProver::prove.
prove(backend, slots) ==
  IF \E range \in backend.fail_ranges :
       Overlaps(slots[1].slot, slots[Len(slots)].slot, range)
  THEN [err |-> "Backend"]
  ELSE [ok |-> ProofHandle(slots)]

\* Mutant of verify: the statement is the handle's own.
verify_trusting(handle, slots) ==
  IF handle.backend # "mock" THEN "WrongBackend"
  ELSE IF handle.vkey_hash # MOCK_VKEY_HASH THEN "WrongVerifyingKey"
  ELSE IF handle.proof # Keccak256(handle.public_inputs) THEN "Invalid"
  ELSE "Ok"

\* MockProver::verify.
verify(handle, slots) ==
  IF handle.backend # "mock" THEN "WrongBackend"
  ELSE IF handle.vkey_hash # MOCK_VKEY_HASH THEN "WrongVerifyingKey"
  ELSE IF handle.public_inputs # statement(slots) THEN "WrongStatement"
  ELSE IF handle.proof # chain(slots) THEN "Invalid"
  ELSE "Ok"
=============================================================================
