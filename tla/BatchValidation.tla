-------------------------- MODULE BatchValidation --------------------------
(***************************************************************************)
(* The two public checks of lightphi.input: Validate, of one sample        *)
(* against the capabilities of its source (source/phi/validation.cppm),    *)
(* and ValidateBatch, of one delivery against the state the accepted       *)
(* deliveries before it left (source/phi/batch_validation.cppm).           *)
(*                                                                         *)
(* A sample carries its identity, sequence, time and origin as they are;   *)
(* of its six numbers the model keeps whether they are fit to be read      *)
(* (Reading) and which optional ones are nonzero (Values).  A check is the *)
(* sequence of its complaints in the order the code looks for them, and    *)
(* the error it returns is the first of them.                              *)
(*                                                                         *)
(* Definitions named for a slip are not the code's; see AppleDeliveryCore. *)
(***************************************************************************)
EXTENDS Integers, Sequences

CONSTANT MaximumBatchSamples  \* the contract's bound on the samples of a batch

ASSUME BatchBoundAssumption == MaximumBatchSamples \in Nat \ {0}

Origins  == {"Measured", "Coalesced", "Predicted", "Corrected"}
Phases   == {"Begin", "Update", "End", "Cancel"}
Readings == {"Sound", "NonFinite", "PressureOutOfRange"}

(* The optional values, under the name of the capability each requires.    *)
OptionalValues == {"Pressure", "Tilt", "Twist", "Eraser", "Hover"}

AllInputCapabilities ==
    OptionalValues \union {"Timestamp", "Coalescing", "Prediction", "Correction"}

(* A phase or an origin may have a value its enumeration does not name.    *)
InputSample == [Id : Nat, Corrects : Nat, Sequence : Nat, Time : Nat,
                Origin : Origins \union {"Undefined"}, Reading : Readings,
                Values : SUBSET OptionalValues]

InputBatch == [Contact : Nat, BatchOrdinal : Nat,
               Phase : Phases \union {"Undefined"}, Samples : Seq(InputSample)]

InputSourceCapabilities ==
    [Available : SUBSET AllInputCapabilities, MaximumBatchSamples : Nat]

Maximum(a, b) == IF a > b THEN a ELSE b

(* Complaints, and the first of them.                                      *)
Complain(broken, complaint) == IF broken THEN <<complaint>> ELSE <<>>
First(complaints, otherwise) ==
    IF complaints = <<>> THEN otherwise ELSE Head(complaints)

-----------------------------------------------------------------------------
(* Validate: one sample.                                                   *)

OriginNeeds == [Measured |-> {}, Coalesced |-> {"Coalescing"},
                Predicted |-> {"Prediction"}, Corrected |-> {"Correction"}]

Requires(sample) == sample.Values
                    \union (IF sample.Time # 0 THEN {"Timestamp"} ELSE {})
                    \union OriginNeeds[sample.Origin]

Validate(sample, capabilities) ==
    LET names   == sample.Corrects # 0
        correct == sample.Origin = "Corrected"
        known   == sample.Origin \in Origins
    IN First(Complain(sample.Id = 0, "ZeroIdentity")
             \o Complain(correct /\ ~names, "MissingCorrectionIdentity")
             \o Complain(~correct /\ names, "UnexpectedCorrectionIdentity")
             \o Complain(~known, "UnsupportedOrigin")
             \o Complain(sample.Reading = "NonFinite", "NonFiniteValue")
             \o Complain(sample.Reading = "PressureOutOfRange", "PressureOutOfRange")
             \o Complain(known /\ ~(Requires(sample) \subseteq capabilities.Available),
                         "MissingCapability"),
             "None")

-----------------------------------------------------------------------------
(* ValidateBatch.                                                          *)

(* BatchValidationError: what is wrong, with which sample, and how.        *)
Error(reason) == [Reason |-> reason, SampleIndex |-> 0, Sample |-> "None"]
Fail(reason, i) == [Reason |-> reason, SampleIndex |-> i - 1, Sample |-> "None"]
InvalidSample(i, why) ==
    [Reason |-> "InvalidSample", SampleIndex |-> i - 1, Sample |-> why]
NoError == Error("None")

(* DeliveryState, with the two arrays of predictions as one sequence.      *)
Prediction == [Id : Nat, Sequence : Nat]

DeliveryState ==
    [ContactOpen : BOOLEAN, Contact : Nat, LastBatchOrdinal : Nat,
     LastSampleId : Nat, LastCommittedSequence : Nat, LastTimestamp : Nat,
     PreviousPredictions : Seq(Prediction)]

Closed == [ContactOpen |-> FALSE, Contact |-> 0, LastBatchOrdinal |-> 0,
           LastSampleId |-> 0, LastCommittedSequence |-> 0,
           LastTimestamp |-> 0, PreviousPredictions |-> <<>>]

Opened(batch) == [Closed EXCEPT !.ContactOpen = TRUE, !.Contact = batch.Contact,
                                !.LastBatchOrdinal = batch.BatchOrdinal]

ValidateEnvelope(batch, capabilities) ==
    LET size == Len(batch.Samples) IN
    Complain(batch.Contact = 0, Error("ZeroContact"))
    \o Complain(batch.Phase \notin Phases, Error("UndefinedPhase"))
    \o Complain(size > capabilities.MaximumBatchSamples \/ size > MaximumBatchSamples,
                Error("TooManySamples"))
    \o Complain(batch.Phase \in {"Begin", "Update"} /\ size = 0, Error("MissingSamples"))
    \o Complain(batch.Phase = "Cancel" /\ size # 0, Error("SamplesOnCancel"))

PlaceAllowingSecondContact(batch, state) ==
    Complain(state.ContactOpen /\ batch.BatchOrdinal <= state.LastBatchOrdinal
             /\ batch.Phase # "Begin", Error("OrdinalNotIncreasing"))

(* Where the batch stands in the stream: at most one contact is open, and  *)
(* its ordinals increase.                                                  *)
ValidatePlace(batch, state) ==
    IF batch.Phase = "Begin"
    THEN Complain(state.ContactOpen, Error("ContactAlreadyOpen"))
    ELSE Complain(~state.ContactOpen \/ state.Contact # batch.Contact,
                  Error("ContactNotOpen"))
         \o Complain(batch.BatchOrdinal <= state.LastBatchOrdinal,
                     Error("OrdinalNotIncreasing"))

MatchesAnyPrediction(state, sample) ==
    \E k \in 1 .. Len(state.PreviousPredictions) :
        state.PreviousPredictions[k].Id = sample.Corrects

MatchesPreviousPrediction(state, sample) ==
    \E k \in 1 .. Len(state.PreviousPredictions) :
        /\ state.PreviousPredictions[k].Id = sample.Corrects
        /\ state.PreviousPredictions[k].Sequence = sample.Sequence

CorrectedIgnoringRepeats(previous, batch, i) ==
    Complain(~MatchesPreviousPrediction(previous, batch.Samples[i]),
             Fail("UnknownCorrection", i))

ValidateCorrected(previous, batch, i) ==
    Complain(~MatchesPreviousPrediction(previous, batch.Samples[i]),
             Fail("UnknownCorrection", i))
    \o Complain(\E earlier \in 1 .. i - 1 :
                   /\ batch.Samples[earlier].Origin = "Corrected"
                   /\ batch.Samples[earlier].Corrects = batch.Samples[i].Corrects,
                Fail("RepeatedCorrection", i))

ValidatePredicted(sample, i, scan) ==
    Complain(\/ sample.Sequence <= scan.CommittedSequence
             \/ /\ scan.Predictions # <<>>
                /\ sample.Sequence <= scan.Predictions[Len(scan.Predictions)].Sequence,
             Fail("PredictionNotAhead", i))

ValidateObserved(sample, i, scan) ==
    Complain(sample.Sequence <= scan.CommittedSequence, Fail("SequenceOutOfOrder", i))

ScanReplacingCommitted(sample, scan) ==
    [SampleId  |-> sample.Id,
     Timestamp |-> Maximum(scan.Timestamp, sample.Time),
     CommittedSequence |-> IF sample.Origin = "Predicted" THEN scan.CommittedSequence
                                                          ELSE sample.Sequence,
     Predictions |-> IF sample.Origin = "Predicted"
                     THEN Append(scan.Predictions, [Id       |-> sample.Id,
                                                    Sequence |-> sample.Sequence])
                     ELSE scan.Predictions]

(* The running totals once the sample has passed.                          *)
Scanned(sample, scan) ==
    [SampleId  |-> sample.Id,
     Timestamp |-> Maximum(scan.Timestamp, sample.Time),
     CommittedSequence |-> IF sample.Origin = "Predicted" THEN scan.CommittedSequence
                           ELSE Maximum(scan.CommittedSequence, sample.Sequence),
     Predictions |-> IF sample.Origin = "Predicted"
                     THEN Append(scan.Predictions, [Id       |-> sample.Id,
                                                    Sequence |-> sample.Sequence])
                     ELSE scan.Predictions]

SampleComplaints(batch, capabilities, previous, scan, i) ==
    LET sample   == batch.Samples[i]
        validity == Validate(sample, capabilities)
    IN Complain(validity # "None", InvalidSample(i, validity))
       \o Complain(sample.Id <= scan.SampleId, Fail("IdentityNotIncreasing", i))
       \o Complain(i > 1 /\ sample.Sequence < batch.Samples[i - 1].Sequence,
                   Fail("SequenceOutOfOrder", i))
       \o Complain("Timestamp" \in capabilities.Available
                   /\ sample.Time < scan.Timestamp, Fail("TimeNotMonotonic", i))
       \o CASE sample.Origin = "Corrected" -> ValidateCorrected(previous, batch, i)
            [] sample.Origin = "Predicted" -> ValidatePredicted(sample, i, scan)
            [] OTHER                       -> ValidateObserved(sample, i, scan)

(* Nothing found yet, and the totals the batches before this one left.     *)
Unscanned(previous) ==
    [Error |-> NoError,
     Scan  |-> [SampleId          |-> previous.LastSampleId,
                CommittedSequence |-> previous.LastCommittedSequence,
                Timestamp         |-> previous.LastTimestamp,
                Predictions       |-> <<>>]]

(* One sample.  The scan stops at the first that fails.                    *)
ScanSample(batch, capabilities, previous, sofar, i) ==
    LET found == First(SampleComplaints(batch, capabilities, previous, sofar.Scan, i), NoError)
    IN  IF sofar.Error # NoError THEN sofar
        ELSE [Error |-> found,
              Scan  |-> IF found = NoError THEN Scanned(batch.Samples[i], sofar.Scan)
                        ELSE sofar.Scan]

ValidateSamples(batch, capabilities, previous) ==
    LET scan[i \in 0 .. Len(batch.Samples)] ==
            IF i = 0 THEN Unscanned(previous)
            ELSE ScanSample(batch, capabilities, previous, scan[i - 1], i)
    IN  scan[Len(batch.Samples)]

(* The state an accepted batch leaves: an End or a Cancel leaves nothing.  *)
StateAfter(batch, next, scan) ==
    IF batch.Phase \in {"End", "Cancel"} THEN Closed
    ELSE [ContactOpen           |-> next.ContactOpen,
          Contact               |-> next.Contact,
          LastBatchOrdinal      |-> batch.BatchOrdinal,
          LastSampleId          |-> scan.SampleId,
          LastCommittedSequence |-> scan.CommittedSequence,
          LastTimestamp         |-> scan.Timestamp,
          PreviousPredictions   |-> scan.Predictions]

(* The error found, and the state that follows when there is none.         *)
ValidateBatch(batch, capabilities, state) ==
    LET place   == ValidateEnvelope(batch, capabilities) \o ValidatePlace(batch, state)
        next    == IF batch.Phase = "Begin" THEN Opened(batch) ELSE state
        checked == ValidateSamples(batch, capabilities, next)
    IN IF place # <<>>
       THEN [Error |-> Head(place), State |-> state]
       ELSE [Error |-> checked.Error,
             State |-> IF checked.Error = NoError
                       THEN StateAfter(batch, next, checked.Scan) ELSE state]

Accepts(batch, capabilities, state) ==
    ValidateBatch(batch, capabilities, state).Error = NoError
=============================================================================
