----------------------- MODULE BatchValidationProofs -----------------------
(***************************************************************************)
(* What Validate and ValidateBatch answer, for every batch, every state    *)
(* and every set of capabilities: which conditions a verdict stands for,   *)
(* and what an accepted batch makes of the state.                          *)
(*                                                                         *)
(* The scan of a batch is a recursive function, so its facts are proved by *)
(* induction on the place of the sample.  Induction is stated of sets of   *)
(* numbers: the set of the places where a fact holds contains zero and the *)
(* successor of each of its members, therefore every place.                *)
(***************************************************************************)
EXTENDS BatchValidation, SequenceTheorems, WellFoundedInduction, TLAPS

-----------------------------------------------------------------------------
(* Induction.                                                              *)

(* A set of natural numbers that is not empty has a least member.          *)
LEMMA LeastMember ==
    ASSUME NEW T \in SUBSET Nat, T # {}
    PROVE  \E least \in T : \A other \in T : least <= other
<1> DEFINE R == OpToRel(<, Nat)
<1>1. IsWellFoundedOn(R, Nat)
  BY NatLessThanWellFounded
<1>2. \A x, y \in Nat : x < y => <<x, y>> \in R
  BY DEF OpToRel
<1> HIDE DEF R
<1>3. PICK least \in T : \A other \in T : ~(<<other, least>> \in R)
  BY <1>1, WFMin
<1>4. ASSUME NEW other \in T PROVE least <= other
  <2> SUFFICES ASSUME ~(least <= other) PROVE FALSE
    OBVIOUS
  <2>1. other < least /\ other \in Nat /\ least \in Nat
    OBVIOUS
  <2>2. <<other, least>> \in R
    BY <2>1, <1>2
  <2> QED
    BY <2>2, <1>3
<1> QED
  BY <1>4

(* A set that contains zero and the successor of each member is Nat.       *)
LEMMA Induction ==
    ASSUME NEW S \in SUBSET Nat, 0 \in S, \A n \in S : n + 1 \in S
    PROVE  S = Nat
<1> SUFFICES ASSUME Nat \ S # {} PROVE FALSE
  OBVIOUS
<1>1. PICK least \in Nat \ S : \A other \in Nat \ S : least <= other
  BY LeastMember
<1>2. least # 0 /\ least - 1 \in Nat
  BY <1>1
<1>3. least - 1 \in S
  BY <1>1, <1>2
<1> QED
  BY <1>1, <1>2, <1>3

-----------------------------------------------------------------------------
(* Complaints.                                                             *)

(* A list of complaints is empty when each of its parts is.                *)
LEMMA ConcatEmpty ==
    ASSUME NEW S, NEW s \in Seq(S), NEW t \in Seq(S)
    PROVE  /\ s \o t \in Seq(S)
           /\ s \o t = <<>> <=> s = <<>> /\ t = <<>>
<1>1. s \o t \in Seq(S) /\ Len(s \o t) = Len(s) + Len(t)
  OBVIOUS
<1>2. \A u \in Seq(S) : u = <<>> <=> Len(u) = 0
  BY EmptySeq
<1> QED
  BY <1>1, <1>2

LEMMA ComplainEmpty ==
    ASSUME NEW S, NEW complaint \in S, NEW broken \in BOOLEAN
    PROVE  /\ Complain(broken, complaint) \in Seq(S)
           /\ Complain(broken, complaint) = <<>> <=> ~broken
BY DEF Complain

LEMMA FirstComplaint ==
    ASSUME NEW S, NEW complaints \in Seq(S), NEW otherwise, otherwise \notin S
    PROVE  /\ First(complaints, otherwise) = otherwise <=> complaints = <<>>
           /\ First(complaints, otherwise) \in S \union {otherwise}
BY DEF First

SampleComplaint == {"ZeroIdentity", "MissingCorrectionIdentity",
                    "UnexpectedCorrectionIdentity", "UnsupportedOrigin",
                    "NonFiniteValue", "PressureOutOfRange", "MissingCapability"}

(* Validate accepts a sample for exactly these reasons.                    *)
LEMMA ValidateMeans ==
    ASSUME NEW sample \in InputSample, NEW capabilities
    PROVE  /\ Validate(sample, capabilities) \in SampleComplaint \union {"None"}
           /\ Validate(sample, capabilities) = "None" <=>
                 /\ sample.Id # 0
                 /\ (sample.Corrects # 0) <=> (sample.Origin = "Corrected")
                 /\ sample.Origin \in Origins
                 /\ sample.Reading = "Sound"
                 /\ Requires(sample) \subseteq capabilities.Available
<1> DEFINE names   == sample.Corrects # 0
           correct == sample.Origin = "Corrected"
           known   == sample.Origin \in Origins
           has     == Requires(sample) \subseteq capabilities.Available
           c1 == Complain(sample.Id = 0, "ZeroIdentity")
           c2 == Complain(correct /\ ~names, "MissingCorrectionIdentity")
           c3 == Complain(~correct /\ names, "UnexpectedCorrectionIdentity")
           c4 == Complain(~known, "UnsupportedOrigin")
           c5 == Complain(sample.Reading = "NonFinite", "NonFiniteValue")
           c6 == Complain(sample.Reading = "PressureOutOfRange", "PressureOutOfRange")
           c7 == Complain(known /\ ~has, "MissingCapability")
           all == c1 \o c2 \o c3 \o c4 \o c5 \o c6 \o c7
<1>1. /\ c1 \in Seq(SampleComplaint) /\ (c1 = <<>> <=> sample.Id # 0)
      /\ c2 \in Seq(SampleComplaint) /\ (c2 = <<>> <=> ~(correct /\ ~names))
      /\ c3 \in Seq(SampleComplaint) /\ (c3 = <<>> <=> ~(~correct /\ names))
      /\ c4 \in Seq(SampleComplaint) /\ (c4 = <<>> <=> known)
      /\ c5 \in Seq(SampleComplaint) /\ (c5 = <<>> <=> sample.Reading # "NonFinite")
      /\ c6 \in Seq(SampleComplaint) /\ (c6 = <<>> <=> sample.Reading # "PressureOutOfRange")
      /\ c7 \in Seq(SampleComplaint) /\ (c7 = <<>> <=> ~(known /\ ~has))
  BY ComplainEmpty DEF SampleComplaint
<1>2. Validate(sample, capabilities) = First(all, "None")
  BY DEF Validate
<1>3. sample.Reading \in Readings
  BY DEF InputSample
<1> HIDE DEF c1, c2, c3, c4, c5, c6, c7
<1>4. /\ all \in Seq(SampleComplaint)
      /\ all = <<>> <=> /\ c1 = <<>> /\ c2 = <<>> /\ c3 = <<>> /\ c4 = <<>>
                        /\ c5 = <<>> /\ c6 = <<>> /\ c7 = <<>>
  BY <1>1, ConcatEmpty
<1>5. "None" \notin SampleComplaint
  BY DEF SampleComplaint
<1> HIDE DEF all
<1>6. /\ First(all, "None") = "None" <=> all = <<>>
      /\ First(all, "None") \in SampleComplaint \union {"None"}
  BY <1>4, <1>5, FirstComplaint
<1> QED
  BY <1>1, <1>2, <1>3, <1>4, <1>6 DEF Readings

-----------------------------------------------------------------------------
(* The complaints about one batch.                                         *)

Reasons == {"ZeroContact", "UndefinedPhase", "TooManySamples", "MissingSamples",
            "SamplesOnCancel", "ContactAlreadyOpen", "ContactNotOpen",
            "OrdinalNotIncreasing", "IdentityNotIncreasing", "SequenceOutOfOrder",
            "TimeNotMonotonic", "UnknownCorrection", "RepeatedCorrection",
            "PredictionNotAhead", "InvalidSample"}

Faults == [Reason : Reasons, SampleIndex : Int, Sample : SampleComplaint \union {"None"}]

LEMMA NoErrorIsNoFault == NoError \notin Faults
<1>1. NoError.Reason = "None"
  BY DEF NoError, Error
<1>2. "None" \notin Reasons
  BY DEF Reasons
<1> QED
  BY <1>1, <1>2 DEF Faults

LEMMA FaultTypes ==
    /\ \A reason \in Reasons : Error(reason) \in Faults
    /\ \A reason \in Reasons, i \in Int : Fail(reason, i) \in Faults
    /\ \A why \in SampleComplaint \union {"None"}, i \in Int : InvalidSample(i, why) \in Faults
<1>1. "InvalidSample" \in Reasons
  BY DEF Reasons
<1> QED
  BY <1>1 DEF Error, Fail, InvalidSample, Faults

(* The envelope of a batch: its contact, phase and size.                   *)
LEMMA EnvelopeMeans ==
    ASSUME NEW batch \in InputBatch, NEW capabilities \in InputSourceCapabilities
    PROVE  /\ ValidateEnvelope(batch, capabilities) \in Seq(Faults)
           /\ ValidateEnvelope(batch, capabilities) = <<>> <=>
                 /\ batch.Contact # 0
                 /\ batch.Phase \in Phases
                 /\ Len(batch.Samples) <= MaximumBatchSamples
                 /\ Len(batch.Samples) <= capabilities.MaximumBatchSamples
                 /\ batch.Phase \in {"Begin", "Update"} => batch.Samples # <<>>
                 /\ batch.Phase = "Cancel" => batch.Samples = <<>>
<1> DEFINE size == Len(batch.Samples)
           long == size > capabilities.MaximumBatchSamples \/ size > MaximumBatchSamples
           c1 == Complain(batch.Contact = 0, Error("ZeroContact"))
           c2 == Complain(batch.Phase \notin Phases, Error("UndefinedPhase"))
           c3 == Complain(long, Error("TooManySamples"))
           c4 == Complain(batch.Phase \in {"Begin", "Update"} /\ size = 0,
                          Error("MissingSamples"))
           c5 == Complain(batch.Phase = "Cancel" /\ size # 0, Error("SamplesOnCancel"))
           all == c1 \o c2 \o c3 \o c4 \o c5
<1>1. /\ Error("ZeroContact") \in Faults /\ Error("UndefinedPhase") \in Faults
      /\ Error("TooManySamples") \in Faults /\ Error("MissingSamples") \in Faults
      /\ Error("SamplesOnCancel") \in Faults
  BY FaultTypes DEF Reasons
<1>2. /\ c1 \in Seq(Faults) /\ (c1 = <<>> <=> batch.Contact # 0)
      /\ c2 \in Seq(Faults) /\ (c2 = <<>> <=> batch.Phase \in Phases)
      /\ c3 \in Seq(Faults) /\ (c3 = <<>> <=> ~long)
      /\ c4 \in Seq(Faults) /\ (c4 = <<>> <=> ~(batch.Phase \in {"Begin", "Update"} /\ size = 0))
      /\ c5 \in Seq(Faults) /\ (c5 = <<>> <=> ~(batch.Phase = "Cancel" /\ size # 0))
  BY <1>1, ComplainEmpty
<1>3. ValidateEnvelope(batch, capabilities) = all
  BY DEF ValidateEnvelope
<1> HIDE DEF c1, c2, c3, c4, c5
<1>4. /\ all \in Seq(Faults)
      /\ all = <<>> <=> c1 = <<>> /\ c2 = <<>> /\ c3 = <<>> /\ c4 = <<>> /\ c5 = <<>>
  BY <1>2, ConcatEmpty
<1>5. batch.Samples \in Seq(InputSample)
  BY DEF InputBatch
<1>6. size \in Nat /\ (size = 0 <=> batch.Samples = <<>>)
  BY <1>5, EmptySeq
<1>7. capabilities.MaximumBatchSamples \in Nat /\ MaximumBatchSamples \in Nat
  BY BatchBoundAssumption DEF InputSourceCapabilities
<1> QED
  BY <1>2, <1>3, <1>4, <1>6, <1>7

(* Where the batch stands: at most one contact, and increasing ordinals.   *)
LEMMA PlaceMeans ==
    ASSUME NEW batch \in InputBatch, NEW state \in DeliveryState
    PROVE  /\ ValidatePlace(batch, state) \in Seq(Faults)
           /\ ValidatePlace(batch, state) = <<>> <=>
                 IF batch.Phase = "Begin" THEN ~state.ContactOpen
                 ELSE /\ state.ContactOpen
                      /\ state.Contact = batch.Contact
                      /\ batch.BatchOrdinal > state.LastBatchOrdinal
<1>1. /\ Error("ContactAlreadyOpen") \in Faults /\ Error("ContactNotOpen") \in Faults
      /\ Error("OrdinalNotIncreasing") \in Faults
  BY FaultTypes DEF Reasons
<1>2. /\ state.ContactOpen \in BOOLEAN
      /\ batch.BatchOrdinal \in Nat /\ state.LastBatchOrdinal \in Nat
  BY DEF InputBatch, DeliveryState
<1>3. CASE batch.Phase = "Begin"
  BY <1>1, <1>2, <1>3, ComplainEmpty DEF ValidatePlace
<1>4. CASE batch.Phase # "Begin"
  <2> DEFINE closed == ~state.ContactOpen \/ state.Contact # batch.Contact
             stale  == batch.BatchOrdinal <= state.LastBatchOrdinal
             c1 == Complain(closed, Error("ContactNotOpen"))
             c2 == Complain(stale, Error("OrdinalNotIncreasing"))
  <2>1. /\ c1 \in Seq(Faults) /\ (c1 = <<>> <=> ~closed)
        /\ c2 \in Seq(Faults) /\ (c2 = <<>> <=> ~stale)
    <3>1. closed \in BOOLEAN /\ stale \in BOOLEAN
      BY <1>2
    <3> HIDE DEF closed, stale
    <3> QED
      BY <1>1, <3>1, ComplainEmpty
  <2>2. ValidatePlace(batch, state) = c1 \o c2
    BY <1>4 DEF ValidatePlace
  <2> HIDE DEF c1, c2
  <2>3. c1 \o c2 \in Seq(Faults) /\ (c1 \o c2 = <<>> <=> c1 = <<>> /\ c2 = <<>>)
    BY <2>1, ConcatEmpty
  <2> QED
    BY <1>2, <1>4, <2>1, <2>2, <2>3
<1> QED
  BY <1>3, <1>4

Totals == [SampleId : Nat, Timestamp : Nat, CommittedSequence : Nat,
           Predictions : Seq(Prediction)]

(* Passes: sample i of the batch follows what the scan has seen.           *)
Passes(batch, capabilities, previous, scan, i) ==
    LET sample == batch.Samples[i] IN
    /\ Validate(sample, capabilities) = "None"
    /\ sample.Id > scan.SampleId
    /\ i > 1 => batch.Samples[i - 1].Sequence <= sample.Sequence
    /\ "Timestamp" \in capabilities.Available => scan.Timestamp <= sample.Time
    /\ sample.Origin = "Corrected" =>
          /\ MatchesPreviousPrediction(previous, sample)
          /\ \A earlier \in 1 .. i - 1 :
                ~(/\ batch.Samples[earlier].Origin = "Corrected"
                  /\ batch.Samples[earlier].Corrects = sample.Corrects)
    /\ sample.Origin # "Corrected" => scan.CommittedSequence < sample.Sequence
    /\ sample.Origin = "Predicted" /\ scan.Predictions # <<>> =>
          scan.Predictions[Len(scan.Predictions)].Sequence < sample.Sequence

LEMMA CorrectedMeans ==
    ASSUME NEW batch \in InputBatch, NEW i \in 1 .. Len(batch.Samples), NEW previous
    PROVE  /\ ValidateCorrected(previous, batch, i) \in Seq(Faults)
           /\ ValidateCorrected(previous, batch, i) = <<>> <=>
                 /\ MatchesPreviousPrediction(previous, batch.Samples[i])
                 /\ \A earlier \in 1 .. i - 1 :
                       ~(/\ batch.Samples[earlier].Origin = "Corrected"
                         /\ batch.Samples[earlier].Corrects = batch.Samples[i].Corrects)
<1> DEFINE matched  == MatchesPreviousPrediction(previous, batch.Samples[i])
           repeated == \E earlier \in 1 .. i - 1 :
                          /\ batch.Samples[earlier].Origin = "Corrected"
                          /\ batch.Samples[earlier].Corrects = batch.Samples[i].Corrects
           c1 == Complain(~matched, Fail("UnknownCorrection", i))
           c2 == Complain(repeated, Fail("RepeatedCorrection", i))
<1>1. Fail("UnknownCorrection", i) \in Faults /\ Fail("RepeatedCorrection", i) \in Faults
  BY FaultTypes DEF Reasons
<1>2. matched \in BOOLEAN /\ repeated \in BOOLEAN
  BY DEF MatchesPreviousPrediction
<1>3. ValidateCorrected(previous, batch, i) = c1 \o c2
  BY DEF ValidateCorrected
<1>4. (~repeated) <=> \A earlier \in 1 .. i - 1 :
                       ~(/\ batch.Samples[earlier].Origin = "Corrected"
                         /\ batch.Samples[earlier].Corrects = batch.Samples[i].Corrects)
  OBVIOUS
<1> HIDE DEF matched, repeated
<1>5. /\ c1 \in Seq(Faults) /\ (c1 = <<>> <=> matched)
      /\ c2 \in Seq(Faults) /\ (c2 = <<>> <=> ~repeated)
  BY <1>1, <1>2, ComplainEmpty
<1> HIDE DEF c1, c2
<1>6. c1 \o c2 \in Seq(Faults) /\ (c1 \o c2 = <<>> <=> c1 = <<>> /\ c2 = <<>>)
  BY <1>5, ConcatEmpty
<1> QED
  BY <1>3, <1>4, <1>5, <1>6 DEF matched

(* One sample draws no complaint exactly when it passes.                   *)
LEMMA SampleMeans ==
    ASSUME NEW batch \in InputBatch, NEW capabilities \in InputSourceCapabilities,
           NEW previous \in DeliveryState, NEW scan \in Totals,
           NEW i \in 1 .. Len(batch.Samples)
    PROVE  /\ SampleComplaints(batch, capabilities, previous, scan, i) \in Seq(Faults)
           /\ SampleComplaints(batch, capabilities, previous, scan, i) = <<>> <=>
                 Passes(batch, capabilities, previous, scan, i)
<1> DEFINE sample   == batch.Samples[i]
           validity == Validate(sample, capabilities)
           back     == i > 1 /\ sample.Sequence < batch.Samples[i - 1].Sequence
           early    == "Timestamp" \in capabilities.Available /\ sample.Time < scan.Timestamp
           c1 == Complain(validity # "None", InvalidSample(i, validity))
           same     == sample.Id <= scan.SampleId
           behind   == sample.Sequence <= scan.CommittedSequence
           c2 == Complain(same, Fail("IdentityNotIncreasing", i))
           c3 == Complain(back, Fail("SequenceOutOfOrder", i))
           c4 == Complain(early, Fail("TimeNotMonotonic", i))
           c5 == CASE sample.Origin = "Corrected" -> ValidateCorrected(previous, batch, i)
                   [] sample.Origin = "Predicted" -> ValidatePredicted(sample, i, scan)
                   [] OTHER                       -> ValidateObserved(sample, i, scan)
           all == c1 \o c2 \o c3 \o c4 \o c5
           late == \/ behind
                   \/ /\ scan.Predictions # <<>>
                      /\ sample.Sequence <= scan.Predictions[Len(scan.Predictions)].Sequence
<1>1. /\ batch.Samples \in Seq(InputSample) /\ sample \in InputSample
      /\ i > 1 => batch.Samples[i - 1] \in InputSample
  BY DEF InputBatch
<1>2. validity \in SampleComplaint \union {"None"}
  BY <1>1, ValidateMeans
<1>3. /\ sample.Id \in Nat /\ sample.Sequence \in Nat /\ sample.Time \in Nat
      /\ scan.SampleId \in Nat /\ scan.Timestamp \in Nat /\ scan.CommittedSequence \in Nat
      /\ i > 1 => batch.Samples[i - 1].Sequence \in Nat
  BY <1>1 DEF InputSample, Totals
<1>4. scan.Predictions # <<>> => scan.Predictions[Len(scan.Predictions)].Sequence \in Nat
  <2>1. scan.Predictions \in Seq(Prediction)
    BY DEF Totals
  <2>2. scan.Predictions # <<>> => scan.Predictions[Len(scan.Predictions)] \in Prediction
    BY <2>1, EmptySeq
  <2> QED
    BY <2>2 DEF Prediction
<1>5. /\ InvalidSample(i, validity) \in Faults /\ Fail("IdentityNotIncreasing", i) \in Faults
      /\ Fail("SequenceOutOfOrder", i) \in Faults /\ Fail("TimeNotMonotonic", i) \in Faults
      /\ Fail("PredictionNotAhead", i) \in Faults
  BY <1>2, FaultTypes DEF Reasons
<1>6. same \in BOOLEAN /\ back \in BOOLEAN /\ early \in BOOLEAN
      /\ behind \in BOOLEAN /\ late \in BOOLEAN
  BY <1>1, <1>2
<1>7. /\ c1 \in Seq(Faults) /\ (c1 = <<>> <=> validity = "None")
      /\ c2 \in Seq(Faults) /\ (c2 = <<>> <=> ~same)
      /\ c3 \in Seq(Faults) /\ (c3 = <<>> <=> ~back)
      /\ c4 \in Seq(Faults) /\ (c4 = <<>> <=> ~early)
  <2> HIDE DEF same, back, early, behind, late, validity
  <2> QED
    BY <1>5, <1>6, ComplainEmpty
<1>8. /\ ValidatePredicted(sample, i, scan) \in Seq(Faults)
      /\ ValidatePredicted(sample, i, scan) = <<>> <=> ~late
      /\ ValidateObserved(sample, i, scan) \in Seq(Faults)
      /\ ValidateObserved(sample, i, scan) = <<>> <=> ~behind
  <2>1. ValidatePredicted(sample, i, scan) = Complain(late, Fail("PredictionNotAhead", i))
    BY DEF ValidatePredicted
  <2>2. ValidateObserved(sample, i, scan) = Complain(behind, Fail("SequenceOutOfOrder", i))
    BY DEF ValidateObserved
  <2> HIDE DEF behind, late
  <2> QED
    BY <1>5, <1>6, <2>1, <2>2, ComplainEmpty
<1>9. SampleComplaints(batch, capabilities, previous, scan, i) = all
  BY DEF SampleComplaints
<1>10. /\ c5 \in Seq(Faults)
       /\ c5 = <<>> <=>
            /\ sample.Origin = "Corrected" => ValidateCorrected(previous, batch, i) = <<>>
            /\ sample.Origin = "Predicted" => ~late
            /\ sample.Origin \notin {"Corrected", "Predicted"} => ~behind
  <2>1. CASE sample.Origin = "Corrected"
    <3>1. c5 = ValidateCorrected(previous, batch, i)
      BY <2>1, Zenon
    <3> HIDE DEF c5
    <3> QED
      BY <2>1, <3>1, CorrectedMeans
  <2>2. CASE sample.Origin = "Predicted"
    <3>1. c5 = ValidatePredicted(sample, i, scan)
      BY <2>2, Zenon
    <3> HIDE DEF c5
    <3> QED
      BY <2>2, <3>1, <1>8
  <2>3. CASE sample.Origin # "Corrected" /\ sample.Origin # "Predicted"
    <3>1. c5 = ValidateObserved(sample, i, scan)
      BY <2>3, Zenon
    <3> HIDE DEF c5
    <3> QED
      BY <2>3, <3>1, <1>8
  <2> QED
    BY <2>1, <2>2, <2>3
<1> HIDE DEF c1, c2, c3, c4, c5
<1>11. /\ all \in Seq(Faults)
       /\ all = <<>> <=>
            c1 = <<>> /\ c2 = <<>> /\ c3 = <<>> /\ c4 = <<>> /\ c5 = <<>>
  <2>1. /\ c1 \in Seq(Faults) /\ c2 \in Seq(Faults) /\ c3 \in Seq(Faults)
        /\ c4 \in Seq(Faults) /\ c5 \in Seq(Faults)
    BY <1>7, <1>10
  <2> QED
    BY <2>1, ConcatEmpty
<1>12. ValidateCorrected(previous, batch, i) = <<>> <=>
                 /\ MatchesPreviousPrediction(previous, sample)
                 /\ \A earlier \in 1 .. i - 1 :
                       ~(/\ batch.Samples[earlier].Origin = "Corrected"
                         /\ batch.Samples[earlier].Corrects = sample.Corrects)
  BY CorrectedMeans
<1>13. Passes(batch, capabilities, previous, scan, i) <=>
          /\ validity = "None"
          /\ ~same
          /\ ~back
          /\ ~early
          /\ sample.Origin = "Corrected" => ValidateCorrected(previous, batch, i) = <<>>
          /\ sample.Origin = "Predicted" => ~late
          /\ sample.Origin \notin {"Corrected", "Predicted"} => ~behind
  <2>1. ~same <=> sample.Id > scan.SampleId
    BY <1>3
  <2>2. ~back <=> (i > 1 => batch.Samples[i - 1].Sequence <= sample.Sequence)
    BY <1>3
  <2>3. ~early <=> ("Timestamp" \in capabilities.Available => scan.Timestamp <= sample.Time)
    BY <1>3
  <2>4. ~behind <=> scan.CommittedSequence < sample.Sequence
    BY <1>3
  <2>5. ~late <=> /\ ~behind
                  /\ scan.Predictions # <<>> =>
                        scan.Predictions[Len(scan.Predictions)].Sequence < sample.Sequence
    BY <1>3, <1>4
  <2> HIDE DEF same, back, early, behind, late
  <2> QED
    BY <1>12, <2>1, <2>2, <2>3, <2>4, <2>5 DEF Passes
<1> HIDE DEF sample, same, back, early, behind, late, validity
<1> HIDE DEF all
<1> QED
  BY <1>7, <1>9, <1>10, <1>11, <1>13

-----------------------------------------------------------------------------
(* The scan of a whole batch.                                              *)

(* What the scan has seen stays within its type, sample by sample.         *)
LEMMA ScannedType ==
    ASSUME NEW sample \in InputSample, NEW scan \in Totals
    PROVE  Scanned(sample, scan) \in Totals
<1>1. /\ sample.Id \in Nat /\ sample.Sequence \in Nat /\ sample.Time \in Nat
      /\ scan.Timestamp \in Nat /\ scan.CommittedSequence \in Nat
      /\ scan.Predictions \in Seq(Prediction)
  BY DEF InputSample, Totals
<1>2. [Id |-> sample.Id, Sequence |-> sample.Sequence] \in Prediction
  BY <1>1 DEF Prediction
<1>3. Append(scan.Predictions, [Id |-> sample.Id, Sequence |-> sample.Sequence])
         \in Seq(Prediction)
  BY <1>1, <1>2, AppendProperties
<1> QED
  BY <1>1, <1>3 DEF Scanned, Totals, Maximum

(* TotalsOf: the totals before each sample, whether or not it passes.      *)
TotalsOf(batch, previous, totals) ==
    /\ totals \in [0 .. Len(batch.Samples) -> Totals]
    /\ totals[0] = Unscanned(previous).Scan
    /\ \A i \in 1 .. Len(batch.Samples) :
          totals[i] = Scanned(batch.Samples[i], totals[i - 1])

LEMMA TotalsExist ==
    ASSUME NEW batch \in InputBatch, NEW previous \in DeliveryState
    PROVE  \E totals : TotalsOf(batch, previous, totals)
<1> DEFINE N == Len(batch.Samples)
           Upto(n, f) == /\ f \in [0 .. n -> Totals]
                         /\ f[0] = Unscanned(previous).Scan
                         /\ \A i \in 1 .. n : f[i] = Scanned(batch.Samples[i], f[i - 1])
           S == {n \in Nat : n <= N => \E f : Upto(n, f)}
<1>1. batch.Samples \in Seq(InputSample) /\ N \in Nat
  BY DEF InputBatch
<1>2. Unscanned(previous).Scan \in Totals
  BY DEF Unscanned, DeliveryState, Totals
<1>3. 0 \in S
  <2>1. Upto(0, [i \in 0 .. 0 |-> Unscanned(previous).Scan])
    BY <1>2
  <2> QED
    BY <2>1
<1>4. ASSUME NEW n \in S PROVE n + 1 \in S
  <2> SUFFICES ASSUME n + 1 <= N PROVE \E f : Upto(n + 1, f)
    OBVIOUS
  <2>1. n \in Nat /\ n <= N /\ n + 1 \in 1 .. N
    BY <1>1
  <2>2. PICK f : Upto(n, f)
    BY <2>1
  <2> DEFINE sample == batch.Samples[n + 1]
             step == Scanned(sample, f[n])
             g == [i \in 0 .. n + 1 |-> IF i = n + 1 THEN step ELSE f[i]]
  <2>3. step \in Totals
    BY <1>1, <2>1, <2>2, ScannedType
  <2> HIDE DEF step
  <2>4. g \in [0 .. n + 1 -> Totals] /\ g[0] = Unscanned(previous).Scan
    BY <2>1, <2>2, <2>3
  <2>5. ASSUME NEW i \in 1 .. n + 1
        PROVE  g[i] = Scanned(batch.Samples[i], g[i - 1])
    <3>1. CASE i = n + 1
      BY <3>1, <2>1 DEF step
    <3>2. CASE i \in 1 .. n
      BY <3>2, <2>1, <2>2
    <3> QED
      BY <3>1, <3>2, <2>1
  <2> QED
    BY <2>4, <2>5
<1>5. S = Nat
  <2> HIDE DEF S
  <2>1. S \in SUBSET Nat
    BY DEF S
  <2> QED
    BY <1>3, <1>4, <2>1, Induction
<1>6. N \in S
  BY <1>1, <1>5
<1>7. PICK f : Upto(N, f)
  BY <1>1, <1>6
<1> QED
  BY <1>7 DEF TotalsOf

(* The recursion of ValidateSamples has the value it says.                 *)
LEMMA ScanExists ==
    ASSUME NEW batch \in InputBatch, NEW capabilities, NEW previous
    PROVE  \E scan :
              /\ DOMAIN scan = 0 .. Len(batch.Samples)
              /\ scan[0] = Unscanned(previous)
              /\ \A i \in 1 .. Len(batch.Samples) :
                    scan[i] = ScanSample(batch, capabilities, previous, scan[i - 1], i)
              /\ ValidateSamples(batch, capabilities, previous) = scan[Len(batch.Samples)]
<1> DEFINE N == Len(batch.Samples)
           Body(n, f) == [i \in 0 .. n |->
                             IF i = 0 THEN Unscanned(previous)
                             ELSE ScanSample(batch, capabilities, previous, f[i - 1], i)]
           S == {n \in Nat : \E f : f = Body(n, f)}
<1>1. N \in Nat
  BY DEF InputBatch
<1>2. 0 \in S
  <2>1. [i \in 0 .. 0 |-> Unscanned(previous)]
           = Body(0, [i \in 0 .. 0 |-> Unscanned(previous)])
    OBVIOUS
  <2> QED
    BY <2>1
<1>3. ASSUME NEW n \in S PROVE n + 1 \in S
  <2>1. n \in Nat
    OBVIOUS
  <2>2. PICK f : f = Body(n, f)
    OBVIOUS
  <2> DEFINE step == ScanSample(batch, capabilities, previous, f[n], n + 1)
             g == [i \in 0 .. n + 1 |-> IF i = n + 1 THEN step ELSE f[i]]
  <2>3. /\ f[0] = Unscanned(previous)
        /\ \A i \in 1 .. n :
              f[i] = ScanSample(batch, capabilities, previous, f[i - 1], i)
    BY <2>1, <2>2
  <2>4. ASSUME NEW i \in 0 .. n + 1
        PROVE  g[i] = Body(n + 1, g)[i]
    <3>1. CASE i = 0
      BY <3>1, <2>1, <2>3
    <3>2. CASE i \in 1 .. n
      <4>1. g[i] = f[i] /\ g[i - 1] = f[i - 1]
        BY <3>2, <2>1
      <4>2. Body(n + 1, g)[i] = ScanSample(batch, capabilities, previous, g[i - 1], i)
        BY <3>2, <2>1
      <4> QED
        BY <4>1, <4>2, <3>2, <2>3
    <3>3. CASE i = n + 1
      <4>1. g[i] = step /\ g[n] = f[n]
        BY <3>3, <2>1
      <4>2. Body(n + 1, g)[i] = ScanSample(batch, capabilities, previous, g[i - 1], i)
        BY <3>3, <2>1
      <4>3. i - 1 = n
        BY <3>3, <2>1
      <4> QED
        BY <4>1, <4>2, <4>3, <3>3
    <3> QED
      BY <3>1, <3>2, <3>3, <2>1
  <2>5. g = Body(n + 1, g)
    BY <2>4
  <2> HIDE DEF g, Body
  <2> QED
    BY <2>1, <2>5
<1>4. S = Nat
  <2> HIDE DEF S
  <2>1. S \in SUBSET Nat
    BY DEF S
  <2> QED
    BY <1>2, <1>3, <2>1, Induction
<1>5. \E f : f = Body(N, f)
  BY <1>1, <1>4
<1> DEFINE scan == CHOOSE f : f = Body(N, f)
<1>6. scan = Body(N, scan)
  BY <1>5
<1>7. ValidateSamples(batch, capabilities, previous) = scan[N]
  BY DEF ValidateSamples
<1> HIDE DEF scan
<1>8. /\ DOMAIN scan = 0 .. N
      /\ scan[0] = Unscanned(previous)
      /\ \A i \in 1 .. N :
            scan[i] = ScanSample(batch, capabilities, previous, scan[i - 1], i)
  <2>1. DOMAIN scan = 0 .. N
    BY <1>6
  <2>2. \A i \in 0 .. N : scan[i] = Body(N, scan)[i]
    BY <1>6
  <2>3. Body(N, scan)[0] = Unscanned(previous)
    BY <1>1
  <2>4. ASSUME NEW i \in 1 .. N
        PROVE  scan[i] = ScanSample(batch, capabilities, previous, scan[i - 1], i)
    <3>1. Body(N, scan)[i] = ScanSample(batch, capabilities, previous, scan[i - 1], i)
      BY <1>1
    <3> HIDE DEF Body
    <3> QED
      BY <3>1, <2>2, <1>1
  <2> HIDE DEF Body
  <2> QED
    BY <1>1, <2>1, <2>2, <2>3, <2>4
<1> QED
  BY <1>7, <1>8

(* The samples are accepted exactly when each passes the totals before it. *)
LEMMA SamplesMean ==
    ASSUME NEW batch \in InputBatch, NEW capabilities \in InputSourceCapabilities,
           NEW previous \in DeliveryState, NEW totals, TotalsOf(batch, previous, totals)
    PROVE  LET checked == ValidateSamples(batch, capabilities, previous) IN
           /\ checked.Error = NoError <=>
                 \A i \in 1 .. Len(batch.Samples) :
                    Passes(batch, capabilities, previous, totals[i - 1], i)
           /\ checked.Error = NoError => checked.Scan = totals[Len(batch.Samples)]
<1> DEFINE N == Len(batch.Samples)
           P(i) == Passes(batch, capabilities, previous, totals[i - 1], i)
<1>1. N \in Nat
  BY DEF InputBatch
<1>2. PICK scan :
         /\ scan[0] = Unscanned(previous)
         /\ \A i \in 1 .. N :
               scan[i] = ScanSample(batch, capabilities, previous, scan[i - 1], i)
         /\ ValidateSamples(batch, capabilities, previous) = scan[N]
  BY ScanExists
<1> DEFINE Sofar(k) == IF \A i \in 1 .. k : P(i)
                       THEN scan[k].Error = NoError /\ scan[k].Scan = totals[k]
                       ELSE scan[k].Error # NoError
           S == {k \in Nat : k <= N => Sofar(k)}
<1>3. 0 \in S
  <2>1. scan[0].Error = NoError /\ scan[0].Scan = totals[0]
    BY <1>2 DEF Unscanned, TotalsOf
  <2> QED
    BY <2>1
<1>4. ASSUME NEW k \in S PROVE k + 1 \in S
  <2> SUFFICES ASSUME k + 1 <= N PROVE Sofar(k + 1)
    OBVIOUS
  <2>1. k \in Nat /\ k <= N /\ k + 1 \in 1 .. N /\ (k + 1) - 1 = k
    BY <1>1
  <2>2. Sofar(k)
    BY <2>1
  <2>3. scan[k + 1] = ScanSample(batch, capabilities, previous, scan[k], k + 1)
    BY <1>2, <2>1
  <2>4. (\A i \in 1 .. k + 1 : P(i)) <=> (\A i \in 1 .. k : P(i)) /\ P(k + 1)
    <3> HIDE DEF P
    <3> QED
      BY <2>1
  <2>5. CASE ~(\A i \in 1 .. k : P(i))
    <3>1. scan[k].Error # NoError
      BY <2>2, <2>5
    <3>2. scan[k + 1] = scan[k]
      BY <2>3, <3>1 DEF ScanSample
    <3> HIDE DEF P
    <3> QED
      BY <3>1, <3>2, <2>4, <2>5
  <2>6. CASE \A i \in 1 .. k : P(i)
    <3>1. scan[k].Error = NoError /\ scan[k].Scan = totals[k]
      BY <2>2, <2>6
    <3> DEFINE complaints == SampleComplaints(batch, capabilities, previous, totals[k], k + 1)
    <3>2. totals[k] \in Totals
      BY <2>1 DEF TotalsOf
    <3>3. complaints \in Seq(Faults) /\ (complaints = <<>> <=> P(k + 1))
      BY <3>2, <2>1, SampleMeans
    <3>4. totals[k + 1] = Scanned(batch.Samples[k + 1], totals[k])
      BY <2>1 DEF TotalsOf
    <3>5. scan[k + 1] =
             [Error |-> First(complaints, NoError),
              Scan  |-> IF First(complaints, NoError) = NoError
                        THEN totals[k + 1] ELSE totals[k]]
      BY <2>3, <3>1, <3>4 DEF ScanSample
    <3> HIDE DEF complaints, P
    <3>6. First(complaints, NoError) = NoError <=> P(k + 1)
      BY <3>3, FirstComplaint, NoErrorIsNoFault
    <3> QED
      BY <3>5, <3>6, <2>4, <2>6
  <2> QED
    BY <2>5, <2>6
<1>5. S = Nat
  <2> HIDE DEF S
  <2>1. S \in SUBSET Nat
    BY DEF S
  <2> QED
    BY <1>3, <1>4, <2>1, Induction
<1>6. Sofar(N)
  <2> HIDE DEF Sofar
  <2> QED
    BY <1>1, <1>5
<1> QED
  BY <1>2, <1>6

(* Fits, Stands: the conditions on the batch as a whole.                   *)
Fits(batch, capabilities) ==
    /\ batch.Contact # 0
    /\ batch.Phase \in Phases
    /\ Len(batch.Samples) <= MaximumBatchSamples
    /\ Len(batch.Samples) <= capabilities.MaximumBatchSamples
    /\ batch.Phase \in {"Begin", "Update"} => batch.Samples # <<>>
    /\ batch.Phase = "Cancel" => batch.Samples = <<>>

Stands(batch, state) ==
    IF batch.Phase = "Begin" THEN ~state.ContactOpen
    ELSE /\ state.ContactOpen
         /\ state.Contact = batch.Contact
         /\ batch.BatchOrdinal > state.LastBatchOrdinal

(* The state the samples are checked against.                              *)
Prior(batch, state) == IF batch.Phase = "Begin" THEN Opened(batch) ELSE state

LEMMA ClosedType == Closed \in DeliveryState
BY EmptySeq DEF Closed, DeliveryState

LEMMA PriorType ==
    ASSUME NEW batch \in InputBatch, NEW state \in DeliveryState
    PROVE  Prior(batch, state) \in DeliveryState
<1>1. batch.Contact \in Nat /\ batch.BatchOrdinal \in Nat
  BY DEF InputBatch
<1> QED
  BY <1>1, ClosedType DEF Prior, Opened, DeliveryState

(* ValidateBatch accepts a batch exactly when the batch fits, stands where *)
(* it may, and each of its samples passes; the state then follows from the *)
(* totals, and otherwise stays.                                            *)
THEOREM AcceptsMeans ==
    ASSUME NEW batch \in InputBatch, NEW capabilities \in InputSourceCapabilities,
           NEW state \in DeliveryState,
           NEW totals, TotalsOf(batch, Prior(batch, state), totals)
    PROVE  /\ Accepts(batch, capabilities, state) <=>
                 /\ Fits(batch, capabilities)
                 /\ Stands(batch, state)
                 /\ \A i \in 1 .. Len(batch.Samples) :
                       Passes(batch, capabilities, Prior(batch, state), totals[i - 1], i)
           /\ ValidateBatch(batch, capabilities, state).State =
                 IF Accepts(batch, capabilities, state)
                 THEN StateAfter(batch, Prior(batch, state), totals[Len(batch.Samples)])
                 ELSE state
<1> DEFINE envelope == ValidateEnvelope(batch, capabilities)
           place    == ValidatePlace(batch, state)
           previous == Prior(batch, state)
           checked  == ValidateSamples(batch, capabilities, previous)
           passes   == \A i \in 1 .. Len(batch.Samples) :
                          Passes(batch, capabilities, previous, totals[i - 1], i)
<1>1. /\ envelope \in Seq(Faults) /\ (envelope = <<>> <=> Fits(batch, capabilities))
      /\ place \in Seq(Faults) /\ (place = <<>> <=> Stands(batch, state))
  BY EnvelopeMeans, PlaceMeans DEF Fits, Stands
<1>2. /\ checked.Error = NoError <=> passes
      /\ checked.Error = NoError => checked.Scan = totals[Len(batch.Samples)]
  BY PriorType, SamplesMean
<1>3. ValidateBatch(batch, capabilities, state) =
         IF envelope \o place # <<>>
         THEN [Error |-> Head(envelope \o place), State |-> state]
         ELSE [Error |-> checked.Error,
               State |-> IF checked.Error = NoError
                         THEN StateAfter(batch, previous, checked.Scan) ELSE state]
  BY DEF ValidateBatch, Prior
<1> HIDE DEF envelope, place, checked, passes
<1>4. /\ envelope \o place \in Seq(Faults)
      /\ envelope \o place = <<>> <=> Fits(batch, capabilities) /\ Stands(batch, state)
  BY <1>1, ConcatEmpty
<1>5. CASE envelope \o place # <<>>
  <2>1. Head(envelope \o place) \in Faults
    BY <1>4, <1>5
  <2> QED
    BY <1>3, <1>4, <1>5, <2>1, NoErrorIsNoFault DEF Accepts, passes
<1>6. CASE envelope \o place = <<>>
  BY <1>2, <1>3, <1>4, <1>6 DEF Accepts, passes
<1> QED
  BY <1>5, <1>6

(* Over samples that pass, identities increase and the committed sequence  *)
(* never goes back.                                                        *)
LEMMA TotalsGrow ==
    ASSUME NEW batch \in InputBatch, NEW capabilities,
           NEW previous \in DeliveryState, NEW totals, TotalsOf(batch, previous, totals),
           \A i \in 1 .. Len(batch.Samples) :
              Passes(batch, capabilities, previous, totals[i - 1], i)
    PROVE  LET after == totals[Len(batch.Samples)] IN
           /\ after.SampleId >= previous.LastSampleId
           /\ Len(batch.Samples) # 0 => after.SampleId > previous.LastSampleId
           /\ after.CommittedSequence >= previous.LastCommittedSequence
<1> DEFINE N == Len(batch.Samples)
           Grown(k) == /\ totals[k].SampleId >= previous.LastSampleId
                       /\ k # 0 => totals[k].SampleId > previous.LastSampleId
                       /\ totals[k].CommittedSequence >= previous.LastCommittedSequence
           S == {k \in Nat : k <= N => Grown(k)}
<1>1. /\ batch.Samples \in Seq(InputSample) /\ N \in Nat
      /\ previous.LastSampleId \in Nat /\ previous.LastCommittedSequence \in Nat
  BY DEF InputBatch, DeliveryState
<1>2. \A k \in 0 .. N : totals[k].SampleId \in Nat /\ totals[k].CommittedSequence \in Nat
  BY DEF TotalsOf, Totals
<1>3. 0 \in S
  BY <1>1 DEF TotalsOf, Unscanned
<1>4. ASSUME NEW k \in S PROVE k + 1 \in S
  <2> SUFFICES ASSUME k + 1 <= N PROVE Grown(k + 1)
    OBVIOUS
  <2>1. k \in Nat /\ k <= N /\ k \in 0 .. N /\ k + 1 \in 1 .. N
    BY <1>1
  <2> DEFINE sample == batch.Samples[k + 1]
  <2>2. sample.Id \in Nat /\ sample.Sequence \in Nat
    <3>1. sample \in InputSample
      BY <1>1, <2>1
    <3> HIDE DEF sample
    <3> QED
      BY <3>1 DEF InputSample
  <2>3. Passes(batch, capabilities, previous, totals[k], k + 1)
    BY <2>1
  <2>4. totals[k + 1] = Scanned(sample, totals[k])
    BY <2>1 DEF TotalsOf
  <2>5. sample.Id > totals[k].SampleId
    BY <2>3 DEF Passes
  <2>6. /\ totals[k + 1].SampleId = sample.Id
        /\ totals[k + 1].CommittedSequence \in
              {totals[k].CommittedSequence,
               Maximum(totals[k].CommittedSequence, sample.Sequence)}
    BY <2>4 DEF Scanned
  <2>7. Grown(k)
    BY <2>1
  <2>8. /\ totals[k].SampleId \in Nat /\ totals[k].CommittedSequence \in Nat
        /\ totals[k + 1].SampleId \in Nat /\ totals[k + 1].CommittedSequence \in Nat
    BY <1>2, <2>1
  <2> HIDE DEF sample
  <2> QED
    BY <1>1, <2>1, <2>2, <2>5, <2>6, <2>7, <2>8, SMTT(30) DEF Maximum
<1>5. S = Nat
  <2> HIDE DEF S
  <2>1. S \in SUBSET Nat
    BY DEF S
  <2> QED
    BY <1>3, <1>4, <2>1, Induction
<1>6. Grown(N)
  <2> HIDE DEF Grown
  <2> QED
    BY <1>1, <1>5
<1> QED
  BY <1>6

(* The state ValidateBatch returns is a DeliveryState, and the old one     *)
(* when it refuses.                                                        *)
THEOREM ReturnedStateType ==
    ASSUME NEW batch \in InputBatch, NEW capabilities \in InputSourceCapabilities,
           NEW state \in DeliveryState
    PROVE  /\ ValidateBatch(batch, capabilities, state).State \in DeliveryState
           /\ ~Accepts(batch, capabilities, state) =>
                 ValidateBatch(batch, capabilities, state).State = state
<1> DEFINE previous == Prior(batch, state)
           N == Len(batch.Samples)
<1>1. PICK totals : TotalsOf(batch, previous, totals)
  BY PriorType, TotalsExist
<1>2. previous \in DeliveryState /\ batch.BatchOrdinal \in Nat /\ N \in Nat
  BY PriorType DEF InputBatch
<1>3. totals[N] \in Totals
  BY <1>1, <1>2 DEF TotalsOf
<1> HIDE DEF previous
<1>4. StateAfter(batch, previous, totals[N]) \in DeliveryState
  <2>1. CASE batch.Phase \in {"End", "Cancel"}
    BY <2>1, ClosedType DEF StateAfter
  <2>2. CASE batch.Phase \notin {"End", "Cancel"}
    <3>1. /\ totals[N].SampleId \in Nat /\ totals[N].CommittedSequence \in Nat
          /\ totals[N].Timestamp \in Nat /\ totals[N].Predictions \in Seq(Prediction)
      BY <1>3 DEF Totals
    <3>2. previous.ContactOpen \in BOOLEAN /\ previous.Contact \in Nat
      BY <1>2 DEF DeliveryState
    <3> HIDE DEF N
    <3> QED
      BY <2>2, <1>2, <3>1, <3>2 DEF StateAfter, DeliveryState
  <2> QED
    BY <2>1, <2>2
<1> QED
  BY <1>1, <1>4, AcceptsMeans DEF previous

(* An accepted batch opens a contact where none was open, or takes the one *)
(* open forward, or closes it.                                             *)
THEOREM AcceptedMoves ==
    ASSUME NEW batch \in InputBatch, NEW capabilities \in InputSourceCapabilities,
           NEW state \in DeliveryState, Accepts(batch, capabilities, state)
    PROVE  LET after == ValidateBatch(batch, capabilities, state).State IN
           /\ batch.Phase \in Phases
           /\ batch.Contact # 0
           /\ Len(batch.Samples) <= capabilities.MaximumBatchSamples
           /\ batch.Phase = "Begin" =>
                 /\ ~state.ContactOpen
                 /\ after.ContactOpen
                 /\ after.LastSampleId # 0
           /\ batch.Phase # "Begin" => state.ContactOpen /\ state.Contact = batch.Contact
           /\ batch.Phase = "Update" =>
                 /\ after.ContactOpen
                 /\ batch.BatchOrdinal > state.LastBatchOrdinal
                 /\ after.LastSampleId > state.LastSampleId
                 /\ after.LastCommittedSequence >= state.LastCommittedSequence
           /\ batch.Phase \in {"Begin", "Update"} =>
                 /\ after.Contact = batch.Contact
                 /\ after.LastBatchOrdinal = batch.BatchOrdinal
           /\ batch.Phase \in {"End", "Cancel"} => after = Closed
<1> DEFINE previous == Prior(batch, state)
           N == Len(batch.Samples)
           after == ValidateBatch(batch, capabilities, state).State
<1>1. PICK totals : TotalsOf(batch, previous, totals)
  BY PriorType, TotalsExist
<1>2. /\ Fits(batch, capabilities)
      /\ Stands(batch, state)
      /\ \A i \in 1 .. N : Passes(batch, capabilities, previous, totals[i - 1], i)
      /\ after = StateAfter(batch, previous, totals[N])
  BY <1>1, AcceptsMeans
<1>3. batch.Samples \in Seq(InputSample) /\ N \in Nat
  BY DEF InputBatch
<1>4. /\ N # 0 => totals[N].SampleId > previous.LastSampleId
      /\ totals[N].CommittedSequence >= previous.LastCommittedSequence
  BY <1>1, <1>2, PriorType, TotalsGrow
<1>5. batch.Phase \in {"Begin", "Update"} => N # 0
  BY <1>2, <1>3, EmptySeq DEF Fits
<1>6. batch.Phase \in Phases /\ batch.Contact # 0
      /\ Len(batch.Samples) <= capabilities.MaximumBatchSamples
  BY <1>2 DEF Fits
<1>7. totals[N].SampleId \in Nat /\ totals[N].CommittedSequence \in Nat
  BY <1>1, <1>3 DEF TotalsOf, Totals
<1> HIDE DEF after, N
<1>8. CASE batch.Phase = "Begin"
  <2>1. previous = Opened(batch)
    BY <1>8 DEF Prior
  <2>2. previous.LastSampleId = 0 /\ previous.ContactOpen /\ previous.Contact = batch.Contact
    BY <2>1 DEF Opened, Closed
  <2> QED
    BY <1>2, <1>4, <1>5, <1>6, <1>7, <1>8, <2>2 DEF Stands, StateAfter, after
<1>9. CASE batch.Phase = "Update"
  <2>1. previous = state
    BY <1>9 DEF Prior
  <2> QED
    BY <1>2, <1>4, <1>5, <1>6, <1>7, <1>9, <2>1 DEF Stands, StateAfter, after
<1>10. CASE batch.Phase \in {"End", "Cancel"}
  BY <1>2, <1>6, <1>10 DEF Stands, StateAfter, after
<1> QED
  BY <1>6, <1>8, <1>9, <1>10 DEF Phases
=============================================================================
