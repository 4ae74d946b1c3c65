--------------------------- MODULE DeliveryRules ---------------------------
(***************************************************************************)
(* A receiver that checks its source with ValidateBatch: it keeps one      *)
(* DeliveryState, offers it with every batch, and keeps the state returned *)
(* only for a batch it accepts (source/phi/batch_validation.cppm, the      *)
(* usage shown at ValidateBatch; RecordingReceiver in tests/).             *)
(*                                                                         *)
(* The state is a summary of fixed size.  accepted is the history it       *)
(* stands for, and Obeys is the delivery rules of docs/GLOSSARY.md and     *)
(* BatchValidationReason told of that whole history at once.               *)
(***************************************************************************)
EXTENDS BatchValidation

CONSTANTS Capabilities,  \* what the source reports
          Batches        \* the batches it may offer

ASSUME OfferAssumption ==
    /\ Capabilities \in InputSourceCapabilities
    /\ Batches \subseteq InputBatch

VARIABLES state,     \* the DeliveryState kept
          accepted   \* history: the batches of the open contact, in order

vars == <<state, accepted>>

Init == state = Closed /\ accepted = <<>>

(* An accepted batch.  A refused or a busy one leaves everything as it is. *)
Accept(batch) ==
    /\ Accepts(batch, Capabilities, state)
    /\ state' = ValidateBatch(batch, Capabilities, state).State
    /\ accepted' = IF state'.ContactOpen THEN Append(accepted, batch) ELSE <<>>

(* The receiver rejects the contact, or the source fails or is stopped:    *)
(* what follows starts from a default state.                               *)
Abandon ==
    /\ state.ContactOpen
    /\ state' = Closed
    /\ accepted' = <<>>

Next == (\E batch \in Batches : Accept(batch)) \/ Abandon

Spec == Init /\ [][Next]_vars

-----------------------------------------------------------------------------
(* The rules, told of the batches of one contact.                          *)

(* Where its samples stand: which batch and which place in it.             *)
Places(batches) ==
    UNION {{<<b, i>> : i \in 1 .. Len(batches[b].Samples)} : b \in 1 .. Len(batches)}

At(batches, p) == batches[p[1]].Samples[p[2]]
Before(p, q)   == p[1] < q[1] \/ (p[1] = q[1] /\ p[2] < q[2])

Committed(sample) == sample.Origin # "Predicted"

WellFormed(batch) ==
    /\ batch.Contact # 0
    /\ batch.Phase \in Phases
    /\ Len(batch.Samples) <= MaximumBatchSamples
    /\ Len(batch.Samples) <= Capabilities.MaximumBatchSamples
    /\ batch.Phase \in {"Begin", "Update"} => batch.Samples # <<>>
    /\ batch.Phase = "Cancel" => batch.Samples = <<>>

(* One contact: it begins once, is closed at most once, and its ordinals   *)
(* increase.                                                               *)
OneContact(batches) ==
    \A b \in 1 .. Len(batches) :
        /\ WellFormed(batches[b])
        /\ batches[b].Phase = "Begin" <=> b = 1
        /\ batches[b].Phase \in {"End", "Cancel"} => b = Len(batches)
        /\ b > 1 => /\ batches[b].Contact = batches[1].Contact
                    /\ batches[b].BatchOrdinal > batches[b - 1].BatchOrdinal

(* Identities increase and reported times never go back.                   *)
Ordered(batches) ==
    \A p, q \in Places(batches) :
        Before(p, q) => /\ At(batches, p).Id < At(batches, q).Id
                        /\ "Timestamp" \in Capabilities.Available =>
                               At(batches, p).Time <= At(batches, q).Time

(* An observed or predicted sample lies ahead of every committed one.      *)
Ahead(batches) ==
    \A p, q \in Places(batches) :
        /\ Before(p, q)
        /\ Committed(At(batches, p))
        /\ At(batches, q).Origin # "Corrected"
        => At(batches, p).Sequence < At(batches, q).Sequence

(* Within a batch the sequence never goes back, and advances from one      *)
(* prediction to the next.                                                 *)
Advancing(batches) ==
    \A b \in 1 .. Len(batches) : LET samples == batches[b].Samples IN
        \A j \in 1 .. Len(samples) : \A i \in 1 .. j - 1 :
            /\ samples[i].Sequence <= samples[j].Sequence
            /\ samples[i].Origin = "Predicted" /\ samples[j].Origin = "Predicted"
               => samples[i].Sequence < samples[j].Sequence

(* Each corrected sample replaces a prediction of the preceding batch, and *)
(* no two the same one.                                                    *)
Replaces(batches, b, i) ==
    /\ b > 1
    /\ \E k \in 1 .. Len(batches[b - 1].Samples) :
          LET prediction == batches[b - 1].Samples[k] IN
          /\ prediction.Origin = "Predicted"
          /\ prediction.Id = batches[b].Samples[i].Corrects
          /\ prediction.Sequence = batches[b].Samples[i].Sequence

Corrections(batches) ==
    \A b \in 1 .. Len(batches) : LET samples == batches[b].Samples IN
        \A j \in 1 .. Len(samples) : samples[j].Origin = "Corrected" =>
            /\ Replaces(batches, b, j)
            /\ \A i \in 1 .. j - 1 :
                  ~(samples[i].Origin = "Corrected" /\ samples[i].Corrects = samples[j].Corrects)

SoundSample(sample) ==
    /\ sample.Id # 0
    /\ sample.Sequence # 0
    /\ (sample.Corrects # 0) <=> (sample.Origin = "Corrected")
    /\ sample.Origin \in Origins
    /\ sample.Reading = "Sound"
    /\ Requires(sample) \subseteq Capabilities.Available

Sound(batches) == \A p \in Places(batches) : SoundSample(At(batches, p))

Obeys(batches) ==
    /\ OneContact(batches)
    /\ Sound(batches)
    /\ Ordered(batches)
    /\ Ahead(batches)
    /\ Advancing(batches)
    /\ Corrections(batches)

-----------------------------------------------------------------------------
(* The summary loses nothing: from the state of fixed size ValidateBatch   *)
(* accepts exactly the batches that keep the whole contact within the      *)
(* rules, however the contact came about.                                  *)
VerdictMatchesHistory ==
    \A batch \in Batches :
        Accepts(batch, Capabilities, state) <=> Obeys(Append(accepted, batch))

(* Over a whole contact no prediction is replaced twice: not within a      *)
(* batch, and not again by a later one.                                    *)
PredictionCorrectedOnce ==
    \A p, q \in Places(accepted) :
        /\ At(accepted, p).Origin = "Corrected"
        /\ At(accepted, q).Origin = "Corrected"
        /\ At(accepted, p).Corrects = At(accepted, q).Corrects
        => p = q

(* What is replaced was provisional, has the same place in the contact and *)
(* was delivered earlier: a corrected sample never replaces a committed    *)
(* one or one that is still to come.                                       *)
CorrectsAnEarlierPrediction ==
    \A q \in Places(accepted) : At(accepted, q).Origin = "Corrected" =>
        \E p \in Places(accepted) : /\ Before(p, q)
                                    /\ At(accepted, p).Id = At(accepted, q).Corrects
                                    /\ At(accepted, p).Origin = "Predicted"
                                    /\ At(accepted, p).Sequence = At(accepted, q).Sequence

(* Committed sequences increase (docs/ARCHITECTURE.md, Contact and         *)
(* correction rules).                                                      *)
CommittedSequencesIncrease ==
    \A p, q \in Places(accepted) :
        /\ Before(p, q)
        /\ Committed(At(accepted, p)) /\ Committed(At(accepted, q))
        => At(accepted, p).Sequence < At(accepted, q).Sequence
=============================================================================
