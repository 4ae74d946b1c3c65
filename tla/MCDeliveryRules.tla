-------------------------- MODULE MCDeliveryRules --------------------------
(* A source that predicts and corrects, with two samples in a batch.       *)
(* Four identities, two sequences and three ordinals let a prediction be   *)
(* corrected in the next batch, in a later one, twice, or after the        *)
(* committed samples have passed it, with one more sample to follow.       *)
EXTENDS DeliveryRules, FiniteSets

CONSTANTS MaxId, MaxSequence, MaxOrdinal

MCCapabilities ==
    [Available           |-> {"Timestamp", "Prediction", "Correction"},
     MaximumBatchSamples |-> 2]

Plain(id, corrects, sequence, origin) ==
    [Id |-> id, Corrects |-> corrects, Sequence |-> sequence, Time |-> 1,
     Origin |-> origin, Reading |-> "Sound", Values |-> {}]

PlainSamples ==
    {Plain(id, 0, sequence, origin) : id \in 1 .. MaxId, sequence \in 1 .. MaxSequence,
                                      origin \in {"Measured", "Predicted"}}
    \union {Plain(id, corrects, sequence, "Corrected") :
               id \in 1 .. MaxId, corrects \in 1 .. MaxId - 1, sequence \in 1 .. MaxSequence}

(* Samples with one thing wrong, or a time of their own.                   *)
OddSamples ==
    LET sample == Plain(2, 0, 2, "Measured") IN
    {[sample EXCEPT !.Time = 0], [sample EXCEPT !.Time = 2],
     [sample EXCEPT !.Id = 0], [sample EXCEPT !.Sequence = 0],
     [sample EXCEPT !.Corrects = 1], [sample EXCEPT !.Origin = "Corrected"],
     [sample EXCEPT !.Origin = "Coalesced"], [sample EXCEPT !.Origin = "Undefined"], [sample EXCEPT !.Values = {"Pressure"}],
     [sample EXCEPT !.Reading = "NonFinite"],
     [sample EXCEPT !.Reading = "PressureOutOfRange"]}

Batch(contact, ordinal, phase, samples) ==
    [Contact |-> contact, BatchOrdinal |-> ordinal, Phase |-> phase, Samples |-> samples]

(* One sample, or two with ascending identities, or two with the same.     *)
Runs == {<<s>> : s \in PlainSamples}
        \union {run \in PlainSamples \X PlainSamples : run[1].Id < run[2].Id}
        \union {run \in PlainSamples \X PlainSamples : run[1].Id = 2 /\ run[2].Id = 2}

MCBatches ==
    {Batch(1, 1, "Begin", run) : run \in Runs}
    \union {Batch(1, ordinal, "Update", run) : ordinal \in 2 .. MaxOrdinal, run \in Runs}
    \union {Batch(contact, ordinal, phase, run) :
        contact \in 0 .. 2, ordinal \in 0 .. MaxOrdinal, phase \in Phases \union {"Undefined"},
        run \in {<<>>} \union {<<s>> : s \in OddSamples}
                \union {<<Plain(1, 0, 1, "Measured")>>}
                \union {[i \in 1 .. 3 |-> Plain(i, 0, i, "Measured")]}}
=============================================================================
