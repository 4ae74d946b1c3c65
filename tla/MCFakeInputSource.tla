------------------------- MODULE MCFakeInputSource -------------------------
(* A script of two contacts, with predictions and corrections, batches of  *)
(* no, one and two samples, and batches the rules refuse.                  *)
EXTENDS FakeInputSource

MCCapabilities == [Available           |-> {"Prediction", "Correction"},
                   MaximumBatchSamples |-> 2]

Sample(id, corrects, sequence, origin) ==
    [Id |-> id, Corrects |-> corrects, Sequence |-> sequence, Time |-> 0,
     Origin |-> origin, Reading |-> "Sound", Values |-> {}]

Batch(contact, ordinal, phase, samples) ==
    [Contact |-> contact, BatchOrdinal |-> ordinal, Phase |-> phase, Samples |-> samples]

Contacts == {1, 2}

MCBatches ==
    {Batch(contact, 1, "Begin", <<Sample(1, 0, 1, "Measured")>>) : contact \in Contacts}
    \union {Batch(1, 1, "Begin", <<Sample(1, 0, 1, "Measured"),
                                   Sample(2, 0, 2, "Predicted")>>)}
    \union {Batch(contact, 2, "Update", <<Sample(3, 0, 2, "Measured")>>) :
                contact \in Contacts}
    \union {Batch(1, ordinal, "Update", <<Sample(3, 2, 2, "Corrected"),
                                          Sample(4, 0, 3, "Measured")>>) :
                ordinal \in 2 .. 3}
    \union {Batch(contact, 3, phase, <<>>) :
                contact \in Contacts, phase \in {"End", "Cancel"}}
    \union {Batch(1, 3, "End", <<Sample(5, 0, 4, "Measured")>>)}
=============================================================================
