SPECIFICATION Spec
CONSTANTS
    MaximumBatchSamples = 3
    MaxId = 4
    MaxSequence = 2
    MaxOrdinal = 3
    Capabilities <- MCCapabilities
    Batches <- MCBatches
INVARIANTS
    VerdictMatchesHistory
    PredictionCorrectedOnce
    CorrectsAnEarlierPrediction
