SPECIFICATION Spec
CONSTANTS
    MaximumBatchSamples = 3
    QueueCapacity = 2
    OrdinalValues = 8
    Capabilities <- MCCapabilities
    Batches <- MCBatches
INVARIANTS
    TypeOK
    OffersObeyRules
    OffersOldest
    ScriptLeadsReceiver
PROPERTIES
    StopCancelsDelivered
    ImplementsContactStream
