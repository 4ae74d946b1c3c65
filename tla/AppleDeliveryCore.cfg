SPECIFICATION Spec
CONSTANTS
    Capacity = 3
    MaxSamples = 5
    Masks <- MCMasks
    Readings <- MCReadings
INVARIANTS
    TypeOK
    OffersInSequence
    IndInv
PROPERTIES
    BusyRetainsHead
    DrainedStopCancelsSeen
    OverflowOnlyWhileBusy
    ImplementsContactStream
