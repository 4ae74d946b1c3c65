SPECIFICATION FairSpec
CONSTANTS
    Capacity = 2
    MaxSamples = 3
    AcceptPointerFallback = TRUE
    TabletMasks <- MCTabletMasks
    PenReadings <- OneReading
INVARIANTS
    TypeOK
    SessionAgrees
    RetryArmed
    LentMatchesDelivery
    EraserDeclared
PROPERTIES
    HeadLeaves
    WaitingIsOffered
