SPECIFICATION Spec
CONSTANTS
    Capacity = 3
    MaxSamples = 3
    Masks <- MCMasks
    Readings <- MCReadings
PROPERTY StopCancelsSeen
