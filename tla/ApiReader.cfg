SPECIFICATION ReadersSpec
CONSTANTS
    Files <- MCFiles
    Lines <- MCLines
    MaxLines = 4
    Types <- MCTypes
    MaxItems = 4
INVARIANTS
    RegionsTile
    CommentsAsInCpp
    RunsReadTogether
    EveryLineToldOnce
    ExamplesIntact
    EntitiesAsWritten
    FieldsAreOwn
PROPERTIES
    ReadToTheEnd
CHECK_DEADLOCK FALSE
