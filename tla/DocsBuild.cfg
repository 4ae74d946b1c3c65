SPECIFICATION Spec
CONSTANTS
    Versions <- MCVersions
    Guides <- MCGuides
    ApiPages <- MCApiPages
    EditsMeanwhile = TRUE
INVARIANTS
    TypeOK
    InterpreterSupported
    StagedAfresh
    UndisturbedToolchainMatches
PROPERTY NoNeedlessInstall
