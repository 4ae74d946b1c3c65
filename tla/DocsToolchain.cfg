SPECIFICATION Spec
CONSTANTS
    Versions <- MCVersions
    Guides <- MCGuides
    ApiPages <- MCApiPages
    EditsMeanwhile = FALSE
INVARIANT ToolchainMatches
