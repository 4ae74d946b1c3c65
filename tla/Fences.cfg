SPECIFICATION PagesSpec
CONSTANTS
    Sources <- MCSources
    PackageOf <- MCPackageOf
    SlugOf <- MCSlugOf
    Pages <- DeepPages
INVARIANTS
    FencesNest
CHECK_DEADLOCK FALSE
