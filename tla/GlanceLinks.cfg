SPECIFICATION PagesSpec
CONSTANTS
    Sources <- MCSources
    PackageOf <- MCPackageOf
    SlugOf <- MCSlugOf
    Pages <- SpreadPages
INVARIANTS
    GlanceLinksResolve
CHECK_DEADLOCK FALSE
