SPECIFICATION PagesSpec
CONSTANTS
    Sources <- MCSources
    PackageOf <- MCPackageOf
    SlugOf <- MCSlugOf
    Pages <- MCPages
INVARIANTS
    PublishesWhatItRead
    
    DiagramsClosed
CHECK_DEADLOCK FALSE
