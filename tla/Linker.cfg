CONSTANTS
    RegionHalf = 65536
    Families <- MCFamilies
SPECIFICATION Spec
INVARIANTS
    SectionsFit
    SitesReach
    RefusedOnlyIfImpossible
    RoundTrip
    FetchesWhatWasLoaded
CHECK_DEADLOCK FALSE
