SPECIFICATION FairSpec
CONSTANTS
    Writer = {w1}
    Files = 3
    Cleaner = {c1, c2}
    Nobody = Nobody
    OverdueDeaths = FALSE
INVARIANTS
    ArtifactHasBytes
    BytesAreTracked
PROPERTIES
    ForeignBytesKept
    OrphansAreRemoved
CHECK_DEADLOCK FALSE
