SPECIFICATION Spec
CONSTANTS
    Writer = {w1}
    Files = 1
    Cleaner = {c1}
    Nobody = Nobody
    OverdueDeaths = TRUE
SYMMETRY Symmetry
INVARIANTS
    ArtifactHasBytes
CHECK_DEADLOCK FALSE
