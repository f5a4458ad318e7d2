SPECIFICATION RequestsSpec
CONSTANTS
    Stem = {"a", "b"}
    Spelling = {"lower", "upper"}
    Request = {r1, r2}
    NoRequest = NoRequest
    Forms <- MCForms
    NoReference = NoReference
    MaxFiles = 3
    MaxFileBytes = 3
    MaxTotalBytes = 5
    MaxChunks = 2
    MaxFieldBytes = 2
    DefaultFieldLimit = 1
    ArtifactKinds <- MCArtifactKinds
    Reference <- MCReference
    Tag = {"html", "head", "body", "style", "img"}
    Attribute = {"src", "on"}
    NoAttribute = NoAttribute
    MaxNesting = 3
    MaxTokens = 5
    Window = 2
    MaxChunk = 2
    MaxDocument = 6
    MaxText = 5
    Value = {1, 2}
    Id = {1, 2, 3, 4}
    DescendingColumns = {1}
    PageSize = 2
SYMMETRY Symmetry
INVARIANTS
    NoStrayTemporary
    PackageWithinLimits
    ReferencesAreDecided
    FieldLimitIsOwn
    HtmlVerdict
    StyleVerdict
    PagesAreSlices
    WalkIsComplete
PROPERTIES
    NeverTrapped
CHECK_DEADLOCK FALSE
