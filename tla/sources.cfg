SPECIFICATION MCSpec
CONSTANTS
    MaxRedirects = 1
    WallMaxChars = 1
    BodyCap = 1
    ReadPdfs = TRUE
    Readers = {c1, c2}
    Urls = {"u1", "u2"}
    Carries <- MCCarries
    Registries <- MCRegistries
    Archives <- MCArchives
    Renders = TRUE
    Limits <- MCLimits
    PageAnswers <- MCPages
    PdfAnswers <- MCPdfs
    Answering = {"record", "gone", "down"}
    Rendering = {"page", "failed"}
    Passes <- MCPasses
    Drafts <- MCDrafts
    MaxSourceUrls = 3
    VerifySources = TRUE
    MaxBoots = 2
SYMMETRY Critics
VIEW MCView
INVARIANT AbsenceIsKeptAndEarned
INVARIANT CoverageIsFurthest
PROPERTY ConclusionsStand
CHECK_DEADLOCK FALSE
