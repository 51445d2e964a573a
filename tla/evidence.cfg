SPECIFICATION MCSpec
CONSTANTS
    MaxRedirects = 1
    WallMaxChars = 1
    BodyCap = 3
    ReadPdfs = TRUE
    LossPart = 2
    LossWhole = 3
    PageMax = 1
    Overlap = 0
    WholePage = TRUE
    MaxPairs = 2
    MaxFailures = 2
    MaxChunksPerPair = 2
    MaxChunkCalls = 3
    MemoMax = 2
    Verdicts = {"supported", "contradicted", "absent", "quoted", "failed"}
    Writers = {"w"}
    QueryLimit = 1
    ReadCalls <- Unlimited
    ReadChars = 4
    ReadMax = 1
    Cards = TRUE
    ChunkChars = 2
    ChunkOverlap = 0
    PassageMin = 1
    PassageMax = 2
    MaxPassages = 1
    CardMax = 2
    MaxReaderCalls = 3
    MaxReaderFailures = 1
    CardsKept = 1
    Proposals <- OneRange
    Urls = {"a", "b", "c"}
    PageChoices <- MCPages
    Reports <- MCReports
    Limit = 3
    WriterAttempts = 1
    MaxRounds = 3
    MaxPasses = 2
    MaxBoots = 2
PROPERTY KeepsItsEvidence
INVARIANT ReadMeansShown
INVARIANT AbsenceIsWholePage
INVARIANT UnreadableFindingIsEarned
PROPERTY ReadingIsKept
CHECK_DEADLOCK FALSE
