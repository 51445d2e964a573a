SPECIFICATION MCSpec
CONSTANTS
    Requests = {q1, q2}
    Callers = {"caller"}
    MaxEvents = 2
    Window = 2
    MaxQueueDepth = 2
    MaxClock = 4
    MaxCalls = 6
    Owners = {ann, bob}
    Endpoints = {phone, laptop, tablet, kiosk}
    Strangers = {kiosk}
    MaxPerIdentity = 2
    Notifiers = {n1}
    MaxClaims = 4
    MaxNotices = 2
    Runs = {1, 2}
    Workers = {w1}
    MaxResumes = 3
    FirstDrafts <- MCFirstDrafts
    Replies <- MCReplies
    MaxTurns = 1
    Lenses = {"logic", "evidence"}
    Writers <- MCWriters
    Critics <- MCCritics
    Orchestrator = "o"
    IdentityOf <- MCIdentityOf
    FamilyOf <- MCFamilyOf
    Tier <- MCTier
    Repetitions = 2
    MaxSchemaFailureRate = 40
    MinObviousSensitivity = 50
    WarnLensSensitivity = 60
    MaxControlMaterialRate = 100
    WarnControlMaterialRate = 34
    Exams <- MCExams
    Auditioners = {p1}
    Scopes <- MCEvidenceOnly
    Forced = {FALSE}
    ModesOf <- MCModesOf
    Enforced = {TRUE, FALSE}
    MaxAge = 0
    TornWrites = FALSE
    Outages <- MCNoOutage
    Settings <- MCPlain
    FetchMaxChars = 1
    FetchBodyMaxChars = 2
    ReadMaxChars = 3
    MaxAuditions = 1
    MaxRegime = 2
    MaxDay = 0
SYMMETRY MCAlike
INVARIANTS
    LimitIsExact
    DevicesFollowTheirIdentity
    SweepSparesTheLive
    VerdictIsEarned
PROPERTY EntriesFollowTheirCitations
CHECK_DEADLOCK FALSE
