SPECIFICATION Spec
CONSTANTS
    Lenses = {"logic", "evidence"}
    Writers <- MCWriters
    Critics <- MCCritics
    Orchestrator = "o"
    IdentityOf <- MCIdentityOf
    FamilyOf <- MCFamilyOf
    Tier <- MCTier
    Repetitions = 2
    MaxSchemaFailureRate = 40
    MinObviousSensitivity = 50
    WarnLensSensitivity = 60
    MaxControlMaterialRate = 100
    WarnControlMaterialRate = 34
    Exams <- MCPassAndFail
    Auditioners = {p1, p2}
    Scopes <- MCScopes
    Forced = {TRUE, FALSE}
    ModesOf <- MCModesOf
    Enforced = {TRUE, FALSE}
    MaxAge = 0
    TornWrites = TRUE
    Outages <- MCOutages
    Settings <- MCSettings
    FetchMaxChars = 1
    FetchBodyMaxChars = 2
    ReadMaxChars = 3
    MaxAuditions = 3
    MaxRegime = 1
    MaxDay = 1
SYMMETRY MCSymmetry
VIEW MCView
INVARIANTS
    GateFollowsTheRecord
    DegradesExactlyWhenStaffed
CHECK_DEADLOCK FALSE
