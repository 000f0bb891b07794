SPECIFICATION Spec
CONSTANTS
    Subjects = {"batch", "residue"}
    Wallets = {"farmer", "hauler", "miller", "lab", "bottler", "seller", "shop", "recycler"}
    Portal = "portal"
    RoleOf <- MCRoleOf
    StartLogs <- MCStartLogs
    StartTrust = {97}
    StartIds = 12
    MaxEvents = 14
    MaxSkew = 0
    Delays = {0, 2}
    MaxInFlight = 2
    Revocable = {"miller", "recycler"}
    NoSubject = NoSubject
INVARIANTS
    TypeOK
    CorrectionsChain
    NoStageTwice
    Provenance
    BonusOnce
    HistoryInOrder
PROPERTIES
    Serializable
    RevokedIsSilent
CHECK_DEADLOCK FALSE
