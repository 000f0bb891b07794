SPECIFICATION Spec
CONSTANTS
    Subjects = {"batch", "residue"}
    Wallets = {"farmer", "hauler", "miller", "lab", "bottler", "seller", "shop", "recycler"}
    Portal = "portal"
    RoleOf <- MCRoleOf
    StartLogs <- Uncorrected
    StartTrust = {97}
    StartIds = 12
    MaxEvents = 14
    MaxSkew = 0
    Delays = {0}
    MaxInFlight = 1
    Revocable = {}
    NoSubject = NoSubject
INVARIANT StageStillHappened
CHECK_DEADLOCK FALSE
