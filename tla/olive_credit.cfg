SPECIFICATION Spec
CONSTANTS
    Subjects = {"batch", "residue"}
    Wallets = {"farmer", "hauler", "miller", "lab", "bottler", "seller", "shop", "recycler"}
    Portal = "portal"
    RoleOf <- MCRoleOf
    StartLogs <- NothingRecorded
    StartTrust = {60}
    StartIds = 12
    MaxEvents = 14
    MaxSkew = 0
    Delays = {0}
    MaxInFlight = 1
    Revocable = {}
    NoSubject = NoSubject
INVARIANT OliveReflectsMilestones
CHECK_DEADLOCK FALSE
