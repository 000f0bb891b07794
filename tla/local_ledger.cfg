SPECIFICATION MCSpec
CONSTANTS
    Orgs = {"farm", "authority", "portal"}
    Authorities = {"authority"}
    Writers = {"farm", "authority"}
    Portal = "portal"
    MaxEvents = 3
    NoBody = NoBody
    NoJob = NoJob
    MaxLength = 7
INVARIANTS
    AckedDurable
    ChainIntact
    SupersessionRebuilds
    PointersForward
    PortalMirrorsChaincode
    AllowedStepsAdvance
    ValorizationNeedsAcceptance
PROPERTY AppendOnly
CHECK_DEADLOCK FALSE
