SPECIFICATION MCSpec
CONSTANTS
    Drafts <- MCDrafts
    LocalDrafts <- MCLocalDrafts
    LocalStarts <- MCLocalStarts
    Starts <- MCFabricStarts
    Consoles = {c1, c2}
    Authority = "authority"
    Msps = {farmerOrg, makerOrg}
    Threshold = 2
    ProposalIds = {p1, p2}
    Stamps = {1, 2}
    MaxEvents = 3
    LocalMaxEvents = 6
    MaxCorrections = 1
    LocalMaxCorrections = 1
    MaxInFlight = 2
SYMMETRY Consortium
INVARIANTS
    EnginePaysOnce
    RecoveredWasGenerated
    DoublePaymentIsReported
    RewardedOnce
    GovernedByQuorum
PROPERTIES
    PaidWhenDue
CHECK_DEADLOCK FALSE
