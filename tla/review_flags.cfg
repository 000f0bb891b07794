SPECIFICATION MCSpec
CONSTANTS
    Drafts <- MCDrafts
    LocalDrafts <- MCLocalDrafts
    LocalStarts <- DisputedLot
    Starts <- MCFabricStarts
    Consoles = {c1, c2}
    Authority = "authority"
    Msps = {farmerOrg, makerOrg}
    Threshold = 2
    ProposalIds = {p1, p2}
    Stamps = {1, 2}
    MaxEvents = 1
    LocalMaxEvents = 7
    MaxCorrections = 1
    LocalMaxCorrections = 0
    MaxInFlight = 1
SYMMETRY Consortium
INVARIANT ReviewFirst
CHECK_DEADLOCK FALSE
