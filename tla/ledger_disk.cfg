SPECIFICATION Spec
CONSTANTS
    Orgs = {"farm", "authority", "portal"}
    Authorities = {"authority"}
    Writers = {"farm", "authority"}
    Portal = "portal"
    MaxEvents = 3
    NoBody = NoBody
    NoJob = NoJob
INVARIANT DiskReverifies
CHECK_DEADLOCK FALSE
