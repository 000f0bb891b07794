SPECIFICATION MCSpec
CONSTANTS
    Clients = {"mill", "lab"}
    Artifacts = {"photo"}
    Handlers = {h1, h2}
    MaxKeys = 5
    MaxFileEvents = 2
    MaxFaults = 2
    MaxExports = 1
    NoKey = NoKey
    Nobody = Nobody
    Requests = {t1, t2}
    Issuers = {t1}
    Peers = {"farmer", "courier"}
    OwnPeer = "farmer"
    Kinds = {"scan"}
    MaxEvents = 3
    MaxFailures = 1
    Unlocked = Unlocked
INVARIANTS
    AckedOrgsSurvive
    ArchiveComplete
    KeysKept
    ListsNeverGoBack
    AuditBlamesNoEvent
PROPERTIES
    RequestsEnd
CHECK_DEADLOCK FALSE
