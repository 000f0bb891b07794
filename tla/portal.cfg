SPECIFICATION MCSpec
CONSTANTS
    Wallets = {"ann", "bob"}
    Certs = {"portal", "boot", "annAdmin", "bobFarmer", "bobMill"}
    Orgs = {"coop"}
    OrgOf <- MCOrgOf
    PublicRoles = {"farmer"}
    CertRole <- MCCertRole
    CertOrg <- MCCertOrg
    CertWallet <- MCCertWallet
    Service = "portal"
    MaxTx = 4
    MaxInFlight = 2
    Desks = {d1, d2}
    Registered = {"ann", "bob"}
    MaxLost = 1
    NoWallet = NoWallet
    NoCert = NoCert
    NoRequest = NoRequest
    Holders = {"ann"}
    Threads = {t1, t2}
    ChallengeTtl = 1
    SessionTtl = 1
    LoginLimit = 2
    LoginWindow = 1
    MaxTime = 2
    MaxMessages = 2
    MaxBehind = 2
    MaxSessions = 2
    NoMessage = NoMessage
SYMMETRY Interchangeable
INVARIANTS
    SessionAnswersChallenge
    RoleShownDuringRequest
    RevokedForGood
    UsableWasConfirmed
    NoStrayIdentity
CHECK_DEADLOCK FALSE
