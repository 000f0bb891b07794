SPECIFICATION Spec
CONSTANTS
    Wallets = {"ann", "bob"}
    Certs = {"portal", "bootFarmers", "bootMakers", "annFarmer", "annMill", "annAdmin", "bobFarmer"}
    Orgs = {"farmers", "makers"}
    OrgOf <- MCOrgOf
    PublicRoles = {"farmer"}
    CertRole <- MCCertRole
    CertOrg <- MCCertOrg
    CertWallet <- MCCertWallet
    Service = "portal"
    MaxTx = 6
    MaxInFlight = 2
    NoWallet = NoWallet
    NoCert = NoCert
    NoRequest = NoRequest
INVARIANTS
    TypeOK
    PendingMatches
    BindingMatches
PROPERTIES
    DecisionsFinal
    OwnOrganizationDecides
CHECK_DEADLOCK FALSE
