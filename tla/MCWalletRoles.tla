---------------------------- MODULE MCWalletRoles ----------------------------
(* Two organizations and two wallets.  Ann may become a farmer by request,   *)
(* or a mill operator or an administrator of the farmers by a grant; Bob may *)
(* become a farmer.  Each organization has a bootstrap administrator.       *)
EXTENDS WalletRoles

MCOrgOf == [farmer |-> "farmers", mill |-> "makers"]

MCCertRole ==
    [portal |-> "consumer", bootFarmers |-> "orgadmin", bootMakers |-> "orgadmin",
     annFarmer |-> "farmer", annMill |-> "mill", annAdmin |-> "orgadmin",
     bobFarmer |-> "farmer"]

MCCertOrg ==
    [portal |-> "makers", bootFarmers |-> "farmers", bootMakers |-> "makers",
     annFarmer |-> "farmers", annMill |-> "makers", annAdmin |-> "farmers",
     bobFarmer |-> "farmers"]

MCCertWallet ==
    [portal |-> NoWallet, bootFarmers |-> NoWallet, bootMakers |-> NoWallet,
     annFarmer |-> "ann", annMill |-> "ann", annAdmin |-> "ann",
     bobFarmer |-> "bob"]
=============================================================================
