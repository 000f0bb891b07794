------------------------------- MODULE MCPortal -------------------------------
(* The portal from two sides: persons signing in while their roles change,    *)
(* and administrators deciding on roles.                                      *)
(*                                                                         *)
(* The organization has one role that sign-up may ask for and one that an     *)
(* administrator grants; the real ones have either several of the first kind  *)
(* or only the second, and both go to one identity store.                     *)
EXTENDS RoleDesk, WalletLogin, TLC

VARIABLE scene

mcVars == << scene, loginVars, allVars >>

MCInit ==
    /\ scene \in {"sign-in", "decisions"}
    /\ LoginInit
    /\ scene = "decisions" => roleOf = [w \in Holders |-> "consumer"]
    /\ DeskInit

MCNext ==
    \/ /\ scene = "sign-in"
       /\ LoginNext
       /\ UNCHANGED << scene, allVars >>
    \/ /\ scene = "decisions"
       /\ DeskNext
       /\ UNCHANGED << scene, loginVars >>

MCSpec == MCInit /\ [][MCNext]_mcVars
-----------------------------------------------------------------------------
MCOrgOf == [farmer |-> "coop", mill |-> "coop"]

\* Ann may become the administrator, Bob a farmer or a mill operator.
MCCertRole ==
    [portal |-> "consumer", boot |-> "orgadmin", annAdmin |-> "orgadmin",
     bobFarmer |-> "farmer", bobMill |-> "mill"]

MCCertOrg == [c \in DOMAIN MCCertRole |-> "coop"]

MCCertWallet ==
    [portal |-> NoWallet, boot |-> NoWallet, annAdmin |-> "ann",
     bobFarmer |-> "bob", bobMill |-> "bob"]

Interchangeable == Permutations(Desks) \cup Permutations(Threads)
=============================================================================
