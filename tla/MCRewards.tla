------------------------------ MODULE MCRewards ------------------------------
(* The two backends, one of which a server is started with: rewards and     *)
(* reviews on the local ledger, and the consortium's decisions on Fabric.  *)
EXTENDS Governance, RewardDesk, TLC

VARIABLE backend    \* OLIVECHAIN_LEDGER_BACKEND

mcVars == << backend, deskVars, vars >>

MCInit ==
    \/ /\ backend = "local"
       /\ DeskInit
       /\ log = << >> /\ proposals = Nothing /\ pool = {}
    \/ /\ backend = "fabric"
       /\ Init
       /\ ledger = << >> /\ seen = [c \in Consoles |-> 0]

MCNext ==
    \/ backend = "local" /\ DeskNext /\ UNCHANGED << backend, vars >>
    \/ backend = "fabric" /\ Next /\ UNCHANGED << backend, deskVars >>

MCSpec == MCInit /\ [][MCNext]_mcVars
-----------------------------------------------------------------------------
On(type, actor, subject, data) == Entry(type, actor, subject, NoTarget, data)

Milling(oil, residues) ==
    On("milling", "mill", "batch", [received |-> 100, oil |-> oil, residues |-> residues])
Generated(kg) == On("residue_generation", "mill", "lot", [kg |-> kg])
Custody(from, to, kg, accepted) ==
    On("residue_custody", "hauler", "lot",
       [kg |-> kg, accepted |-> accepted, from |-> from, to |-> to])
Valorized(input, rejected) ==
    On("valorization", "plant", "lot", [input |-> input, rejected |-> rejected])
Output == On("useful_output", "plant", "lot", [lot |-> "lot"])
Lab(virgin) == On("lab_verification", "lab", "batch", [virgin |-> virgin])

MCLocalDrafts == {Milling(60, 10), Valorized(60, 0), Output}
MCDrafts == {Output}

Delivered == << Generated(100), Custody("mill", "plant", 96, TRUE) >>

MCLocalStarts ==
    {<< Lab(FALSE), Milling(15, 40) >>,
     Append(Delivered, Valorized(90, 2)),
     << Generated(100), Custody("mill", "plant", 100, FALSE) >>,
     << Generated(50), Custody("mill", "plant", 60, TRUE), Valorized(58, 2) >>,
     << Lab(TRUE), Custody("mill", "plant", 96, TRUE),
        Custody("mill", "other", 96, FALSE) >>}
\* A residue lot taken over twice, which two consoles question.
DisputedLot == {<< Custody("mill", "plant", 96, TRUE),
                   Custody("mill", "other", 96, FALSE) >>}

MCFabricStarts == {<< Lab(TRUE) >>}

Consortium == Permutations(Msps) \cup Permutations(ProposalIds)
                  \cup Permutations(Consoles)
=============================================================================
