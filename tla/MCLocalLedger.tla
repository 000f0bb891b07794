--------------------------- MODULE MCLocalLedger ---------------------------
(* The local backend from two sides: its ledger under racing clients and     *)
(* crashes, and the workflow rules by which it takes the history of a subject. *)
(*                                                                         *)
(* Two organizations besides the portal: one with an operational role, one  *)
(* authority, so that a correction may be allowed or refused for each.      *)
EXTENDS LocalLedger, WorkflowHistory

VARIABLE scene

mcVars == << scene, vars, history >>

MCInit ==
    /\ scene \in {"ledger", "histories"}
    /\ Init
    /\ HistoryInit

MCNext ==
    \/ /\ scene = "ledger"
       /\ Next
       /\ UNCHANGED << scene, history >>
    \/ /\ scene = "histories"
       /\ HistoryNext
       /\ UNCHANGED << scene, vars >>

MCSpec == MCInit /\ [][MCNext]_mcVars
=============================================================================
