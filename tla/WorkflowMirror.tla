---------------------------- MODULE WorkflowMirror ----------------------------
(***************************************************************************)
(* The copy of the workflow rules in the application (olivechain/           *)
(* workflow.py), which the portal and the optional local backend consult.  *)
(* A step of 0 is "not_started".                                           *)
(***************************************************************************)
EXTENDS Workflow, FiniteSets

PyNoStatus == [workflow |-> "unknown", exists |-> FALSE, valid |-> TRUE,
               step |-> 0, complete |-> FALSE, next |-> {}]

(* For the mutation runs: an unaccepted custody transfer not seen as a      *)
(* reason to wait.                                                         *)
PyNextImpatient(workflow, step, acceptedCustody) ==
    IF workflow = "circular" /\ step = 2 THEN {"valorization", "residue_custody"}
    ELSE IF workflow = "circular" /\ step = 4 THEN {"useful_output", "return_or_sale"}
    ELSE IF workflow = "circular" /\ step = 5 THEN {"return_or_sale", "env_accounting"}
    ELSE {StepsOf(workflow)[step + 1]}

\* next_allowed of a workflow that is not complete
PyNext(workflow, step, acceptedCustody) ==
    IF workflow = "circular" /\ step = 2
    THEN IF acceptedCustody THEN {"valorization"} ELSE {"residue_custody"}
    ELSE IF workflow = "circular" /\ step = 4 THEN {"useful_output", "return_or_sale"}
    ELSE IF workflow = "circular" /\ step = 5 THEN {"return_or_sale", "env_accounting"}
    ELSE {StepsOf(workflow)[step + 1]}

\* The positions at which the loop of derive_status raises the step.
Raises(history) ==
    {k \in 1 .. Len(history) :
        \A j \in 1 .. k - 1 : history[j].type # history[k].type}

(* The loop does not return early: every event raises the step by one, or   *)
(* repeats the step reached if that is one of the three that may repeat.   *)
PyInOrder(history) ==
    \A k \in 1 .. Len(history) :
        LET before == Cardinality({j \in Raises(history) : j < k})
            index == StepIndex(history[k].type)
        IN  \/ index = before + 1
            \/ index = before /\ history[k].type \in Repeatable

(* derive_status *)
DeriveStatus(history) ==
    LET workflow == WorkflowOf(history[1].type)
        step == Cardinality(Raises(history))
        acceptedCustody == \E k \in 1 .. Len(history) :
                               history[k].type = "residue_custody" /\ history[k].fact
        complete == step = Len(StepsOf(workflow))
    IN  IF history = << >> THEN PyNoStatus
        ELSE IF \E k \in 1 .. Len(history) : WorkflowOf(history[k].type) # workflow
        THEN [PyNoStatus EXCEPT !.exists = TRUE, !.valid = FALSE]
        ELSE IF ~ PyInOrder(history)
        THEN [PyNoStatus EXCEPT !.workflow = workflow, !.exists = TRUE,
                                !.valid = FALSE]
        ELSE [workflow |-> workflow, exists |-> TRUE, valid |-> TRUE,
              step |-> step, complete |-> complete,
              next |-> IF ~ complete THEN PyNext(workflow, step, acceptedCustody)
                       ELSE IF workflow = "product" THEN {"consumer_verification"}
                       ELSE {}]

\* transition_allowed, for the events of a workflow and for a consumer scan
PyTransitionAllowed(status, type) ==
    IF type = "consumer_verification"
    THEN status.workflow = "product" /\ status.complete
    ELSE IF ~ status.exists
    THEN type = IF type \in ProductTypes THEN "cultivation" ELSE "residue_generation"
    ELSE type \in status.next
=============================================================================
