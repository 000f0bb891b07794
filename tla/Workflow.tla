------------------------------- MODULE Workflow -------------------------------
(***************************************************************************)
(* The product and circular workflows of the chaincode (workflow.go, with  *)
(* the event types and permissions of models.go).                          *)
(*                                                                         *)
(* A history is the sequence of workflow events of one subject, oldest      *)
(* first.  Of an event this module looks at its type and at one fact of    *)
(* its payload, the one the contract branches on: whether a custody        *)
(* transfer was accepted, as the reader of the payload understands it.     *)
(***************************************************************************)
EXTENDS Naturals, Sequences

ProductSteps ==
    << "cultivation", "harvest", "collection_transport", "milling",
       "lab_verification", "bottling", "distribution_retail" >>

CircularSteps ==
    << "residue_generation", "residue_custody", "valorization",
       "useful_output", "return_or_sale", "env_accounting" >>

\* workflow.go repeats these in place; models.go has no name for them.
Repeatable == {"residue_custody", "useful_output", "return_or_sale"}

ElementsOf(s) == {s[k] : k \in 1 .. Len(s)}
ProductTypes == ElementsOf(ProductSteps)
CircularTypes == ElementsOf(CircularSteps)
WorkflowTypes == ProductTypes \cup CircularTypes
EventTypes == WorkflowTypes \cup {"consumer_verification", "correction"}

Permissions ==
    [cultivation |-> {"farmer"},
     harvest |-> {"farmer"},
     collection_transport |-> {"collector"},
     milling |-> {"mill"},
     lab_verification |-> {"laboratory"},
     bottling |-> {"bottler"},
     distribution_retail |-> {"distributor", "retailer"},
     consumer_verification |-> {"consumer", "retailer"},
     residue_generation |-> {"mill"},
     residue_custody |-> {"collector", "processor"},
     valorization |-> {"processor"},
     useful_output |-> {"processor"},
     return_or_sale |-> {"processor", "distributor"},
     env_accounting |-> {"authority", "processor"}]

-----------------------------------------------------------------------------
WorkflowOf(type) == IF type \in ProductTypes THEN "product" ELSE "circular"

StepsOf(workflow) ==
    IF workflow = "product" THEN ProductSteps ELSE CircularSteps

\* workflowIndex, counted from 1
StepIndex(type) ==
    LET steps == StepsOf(WorkflowOf(type))
    IN  CHOOSE k \in 1 .. Len(steps) : steps[k] = type

MillingStep == StepIndex("milling")

(* The body of the loop of analyzeWorkflow: the next event is the next step *)
(* of the workflow, or one more of a step that may be repeated.            *)
Advance(scan, event) ==
    LET repeats == event.type \in Repeatable /\ StepIndex(event.type) = scan.step
        advances == StepIndex(event.type) = scan.step + 1
    IN  IF scan.valid /\ (repeats \/ advances)
        THEN [scan EXCEPT
                 !.step = StepIndex(event.type),
                 !.accepted = @ \/ (event.type = "residue_custody" /\ event.fact)]
        ELSE [scan EXCEPT !.valid = FALSE]

ScanStart == [step |-> 0, accepted |-> FALSE, valid |-> TRUE]

\* The loop of analyzeWorkflow over a history of one workflow.
Scanned(history) ==
    LET scan[n \in 0 .. Len(history)] ==
            IF n = 0 THEN ScanStart ELSE Advance(scan[n - 1], history[n])
    IN  scan[Len(history)]

(* For the mutation runs: the repeated steps counted from one instead of    *)
(* zero, and a custody transfer that need not be accepted.                 *)
NextAllowedShifted(workflow, scan) ==
    CASE workflow = "circular" /\ scan.step = 2 ->
             {IF scan.accepted THEN "valorization" ELSE "residue_custody"}
      [] workflow = "circular" /\ scan.step \in {3, 4} ->
             {CircularSteps[scan.step], CircularSteps[scan.step + 1]}
      [] OTHER -> {StepsOf(workflow)[scan.step + 1]}

NextAllowedUnaccepted(workflow, scan) ==
    IF workflow = "circular" /\ scan.step \in {2, 4, 5}
    THEN {CircularSteps[scan.step], CircularSteps[scan.step + 1]}
    ELSE {StepsOf(workflow)[scan.step + 1]}

(* The steps that may follow a scan that did not reach the last one. *)
NextAllowed(workflow, scan) ==
    CASE workflow = "circular" /\ scan.step = 2 ->
             {IF scan.accepted THEN "valorization" ELSE "residue_custody"}
      [] workflow = "circular" /\ scan.step \in {4, 5} ->
             {CircularSteps[scan.step], CircularSteps[scan.step + 1]}
      [] OTHER -> {StepsOf(workflow)[scan.step + 1]}

NoStatus == [workflow |-> "unknown", exists |-> FALSE, valid |-> TRUE,
             step |-> 0, complete |-> FALSE, next |-> {}]

(* analyzeWorkflow.  A step of 0 is "not_started": a status that is not     *)
(* valid reports no progress and allows nothing.                           *)
AnalyzeWorkflow(history) ==
    LET workflows == {WorkflowOf(history[k].type) : k \in 1 .. Len(history)}
        workflow == WorkflowOf(history[1].type)
        scan == Scanned(history)
        complete == scan.step = Len(StepsOf(workflow))
    IN  IF history = << >> THEN NoStatus
        ELSE IF workflows = {"product", "circular"}
        THEN [NoStatus EXCEPT !.valid = FALSE]
        ELSE IF ~ scan.valid
        THEN [NoStatus EXCEPT !.workflow = workflow, !.exists = TRUE,
                              !.valid = FALSE]
        ELSE [workflow |-> workflow, exists |-> TRUE, valid |-> TRUE,
              step |-> scan.step, complete |-> complete,
              next |-> IF complete THEN {} ELSE NextAllowed(workflow, scan)]

(* The last part of validateWorkflowTransition: whether an event of this    *)
(* type may come next on a subject with this status.                       *)
MayFollow(type, status) ==
    /\ status.valid
    /\ IF status.exists
       THEN /\ status.workflow = WorkflowOf(type)
            /\ type \in status.next
       ELSE type = StepsOf(WorkflowOf(type))[1]
=============================================================================
