---------------------------- MODULE WorkflowHistory ----------------------------
(***************************************************************************)
(* Every history of one subject that is in order, and every way to spoil it  *)
(* by one more event, with what the two copies of the rules make of it.     *)
(*                                                                         *)
(* Nobody checks the type of the payload's "accepted": each copy reads what *)
(* is there in its own way, the chaincode with asBool and the portal with   *)
(* the bool of Python.                                                     *)
(***************************************************************************)
EXTENDS WorkflowMirror

CONSTANT MaxLength     \* bound on the length of a history

VARIABLE history

\* "false" also stands for null, 0, "" and a missing field, "text_false" for
\* any other text and for a number.
Values == {"true", "false", "text_true", "text_false"}

\* helpers.go, asBool
AsBool(value) == value \in {"true", "text_true"}

\* workflow.py, bool(payload.get("accepted"))
Truthy(value) == value # "false"

ByChaincode ==
    [k \in 1 .. Len(history) |-> [type |-> history[k].type,
                                  fact |-> AsBool(history[k].accepted)]]
ByPortal ==
    [k \in 1 .. Len(history) |-> [type |-> history[k].type,
                                  fact |-> Truthy(history[k].accepted)]]

HistoryInit == history = << >>

Record(type, accepted) ==
    /\ Len(history) < MaxLength
    /\ AnalyzeWorkflow(ByChaincode).valid
    /\ history' = Append(history, [type |-> type, accepted |-> accepted])

HistoryNext ==
    \/ \E type \in WorkflowTypes \ {"residue_custody"} : Record(type, "false")
    \/ \E accepted \in Values : Record("residue_custody", accepted)

HistorySpec == HistoryInit /\ [][HistoryNext]_history

ChaincodeStatus == AnalyzeWorkflow(ByChaincode)
PortalStatus == DeriveStatus(ByPortal)

AcceptedIn(h) ==
    \E k \in 1 .. Len(h) : h[k].type = "residue_custody" /\ h[k].fact

(* The residue is in custody, and the portal alone takes a transfer of it   *)
(* for accepted.                                                           *)
Misread ==
    /\ ChaincodeStatus.valid
    /\ ChaincodeStatus.workflow = "circular"
    /\ ChaincodeStatus.step = 2
    /\ AcceptedIn(ByPortal)
    /\ ~ AcceptedIn(ByChaincode)

(* The portal offers the steps that the chaincode would take, whatever the  *)
(* history, with one exception: while it misreads a transfer, it offers the *)
(* valorization and turns away the custody event the chaincode waits for.   *)
PortalMirrorsChaincode ==
    LET offered == {type \in WorkflowTypes : PyTransitionAllowed(PortalStatus, type)}
        taken == {type \in WorkflowTypes : MayFollow(type, ChaincodeStatus)}
    IN  /\ IF Misread
           THEN offered = {"valorization"} /\ taken = {"residue_custody"}
           ELSE offered = taken
        /\ PyTransitionAllowed(PortalStatus, "consumer_verification") <=>
               ChaincodeStatus.workflow = "product" /\ ChaincodeStatus.complete

(* A step the chaincode allows does not put the history out of order, and   *)
(* as long as the workflow is not complete it allows one.                  *)
AllowedStepsAdvance ==
    LET allowed == {type \in WorkflowTypes : MayFollow(type, ChaincodeStatus)}
    IN  /\ \A type \in allowed, fact \in BOOLEAN :
               LET after == AnalyzeWorkflow(Append(ByChaincode, [type |-> type, fact |-> fact]))
               IN  after.valid /\ after.step >= ChaincodeStatus.step
        /\ (ChaincodeStatus.valid /\ ~ ChaincodeStatus.complete) => allowed # {}

(* However often custody is handed on, the chaincode opens valorization      *)
(* exactly when one of the transfers was accepted by its own reading.       *)
ValorizationNeedsAcceptance ==
    MayFollow("valorization", ChaincodeStatus) <=>
        /\ ChaincodeStatus.valid
        /\ ChaincodeStatus.workflow = "circular"
        /\ ChaincodeStatus.step = 2
        /\ AcceptedIn(ByChaincode)
=============================================================================
