---------------------------- MODULE DomainContract ----------------------------
(***************************************************************************)
(* SubmitEvent and CorrectEvent of the chaincode as functions of the world *)
(* state (contract.go, helpers.go, workflow.go, tokens.go): when they       *)
(* accept a request, what they read and what they write.                   *)
(*                                                                         *)
(* Fabric runs a transaction on the committed state and applies its write   *)
(* set later, so a transaction does not see its own writes: when it puts a  *)
(* key twice, both values are computed from the committed one and the last *)
(* put is the one that is applied.                                         *)
(*                                                                         *)
(* Payloads are left out but for one fact that the contract branches on: a *)
(* custody transfer was accepted, a useful output is bioenergy (worth one   *)
(* EcoToken), or, at the environmental accounting, the weights recorded for *)
(* the residue reconcile.                                                  *)
(***************************************************************************)
EXTENDS Workflow, FiniteSets

CONSTANTS
    Subjects,       \* subject ids: product batches and residue lots
    Wallets,        \* wallets, each bound to the certificate of one role
    Portal,         \* the consumer service identity, which has no wallet
    RoleOf,         \* the role in the certificate of each of them
    MaxEvents,      \* bound on the number of event ids handed out
    MaxSkew,        \* how far the clock of a gateway may be ahead
    Delays,         \* how long a proposal may be on its way to its endorsement
    NoSubject,
    StartLogs,      \* histories of the channel before the model starts
    StartTrust      \* trust scores the wallets bring from other batches

Actors == Wallets \cup {Portal}
EventIds == 1 .. MaxEvents
NoEvent == 0
Times == 0 .. MaxEvents + MaxSkew

ASSUME ActorsAssumption == Portal \notin Wallets /\ RoleOf[Portal] = "consumer"
ASSUME BoundsAssumption ==
    MaxEvents \in Nat /\ MaxSkew \in Nat /\ Delays \subseteq Nat
ASSUME NoSubjectAssumption == NoSubject \notin Subjects

Event == [id : EventIds, type : EventTypes, subject : Subjects, actor : Actors,
          time : Times, fact : BOOLEAN, origin : Subjects \cup {NoSubject},
          target : EventIds \cup {NoEvent}]

Tokens == {"OLIVE", "TRUST", "ECO"}

\* What a transaction gives tokens for, in the order it gives them.
ReasonOrder == << "milestone", "accepted_event", "product_completed",
                  "circular_completed", "bioenergy" >>
Reasons == ElementsOf(ReasonOrder)

(* What a token is given for: an event, or a subject that got somewhere.   *)
Basis == [reason : Reasons, event : EventIds \cup {NoEvent},
          subject : Subjects \cup {NoSubject}]

Credit == [wallet : Wallets, token : Tokens, amount : Nat \ {0}, basis : Basis]

TrustCap == 100
Account == [OLIVE : Nat, TRUST : 0 .. TrustCap, ECO : Nat,
            writer : EventIds \cup {NoEvent}]

(* A token transaction record, under the key of its transaction and, for    *)
(* TRUST, of the score it led to.                                          *)
TokenTx == [credit : Credit, event : EventIds, after : Nat]

WorldState ==
    [log : Seq(Event),                                   \* in commit order
     supersededBy : [EventIds -> EventIds \cup {NoEvent}],
     active : SUBSET Wallets,                            \* role_status
     assets : [Wallets -> Account],
     rewarded : SUBSET Basis,
     tokenTxs : SUBSET TokenTx]
-----------------------------------------------------------------------------
(* Reading the world state *)

Recorded(ws) == {ws.log[k] : k \in 1 .. Len(ws.log)}
IdsOf(ws) == {e.id : e \in Recorded(ws)}

Live(ws, e) == ws.supersededBy[e.id] = NoEvent

(* The order listEventsFromIndex sorts by: the timestamp of the proposal,   *)
(* which the client set, then the event id.                                *)
Earlier(a, b) == a.time < b.time \/ (a.time = b.time /\ a.id < b.id)

\* A set of events in that order: the k-th has k - 1 events before it.
InOrder(events) ==
    [k \in 1 .. Cardinality(events) |->
        CHOOSE e \in events : Cardinality({x \in events : Earlier(x, e)}) = k - 1]

StepsInForce(ws, subject) ==
    {e \in Recorded(ws) :
        e.subject = subject /\ e.type \in WorkflowTypes /\ Live(ws, e)}

SubjectWorkflowEvents(ws, subject) == InOrder(StepsInForce(ws, subject))

Status(ws, subject) == AnalyzeWorkflow(SubjectWorkflowEvents(ws, subject))

LiveOf(ws, subject, type) ==
    {e \in Recorded(ws) : e.subject = subject /\ e.type = type /\ Live(ws, e)}
-----------------------------------------------------------------------------
(* When a request is accepted *)

ReachedMilling(status) ==
    status.workflow = "product" /\ status.step >= MillingStep

(* For the mutation runs: residue_generation without a look at its batch.  *)
TransitionAllowedAnyOrigin(ws, e) ==
    IF e.type = "consumer_verification"
    THEN LET status == Status(ws, e.subject)
         IN  status.workflow = "product" /\ status.complete
    ELSE MayFollow(e.type, Status(ws, e.subject))

\* validateWorkflowTransition
TransitionAllowed(ws, e) ==
    IF e.type = "consumer_verification"
    THEN LET status == Status(ws, e.subject)
         IN  status.workflow = "product" /\ status.complete
    ELSE /\ e.type = "residue_generation" =>
                /\ e.origin # NoSubject
                /\ ReachedMilling(Status(ws, e.origin))
         /\ MayFollow(e.type, Status(ws, e.subject))

(* SubmitEvent: a consumer scan may come from the service identity, every   *)
(* other event from a certificate bound to an active wallet.               *)
SubmitAllowed(ws, e) ==
    /\ e.type # "correction"
    /\ RoleOf[e.actor] \in Permissions[e.type]
    /\ e.actor # Portal => e.actor \in ws.active
    /\ e.id \notin IdsOf(ws)
    /\ TransitionAllowed(ws, e)

(* For the mutation runs: a target may be corrected again.                 *)
CorrectAllowedAgain(ws, e) ==
    /\ e.type = "correction"
    /\ e.actor \in ws.active
    /\ e.id \notin IdsOf(ws)
    /\ \E target \in Recorded(ws) :
           /\ target.id = e.target
           /\ target.subject = e.subject
           /\ RoleOf[target.actor] = RoleOf[e.actor]

(* CorrectEvent: the role of a certificate determines its MSP, so the check *)
(* on the role of the original actor is also the check on its MSP.         *)
CorrectAllowed(ws, e) ==
    /\ e.type = "correction"
    /\ e.actor \in ws.active
    /\ e.id \notin IdsOf(ws)
    /\ \E target \in Recorded(ws) :
           /\ target.id = e.target
           /\ target.subject = e.subject
           /\ RoleOf[target.actor] = RoleOf[e.actor]
           /\ Live(ws, target)

Accepted(ws, e) == SubmitAllowed(ws, e) \/ CorrectAllowed(ws, e)
-----------------------------------------------------------------------------
(* Wallet incentives *)

ForEvent(reason, e) == [reason |-> reason, event |-> e.id, subject |-> NoSubject]
ForSubject(reason, s) == [reason |-> reason, event |-> NoEvent, subject |-> s]

Grant(wallet, token, amount, basis) ==
    [wallet |-> wallet, token |-> token, amount |-> amount, basis |-> basis]

(* mintEcoForCompletedResidue: to whoever milled the batch the residue came *)
(* from, for the bioenergy among its useful outputs.  (A subject has at     *)
(* most one live milling event: see NoStageTwice in Traceability.)         *)
EcoCredits(ws, residue) ==
    LET energy == {o \in LiveOf(ws, residue, "useful_output") : o.fact}
        origins == {g.origin : g \in LiveOf(ws, residue, "residue_generation")}
        milled == UNION {LiveOf(ws, b, "milling") : b \in origins}
    IN  IF energy = {} \/ milled = {} THEN {}
        ELSE {Grant((CHOOSE m \in milled : TRUE).actor, "ECO",
                    Cardinality(energy), ForSubject("bioenergy", residue))}

(* applyWalletIncentives: the credits an event asks for, at most one for    *)
(* each reason.                                                            *)
Credits(ws, e) ==
    IF e.actor = Portal \/ e.type = "correction" THEN {}
    ELSE (IF e.type \in ProductTypes
          THEN {Grant(e.actor, "OLIVE", 1, ForEvent("milestone", e))} ELSE {})
      \cup {Grant(e.actor, "TRUST", 1, ForEvent("accepted_event", e))}
      \cup (IF e.type = "distribution_retail"
            THEN {Grant(e.actor, "TRUST", 4, ForSubject("product_completed", e.subject))}
            ELSE {})
      \cup (IF e.type = "env_accounting" /\ e.fact
            THEN {Grant(e.actor, "TRUST", 5, ForSubject("circular_completed", e.subject))}
                 \cup EcoCredits(ws, e.subject)
            ELSE {})

\* The code gives the one credit after the other.
GivenAfter(c, d) ==
    \E j, k \in 1 .. Len(ReasonOrder) :
        j > k /\ ReasonOrder[j] = c.basis.reason /\ ReasonOrder[k] = d.basis.reason

(* For the mutation runs: credits given again for the same basis.          *)
DueAgain(ws, e) == Credits(ws, e)

\* The credits whose wallet-token-reward key is not on the ledger yet.
Due(ws, e) == {c \in Credits(ws, e) : c.basis \notin ws.rewarded}

(* For the mutation runs: a trust score without its cap.                   *)
CreditedUncapped(account, credit) == account[credit.token] + credit.amount

\* creditToken and adjustTrust: the balance a credit leads to.
Credited(account, credit) ==
    IF credit.token = "TRUST" /\ account.TRUST + credit.amount > TrustCap
    THEN TrustCap
    ELSE account[credit.token] + credit.amount

(* The record the last put of an account leaves: one credit, computed from  *)
(* the committed record like all the others.                               *)
AccountAfter(ws, e, wallet) ==
    LET due == {c \in Due(ws, e) : c.wallet = wallet}
        last == CHOOSE c \in due : \A d \in due : ~ GivenAfter(d, c)
    IN  [ws.assets[wallet] EXCEPT
            ![last.token] = Credited(ws.assets[wallet], last),
            !.writer = e.id]

(* The token transaction records: two of one transaction have one key, and  *)
(* the later replaces the earlier, if they raise a TRUST score to one value. *)
TokenTxsOf(ws, e) ==
    LET due == Due(ws, e)
        After(c) == Credited(ws.assets[c.wallet], c)
        Replaces(d, c) ==
            /\ GivenAfter(d, c)
            /\ d.wallet = c.wallet /\ d.token = c.token
            /\ c.token = "TRUST" => After(d) = After(c)
        kept == {c \in due : ~ \E d \in due : Replaces(d, c)}
    IN  {[credit |-> c, event |-> e.id, after |-> After(c)] : c \in kept}
-----------------------------------------------------------------------------
(* What a transaction reads and writes *)

\* The subjects whose events a request lists.
Listed(ws, e) ==
    CASE e.type = "correction" -> {}
      [] e.type = "residue_generation" -> {e.subject, e.origin}
      [] e.type = "env_accounting" ->
             {e.subject} \cup
             {g.origin : g \in LiveOf(ws, e.subject, "residue_generation")}
      [] OTHER -> {e.subject}

Supersession(ws, events) ==
    {[id |-> x.id, supersededBy |-> ws.supersededBy[x.id]] : x \in events}

(* For the mutation runs: event lists that are not validated again.        *)
ListReadsUnvalidated(ws, e) == {}

\* A range read lists keys: an event added to the range changes it.
ListReads(ws, e) ==
    Supersession(ws, {x \in Recorded(ws) : x.subject \in Listed(ws, e)})

(* For the mutation runs: the binding of the wallet checked off the ledger. *)
WalletReadElsewhere(ws, e) == TRUE

WalletRead(ws, e) == e.actor \in ws.active

(* The read set of a transaction, by the versions of what it read.  Events,  *)
(* index entries, supersede keys and reward keys are written once, so that  *)
(* their presence is their version; an account is known by its last writer. *)
(* The account a residue's EcoTokens would go to is not read once they are  *)
(* given: mintEcoForCompletedResidue returns before.                       *)
ReadSet(ws, e) ==
    LET credits == Credits(ws, e)
        opened == {c \in credits : c.token # "ECO" \/ c.basis \notin ws.rewarded}
    IN  [lists |-> ListReads(ws, e),
         keys |-> Supersession(ws, {x \in Recorded(ws) :
                                        x.id \in {e.id, e.target}}),
         wallet |-> WalletRead(ws, e),
         accounts |-> {<< c.wallet, ws.assets[c.wallet].writer >> : c \in opened},
         rewarded |-> {c.basis : c \in credits} \cap ws.rewarded]

(* The write set: the event with its index entries, the supersede key of a  *)
(* correction, and per credit an account, a record and a reward key.       *)
WriteSet(ws, e) ==
    [event |-> e,
     accounts |-> [w \in {c.wallet : c \in Due(ws, e)} |->
                      AccountAfter(ws, e, w)],
     rewarded |-> {c.basis : c \in Due(ws, e)},
     tokenTxs |-> TokenTxsOf(ws, e)]

(* What the ledger does with the write set of a valid transaction. *)
Apply(ws, writes) ==
    [ws EXCEPT
        !.log = Append(@, writes.event),
        !.supersededBy = IF writes.event.type = "correction"
                         THEN [@ EXCEPT ![writes.event.target] = writes.event.id]
                         ELSE @,
        !.assets = [w \in Wallets |-> IF w \in DOMAIN writes.accounts
                                      THEN writes.accounts[w] ELSE @[w]],
        !.rewarded = @ \cup writes.rewarded,
        !.tokenTxs = @ \cup writes.tokenTxs]

\* A transaction that runs alone.
Execute(ws, e) == Apply(ws, WriteSet(ws, e))

\* RevokeWalletRole, as far as the wallet's events are concerned.
Revoked(ws, wallet) == [ws EXCEPT !.active = @ \ {wallet}]
-----------------------------------------------------------------------------
(* Where the model starts *)

EmptyState(trust) ==
    [log |-> << >>,
     supersededBy |-> [i \in EventIds |-> NoEvent],
     active |-> Wallets,
     assets |-> [w \in Wallets |-> [OLIVE |-> 0, TRUST |-> trust, ECO |-> 0,
                                    writer |-> NoEvent]],
     rewarded |-> {},
     tokenTxs |-> {}]

\* The states a log leads through when it is submitted event by event.
Replay(log, trust) ==
    LET state[n \in 0 .. Len(log)] ==
            IF n = 0 THEN EmptyState(trust) ELSE Execute(state[n - 1], log[n])
    IN  state

StartStates == {Replay(log, trust)[Len(log)] : log \in StartLogs, trust \in StartTrust}

ASSUME StartAssumption ==
    /\ StartTrust \subseteq 0 .. TrustCap
    /\ StartLogs \subseteq Seq(Event)
    /\ \A log \in StartLogs, trust \in StartTrust : \A n \in 1 .. Len(log) :
           Accepted(Replay(log, trust)[n - 1], log[n])
=============================================================================
