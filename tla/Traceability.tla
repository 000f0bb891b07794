----------------------------- MODULE Traceability -----------------------------
(***************************************************************************)
(* The contract on a Fabric channel used by several gateways at once.      *)
(*                                                                         *)
(* A gateway agent makes a proposal, which carries the time of its clock,   *)
(* and sends it to a peer.  The peer, which may get to it a while later,    *)
(* runs the contract on the state committed so far and endorses its read   *)
(* and write sets.  The endorsed transaction is ordered when the orderer    *)
(* gets it, or never.  At commit it is valid if nothing it read has changed *)
(* since; otherwise it is marked invalid and leaves no trace in the state.  *)
(* Several requests of one actor may be under way: a client whose answer    *)
(* did not come in time sends its request again, under a new event id.      *)
(***************************************************************************)
EXTENDS DomainContract

CONSTANTS
    StartIds,       \* the event ids of the start logs are 1 .. StartIds
    MaxInFlight,    \* bound on the transactions under way
    Revocable       \* the wallets that may lose their role

ASSUME RevocableAssumption == Revocable \subseteq Wallets
ASSUME StartIdsAssumption ==
    /\ StartIds \in 0 .. MaxEvents
    /\ \A log \in StartLogs : \A n \in 1 .. Len(log) : log[n].id <= StartIds

VARIABLES
    ws,             \* the world state of the channel
    pool,           \* endorsed transactions that are not committed yet
    nextId          \* the next fresh uuid4; time passes with it

vars == << ws, pool, nextId >>

TypeOK ==
    /\ ws \in WorldState
    /\ \A tx \in pool :
           /\ tx.event \in Event
           /\ tx.writes.event = tx.event
           /\ \A w \in DOMAIN tx.writes.accounts : tx.writes.accounts[w] \in Account
    /\ nextId \in 1 .. MaxEvents + 1

Init ==
    /\ ws \in StartStates
    /\ pool = {}
    /\ nextId = StartIds + 1
-----------------------------------------------------------------------------
\* The events whose one fact the contract looks at.
FactTypes == {"residue_custody", "useful_output", "env_accounting"}

Facts(type) == IF type \in FactTypes THEN BOOLEAN ELSE {FALSE}
Origins(type) == IF type = "residue_generation" THEN Subjects ELSE {NoSubject}
Targets(type) == IF type = "correction" THEN IdsOf(ws) ELSE {NoEvent}

(* The stamps of the proposals that are endorsed now: the agent reads its   *)
(* clock, which may be ahead, when it makes a proposal, and waits half a    *)
(* minute for the endorsement while others commit.                         *)
Stamps == {t \in Times : \E delay \in Delays, ahead \in 0 .. MaxSkew :
                             t + delay = nextId + ahead}

(* A peer accepts and endorses the request that an agent has proposed. *)
Propose(e) ==
    /\ Cardinality(pool) < MaxInFlight
    /\ Accepted(ws, e)
    /\ pool' = pool \cup {[event |-> e, reads |-> ReadSet(ws, e),
                           writes |-> WriteSet(ws, e)]}
    /\ nextId' = nextId + 1
    /\ UNCHANGED ws

ProposeAny ==
    /\ nextId <= MaxEvents
    /\ \E actor \in Actors, type \in EventTypes, subject \in Subjects,
          stamp \in Stamps :
       \E fact \in Facts(type), origin \in Origins(type), target \in Targets(type) :
           Propose([id |-> nextId, type |-> type, subject |-> subject,
                    actor |-> actor, time |-> stamp, fact |-> fact,
                    origin |-> origin, target |-> target])

(* The transaction is ordered, and its read set is still current. *)
Commit(tx) ==
    /\ tx.reads = ReadSet(ws, tx.event)
    /\ ws' = Apply(ws, tx.writes)
    /\ pool' = pool \ {tx}
    /\ UNCHANGED nextId

(* It is never ordered, or it is found invalid. *)
Drop(tx) ==
    /\ pool' = pool \ {tx}
    /\ UNCHANGED << ws, nextId >>

(* A role manager takes the role from a wallet. *)
Revoke(w) ==
    /\ w \in ws.active
    /\ ws' = Revoked(ws, w)
    /\ UNCHANGED << pool, nextId >>

Next ==
    \/ ProposeAny
    \/ \E tx \in pool : Commit(tx) \/ Drop(tx)
    \/ \E w \in Revocable : Revoke(w)

Spec == Init /\ [][Next]_vars
-----------------------------------------------------------------------------
(* Racing proposals, late commits and lost transactions add up to the       *)
(* contract running one transaction at a time: no check and no balance is   *)
(* computed from a state that has changed by the time it counts.           *)
Serial == INSTANCE TraceabilityLog WITH state <- ws
Serializable == Serial!LogSpec

(* Corrections of one event form a chain: an event is superseded by at most *)
(* one correction, and by one that came later, so that effectiveEvent ends  *)
(* and no accepted correction is left out of the effective payload.        *)
CorrectionsChain ==
    \A k \in 1 .. Len(ws.log) : ws.log[k].type = "correction" =>
        /\ ws.supersededBy[ws.log[k].target] = ws.log[k].id
        /\ \E j \in 1 .. k - 1 : ws.log[j].id = ws.log[k].target

(* However proposals race and whatever is corrected, the steps in force of  *)
(* a subject never name one step twice, unless the step may be repeated.   *)
NoStageTwice ==
    \A s \in Subjects, type \in WorkflowTypes \ Repeatable :
        Cardinality(LiveOf(ws, s, type)) <= 1

(* What must have happened before: a residue comes from a batch that was    *)
(* milled, it is valorized after a custody transfer was accepted, and a     *)
(* consumer verifies a batch that was delivered.                           *)
Before(k, subject, type, fact) ==
    \E j \in 1 .. k - 1 : /\ ws.log[j].subject = subject
                          /\ ws.log[j].type = type
                          /\ fact => ws.log[j].fact
Provenance ==
    \A k \in 1 .. Len(ws.log) :
        LET e == ws.log[k]
        IN  /\ e.type = "residue_generation" => Before(k, e.origin, "milling", FALSE)
            /\ e.type = "valorization" => Before(k, e.subject, "residue_custody", TRUE)
            /\ e.type = "consumer_verification" =>
                   Before(k, e.subject, "distribution_retail", FALSE)

(* From the commit of its revocation on, nothing a wallet signs reaches the *)
(* log, not even what was endorsed before.                                 *)
RevokedIsSilent ==
    [][ Len(ws'.log) > Len(ws.log) =>
            ws'.log[Len(ws'.log)].actor \in ws.active \cup {Portal} ]_ws

(* A completion bonus and the EcoTokens of a residue are given once, even   *)
(* when the event that earned them is corrected and recorded again.        *)
BonusOnce ==
    \A a, b \in ws.tokenTxs :
        (a.credit.basis = b.credit.basis /\ a.credit.token = b.credit.token) => a = b

(* The status of a subject is computed in the order of the stamps, and a    *)
(* peer accepts an event on the status it finds, so that the history of a   *)
(* subject can be found out of order, which ends the subject.  That takes a *)
(* correction of one of its events or a stamp behind that of an event       *)
(* committed before it: without these no race of proposals gets there.     *)
Undisturbed(state, s) ==
    /\ \A k \in 1 .. Len(state.log) : \A j \in 1 .. k - 1 :
           (state.log[j].subject = s /\ state.log[k].subject = s) =>
               Earlier(state.log[j], state.log[k])
    /\ \A k \in 1 .. Len(state.log) :
           state.log[k].subject = s => state.log[k].type # "correction"
HistoryInOrder ==
    \A s \in Subjects : Undisturbed(ws, s) => Status(ws, s).valid
-----------------------------------------------------------------------------
(* What passport.py says of corrections: the stage still happened.  No      *)
(* recorded step is ahead of the status of its subject.                    *)
StageStillHappened ==
    \A e \in Recorded(ws) : e.type \in WorkflowTypes =>
        Status(ws, e.subject).step >= StepIndex(e.type)

(* What the README of the chaincode says: Fabric ordering replaces the      *)
(* prev_hash head.  The events of a subject count in the channel's order.   *)
ChannelOrder ==
    \A s \in Subjects :
        LET Counts(e) ==
                e.subject = s /\ e.type \in WorkflowTypes /\ Live(ws, e)
        IN  SubjectWorkflowEvents(ws, s) = SelectSeq(ws.log, Counts)

(* What passport.html says: OliveToken reflects verified milestones.  The   *)
(* balance of a wallet is the sum of the credits on record.                *)
OliveReflectsMilestones ==
    \A w \in Wallets :
        ws.assets[w].OLIVE =
            Cardinality({t \in ws.tokenTxs : t.credit.wallet = w /\
                                             t.credit.token = "OLIVE"})
=============================================================================
