------------------------------ MODULE Governance ------------------------------
(***************************************************************************)
(* Consortium decisions on the Fabric backend (governance.go).             *)
(*                                                                         *)
(* A reward, a review flag or a resolution is proposed by the administrator *)
(* of one organization, approved by others and finalized by anybody once    *)
(* enough organizations agree; finalizing records the event.  As every      *)
(* transaction of the channel, each of these runs on a state that may have  *)
(* moved on when it is committed: it is valid if what it read is unchanged. *)
(* Finalizing a reward reads all events, because it computes again whether  *)
(* the reward is due.  Nobody's certificate is of the consortium, so        *)
(* governed events are never corrected.                                    *)
(***************************************************************************)
EXTENDS Rewards

CONSTANTS
    Starts,         \* the histories of the channel the model starts from
    Drafts,         \* what the actors may record
    Msps,           \* the member organizations of the channel
    Threshold,      \* how many of them must agree
    ProposalIds,
    Stamps,         \* timestamps of flags; they come from the gateways
    MaxEvents,      \* bound on the length of the log
    MaxCorrections, \* bound on the corrections
    MaxInFlight     \* bound on the transactions under way

(* Rewards, flags and resolutions come from the consortium alone.           *)
ASSUME StartsAssumption ==
    \A lg \in Starts :
        /\ lg \in Seq({lg[n] : n \in DOMAIN lg})
        /\ \A n \in DOMAIN lg : lg[n].type \notin Governed
ASSUME DraftsAssumption == \A d \in Drafts : d.type \notin Governed

VARIABLES
    log,            \* the events of the channel
    proposals,      \* the proposals on the channel, by id
    pool            \* endorsed transactions that are not committed yet

vars == << log, proposals, pool >>

NotFinal == 0
Nothing == [p \in {} |-> p]

(* The payload of a proposed reward names a recipient, a rule and an amount; *)
(* it is exact when they are those of the reward for its target.           *)
Proposal == [event : Governed, target : Nat, exact : BOOLEAN,
             approvals : SUBSET Msps, final : Nat]

Init ==
    /\ log \in Starts
    /\ proposals = Nothing
    /\ pool = {}
-----------------------------------------------------------------------------
(* The reviews that hold back a reward: flags are read in the order of      *)
(* their timestamps, and the last one counts.                              *)
Latest(lg, flags) ==
    {f \in flags : \A g \in flags :
        \/ lg[f].data.stamp > lg[g].data.stamp
        \/ lg[f].data.stamp = lg[g].data.stamp /\ f >= g}

OpenFlagged(lg) ==
    {n \in DOMAIN lg : \E f \in Latest(lg, FlagsOn(lg, n)) : f \notin Resolved(lg)}

Due(lg) == DueRewards(lg, OpenFlagged(lg))

(* For the mutation runs: a reward was due when it was proposed.            *)
ValidAsProposed(lg, q) ==
    \/ q.event = "reward_issued" /\ q.exact /\ lg[q.target].type \in DOMAIN RewardRules
    \/ q.event = "review_flag" /\ q.target \in DOMAIN lg
    \/ q.event = "review_resolution" /\ q.target \in OfType(lg, "review_flag")

(* The checks of finalization that depend on the events.                   *)
StillValid(lg, q) ==
    \/ q.event = "reward_issued" /\ q.exact /\ q.target \in Due(lg)
    \/ q.event = "review_flag" /\ q.target \in DOMAIN lg
    \/ q.event = "review_resolution" /\ q.target \in OfType(lg, "review_flag")

(* The event a finalized proposal is recorded as.                          *)
Decision(lg, q, stamp) ==
    IF q.event = "reward_issued"
    THEN RewardEntry(lg, q.target, "consortium", FALSE)
    ELSE Entry(q.event, "consortium", q.target, q.target, [stamp |-> stamp])
-----------------------------------------------------------------------------
Stored(p) == IF p \in DOMAIN proposals THEN {proposals[p]} ELSE {}

(* An endorsed transaction on proposal p: what it read of the proposal, the *)
(* log it read if it looked for due rewards, and what it writes.           *)
Endorse(p, log_read, written, events) ==
    \E slot \in 1 .. MaxInFlight :
        /\ {tx.slot : tx \in pool} \cap 1 .. slot = 1 .. slot - 1
        /\ pool' = pool \cup {[slot |-> slot, id |-> p, read |-> Stored(p),
                               logRead |-> log_read, written |-> written,
                               events |-> events]}
        /\ UNCHANGED << log, proposals >>

ProposeGovernanceEvent(p, msp) ==
    /\ p \notin DOMAIN proposals
    /\ \E type \in Governed, n \in DOMAIN log, exact \in BOOLEAN :
          /\ type # "reward_issued" => exact
          /\ Endorse(p, {}, [event |-> type, target |-> n, exact |-> exact,
                             approvals |-> {msp}, final |-> NotFinal], << >>)

ApproveGovernanceProposal(p, msp) ==
    /\ p \in DOMAIN proposals
    /\ proposals[p].final = NotFinal
    /\ msp \notin proposals[p].approvals
    /\ Endorse(p, {}, [proposals[p] EXCEPT !.approvals = @ \cup {msp}], << >>)

(* For the mutation runs: a final proposal may be finalized again.          *)
FinalizeAgain(p) ==
    /\ p \in DOMAIN proposals
    /\ Cardinality(proposals[p].approvals) >= Threshold
    /\ StillValid(log, proposals[p])
    /\ \E stamp \in Stamps :
          Endorse(p, IF proposals[p].event = "reward_issued" THEN {log} ELSE {},
                  proposals[p], << Decision(log, proposals[p], stamp) >>)

FinalizeGovernanceProposal(p) ==
    /\ p \in DOMAIN proposals
    /\ proposals[p].final = NotFinal
    /\ Cardinality(proposals[p].approvals) >= Threshold
    /\ StillValid(log, proposals[p])
    /\ \E stamp \in Stamps :
          Endorse(p, IF proposals[p].event = "reward_issued" THEN {log} ELSE {},
                  proposals[p], << Decision(log, proposals[p], stamp) >>)
-----------------------------------------------------------------------------
(* The reads of the transaction still hold when it is ordered (Fabric MVCC). *)
ReadsCurrent(tx) == tx.read = Stored(tx.id) /\ tx.logRead \subseteq {log}

(* The transaction is ordered and valid.  An event is known by its place in *)
(* the log, so that a finalized proposal gets to know it here.             *)
Commit(tx) ==
    /\ ReadsCurrent(tx)
    /\ Len(log) + Len(tx.events) <= MaxEvents
    /\ log' = log \o tx.events
    /\ proposals' = [q \in DOMAIN proposals \cup {tx.id} |->
          IF q = tx.id
          THEN [tx.written EXCEPT
                   !.final = IF tx.events = << >> THEN NotFinal ELSE Len(log) + 1]
          ELSE proposals[q]]
    /\ pool' = pool \ {tx}

(* It is never ordered, or found invalid.                                  *)
Drop(tx) == pool' = pool \ {tx} /\ UNCHANGED << log, proposals >>

(* The actors record events and corrections of their own.                  *)
Record(e) ==
    /\ Len(log) < MaxEvents
    /\ log' = Append(log, e)
    /\ UNCHANGED << proposals, pool >>

SubmitEvent == \E d \in Drafts : Record(d)

CorrectEvent ==
    /\ Cardinality(OfType(log, "correction")) < MaxCorrections
    /\ \E n \in Live(log) :
          /\ log[n].type \notin Governed
          /\ Record(Entry("correction", log[n].actor, log[n].subject, n,
                          [note |-> "corrected"]))

Next ==
    \/ SubmitEvent
    \/ CorrectEvent
    \/ \E p \in ProposalIds :
          \/ \E msp \in Msps : \/ ProposeGovernanceEvent(p, msp)
                               \/ ApproveGovernanceProposal(p, msp)
          \/ FinalizeGovernanceProposal(p)
    \/ \E tx \in pool : Commit(tx) \/ Drop(tx)

Spec == Init /\ [][Next]_vars
-----------------------------------------------------------------------------
(* However finalizations race, an event is paid for once per rule.          *)
RewardedOnce ==
    \A m, n \in OfType(log, "reward_issued") :
        (log[m].target = log[n].target /\ log[m].data.rule = log[n].data.rule)
            => m = n

(* A reward is due at the moment it is recorded, not only when it was       *)
(* proposed, approved or endorsed: a flag, a correction or another reward   *)
(* that is committed in between stops it.                                  *)
PaidWhenDue ==
    [][ \A n \in OfType(log', "reward_issued") \ DOMAIN log :
            log'[n].target \in Due(log) ]_<< log >>

(* Every governed event on record is the outcome of exactly one proposal,   *)
(* and enough organizations stand behind it, for good.                     *)
GovernedByQuorum ==
    \A n \in DOMAIN log : log[n].type \in Governed =>
        \E p \in DOMAIN proposals :
            /\ proposals[p].final = n
            /\ proposals[p].event = log[n].type
            /\ proposals[p].target = log[n].target
            /\ Cardinality(proposals[p].approvals) >= Threshold
            /\ \A q \in DOMAIN proposals : proposals[q].final = n => q = p
=============================================================================
