------------------------------ MODULE RewardDesk ------------------------------
(***************************************************************************)
(* The authority at work on the local backend (api.py, incentives.py).      *)
(*                                                                         *)
(* A console of the authority loads its worklist from the server and acts   *)
(* on it later: it signs a flag for an anomaly, a resolution for an open    *)
(* flag, or a reward that is due, and the commit route checks the role, the *)
(* fields and the head of the chain, but not whether the reward is still    *)
(* due.  A server configured with an incentive engine also issues all due   *)
(* rewards by itself, in one request under the write lock.  Meanwhile the   *)
(* actors record events and corrections.                                   *)
(***************************************************************************)
EXTENDS Rewards

CONSTANTS
    LocalStarts,    \* the histories of the ledger the model starts from
    LocalDrafts,    \* what the actors may record
    Consoles,
    Authority,
    LocalMaxEvents, \* bound on the length of the ledger
    LocalMaxCorrections \* bound on the corrections

(* Rewards, flags and resolutions come from the authority alone.             *)
ASSUME LocalStartsAssumption ==
    \A lg \in LocalStarts :
        /\ lg \in Seq({lg[n] : n \in DOMAIN lg})
        /\ \A n \in DOMAIN lg : lg[n].type \notin Governed
ASSUME LocalDraftsAssumption == \A d \in LocalDrafts : d.type \notin Governed

VARIABLES
    ledger,         \* the events of the ledger
    seen            \* seen[c]: how much of it console c has last loaded

deskVars == << ledger, seen >>

DeskInit ==
    /\ ledger \in LocalStarts
    /\ seen = [c \in Consoles |-> 0]

Worklist(c) == SubSeq(ledger, 1, seen[c])

Room(k) == Len(ledger) + k <= LocalMaxEvents
CommitEvent(e) == Room(1) /\ ledger' = Append(ledger, e) /\ UNCHANGED seen
-----------------------------------------------------------------------------
Submit == \E d \in LocalDrafts : CommitEvent(d)

(* The original actor or an authority may correct an event.                *)
Correct ==
    /\ Cardinality(OfType(ledger, "correction")) < LocalMaxCorrections
    /\ \E n \in DOMAIN ledger : \E by \in {ledger[n].actor, Authority} :
           CommitEvent(Entry("correction", by, ledger[n].subject, n, [note |-> "corrected"]))

\* GET /governance
Load(c) ==
    /\ seen[c] # Len(ledger)
    /\ seen' = [seen EXCEPT ![c] = Len(ledger)]
    /\ UNCHANGED ledger

RaiseFlag(c) ==
    \E f \in Unflagged(Worklist(c)) :
        CommitEvent(Entry("review_flag", Authority, f.event, f.event,
                     [rule |-> f.rule]))

Resolve(c) ==
    \E m \in OpenFlagEvents(Worklist(c)) :
        CommitEvent(Entry("review_resolution", Authority, m, m,
                     [decision |-> "cleared"]))

\* The console signs a reward as GET /rewards/due listed it.
IssueReward(c) ==
    \E n \in DueRewards(Worklist(c), OpenFlags(Worklist(c))) :
        CommitEvent(RewardEntry(ledger, n, Authority, TRUE))

(* The events of a set in the order of the ledger.                          *)
InLedgerOrder(S) ==
    CHOOSE s \in [1 .. Cardinality(S) -> S] :
        \A j, k \in 1 .. Cardinality(S) : j < k => s[j] < s[k]

\* POST /rewards/run
RunEngine ==
    LET due == InLedgerOrder(DueRewards(ledger, OpenFlags(ledger)))
    IN  /\ due # << >>
        /\ Room(Len(due))
        /\ ledger' = ledger \o [k \in DOMAIN due |->
                                  RewardEntry(ledger, due[k], Authority, FALSE)]
        /\ UNCHANGED seen

DeskNext ==
    \/ Submit
    \/ Correct
    \/ \E c \in Consoles : Load(c) \/ RaiseFlag(c) \/ Resolve(c) \/ IssueReward(c)
    \/ RunEngine

DeskSpec == DeskInit /\ [][DeskNext]_deskVars
-----------------------------------------------------------------------------
PaidFor(m, n) ==
    /\ {m, n} \subseteq OfType(ledger, "reward_issued")
    /\ ledger[m].target = ledger[n].target
    /\ ledger[m].data.rule = ledger[n].data.rule

ByEngine(n) == n \in OfType(ledger, "reward_issued") /\ ~ledger[n].data.described

(* The engine is idempotent: it never pays for an event that has been paid  *)
(* for under the same rule, by itself or by a console, even when that       *)
(* reward was corrected since.                                             *)
EnginePaysOnce ==
    \A n \in DOMAIN ledger : ByEngine(n) => \A m \in 1 .. n - 1 : ~PaidFor(m, n)

(* What the engine pays for as recovered was there: three tolerances of 5%  *)
(* lie between the weight of a lot when it came up and the weight that was  *)
(* accounted for.                                                          *)
RecoveredWasGenerated ==
    \A n \in DOMAIN ledger : ByEngine(n) /\ ledger[n].data.rule = "verified_recovery" =>
        LET before == SubSeq(ledger, 1, n - 1)
            rec == Reconcile(before, ledger[ledger[n].target].data.lot)
        IN  857375 * rec.accounted <= 1000000 * rec.generated

(* Two consoles that pay for the same event off stale worklists are found   *)
(* out: the anomaly scan reports the second reward as a duplicate record,   *)
(* unless it has been corrected.                                           *)
DoublePaymentIsReported ==
    \A n \in Live(ledger) : \A m \in 1 .. n - 1 :
        (PaidFor(m, n) /\ ledger[m].data = ledger[n].data) =>
            Finding("duplicate_record", n) \in Scan(ledger)
-----------------------------------------------------------------------------
(* What incentives.py says of reviews: events under an unresolved review    *)
(* flag are not rewardable yet.  The engine pays for an event only when     *)
(* every flag raised on it has been answered.                              *)
ReviewFirst ==
    \A n \in DOMAIN ledger : ByEngine(n) =>
        LET before == SubSeq(ledger, 1, n - 1)
        IN  FlagsOn(before, ledger[n].target) \subseteq Resolved(before)
=============================================================================
