-------------------------------- MODULE Rewards --------------------------------
(***************************************************************************)
(* What is computed from the events on record: the mass balance of a        *)
(* residue lot (massbalance.py), the anomaly scan (anomaly.py), the reviews *)
(* that are open and the rewards that are due (incentives.py).             *)
(*                                                                         *)
(* A log is a sequence of entries, and an entry is known by its position.   *)
(* The target of an entry is the position of the event it is about: what a  *)
(* correction supersedes, a flag questions, a resolution decides on, or a   *)
(* reward is paid for.  Data is the payload, with the fields its type has.  *)
(* Weights are whole kilograms, so that no rounding comes in.              *)
(***************************************************************************)
EXTENDS Integers, Sequences, FiniteSets
LOCAL INSTANCE FiniteSetsExt

NoTarget == 0
Governed == {"reward_issued", "review_flag", "review_resolution"}

Entry(type, actor, subject, target, data) ==
    [type |-> type, actor |-> actor, subject |-> subject,
     target |-> target, data |-> data]

OfType(log, type) == {n \in DOMAIN log : log[n].type = type}

(* A correction supersedes its target for good, even when the correction is *)
(* corrected in turn.                                                      *)
Superseded(log) == {log[n].target : n \in OfType(log, "correction")}
Live(log) == DOMAIN log \ Superseded(log)
LiveOf(log, type, subject) ==
    {n \in OfType(log, type) \ Superseded(log) : log[n].subject = subject}
-----------------------------------------------------------------------------
(* The mass balance of a residue lot.                                       *)

Within(a, b) ==
    LET more == IF a < b THEN b ELSE a
        less == IF a < b THEN a ELSE b
    IN  100 * (more - less) <= 5 * more

(* What kg gives for some of the places 1 .. n, added up from the first on.  *)
Total(kg, n) ==
    LET total[k \in 0 .. n] ==
            IF k = 0 THEN 0
            ELSE total[k - 1] + (IF k \in DOMAIN kg THEN kg[k] ELSE 0)
    IN  total[n]

Reconcile(log, lot) ==
    LET Sum(type, Kg(_)) ==
            Total([n \in LiveOf(log, type, lot) |-> Kg(log[n].data)], Len(log))
    IN  [generated   |-> Sum("residue_generation", LAMBDA d : d.kg),
         transferred |-> Sum("residue_custody", LAMBDA d : d.kg),
         accepted    |-> Sum("residue_custody",
                             LAMBDA d : IF d.accepted THEN d.kg ELSE 0),
         accounted   |-> Sum("valorization", LAMBDA d : d.input + d.rejected)]

(* For the mutation runs: what left the mill is not compared with what came *)
(* up there.                                                               *)
BalancedFromCustodyOn(rec) ==
    /\ rec.generated # 0
    /\ rec.accepted # 0 => Within(rec.transferred, rec.accepted)
    /\ rec.accounted # 0 => Within(rec.accepted, rec.accounted)
    /\ rec.accepted > 0 => rec.accounted # 0

Balanced(rec) ==
    /\ rec.generated # 0
    /\ rec.transferred # 0 => Within(rec.generated, rec.transferred)
    /\ rec.accepted # 0 => Within(rec.transferred, rec.accepted)
    /\ rec.accounted # 0 => Within(rec.accepted, rec.accounted)
    /\ rec.accepted > 0 => rec.accounted # 0
-----------------------------------------------------------------------------
(* The anomaly scan: which rule finds which event.                          *)

Finding(rule, n) == [rule |-> rule, event |-> n]

Outside(part, whole, low, high) ==
    100 * part < low * whole \/ 100 * part > high * whole

ImplausibleYields(log) ==
    {Finding("implausible_oil_yield", n) :
        n \in {m \in OfType(log, "milling") \ Superseded(log) :
                  /\ log[m].data.received > 0
                  /\ Outside(log[m].data.oil, log[m].data.received, 5, 30)}}

ResidueRatio(log) ==
    {Finding("implausible_residue_ratio", n) :
        n \in {m \in OfType(log, "milling") \ Superseded(log) :
                  /\ log[m].data.received > 0
                  /\ log[m].data.residues # 0
                  /\ Outside(log[m].data.residues, log[m].data.received, 20, 90)}}

(* For the mutation runs: what the authority records is not compared.       *)
DuplicatesOfActors(log) ==
    {Finding("duplicate_record", n) :
        n \in {m \in Live(log) :
                  /\ log[m].type \notin Governed \cup {"consumer_verification", "correction"}
                  /\ \E k \in 1 .. m - 1 : log[k] = log[m]}}

(* An event that repeats an earlier one, which may be superseded by now.   *)
DuplicateRecords(log) ==
    {Finding("duplicate_record", n) :
        n \in {m \in Live(log) :
                  /\ log[m].type \notin {"consumer_verification", "correction"}
                  /\ \E k \in 1 .. m - 1 : log[k] = log[m]}}

(* A transfer by someone else than the receiver of the one before.         *)
ConflictingCustody(log) ==
    LET Earlier(m) == {k \in LiveOf(log, "residue_custody", log[m].subject) : k < m}
        InConflict(m) ==
            /\ Earlier(m) # {}
            /\ log[m].data.from # log[Max(Earlier(m))].data.to
    IN  {Finding("conflicting_custody", n) :
            n \in {m \in OfType(log, "residue_custody") \ Superseded(log) :
                      InConflict(m)}}

Scan(log) == ImplausibleYields(log) \cup DuplicateRecords(log)
                 \cup ConflictingCustody(log) \cup ResidueRatio(log)
-----------------------------------------------------------------------------
(* Reviews.  Only the last flag of an event counts.                         *)

Resolved(log) == {log[n].target : n \in OfType(log, "review_resolution")}

FlagsOn(log, n) == {m \in OfType(log, "review_flag") : log[m].target = n}

LastFlags(log, n) ==
    {f \in FlagsOn(log, n) : \A g \in FlagsOn(log, n) : g <= f}

OpenFlags(log) ==
    {n \in DOMAIN log : \E f \in LastFlags(log, n) : f \notin Resolved(log)}

(* The worklist of the authority lists each flag on its own.               *)
OpenFlagEvents(log) == OfType(log, "review_flag") \ Resolved(log)

Unflagged(log) ==
    {f \in Scan(log) : \A m \in OfType(log, "review_flag") : log[m].target # f.event}
-----------------------------------------------------------------------------
(* Rewards.  Each type of event has at most one rule.                       *)

RewardRules ==
    [residue_custody       |-> [rule |-> "residue_delivery", amount |-> 10],
     lab_verification      |-> [rule |-> "quality_criteria", amount |-> 15],
     return_or_sale        |-> [rule |-> "soil_return", amount |-> 20],
     useful_output         |-> [rule |-> "verified_recovery", amount |-> 25],
     milling               |-> [rule |-> "prompt_records", amount |-> 5],
     consumer_verification |-> [rule |-> "circular_participation", amount |-> 1]]

NeedsMassBalance == {"return_or_sale", "useful_output"}

(* What a reward says: who gets how much, under which rule, and whether the *)
(* description of the rule is copied along.                                *)
Reward(log, n, described) ==
    [recipient |-> log[n].actor, rule |-> RewardRules[log[n].type].rule,
     amount |-> RewardRules[log[n].type].amount, described |-> described]

(* For the mutation runs: a reward that was corrected is forgotten.         *)
RewardInForce(log, n) ==
    \E m \in OfType(log, "reward_issued") \ Superseded(log) :
        /\ log[m].target = n
        /\ log[m].data.rule = RewardRules[log[n].type].rule

(* Every reward on record counts, superseded or not.                        *)
AlreadyRewarded(log, n) ==
    \E m \in OfType(log, "reward_issued") :
        /\ log[m].target = n
        /\ log[m].data.rule = RewardRules[log[n].type].rule

(* The events a reward is due for, when reviews hold back those in open.   *)
DueRewards(log, open) ==
    {n \in Live(log) :
        /\ log[n].type \in DOMAIN RewardRules
        /\ ~AlreadyRewarded(log, n)
        /\ n \notin open
        /\ log[n].type \in NeedsMassBalance =>
               Balanced(Reconcile(log, log[n].data.lot))
        /\ log[n].type = "lab_verification" => log[n].data.virgin}

RewardEntry(log, n, authority, described) ==
    Entry("reward_issued", authority, log[n].actor, n, Reward(log, n, described))
=============================================================================
