----------------------------- MODULE RewardProofs -----------------------------
(***************************************************************************)
(* Proofs about Governance, for any organizations, threshold, histories and   *)
(* number of proposals and transactions under way, and about RewardDesk, for   *)
(* any histories, consoles and number of events.                              *)
(*                                                                         *)
(* Governance.  A transaction carries what it was endorsed on (PoolInv), and  *)
(* is valid only where that still holds.  A proposal that is final is          *)
(* therefore never written again: every transaction on it was endorsed        *)
(* before, on a proposal that was not final (CommitOfOpen).  And the log a    *)
(* reward was endorsed on is the log it extends, so that whatever made the    *)
(* reward due still does when it is recorded (RewardStep).                    *)
(*                                                                         *)
(* The desk.  A step leaves the ledger as it is up to its length, and what it  *)
(* adds is a reward only when a console or the engine pays (StepAdds).  The   *)
(* engine pays for events that are due in the ledger of that moment, each     *)
(* once; what it adds in between are rewards, which do not change the mass    *)
(* balance (SameBalance).                                                  *)
(***************************************************************************)
EXTENDS Governance, RewardDesk, BoundedInduction, FiniteSetTheorems,
        SequenceTheorems, TLAPS

\* A finite sequence, of whatever entries.
IsLog(lg) == lg \in Seq({lg[n] : n \in DOMAIN lg})

ProposalInv ==
    /\ proposals \in [DOMAIN proposals -> Proposal]
    /\ \A p \in DOMAIN proposals : proposals[p].final \in 0 .. Len(log)
    /\ \A p, q \in DOMAIN proposals :
           (proposals[p].final = proposals[q].final /\ proposals[p].final # NotFinal)
               => p = q

\* What a transaction was endorsed on: no proposal, or one that is not final.
OnOpen(tx) ==
    \/ tx.read = {}
    \/ \E q \in Proposal : tx.read = {q} /\ q.final = NotFinal

\* A proposal or an approval: nothing is recorded.
Draws(tx) == tx.events = << >> /\ tx.written \in Proposal

\* A finalization: enough approvals, and a reward that was due in the log read.
Decides(tx) ==
    /\ tx.read = {tx.written}
    /\ tx.written \in Proposal
    /\ Cardinality(tx.written.approvals) >= Threshold
    /\ \E e : /\ tx.events = << e >>
              /\ e.type = tx.written.event
              /\ e.target = tx.written.target
              /\ e.type = "reward_issued" =>
                     \E lg : /\ tx.logRead = {lg}
                             /\ e.target \in Due(lg)
                             /\ e = RewardEntry(lg, e.target, "consortium", FALSE)

PoolInv == \A tx \in pool : OnOpen(tx) /\ (Draws(tx) \/ Decides(tx))

IInv == IsLog(log) /\ ProposalInv /\ PoolInv /\ RewardedOnce /\ GovernedByQuorum
-----------------------------------------------------------------------------
\* A log and the same log with one more entry.
Extended(lg, e, new) ==
    /\ IsLog(new)
    /\ new = lg \o << e >>
    /\ Len(lg) \in Nat /\ DOMAIN lg = 1 .. Len(lg)
    /\ DOMAIN new = 1 .. Len(lg) + 1
    /\ Len(new) = Len(lg) + 1
    /\ new[Len(lg) + 1] = e
    /\ \A n \in DOMAIN lg : new[n] = lg[n]

(* A log with one more entry. *)
LEMMA AppendLog ==
    ASSUME NEW lg, IsLog(lg), NEW e, NEW new, new = Append(lg, e)
    PROVE  Extended(lg, e, new)
  <1> DEFINE S == {lg[n] : n \in DOMAIN lg} \cup {e}
  <1>1. lg \in Seq(S) /\ e \in S
    BY DEF IsLog
  <1> HIDE DEF S
  <1>2. /\ new \in Seq(S)
        /\ new = lg \o << e >>
        /\ Len(lg) \in Nat /\ DOMAIN lg = 1 .. Len(lg)
        /\ DOMAIN new = 1 .. Len(lg) + 1
        /\ Len(new) = Len(lg) + 1
        /\ new[Len(lg) + 1] = e
        /\ \A n \in DOMAIN lg : new[n] = lg[n]
    BY <1>1
  <1>3. new \in [1 .. Len(lg) + 1 -> S]
    BY <1>2, LenProperties
  <1>4. new \in [1 .. Len(lg) + 1 -> {new[n] : n \in DOMAIN new}]
    BY <1>2, <1>3
  <1>5. IsLog(new)
    BY <1>2, <1>4 DEF IsLog
  <1>6. QED
    BY <1>2, <1>5 DEF Extended

(* A log with no more entries. *)
LEMMA SameLog ==
    ASSUME NEW lg, IsLog(lg)
    PROVE  lg \o << >> = lg /\ Len(lg) \in Nat /\ DOMAIN lg = 1 .. Len(lg)
  BY DEF IsLog

-----------------------------------------------------------------------------
Tx(slot, p, log_read, written, events) ==
    [slot |-> slot, id |-> p, read |-> Stored(p), logRead |-> log_read,
     written |-> written, events |-> events]

(* An endorsement changes nothing but the transactions under way. *)
LEMMA EndorseKeeps ==
    ASSUME IInv, NEW p, NEW log_read, NEW written, NEW events,
           Endorse(p, log_read, written, events),
           OnOpen([read |-> Stored(p)]),
           \A slot : LET tx == Tx(slot, p, log_read, written, events)
                     IN  Draws(tx) \/ Decides(tx)
    PROVE  IInv'
  <1>1. PICK slot \in 1 .. MaxInFlight :
            /\ pool' = pool \cup {Tx(slot, p, log_read, written, events)}
            /\ UNCHANGED << log, proposals >>
    BY DEF Endorse, Tx
  <1>2. OnOpen(Tx(slot, p, log_read, written, events))
    BY DEF OnOpen, Tx
  <1>3. PoolInv'
    BY <1>1, <1>2 DEF IInv, PoolInv
  <1>4. QED
    BY <1>1, <1>3 DEF IInv, ProposalInv, RewardedOnce, GovernedByQuorum

(* A proposal a transaction has read and may change was not final. *)
LEMMA StoredOpen ==
    ASSUME ProposalInv, NEW p,
           p \in DOMAIN proposals => proposals[p].final = NotFinal
    PROVE  OnOpen([read |-> Stored(p)])
  <1>1. CASE p \in DOMAIN proposals
    BY <1>1 DEF ProposalInv, OnOpen, Stored
  <1>2. CASE p \notin DOMAIN proposals
    BY <1>2 DEF OnOpen, Stored
  <1>3. QED
    BY <1>1, <1>2

LEMMA ProposeKeeps ==
    ASSUME IInv, NEW p, NEW msp \in Msps, ProposeGovernanceEvent(p, msp)
    PROVE  IInv'
  <1>1. PICK type \in Governed, n \in DOMAIN log, exact \in BOOLEAN :
            Endorse(p, {}, [event |-> type, target |-> n, exact |-> exact,
                            approvals |-> {msp}, final |-> NotFinal], << >>)
    BY DEF ProposeGovernanceEvent
  <1> DEFINE written == [event |-> type, target |-> n, exact |-> exact,
                         approvals |-> {msp}, final |-> NotFinal]
  <1>2. n \in Nat
    BY SameLog DEF IInv
  <1>3. written \in Proposal
    BY <1>2 DEF Proposal, NotFinal
  <1>4. \A slot : Draws(Tx(slot, p, {}, written, << >>))
    BY <1>3 DEF Draws, Tx
  <1>5. OnOpen([read |-> Stored(p)])
    BY StoredOpen DEF ProposeGovernanceEvent, IInv
  <1> HIDE DEF written
  <1>6. Endorse(p, {}, written, << >>)
    BY <1>1 DEF written
  <1>7. QED
    BY <1>4, <1>5, <1>6, EndorseKeeps

LEMMA ApproveKeeps ==
    ASSUME IInv, NEW p, NEW msp \in Msps, ApproveGovernanceProposal(p, msp)
    PROVE  IInv'
  <1> DEFINE written == [proposals[p] EXCEPT !.approvals = @ \cup {msp}]
  <1>1. Endorse(p, {}, written, << >>) /\ OnOpen([read |-> Stored(p)])
    BY StoredOpen DEF ApproveGovernanceProposal, IInv
  <1>2. proposals[p] \in Proposal
    BY DEF ApproveGovernanceProposal, IInv, ProposalInv
  <1>3. written \in Proposal
    BY <1>2 DEF Proposal
  <1>4. \A slot : Draws(Tx(slot, p, {}, written, << >>))
    BY <1>3 DEF Draws, Tx
  <1> HIDE DEF written
  <1>5. QED
    BY <1>1, <1>4, EndorseKeeps

LEMMA FinalizeKeeps ==
    ASSUME IInv, NEW p, FinalizeGovernanceProposal(p)
    PROVE  IInv'
  <1> DEFINE q == proposals[p]
             read == IF q.event = "reward_issued" THEN {log} ELSE {}
  <1>1. PICK stamp \in Stamps : Endorse(p, read, q, << Decision(log, q, stamp) >>)
    BY DEF FinalizeGovernanceProposal
  <1> DEFINE e == Decision(log, q, stamp)
  <1>2. q \in Proposal /\ Stored(p) = {q}
    BY DEF FinalizeGovernanceProposal, IInv, ProposalInv, Stored
  <1>3. OnOpen([read |-> Stored(p)])
    BY StoredOpen DEF FinalizeGovernanceProposal, IInv
  <1>4. e.type = q.event /\ e.target = q.target
    BY DEF Decision, RewardEntry, Entry
  <1>5. ASSUME q.event = "reward_issued"
        PROVE  /\ read = {log} /\ q.target \in Due(log)
               /\ e = RewardEntry(log, q.target, "consortium", FALSE)
    BY <1>5 DEF Decision, FinalizeGovernanceProposal, StillValid
  <1>6. Cardinality(q.approvals) >= Threshold
    BY DEF FinalizeGovernanceProposal
  <1> HIDE DEF q, e, read
  <1>7. ASSUME NEW slot
        PROVE  Decides(Tx(slot, p, read, q, << e >>))
    BY <1>2, <1>4, <1>5, <1>6 DEF Decides, Tx
  <1>8. QED
    BY <1>1, <1>3, <1>7, EndorseKeeps DEF e

-----------------------------------------------------------------------------
(* The entries that a step adds to the log are not of the consortium. *)
LEMMA RecordKeeps ==
    ASSUME IInv, NEW e, e.type \notin Governed, Record(e)
    PROVE  IInv'
  <1>1. log' = Append(log, e) /\ UNCHANGED << proposals, pool >>
    BY DEF Record
  <1>2. Extended(log, e, log')
    BY <1>1, AppendLog DEF IInv
  <1>3. IsLog(log)' /\ PoolInv'
    BY <1>1, <1>2 DEF IInv, IsLog, PoolInv, Extended
  <1>4. ProposalInv'
    BY <1>1, <1>2 DEF IInv, ProposalInv, Extended
  <1>5. RewardedOnce'
    BY <1>2 DEF IInv, RewardedOnce, OfType, Governed, Extended
  <1>6. GovernedByQuorum'
    BY <1>1, <1>2 DEF IInv, GovernedByQuorum, Extended
  <1>7. QED
    BY <1>3, <1>4, <1>5, <1>6 DEF IInv

(* A transaction that is valid does not touch a proposal that is final. *)
LEMMA CommitOfOpen ==
    ASSUME IInv, NEW tx \in pool, ReadsCurrent(tx), tx.id \in DOMAIN proposals
    PROVE  proposals[tx.id].final = NotFinal
  <1>1. tx.read = {proposals[tx.id]} /\ OnOpen(tx)
    BY DEF ReadsCurrent, Stored, IInv, PoolInv
  <1>2. QED
    BY <1>1 DEF OnOpen

(* The commit of a proposal or an approval. *)
LEMMA DrawKeeps ==
    ASSUME IInv, NEW tx \in pool, Commit(tx), Draws(tx)
    PROVE  IInv' /\ log' = log
  <1> DEFINE new == [tx.written EXCEPT !.final = NotFinal]
  <1>1. log' = log
    BY SameLog DEF Commit, Draws, IInv
  <1>2. new \in Proposal /\ new.final = NotFinal
    BY DEF Draws, Proposal, NotFinal
  <1>3. /\ proposals' = [q \in DOMAIN proposals \cup {tx.id} |->
                             IF q = tx.id THEN new ELSE proposals[q]]
        /\ pool' = pool \ {tx}
    BY DEF Commit, Draws
  <1> HIDE DEF new
  <1>4. Len(log) \in Nat
    BY SameLog DEF IInv
  <1>5. ProposalInv'
    <2>1. proposals' \in [DOMAIN proposals' -> Proposal]
      BY <1>2, <1>3 DEF IInv, ProposalInv
    <2>2. QED
      BY <1>1, <1>2, <1>3, <1>4, <2>1 DEF IInv, ProposalInv, NotFinal
  <1>6. GovernedByQuorum'
    <2>1. SUFFICES ASSUME NEW n \in DOMAIN log, log[n].type \in Governed
                   PROVE  \E p \in DOMAIN proposals' :
                              /\ proposals'[p].final = n
                              /\ proposals'[p].event = log[n].type
                              /\ proposals'[p].target = log[n].target
                              /\ Cardinality(proposals'[p].approvals) >= Threshold
                              /\ \A q \in DOMAIN proposals' :
                                     proposals'[q].final = n => q = p
      BY <1>1 DEF GovernedByQuorum
    <2>2. PICK p \in DOMAIN proposals :
              /\ proposals[p].final = n
              /\ proposals[p].event = log[n].type
              /\ proposals[p].target = log[n].target
              /\ Cardinality(proposals[p].approvals) >= Threshold
              /\ \A q \in DOMAIN proposals : proposals[q].final = n => q = p
      BY <2>1 DEF IInv, GovernedByQuorum
    <2>3. n # NotFinal
      BY SameLog DEF IInv, NotFinal
    <2>4. p # tx.id
      BY <2>2, <2>3, CommitOfOpen DEF Commit
    <2>5. QED
      BY <1>2, <1>3, <2>2, <2>3, <2>4
  <1>7. QED
    BY <1>1, <1>3, <1>5, <1>6 DEF IInv, IsLog, PoolInv, RewardedOnce

(* What a finalization records, and that a reward it records is due in the    *)
(* log it is added to.                                                       *)
LEMMA DecisionRecorded ==
    ASSUME IInv, NEW tx \in pool, Commit(tx), Decides(tx)
    PROVE  \E e : /\ tx.events = << e >>
                  /\ log' = Append(log, e)
                  /\ e.type = tx.written.event
                  /\ e.target = tx.written.target
                  /\ e.type = "reward_issued" =>
                         /\ e.target \in Due(log)
                         /\ e = RewardEntry(log, e.target, "consortium", FALSE)
  <1>1. PICK e : /\ tx.events = << e >>
                 /\ e.type = tx.written.event
                 /\ e.target = tx.written.target
                 /\ e.type = "reward_issued" =>
                        \E lg : /\ tx.logRead = {lg}
                                /\ e.target \in Due(lg)
                                /\ e = RewardEntry(lg, e.target, "consortium", FALSE)
    BY DEF Decides
  <1>2. log' = Append(log, e)
    BY <1>1, AppendLog DEF Commit, IInv, Extended
  <1>3. ASSUME e.type = "reward_issued"
        PROVE  /\ e.target \in Due(log)
               /\ e = RewardEntry(log, e.target, "consortium", FALSE)
    <2>1. PICK lg : /\ tx.logRead = {lg}
                    /\ e.target \in Due(lg)
                    /\ e = RewardEntry(lg, e.target, "consortium", FALSE)
      BY <1>1, <1>3
    <2>2. lg = log
      BY <2>1 DEF Commit, ReadsCurrent
    <2>3. QED
      BY <2>1, <2>2
  <1>4. QED
    BY <1>1, <1>2, <1>3

(* The commit of a finalization. *)
LEMMA DecisionKeeps ==
    ASSUME IInv, NEW tx \in pool, Commit(tx), Decides(tx)
    PROVE  IInv'
  <1>1. PICK e : /\ tx.events = << e >>
                 /\ log' = Append(log, e)
                 /\ e.type = tx.written.event
                 /\ e.target = tx.written.target
                 /\ e.type = "reward_issued" =>
                        /\ e.target \in Due(log)
                        /\ e = RewardEntry(log, e.target, "consortium", FALSE)
    BY DecisionRecorded
  <1>2. Extended(log, e, log')
    BY <1>1, AppendLog DEF IInv
  <1> DEFINE last == Len(log) + 1
             new == [tx.written EXCEPT !.final = last]
  <1>3. /\ new \in Proposal /\ new.final = last /\ new.event = e.type
        /\ new.target = e.target /\ Cardinality(new.approvals) >= Threshold
    BY <1>1, <1>2 DEF Decides, Proposal, Extended
  <1>4. /\ proposals' = [q \in DOMAIN proposals \cup {tx.id} |->
                             IF q = tx.id THEN new ELSE proposals[q]]
        /\ pool' = pool \ {tx}
    <2>1. tx.events # << >>
      BY <1>1
    <2>2. QED
      BY <2>1 DEF Commit
  <1> HIDE DEF new
  <1>5. ProposalInv'
    <2>1. proposals' \in [DOMAIN proposals' -> Proposal]
      BY <1>3, <1>4 DEF IInv, ProposalInv
    <2>2. QED
      BY <1>2, <1>3, <1>4, <2>1 DEF IInv, ProposalInv, NotFinal, Extended
  <1>6. RewardedOnce'
    <2>1. SUFFICES ASSUME NEW m \in DOMAIN log, log[m].type = "reward_issued",
                          e.type = "reward_issued", log[m].target = e.target,
                          log[m].data.rule = e.data.rule
                   PROVE  FALSE
      BY <1>2 DEF IInv, RewardedOnce, OfType, Extended
    <2>2. e.data.rule = RewardRules[log[e.target].type].rule
      BY <1>1, <2>1 DEF RewardEntry, Entry, Reward
    <2>3. ~ AlreadyRewarded(log, e.target)
      BY <1>1, <2>1 DEF Due, DueRewards
    <2>4. QED
      BY <2>1, <2>2, <2>3 DEF AlreadyRewarded, OfType
  <1>7. GovernedByQuorum'
    <2>1. SUFFICES ASSUME NEW n \in DOMAIN log', log'[n].type \in Governed
                   PROVE  \E p \in DOMAIN proposals' :
                              /\ proposals'[p].final = n
                              /\ proposals'[p].event = log'[n].type
                              /\ proposals'[p].target = log'[n].target
                              /\ Cardinality(proposals'[p].approvals) >= Threshold
                              /\ \A q \in DOMAIN proposals' :
                                     proposals'[q].final = n => q = p
      BY DEF GovernedByQuorum
    <2>2. CASE n = last
      <3>1. \A q \in DOMAIN proposals : proposals[q].final # last
        BY <1>2 DEF IInv, ProposalInv, Extended
      <3>2. log'[n] = e
        BY <1>2, <2>2 DEF Extended
      <3>3. tx.id \in DOMAIN proposals' /\ proposals'[tx.id] = new
        BY <1>4
      <3>4. \A q \in DOMAIN proposals' : proposals'[q].final = n => q = tx.id
        BY <1>4, <2>2, <3>1
      <3>5. QED
        BY <1>3, <2>2, <3>2, <3>3, <3>4
    <2>3. CASE n # last
      <3>1. n \in DOMAIN log /\ log'[n] = log[n] /\ n # NotFinal
        BY <1>2, <2>3 DEF NotFinal, Extended
      <3>2. PICK p \in DOMAIN proposals :
                /\ proposals[p].final = n
                /\ proposals[p].event = log[n].type
                /\ proposals[p].target = log[n].target
                /\ Cardinality(proposals[p].approvals) >= Threshold
                /\ \A q \in DOMAIN proposals : proposals[q].final = n => q = p
        BY <2>1, <3>1 DEF IInv, GovernedByQuorum
      <3>3. p # tx.id
        BY <3>1, <3>2, CommitOfOpen DEF Commit
      <3>4. QED
        BY <1>3, <1>4, <2>3, <3>1, <3>2, <3>3
    <2>4. QED
      BY <2>2, <2>3
  <1>8. QED
    BY <1>2, <1>4, <1>5, <1>6, <1>7 DEF IInv, IsLog, PoolInv, Extended

LEMMA CommitKeeps ==
    ASSUME IInv, NEW tx \in pool, Commit(tx)
    PROVE  IInv'
  <1>1. Draws(tx) \/ Decides(tx)
    BY DEF IInv, PoolInv
  <1>2. QED
    BY <1>1, DrawKeeps, DecisionKeeps
-----------------------------------------------------------------------------
LEMMA InitInv == Init => IInv
  <1> SUFFICES ASSUME Init PROVE IInv
    OBVIOUS
  <1>1. IsLog(log) /\ \A n \in DOMAIN log : log[n].type \notin Governed
    BY StartsAssumption DEF Init, IsLog
  <1>2. DOMAIN proposals = {} /\ pool = {}
    BY DEF Init, Nothing
  <1>3. proposals = [p \in {} |-> p]
    BY DEF Init, Nothing
  <1>4. ProposalInv
    BY <1>2, <1>3 DEF ProposalInv
  <1>5. PoolInv /\ GovernedByQuorum
    BY <1>1, <1>2 DEF PoolInv, GovernedByQuorum
  <1>6. RewardedOnce
    BY <1>1 DEF RewardedOnce, OfType, Governed
  <1>7. QED
    BY <1>1, <1>4, <1>5, <1>6 DEF IInv

LEMMA NextInv == IInv /\ [Next]_vars => IInv'
  <1> SUFFICES ASSUME IInv, [Next]_vars PROVE IInv'
    OBVIOUS
  <1>1. CASE SubmitEvent
    BY <1>1, RecordKeeps, DraftsAssumption DEF SubmitEvent
  <1>2. CASE CorrectEvent
    <2>1. PICK n \in Live(log) :
              Record(Entry("correction", log[n].actor, log[n].subject, n,
                           [note |-> "corrected"]))
      BY <1>2 DEF CorrectEvent
    <2> DEFINE e == Entry("correction", log[n].actor, log[n].subject, n,
                          [note |-> "corrected"])
    <2>2. e.type \notin Governed
      BY DEF Entry, Governed
    <2> HIDE DEF e
    <2>3. Record(e)
      BY <2>1 DEF e
    <2>4. QED
      BY <2>2, <2>3, RecordKeeps
  <1>3. ASSUME NEW p \in ProposalIds, NEW msp \in Msps, ProposeGovernanceEvent(p, msp)
        PROVE  IInv'
    BY <1>3, ProposeKeeps
  <1>4. ASSUME NEW p \in ProposalIds, NEW msp \in Msps, ApproveGovernanceProposal(p, msp)
        PROVE  IInv'
    BY <1>4, ApproveKeeps
  <1>5. ASSUME NEW p \in ProposalIds, FinalizeGovernanceProposal(p)
        PROVE  IInv'
    BY <1>5, FinalizeKeeps
  <1>6. ASSUME NEW tx \in pool, Commit(tx)
        PROVE  IInv'
    BY <1>6, CommitKeeps
  <1>7. ASSUME NEW tx \in pool, Drop(tx)
        PROVE  IInv'
    BY <1>7 DEF Drop, IInv, IsLog, ProposalInv, PoolInv, RewardedOnce, GovernedByQuorum
  <1>8. CASE UNCHANGED vars
    BY <1>8 DEF vars, IInv, IsLog, ProposalInv, PoolInv, RewardedOnce, GovernedByQuorum
  <1>9. QED
    BY <1>1, <1>2, <1>3, <1>4, <1>5, <1>6, <1>7, <1>8 DEF Next

THEOREM Invariance == Spec => []IInv
  BY InitInv, NextInv, PTL DEF Spec
-----------------------------------------------------------------------------
(* However finalizations race (governance.go), an event is paid for once per  *)
(* rule.                                                                     *)
THEOREM OneReward == Spec => []RewardedOnce
  <1>1. IInv => RewardedOnce
    BY DEF IInv
  <1>2. QED
    BY Invariance, <1>1, PTL

(* Behind every governed event stands exactly one proposal, for good, and     *)
(* enough organizations that approved it.                                    *)
THEOREM QuorumBehindDecisions == Spec => []GovernedByQuorum
  <1>1. IInv => GovernedByQuorum
    BY DEF IInv
  <1>2. QED
    BY Invariance, <1>1, PTL

(* The step that records a reward is the commit of a transaction endorsed on   *)
(* the log as it still is.                                                   *)
LEMMA RewardStep ==
    ASSUME IInv, [Next]_vars, NEW n \in OfType(log', "reward_issued") \ DOMAIN log
    PROVE  log'[n].target \in Due(log)
  <1>1. ASSUME NEW e, e.type \notin Governed, Record(e)
        PROVE  FALSE
    <2>1. Extended(log, e, log')
      BY <1>1, AppendLog DEF Record, IInv
    <2>2. QED
      BY <1>1, <2>1 DEF Extended, OfType, Governed
  <1>2. log' # log
    BY DEF OfType
  <1>3. ~ SubmitEvent
    BY <1>1, DraftsAssumption DEF SubmitEvent
  <1>4. ~ CorrectEvent
    <2>1. SUFFICES ASSUME CorrectEvent PROVE FALSE
      OBVIOUS
    <2>2. PICK k \in Live(log) :
              Record(Entry("correction", log[k].actor, log[k].subject, k,
                           [note |-> "corrected"]))
      BY <2>1 DEF CorrectEvent
    <2> DEFINE e == Entry("correction", log[k].actor, log[k].subject, k,
                          [note |-> "corrected"])
    <2>3. e.type \notin Governed
      BY DEF Entry, Governed
    <2> HIDE DEF e
    <2>4. Record(e)
      BY <2>2 DEF e
    <2>5. QED
      BY <2>3, <2>4, <1>1
  <1>5. PICK tx \in pool : Commit(tx)
    BY <1>2, <1>3, <1>4 DEF Next, vars, ProposeGovernanceEvent,
       ApproveGovernanceProposal, FinalizeGovernanceProposal, Endorse, Drop
  <1>6. ~ Draws(tx)
    BY <1>2, <1>5, DrawKeeps
  <1>7. PICK e : /\ log' = Append(log, e)
                 /\ e.type = "reward_issued" => e.target \in Due(log)
    BY <1>5, <1>6, DecisionRecorded DEF IInv, PoolInv
  <1>8. Extended(log, e, log')
    BY <1>7, AppendLog DEF IInv
  <1>9. n = Len(log) + 1 /\ log'[n] = e /\ e.type = "reward_issued"
    BY <1>8 DEF Extended, OfType
  <1>10. QED
    BY <1>7, <1>9

(* A reward is due at the moment it is recorded, whatever was committed since   *)
(* it was proposed, approved and endorsed.                                   *)
THEOREM RewardsPaidWhenDue == Spec => PaidWhenDue
  <1>1. IInv /\ [Next]_vars =>
            [ \A n \in OfType(log', "reward_issued") \ DOMAIN log :
                  log'[n].target \in Due(log) ]_<< log >>
    BY RewardStep
  <1>2. QED
    BY Invariance, <1>1, PTL DEF Spec, PaidWhenDue
-----------------------------------------------------------------------------
(* The desk: what a step adds to the ledger *)

\* The entries of a log are those of a longer one.
Continues(lg, new) ==
    /\ IsLog(new)
    /\ Len(lg) \in Nat /\ Len(new) \in Nat /\ Len(lg) <= Len(new)
    /\ DOMAIN lg = 1 .. Len(lg) /\ DOMAIN new = 1 .. Len(new)
    /\ \A n \in DOMAIN lg : new[n] = lg[n]

Added == DOMAIN ledger' \ DOMAIN ledger

\* An entry that pays for nothing.
Unpaid(e) ==
    e \in LocalDrafts \/ e.type \in {"correction", "review_flag", "review_resolution"}

ConsolePays(n) ==
    \E t \in DOMAIN ledger : ledger'[n] = RewardEntry(ledger, t, Authority, TRUE)

EnginePays(n) ==
    \E t \in DueRewards(ledger, OpenFlags(ledger)) :
        /\ ledger'[n] = RewardEntry(ledger, t, Authority, FALSE)
        /\ \A m \in Added :
               /\ ledger'[m].type = "reward_issued"
               /\ m # n => ledger'[m].target # t

LedgerInv ==
    /\ IsLog(ledger)
    /\ seen \in [Consoles -> Nat]
    /\ \A c \in Consoles : seen[c] <= Len(ledger)

LEMMA LogIs ==
    ASSUME NEW n \in Nat, NEW f, NEW T, f \in [1 .. n -> T]
    PROVE  IsLog(f)
  <1> DEFINE S == {f[k] : k \in DOMAIN f}
  <1>1. f \in [1 .. n -> S]
    OBVIOUS
  <1> HIDE DEF S
  <1>2. f \in Seq(S)
    BY <1>1, IsASeq
  <1>3. QED
    BY <1>2 DEF S, IsLog

\* A log and the same log with the entries of x after it.
FollowedBy(lg, x, N, new) ==
    /\ Continues(lg, new)
    /\ Len(new) = Len(lg) + N
    /\ \A k \in 1 .. N : new[Len(lg) + k] = x[k]

(* A log with entries after it. *)
LEMMA ConcatLog ==
    ASSUME NEW lg, IsLog(lg), NEW N \in Nat, NEW x, x = [k \in 1 .. N |-> x[k]]
    PROVE  FollowedBy(lg, x, N, lg \o x)
  <1> DEFINE new == lg \o x
  <1> DEFINE S == {lg[n] : n \in DOMAIN lg} \cup {x[k] : k \in 1 .. N}
  <1>1. lg \in Seq(S) /\ Len(lg) \in Nat /\ DOMAIN lg = 1 .. Len(lg)
    BY DEF IsLog
  <1>2. x \in [1 .. N -> S]
    OBVIOUS
  <1> HIDE DEF S
  <1>3. x \in Seq(S) /\ Len(x) = N
    BY <1>2, IsASeq
  <1>4. /\ new \in Seq(S) /\ Len(new) = Len(lg) + N
        /\ DOMAIN new = 1 .. Len(new)
        /\ \A n \in 1 .. Len(lg) : new[n] = lg[n]
        /\ \A k \in 1 .. N : new[Len(lg) + k] = x[k]
    BY <1>1, <1>3
  <1>5. new \in [1 .. Len(new) -> S] /\ Len(new) \in Nat
    BY <1>4, LenProperties
  <1>6. IsLog(new)
    BY <1>5, LogIs
  <1>7. QED
    BY <1>1, <1>4, <1>6 DEF Continues, FollowedBy

(* What is before an entry of a log. *)
LEMMA BeforeIs ==
    ASSUME NEW lg, IsLog(lg), NEW n \in 0 .. Len(lg)
    PROVE  /\ IsLog(SubSeq(lg, 1, n))
           /\ Len(SubSeq(lg, 1, n)) = n
           /\ DOMAIN SubSeq(lg, 1, n) = 1 .. n
           /\ \A k \in 1 .. n : SubSeq(lg, 1, n)[k] = lg[k]
  <1> DEFINE S == {lg[k] : k \in DOMAIN lg}
             b == SubSeq(lg, 1, n)
  <1>1. lg \in Seq(S) /\ Len(lg) \in Nat /\ n \in Nat /\ n <= Len(lg)
    BY DEF IsLog
  <1> HIDE DEF S
  <1>2. b \in Seq(S) /\ Len(b) = n /\ DOMAIN b = 1 .. n /\ \A k \in 1 .. n : b[k] = lg[k]
    BY <1>1
  <1> HIDE DEF b
  <1>3. b \in [1 .. n -> S]
    BY <1>2, LenProperties
  <1>4. IsLog(b)
    BY <1>1, <1>3, LogIs
  <1>5. QED
    BY <1>2, <1>4 DEF b

(* Any set of places in a log can be put in the order of the log. *)
LEMMA OrderExists ==
    ASSUME NEW n \in Nat, NEW S \in SUBSET (1 .. n)
    PROVE  \E s \in [1 .. Cardinality(S) -> S] :
               \A j, k \in 1 .. Cardinality(S) : j < k => s[j] < s[k]
  <1> DEFINE Sorted(T, s) ==
                 /\ s \in [1 .. Cardinality(T) -> T]
                 /\ \A j, k \in 1 .. Cardinality(T) : j < k => s[j] < s[k]
             Upto(m) == S \cap (1 .. m)
             Good == {m \in 0 .. n : \E s : Sorted(Upto(m), s)}
  <1>1. \A m \in 0 .. n : IsFiniteSet(Upto(m)) /\ Cardinality(Upto(m)) \in Nat
    <2>1. \A m \in 0 .. n : IsFiniteSet(1 .. m)
      BY FS_Interval
    <2>2. \A m \in 0 .. n : Upto(m) \in SUBSET (1 .. m)
      OBVIOUS
    <2>3. QED
      BY <2>1, <2>2, FS_Subset, FS_CardinalityType
  <1>2. 0 \in Good
    <2>1. Upto(0) = {}
      OBVIOUS
    <2>2. Cardinality(Upto(0)) = 0
      BY <2>1, FS_EmptySet
    <2>3. Sorted(Upto(0), << >>)
      BY <2>1, <2>2
    <2>4. 0 \in 0 .. n
      OBVIOUS
    <2> HIDE DEF Sorted, Upto
    <2>5. QED
      BY <2>3, <2>4
  <1>3. ASSUME NEW m \in 1 .. n, m - 1 \in Good
        PROVE  m \in Good
    <2> DEFINE T == Upto(m - 1)
               c == Cardinality(T)
    <2>1. PICK s : Sorted(T, s)
      BY <1>3
    <2>2. m - 1 \in 0 .. n /\ m \in 0 .. n
      OBVIOUS
    <2>3. IsFiniteSet(T) /\ c \in Nat
      BY <1>1, <2>2
    <2>4. CASE m \notin S
      <3>1. Upto(m) = T
        BY <2>4
      <3>2. QED
        BY <2>1, <2>2, <3>1
    <2>5. CASE m \in S
      <3>1. Upto(m) = T \cup {m} /\ m \notin T
        BY <2>5
      <3>2. Cardinality(Upto(m)) = c + 1
        BY <2>3, <3>1, FS_AddElement
      <3>3. \A j \in 1 .. c : s[j] \in T /\ s[j] < m
        BY <2>1
      <3> DEFINE t == [k \in 1 .. c + 1 |-> IF k = c + 1 THEN m ELSE s[k]]
      <3>4. \A k \in 1 .. c + 1 : k # c + 1 => k \in 1 .. c
        BY <2>3
      <3>5. t \in [1 .. c + 1 -> Upto(m)]
        <4> HIDE DEF c, T, Upto
        <4>1. QED
          BY <3>1, <3>3, <3>4
      <3>6. ASSUME NEW j \in 1 .. c + 1, NEW k \in 1 .. c + 1, j < k
            PROVE  t[j] < t[k]
        <4>1. j \in 1 .. c
          BY <2>3, <3>6
        <4>2. t[j] = s[j]
          BY <2>3, <4>1
        <4>3. CASE k = c + 1
          BY <3>3, <4>1, <4>2, <4>3
        <4>4. CASE k # c + 1
          BY <2>1, <3>4, <3>6, <4>1, <4>2, <4>4
        <4>5. QED
          BY <4>3, <4>4
      <3> HIDE DEF t
      <3>7. Sorted(Upto(m), t)
        BY <3>2, <3>5, <3>6
      <3>8. QED
        BY <2>2, <3>7
    <2>6. QED
      BY <2>4, <2>5
  <1> HIDE DEF Good
  <1>4. n \in Good
    BY <1>2, <1>3, UpTo
  <1>5. Upto(n) = S
    OBVIOUS
  <1>6. \E s : Sorted(S, s)
    BY <1>4, <1>5 DEF Good
  <1>7. QED
    BY <1>6

LEMMA LedgerOrder ==
    ASSUME NEW n \in Nat, NEW S \in SUBSET (1 .. n)
    PROVE  /\ Cardinality(S) \in Nat
           /\ InLedgerOrder(S) \in [1 .. Cardinality(S) -> S]
           /\ \A j, k \in 1 .. Cardinality(S) :
                  j # k => InLedgerOrder(S)[j] # InLedgerOrder(S)[k]
  <1>1. IsFiniteSet(S)
    <2>1. IsFiniteSet(1 .. n)
      BY FS_Interval
    <2>2. QED
      BY <2>1, FS_Subset
  <1>2. Cardinality(S) \in Nat
    BY <1>1, FS_CardinalityType
  <1> DEFINE s == InLedgerOrder(S)
  <1>3. /\ s \in [1 .. Cardinality(S) -> S]
        /\ \A j, k \in 1 .. Cardinality(S) : j < k => s[j] < s[k]
    BY OrderExists DEF InLedgerOrder
  <1> HIDE DEF s
  <1>4. \A j \in 1 .. Cardinality(S) : s[j] \in Nat
    <2>1. s \in [1 .. Cardinality(S) -> S]
      BY <1>3
    <2>2. ASSUME NEW j \in 1 .. Cardinality(S) PROVE s[j] \in S
      BY <2>1
    <2>3. \A q \in S : q \in Nat
      OBVIOUS
    <2>4. QED
      BY <2>2, <2>3
  <1>5. ASSUME NEW j \in 1 .. Cardinality(S), NEW k \in 1 .. Cardinality(S), j # k
        PROVE  s[j] # s[k]
    <2>1. j < k \/ k < j
      BY <1>2, <1>5
    <2>2. QED
      BY <1>3, <1>4, <2>1
  <1>6. QED
    BY <1>2, <1>3, <1>5 DEF s

-----------------------------------------------------------------------------
(* The steps of the desk *)

LEMMA CommitAdds ==
    ASSUME LedgerInv, NEW e, CommitEvent(e)
    PROVE  /\ Continues(ledger, ledger')
           /\ Added = {Len(ledger) + 1} /\ ledger'[Len(ledger) + 1] = e
           /\ seen' = seen
  <1>1. ledger' = Append(ledger, e) /\ seen' = seen /\ IsLog(ledger)
    BY DEF CommitEvent, LedgerInv
  <1>2. Extended(ledger, e, ledger')
    BY <1>1, AppendLog
  <1>3. QED
    BY <1>1, <1>2 DEF Extended, Continues, Added

(* What a console sees is a prefix of the ledger. *)
LEMMA WorklistIs ==
    ASSUME LedgerInv, NEW c \in Consoles
    PROVE  DOMAIN Worklist(c) \subseteq DOMAIN ledger
  <1>1. IsLog(ledger) /\ seen[c] \in 0 .. Len(ledger)
    <2>1. IsLog(ledger) /\ seen[c] \in Nat /\ seen[c] <= Len(ledger)
      BY DEF LedgerInv
    <2>2. Len(ledger) \in Nat
      BY <2>1, SameLog
    <2>3. QED
      BY <2>1, <2>2
  <1>2. DOMAIN Worklist(c) = 1 .. seen[c] /\ DOMAIN ledger = 1 .. Len(ledger)
        /\ Len(ledger) \in Nat
    BY <1>1, BeforeIs, SameLog DEF Worklist
  <1>3. QED
    BY <1>1, <1>2

(* The engine adds one reward for each event that is due, and nothing else. *)
LEMMA EngineAdds ==
    ASSUME LedgerInv, RunEngine
    PROVE  /\ Continues(ledger, ledger')
           /\ \A n \in Added : EnginePays(n)
           /\ seen' = seen
  <1> DEFINE D == DueRewards(ledger, OpenFlags(ledger))
             N == Cardinality(D)
             due == InLedgerOrder(D)
             x == [k \in DOMAIN due |-> RewardEntry(ledger, due[k], Authority, FALSE)]
  <1>1. ledger' = ledger \o x /\ seen' = seen /\ IsLog(ledger)
    BY DEF RunEngine, LedgerInv
  <1>2. Len(ledger) \in Nat /\ DOMAIN ledger = 1 .. Len(ledger)
    BY <1>1, SameLog
  <1>3. D \in SUBSET (1 .. Len(ledger))
    BY <1>2 DEF DueRewards, Live
  <1> HIDE DEF D
  <1>4. /\ N \in Nat /\ due \in [1 .. N -> D]
        /\ \A j, k \in 1 .. N : j # k => due[j] # due[k]
    BY <1>2, <1>3, LedgerOrder
  <1> HIDE DEF N, due
  <1>5. x = [k \in 1 .. N |-> x[k]]
    BY <1>4
  <1>6. \A k \in 1 .. N : x[k] = RewardEntry(ledger, due[k], Authority, FALSE)
    BY <1>4
  <1> HIDE DEF x
  <1>7. /\ Continues(ledger, ledger')
        /\ Len(ledger') = Len(ledger) + N
        /\ \A k \in 1 .. N : ledger'[Len(ledger) + k] = x[k]
    <2>1. FollowedBy(ledger, x, N, ledger \o x)
      BY <1>1, <1>4, <1>5, ConcatLog
    <2>2. FollowedBy(ledger, x, N, ledger')
      BY <1>1, <2>1
    <2>3. QED
      BY <2>2 DEF FollowedBy
  <1>8. \A n \in Added : n - Len(ledger) \in 1 .. N /\ n = Len(ledger) + (n - Len(ledger))
    BY <1>2, <1>4, <1>7 DEF Added, Continues
  <1>9. ASSUME NEW n \in Added
        PROVE  EnginePays(n)
    <2> DEFINE t == due[n - Len(ledger)]
    <2>1. t \in D
      BY <1>4, <1>8
    <2>2. ledger'[n] = RewardEntry(ledger, t, Authority, FALSE)
      BY <1>6, <1>7, <1>8
    <2>3. ASSUME NEW m \in Added
          PROVE  /\ ledger'[m].type = "reward_issued"
                 /\ m # n => ledger'[m].target # t
      <3> DEFINE u == due[m - Len(ledger)]
      <3>1. ledger'[m] = RewardEntry(ledger, u, Authority, FALSE)
        BY <1>6, <1>7, <1>8
      <3>2. m # n => u # t
        <4>1. m # n => m - Len(ledger) # n - Len(ledger)
          BY <1>8
        <4>2. QED
          BY <1>4, <1>8, <4>1
      <3> HIDE DEF u, t
      <3>3. QED
        BY <3>1, <3>2 DEF RewardEntry, Entry
    <2> HIDE DEF t
    <2>4. QED
      BY <2>1, <2>2, <2>3 DEF EnginePays, D
  <1>10. QED
    BY <1>1, <1>7, <1>9

(* Whatever a step of the desk adds comes after all there is, and is a reward *)
(* only when a console or the engine pays.                                   *)
LEMMA StepAdds ==
    ASSUME LedgerInv, [DeskNext]_deskVars
    PROVE  /\ LedgerInv'
           /\ Continues(ledger, ledger')
           /\ \A n \in Added : Unpaid(ledger'[n]) \/ ConsolePays(n) \/ EnginePays(n)
  <1> DEFINE Goal == /\ LedgerInv'
                     /\ Continues(ledger, ledger')
                     /\ \A n \in Added : \/ Unpaid(ledger'[n])
                                         \/ ConsolePays(n) \/ EnginePays(n)
  <1>1. IsLog(ledger) /\ Len(ledger) \in Nat /\ DOMAIN ledger = 1 .. Len(ledger)
    BY SameLog DEF LedgerInv
  <1>2. ASSUME Continues(ledger, ledger'), seen' = seen
        PROVE  LedgerInv'
    <2>1. IsLog(ledger') /\ Len(ledger) <= Len(ledger') /\ Len(ledger') \in Nat
      BY <1>2 DEF Continues
    <2>2. \A c \in Consoles : seen[c] <= Len(ledger')
      BY <1>1, <2>1 DEF LedgerInv
    <2>3. QED
      BY <1>2, <2>1, <2>2 DEF LedgerInv, IsLog
  <1>3. ASSUME ledger' = ledger
        PROVE  Continues(ledger, ledger') /\ Added = {}
    BY <1>1, <1>3 DEF Continues, Added
  <1>4. ASSUME NEW e, CommitEvent(e), Unpaid(e)
        PROVE  Goal
    BY <1>2, <1>4, CommitAdds
  <1>5. CASE Submit
    BY <1>4, <1>5 DEF Submit, Unpaid
  <1>6. CASE Correct
    <2>1. PICK n \in DOMAIN ledger : \E by \in {ledger[n].actor, Authority} :
              CommitEvent(Entry("correction", by, ledger[n].subject, n,
                                [note |-> "corrected"]))
      BY <1>6 DEF Correct
    <2>2. PICK by \in {ledger[n].actor, Authority} :
              CommitEvent(Entry("correction", by, ledger[n].subject, n,
                                [note |-> "corrected"]))
      BY <2>1
    <2> DEFINE e == Entry("correction", by, ledger[n].subject, n, [note |-> "corrected"])
    <2>3. Unpaid(e)
      BY DEF Unpaid, Entry
    <2> HIDE DEF e
    <2>4. CommitEvent(e)
      BY <2>2 DEF e
    <2>5. QED
      BY <1>4, <2>3, <2>4
  <1>7. ASSUME NEW c \in Consoles, Load(c)
        PROVE  Goal
    <2>1. ledger' = ledger /\ seen' = [seen EXCEPT ![c] = Len(ledger)]
      BY <1>7 DEF Load
    <2>2. /\ seen' \in [Consoles -> Nat]
          /\ \A d \in Consoles : seen'[d] <= Len(ledger')
      BY <1>1, <2>1 DEF LedgerInv
    <2>3. QED
      BY <1>1, <1>3, <2>1, <2>2 DEF LedgerInv, IsLog
  <1>8. ASSUME NEW c \in Consoles, RaiseFlag(c)
        PROVE  Goal
    <2>1. PICK f \in Unflagged(Worklist(c)) :
              CommitEvent(Entry("review_flag", Authority, f.event, f.event,
                                [rule |-> f.rule]))
      BY <1>8 DEF RaiseFlag
    <2> DEFINE e == Entry("review_flag", Authority, f.event, f.event, [rule |-> f.rule])
    <2>2. Unpaid(e)
      BY DEF Unpaid, Entry
    <2> HIDE DEF e
    <2>3. CommitEvent(e)
      BY <2>1 DEF e
    <2>4. QED
      BY <1>4, <2>2, <2>3
  <1>9. ASSUME NEW c \in Consoles, Resolve(c)
        PROVE  Goal
    <2>1. PICK m \in OpenFlagEvents(Worklist(c)) :
              CommitEvent(Entry("review_resolution", Authority, m, m,
                                [decision |-> "cleared"]))
      BY <1>9 DEF Resolve
    <2> DEFINE e == Entry("review_resolution", Authority, m, m,
                          [decision |-> "cleared"])
    <2>2. Unpaid(e)
      BY DEF Unpaid, Entry
    <2> HIDE DEF e
    <2>3. CommitEvent(e)
      BY <2>1 DEF e
    <2>4. QED
      BY <1>4, <2>2, <2>3
  <1>10. ASSUME NEW c \in Consoles, IssueReward(c)
         PROVE  Goal
    <2>1. PICK t \in DueRewards(Worklist(c), OpenFlags(Worklist(c))) :
              CommitEvent(RewardEntry(ledger, t, Authority, TRUE))
      BY <1>10 DEF IssueReward
    <2>2. t \in DOMAIN ledger
      BY WorklistIs DEF DueRewards, Live
    <2> DEFINE e == RewardEntry(ledger, t, Authority, TRUE)
    <2> HIDE DEF e
    <2>3. CommitEvent(e)
      BY <2>1 DEF e
    <2>4. \A n \in Added : ConsolePays(n)
      <3>1. \A n \in Added : ledger'[n] = e
        BY <2>3, CommitAdds
      <3>2. e = RewardEntry(ledger, t, Authority, TRUE)
        BY DEF e
      <3>3. QED
        BY <2>2, <3>1, <3>2 DEF ConsolePays
    <2>5. QED
      BY <1>2, <2>3, <2>4, CommitAdds
  <1>11. CASE RunEngine
    BY <1>2, <1>11, EngineAdds
  <1>12. CASE UNCHANGED deskVars
    <2>1. ledger' = ledger /\ seen' = seen
      BY <1>12 DEF deskVars
    <2>2. QED
      BY <1>2, <1>3, <2>1
  <1>13. QED
    BY <1>5, <1>6, <1>7, <1>8, <1>9, <1>10, <1>11, <1>12 DEF DeskNext
-----------------------------------------------------------------------------
(* What the desk pays *)

\* What is read of a reward.
Pays(e, lg, t, d) ==
    /\ e.type = "reward_issued" /\ e.target = t
    /\ e.data.described = d
    /\ e.data.rule = RewardRules[lg[t].type].rule

LEMMA RewardIs ==
    ASSUME NEW lg, NEW t, NEW a, NEW d
    PROVE  Pays(RewardEntry(lg, t, a, d), lg, t, d)
  BY DEF RewardEntry, Entry, Reward, Pays

LEMMA UnpaidIs ==
    ASSUME NEW e, Unpaid(e)
    PROVE  e.type # "reward_issued"
  BY LocalDraftsAssumption DEF Unpaid, Governed

\* A reward is for an event on record, and all it says follows from that.
PaidByDesk ==
    \A n \in OfType(ledger, "reward_issued") :
        /\ ledger[n].target \in DOMAIN ledger
        /\ \E d \in BOOLEAN :
               ledger[n] = RewardEntry(ledger, ledger[n].target, Authority, d)

DeskInv == LedgerInv /\ PaidByDesk /\ EnginePaysOnce

(* A step of the desk, for the proofs that follow. *)
Step ==
    /\ LedgerInv /\ LedgerInv'
    /\ Continues(ledger, ledger')
    /\ \A n \in Added : Unpaid(ledger'[n]) \/ ConsolePays(n) \/ EnginePays(n)

LEMMA PaidByDeskKept ==
    ASSUME PaidByDesk, Step
    PROVE  PaidByDesk'
  <1>1. SUFFICES ASSUME NEW n \in OfType(ledger', "reward_issued")
                 PROVE  /\ ledger'[n].target \in DOMAIN ledger'
                        /\ \E d \in BOOLEAN :
                               ledger'[n] = RewardEntry(ledger', ledger'[n].target,
                                                        Authority, d)
    BY DEF PaidByDesk, OfType
  <1>2. /\ DOMAIN ledger \subseteq DOMAIN ledger'
        /\ \A k \in DOMAIN ledger : ledger'[k] = ledger[k]
        /\ n \in DOMAIN ledger' /\ ledger'[n].type = "reward_issued"
    BY <1>1 DEF Step, Continues, OfType
  <1>3. \A k \in DOMAIN ledger : \A d :
            RewardEntry(ledger', k, Authority, d) = RewardEntry(ledger, k, Authority, d)
    BY <1>2 DEF RewardEntry, Reward
  <1>4. PICK t \in DOMAIN ledger, d \in BOOLEAN :
            ledger'[n] = RewardEntry(ledger, t, Authority, d)
    <2>1. CASE n \in DOMAIN ledger
      BY <1>2, <2>1 DEF PaidByDesk, OfType
    <2>2. CASE n \in Added
      <3>1. ~ Unpaid(ledger'[n])
        BY <1>2, UnpaidIs
      <3>2. CASE ConsolePays(n)
        BY <3>2 DEF ConsolePays
      <3>3. CASE EnginePays(n)
        BY <3>3 DEF EnginePays, DueRewards, Live
      <3>4. QED
        BY <2>2, <3>1, <3>2, <3>3 DEF Step
    <2>3. QED
      BY <1>2, <2>1, <2>2 DEF Added
  <1>5. ledger'[n].target = t
    <2>1. Pays(ledger'[n], ledger, t, d)
      BY <1>4, RewardIs
    <2>2. QED
      BY <2>1 DEF Pays
  <1>6. QED
    BY <1>2, <1>3, <1>4, <1>5

(* The engine pays only for what is due, and of several events each once. *)
LEMMA PaysOnceKept ==
    ASSUME EnginePaysOnce, Step
    PROVE  EnginePaysOnce'
  <1>1. SUFFICES ASSUME NEW n \in DOMAIN ledger', ByEngine(n)',
                        NEW m \in 1 .. n - 1, PaidFor(m, n)'
                 PROVE  FALSE
    BY DEF EnginePaysOnce
  <1>2. /\ DOMAIN ledger \subseteq DOMAIN ledger'
        /\ DOMAIN ledger = 1 .. Len(ledger) /\ Len(ledger) \in Nat
        /\ DOMAIN ledger' = 1 .. Len(ledger') /\ Len(ledger') \in Nat
        /\ \A k \in DOMAIN ledger : ledger'[k] = ledger[k]
    BY DEF Step, Continues
  <1>3. /\ n \in DOMAIN ledger' /\ m \in DOMAIN ledger' /\ m # n
        /\ ledger'[n].type = "reward_issued" /\ ~ ledger'[n].data.described
        /\ ledger'[m].type = "reward_issued"
        /\ ledger'[m].target = ledger'[n].target
        /\ ledger'[m].data.rule = ledger'[n].data.rule
        /\ n \in DOMAIN ledger => m \in DOMAIN ledger
    BY <1>1, <1>2 DEF ByEngine, PaidFor, OfType
  <1>4. n \notin DOMAIN ledger
    <2>1. SUFFICES ASSUME n \in DOMAIN ledger PROVE FALSE
      OBVIOUS
    <2>2. ByEngine(n) /\ PaidFor(m, n)
      BY <1>2, <1>3, <2>1 DEF ByEngine, PaidFor, OfType
    <2>3. QED
      BY <2>1, <2>2 DEF EnginePaysOnce
  <1>5. EnginePays(n)
    <2>1. ~ Unpaid(ledger'[n])
      BY <1>3, UnpaidIs
    <2>2. ~ ConsolePays(n)
      <3>1. \A t : ledger'[n] = RewardEntry(ledger, t, Authority, TRUE)
                       => Pays(ledger'[n], ledger, t, TRUE)
        BY RewardIs
      <3>2. QED
        BY <1>3, <3>1 DEF ConsolePays, Pays
    <2>3. QED
      BY <1>3, <1>4, <2>1, <2>2 DEF Step, Added
  <1>6. PICK t \in DueRewards(ledger, OpenFlags(ledger)) :
            /\ ledger'[n] = RewardEntry(ledger, t, Authority, FALSE)
            /\ \A k \in Added : k # n => ledger'[k].target # t
    BY <1>5 DEF EnginePays
  <1>7. ledger'[n].target = t /\ ledger'[n].data.rule = RewardRules[ledger[t].type].rule
    <2>1. Pays(ledger'[n], ledger, t, FALSE)
      BY <1>6, RewardIs
    <2>2. QED
      BY <2>1 DEF Pays
  <1>8. m \in DOMAIN ledger
    BY <1>3, <1>6, <1>7 DEF Added
  <1>9. AlreadyRewarded(ledger, t)
    BY <1>2, <1>3, <1>7, <1>8 DEF AlreadyRewarded, OfType
  <1>10. QED
    BY <1>6, <1>9 DEF DueRewards

(* What is before an entry stays before it. *)
LEMMA SameBefore ==
    ASSUME IsLog(ledger), Continues(ledger, ledger'), NEW n \in DOMAIN ledger
    PROVE  SubSeq(ledger', 1, n - 1) = SubSeq(ledger, 1, n - 1)
  <1>1. /\ IsLog(ledger) /\ IsLog(ledger')
        /\ n - 1 \in 0 .. Len(ledger) /\ n - 1 \in 0 .. Len(ledger')
        /\ \A k \in 1 .. n - 1 : ledger'[k] = ledger[k]
    BY DEF Continues
  <1> DEFINE old == SubSeq(ledger, 1, n - 1)
             new == SubSeq(ledger', 1, n - 1)
  <1>2. /\ IsLog(old) /\ Len(old) = n - 1 /\ \A k \in 1 .. n - 1 : old[k] = ledger[k]
        /\ IsLog(new) /\ Len(new) = n - 1 /\ \A k \in 1 .. n - 1 : new[k] = ledger'[k]
    BY <1>1, BeforeIs
  <1> HIDE DEF old, new
  <1>3. old \in Seq({old[k] : k \in DOMAIN old} \cup {new[k] : k \in DOMAIN new})
        /\ new \in Seq({old[k] : k \in DOMAIN old} \cup {new[k] : k \in DOMAIN new})
    BY <1>2 DEF IsLog
  <1>4. new = old
    BY <1>1, <1>2, <1>3, SeqEqual
  <1>5. QED
    BY <1>4 DEF old, new

THEOREM DeskInvariance == DeskSpec => []DeskInv
  <1>1. DeskInit => DeskInv
    <2> SUFFICES ASSUME DeskInit PROVE DeskInv
      OBVIOUS
    <2>1. IsLog(ledger) /\ \A n \in DOMAIN ledger : ledger[n].type \notin Governed
      BY LocalStartsAssumption DEF DeskInit, IsLog
    <2>2. LedgerInv
      BY <2>1, SameLog DEF DeskInit, LedgerInv
    <2>3. OfType(ledger, "reward_issued") = {}
      BY <2>1 DEF OfType, Governed
    <2>4. QED
      BY <2>2, <2>3 DEF DeskInv, PaidByDesk, EnginePaysOnce, ByEngine
  <1>2. DeskInv /\ [DeskNext]_deskVars => DeskInv'
    <2> SUFFICES ASSUME DeskInv, [DeskNext]_deskVars PROVE DeskInv'
      OBVIOUS
    <2>1. Step
      BY StepAdds DEF DeskInv, Step
    <2>2. LedgerInv' /\ PaidByDesk' /\ EnginePaysOnce'
      BY <2>1, PaidByDeskKept, PaysOnceKept DEF DeskInv, Step
    <2>3. QED
      BY <2>2 DEF DeskInv
  <1>3. QED
    BY <1>1, <1>2, PTL DEF DeskSpec
-----------------------------------------------------------------------------
(* The engine (incentives.py) never pays for an event that was paid for under  *)
(* the same rule, by itself or by a console, corrected or not.                *)
THEOREM EngineNeverPaysAgain == DeskSpec => []EnginePaysOnce
  <1>1. DeskInv => EnginePaysOnce
    BY DEF DeskInv
  <1>2. QED
    BY DeskInvariance, <1>1, PTL

(* Two consoles that pay for one event off stale worklists are found out by    *)
(* the anomaly scan (anomaly.py), because a reward says nothing that does not  *)
(* follow from the event it is for.                                          *)
THEOREM DoublePaymentsAreFound == DeskSpec => []DoublePaymentIsReported
  <1>1. DeskInv => DoublePaymentIsReported
    <2> SUFFICES ASSUME DeskInv, NEW n \in Live(ledger), NEW m \in 1 .. n - 1,
                        PaidFor(m, n), ledger[m].data = ledger[n].data
                 PROVE  Finding("duplicate_record", n) \in Scan(ledger)
      BY DEF DoublePaymentIsReported
    <2>1. /\ m \in OfType(ledger, "reward_issued") /\ n \in OfType(ledger, "reward_issued")
          /\ ledger[m].target = ledger[n].target
      BY DEF PaidFor
    <2>2. PICK c \in BOOLEAN :
              ledger[m] = RewardEntry(ledger, ledger[m].target, Authority, c)
      BY <2>1 DEF DeskInv, PaidByDesk
    <2>3. PICK d \in BOOLEAN :
              ledger[n] = RewardEntry(ledger, ledger[n].target, Authority, d)
      BY <2>1 DEF DeskInv, PaidByDesk
    <2>4. c = ledger[m].data.described /\ d = ledger[n].data.described
      <3>1. /\ Pays(ledger[m], ledger, ledger[m].target, c)
            /\ Pays(ledger[n], ledger, ledger[n].target, d)
        BY <2>2, <2>3, RewardIs
      <3>2. QED
        BY <3>1 DEF Pays
    <2>5. ledger[m] = ledger[n]
      BY <2>1, <2>2, <2>3, <2>4
    <2>6. ledger[n].type = "reward_issued"
      BY <2>1 DEF OfType
    <2>7. Finding("duplicate_record", n) \in DuplicateRecords(ledger)
      BY <2>5, <2>6 DEF DuplicateRecords
    <2>8. QED
      BY <2>7 DEF Scan
  <1>2. QED
    BY DeskInvariance, <1>1, PTL
-----------------------------------------------------------------------------
(* The weights *)

\* f adds up what kg gives, as Total does.
Adds(f, kg, n) ==
    f = [k \in 0 .. n |->
            IF k = 0 THEN 0 ELSE f[k - 1] + (IF k \in DOMAIN kg THEN kg[k] ELSE 0)]

LEMMA AddsExists ==
    ASSUME NEW kg, NEW n \in Nat
    PROVE  \E f : Adds(f, kg, n)
  <1> DEFINE Solved == {m \in 0 .. n : \E f : Adds(f, kg, m)}
  <1>1. 0 \in Solved
    <2>1. Adds([k \in 0 .. 0 |-> 0], kg, 0)
      BY DEF Adds
    <2>2. QED
      BY <2>1
  <1>2. ASSUME NEW m \in 1 .. n, m - 1 \in Solved
        PROVE  m \in Solved
    <2>1. PICK g : Adds(g, kg, m - 1)
      BY <1>2
    <2> DEFINE d == IF m \in DOMAIN kg THEN kg[m] ELSE 0
               f == [k \in 0 .. m |-> IF k = m THEN g[m - 1] + d ELSE g[k]]
    <2>2. \A k \in 0 .. m - 1 : f[k] = g[k]
      OBVIOUS
    <2>3. f[m] = f[m - 1] + d
      BY <2>2
    <2>4. ASSUME NEW k \in 0 .. m
          PROVE  f[k] = IF k = 0 THEN 0
                        ELSE f[k - 1] + (IF k \in DOMAIN kg THEN kg[k] ELSE 0)
      <3>1. CASE k = m
        BY <2>3, <3>1
      <3>2. CASE k # m
        <4>1. k \in 0 .. m - 1 /\ (k # 0 => k - 1 \in 0 .. m - 1)
          BY <3>2
        <4> HIDE DEF f
        <4>2. QED
          BY <2>1, <2>2, <4>1 DEF Adds
      <3>3. QED
        BY <3>1, <3>2
    <2>5. f = [k \in 0 .. m |-> f[k]]
      OBVIOUS
    <2> HIDE DEF f
    <2>6. Adds(f, kg, m)
      BY <2>4, <2>5 DEF Adds
    <2>7. QED
      BY <2>6
  <1> HIDE DEF Solved
  <1>3. n \in Solved
    BY <1>1, <1>2, UpTo
  <1>4. QED
    BY <1>3 DEF Solved

LEMMA TotalIs ==
    ASSUME NEW kg, NEW n \in Nat
    PROVE  \E f : Adds(f, kg, n) /\ Total(kg, n) = f[n]
  <1> DEFINE f == CHOOSE f : Adds(f, kg, n)
  <1>1. Adds(f, kg, n)
    BY AddsExists
  <1>2. Total(kg, n) = f[n]
    BY DEF Total, Adds
  <1>3. QED
    BY <1>1, <1>2

(* Naturals add up to a natural. *)
LEMMA SumsAreNatural ==
    ASSUME NEW kg, \A k \in DOMAIN kg : kg[k] \in Nat,
           NEW n \in Nat, NEW f, Adds(f, kg, n)
    PROVE  \A k \in 0 .. n : f[k] \in Nat
  <1> DEFINE Good == {k \in 0 .. n : f[k] \in Nat}
  <1>1. 0 \in Good
    BY DEF Adds
  <1>2. ASSUME NEW m \in 1 .. n, m - 1 \in Good
        PROVE  m \in Good
    <2>1. f[m] = f[m - 1] + (IF m \in DOMAIN kg THEN kg[m] ELSE 0)
      BY DEF Adds
    <2>2. QED
      BY <1>2, <2>1
  <1> HIDE DEF Good
  <1>3. \A k \in 0 .. n : k \in Good
    BY <1>1, <1>2, UpTo
  <1>4. QED
    BY <1>3 DEF Good

(* Where nothing more is added the total stays. *)
LEMMA TotalStays ==
    ASSUME NEW n \in Nat, NEW m \in Nat, n <= m,
           NEW kg, DOMAIN kg \subseteq 1 .. n, \A k \in DOMAIN kg : kg[k] \in Nat
    PROVE  Total(kg, m) = Total(kg, n)
  <1>1. PICK f : Adds(f, kg, m) /\ Total(kg, m) = f[m]
    BY TotalIs
  <1>2. PICK g : Adds(g, kg, n) /\ Total(kg, n) = g[n]
    BY TotalIs
  <1> DEFINE Good == {k \in 0 .. m : f[k] = IF k <= n THEN g[k] ELSE g[n]}
  <1>3. 0 \in Good
    BY <1>1, <1>2 DEF Adds
  <1>4. ASSUME NEW k \in 1 .. m, k - 1 \in Good
        PROVE  k \in Good
    <2>1. f[k] = f[k - 1] + (IF k \in DOMAIN kg THEN kg[k] ELSE 0)
      BY <1>1 DEF Adds
    <2>2. CASE k <= n
      <3>1. g[k] = g[k - 1] + (IF k \in DOMAIN kg THEN kg[k] ELSE 0)
        BY <1>2, <2>2 DEF Adds
      <3>2. QED
        BY <1>4, <2>1, <2>2, <3>1
    <2>3. CASE ~ (k <= n)
      <3>1. k \notin DOMAIN kg /\ f[k - 1] = g[n]
        BY <1>4, <2>3
      <3>2. g[n] \in Nat
        BY <1>2, SumsAreNatural
      <3>3. QED
        BY <2>1, <2>3, <3>1, <3>2
    <2>4. QED
      BY <2>2, <2>3
  <1> HIDE DEF Good
  <1>5. m \in Good
    BY <1>3, <1>4, UpTo
  <1>6. QED
    BY <1>1, <1>2, <1>5 DEF Good

LEMMA TotalType ==
    ASSUME NEW kg, \A k \in DOMAIN kg : kg[k] \in Nat, NEW n \in Nat
    PROVE  Total(kg, n) \in Nat
  <1>1. PICK f : Adds(f, kg, n) /\ Total(kg, n) = f[n]
    BY TotalIs
  <1>2. QED
    BY <1>1, SumsAreNatural

\* The weights an event reports are natural numbers.
Weighs(e) ==
    /\ e.type \in {"residue_generation", "residue_custody"} => e.data.kg \in Nat
    /\ e.type = "valorization" => e.data.input \in Nat /\ e.data.rejected \in Nat

(* massbalance.py adds up what it is told; no code of the local backend        *)
(* refuses a negative weight.  This is the scale's part.                      *)
WeightsAreNatural ==
    /\ \A d \in LocalDrafts : Weighs(d)
    /\ \A lg \in LocalStarts : \A n \in DOMAIN lg : Weighs(lg[n])

WeightsInv == \A n \in DOMAIN ledger : Weighs(ledger[n])

(* The sums of the mass balance of a lot. *)
LEMMA ReconcileIs ==
    ASSUME NEW lg, IsLog(lg), \A n \in DOMAIN lg : Weighs(lg[n]), NEW lot
    PROVE  LET rec == Reconcile(lg, lot)
           IN  /\ rec.generated \in Nat /\ rec.transferred \in Nat
               /\ rec.accepted \in Nat /\ rec.accounted \in Nat
  <1> DEFINE g == [n \in LiveOf(lg, "residue_generation", lot) |-> lg[n].data.kg]
             t == [n \in LiveOf(lg, "residue_custody", lot) |-> lg[n].data.kg]
             a == [n \in LiveOf(lg, "residue_custody", lot) |->
                       IF lg[n].data.accepted THEN lg[n].data.kg ELSE 0]
             u == [n \in LiveOf(lg, "valorization", lot) |->
                       lg[n].data.input + lg[n].data.rejected]
  <1>1. Len(lg) \in Nat
    BY SameLog
  <1>2. /\ \A n \in DOMAIN g : g[n] \in Nat
        /\ \A n \in DOMAIN t : t[n] \in Nat
        /\ \A n \in DOMAIN a : a[n] \in Nat
        /\ \A n \in DOMAIN u : u[n] \in Nat
    BY DEF LiveOf, OfType, Weighs
  <1> HIDE DEF g, t, a, u
  <1>3. /\ Total(g, Len(lg)) \in Nat /\ Total(t, Len(lg)) \in Nat
        /\ Total(a, Len(lg)) \in Nat /\ Total(u, Len(lg)) \in Nat
    BY <1>1, <1>2, TotalType
  <1>4. QED
    BY <1>3 DEF Reconcile, g, t, a, u

(* Rewards change no mass balance. *)
LEMMA SameBalance ==
    ASSUME NEW lg, IsLog(lg), \A n \in DOMAIN lg : Weighs(lg[n]),
           NEW b, Continues(lg, b),
           \A n \in DOMAIN b \ DOMAIN lg : b[n].type = "reward_issued",
           NEW lot
    PROVE  Reconcile(b, lot) = Reconcile(lg, lot)
  <1>1. /\ Len(lg) \in Nat /\ Len(b) \in Nat /\ Len(lg) <= Len(b)
        /\ DOMAIN lg = 1 .. Len(lg)
    BY DEF Continues
  <1>2. \A type : type # "reward_issued" =>
            /\ OfType(b, type) = OfType(lg, type)
            /\ \A n \in OfType(lg, type) : b[n] = lg[n]
    BY DEF OfType, Continues
  <1>3. Superseded(b) = Superseded(lg)
    BY <1>2 DEF Superseded
  <1>4. \A type : type # "reward_issued" =>
            /\ LiveOf(b, type, lot) = LiveOf(lg, type, lot)
            /\ \A n \in LiveOf(lg, type, lot) : b[n] = lg[n]
    BY <1>2, <1>3 DEF LiveOf
  <1> DEFINE g(x) == [n \in LiveOf(x, "residue_generation", lot) |-> x[n].data.kg]
             t(x) == [n \in LiveOf(x, "residue_custody", lot) |-> x[n].data.kg]
             a(x) == [n \in LiveOf(x, "residue_custody", lot) |->
                          IF x[n].data.accepted THEN x[n].data.kg ELSE 0]
             u(x) == [n \in LiveOf(x, "valorization", lot) |->
                          x[n].data.input + x[n].data.rejected]
  <1>5. g(b) = g(lg) /\ t(b) = t(lg) /\ a(b) = a(lg) /\ u(b) = u(lg)
    BY <1>4
  <1>6. /\ \A n \in DOMAIN g(lg) : g(lg)[n] \in Nat
        /\ \A n \in DOMAIN t(lg) : t(lg)[n] \in Nat
        /\ \A n \in DOMAIN a(lg) : a(lg)[n] \in Nat
        /\ \A n \in DOMAIN u(lg) : u(lg)[n] \in Nat
    BY DEF LiveOf, OfType, Weighs
  <1>7. /\ DOMAIN g(lg) \subseteq 1 .. Len(lg) /\ DOMAIN t(lg) \subseteq 1 .. Len(lg)
        /\ DOMAIN a(lg) \subseteq 1 .. Len(lg) /\ DOMAIN u(lg) \subseteq 1 .. Len(lg)
    BY <1>1 DEF LiveOf, OfType
  <1> HIDE DEF g, t, a, u
  <1>8. /\ Total(g(b), Len(b)) = Total(g(lg), Len(lg))
        /\ Total(t(b), Len(b)) = Total(t(lg), Len(lg))
        /\ Total(a(b), Len(b)) = Total(a(lg), Len(lg))
        /\ Total(u(b), Len(b)) = Total(u(lg), Len(lg))
    BY <1>1, <1>5, <1>6, <1>7, TotalStays
  <1>9. QED
    BY <1>8 DEF Reconcile, g, t, a, u

LEMMA WithinBounds ==
    ASSUME NEW a \in Nat, NEW b \in Nat, Within(a, b)
    PROVE  95 * b <= 100 * a
  BY DEF Within

LEMMA BalancedBounds ==
    ASSUME NEW rec, Balanced(rec),
           rec.generated \in Nat, rec.transferred \in Nat,
           rec.accepted \in Nat, rec.accounted \in Nat
    PROVE  857375 * rec.accounted <= 1000000 * rec.generated
  <1>1. CASE rec.accounted = 0
    BY <1>1
  <1>2. CASE rec.accounted # 0
    <2>1. 95 * rec.accounted <= 100 * rec.accepted /\ rec.accepted # 0
      BY <1>2, WithinBounds DEF Balanced
    <2>2. 95 * rec.accepted <= 100 * rec.transferred /\ rec.transferred # 0
      BY <2>1, WithinBounds DEF Balanced
    <2>3. 95 * rec.transferred <= 100 * rec.generated
      BY <2>2, WithinBounds DEF Balanced
    <2>4. QED
      BY <2>1, <2>2, <2>3
  <1>3. QED
    BY <1>1, <1>2

LEMMA WeightsKept ==
    ASSUME WeightsAreNatural, WeightsInv, Step
    PROVE  WeightsInv'
  <1>1. SUFFICES ASSUME NEW n \in DOMAIN ledger'
                 PROVE  Weighs(ledger'[n])
    BY DEF WeightsInv
  <1>2. CASE n \in DOMAIN ledger
    BY <1>2 DEF WeightsInv, Step, Continues
  <1>3. ASSUME NEW e, Unpaid(e)
        PROVE  Weighs(e)
    BY <1>3 DEF Unpaid, WeightsAreNatural, Weighs
  <1>4. ASSUME NEW t, NEW d
        PROVE  Weighs(RewardEntry(ledger, t, Authority, d))
    <2>1. RewardEntry(ledger, t, Authority, d).type = "reward_issued"
      BY RewardIs DEF Pays
    <2>2. QED
      BY <2>1 DEF Weighs
  <1>5. CASE n \in Added
    <2>1. CASE Unpaid(ledger'[n])
      BY <1>3, <2>1
    <2>2. CASE ConsolePays(n)
      BY <1>4, <2>2, Zenon DEF ConsolePays
    <2>3. CASE EnginePays(n)
      BY <1>4, <2>3, Zenon DEF EnginePays
    <2>4. QED
      BY <1>5, <2>1, <2>2, <2>3 DEF Step
  <1>6. QED
    BY <1>2, <1>5 DEF Added

LEMMA RecoveredKept ==
    ASSUME PaidByDesk, WeightsInv, RecoveredWasGenerated, Step
    PROVE  RecoveredWasGenerated'
  <1> DEFINE Covered(lg, lot) == 857375 * Reconcile(lg, lot).accounted
                                     <= 1000000 * Reconcile(lg, lot).generated
  <1>1. SUFFICES ASSUME NEW n \in DOMAIN ledger', ByEngine(n)',
                        ledger'[n].data.rule = "verified_recovery"
                 PROVE  Covered(SubSeq(ledger', 1, n - 1),
                                ledger'[ledger'[n].target].data.lot)
    BY DEF RecoveredWasGenerated
  <1>2. /\ IsLog(ledger) /\ IsLog(ledger') /\ Continues(ledger, ledger')
        /\ DOMAIN ledger = 1 .. Len(ledger) /\ Len(ledger) \in Nat
        /\ DOMAIN ledger' = 1 .. Len(ledger') /\ Len(ledger') \in Nat
        /\ Len(ledger) <= Len(ledger')
        /\ \A k \in DOMAIN ledger : ledger'[k] = ledger[k]
    BY DEF Step, LedgerInv, Continues
  <1>3. ledger'[n].type = "reward_issued" /\ ~ ledger'[n].data.described
    BY <1>1 DEF ByEngine, OfType
  <1>4. CASE n \in DOMAIN ledger
    <2>1. ByEngine(n) /\ ledger'[n] = ledger[n]
      BY <1>2, <1>3, <1>4 DEF ByEngine, OfType
    <2>2. ledger[n].target \in DOMAIN ledger
      BY <1>4, <2>1 DEF PaidByDesk, ByEngine
    <2>3. Covered(SubSeq(ledger, 1, n - 1), ledger[ledger[n].target].data.lot)
      BY <1>1, <1>4, <2>1 DEF RecoveredWasGenerated
    <2> HIDE DEF Covered
    <2>4. QED
      BY <1>2, <1>4, <2>1, <2>2, <2>3, SameBefore
  <1>5. CASE n \notin DOMAIN ledger
    <2>1. n \in Added /\ EnginePays(n)
      <3>1. ~ Unpaid(ledger'[n])
        BY <1>3, UnpaidIs
      <3>2. \A t : ledger'[n] = RewardEntry(ledger, t, Authority, TRUE)
                       => Pays(ledger'[n], ledger, t, TRUE)
        BY RewardIs
      <3>3. ~ ConsolePays(n)
        BY <1>3, <3>2 DEF ConsolePays, Pays
      <3>4. QED
        BY <1>5, <3>1, <3>3 DEF Step, Added
    <2>2. PICK t \in DueRewards(ledger, OpenFlags(ledger)) :
              /\ ledger'[n] = RewardEntry(ledger, t, Authority, FALSE)
              /\ \A k \in Added : ledger'[k].type = "reward_issued"
      BY <2>1 DEF EnginePays
    <2>3. ledger'[n].target = t
          /\ RewardRules[ledger[t].type].rule = "verified_recovery"
      <3>1. Pays(ledger'[n], ledger, t, FALSE)
        BY <2>2, RewardIs
      <3>2. QED
        BY <1>1, <3>1 DEF Pays
    <2> DEFINE before == SubSeq(ledger', 1, n - 1)
               lot == ledger[t].data.lot
    <2>4. /\ IsLog(before) /\ Len(before) = n - 1
          /\ DOMAIN before = 1 .. n - 1
          /\ \A k \in 1 .. n - 1 : before[k] = ledger'[k]
      <3>1. n - 1 \in 0 .. Len(ledger')
        BY <1>2
      <3>2. QED
        BY <1>2, <3>1, BeforeIs
    <2>5. /\ DOMAIN ledger \subseteq 1 .. n - 1 /\ Len(ledger) <= n - 1 /\ n - 1 \in Nat
          /\ \A k \in (1 .. n - 1) \ DOMAIN ledger : k \in Added
      BY <1>2, <1>5 DEF Added
    <2> HIDE DEF before
    <2>6. Continues(ledger, before)
      BY <1>2, <2>4, <2>5 DEF Continues
    <2>7. \A k \in DOMAIN before \ DOMAIN ledger : before[k].type = "reward_issued"
      BY <2>2, <2>4, <2>5
    <2>8. Reconcile(before, lot) = Reconcile(ledger, lot)
      BY <1>2, <2>6, <2>7, SameBalance DEF WeightsInv
    <2>9. t \in DOMAIN ledger /\ Balanced(Reconcile(ledger, lot))
      <3>1. ledger[t].type \in DOMAIN RewardRules /\ t \in DOMAIN ledger
        BY DEF DueRewards, Live
      <3>2. ledger[t].type = "useful_output"
        BY <2>3, <3>1 DEF RewardRules
      <3>3. QED
        BY <3>1, <3>2 DEF DueRewards, NeedsMassBalance
    <2>10. Covered(ledger, lot)
      <3> DEFINE rec == Reconcile(ledger, lot)
      <3>1. /\ rec.generated \in Nat /\ rec.transferred \in Nat
            /\ rec.accepted \in Nat /\ rec.accounted \in Nat
        BY <1>2, ReconcileIs DEF WeightsInv
      <3>2. Balanced(rec)
        BY <2>9
      <3> HIDE DEF rec
      <3>3. 857375 * rec.accounted <= 1000000 * rec.generated
        BY <3>1, <3>2, BalancedBounds
      <3>4. QED
        BY <3>3 DEF rec
    <2>11. Covered(before, lot)
      BY <2>8, <2>10
    <2>12. ledger'[ledger'[n].target].data.lot = lot
      BY <1>2, <2>3, <2>9
    <2> HIDE DEF Covered, lot
    <2>13. QED
      BY <2>11, <2>12 DEF before
  <1>6. QED
    BY <1>4, <1>5

(* What the engine pays for as recovered was there when it came up, if weights *)
(* are natural numbers: a negative one would make any lot balance.            *)
THEOREM RecoveryIsReal ==
    ASSUME WeightsAreNatural
    PROVE  DeskSpec => []RecoveredWasGenerated
  <1>1. DeskInit => WeightsInv /\ RecoveredWasGenerated
    <2> SUFFICES ASSUME DeskInit PROVE WeightsInv /\ RecoveredWasGenerated
      OBVIOUS
    <2>1. \A n \in DOMAIN ledger : ledger[n].type \notin Governed
      BY LocalStartsAssumption DEF DeskInit
    <2>2. WeightsInv
      BY DEF DeskInit, WeightsInv, WeightsAreNatural
    <2>3. QED
      BY <2>1, <2>2 DEF RecoveredWasGenerated, ByEngine, OfType, Governed
  <1>2. /\ DeskInv /\ WeightsInv /\ RecoveredWasGenerated
        /\ [DeskNext]_deskVars
        => (WeightsInv /\ RecoveredWasGenerated)'
    <2> SUFFICES ASSUME DeskInv, WeightsInv, RecoveredWasGenerated, [DeskNext]_deskVars
                 PROVE  WeightsInv' /\ RecoveredWasGenerated'
      OBVIOUS
    <2>1. Step /\ PaidByDesk
      BY StepAdds DEF DeskInv, Step
    <2>2. QED
      BY <2>1, WeightsKept, RecoveredKept
  <1>3. QED
    BY <1>1, <1>2, DeskInvariance, PTL DEF DeskSpec
=============================================================================
