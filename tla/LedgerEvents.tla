---------------------------- MODULE LedgerEvents ----------------------------
(***************************************************************************)
(* The events of the local ledger and what can be read off a sequence of   *)
(* them (olivechain/ledger.py).  The SHA-256 hash chain is modelled by what *)
(* it commits to: the hash of an event is the chain of event ids that ends *)
(* with it, so two events have one hash only if they and all their         *)
(* predecessors agree (collisions are left out).  Payloads are left out:   *)
(* of an event the model keeps who signed it, whether it is a correction,  *)
(* and of which event.                                                     *)
(***************************************************************************)
EXTENDS Naturals, Sequences

CONSTANTS
    Orgs,           \* organization ids of the registry
    Authorities,    \* the organizations that hold the authority role
    MaxEvents       \* bound on the number of event ids handed out

ASSUME OrgsAssumption == Authorities \subseteq Orgs
ASSUME MaxEventsAssumption == MaxEvents \in Nat

EventIds == 1 .. MaxEvents
NoEvent == 0
GenesisHash == << >>

\* An EventType other than CORRECTION is a "record".
Kinds == {"record", "correction"}

Event == [id : EventIds, kind : Kinds, actor : Orgs,
          target : EventIds \cup {NoEvent}, prev : Seq(EventIds)]

EventHash(e) == Append(e.prev, e.id)

\* Ledger.head_hash
HeadHash(log) == IF log = << >> THEN GenesisHash ELSE EventHash(log[Len(log)])

\* The keys of Ledger._by_id
IdsOf(log) == {log[k].id : k \in 1 .. Len(log)}

\* Ledger.verify_chain: every event commits to the hash of its predecessor.
VerifyChain(log) ==
    \A k \in 1 .. Len(log) :
        log[k].prev = IF k = 1 THEN GenesisHash ELSE EventHash(log[k - 1])

CorrectionsOf(log, i) ==
    {k \in 1 .. Len(log) : log[k].kind = "correction" /\ log[k].target = i}

\* The correction that Ledger._load leaves in superseded_by: the last in the file.
LastCorrection(log, i) ==
    IF CorrectionsOf(log, i) = {}
    THEN NoEvent
    ELSE log[CHOOSE k \in CorrectionsOf(log, i) :
                 \A j \in CorrectionsOf(log, i) : j <= k].id

\* The target is known, and the corrector is its author or an authority.
MayCorrect(actor, target, log) ==
    \E k \in 1 .. Len(log) :
        /\ log[k].id = target
        /\ log[k].actor = actor \/ actor \in Authorities
=============================================================================
