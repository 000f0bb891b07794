---------------------------- MODULE MCTraceability ----------------------------
(* One batch and one residue lot of it, picked up at every point of their    *)
(* lives, and right after the last step was corrected.                     *)
EXTENDS Traceability

MCRoleOf ==
    [farmer |-> "farmer", hauler |-> "collector", miller |-> "mill",
     lab |-> "laboratory", bottler |-> "bottler", seller |-> "distributor",
     shop |-> "retailer", recycler |-> "processor", portal |-> "consumer"]

On(id, subject, type, actor, fact, origin) ==
    [id |-> id, type |-> type, subject |-> subject, actor |-> actor,
     time |-> id, fact |-> fact, origin |-> origin, target |-> NoEvent]

Batch(id, type, actor) == On(id, "batch", type, actor, FALSE, NoSubject)
Residue(id, type, actor, fact) == On(id, "residue", type, actor, fact, NoSubject)

Milled ==
    << Batch(1, "cultivation", "farmer"),
       Batch(2, "harvest", "farmer"),
       Batch(3, "collection_transport", "hauler"),
       Batch(4, "milling", "miller") >>

Delivered ==
    Milled \o << Batch(5, "lab_verification", "lab"),
                 Batch(6, "bottling", "bottler"),
                 Batch(7, "distribution_retail", "seller") >>

Accounted ==
    Milled \o << On(5, "residue", "residue_generation", "miller", FALSE, "batch"),
                 Residue(6, "residue_custody", "hauler", FALSE),
                 Residue(7, "residue_custody", "hauler", TRUE),
                 Residue(8, "valorization", "recycler", FALSE),
                 Residue(9, "useful_output", "recycler", TRUE),
                 Residue(10, "return_or_sale", "recycler", FALSE),
                 Residue(11, "env_accounting", "recycler", TRUE) >>

Prefixes(log) == {SubSeq(log, 1, n) : n \in 0 .. Len(log)}

Corrected(log) ==
    LET last == log[Len(log)]
    IN  Append(log, [last EXCEPT !.id = @ + 1, !.time = @ + 1, !.fact = FALSE,
                                 !.type = "correction", !.origin = NoSubject,
                                 !.target = last.id])

Uncorrected == Prefixes(Delivered) \cup Prefixes(Accounted)

MCStartLogs == Uncorrected \cup {Corrected(log) : log \in Uncorrected \ {<< >>}}

NothingRecorded == {<< >>}
=============================================================================
