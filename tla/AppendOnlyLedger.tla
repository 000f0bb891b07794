-------------------------- MODULE AppendOnlyLedger --------------------------
(***************************************************************************)
(* What the local ledger promises about its file.  The lines that a load    *)
(* gets through only grow, no event id is among them twice, and as long as *)
(* no write to the file failed every line is chained to the line before it *)
(* and every correction finds its target, signed by its author or by an    *)
(* authority, above it.  The promise has one exception: a last line that   *)
(* lacks its newline is lost to the next write, and nothing that is written *)
(* after that, or after part of a line, is ever found again.               *)
(***************************************************************************)
EXTENDS LedgerEvents

VARIABLES
    log,        \* the lines of the file that a load gets through, oldest first
    end,        \* "ended", "bare", "torn" or "glued": what comes after them
    intact      \* no write failed

absVars == << log, end, intact >>

AInit == log = << >> /\ end = "ended" /\ intact = TRUE

\* A write may fail, whatever it did to the file.
MayFail == intact' \in {intact, FALSE}

AAppend(e) ==
    /\ end = "ended"
    /\ e \in Event
    /\ e.id \notin IdsOf(log)
    /\ intact => /\ e.prev = HeadHash(log)
                 /\ e.kind = "correction" => MayCorrect(e.actor, e.target, log)
    /\ log' = Append(log, e)
    /\ end' \in {"ended", "bare"}
    /\ MayFail

\* The event of a step is the line it adds.
AStep == Len(log') = Len(log) + 1 /\ AAppend(log'[Len(log')])

\* Nothing of a line reached the file, or part of it.
ALose ==
    /\ end' = end \/ (end = "ended" /\ end' = "torn")
    /\ MayFail
    /\ UNCHANGED log

\* A line is written onto one that has no newline.
AGlue ==
    /\ end = "bare"
    /\ end' = "glued"
    /\ log' = SubSeq(log, 1, Len(log) - 1)
    /\ MayFail

ANext == AStep \/ ALose \/ AGlue

ASpec == AInit /\ [][ANext]_absVars
=============================================================================
