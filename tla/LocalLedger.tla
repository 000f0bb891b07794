----------------------------- MODULE LocalLedger -----------------------------
(***************************************************************************)
(* The local backend: olivechain/ledger.py behind the HTTP handlers of     *)
(* olivechain/api.py.                                                      *)
(*                                                                         *)
(* An organization asks /events/prepare for a body that carries the head   *)
(* hash of the moment (read without the lock), signs it, and sends it to   *)
(* /events/commit, as often as it likes: a reply may be lost.  A commit and *)
(* a consumer scan run under write_lock, and under it they first set the   *)
(* superseded_by pointer of a corrected event, then append to memory, then *)
(* append a line to the file.  The process may die between any two of      *)
(* these steps, and the write of the line may fail while it lives.  A write *)
(* that was cut short leaves a piece of its line, or the whole line without *)
(* the newline that ends it: the next line is then glued to it.            *)
(*                                                                         *)
(* A request the handler refuses (403, 409, 422) changes nothing and is no *)
(* action here.  Signatures are checked by the handler before the lock and *)
(* hold by assumption.                                                     *)
(***************************************************************************)
EXTENDS LedgerEvents

CONSTANTS
    Writers,        \* organizations whose roles permit some record event
    Portal,         \* the consumer portal, which signs scans on the server
    NoBody, NoJob

ASSUME WritersAssumption == Writers \subseteq Orgs
ASSUME PortalAssumption == Portal \in Orgs

Clients == Orgs \ {Portal}
Stages == {"supersede", "append", "write"}
Tails == {"ended", "bare", "torn", "glued"}
Job == [event : Event, stage : Stages]

ASSUME NoBodyAssumption == NoBody \notin Event
ASSUME NoJobAssumption == NoJob \notin Job

VARIABLES
    (* the server process *)
    server,         \* "up", "down", or "broken": _load raised at startup
    mem,            \* Ledger._events (and _by_id, its index)
    supersededBy,   \* Event.superseded_by of the events in memory
    job,            \* the request that holds write_lock, and how far it is
    nextId,         \* the next fresh uuid4
    (* the file *)
    disk,           \* the lines a load gets through
    tail,           \* what the last of them ends in: a newline ("ended") or
                    \* nothing ("bare"); or what stops a load behind them:
                    \* part of a line ("torn") or two on one line ("glued")
    (* the clients *)
    body,           \* the prepared body each client organization holds
    acked,          \* event ids for which a commit or a scan returned 200
    (* history *)
    lostWrites      \* event ids whose write raised while the server lived

serverVars == << server, mem, supersededBy, job >>
diskVars == << disk, tail >>
clientVars == << body, acked >>
vars == << server, mem, supersededBy, job, nextId, disk, tail, body, acked,
           lostWrites >>

-----------------------------------------------------------------------------
TypeOK ==
    /\ server \in {"up", "down", "broken"}
    /\ mem \in Seq(Event)
    /\ supersededBy \in [EventIds -> EventIds \cup {NoEvent}]
    /\ job \in Job \cup {NoJob}
    /\ nextId \in 1 .. MaxEvents + 1
    /\ disk \in Seq(Event)
    /\ tail \in Tails
    /\ body \in [Clients -> Event \cup {NoBody}]
    /\ acked \subseteq EventIds
    /\ lostWrites \subseteq EventIds

Init ==
    /\ server = "up"
    /\ mem = << >>
    /\ supersededBy = [i \in EventIds |-> NoEvent]
    /\ job = NoJob
    /\ nextId = 1
    /\ disk = << >>
    /\ tail = "ended"
    /\ body = [o \in Clients |-> NoBody]
    /\ acked = {}
    /\ lostWrites = {}

-----------------------------------------------------------------------------
(* The role check: PERMISSIONS lets every role submit a correction. *)
Permitted(o, kind) == kind = "record" => o \in Writers

(* POST /events/prepare.  The target of a correction is not looked at. *)
Prepare(o, kind, target) ==
    /\ server = "up"
    /\ body[o] = NoBody
    /\ nextId <= MaxEvents
    /\ Permitted(o, kind)
    /\ kind = "record" <=> target = NoEvent
    /\ body' = [body EXCEPT ![o] =
                    [id |-> nextId, kind |-> kind, actor |-> o,
                     target |-> target, prev |-> HeadHash(mem)]]
    /\ nextId' = nextId + 1
    /\ UNCHANGED << serverVars, diskVars, acked, lostWrites >>

(* The client gives up on a body, or has seen the answer to it. *)
Forget(o) ==
    /\ body[o] # NoBody
    /\ body' = [body EXCEPT ![o] = NoBody]
    /\ UNCHANGED << serverVars, nextId, diskVars, acked, lostWrites >>

(* For the mutation runs: commit_prepared without its prev_hash check, and   *)
(* without its look at the target of a correction.                         *)
CommitAllowedAnyHead(b) ==
    /\ Permitted(b.actor, b.kind)
    /\ b.id \notin IdsOf(mem)
    /\ b.kind = "correction" => MayCorrect(b.actor, b.target, mem)

CommitAllowedAnyTarget(b) ==
    /\ Permitted(b.actor, b.kind)
    /\ b.id \notin IdsOf(mem)
    /\ b.prev = HeadHash(mem)

(* Ledger.commit_prepared up to its last check. *)
CommitAllowed(b) ==
    /\ Permitted(b.actor, b.kind)
    /\ b.id \notin IdsOf(mem)
    /\ b.prev = HeadHash(mem)
    /\ b.kind = "correction" => MayCorrect(b.actor, b.target, mem)

FirstStage(e) == IF e.kind = "correction" THEN "supersede" ELSE "append"

(* POST /events/commit takes write_lock.  The body stays with the client,   *)
(* which may send it again.                                                *)
Commit(o) ==
    /\ server = "up"
    /\ job = NoJob
    /\ body[o] # NoBody
    /\ CommitAllowed(body[o])
    /\ job' = [event |-> body[o], stage |-> FirstStage(body[o])]
    /\ UNCHANGED << server, mem, supersededBy, nextId, diskVars, clientVars,
                    lostWrites >>

(* POST /scan/{batch_id}: Ledger.append signed by the portal, for a batch   *)
(* that has an event.                                                      *)
Scan ==
    /\ server = "up"
    /\ job = NoJob
    /\ nextId <= MaxEvents
    /\ \E k \in 1 .. Len(mem) : mem[k].kind = "record" /\ mem[k].actor # Portal
    /\ job' = [event |-> [id |-> nextId, kind |-> "record", actor |-> Portal,
                          target |-> NoEvent, prev |-> HeadHash(mem)],
               stage |-> "append"]
    /\ nextId' = nextId + 1
    /\ UNCHANGED << server, mem, supersededBy, diskVars, clientVars,
                    lostWrites >>

(* target.superseded_by = ev.event_id *)
Supersede ==
    /\ job # NoJob
    /\ job.stage = "supersede"
    /\ supersededBy' = [supersededBy EXCEPT ![job.event.target] = job.event.id]
    /\ job' = [job EXCEPT !.stage = "append"]
    /\ UNCHANGED << server, mem, nextId, diskVars, clientVars, lostWrites >>

(* self._events.append(ev); self._by_id[ev.event_id] = ev *)
AppendMemory ==
    /\ job # NoJob
    /\ job.stage = "append"
    /\ mem' = Append(mem, job.event)
    /\ job' = [job EXCEPT !.stage = "write"]
    /\ UNCHANGED << server, supersededBy, nextId, diskVars, clientVars,
                    lostWrites >>

(* What a write leaves of its line: all of it, all but the newline, or less. *)
Ends == {"ended", "bare", "torn"}

(* For the mutation runs: the file opened with "w" instead of "a". *)
LinesOver(e, end) == << e >>

(* The lines a load gets through after e was written up to this end.  On a  *)
(* line without a newline, the two are one line that does not parse.       *)
Lines(e, end) ==
    CASE tail = "ended" /\ end # "torn" -> Append(disk, e)
      [] tail = "bare" -> SubSeq(disk, 1, Len(disk) - 1)
      [] OTHER -> disk

TailAfter(end) ==
    CASE tail = "ended" -> end
      [] tail = "bare" -> "glued"
      [] OTHER -> tail

Write(end) == disk' = Lines(job.event, end) /\ tail' = TailAfter(end)

(* The line goes to the end of the file, whatever is there; the handler     *)
(* returns 200.                                                            *)
WriteLine ==
    /\ job # NoJob
    /\ job.stage = "write"
    /\ Write("ended")
    /\ acked' = acked \cup {job.event.id}
    /\ job' = NoJob
    /\ UNCHANGED << server, mem, supersededBy, nextId, body, lostWrites >>

(* OSError out of open, write or close: 500, and nothing is undone, in      *)
(* memory or in the file.                                                  *)
WriteFails ==
    /\ job # NoJob
    /\ job.stage = "write"
    /\ UNCHANGED diskVars \/ \E end \in Ends : Write(end)
    /\ lostWrites' = lostWrites \cup {job.event.id}
    /\ job' = NoJob
    /\ UNCHANGED << server, mem, supersededBy, nextId, clientVars >>

(* The process dies.  A line that was being written reaches the file whole, *)
(* in part or not at all.                                                  *)
Crash ==
    /\ server = "up"
    /\ server' = "down"
    /\ mem' = << >>
    /\ supersededBy' = [i \in EventIds |-> NoEvent]
    /\ job' = NoJob
    /\ \/ UNCHANGED diskVars
       \/ /\ job # NoJob
          /\ job.stage = "write"
          /\ \E end \in Ends : Write(end)
    /\ UNCHANGED << nextId, clientVars, lostWrites >>

(* For the mutation runs: _load without its second loop. *)
RebuildNothing == [i \in EventIds |-> NoEvent]

(* The second loop of Ledger._load. *)
Rebuild == [i \in EventIds |->
               IF i \in IdsOf(disk) THEN LastCorrection(disk, i) ELSE NoEvent]

(* Ledger._load: parse the lines, a last one without a newline too, then    *)
(* rebuild the supersession pointers.                                      *)
Restart ==
    /\ server = "down"
    /\ IF tail \in {"torn", "glued"}
       THEN /\ server' = "broken"
            /\ UNCHANGED << mem, supersededBy >>
       ELSE /\ server' = "up"
            /\ mem' = disk
            /\ supersededBy' = Rebuild
    /\ UNCHANGED << job, nextId, diskVars, clientVars, lostWrites >>

PrepareAny ==
    \E o \in Clients, kind \in Kinds, target \in EventIds \cup {NoEvent} :
        Prepare(o, kind, target)

Next ==
    \/ PrepareAny
    \/ \E o \in Clients : Commit(o) \/ Forget(o)
    \/ Scan
    \/ Supersede
    \/ AppendMemory
    \/ WriteLine
    \/ WriteFails
    \/ Crash
    \/ Restart

Spec == Init /\ [][Next]_vars
-----------------------------------------------------------------------------
(* An event the server acknowledged is on file for good, through crashes    *)
(* and repeated commits, but for two mishaps the code does not guard        *)
(* against: a write failed and the server kept running, or a crash cut a    *)
(* line just before its newline and the restarted server wrote on.         *)
AckedDurable ==
    (lostWrites = {} /\ tail # "glued") => acked \subseteq IdsOf(disk)

(* The chain in memory, which /health?deep=true and every passport verify,  *)
(* is unbroken after any number of racing prepares, crashes and restarts,   *)
(* unless a write failed and the server kept running.                       *)
ChainIntact == lostWrites = {} => VerifyChain(mem)

(* While no request is under way, the superseded_by pointers that commits   *)
(* set one by one are the ones a load of the same events would rebuild.    *)
SupersessionRebuilds ==
    (server = "up" /\ job = NoJob) =>
        \A i \in IdsOf(mem) : supersededBy[i] = LastCorrection(mem, i)

(* Ledger.effective_payload terminates: a pointer leads to a later event.  *)
PointersForward ==
    (server = "up" /\ job = NoJob) =>
        \A k \in 1 .. Len(mem) :
            supersededBy[mem[k].id] # NoEvent =>
                \E m \in k + 1 .. Len(mem) : mem[m].id = supersededBy[mem[k].id]

(* What the docstring of ledger.py says of the file: the chain a restart    *)
(* finds on disk verifies, whatever happened to the writes before.         *)
DiskReverifies == VerifyChain(disk)

(* The file implements the append-only ledger, whose lines only grow but    *)
(* for the one that a write is glued to.                                   *)
Abstract == INSTANCE AppendOnlyLedger
                WITH log <- disk, end <- tail, intact <- (lostWrites = {})
AppendOnly == Abstract!ASpec
=============================================================================
