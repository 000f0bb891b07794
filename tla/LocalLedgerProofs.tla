--------------------------- MODULE LocalLedgerProofs ---------------------------
(***************************************************************************)
(* Proofs about LocalLedger for any set of organizations and any number of *)
(* events: types, the durability of acknowledged events, the continuity of *)
(* the hash chain, that the file implements AppendOnlyLedger, and that the *)
(* superseded_by pointers are right.                                       *)
(*                                                                         *)
(* The argument.  write_lock makes the checks of a request hold until its  *)
(* event is in memory (LockInv): nothing else appends to memory meanwhile. *)
(* As long as no write was lost and none was glued to a line without its   *)
(* newline, memory is the file, plus the one event that is being written   *)
(* (FileInv).  Ids are fresh (FreshInv) because a    *)
(* uuid is never handed out twice.                                         *)
(***************************************************************************)
EXTENDS LocalLedger, BoundedInduction, SequenceTheorems, TLAPS

IdsBelow(log, n) == \A i \in IdsOf(log) : i < n

FreshInv ==
    /\ IdsBelow(mem, nextId)
    /\ IdsBelow(disk, nextId)
    /\ \A o \in Clients : body[o] # NoBody => body[o].id < nextId
    /\ job # NoJob => job.event.id < nextId

\* What the checks of a request established about the log it will extend.
Extends(e, log) ==
    /\ e.id \notin IdsOf(log)
    /\ e.prev = HeadHash(log)
    /\ e.kind = "correction" => MayCorrect(e.actor, e.target, log)

LockInv ==
    /\ server # "up" => job = NoJob
    /\ (job # NoJob /\ job.stage # "write") => Extends(job.event, mem)
    /\ (job # NoJob /\ job.stage = "write") =>
           job.event.id \in IdsOf(mem) /\ job.event.id \notin IdsOf(disk)

Writing == job # NoJob /\ job.stage = "write"

FileInv ==
    /\ server = "up" => IdsOf(disk) \subseteq IdsOf(mem)
    /\ lostWrites = {} =>
           /\ VerifyChain(disk)
           /\ VerifyChain(mem)
           /\ server = "up" => tail # "torn"
           /\ tail # "glued" =>
                  /\ acked \subseteq IdsOf(disk)
                  /\ server = "up" /\ ~ Writing => mem = disk
                  /\ Writing => /\ mem = Append(disk, job.event)
                                /\ Extends(job.event, disk)

IInv == TypeOK /\ FreshInv /\ LockInv /\ FileInv
-----------------------------------------------------------------------------
(* An appended event adds its id to the ids of the log. *)
LEMMA AppendIds ==
    ASSUME NEW log \in Seq(Event), NEW e \in Event
    PROVE  IdsOf(Append(log, e)) = IdsOf(log) \cup {e.id}
  <1> DEFINE new == Append(log, e)
  <1>1. /\ Len(new) = Len(log) + 1
        /\ new[Len(log) + 1] = e
        /\ \A k \in 1 .. Len(log) : new[k] = log[k]
    OBVIOUS
  <1>2. 1 .. Len(new) = (1 .. Len(log)) \cup {Len(log) + 1}
    BY <1>1
  <1> HIDE DEF new
  <1>3. QED
    BY <1>1, <1>2 DEF IdsOf, new

(* The ids of a log are event ids. *)
LEMMA IdsType ==
    ASSUME NEW log \in Seq(Event)
    PROVE  IdsOf(log) \subseteq EventIds
  <1>1. \A k \in 1 .. Len(log) : log[k] \in Event
    OBVIOUS
  <1>2. QED
    BY <1>1 DEF IdsOf, Event

(* The head of a log is a chain of ids. *)
LEMMA HeadHashType ==
    ASSUME NEW log \in Seq(Event)
    PROVE  HeadHash(log) \in Seq(EventIds)
  <1>1. CASE log = << >>
    BY <1>1 DEF HeadHash, GenesisHash
  <1>2. CASE log # << >>
    <2>1. log[Len(log)] \in Event
      BY <1>2
    <2>2. EventHash(log[Len(log)]) \in Seq(EventIds)
      BY <2>1 DEF EventHash, Event
    <2>3. QED
      BY <1>2, <2>2 DEF HeadHash
  <1>3. QED
    BY <1>1, <1>2

(* Appending an event that commits to the head keeps the chain unbroken. *)
LEMMA AppendChain ==
    ASSUME NEW log \in Seq(Event), NEW e \in Event,
           VerifyChain(log), e.prev = HeadHash(log)
    PROVE  VerifyChain(Append(log, e))
  <1> DEFINE new == Append(log, e)
  <1>1. /\ new \in Seq(Event)
        /\ Len(new) = Len(log) + 1
        /\ new[Len(log) + 1] = e
        /\ \A k \in 1 .. Len(log) : new[k] = log[k]
    OBVIOUS
  <1> HIDE DEF new
  <1>2. SUFFICES ASSUME NEW k \in 1 .. Len(new)
                 PROVE  new[k].prev = IF k = 1 THEN GenesisHash
                                      ELSE EventHash(new[k - 1])
    BY DEF VerifyChain, new
  <1>3. CASE k <= Len(log)
    <2>1. new[k] = log[k] /\ (k # 1 => new[k - 1] = log[k - 1])
      BY <1>1, <1>3
    <2>2. QED
      BY <1>3, <2>1 DEF VerifyChain
  <1>4. CASE k = Len(log) + 1 /\ log = << >>
    BY <1>1, <1>4 DEF HeadHash
  <1>5. CASE k = Len(log) + 1 /\ log # << >>
    <2>1. k # 1 /\ new[k - 1] = log[Len(log)]
      BY <1>1, <1>5
    <2>2. QED
      BY <1>1, <1>5, <2>1 DEF HeadHash
  <1>6. QED
    BY <1>1, <1>3, <1>4, <1>5

(* A log without its last event. *)
LEMMA FrontOfLog ==
    ASSUME NEW log \in Seq(Event)
    PROVE  LET front == SubSeq(log, 1, Len(log) - 1)
           IN  /\ front \in Seq(Event)
               /\ Len(front) <= Len(log)
               /\ \A k \in 1 .. Len(front) : front[k] = log[k]
  <1> DEFINE front == SubSeq(log, 1, Len(log) - 1)
  <1>1. /\ Len(log) \in Nat /\ Len(log) - 1 \in Int /\ 1 \in Int
        /\ \A k \in 1 .. Len(log) - 1 : log[k] \in Event
    OBVIOUS
  <1>2. /\ front \in Seq(Event)
        /\ Len(front) = IF 1 <= Len(log) - 1 THEN Len(log) - 1 - 1 + 1 ELSE 0
        /\ \A k \in 1 .. Len(log) - 1 - 1 + 1 : front[k] = log[1 + k - 1]
    BY <1>1, SubSeqProperties
  <1> HIDE DEF front
  <1>3. Len(front) <= Len(log) /\ \A k \in 1 .. Len(front) : front[k] = log[k]
    BY <1>1, <1>2
  <1>4. QED
    BY <1>2, <1>3 DEF front

(* Its ids are ids of the log, and its chain is unbroken if the log's is.  *)
LEMMA FrontIds ==
    ASSUME NEW log \in Seq(Event)
    PROVE  /\ IdsOf(SubSeq(log, 1, Len(log) - 1)) \subseteq IdsOf(log)
           /\ VerifyChain(log) => VerifyChain(SubSeq(log, 1, Len(log) - 1))
  <1> DEFINE front == SubSeq(log, 1, Len(log) - 1)
  <1>1. /\ front \in Seq(Event)
        /\ Len(front) <= Len(log)
        /\ \A k \in 1 .. Len(front) : front[k] = log[k]
    BY FrontOfLog
  <1> HIDE DEF front
  <1>2. \A k \in 1 .. Len(front) : k \in 1 .. Len(log) /\ (k # 1 => k - 1 \in 1 .. Len(front))
    BY <1>1
  <1>3. IdsOf(front) \subseteq IdsOf(log)
    BY <1>1, <1>2 DEF IdsOf
  <1>4. VerifyChain(log) => VerifyChain(front)
    BY <1>1, <1>2 DEF VerifyChain
  <1>5. QED
    BY <1>3, <1>4 DEF front

(* What a write may do to the file: nothing that a load gets to see, one    *)
(* more line, or the last line lost.                                       *)
LEMMA WriteOutcomes ==
    ASSUME NEW part \in Ends, Write(part), TypeOK
    PROVE  \/ /\ disk' = disk
              /\ \/ tail' = tail /\ tail \notin {"ended", "bare"}
                 \/ tail = "ended" /\ tail' = "torn" /\ part = "torn"
           \/ /\ tail = "ended" /\ tail' \in {"ended", "bare"}
              /\ disk' = Append(disk, job.event)
           \/ /\ tail = "bare" /\ tail' = "glued"
              /\ disk' = SubSeq(disk, 1, Len(disk) - 1)
  BY DEF Write, Lines, TailAfter, Ends, Tails, TypeOK

(* What a load leaves in superseded_by is an event id or none. *)
LEMMA LastCorrectionType ==
    ASSUME NEW log \in Seq(Event), NEW i
    PROVE  LastCorrection(log, i) \in EventIds \cup {NoEvent}
  <1> DEFINE S == CorrectionsOf(log, i)
  <1>1. CASE S = {}
    BY <1>1 DEF LastCorrection
  <1>2. CASE S # {}
    <2>1. S \in SUBSET (1 .. Len(log)) /\ Len(log) \in Nat
      BY DEF CorrectionsOf
    <2> DEFINE k == CHOOSE m \in S : \A j \in S : j <= m
    <2>2. \E m \in S : \A j \in S : j <= m
      <3> HIDE DEF S
      <3>1. QED
        BY <1>2, <2>1, LastPosition
    <2>3. k \in S
      BY <2>2
    <2> HIDE DEF k
    <2>4. log[k] \in Event
      BY <2>1, <2>3
    <2>5. log[k].id \in EventIds
      BY <2>4 DEF Event
    <2> USE DEF k
    <2>6. QED
      BY <1>2, <2>5 DEF LastCorrection
  <1>3. QED
    BY <1>1, <1>2
-----------------------------------------------------------------------------
(* The initial state is well typed. *)
LEMMA InitTypeOK == Init => TypeOK
  <1> SUFFICES ASSUME Init PROVE TypeOK
    OBVIOUS
  <1>1. mem \in Seq(Event) /\ disk \in Seq(Event)
    BY DEF Init
  <1>2. /\ supersededBy \in [EventIds -> EventIds \cup {NoEvent}]
        /\ body \in [Clients -> Event \cup {NoBody}]
    BY DEF Init
  <1>3. nextId \in 1 .. MaxEvents + 1
    BY MaxEventsAssumption DEF Init
  <1>4. QED
    BY <1>1, <1>2, <1>3 DEF Init, TypeOK, Tails

(* Every step keeps the variables within their types. *)
LEMMA NextTypeOK == TypeOK /\ [Next]_vars => TypeOK'
  <1> SUFFICES ASSUME TypeOK, [Next]_vars
               PROVE  TypeOK'
    OBVIOUS
  <1> USE MaxEventsAssumption, NoJobAssumption, NoBodyAssumption
  <1>0. ASSUME NEW part \in Ends, Write(part), job.event \in Event
        PROVE  disk' \in Seq(Event) /\ tail' \in Tails
    <2>1. /\ Append(disk, job.event) \in Seq(Event)
          /\ SubSeq(disk, 1, Len(disk) - 1) \in Seq(Event)
      BY <1>0, FrontOfLog DEF TypeOK
    <2>2. QED
      BY <1>0, <2>1, WriteOutcomes DEF TypeOK, Tails
  <1>1. ASSUME NEW o \in Clients, NEW kind \in Kinds,
               NEW target \in EventIds \cup {NoEvent}, Prepare(o, kind, target)
        PROVE  TypeOK'
    <2>1. HeadHash(mem) \in Seq(EventIds)
      BY HeadHashType DEF TypeOK
    <2>2. nextId \in EventIds
      BY <1>1 DEF TypeOK, Prepare, EventIds
    <2>3. [id |-> nextId, kind |-> kind, actor |-> o, target |-> target,
           prev |-> HeadHash(mem)] \in Event
      BY <2>1, <2>2 DEF Event, Clients
    <2>4. QED
      BY <1>1, <2>3 DEF TypeOK, Prepare, serverVars, diskVars
  <1>2. ASSUME NEW o \in Clients, Forget(o)
        PROVE  TypeOK'
    BY <1>2 DEF TypeOK, Forget, serverVars, diskVars
  <1>3. ASSUME NEW o \in Clients, Commit(o)
        PROVE  TypeOK'
    BY <1>3 DEF TypeOK, Commit, FirstStage, Job, Stages, diskVars, clientVars
  <1>4. CASE Scan
    <2>1. HeadHash(mem) \in Seq(EventIds)
      BY HeadHashType DEF TypeOK
    <2>2. [id |-> nextId, kind |-> "record", actor |-> Portal,
           target |-> NoEvent, prev |-> HeadHash(mem)] \in Event
      BY <1>4, <2>1, PortalAssumption DEF Event, Kinds, Scan, TypeOK, EventIds
    <2>3. QED
      BY <1>4, <2>2 DEF TypeOK, Scan, Job, Stages, diskVars, clientVars
  <1>5. CASE Supersede
    <2>1. job.event.id \in EventIds /\ job.event \in Event
      BY <1>5 DEF TypeOK, Supersede, Job, Event
    <2>2. QED
      BY <1>5, <2>1 DEF TypeOK, Supersede, Job, Stages, diskVars, clientVars
  <1>6. CASE AppendMemory
    BY <1>6 DEF TypeOK, AppendMemory, Job, Stages, diskVars, clientVars
  <1>7. CASE WriteLine
    <2>1. job.event \in Event /\ job.event.id \in EventIds
      BY <1>7 DEF TypeOK, WriteLine, Job, Event
    <2>2. disk' \in Seq(Event) /\ tail' \in Tails
      BY <1>0, <1>7, <2>1 DEF WriteLine, Ends
    <2>3. QED
      BY <1>7, <2>1, <2>2 DEF TypeOK, WriteLine
  <1>8. CASE WriteFails
    <2>1. job.event \in Event /\ job.event.id \in EventIds
      BY <1>8 DEF TypeOK, WriteFails, Job, Event
    <2>2. disk' \in Seq(Event) /\ tail' \in Tails
      BY <1>0, <1>8, <2>1 DEF WriteFails, diskVars, TypeOK
    <2>3. QED
      BY <1>8, <2>1, <2>2 DEF TypeOK, WriteFails, clientVars
  <1>9. CASE Crash
    <2>1. job # NoJob => job.event \in Event
      BY DEF TypeOK, Job
    <2>2. disk' \in Seq(Event) /\ tail' \in Tails
      BY <1>0, <1>9, <2>1 DEF Crash, diskVars, TypeOK
    <2>3. /\ mem' \in Seq(Event)
          /\ supersededBy' \in [EventIds -> EventIds \cup {NoEvent}]
      BY <1>9 DEF Crash
    <2>4. QED
      BY <1>9, <2>2, <2>3 DEF TypeOK, Crash, clientVars
  <1>10. CASE Restart
    <2>1. Rebuild \in [EventIds -> EventIds \cup {NoEvent}]
      BY LastCorrectionType DEF Rebuild, TypeOK
    <2>2. QED
      BY <1>10, <2>1 DEF TypeOK, Restart, diskVars, clientVars
  <1>11. CASE UNCHANGED vars
    BY <1>11 DEF TypeOK, vars
  <1>12. QED
    BY <1>1, <1>2, <1>3, <1>4, <1>5, <1>6, <1>7, <1>8, <1>9, <1>10, <1>11
       DEF Next, PrepareAny

(* Every reachable state is well typed. *)
THEOREM TypeCorrect == Spec => []TypeOK
  BY InitTypeOK, NextTypeOK, PTL DEF Spec
-----------------------------------------------------------------------------
(* Ids stay below the next fresh one. *)
LEMMA NextFresh == TypeOK /\ FreshInv /\ [Next]_vars => FreshInv'
  <1> SUFFICES ASSUME TypeOK, FreshInv, [Next]_vars
               PROVE  FreshInv'
    OBVIOUS
  <1> USE DEF FreshInv
  <1>0. nextId \in Nat /\ IdsOf(mem) \subseteq Nat /\ IdsOf(disk) \subseteq Nat
    BY MaxEventsAssumption, IdsType DEF TypeOK, EventIds
  <1>1. ASSUME NEW o \in Clients, NEW kind \in Kinds,
               NEW target \in EventIds \cup {NoEvent}, Prepare(o, kind, target)
        PROVE  FreshInv'
    <2>1. /\ nextId' = nextId + 1
          /\ mem' = mem /\ disk' = disk /\ job' = job
      BY <1>1 DEF Prepare, serverVars, diskVars
    <2>2. IdsBelow(mem, nextId)' /\ IdsBelow(disk, nextId)'
      BY <1>0, <2>1 DEF IdsBelow
    <2>3. ASSUME NEW p \in Clients, body'[p] # NoBody
          PROVE  body'[p].id < nextId'
      <3>1. CASE p = o
        BY <1>0, <1>1, <2>1, <3>1 DEF Prepare, TypeOK
      <3>2. CASE p # o
        <4>1. body'[p] = body[p]
          BY <1>1, <3>2 DEF Prepare, TypeOK
        <4>2. body[p].id \in Nat
          BY <2>3, <4>1 DEF TypeOK, Event, EventIds
        <4>3. QED
          BY <1>0, <2>1, <2>3, <4>1, <4>2
      <3>3. QED
        BY <3>1, <3>2
    <2>4. job' # NoJob => job'.event.id < nextId'
      <3>1. job # NoJob => job.event.id \in Nat
        BY DEF TypeOK, Job, Event, EventIds
      <3>2. QED
        BY <1>0, <2>1, <3>1
    <2>5. QED
      BY <2>2, <2>3, <2>4
  <1>2. ASSUME NEW o \in Clients, Forget(o)
        PROVE  FreshInv'
    BY <1>2 DEF TypeOK, Forget, serverVars, diskVars
  <1>3. ASSUME NEW o \in Clients, Commit(o)
        PROVE  FreshInv'
    BY <1>3 DEF Commit, diskVars, clientVars
  <1>4. CASE Scan
    <2>1. /\ nextId' = nextId + 1 /\ mem' = mem /\ disk' = disk /\ body' = body
          /\ job'.event.id = nextId
      BY <1>4 DEF Scan, diskVars, clientVars
    <2>2. \A o \in Clients : body[o] # NoBody => body[o].id \in Nat
      BY DEF TypeOK, Event, EventIds
    <2>3. QED
      BY <1>0, <2>1, <2>2 DEF IdsBelow
  <1>5. CASE Supersede
    BY <1>5 DEF Supersede, diskVars, clientVars, TypeOK, Job
  <1>6. CASE AppendMemory
    <2>1. /\ job.event \in Event /\ mem' = Append(mem, job.event)
          /\ UNCHANGED << nextId, disk, body >>
          /\ job'.event = job.event
      BY <1>6 DEF AppendMemory, diskVars, clientVars, TypeOK, Job
    <2>2. IdsOf(mem') = IdsOf(mem) \cup {job.event.id}
      BY <2>1, AppendIds DEF TypeOK
    <2>3. QED
      BY <1>6, <2>1, <2>2 DEF IdsBelow, AppendMemory
  <1>7. ASSUME UNCHANGED << nextId, body >>, job' = NoJob,
               mem' = mem \/ mem' = << >>,
               \/ disk' = disk
               \/ job # NoJob /\ \E part \in Ends : Write(part)
        PROVE  FreshInv'
    <2>1. IdsBelow(mem, nextId)'
      BY <1>7 DEF IdsBelow, IdsOf
    <2>2. IdsBelow(disk, nextId)'
      <3>1. CASE disk' = disk
        BY <1>7, <3>1 DEF IdsBelow
      <3>2. CASE job # NoJob /\ disk' = Append(disk, job.event)
        <4>1. IdsOf(disk') = IdsOf(disk) \cup {job.event.id}
          BY <3>2, AppendIds DEF TypeOK, Job
        <4>2. QED
          BY <1>7, <3>2, <4>1 DEF IdsBelow
      <3>3. CASE disk' = SubSeq(disk, 1, Len(disk) - 1)
        BY <1>7, <3>3, FrontIds DEF IdsBelow, TypeOK
      <3>4. QED
        BY <1>7, <3>1, <3>2, <3>3, WriteOutcomes
    <2>3. QED
      BY <1>7, <2>1, <2>2
  <1>8. CASE WriteLine
    BY <1>7, <1>8 DEF WriteLine, Ends
  <1>9. CASE WriteFails
    BY <1>7, <1>9 DEF WriteFails, clientVars, diskVars
  <1>10. CASE Crash
    BY <1>7, <1>10 DEF Crash, clientVars, diskVars
  <1>11. CASE Restart
    BY <1>11 DEF Restart, diskVars, clientVars, IdsBelow
  <1>12. CASE UNCHANGED vars
    BY <1>12 DEF vars
  <1>13. QED
    BY <1>1, <1>2, <1>3, <1>4, <1>5, <1>6, <1>8, <1>9, <1>10, <1>11, <1>12
       DEF Next, PrepareAny
-----------------------------------------------------------------------------
(* What the checks of a request established still holds when it acts on it. *)
LEMMA NextLock ==
    TypeOK /\ FreshInv /\ LockInv /\ FileInv /\ [Next]_vars => LockInv'
  <1> SUFFICES ASSUME TypeOK, FreshInv, LockInv, FileInv, [Next]_vars
               PROVE  LockInv'
    OBVIOUS
  <1>1. ASSUME UNCHANGED << serverVars, disk >>
        PROVE  LockInv'
    BY <1>1 DEF LockInv, serverVars
  <1>2. ASSUME job' = NoJob
        PROVE  LockInv'
    BY <1>2 DEF LockInv
  <1>3. ASSUME NEW o \in Clients, Commit(o)
        PROVE  LockInv'
    <2>1. /\ Extends(body[o], mem)
          /\ job'.event = body[o] /\ job'.stage # "write"
          /\ UNCHANGED << server, mem >> /\ server = "up"
      BY <1>3 DEF Commit, CommitAllowed, Extends, FirstStage
    <2>2. QED
      BY <2>1 DEF LockInv
  <1>4. CASE Scan
    <2>1. nextId \notin IdsOf(mem)
      BY MaxEventsAssumption DEF FreshInv, IdsBelow, TypeOK
    <2>2. /\ job'.event.id = nextId /\ job'.event.kind = "record"
          /\ job'.event.prev = HeadHash(mem) /\ job'.stage = "append"
          /\ UNCHANGED << server, mem >> /\ server = "up"
      BY <1>4 DEF Scan
    <2>3. QED
      BY <2>1, <2>2 DEF LockInv, Extends
  <1>5. CASE Supersede
    <2>1. /\ job'.event = job.event /\ job'.stage = "append"
          /\ job # NoJob /\ job.stage # "write"
          /\ UNCHANGED << server, mem >>
      BY <1>5 DEF Supersede, TypeOK, Job
    <2>2. QED
      BY <2>1 DEF LockInv
  <1>6. CASE AppendMemory
    <2>1. /\ job.event \in Event /\ mem' = Append(mem, job.event)
          /\ UNCHANGED << server, disk >>
          /\ job'.event = job.event /\ job'.stage = "write"
          /\ job # NoJob /\ job.stage # "write"
      BY <1>6 DEF AppendMemory, diskVars, TypeOK, Job
    <2>2. IdsOf(mem') = IdsOf(mem) \cup {job.event.id}
      BY <2>1, AppendIds DEF TypeOK
    <2>3. server = "up" /\ Extends(job.event, mem)
      BY <2>1 DEF LockInv
    <2>4. job.event.id \notin IdsOf(disk)
      BY <2>3 DEF FileInv, Extends
    <2>5. QED
      BY <2>1, <2>2, <2>3, <2>4 DEF LockInv
  <1>7. CASE Restart
    <2>1. job' = NoJob
      BY <1>7 DEF Restart, LockInv
    <2>2. QED
      BY <1>2, <2>1
  <1>8. QED
    <2>1. ASSUME NEW o \in Clients, NEW kind \in Kinds,
                 NEW target \in EventIds \cup {NoEvent}, Prepare(o, kind, target)
          PROVE  LockInv'
      BY <1>1, <2>1 DEF Prepare, diskVars
    <2>2. ASSUME NEW o \in Clients, Forget(o)
          PROVE  LockInv'
      BY <1>1, <2>2 DEF Forget, diskVars
    <2>3. CASE WriteLine \/ WriteFails \/ Crash
      BY <1>2, <2>3 DEF WriteLine, WriteFails, Crash
    <2>4. CASE UNCHANGED vars
      BY <1>1, <2>4 DEF vars, serverVars
    <2>5. QED
      BY <1>3, <1>4, <1>5, <1>6, <1>7, <2>1, <2>2, <2>3, <2>4 DEF Next, PrepareAny
-----------------------------------------------------------------------------
(* Memory and the file agree up to the event being written.                *)
LEMMA NextFile == IInv /\ [Next]_vars => FileInv'
  <1> SUFFICES ASSUME TypeOK, FreshInv, LockInv, FileInv, [Next]_vars
               PROVE  FileInv'
    BY DEF IInv
  <1>1. ASSUME UNCHANGED << serverVars, diskVars, acked, lostWrites >>
        PROVE  FileInv'
    BY <1>1 DEF FileInv, Writing, serverVars, diskVars
  <1>2. ASSUME UNCHANGED << server, mem, diskVars, acked, lostWrites >>,
               job = NoJob \/ job.stage # "write",
               job' # NoJob, job'.stage # "write"
        PROVE  FileInv'
    BY <1>2 DEF FileInv, Writing, diskVars
  <1>3. ASSUME NEW o \in Clients, Commit(o)
        PROVE  FileInv'
    <2>1. job'.stage # "write" /\ job' # NoJob
      BY <1>3, NoJobAssumption DEF Commit, FirstStage, TypeOK, Job, Stages
    <2>2. QED
      BY <1>2, <1>3, <2>1 DEF Commit, clientVars
  <1>4. CASE Scan
    <2>1. job'.stage # "write"
      BY <1>4 DEF Scan
    <2>2. job' # NoJob
      <3>1. TypeOK'
        BY NextTypeOK
      <3>2. HeadHash(mem) \in Seq(EventIds)
        BY HeadHashType DEF TypeOK
      <3>3. [id |-> nextId, kind |-> "record", actor |-> Portal,
             target |-> NoEvent, prev |-> HeadHash(mem)] \in Event
        BY <1>4, <3>2, PortalAssumption DEF Event, Kinds, Scan, TypeOK, EventIds
      <3>4. QED
        BY <1>4, <3>3, NoJobAssumption DEF Scan, Job, Stages
    <2>3. QED
      BY <1>2, <1>4, <2>1, <2>2 DEF Scan, clientVars
  <1>5. CASE Supersede
    <2>1. job' # NoJob /\ job'.stage # "write"
      BY <1>5, NoJobAssumption DEF Supersede, TypeOK, Job, Stages
    <2>2. QED
      BY <1>2, <1>5, <2>1 DEF Supersede, clientVars
  <1>6. CASE AppendMemory
    <2>1. /\ job.event \in Event /\ mem' = Append(mem, job.event)
          /\ UNCHANGED << server, diskVars, acked, lostWrites >>
          /\ job'.event = job.event /\ job'.stage = "write"
          /\ job # NoJob /\ job.stage # "write"
      BY <1>6 DEF AppendMemory, clientVars, TypeOK, Job
    <2>2. IdsOf(mem') = IdsOf(mem) \cup {job.event.id}
      BY <2>1, AppendIds DEF TypeOK
    <2>3. server = "up" /\ Extends(job.event, mem)
      BY <2>1 DEF LockInv
    <2>4. VerifyChain(mem) => VerifyChain(mem')
      BY <2>1, <2>3, AppendChain DEF TypeOK, Extends
    <2>5. ~ Writing /\ Writing' = (job' # NoJob)
      BY <2>1 DEF Writing
    <2>6. job' # NoJob
      BY <1>6, NoJobAssumption DEF AppendMemory, TypeOK, Job, Stages
    <2>7. server' = "up" => IdsOf(disk') \subseteq IdsOf(mem')
      BY <2>1, <2>2, <2>3 DEF FileInv, diskVars
    <2>8. ASSUME lostWrites' = {}
          PROVE  /\ VerifyChain(disk') /\ VerifyChain(mem')
                 /\ server' = "up" => tail' # "torn"
                 /\ tail' # "glued" => /\ acked' \subseteq IdsOf(disk')
                                       /\ mem' = Append(disk', job'.event)
                                       /\ Extends(job'.event, disk')
      <3>1. lostWrites = {} /\ tail # "torn"
        BY <2>1, <2>3, <2>8 DEF FileInv
      <3>2. VerifyChain(disk) /\ VerifyChain(mem')
        BY <2>4, <3>1 DEF FileInv
      <3>3. disk' = disk /\ tail' = tail /\ acked' = acked
        BY <2>1 DEF diskVars
      <3>4. ASSUME tail # "glued"
            PROVE  /\ acked \subseteq IdsOf(disk)
                   /\ mem' = Append(disk', job'.event) /\ Extends(job'.event, disk')
        BY <2>1, <2>3, <2>5, <3>1, <3>3, <3>4 DEF FileInv
      <3>5. QED
        BY <3>1, <3>2, <3>3, <3>4
    <2>9. QED
      BY <2>5, <2>6, <2>7, <2>8 DEF FileInv
  <1>7. ASSUME Writing, ~ Writing', \E part \in Ends : Write(part),
               lostWrites' = {}, lostWrites = {}
        PROVE  /\ VerifyChain(disk')
               /\ IdsOf(disk') \subseteq IdsOf(mem)
               /\ tail' \notin {"torn", "glued"} =>
                      disk' = mem /\ IdsOf(disk') = IdsOf(disk) \cup {job.event.id}
               /\ tail' = "torn" => disk' = disk /\ tail # "glued"
    <2>1. /\ job.event \in Event /\ server = "up" /\ tail # "torn"
          /\ job.event.id \in IdsOf(mem) /\ IdsOf(disk) \subseteq IdsOf(mem)
          /\ VerifyChain(disk) /\ disk \in Seq(Event)
          /\ tail # "glued" => mem = Append(disk, job.event) /\ Extends(job.event, disk)
      BY <1>7 DEF TypeOK, Writing, Job, LockInv, FileInv
    <2>2. CASE /\ disk' = disk
               /\ \/ tail' = tail /\ tail \notin {"ended", "bare"}
                  \/ tail = "ended" /\ tail' = "torn"
      BY <2>1, <2>2 DEF TypeOK, Tails
    <2>3. CASE disk' = SubSeq(disk, 1, Len(disk) - 1) /\ tail' = "glued"
      BY <1>7, <2>1, <2>3, FrontIds
    <2>4. CASE tail = "ended" /\ tail' \in {"ended", "bare"} /\ disk' = Append(disk, job.event)
      <3>1. disk' = mem /\ Extends(job.event, disk)
        BY <2>1, <2>4
      <3>2. IdsOf(disk') = IdsOf(disk) \cup {job.event.id}
        BY <2>1, <2>4, AppendIds
      <3>3. VerifyChain(disk')
        BY <2>1, <2>4, <3>1, AppendChain DEF Extends
      <3>4. QED
        BY <2>4, <3>1, <3>2, <3>3
    <2>5. QED
      BY <1>7, <2>2, <2>3, <2>4, WriteOutcomes
  <1>8. ASSUME Writing, \E part \in Ends : Write(part)
        PROVE  IdsOf(disk') \subseteq IdsOf(mem)
    <2>1. /\ job.event \in Event /\ server = "up" /\ disk \in Seq(Event)
          /\ job.event.id \in IdsOf(mem) /\ IdsOf(disk) \subseteq IdsOf(mem)
      BY <1>8 DEF TypeOK, Writing, Job, LockInv, FileInv
    <2>2. IdsOf(Append(disk, job.event)) = IdsOf(disk) \cup {job.event.id}
      BY <2>1, AppendIds
    <2>3. IdsOf(SubSeq(disk, 1, Len(disk) - 1)) \subseteq IdsOf(disk)
      BY <2>1, FrontIds
    <2>4. QED
      BY <1>8, <2>1, <2>2, <2>3, WriteOutcomes
  <1>9. CASE WriteLine
    <2>1. /\ Writing /\ Write("ended") /\ "ended" \in Ends /\ ~ Writing'
          /\ acked' = acked \cup {job.event.id}
          /\ UNCHANGED << server, mem, lostWrites >>
      BY <1>9 DEF WriteLine, Writing, Ends
    <2>2. IdsOf(disk') \subseteq IdsOf(mem')
      BY <1>8, <2>1
    <2>3. ASSUME lostWrites' = {}
          PROVE  /\ VerifyChain(disk') /\ VerifyChain(mem')
                 /\ server' = "up" => tail' # "torn"
                 /\ tail' # "glued" =>
                        /\ acked' \subseteq IdsOf(disk')
                        /\ server' = "up" => mem' = disk'
      <3>1. lostWrites = {} /\ server = "up" /\ tail # "torn" /\ VerifyChain(mem)
        BY <2>1, <2>3 DEF FileInv, LockInv, Writing
      <3>2. tail' # "torn"
        BY <2>1, <3>1 DEF Write, TailAfter
      <3>3. tail' # "glued" => tail # "glued"
        BY <2>1 DEF Write, TailAfter
      <3>4. VerifyChain(disk') /\ (tail' # "glued" =>
                disk' = mem /\ IdsOf(disk') = IdsOf(disk) \cup {job.event.id})
        BY <1>7, <2>1, <2>3, <3>1, <3>2
      <3>5. tail # "glued" => acked \subseteq IdsOf(disk)
        BY <3>1 DEF FileInv
      <3>6. QED
        BY <2>1, <3>1, <3>2, <3>3, <3>4, <3>5
    <2>4. QED
      BY <2>1, <2>2, <2>3 DEF FileInv
  <1>12. CASE WriteFails
    <2>1. lostWrites' # {} /\ UNCHANGED << server, mem >> /\ Writing
      BY <1>12 DEF WriteFails, Writing
    <2>2. server' = "up" => IdsOf(disk') \subseteq IdsOf(mem')
      BY <1>8, <1>12, <2>1 DEF WriteFails, diskVars, FileInv
    <2>3. QED
      BY <2>1, <2>2 DEF FileInv
  <1>13. CASE Crash
    <2>1. /\ server' = "down" /\ mem' = << >> /\ job' = NoJob
          /\ UNCHANGED << acked, lostWrites >>
      BY <1>13 DEF Crash, clientVars
    <2>2. VerifyChain(mem') /\ ~ Writing'
      BY <2>1 DEF VerifyChain, Writing
    <2>3. CASE UNCHANGED diskVars
      BY <2>1, <2>2, <2>3 DEF FileInv, diskVars
    <2>4. CASE Writing /\ \E part \in Ends : Write(part)
      <3>1. ASSUME lostWrites' = {}
            PROVE  /\ VerifyChain(disk')
                   /\ tail' # "glued" => acked' \subseteq IdsOf(disk')
        <4>1. lostWrites = {}
          BY <2>1, <3>1
        <4>2. /\ VerifyChain(disk')
              /\ tail' \notin {"torn", "glued"} =>
                     IdsOf(disk') = IdsOf(disk) \cup {job.event.id}
              /\ tail' = "torn" => disk' = disk /\ tail # "glued"
          BY <1>7, <2>2, <2>4, <3>1, <4>1
        <4>3. tail' # "glued" => tail # "glued"
          BY <2>4 DEF Write, TailAfter
        <4>4. tail # "glued" => acked \subseteq IdsOf(disk)
          BY <4>1 DEF FileInv
        <4>5. QED
          BY <2>1, <4>2, <4>3, <4>4
      <3>2. QED
        BY <2>1, <2>2, <3>1 DEF FileInv
    <2>5. QED
      BY <1>13, <2>3, <2>4 DEF Crash, Writing
  <1>10. CASE Restart
    <2>1. server = "down" /\ job = NoJob /\ job' = NoJob
      BY <1>10 DEF Restart, LockInv
    <2>2. ~ Writing' /\ UNCHANGED << disk, tail, acked, lostWrites >>
      BY <1>10, <2>1 DEF Writing, Restart, diskVars, clientVars
    <2>3. CASE tail \in {"torn", "glued"}
      BY <1>10, <2>1, <2>2, <2>3 DEF Restart, FileInv
    <2>4. CASE tail \notin {"torn", "glued"}
      BY <1>10, <2>2, <2>4 DEF Restart, FileInv
    <2>5. QED
      BY <2>3, <2>4
  <1>11. QED
    <2>1. ASSUME NEW o \in Clients, NEW kind \in Kinds,
                 NEW target \in EventIds \cup {NoEvent}, Prepare(o, kind, target)
          PROVE  FileInv'
      BY <1>1, <2>1 DEF Prepare
    <2>2. ASSUME NEW o \in Clients, Forget(o)
          PROVE  FileInv'
      BY <1>1, <2>2 DEF Forget
    <2>3. CASE UNCHANGED vars
      BY <1>1, <2>3 DEF vars, serverVars, diskVars
    <2>4. QED
      BY <1>3, <1>4, <1>5, <1>6, <1>9, <1>10, <1>12, <1>13, <2>1, <2>2, <2>3
         DEF Next, PrepareAny

(* The initial state satisfies the inductive invariant. *)
LEMMA InitInv == Init => IInv
  <1> SUFFICES ASSUME Init PROVE IInv
    OBVIOUS
  <1>1. IdsOf(mem) = {} /\ IdsOf(disk) = {}
    BY DEF Init, IdsOf
  <1>2. FreshInv
    BY <1>1 DEF Init, FreshInv, IdsBelow
  <1>3. LockInv
    BY DEF Init, LockInv
  <1>4. FileInv
    BY <1>1 DEF Init, FileInv, VerifyChain, Writing
  <1>5. QED
    BY InitTypeOK, <1>2, <1>3, <1>4 DEF IInv

(* The inductive invariant holds in every reachable state. *)
THEOREM Invariance == Spec => []IInv
  <1>1. IInv /\ [Next]_vars => IInv'
    BY NextTypeOK, NextFresh, NextLock, NextFile DEF IInv
  <1>2. QED
    BY InitInv, <1>1, PTL DEF Spec

(* Unless a write failed under a running server, or was glued to a line     *)
(* that a crash left without its newline, what /events/commit or /scan      *)
(* acknowledged is on file for good.                                       *)
THEOREM AckedEventsDurable == Spec => []AckedDurable
  <1>1. IInv => AckedDurable
    BY DEF IInv, FileInv, AckedDurable
  <1>2. QED
    BY Invariance, <1>1, PTL

(* Unless a write failed under a running server, verify_chain finds the     *)
(* chain in memory unbroken.                                               *)
THEOREM ChainAlwaysIntact == Spec => []ChainIntact
  <1>1. IInv => ChainIntact
    BY DEF IInv, FileInv, ChainIntact
  <1>2. QED
    BY Invariance, <1>1, PTL
-----------------------------------------------------------------------------
(* The abstract ledger speaks of the same events.                          *)
LEMMA AbstractEvents ==
    /\ Abstract!Event = Event
    /\ \A log : Abstract!IdsOf(log) = IdsOf(log)
    /\ \A log : Abstract!HeadHash(log) = HeadHash(log)
    /\ \A a, t, log : Abstract!MayCorrect(a, t, log) <=> MayCorrect(a, t, log)
  <1>1. Abstract!Event = Event
    BY DEF Abstract!Event, Event, Abstract!EventIds, EventIds, Abstract!Kinds,
           Kinds, Abstract!NoEvent, NoEvent
  <1>2. \A log : Abstract!IdsOf(log) = IdsOf(log)
    BY DEF Abstract!IdsOf, IdsOf
  <1>3. \A log : Abstract!HeadHash(log) = HeadHash(log)
    BY DEF Abstract!HeadHash, HeadHash, Abstract!GenesisHash, GenesisHash,
           Abstract!EventHash, EventHash
  <1>4. \A a, t, log : Abstract!MayCorrect(a, t, log) <=> MayCorrect(a, t, log)
    BY DEF Abstract!MayCorrect, MayCorrect
  <1>5. QED
    BY <1>1, <1>2, <1>3, <1>4

(* A write is an append, a loss or a gluing of the abstract ledger.        *)
LEMMA WriteIsAbstract ==
    ASSUME IInv, Writing, NEW part \in Ends, Write(part),
           lostWrites' = lostWrites \/ lostWrites' # {}
    PROVE  Abstract!ANext
  <1>0. TypeOK
    BY DEF IInv
  <1>1. job.event \in Event /\ disk \in Seq(Event)
    BY DEF IInv, TypeOK, Writing, Job
  <1>2. Abstract!MayFail
    BY DEF Abstract!MayFail
  <1>3. CASE /\ tail = "ended" /\ tail' \in {"ended", "bare"}
             /\ disk' = Append(disk, job.event)
    <2>1. Len(disk') = Len(disk) + 1 /\ disk'[Len(disk')] = job.event
      BY <1>1, <1>3
    <2>2. job.event.id \notin IdsOf(disk)
      BY DEF IInv, LockInv, Writing
    <2>3. lostWrites = {} => Extends(job.event, disk)
      BY <1>3 DEF IInv, FileInv
    <2>4. Abstract!AAppend(job.event)
      BY <1>1, <1>2, <1>3, <2>2, <2>3, AbstractEvents DEF Abstract!AAppend, Extends
    <2>5. QED
      BY <2>1, <2>4 DEF Abstract!AStep, Abstract!ANext
  <1>4. CASE /\ tail = "bare" /\ tail' = "glued"
             /\ disk' = SubSeq(disk, 1, Len(disk) - 1)
    BY <1>2, <1>4 DEF Abstract!AGlue, Abstract!ANext
  <1>5. CASE disk' = disk /\ (tail' = tail \/ (tail = "ended" /\ tail' = "torn"))
    BY <1>2, <1>5 DEF Abstract!ALose, Abstract!ANext
  <1>6. QED
    BY <1>0, <1>3, <1>4, <1>5, WriteOutcomes

(* Every other step leaves the file alone. *)
LEMMA NextImplementsAppendOnly ==
    IInv /\ [Next]_vars => [Abstract!ANext]_(Abstract!absVars)
  <1> SUFFICES ASSUME IInv, [Next]_vars
               PROVE  Abstract!ANext \/ UNCHANGED Abstract!absVars
    OBVIOUS
  <1>1. ASSUME UNCHANGED << disk, tail, lostWrites >>
        PROVE  UNCHANGED Abstract!absVars
    BY <1>1 DEF Abstract!absVars
  <1>3. CASE WriteLine
    BY <1>3, WriteIsAbstract DEF WriteLine, Writing, Ends
  <1>4. CASE WriteFails
    <2>1. lostWrites' # {} /\ Writing
      BY <1>4 DEF WriteFails, Writing
    <2>2. CASE UNCHANGED diskVars
      BY <2>1, <2>2 DEF diskVars, Abstract!ANext, Abstract!ALose, Abstract!MayFail
    <2>3. QED
      BY <1>4, <2>1, <2>2, WriteIsAbstract DEF WriteFails
  <1>5. CASE Crash
    <2>1. CASE UNCHANGED diskVars
      BY <1>1, <1>5, <2>1 DEF Crash, diskVars
    <2>2. QED
      BY <1>5, <2>1, WriteIsAbstract DEF Crash, Writing
  <1>6. CASE Restart \/ Scan \/ Supersede \/ AppendMemory \/ UNCHANGED vars
    BY <1>1, <1>6 DEF Restart, Scan, Supersede, AppendMemory, diskVars, vars
  <1>7. ASSUME NEW o \in Clients, Commit(o) \/ Forget(o)
        PROVE  UNCHANGED Abstract!absVars
    BY <1>1, <1>7 DEF Commit, Forget, diskVars
  <1>8. ASSUME NEW o \in Clients, NEW kind \in Kinds,
               NEW target \in EventIds \cup {NoEvent}, Prepare(o, kind, target)
        PROVE  UNCHANGED Abstract!absVars
    BY <1>1, <1>8 DEF Prepare, diskVars
  <1>9. QED
    BY <1>3, <1>4, <1>5, <1>6, <1>7, <1>8 DEF Next, PrepareAny

(* The file of the server implements the append-only ledger: through racing *)
(* commits, repeated commits and crashes its lines only grow, by events     *)
(* that are new, chained and, if corrections, allowed; the one line that    *)
(* can be lost is a last one that a write left without its newline.        *)
THEOREM FileIsAppendOnly == Spec => AppendOnly
  <1>1. Init => Abstract!AInit
    BY DEF Init, Abstract!AInit
  <1>2. QED
    BY <1>1, Invariance, NextImplementsAppendOnly, PTL
       DEF Spec, AppendOnly, Abstract!ASpec
-----------------------------------------------------------------------------
(***************************************************************************)
(* The superseded_by pointers.  A load rebuilds them from the lines it got  *)
(* through, some of which correct events whose own line was lost; yet no    *)
(* commit can bring such an event back behind its correction.  The reason   *)
(* is the length of the chains: the log only takes events whose chain is    *)
(* longer than that of any event in it (Ordered), and a correction's chain  *)
(* is longer than that of the one event its target can be (TargetsEarlier), *)
(* whether that event is in memory, on file or still a body of a client.   *)
(***************************************************************************)
EventsOf(log) == {log[k] : k \in 1 .. Len(log)}
UnderWay == IF job = NoJob THEN {} ELSE {job.event}
Held == {body[o] : o \in Clients} \ {NoBody}
Committed == EventsOf(mem) \cup EventsOf(disk) \cup UnderWay

\* A uuid names one event, on whatever side of the API it is.
OneEventPerId ==
    \A e, f \in Committed \cup Held : e.id = f.id => e = f

Longer(c, e) == Len(e.prev) < Len(c.prev)

TargetsEarlier ==
    \A c \in Committed : c.kind = "correction" =>
        /\ c.target < nextId
        /\ \A e \in Committed \cup Held : e.id = c.target => Longer(c, e)

OrderedLog(log) == \A j, k \in 1 .. Len(log) : j < k => Longer(log[k], log[j])
Ordered == OrderedLog(mem) /\ OrderedLog(disk)

WritesLast == Writing => mem # << >> /\ mem[Len(mem)] = job.event

\* What Rebuild would make of a log.
Pointer(log, i) == IF i \in IdsOf(log) THEN LastCorrection(log, i) ELSE NoEvent

Announced(i) ==
    job # NoJob /\ job.stage = "append" /\ job.event.kind = "correction"
        /\ job.event.target = i

PointerInv ==
    /\ job # NoJob /\ job.stage = "supersede" => job.event.kind = "correction"
    /\ server = "up" =>
           \A i \in EventIds :
               supersededBy[i] = IF Announced(i) THEN job.event.id ELSE Pointer(mem, i)

ChainInv == OneEventPerId /\ TargetsEarlier /\ Ordered /\ WritesLast
PInv == ChainInv /\ PointerInv
-----------------------------------------------------------------------------
(* An appended event joins the events of the log. *)
LEMMA AppendEvents ==
    ASSUME NEW log \in Seq(Event), NEW e \in Event
    PROVE  EventsOf(Append(log, e)) = EventsOf(log) \cup {e}
  <1> DEFINE new == Append(log, e)
  <1>1. /\ Len(new) = Len(log) + 1
        /\ new[Len(log) + 1] = e
        /\ \A k \in 1 .. Len(log) : new[k] = log[k]
    OBVIOUS
  <1>2. 1 .. Len(new) = (1 .. Len(log)) \cup {Len(log) + 1}
    BY <1>1
  <1> HIDE DEF new
  <1>3. QED
    BY <1>1, <1>2 DEF EventsOf, new

(* A log without its last event has no event of its own, and is ordered if  *)
(* the log is.                                                             *)
LEMMA FrontEvents ==
    ASSUME NEW log \in Seq(Event)
    PROVE  /\ EventsOf(SubSeq(log, 1, Len(log) - 1)) \subseteq EventsOf(log)
           /\ OrderedLog(log) => OrderedLog(SubSeq(log, 1, Len(log) - 1))
  <1> DEFINE front == SubSeq(log, 1, Len(log) - 1)
  <1>1. /\ front \in Seq(Event)
        /\ Len(front) <= Len(log)
        /\ \A k \in 1 .. Len(front) : front[k] = log[k]
    BY FrontOfLog
  <1> HIDE DEF front
  <1>2. \A k \in 1 .. Len(front) : k \in 1 .. Len(log)
    BY <1>1
  <1>3. QED
    BY <1>1, <1>2 DEF EventsOf, OrderedLog, front

(* Every known event is an event, with an id that was handed out. *)
LEMMA KnownEvents ==
    ASSUME TypeOK, FreshInv
    PROVE  \A e \in Committed \cup Held :
               e \in Event /\ e.id < nextId /\ e.id \in Nat /\ Len(e.prev) \in Nat
  <1>1. ASSUME NEW e \in Committed \cup Held
        PROVE  e \in Event /\ e.id < nextId
    <2>1. CASE e \in EventsOf(mem)
      <3>1. PICK k \in 1 .. Len(mem) : e = mem[k]
        BY <2>1 DEF EventsOf
      <3>2. e.id \in IdsOf(mem)
        BY <3>1 DEF IdsOf
      <3>3. QED
        BY <3>1, <3>2 DEF TypeOK, FreshInv, IdsBelow
    <2>2. CASE e \in EventsOf(disk)
      <3>1. PICK k \in 1 .. Len(disk) : e = disk[k]
        BY <2>2 DEF EventsOf
      <3>2. e.id \in IdsOf(disk)
        BY <3>1 DEF IdsOf
      <3>3. QED
        BY <3>1, <3>2 DEF TypeOK, FreshInv, IdsBelow
    <2>3. CASE e \in UnderWay
      BY <2>3 DEF UnderWay, TypeOK, Job, FreshInv
    <2>4. CASE e \in Held
      BY <2>4 DEF Held, TypeOK, FreshInv
    <2>5. QED
      BY <1>1, <2>1, <2>2, <2>3, <2>4 DEF Committed
  <1>2. ASSUME NEW e \in Event
        PROVE  e.id \in Nat /\ Len(e.prev) \in Nat
    BY DEF Event, EventIds
  <1>3. QED
    BY <1>1, <1>2

(* The head hash of an ordered log is longer than the chain of any event in *)
(* the log.                                                                *)
LEMMA HeadIsLongest ==
    ASSUME NEW log \in Seq(Event), OrderedLog(log), NEW k \in 1 .. Len(log)
    PROVE  Len(log[k].prev) < Len(HeadHash(log))
  <1> DEFINE last == log[Len(log)]
  <1>1. last \in Event /\ log[k] \in Event /\ log # << >>
    OBVIOUS
  <1>2. last.prev \in Seq(EventIds) /\ log[k].prev \in Seq(EventIds)
    BY <1>1 DEF Event
  <1>3. Len(HeadHash(log)) = Len(last.prev) + 1
    BY <1>1, <1>2 DEF HeadHash, EventHash
  <1>4. k = Len(log) \/ Len(log[k].prev) < Len(last.prev)
    BY DEF OrderedLog, Longer
  <1>5. Len(last.prev) \in Nat /\ Len(log[k].prev) \in Nat
    BY <1>2
  <1>6. CASE k = Len(log)
    BY <1>3, <1>5, <1>6
  <1>7. CASE Len(log[k].prev) < Len(last.prev)
    BY <1>3, <1>5, <1>7
  <1>8. QED
    BY <1>4, <1>6, <1>7

(* An event with a chain longer than any in the log keeps the log ordered. *)
LEMMA AppendOrdered ==
    ASSUME NEW log \in Seq(Event), NEW e \in Event, OrderedLog(log),
           \A k \in 1 .. Len(log) : Longer(e, log[k])
    PROVE  OrderedLog(Append(log, e))
  <1> DEFINE new == Append(log, e)
  <1>1. /\ Len(new) = Len(log) + 1 /\ Len(log) \in Nat
        /\ new[Len(log) + 1] = e
        /\ \A k \in 1 .. Len(log) : new[k] = log[k]
    OBVIOUS
  <1> HIDE DEF new
  <1>2. SUFFICES ASSUME NEW j \in 1 .. Len(new), NEW k \in 1 .. Len(new), j < k
                 PROVE  Longer(new[k], new[j])
    BY DEF OrderedLog, new
  <1>3. j \in 1 .. Len(log) /\ new[j] = log[j]
    BY <1>1, <1>2
  <1>4. CASE k \in 1 .. Len(log)
    BY <1>1, <1>2, <1>3, <1>4 DEF OrderedLog
  <1>5. CASE k = Len(log) + 1
    BY <1>1, <1>3, <1>5
  <1>6. QED
    BY <1>1, <1>4, <1>5

(* A step that brings no event keeps what holds of all known events. *)
LEMMA NothingNew ==
    ASSUME OneEventPerId, TargetsEarlier, TypeOK, TypeOK', nextId <= nextId',
           FreshInv, Committed' \subseteq Committed, Held' \subseteq Held
    PROVE  OneEventPerId' /\ TargetsEarlier'
  <1>1. OneEventPerId'
    BY DEF OneEventPerId
  <1>2. ASSUME NEW c \in Committed', c.kind = "correction"
        PROVE  /\ c.target < nextId'
               /\ \A e \in (Committed \cup Held)' : e.id = c.target => Longer(c, e)
    <2>1. c \in Committed /\ c.target < nextId
      BY <1>2 DEF TargetsEarlier
    <2>2. c \in Event
      BY <2>1, KnownEvents
    <2>3. c.target \in Nat /\ nextId \in Nat /\ nextId' \in Nat
      BY <2>2, MaxEventsAssumption DEF Event, EventIds, NoEvent, TypeOK
    <2>4. c.target < nextId'
      BY <2>1, <2>3
    <2>5. QED
      BY <1>2, <2>1, <2>4 DEF TargetsEarlier
  <1>3. QED
    BY <1>1, <1>2 DEF TargetsEarlier

(* A uuid stays with its event, and the chain of a correction longer than   *)
(* that of its target.                                                     *)
LEMMA NextEvents == IInv /\ ChainInv /\ [Next]_vars => OneEventPerId' /\ TargetsEarlier'
  <1> SUFFICES ASSUME IInv, ChainInv, [Next]_vars
               PROVE  OneEventPerId' /\ TargetsEarlier'
    OBVIOUS
  <1>0. /\ TypeOK /\ TypeOK' /\ FreshInv /\ LockInv /\ FileInv
        /\ OneEventPerId /\ TargetsEarlier /\ Ordered
        /\ nextId \in Nat /\ nextId' \in Nat
    BY NextTypeOK, MaxEventsAssumption DEF IInv, ChainInv, TypeOK
  <1>1. \A e \in Committed \cup Held :
            e \in Event /\ e.id < nextId /\ e.id \in Nat /\ Len(e.prev) \in Nat
    BY <1>0, KnownEvents
  <1>2. \A c \in Committed : c.kind = "correction" => c.target < nextId
    BY <1>0 DEF TargetsEarlier
  <1>3. ASSUME NEW o \in Clients, NEW kind \in Kinds,
               NEW target \in EventIds \cup {NoEvent}, Prepare(o, kind, target)
        PROVE  OneEventPerId' /\ TargetsEarlier'
    <2>1. /\ Committed' = Committed /\ nextId' = nextId + 1
      BY <1>3 DEF Prepare, Committed, UnderWay, serverVars, diskVars
    <2>2. PICK n : n.id = nextId /\ body' = [body EXCEPT ![o] = n]
      BY <1>3 DEF Prepare
    <2>3. Held' \subseteq Held \cup {n}
      BY <1>0, <2>2 DEF Held, TypeOK
    <2>4. \A e \in Committed \cup Held : e.id # n.id
      BY <1>0, <1>1, <2>2
    <2>5. \A c \in Committed : c.kind = "correction" => c.target # n.id
      BY <1>0, <1>2, <2>2
    <2>6. OneEventPerId'
      BY <1>0, <2>1, <2>3, <2>4 DEF OneEventPerId
    <2>7. ASSUME NEW c \in Committed, c.kind = "correction"
          PROVE  c.target < nextId'
      <3>1. c.target \in Nat
        BY <1>1 DEF Event, EventIds, NoEvent
      <3>2. QED
        BY <1>0, <1>2, <2>1, <2>7, <3>1
    <2>8. TargetsEarlier'
      BY <1>0, <2>1, <2>3, <2>5, <2>7 DEF TargetsEarlier
    <2>9. QED
      BY <2>6, <2>8
  <1>4. ASSUME NEW o \in Clients, Commit(o)
        PROVE  OneEventPerId' /\ TargetsEarlier'
    <2>1. /\ body[o] \in Held /\ Held' = Held /\ nextId' = nextId
          /\ Committed' \subseteq Committed \cup {body[o]}
          /\ CommitAllowed(body[o])
      BY <1>4 DEF Commit, Committed, UnderWay, Held, diskVars, clientVars
    <2>2. OneEventPerId'
      BY <1>0, <2>1 DEF OneEventPerId
    <2>3. ASSUME body[o].kind = "correction"
          PROVE  /\ body[o].target < nextId
                 /\ \A e \in Committed \cup Held :
                        e.id = body[o].target => Longer(body[o], e)
      <3>1. PICK k \in 1 .. Len(mem) : mem[k].id = body[o].target
        BY <2>1, <2>3 DEF CommitAllowed, MayCorrect
      <3>2. mem[k] \in Committed
        BY <3>1 DEF Committed, EventsOf
      <3>3. Len(mem[k].prev) < Len(HeadHash(mem))
        BY <1>0, HeadIsLongest DEF Ordered, TypeOK
      <3>4. Longer(body[o], mem[k])
        BY <2>1, <3>3 DEF CommitAllowed, Longer
      <3>5. QED
        BY <1>0, <1>1, <3>1, <3>2, <3>4 DEF OneEventPerId
    <2>4. TargetsEarlier'
      BY <1>0, <2>1, <2>3 DEF TargetsEarlier
    <2>5. QED
      BY <2>2, <2>4
  <1>5. CASE Scan
    <2>1. PICK n : /\ n.id = nextId /\ n.kind = "record"
                   /\ Committed' \subseteq Committed \cup {n}
      BY <1>5 DEF Scan, Committed, UnderWay, diskVars
    <2>2. Held' = Held /\ nextId' = nextId + 1
      BY <1>5 DEF Scan, Held, clientVars
    <2>3. \A e \in Committed \cup Held : e.id # n.id
      BY <1>0, <1>1, <2>1
    <2>4. OneEventPerId'
      BY <1>0, <2>1, <2>2, <2>3 DEF OneEventPerId
    <2>5. ASSUME NEW c \in Committed', c.kind = "correction"
          PROVE  /\ c \in Committed /\ c.target # n.id /\ c.target < nextId'
      <3>1. c \in Committed
        BY <2>1, <2>5
      <3>2. c.target \in Nat
        BY <1>1, <3>1 DEF Event, EventIds, NoEvent
      <3>3. QED
        BY <1>0, <1>2, <2>1, <2>2, <2>5, <3>1, <3>2
    <2>6. TargetsEarlier'
      BY <1>0, <2>1, <2>2, <2>5 DEF TargetsEarlier
    <2>7. QED
      BY <2>4, <2>6
  <1>6. ASSUME Committed' \subseteq Committed, Held' \subseteq Held, nextId' = nextId
        PROVE  OneEventPerId' /\ TargetsEarlier'
    BY <1>0, <1>6, NothingNew
  <1>7. ASSUME NEW o \in Clients, Forget(o)
        PROVE  OneEventPerId' /\ TargetsEarlier'
    <2>1. Committed' = Committed /\ nextId' = nextId
      BY <1>7 DEF Forget, Committed, UnderWay, serverVars, diskVars
    <2>2. Held' \subseteq Held
      BY <1>0, <1>7 DEF Forget, Held, TypeOK
    <2>3. QED
      BY <1>6, <2>1, <2>2
  <1>8. CASE Supersede
    <2>1. job'.event = job.event /\ job # NoJob
      BY <1>0, <1>8 DEF Supersede, TypeOK, Job
    <2>2. QED
      BY <1>6, <1>8, <2>1
         DEF Supersede, Committed, UnderWay, Held, diskVars, clientVars
  <1>9. CASE AppendMemory
    <2>1. job'.event = job.event /\ job # NoJob /\ job.event \in Event
      BY <1>0, <1>9 DEF AppendMemory, TypeOK, Job
    <2>2. EventsOf(mem') = EventsOf(mem) \cup {job.event}
      BY <1>0, <1>9, <2>1, AppendEvents DEF AppendMemory, TypeOK
    <2>3. QED
      BY <1>6, <1>9, <2>1, <2>2
         DEF AppendMemory, Committed, UnderWay, Held, diskVars, clientVars
  <1>10. ASSUME job' = NoJob, UNCHANGED << nextId, body >>,
                mem' = mem \/ mem' = << >>,
                \/ disk' = disk
                \/ job # NoJob /\ \E part \in Ends : Write(part)
         PROVE  OneEventPerId' /\ TargetsEarlier'
    <2>1. EventsOf(mem') \subseteq EventsOf(mem) /\ UnderWay' = {}
      BY <1>10 DEF EventsOf, UnderWay
    <2>2. EventsOf(disk') \subseteq EventsOf(disk) \cup UnderWay
      <3>1. CASE job # NoJob /\ disk' = Append(disk, job.event)
        <4>1. job.event \in Event
          BY <1>0, <3>1 DEF TypeOK, Job
        <4>2. QED
          BY <1>0, <3>1, <4>1, AppendEvents DEF UnderWay, TypeOK
      <3>2. CASE disk' = SubSeq(disk, 1, Len(disk) - 1)
        BY <1>0, <3>2, FrontEvents DEF TypeOK
      <3>3. QED
        BY <1>0, <1>10, <3>1, <3>2, WriteOutcomes
    <2>3. Committed' \subseteq Committed /\ Held' = Held
      BY <1>10, <2>1, <2>2 DEF Committed, Held
    <2>4. QED
      BY <1>6, <1>10, <2>3
  <1>11. CASE WriteLine \/ WriteFails \/ Crash
    BY <1>10, <1>11 DEF WriteLine, WriteFails, Crash, clientVars, diskVars, Ends
  <1>12. CASE Restart
    <2>1. mem' = mem \/ mem' = disk
      BY <1>12 DEF Restart
    <2>2. disk' = disk /\ job' = job /\ body' = body /\ nextId' = nextId
      BY <1>12 DEF Restart, diskVars, clientVars
    <2>3. Committed' \subseteq Committed /\ Held' = Held
      BY <2>1, <2>2 DEF Committed, UnderWay, Held
    <2>4. QED
      BY <1>6, <2>2, <2>3
  <1>13. CASE UNCHANGED vars
    BY <1>6, <1>13 DEF vars, Committed, UnderWay, Held
  <1>14. QED
    BY <1>3, <1>4, <1>5, <1>7, <1>8, <1>9, <1>11, <1>12, <1>13 DEF Next, PrepareAny
(* Chains grow along the memory and along the file. *)
LEMMA NextOrdered == IInv /\ ChainInv /\ [Next]_vars => Ordered' /\ WritesLast'
  <1> SUFFICES ASSUME IInv, ChainInv, [Next]_vars
               PROVE  Ordered' /\ WritesLast'
    OBVIOUS
  <1>0. /\ TypeOK /\ TypeOK' /\ FreshInv /\ LockInv /\ FileInv
        /\ OneEventPerId /\ OrderedLog(mem) /\ OrderedLog(disk) /\ WritesLast
    BY NextTypeOK DEF IInv, ChainInv, Ordered
  <1>1. OrderedLog(<< >>)
    BY DEF OrderedLog
  <1>2. ASSUME UNCHANGED << mem, disk >>, ~ Writing'
        PROVE  Ordered' /\ WritesLast'
    BY <1>0, <1>2 DEF Ordered, OrderedLog, WritesLast
  <1>3. ASSUME UNCHANGED << mem, disk, job >>
        PROVE  Ordered' /\ WritesLast'
    BY <1>0, <1>3 DEF Ordered, OrderedLog, WritesLast, Writing
  <1>4. CASE AppendMemory
    <2>1. /\ job.event \in Event /\ mem' = Append(mem, job.event)
          /\ disk' = disk /\ job'.event = job.event
          /\ job # NoJob /\ job.stage # "write"
      BY <1>0, <1>4 DEF AppendMemory, diskVars, TypeOK, Job
    <2>2. job.event.prev = HeadHash(mem)
      BY <1>0, <2>1 DEF LockInv, Extends
    <2>3. \A k \in 1 .. Len(mem) : Longer(job.event, mem[k])
      BY <1>0, <2>2, HeadIsLongest DEF TypeOK, Longer
    <2>4. OrderedLog(mem')
      BY <1>0, <2>1, <2>3, AppendOrdered DEF TypeOK
    <2>5. mem' # << >> /\ mem'[Len(mem')] = job'.event
      BY <1>0, <2>1 DEF TypeOK
    <2>6. QED
      BY <1>0, <2>1, <2>4, <2>5 DEF Ordered, WritesLast
  <1>5. ASSUME Writing, disk' = Append(disk, job.event)
        PROVE  OrderedLog(disk')
    <2>1. /\ job.event \in Event /\ mem # << >> /\ mem[Len(mem)] = job.event
          /\ job.event.id \notin IdsOf(disk) /\ IdsOf(disk) \subseteq IdsOf(mem)
      BY <1>0, <1>5 DEF WritesLast, Writing, TypeOK, Job, LockInv, FileInv
    <2>2. ASSUME NEW k \in 1 .. Len(disk)
          PROVE  Longer(job.event, disk[k])
      <3>1. disk[k].id \in IdsOf(disk)
        BY DEF IdsOf
      <3>2. PICK j \in 1 .. Len(mem) : mem[j].id = disk[k].id
        BY <2>1, <3>1 DEF IdsOf
      <3>3. disk[k] \in Committed /\ mem[j] \in Committed
        BY DEF Committed, EventsOf
      <3>4. mem[j] = disk[k]
        BY <1>0, <3>2, <3>3 DEF OneEventPerId
      <3>5. j # Len(mem)
        BY <2>1, <3>1, <3>2
      <3>6. Len(mem) \in 1 .. Len(mem) /\ j < Len(mem)
        BY <1>0, <2>1, <3>5 DEF TypeOK
      <3>7. QED
        BY <1>0, <2>1, <3>4, <3>6 DEF OrderedLog
    <2>3. QED
      BY <1>0, <1>5, <2>1, <2>2, AppendOrdered DEF TypeOK
  <1>6. ASSUME job' = NoJob, mem' = mem \/ mem' = << >>,
               disk' = disk \/ (Writing /\ \E part \in Ends : Write(part))
        PROVE  Ordered' /\ WritesLast'
    <2>1. OrderedLog(mem')
      BY <1>0, <1>1, <1>6
    <2>2. OrderedLog(disk')
      <3>1. CASE disk' = SubSeq(disk, 1, Len(disk) - 1)
        BY <1>0, <3>1, FrontEvents DEF TypeOK
      <3>2. CASE disk' = disk
        BY <1>0, <3>2
      <3>3. QED
        BY <1>0, <1>5, <1>6, <3>1, <3>2, WriteOutcomes
    <2>3. QED
      BY <1>6, <2>1, <2>2 DEF Ordered, WritesLast, Writing
  <1>7. CASE WriteLine \/ WriteFails \/ Crash
    BY <1>6, <1>7 DEF WriteLine, WriteFails, Crash, Writing, diskVars, Ends
  <1>8. CASE Restart
    <2>1. /\ mem' = mem \/ mem' = disk
          /\ disk' = disk /\ job' = NoJob
      BY <1>0, <1>8 DEF Restart, diskVars, LockInv
    <2>2. QED
      BY <1>0, <2>1 DEF Ordered, WritesLast, Writing
  <1>9. ASSUME NEW o \in Clients, Commit(o)
        PROVE  Ordered' /\ WritesLast'
    <2>1. job'.stage # "write"
      BY <1>9 DEF Commit, FirstStage
    <2>2. QED
      BY <1>2, <1>9, <2>1 DEF Commit, Writing, diskVars
  <1>10. CASE Scan \/ Supersede
    <2>1. job'.stage # "write"
      BY <1>0, <1>10 DEF Scan, Supersede, TypeOK, Job
    <2>2. QED
      BY <1>2, <1>10, <2>1 DEF Scan, Supersede, Writing, diskVars
  <1>11. QED
    <2>1. ASSUME NEW o \in Clients, NEW kind \in Kinds,
                 NEW target \in EventIds \cup {NoEvent}, Prepare(o, kind, target)
          PROVE  Ordered' /\ WritesLast'
      BY <1>3, <2>1 DEF Prepare, serverVars, diskVars
    <2>2. ASSUME NEW o \in Clients, Forget(o)
          PROVE  Ordered' /\ WritesLast'
      BY <1>3, <2>2 DEF Forget, serverVars, diskVars
    <2>3. CASE UNCHANGED vars
      BY <1>3, <2>3 DEF vars
    <2>4. QED
      BY <1>4, <1>7, <1>8, <1>9, <1>10, <2>1, <2>2, <2>3 DEF Next, PrepareAny
-----------------------------------------------------------------------------
(* The last correction is one of the corrections, and none comes after it.  *)
LEMMA LastCorrectionIs ==
    ASSUME NEW log \in Seq(Event), NEW i, CorrectionsOf(log, i) # {}
    PROVE  \E k \in CorrectionsOf(log, i) :
               /\ \A j \in CorrectionsOf(log, i) : j <= k
               /\ LastCorrection(log, i) = log[k].id
  <1> DEFINE S == CorrectionsOf(log, i)
             k == CHOOSE m \in S : \A j \in S : j <= m
  <1>1. S \in SUBSET (1 .. Len(log)) /\ Len(log) \in Nat
    BY DEF CorrectionsOf
  <1>2. LastCorrection(log, i) = log[k].id
    BY DEF LastCorrection
  <1> HIDE DEF S
  <1>3. \E m \in S : \A j \in S : j <= m
    BY <1>1, LastPosition DEF S
  <1>4. k \in S /\ \A j \in S : j <= k
    BY <1>3
  <1>5. QED
    BY <1>2, <1>4 DEF S

(* What an appended event does to the last corrections. *)
LEMMA AppendCorrections ==
    ASSUME NEW log \in Seq(Event), NEW e \in Event, NEW i
    PROVE  LastCorrection(Append(log, e), i) =
               IF e.kind = "correction" /\ e.target = i
               THEN e.id ELSE LastCorrection(log, i)
  <1> DEFINE new == Append(log, e)
             S == CorrectionsOf(log, i)
             T == CorrectionsOf(new, i)
  <1>1. /\ new \in Seq(Event)
        /\ Len(new) = Len(log) + 1 /\ Len(log) \in Nat
        /\ new[Len(log) + 1] = e
        /\ \A k \in 1 .. Len(log) : new[k] = log[k]
    OBVIOUS
  <1> HIDE DEF new
  <1>2. CASE e.kind = "correction" /\ e.target = i
    <2>1. Len(new) \in T
      BY <1>1, <1>2 DEF CorrectionsOf
    <2>2. PICK k \in T : /\ \A j \in T : j <= k
                          /\ LastCorrection(new, i) = new[k].id
      BY <1>1, <2>1, LastCorrectionIs
    <2>3. k \in 1 .. Len(new) /\ Len(new) <= k
      BY <2>1, <2>2 DEF CorrectionsOf
    <2>4. k = Len(log) + 1
      BY <1>1, <2>3
    <2>5. QED
      BY <1>1, <1>2, <2>2, <2>4 DEF new
  <1>3. CASE ~ (e.kind = "correction" /\ e.target = i)
    <2>1. T = S
      BY <1>1, <1>3 DEF CorrectionsOf
    <2>2. CASE S = {}
      BY <1>3, <2>1, <2>2 DEF LastCorrection, new
    <2>3. CASE S # {}
      <3>1. PICK k \in S : /\ \A j \in S : j <= k
                            /\ LastCorrection(log, i) = log[k].id
        BY <2>3, LastCorrectionIs
      <3>2. PICK m \in T : /\ \A j \in T : j <= m
                            /\ LastCorrection(new, i) = new[m].id
        BY <1>1, <2>1, <2>3, LastCorrectionIs
      <3>3. k \in 1 .. Len(log) /\ m \in 1 .. Len(log) /\ k <= m /\ m <= k
        BY <2>1, <3>1, <3>2 DEF CorrectionsOf
      <3>4. k = m
        BY <1>1, <3>3
      <3>5. QED
        BY <1>1, <1>3, <3>1, <3>2, <3>3, <3>4 DEF new
    <2>4. QED
      BY <2>2, <2>3
  <1>4. QED
    BY <1>2, <1>3

(* No event of the log corrects one that the log has yet to take: this is    *)
(* what the check of prev buys the pointers.                                *)
LEMMA NotCorrectedYet ==
    ASSUME TypeOK, TargetsEarlier, OrderedLog(mem),
           job # NoJob, job.event.prev = HeadHash(mem)
    PROVE  CorrectionsOf(mem, job.event.id) = {}
  <1>1. SUFFICES ASSUME NEW k \in CorrectionsOf(mem, job.event.id)
                 PROVE  FALSE
    OBVIOUS
  <1>2. k \in 1 .. Len(mem) /\ mem[k].kind = "correction"
          /\ mem[k].target = job.event.id
    BY DEF CorrectionsOf
  <1>3. mem[k] \in Committed /\ job.event \in Committed
    BY <1>2 DEF Committed, EventsOf, UnderWay
  <1>4. Longer(mem[k], job.event)
    BY <1>2, <1>3 DEF TargetsEarlier
  <1>5. Len(mem[k].prev) < Len(HeadHash(mem))
    BY <1>2, HeadIsLongest DEF TypeOK
  <1>6. mem[k] \in Event /\ job.event \in Event
    BY <1>2 DEF TypeOK, Job
  <1>7. Len(mem[k].prev) \in Nat /\ Len(job.event.prev) \in Nat
    BY <1>6 DEF Event
  <1>8. QED
    BY <1>4, <1>5, <1>7 DEF Longer
(* The pointers are the ones a restart would set, but for the correction    *)
(* that is about to enter memory.                                          *)
LEMMA NextPointer == IInv /\ PInv /\ [Next]_vars => PointerInv'
  <1> SUFFICES ASSUME IInv, PInv, [Next]_vars
               PROVE  PointerInv'
    OBVIOUS
  <1>0. /\ TypeOK /\ TypeOK' /\ LockInv /\ PointerInv
        /\ TargetsEarlier /\ OrderedLog(mem)
    BY NextTypeOK DEF IInv, PInv, ChainInv, Ordered
  <1> DEFINE Mark(i) == IF Announced(i) THEN job.event.id ELSE Pointer(mem, i)
  <1>1. server = "up" => \A i \in EventIds : supersededBy[i] = Mark(i)
    BY <1>0 DEF PointerInv
  <1>2. ASSUME UNCHANGED << server, mem, supersededBy, job >>
        PROVE  PointerInv'
    BY <1>0, <1>2 DEF PointerInv, Announced, Pointer
  <1>3. ASSUME UNCHANGED << server, mem, supersededBy >>,
               job = NoJob \/ job.stage = "write",
               \/ job' = NoJob
               \/ job'.stage = "append" /\ job'.event.kind # "correction"
               \/ job'.stage = "supersede" /\ job'.event.kind = "correction"
        PROVE  PointerInv'
    <2>1. \A i : ~ Announced(i) /\ ~ Announced(i)'
      BY <1>3 DEF Announced
    <2>2. \A i : Pointer(mem', i) = Pointer(mem, i)
      BY <1>3
    <2>3. job' # NoJob /\ job'.stage = "supersede" => job'.event.kind = "correction"
      BY <1>3
    <2>4. server' = "up" => \A i \in EventIds : supersededBy'[i] = Pointer(mem', i)
      BY <1>1, <1>3, <2>1, <2>2
    <2>5. QED
      BY <2>1, <2>3, <2>4 DEF PointerInv
  <1>4. ASSUME NEW o \in Clients, Commit(o)
        PROVE  PointerInv'
    <2>1. /\ UNCHANGED << server, mem, supersededBy >> /\ job = NoJob
          /\ job'.event = body[o] /\ job'.stage = FirstStage(body[o])
      BY <1>4 DEF Commit
    <2>2. QED
      BY <1>3, <2>1 DEF FirstStage
  <1>5. CASE Scan
    BY <1>3, <1>5 DEF Scan
  <1>6. CASE WriteLine \/ WriteFails
    BY <1>3, <1>6 DEF WriteLine, WriteFails
  <1>7. CASE Supersede
    <2>1. /\ job # NoJob /\ job.stage = "supersede" /\ job.event.kind = "correction"
          /\ job'.event = job.event /\ job'.stage = "append" /\ job' # NoJob
          /\ UNCHANGED << server, mem >>
          /\ supersededBy' = [supersededBy EXCEPT ![job.event.target] = job.event.id]
      BY <1>0, <1>7, NoJobAssumption DEF Supersede, PointerInv, TypeOK, Job, Stages
    <2>2. \A i : ~ Announced(i) /\ (Announced(i)' <=> i = job.event.target)
      BY <2>1 DEF Announced
    <2>3. ASSUME server = "up", NEW i \in EventIds
          PROVE  supersededBy'[i] = IF i = job.event.target THEN job.event.id
                                    ELSE Pointer(mem, i)
      BY <1>0, <1>1, <2>1, <2>2, <2>3 DEF TypeOK
    <2>4. server' = "up" => \A i \in EventIds :
              supersededBy'[i] = IF Announced(i)' THEN job'.event.id ELSE Pointer(mem', i)
      BY <2>1, <2>2, <2>3
    <2>5. QED
      BY <2>1, <2>4 DEF PointerInv
  <1>8. CASE AppendMemory
    <2>1. /\ job # NoJob /\ job.stage = "append" /\ job.event \in Event
          /\ job'.stage = "write" /\ UNCHANGED << server, supersededBy >>
          /\ mem' = Append(mem, job.event)
      BY <1>0, <1>8 DEF AppendMemory, TypeOK, Job
    <2>2. Extends(job.event, mem)
      BY <1>0, <2>1 DEF LockInv
    <2>3. IdsOf(mem') = IdsOf(mem) \cup {job.event.id}
      BY <1>0, <2>1, AppendIds DEF TypeOK
    <2>4. ASSUME server = "up", NEW i \in EventIds
          PROVE  supersededBy[i] = Pointer(mem', i)
      <3>1. LastCorrection(mem', i) =
                IF job.event.kind = "correction" /\ job.event.target = i
                THEN job.event.id ELSE LastCorrection(mem, i)
        BY <1>0, <2>1, AppendCorrections DEF TypeOK
      <3>2. CASE job.event.kind = "correction" /\ job.event.target = i
        <4>1. i \in IdsOf(mem)
          BY <2>2, <3>2 DEF Extends, MayCorrect, IdsOf
        <4>2. Announced(i)
          BY <2>1, <3>2 DEF Announced
        <4>3. supersededBy[i] = job.event.id
          BY <1>1, <2>4, <4>2
        <4>4. QED
          BY <2>3, <3>1, <3>2, <4>1, <4>3 DEF Pointer
      <3>3. CASE ~ (job.event.kind = "correction" /\ job.event.target = i)
        <4>1. ~ Announced(i)
          BY <3>3 DEF Announced
        <4>2. supersededBy[i] = Pointer(mem, i)
          BY <1>1, <2>4, <4>1
        <4>3. CASE i = job.event.id
          <5>1. CorrectionsOf(mem, i) = {}
            BY <1>0, <2>1, <2>2, <4>3, NotCorrectedYet DEF Extends
          <5>2. LastCorrection(mem, i) = NoEvent
            BY <5>1 DEF LastCorrection
          <5>3. QED
            BY <3>1, <3>3, <4>2, <5>2 DEF Pointer
        <4>4. CASE i # job.event.id
          BY <2>3, <3>1, <3>3, <4>2, <4>4 DEF Pointer
        <4>5. QED
          BY <4>3, <4>4
      <3>4. QED
        BY <3>2, <3>3
    <2>5. \A i : ~ Announced(i)'
      BY <2>1 DEF Announced
    <2>6. QED
      BY <2>1, <2>4, <2>5 DEF PointerInv
  <1>9. CASE Crash
    BY <1>9 DEF Crash, PointerInv
  <1>10. CASE Restart
    <2>1. job' = NoJob
      BY <1>0, <1>10 DEF Restart, LockInv
    <2>2. CASE tail \in {"torn", "glued"}
      BY <1>10, <2>1, <2>2 DEF Restart, PointerInv
    <2>3. CASE tail \notin {"torn", "glued"}
      <3>1. mem' = disk /\ supersededBy' = Rebuild
        BY <1>10, <2>3 DEF Restart
      <3>2. \A i \in EventIds : supersededBy'[i] = Pointer(mem', i)
        BY <3>1 DEF Rebuild, Pointer
      <3>3. QED
        BY <2>1, <3>2 DEF PointerInv, Announced
    <2>4. QED
      BY <2>2, <2>3
  <1>11. QED
    <2>1. ASSUME NEW o \in Clients, NEW kind \in Kinds,
                 NEW target \in EventIds \cup {NoEvent}, Prepare(o, kind, target)
          PROVE  PointerInv'
      BY <1>2, <2>1 DEF Prepare, serverVars
    <2>2. ASSUME NEW o \in Clients, Forget(o)
          PROVE  PointerInv'
      BY <1>2, <2>2 DEF Forget, serverVars
    <2>3. CASE UNCHANGED vars
      BY <1>2, <2>3 DEF vars
    <2>4. QED
      BY <1>4, <1>5, <1>6, <1>7, <1>8, <1>9, <1>10, <2>1, <2>2, <2>3
         DEF Next, PrepareAny

(* At the start nothing is corrected. *)
LEMMA InitPInv == Init => PInv
  <1> SUFFICES ASSUME Init PROVE PInv
    OBVIOUS
  <1>1. Committed = {} /\ Held = {}
    BY DEF Init, Committed, Held, EventsOf, UnderWay
  <1>2. ChainInv
    BY <1>1 DEF Init, ChainInv, OneEventPerId, TargetsEarlier, Ordered, OrderedLog,
                WritesLast, Writing
  <1>3. IdsOf(mem) = {} /\ job = NoJob
    BY DEF Init, IdsOf
  <1>4. PointerInv
    BY <1>3 DEF Init, PointerInv, Announced, Pointer
  <1>5. QED
    BY <1>2, <1>4 DEF PInv

(* The invariant of the pointers holds in every reachable state. *)
THEOREM PointerInvariance == Spec => []PInv
  <1>1. IInv /\ PInv /\ [Next]_vars => PInv'
    BY NextEvents, NextOrdered, NextPointer DEF PInv, ChainInv
  <1>2. QED
    BY Invariance, InitPInv, <1>1, PTL DEF Spec

(* Whatever was lost on the way, between two requests the superseded_by     *)
(* pointers that commits set are the ones _load would rebuild.             *)
THEOREM PointersAreRebuilt == Spec => []SupersessionRebuilds
  <1>1. TypeOK /\ PInv => SupersessionRebuilds
    <2>1. ASSUME TypeOK, PInv, server = "up", job = NoJob, NEW i \in IdsOf(mem)
          PROVE  supersededBy[i] = LastCorrection(mem, i)
      <3>1. i \in EventIds
        BY <2>1, IdsType DEF TypeOK
      <3>2. QED
        BY <2>1, <3>1 DEF PInv, PointerInv, Announced, Pointer
    <2>2. QED
      BY <2>1 DEF SupersessionRebuilds
  <1>2. QED
    BY TypeCorrect, PointerInvariance, <1>1, PTL

(* Following superseded_by, as effective_payload does, moves forward in the *)
(* log, and so ends.                                                       *)
THEOREM PointersLeadForward == Spec => []PointersForward
  <1>1. TypeOK /\ PInv /\ SupersessionRebuilds => PointersForward
    <2>1. ASSUME TypeOK, PInv, SupersessionRebuilds, server = "up", job = NoJob,
                 NEW k \in 1 .. Len(mem), supersededBy[mem[k].id] # NoEvent
          PROVE  \E m \in k + 1 .. Len(mem) : mem[m].id = supersededBy[mem[k].id]
      <3>1. supersededBy[mem[k].id] = LastCorrection(mem, mem[k].id)
        BY <2>1 DEF SupersessionRebuilds, IdsOf
      <3>2. CorrectionsOf(mem, mem[k].id) # {}
        BY <2>1, <3>1 DEF LastCorrection
      <3>3. PICK m \in CorrectionsOf(mem, mem[k].id) :
                LastCorrection(mem, mem[k].id) = mem[m].id
        BY <2>1, <3>2, LastCorrectionIs DEF TypeOK
      <3>4. /\ m \in 1 .. Len(mem) /\ mem[m].kind = "correction"
            /\ mem[m].target = mem[k].id
        BY <3>3 DEF CorrectionsOf
      <3>5. mem[m] \in Committed /\ mem[k] \in Committed
        BY <2>1, <3>4 DEF Committed, EventsOf
      <3>6. Longer(mem[m], mem[k])
        BY <2>1, <3>4, <3>5 DEF PInv, ChainInv, TargetsEarlier
      <3>7. Len(mem[k].prev) \in Nat /\ Len(mem[m].prev) \in Nat
        BY <2>1, <3>4 DEF TypeOK, Event
      <3>8. ~ (m < k) /\ m # k
        BY <2>1, <3>4, <3>6, <3>7 DEF PInv, ChainInv, Ordered, OrderedLog, Longer
      <3>9. m \in k + 1 .. Len(mem)
        BY <2>1, <3>4, <3>8 DEF TypeOK
      <3>10. QED
        BY <3>1, <3>3, <3>9
    <2>2. QED
      BY <2>1 DEF PointersForward
  <1>2. QED
    BY TypeCorrect, PointerInvariance, PointersAreRebuilt, <1>1, PTL
=============================================================================
