----------------------------- MODULE LedgerReads -----------------------------
(***************************************************************************)
(* How requests read the ledger, and sign what they read.                    *)
(*                                                                         *)
(* On the local backend a read returns the list of events as it is.  On       *)
(* Fabric, FabricLedger asks the gateway agent of one organization, whose       *)
(* peer lags behind the channel; the list of all events goes through a          *)
(* cache with a lifetime, refilled under a lock, and invalidated by a commit     *)
(* that is answered.  A passport is put together from several such reads.      *)
(*                                                                         *)
(* Peers deliver the channel's events in one order and keep them, so what a    *)
(* read returns is the number of events it covers.                             *)
(***************************************************************************)
EXTENDS Naturals, Sequences

CONSTANTS
    Requests,       \* threads of the server
    Issuers,        \* those that may build a passport
    Peers,          \* where transactions are submitted
    OwnPeer,        \* the peer that answers the reads
    Kinds,          \* of events, some of those below
    MaxEvents, MaxFailures,     \* bounds
    Unlocked

ASSUME ReadersAssumption == OwnPeer \in Peers /\ Unlocked \notin Requests

VARIABLES
    backend,
    ledger,         \* the events committed on the channel, or locally
    height,         \* the number of them that each peer has
    cache,          \* rows, and whether they are younger than the lifetime
    raw,            \* the events in _raw_by_id
    lock,           \* the request that holds FabricLedger._lock
    request,        \* what each request is doing
    listed,         \* the most events of any list answered so far, or the place of
                    \* a commit answered by the reader's own peer
    failures

readVars == << backend, ledger, height, cache, raw, lock, request, listed, failures >>

Larger(m, n) == IF m >= n THEN m ELSE n

\* The parts of a passport in the order they are read, after the verification
\* of the chain, and the kinds of events that change them; wallet rewards are paid by
\* the contract with the stages, and there are none on the local backend.
Parts == << "stages", "rewards", "wallet rewards", "scans" >>

Changes(part) ==
    CASE part = "stages" -> {"stage"}
      [] part = "rewards" -> {"reward"}
      [] part = "wallet rewards" -> IF backend = "local" THEN {} ELSE {"stage"}
      [] part = "scans" -> {"scan"}

Resting == [step |-> "idle"]

At(t, step) == request[t].step = step

Becomes(t, state) == request' = [request EXCEPT ![t] = state]

\* The batch exists: its first stage is recorded, and everywhere.
ReadsInit ==
    /\ backend \in {"local", "fabric"}
    /\ ledger = << "stage" >>
    /\ height = [p \in Peers |-> 1]
    /\ cache = [rows |-> 0, fresh |-> FALSE]
    /\ raw = {}
    /\ lock = Unlocked
    /\ request = [t \in Requests |-> Resting]
    /\ listed = 0
    /\ failures = 0
-----------------------------------------------------------------------------
(* FabricLedger.all, and Ledger.all *)

Call(t, task, parts, problems) ==
    [step |-> "call", task |-> task, floor |-> listed, parts |-> parts,
     problems |-> problems]

Answered(t, rows) ==
    [step |-> "answered", task |-> request[t].task, floor |-> request[t].floor,
     parts |-> request[t].parts, problems |-> request[t].problems, rows |-> rows]

BeginCall(t, task) ==
    /\ At(t, "idle")
    /\ Becomes(t, Call(t, task, << >>, {}))
    /\ UNCHANGED << backend, ledger, height, cache, raw, lock, listed, failures >>

AnswerLocally(t) ==
    /\ backend = "local" /\ At(t, "call")
    /\ Becomes(t, Answered(t, Len(ledger)))
    /\ listed' = Larger(listed, Len(ledger))
    /\ UNCHANGED << backend, ledger, height, cache, raw, lock, failures >>

AnswerFromCache(t) ==
    /\ backend = "fabric" /\ At(t, "call") /\ lock = Unlocked
    /\ cache.fresh
    /\ Becomes(t, Answered(t, cache.rows))
    /\ listed' = Larger(listed, cache.rows)
    /\ UNCHANGED << backend, ledger, height, cache, raw, lock, failures >>

\* The lock is held from here until the cache is filled.
BeginFetch(t) ==
    /\ backend = "fabric" /\ At(t, "call") /\ lock = Unlocked
    /\ ~cache.fresh
    /\ lock' = t
    /\ request' = [request EXCEPT ![t].step = "fetch"]
    /\ UNCHANGED << backend, ledger, height, cache, raw, listed, failures >>

\* The peer evaluates GetAllEvents; its answer is on the way.
Evaluate(t) ==
    /\ At(t, "fetch")
    /\ Becomes(t, [Answered(t, height[OwnPeer]) EXCEPT !.step = "fetched"])
    /\ UNCHANGED << backend, ledger, height, cache, raw, lock, listed, failures >>

SetCache(t) ==
    LET rows == request[t].rows
    IN  /\ At(t, "fetched")
        /\ raw' = 1 .. rows
        /\ cache' = [rows |-> rows, fresh |-> TRUE]
        /\ lock' = Unlocked
        /\ Becomes(t, Answered(t, rows))
        /\ listed' = Larger(listed, rows)
        /\ UNCHANGED << backend, ledger, height, failures >>

(* For the mutation runs: an error leaves the lock taken.                    *)
StillLocked == lock

Released == Unlocked

\* The agent or its peer does not answer.  Of an audit that is the one problem
\* reported, and the chain counts as invalid; everyone else gets an error.
FetchFails(t) ==
    /\ At(t, "fetch")
    /\ failures < MaxFailures
    /\ failures' = failures + 1
    /\ lock' = Released
    /\ Becomes(t, IF request[t].task = "audit"
                  THEN [step |-> "checked", parts |-> << >>, problems |-> {"unreachable"}]
                  ELSE Resting)
    /\ UNCHANGED << backend, ledger, height, cache, raw, listed >>

\* The lifetime of the cache is over.
Expire ==
    /\ cache.fresh
    /\ cache' = [cache EXCEPT !.fresh = FALSE]
    /\ UNCHANGED << backend, ledger, height, raw, lock, request, listed, failures >>
-----------------------------------------------------------------------------
(* FabricLedger.commit_prepared, and Ledger.commit_prepared *)

Deliver(p) ==
    /\ backend = "fabric"
    /\ height[p] < Len(ledger)
    /\ height' = [height EXCEPT ![p] = @ + 1]
    /\ UNCHANGED << backend, ledger, cache, raw, lock, request, listed, failures >>

AppendLocally(t, kind) ==
    /\ backend = "local" /\ At(t, "idle")
    /\ Len(ledger) < MaxEvents
    /\ ledger' = Append(ledger, kind)
    /\ listed' = Len(ledger')
    /\ UNCHANGED << backend, height, cache, raw, lock, request, failures >>

\* The application's write_lock is held over the call.
Writing == \E u \in Requests : At(u, "submitted") \/ At(u, "invalidate")

Submit(t, p, kind) ==
    /\ backend = "fabric" /\ At(t, "idle") /\ ~Writing
    /\ Len(ledger) < MaxEvents
    /\ ledger' = Append(ledger, kind)
    /\ Becomes(t, [step |-> "submitted", peer |-> p, index |-> Len(ledger')])
    /\ UNCHANGED << backend, height, cache, raw, lock, listed, failures >>

\* The agent answers once its own peer has the event.
CommitReply(t) ==
    /\ At(t, "submitted")
    /\ height[request[t].peer] >= request[t].index
    /\ request' = [request EXCEPT ![t].step = "invalidate"]
    /\ UNCHANGED << backend, ledger, height, cache, raw, lock, listed, failures >>

\* It does not, or the answer is lost: an error, for an event that is there.
LoseReply(t) ==
    /\ At(t, "submitted")
    /\ failures < MaxFailures
    /\ failures' = failures + 1
    /\ Becomes(t, Resting)
    /\ UNCHANGED << backend, ledger, height, cache, raw, lock, listed >>

Stale(t) ==
    /\ At(t, "invalidate")
    /\ cache' = [cache EXCEPT !.fresh = FALSE]
    /\ Becomes(t, Resting)
    /\ listed' = IF request[t].peer = OwnPeer THEN Larger(listed, request[t].index)
                ELSE listed
    /\ UNCHANGED << backend, ledger, height, lock, failures >>

(* For the mutation runs: the rows are dropped with the cache.               *)
DropEverything(t) == Stale(t) /\ lock = Unlocked /\ raw' = {}

(* For the mutation runs: a commit does not wait for a fetch to end.         *)
InvalidateAtOnce(t) == Stale(t) /\ UNCHANGED raw

Invalidate(t) == Stale(t) /\ lock = Unlocked /\ UNCHANGED raw
-----------------------------------------------------------------------------
(* verify_chain and build_passport *)

\* An answered list, or a passport that is signed, goes out.
Finish(t) ==
    /\ At(t, "answered") /\ request[t].task \in {"list", "head"}
    /\ Becomes(t, Resting)
    /\ UNCHANGED << backend, ledger, height, cache, raw, lock, listed, failures >>

\* Every event must be in _raw_by_id, which is read without the lock.
Blamed(t) == IF backend = "local" THEN {} ELSE (1 .. request[t].rows) \ raw

Check(t) ==
    /\ At(t, "answered") /\ request[t].task = "audit"
    /\ Becomes(t, [step |-> "checked", parts |-> << >>,
                   problems |-> IF Blamed(t) = {} THEN {} ELSE {"event"}])
    /\ UNCHANGED << backend, ledger, height, cache, raw, lock, listed, failures >>

\* An audit goes out; a passport is read part by part.
EndAudit(t) ==
    /\ At(t, "checked") /\ request[t].parts = << >>
    /\ Becomes(t, Resting)
    /\ UNCHANGED << backend, ledger, height, cache, raw, lock, listed, failures >>

Visible == IF backend = "local" THEN Len(ledger) ELSE height[OwnPeer]

NextPart(t) == Parts[Len(request[t].parts) + 1]

ReadPart(t) ==
    /\ t \in Issuers
    /\ At(t, "checked") /\ Len(request[t].parts) < Len(Parts)
    /\ request' = [request EXCEPT ![t].parts = Append(@, Visible)]
    /\ UNCHANGED << backend, ledger, height, cache, raw, lock, listed, failures >>

\* A read fails: so does the request, but for the wallet rewards.
ReadPartFails(t) ==
    /\ backend = "fabric"
    /\ t \in Issuers
    /\ At(t, "checked") /\ Len(request[t].parts) < Len(Parts)
    /\ failures < MaxFailures
    /\ failures' = failures + 1
    /\ IF NextPart(t) = "wallet rewards"
       THEN request' = [request EXCEPT ![t].parts = Append(@, 0)]
       ELSE Becomes(t, Resting)
    /\ UNCHANGED << backend, ledger, height, cache, raw, lock, listed >>

\* What is signed is the content and the head, read last.
AskHead(t) ==
    /\ At(t, "checked") /\ Len(request[t].parts) = Len(Parts)
    /\ Becomes(t, Call(t, "head", request[t].parts, request[t].problems))
    /\ UNCHANGED << backend, ledger, height, cache, raw, lock, listed, failures >>
-----------------------------------------------------------------------------
\* What a request goes on to do once it is begun.
Continue(t) ==
    \/ AnswerLocally(t) \/ AnswerFromCache(t)
    \/ BeginFetch(t) \/ Evaluate(t) \/ SetCache(t)
    \/ CommitReply(t) \/ Invalidate(t)
    \/ Finish(t) \/ Check(t) \/ EndAudit(t) \/ ReadPart(t) \/ AskHead(t)

\* What a client asks for: a list or an audit, as the first part of a passport
\* is one too, or that an event is committed.
Ask(t) ==
    \/ \E task \in {"list", "audit"} : BeginCall(t, task)
    \/ \E kind \in Kinds : AppendLocally(t, kind)
    \/ \E kind \in Kinds, p \in Peers : Submit(t, p, kind)

Fail(t) == FetchFails(t) \/ ReadPartFails(t) \/ LoseReply(t)

\* What happens without a client asking.
GoOn ==
    \/ \E t \in Requests : Continue(t) \/ Fail(t)
    \/ \E p \in Peers : Deliver(p)
    \/ Expire

ReadsNext == GoOn \/ \E t \in Requests : Ask(t)

ReadsSpec == ReadsInit /\ [][ReadsNext]_readVars
-----------------------------------------------------------------------------
(* A list of all events has everything that an earlier list had, and every   *)
(* event whose commit through the reader's own peer was answered before it    *)
(* was asked for: no cache filled by a fetch that was under way brings an     *)
(* older list back.  What is asked of the peer itself (events of a subject or  *)
(* of a type, the parts of a passport) passes the cache by and may be ahead of *)
(* the next list; nothing is said of that.                                    *)
ListsNeverGoBack ==
    \A t \in Requests : At(t, "answered") => request[t].rows >= request[t].floor

(* No audit blames an event of a ledger that is sound, though it looks its    *)
(* events up in a table that other requests replace meanwhile: the only        *)
(* problem ever reported is that the agent was out of reach.                  *)
AuditBlamesNoEvent ==
    \A t \in Requests : At(t, "checked") => request[t].problems \subseteq {"unreachable"}

(* "Signed PDF passport: a tamper-evident snapshot bound to the ledger by an  *)
(* Ed25519 attestation": the content of a passport that is signed is that of  *)
(* the ledger whose head is signed with it.                                   *)
Shows(part, n) == Len(SelectSeq(SubSeq(ledger, 1, n), LAMBDA kind : kind \in Changes(part)))

SnapshotIsOfHead ==
    \A t \in Requests :
        At(t, "answered") /\ request[t].task = "head" =>
            \A i \in DOMAIN Parts :
                Shows(Parts[i], request[t].parts[i]) = Shows(Parts[i], request[t].rows)
=============================================================================
