---------------------------- MODULE ApplicationProofs ----------------------------
(***************************************************************************)
(* Proofs about the application's reads (LedgerReads) and files (AppFiles),    *)
(* for any number of requests, peers, events, clients, artifacts and faults.   *)
(***************************************************************************)
EXTENDS AppFiles, LedgerReads, TLAPS
-----------------------------------------------------------------------------
(* Reads.  The argument: what lists have told ("listed") grows only when the  *)
(* lock is free or with the cache, and a fetch holds the lock; the rows a      *)
(* fetch brings are those of a moment after it took the lock, so they cover    *)
(* all that was listed then, and that is still all of it when they go          *)
(* into the cache.  The table the audits look their events up in has all rows  *)
(* of the cache, and the cache never gets fewer.                              *)

Tasks == {"list", "audit", "head"}
Problems == SUBSET {"unreachable", "event"}

RequestState ==
    {Resting}
    \cup [step : {"call", "fetch"}, task : Tasks, floor : Nat, parts : Seq(Nat),
          problems : Problems]
    \cup [step : {"fetched", "answered"}, task : Tasks, floor : Nat,
          parts : Seq(Nat), problems : Problems, rows : Nat]
    \cup [step : {"checked"}, parts : Seq(Nat), problems : Problems]
    \cup [step : {"submitted", "invalidate"}, peer : Peers, index : Nat]

ReadsType ==
    /\ backend \in {"local", "fabric"}
    /\ ledger \in Seq(Kinds \cup {"stage"})
    /\ height \in [Peers -> Nat]
    /\ cache \in [rows : Nat, fresh : BOOLEAN]
    /\ request \in [Requests -> RequestState]
    /\ listed \in Nat
    /\ failures \in Nat

\* No list told more than the reader's peer has, or less than is cached.
CacheInv ==
    /\ listed <= Visible
    /\ cache.rows <= listed
    /\ raw = 1 .. cache.rows
    /\ cache.fresh => cache.rows = listed
    /\ backend = "local" => ~ cache.fresh

Holding(t) == At(t, "fetch") \/ At(t, "fetched")

RequestInv(t) ==
    /\ Holding(t) => lock = t
    /\ (Holding(t) \/ At(t, "submitted") \/ At(t, "invalidate")) => backend = "fabric"
    /\ (Holding(t) \/ At(t, "call")) => request[t].floor <= listed
    /\ At(t, "fetched") => listed <= request[t].rows /\ request[t].rows <= Visible
    /\ At(t, "answered") =>
           /\ request[t].floor <= request[t].rows
           /\ backend = "fabric" => request[t].rows <= cache.rows
    /\ (At(t, "invalidate") /\ request[t].peer = OwnPeer) => request[t].index <= Visible
    /\ At(t, "checked") => request[t].problems \subseteq {"unreachable"}

ReadsInv == ReadsType /\ CacheInv /\ \A t \in Requests : RequestInv(t)

(* What a request may become when only it moves on. *)
LEMMA Moves ==
    ASSUME ReadsType, NEW t \in Requests, NEW state \in RequestState,
           Becomes(t, state)
    PROVE  /\ request' \in [Requests -> RequestState]
           /\ request'[t] = state
           /\ \A u \in Requests : u # t => request'[u] = request[u]
  BY DEF ReadsType, Becomes

LEMMA BeginCallKeeps ==
    ASSUME ReadsInv, NEW t \in Requests, NEW task \in Tasks, BeginCall(t, task)
    PROVE  ReadsInv'
  <1> DEFINE state == Call(t, task, << >>, {})
  <1>1. state \in RequestState /\ state.step = "call" /\ state.floor = listed
    BY DEF Call, RequestState, ReadsInv, ReadsType, Problems
  <1> HIDE DEF state
  <1>2. /\ request' \in [Requests -> RequestState]
        /\ request'[t] = state
        /\ \A u \in Requests : u # t => request'[u] = request[u]
    BY <1>1, Moves DEF BeginCall, ReadsInv, state
  <1>3. UNCHANGED << backend, ledger, height, cache, raw, lock, listed, failures >>
    BY DEF BeginCall
  <1>4. ReadsType' /\ CacheInv'
    BY <1>2, <1>3 DEF ReadsInv, ReadsType, CacheInv, Visible
  <1>5. ASSUME NEW u \in Requests PROVE RequestInv(u)'
    BY <1>1, <1>2, <1>3 DEF ReadsInv, ReadsType, RequestInv, Holding, At, Visible
  <1>6. QED
    BY <1>4, <1>5 DEF ReadsInv

LEMMA AnswerLocallyKeeps ==
    ASSUME ReadsInv, NEW t \in Requests, AnswerLocally(t)
    PROVE  ReadsInv'
  <1> DEFINE state == Answered(t, Len(ledger))
  <1>1. /\ request[t] \in RequestState /\ At(t, "call") /\ backend = "local"
        /\ Len(ledger) \in Nat /\ listed \in Nat
    BY DEF AnswerLocally, ReadsInv, ReadsType
  <1>2. /\ state \in RequestState /\ state.step = "answered" /\ state.rows = Len(ledger)
        /\ state.floor = request[t].floor /\ request[t].floor \in Nat
    BY <1>1 DEF Answered, RequestState, Resting, At
  <1> HIDE DEF state
  <1>3. /\ request' \in [Requests -> RequestState]
        /\ request'[t] = state
        /\ \A u \in Requests : u # t => request'[u] = request[u]
    BY <1>2, Moves DEF AnswerLocally, ReadsInv, state
  <1>4. /\ UNCHANGED << backend, ledger, height, cache, raw, lock, failures >>
        /\ listed' = Len(ledger)
    BY <1>1 DEF AnswerLocally, Larger, ReadsInv, CacheInv, Visible
  <1>5. listed <= Len(ledger) /\ request[t].floor <= listed
    BY <1>1 DEF ReadsInv, CacheInv, Visible, RequestInv
  <1>6. ReadsType' /\ CacheInv'
    BY <1>1, <1>3, <1>4, <1>5 DEF ReadsInv, ReadsType, CacheInv, Visible
  <1>7. ASSUME NEW u \in Requests PROVE RequestInv(u)'
    <2>1. CASE u = t
      BY <1>1, <1>2, <1>3, <1>4, <1>5, <2>1 DEF RequestInv, Holding, At
    <2>2. CASE u # t
      <3>1. At(u, "call") => request[u].floor \in Nat
        BY DEF At, ReadsInv, ReadsType, RequestState, Resting
      <3>2. QED
        BY <1>1, <1>3, <1>4, <1>5, <2>2, <3>1 DEF ReadsInv, RequestInv, Holding, At, Visible
    <2>3. QED
      BY <2>1, <2>2
  <1>8. QED
    BY <1>6, <1>7 DEF ReadsInv

LEMMA AnswerFromCacheKeeps ==
    ASSUME ReadsInv, NEW t \in Requests, AnswerFromCache(t)
    PROVE  ReadsInv'
  <1> DEFINE state == Answered(t, cache.rows)
  <1>1. /\ request[t] \in RequestState /\ At(t, "call") /\ cache.fresh
        /\ cache.rows \in Nat /\ listed \in Nat /\ cache.rows = listed
    BY DEF AnswerFromCache, ReadsInv, ReadsType, CacheInv
  <1>2. state \in RequestState /\ state.step = "answered" /\ state.rows = listed
        /\ state.floor = request[t].floor
    BY <1>1 DEF Answered, RequestState, Resting, At
  <1> HIDE DEF state
  <1>3. /\ request' \in [Requests -> RequestState]
        /\ request'[t] = state
        /\ \A u \in Requests : u # t => request'[u] = request[u]
    BY <1>2, Moves DEF AnswerFromCache, ReadsInv, state
  <1>4. UNCHANGED << backend, ledger, height, cache, raw, lock, listed, failures >>
    BY <1>1 DEF AnswerFromCache, Larger
  <1>5. request[t].floor <= listed
    BY <1>1 DEF ReadsInv, RequestInv
  <1>6. ReadsType' /\ CacheInv'
    BY <1>3, <1>4 DEF ReadsInv, ReadsType, CacheInv, Visible
  <1>7. ASSUME NEW u \in Requests PROVE RequestInv(u)'
    BY <1>1, <1>2, <1>3, <1>4, <1>5 DEF ReadsInv, RequestInv, Holding, At, Visible
  <1>8. QED
    BY <1>6, <1>7 DEF ReadsInv

LEMMA BeginFetchKeeps ==
    ASSUME ReadsInv, NEW t \in Requests, BeginFetch(t)
    PROVE  ReadsInv'
  <1> DEFINE state == [request[t] EXCEPT !.step = "fetch"]
  <1>1. request[t] \in RequestState /\ At(t, "call") /\ backend = "fabric"
    BY DEF BeginFetch, ReadsInv, ReadsType
  <1>2. state \in RequestState /\ state.step = "fetch" /\ state.floor = request[t].floor
    BY <1>1 DEF RequestState, Resting, At
  <1>3. Becomes(t, state)
    BY DEF BeginFetch, Becomes
  <1> HIDE DEF state
  <1>4. /\ request' \in [Requests -> RequestState]
        /\ request'[t] = state
        /\ \A u \in Requests : u # t => request'[u] = request[u]
    BY <1>2, <1>3, Moves DEF ReadsInv
  <1>5. /\ UNCHANGED << backend, ledger, height, cache, raw, listed, failures >>
        /\ lock = Unlocked /\ lock' = t
    BY DEF BeginFetch
  <1>6. ReadsType' /\ CacheInv'
    BY <1>4, <1>5 DEF ReadsInv, ReadsType, CacheInv, Visible
  <1>7. ASSUME NEW u \in Requests, u # t PROVE ~ Holding(u)
    BY <1>5, <1>7, ReadersAssumption DEF ReadsInv, RequestInv
  <1>8. ASSUME NEW u \in Requests PROVE RequestInv(u)'
    BY <1>1, <1>2, <1>4, <1>5, <1>7 DEF ReadsInv, RequestInv, Holding, At, Visible
  <1>9. QED
    BY <1>6, <1>8 DEF ReadsInv

LEMMA EvaluateKeeps ==
    ASSUME ReadsInv, NEW t \in Requests, Evaluate(t)
    PROVE  ReadsInv'
  <1> DEFINE state == [Answered(t, height[OwnPeer]) EXCEPT !.step = "fetched"]
  <1>1. /\ request[t] \in RequestState /\ At(t, "fetch")
        /\ height[OwnPeer] \in Nat /\ backend = "fabric"
    BY ReadersAssumption DEF Evaluate, ReadsInv, ReadsType, RequestInv, Holding
  <1>2. /\ state \in RequestState /\ state.step = "fetched"
        /\ state.rows = height[OwnPeer] /\ state.floor = request[t].floor
    BY <1>1 DEF Answered, RequestState, Resting, At
  <1> HIDE DEF state
  <1>3. /\ request' \in [Requests -> RequestState]
        /\ request'[t] = state
        /\ \A u \in Requests : u # t => request'[u] = request[u]
    BY <1>2, Moves DEF Evaluate, ReadsInv, state
  <1>4. UNCHANGED << backend, ledger, height, cache, raw, lock, listed, failures >>
    BY DEF Evaluate
  <1>5. ReadsType' /\ CacheInv'
    BY <1>3, <1>4 DEF ReadsInv, ReadsType, CacheInv, Visible
  <1>6. ASSUME NEW u \in Requests PROVE RequestInv(u)'
    BY <1>1, <1>2, <1>3, <1>4 DEF ReadsInv, ReadsType, CacheInv, RequestInv, Holding,
       At, Visible
  <1>7. QED
    BY <1>5, <1>6 DEF ReadsInv

LEMMA SetCacheKeeps ==
    ASSUME ReadsInv, NEW t \in Requests, SetCache(t)
    PROVE  ReadsInv'
  <1> DEFINE rows == request[t].rows
             state == Answered(t, rows)
  <1>1. /\ request[t] \in RequestState /\ At(t, "fetched") /\ backend = "fabric"
        /\ lock = t /\ listed <= rows /\ rows <= Visible /\ request[t].floor <= listed
    BY DEF SetCache, ReadsInv, ReadsType, RequestInv, Holding
  <1>2. /\ state \in RequestState /\ state.step = "answered" /\ state.rows = rows
        /\ state.floor = request[t].floor /\ rows \in Nat /\ request[t].floor \in Nat
    BY <1>1 DEF Answered, RequestState, Resting, At
  <1>3. /\ UNCHANGED << backend, ledger, height, failures >>
        /\ raw' = 1 .. rows /\ cache' = [rows |-> rows, fresh |-> TRUE]
        /\ lock' = Unlocked /\ listed' = rows /\ listed \in Nat
        /\ cache.rows \in Nat /\ cache.rows <= rows
    BY <1>1, <1>2 DEF SetCache, Larger, ReadsInv, ReadsType, CacheInv
  <1>4. Becomes(t, state)
    BY DEF SetCache
  <1> HIDE DEF state, rows
  <1>5. /\ request' \in [Requests -> RequestState]
        /\ request'[t] = state
        /\ \A u \in Requests : u # t => request'[u] = request[u]
    BY <1>2, <1>4, Moves DEF ReadsInv
  <1>6. ReadsType' /\ CacheInv'
    BY <1>1, <1>2, <1>3, <1>5 DEF ReadsInv, ReadsType, CacheInv, Visible
  <1>7. ASSUME NEW u \in Requests, u # t PROVE ~ Holding(u)
    BY <1>1, <1>7 DEF ReadsInv, RequestInv
  <1>8. ASSUME NEW u \in Requests PROVE RequestInv(u)'
    <2>1. CASE u = t
      BY <1>1, <1>2, <1>3, <1>5, <2>1 DEF RequestInv, Holding, At
    <2>2. CASE u # t
      <3>1. /\ At(u, "call") => request[u].floor \in Nat
            /\ At(u, "answered") => request[u].rows \in Nat
        BY DEF At, ReadsInv, ReadsType, RequestState, Resting
      <3>2. QED
        BY <1>1, <1>2, <1>3, <1>5, <1>7, <2>2, <3>1
        DEF ReadsInv, RequestInv, Holding, At, Visible
    <2>3. QED
      BY <2>1, <2>2
  <1>9. QED
    BY <1>6, <1>8 DEF ReadsInv

(* A request that ends or fails is at rest, or an audit without a result. *)
LEMMA EndKeeps ==
    ASSUME ReadsInv, NEW t \in Requests,
           NEW state \in {Resting, [step |-> "checked", parts |-> << >>,
                                    problems |-> {"unreachable"}]},
           Becomes(t, state), lock' \in {lock, Unlocked}, Holding(t) \/ lock' = lock,
           failures' \in Nat,
           UNCHANGED << backend, ledger, height, cache, raw, listed >>
    PROVE  ReadsInv'
  <1>1. /\ state \in RequestState /\ state.step \in {"idle", "checked"}
        /\ state.step = "checked" => state.problems = {"unreachable"}
    <2>1. CASE state = Resting
      BY <2>1 DEF RequestState, Resting
    <2>2. CASE state = [step |-> "checked", parts |-> << >>, problems |-> {"unreachable"}]
      <3>1. << >> \in Seq(Nat)
        OBVIOUS
      <3>2. QED
        BY <2>2, <3>1 DEF RequestState, Problems
    <2>3. QED
      BY <2>1, <2>2
  <1>2. /\ request' \in [Requests -> RequestState]
        /\ request'[t] = state
        /\ \A u \in Requests : u # t => request'[u] = request[u]
    BY <1>1, Moves DEF ReadsInv
  <1>3. ReadsType' /\ CacheInv'
    BY <1>2 DEF ReadsInv, ReadsType, CacheInv, Visible
  <1>4. ASSUME NEW u \in Requests, u # t PROVE Holding(u) => lock' = lock
    BY <1>4 DEF ReadsInv, RequestInv
  <1>5. ASSUME NEW u \in Requests PROVE RequestInv(u)'
    BY <1>1, <1>2, <1>4 DEF ReadsInv, RequestInv, Holding, At, Visible
  <1>6. QED
    BY <1>3, <1>5 DEF ReadsInv

LEMMA FetchFailsKeeps ==
    ASSUME ReadsInv, NEW t \in Requests, FetchFails(t)
    PROVE  ReadsInv'
  <1> DEFINE state == IF request[t].task = "audit"
                      THEN [step |-> "checked", parts |-> << >>, problems |-> {"unreachable"}]
                      ELSE Resting
  <1>1. state \in {Resting, [step |-> "checked", parts |-> << >>,
                             problems |-> {"unreachable"}]}
    OBVIOUS
  <1>2. /\ Becomes(t, state) /\ lock' = Unlocked /\ Holding(t)
        /\ failures' \in Nat
        /\ UNCHANGED << backend, ledger, height, cache, raw, listed >>
    BY DEF FetchFails, Released, Holding, ReadsInv, ReadsType
  <1> HIDE DEF state
  <1>3. QED
    BY <1>1, <1>2, EndKeeps

LEMMA ExpireKeeps ==
    ASSUME ReadsInv, Expire
    PROVE  ReadsInv'
  <1>1. /\ cache' = [cache EXCEPT !.fresh = FALSE]
        /\ UNCHANGED << backend, ledger, height, raw, lock, request, listed, failures >>
    BY DEF Expire
  <1>2. cache' \in [rows : Nat, fresh : BOOLEAN] /\ cache'.rows = cache.rows
        /\ cache'.fresh = FALSE
    BY <1>1 DEF ReadsInv, ReadsType
  <1>3. ReadsType' /\ CacheInv'
    BY <1>1, <1>2 DEF ReadsInv, ReadsType, CacheInv, Visible
  <1>4. ASSUME NEW u \in Requests PROVE RequestInv(u)'
    BY <1>1, <1>2 DEF ReadsInv, RequestInv, Holding, At, Visible
  <1>5. QED
    BY <1>3, <1>4 DEF ReadsInv

(* What a peer has already is not lost when it gets another event. *)
LEMMA DeliverKeeps ==
    ASSUME ReadsInv, NEW p \in Peers, Deliver(p)
    PROVE  ReadsInv'
  <1>1. /\ height' = [height EXCEPT ![p] = @ + 1] /\ backend = "fabric"
        /\ UNCHANGED << backend, ledger, cache, raw, lock, request, listed, failures >>
    BY DEF Deliver
  <1>2. /\ height \in [Peers -> Nat] /\ height' \in [Peers -> Nat]
        /\ Visible = height[OwnPeer] /\ Visible' = height'[OwnPeer]
        /\ Visible \in Nat /\ Visible' \in Nat /\ Visible <= Visible'
    BY <1>1, ReadersAssumption DEF ReadsInv, ReadsType, Visible
  <1>3. ReadsType' /\ CacheInv'
    BY <1>1, <1>2 DEF ReadsInv, ReadsType, CacheInv
  <1>4. ASSUME NEW u \in Requests PROVE RequestInv(u)'
    <2>1. /\ At(u, "fetched") => request[u].rows \in Nat
          /\ At(u, "invalidate") => request[u].index \in Nat
      BY DEF At, ReadsInv, ReadsType, RequestState, Resting
    <2>2. QED
      BY <1>1, <1>2, <2>1 DEF ReadsInv, RequestInv, Holding, At
  <1>5. QED
    BY <1>3, <1>4 DEF ReadsInv

LEMMA AppendLocallyKeeps ==
    ASSUME ReadsInv, NEW t \in Requests, NEW kind \in Kinds, AppendLocally(t, kind)
    PROVE  ReadsInv'
  <1>1. /\ ledger' = Append(ledger, kind) /\ listed' = Len(ledger') /\ backend = "local"
        /\ UNCHANGED << backend, height, cache, raw, lock, request, failures >>
    BY DEF AppendLocally
  <1>2. /\ ledger' \in Seq(Kinds \cup {"stage"}) /\ Len(ledger') = Len(ledger) + 1
        /\ Len(ledger) \in Nat
    BY <1>1 DEF ReadsInv, ReadsType
  <1>3. listed <= listed' /\ listed \in Nat /\ listed' \in Nat
    BY <1>1, <1>2 DEF ReadsInv, ReadsType, CacheInv, Visible
  <1>4. ReadsType' /\ CacheInv'
    BY <1>1, <1>2, <1>3 DEF ReadsInv, ReadsType, CacheInv, Visible
  <1>5. ASSUME NEW u \in Requests PROVE RequestInv(u)'
    <2>1. At(u, "call") => request[u].floor \in Nat
      BY DEF At, ReadsInv, ReadsType, RequestState, Resting
    <2>2. QED
      BY <1>1, <1>3, <2>1 DEF ReadsInv, RequestInv, Holding, At
  <1>6. QED
    BY <1>4, <1>5 DEF ReadsInv

LEMMA SubmitKeeps ==
    ASSUME ReadsInv, NEW t \in Requests, NEW p \in Peers, NEW kind \in Kinds,
           Submit(t, p, kind)
    PROVE  ReadsInv'
  <1> DEFINE state == [step |-> "submitted", peer |-> p, index |-> Len(ledger')]
  <1>1. /\ ledger' = Append(ledger, kind) /\ Becomes(t, state) /\ backend = "fabric"
        /\ UNCHANGED << backend, height, cache, raw, lock, listed, failures >>
    BY DEF Submit
  <1>2. ledger' \in Seq(Kinds \cup {"stage"}) /\ Len(ledger') \in Nat
    BY <1>1 DEF ReadsInv, ReadsType
  <1>3. state \in RequestState /\ state.step = "submitted"
    BY <1>2 DEF RequestState
  <1> HIDE DEF state
  <1>4. /\ request' \in [Requests -> RequestState]
        /\ request'[t] = state
        /\ \A u \in Requests : u # t => request'[u] = request[u]
    BY <1>1, <1>3, Moves DEF ReadsInv
  <1>5. ReadsType' /\ CacheInv'
    BY <1>1, <1>2, <1>4 DEF ReadsInv, ReadsType, CacheInv, Visible
  <1>6. ASSUME NEW u \in Requests PROVE RequestInv(u)'
    BY <1>1, <1>3, <1>4 DEF ReadsInv, RequestInv, Holding, At, Visible
  <1>7. QED
    BY <1>5, <1>6 DEF ReadsInv

LEMMA CommitReplyKeeps ==
    ASSUME ReadsInv, NEW t \in Requests, CommitReply(t)
    PROVE  ReadsInv'
  <1> DEFINE state == [request[t] EXCEPT !.step = "invalidate"]
  <1>1. /\ request[t] \in RequestState /\ At(t, "submitted") /\ backend = "fabric"
        /\ height[request[t].peer] >= request[t].index
        /\ UNCHANGED << backend, ledger, height, cache, raw, lock, listed, failures >>
    BY DEF CommitReply, ReadsInv, ReadsType, RequestInv
  <1>2. /\ state \in RequestState /\ state.step = "invalidate"
        /\ state.peer = request[t].peer /\ state.index = request[t].index
        /\ state.peer = OwnPeer => state.index <= height[OwnPeer]
    <2>1. /\ request[t].peer \in Peers /\ request[t].index \in Nat
          /\ height \in [Peers -> Nat]
      BY <1>1 DEF RequestState, Resting, At, ReadsInv, ReadsType
    <2>2. QED
      BY <1>1, <2>1 DEF RequestState, Resting, At
  <1>3. Becomes(t, state)
    BY DEF CommitReply, Becomes
  <1> HIDE DEF state
  <1>4. /\ request' \in [Requests -> RequestState]
        /\ request'[t] = state
        /\ \A u \in Requests : u # t => request'[u] = request[u]
    BY <1>2, <1>3, Moves DEF ReadsInv
  <1>5. ReadsType' /\ CacheInv'
    BY <1>1, <1>4 DEF ReadsInv, ReadsType, CacheInv, Visible
  <1>6. ASSUME NEW u \in Requests PROVE RequestInv(u)'
    BY <1>1, <1>2, <1>4 DEF ReadsInv, RequestInv, Holding, At, Visible
  <1>7. QED
    BY <1>5, <1>6 DEF ReadsInv

LEMMA LoseReplyKeeps ==
    ASSUME ReadsInv, NEW t \in Requests, LoseReply(t)
    PROVE  ReadsInv'
  BY EndKeeps DEF LoseReply, ReadsInv, ReadsType

(* The commit through the reader's own peer becomes listed when the cache is    *)
(* invalidated, and no fetch is under way then.                              *)
LEMMA InvalidateKeeps ==
    ASSUME ReadsInv, NEW t \in Requests, Invalidate(t)
    PROVE  ReadsInv'
  <1>1. /\ request[t] \in RequestState /\ At(t, "invalidate") /\ lock = Unlocked
        /\ cache' = [cache EXCEPT !.fresh = FALSE] /\ Becomes(t, Resting)
        /\ UNCHANGED << backend, ledger, height, lock, failures, raw >>
        /\ backend = "fabric"
    BY DEF Invalidate, Stale, ReadsInv, ReadsType, RequestInv
  <1>2. request[t].index \in Nat
    BY <1>1 DEF RequestState, Resting, At
  <1>3. /\ listed \in Nat /\ listed' \in Nat /\ listed <= listed' /\ listed' <= Visible
    BY <1>1, <1>2 DEF Invalidate, Stale, Larger, ReadsInv, ReadsType, CacheInv, RequestInv
  <1>4. cache' \in [rows : Nat, fresh : BOOLEAN] /\ cache'.rows = cache.rows
        /\ cache'.fresh = FALSE /\ cache.rows \in Nat
    BY <1>1 DEF ReadsInv, ReadsType
  <1>5. Resting \in RequestState /\ Resting.step = "idle"
    BY DEF RequestState, Resting
  <1>6. /\ request' \in [Requests -> RequestState]
        /\ request'[t] = Resting
        /\ \A u \in Requests : u # t => request'[u] = request[u]
    BY <1>1, <1>5, Moves DEF ReadsInv
  <1>7. ReadsType' /\ CacheInv'
    BY <1>1, <1>3, <1>4, <1>6 DEF ReadsInv, ReadsType, CacheInv, Visible
  <1>8. ASSUME NEW u \in Requests PROVE ~ Holding(u)
    BY <1>1, ReadersAssumption DEF ReadsInv, RequestInv
  <1>9. ASSUME NEW u \in Requests PROVE RequestInv(u)'
    <2>1. At(u, "call") => request[u].floor \in Nat
      BY DEF At, ReadsInv, ReadsType, RequestState, Resting
    <2>2. QED
      BY <1>1, <1>3, <1>4, <1>5, <1>6, <1>8, <2>1
      DEF ReadsInv, RequestInv, Holding, At, Visible
  <1>10. QED
    BY <1>7, <1>9 DEF ReadsInv

LEMMA FinishKeeps ==
    ASSUME ReadsInv, NEW t \in Requests, Finish(t) \/ EndAudit(t)
    PROVE  ReadsInv'
  BY EndKeeps DEF Finish, EndAudit, ReadsInv, ReadsType

(* The table has all rows of the cache, and the answer has no more. *)
LEMMA CheckKeeps ==
    ASSUME ReadsInv, NEW t \in Requests, Check(t)
    PROVE  ReadsInv'
  <1> DEFINE problems == IF Blamed(t) = {} THEN {} ELSE {"event"}
             state == [step |-> "checked", parts |-> << >>, problems |-> problems]
  <1>1. /\ request[t] \in RequestState /\ At(t, "answered") /\ Becomes(t, state)
        /\ UNCHANGED << backend, ledger, height, cache, raw, lock, listed, failures >>
    BY DEF Check, ReadsInv, ReadsType
  <1>2. request[t].rows \in Nat
    BY <1>1 DEF RequestState, Resting, At
  <1>3. problems = {}
    <2>1. CASE backend = "local"
      BY <2>1 DEF Blamed
    <2>2. CASE backend # "local"
      <3>1. /\ request[t].rows <= cache.rows /\ raw = 1 .. cache.rows
            /\ cache.rows \in Nat
        BY <1>1, <2>2 DEF ReadsInv, ReadsType, CacheInv, RequestInv
      <3>2. (1 .. request[t].rows) \ raw = {}
        BY <1>2, <3>1
      <3>3. QED
        BY <2>2, <3>2 DEF Blamed
    <2>3. QED
      BY <2>1, <2>2
  <1> HIDE DEF problems
  <1>4. state \in RequestState /\ state.step = "checked" /\ state.problems = {}
    <2>1. << >> \in Seq(Nat)
      OBVIOUS
    <2>2. QED
      BY <1>3, <2>1 DEF RequestState, Problems
  <1> HIDE DEF state
  <1>5. /\ request' \in [Requests -> RequestState]
        /\ request'[t] = state
        /\ \A u \in Requests : u # t => request'[u] = request[u]
    BY <1>1, <1>4, Moves DEF ReadsInv
  <1>6. ReadsType' /\ CacheInv'
    BY <1>1, <1>5 DEF ReadsInv, ReadsType, CacheInv, Visible
  <1>7. ASSUME NEW u \in Requests PROVE RequestInv(u)'
    BY <1>1, <1>4, <1>5 DEF ReadsInv, RequestInv, Holding, At, Visible
  <1>8. QED
    BY <1>6, <1>7 DEF ReadsInv

(* One part more of the passport, or none: the verdict stays. *)
LEMMA PartKeeps ==
    ASSUME ReadsInv, NEW t \in Requests, NEW rows \in Nat, At(t, "checked"),
           request' = [request EXCEPT ![t].parts = Append(@, rows)],
           failures' \in Nat,
           UNCHANGED << backend, ledger, height, cache, raw, lock, listed >>
    PROVE  ReadsInv'
  <1> DEFINE state == [request[t] EXCEPT !.parts = Append(@, rows)]
  <1>1. request[t] \in RequestState
    BY DEF ReadsInv, ReadsType
  <1>2. request[t] \in [step : {"checked"}, parts : Seq(Nat), problems : Problems]
    BY <1>1 DEF RequestState, Resting, At
  <1>3. /\ state \in [step : {"checked"}, parts : Seq(Nat), problems : Problems]
        /\ state.problems = request[t].problems
    <2> DEFINE r == request[t]
    <2>1. r \in [step : {"checked"}, parts : Seq(Nat), problems : Problems]
      BY <1>2
    <2> HIDE DEF r
    <2>2. Append(r.parts, rows) \in Seq(Nat)
      BY <2>1
    <2>3. [r EXCEPT !.parts = Append(r.parts, rows)]
             \in [step : {"checked"}, parts : Seq(Nat), problems : Problems]
      BY <2>1, <2>2
    <2>4. [r EXCEPT !.parts = Append(r.parts, rows)].problems = r.problems
      BY <2>1
    <2>5. QED
      BY <2>3, <2>4 DEF r
  <1>4. Becomes(t, state)
    BY DEF Becomes
  <1> HIDE DEF state
  <1>5. state \in RequestState /\ state.step = "checked"
    BY <1>3 DEF RequestState
  <1>6. /\ request' \in [Requests -> RequestState]
        /\ request'[t] = state
        /\ \A u \in Requests : u # t => request'[u] = request[u]
    BY <1>4, <1>5, Moves DEF ReadsInv
  <1>7. ReadsType' /\ CacheInv'
    BY <1>6 DEF ReadsInv, ReadsType, CacheInv, Visible
  <1>8. ASSUME NEW u \in Requests PROVE RequestInv(u)'
    BY <1>3, <1>5, <1>6 DEF ReadsInv, RequestInv, Holding, At, Visible
  <1>9. QED
    BY <1>7, <1>8 DEF ReadsInv

LEMMA ReadPartKeeps ==
    ASSUME ReadsInv, NEW t \in Requests, ReadPart(t)
    PROVE  ReadsInv'
  <1>1. Visible \in Nat
    BY ReadersAssumption DEF Visible, ReadsInv, ReadsType
  <1>2. QED
    BY <1>1, PartKeeps DEF ReadPart, ReadsInv, ReadsType

LEMMA ReadPartFailsKeeps ==
    ASSUME ReadsInv, NEW t \in Requests, ReadPartFails(t)
    PROVE  ReadsInv'
  <1>1. failures' \in Nat
    <2>1. failures \in Nat
      BY DEF ReadsInv, ReadsType
    <2>2. failures' = failures + 1
      BY DEF ReadPartFails
    <2>3. QED
      BY <2>1, <2>2
  <1>2. CASE NextPart(t) = "wallet rewards"
    BY <1>1, <1>2, PartKeeps DEF ReadPartFails
  <1>3. CASE NextPart(t) # "wallet rewards"
    BY <1>1, <1>3, EndKeeps DEF ReadPartFails
  <1>4. QED
    BY <1>2, <1>3

LEMMA AskHeadKeeps ==
    ASSUME ReadsInv, NEW t \in Requests, AskHead(t)
    PROVE  ReadsInv'
  <1> DEFINE state == Call(t, "head", request[t].parts, request[t].problems)
  <1>1. /\ request[t] \in RequestState /\ At(t, "checked") /\ Becomes(t, state)
        /\ UNCHANGED << backend, ledger, height, cache, raw, lock, listed, failures >>
    BY DEF AskHead, ReadsInv, ReadsType
  <1>2. request[t].parts \in Seq(Nat) /\ request[t].problems \in Problems
    BY <1>1 DEF RequestState, Resting, At
  <1>3. state \in RequestState /\ state.step = "call" /\ state.floor = listed
    BY <1>2 DEF Call, RequestState, ReadsInv, ReadsType, Tasks
  <1> HIDE DEF state
  <1>4. /\ request' \in [Requests -> RequestState]
        /\ request'[t] = state
        /\ \A u \in Requests : u # t => request'[u] = request[u]
    BY <1>1, <1>3, Moves DEF ReadsInv
  <1>5. ReadsType' /\ CacheInv'
    BY <1>1, <1>4 DEF ReadsInv, ReadsType, CacheInv, Visible
  <1>6. ASSUME NEW u \in Requests PROVE RequestInv(u)'
    BY <1>1, <1>3, <1>4 DEF ReadsInv, ReadsType, RequestInv, Holding, At, Visible
  <1>7. QED
    BY <1>5, <1>6 DEF ReadsInv

LEMMA ReadsInitInv == ReadsInit => ReadsInv
  <1> SUFFICES ASSUME ReadsInit PROVE ReadsInv
    OBVIOUS
  <1>1. Resting \in RequestState /\ Resting.step = "idle"
    BY DEF RequestState, Resting
  <1>2. /\ ledger \in Seq(Kinds \cup {"stage"}) /\ Len(ledger) = 1
        /\ height \in [Peers -> Nat] /\ height[OwnPeer] = 1
        /\ cache \in [rows : Nat, fresh : BOOLEAN]
        /\ request \in [Requests -> RequestState]
    BY <1>1, ReadersAssumption DEF ReadsInit
  <1>3. ReadsType /\ CacheInv
    BY <1>2 DEF ReadsInit, ReadsType, CacheInv, Visible
  <1>4. ASSUME NEW u \in Requests PROVE RequestInv(u)
    BY <1>1 DEF ReadsInit, RequestInv, Holding, At
  <1>5. QED
    BY <1>3, <1>4 DEF ReadsInv

LEMMA ReadsStutter == ReadsInv /\ UNCHANGED readVars => ReadsInv'
  <1> SUFFICES ASSUME ReadsInv, UNCHANGED readVars PROVE ReadsInv'
    OBVIOUS
  <1>1. ReadsType' /\ CacheInv'
    BY DEF ReadsInv, ReadsType, CacheInv, Visible, readVars
  <1>2. ASSUME NEW u \in Requests PROVE RequestInv(u)'
    BY DEF ReadsInv, RequestInv, Holding, At, Visible, readVars
  <1>3. QED
    BY <1>1, <1>2 DEF ReadsInv

LEMMA ReadsNextInv == ReadsInv /\ ReadsNext => ReadsInv'
  <1> SUFFICES ASSUME ReadsInv, ReadsNext PROVE ReadsInv'
    OBVIOUS
  <1>1. ASSUME NEW t \in Requests, Continue(t) PROVE ReadsInv'
    BY <1>1, AnswerLocallyKeeps, AnswerFromCacheKeeps, BeginFetchKeeps, EvaluateKeeps,
       SetCacheKeeps, CommitReplyKeeps, InvalidateKeeps, FinishKeeps, CheckKeeps,
       ReadPartKeeps, AskHeadKeeps DEF Continue
  <1>2. ASSUME NEW t \in Requests, Fail(t) PROVE ReadsInv'
    BY <1>2, FetchFailsKeeps, ReadPartFailsKeeps, LoseReplyKeeps DEF Fail
  <1>3. ASSUME NEW t \in Requests, NEW task \in {"list", "audit"}, BeginCall(t, task)
        PROVE  ReadsInv'
    BY <1>3, BeginCallKeeps DEF Tasks
  <1>4. ASSUME NEW t \in Requests, Ask(t) PROVE ReadsInv'
    BY <1>3, <1>4, AppendLocallyKeeps, SubmitKeeps DEF Ask
  <1>5. QED
    BY <1>1, <1>2, <1>4, DeliverKeeps, ExpireKeeps DEF ReadsNext, GoOn

(* The invariant of the reads, FabricLedger.all with its cache and lock.       *)
THEOREM ReadsInvariance == ReadsSpec => []ReadsInv
  BY ReadsInitInv, ReadsNextInv, ReadsStutter, PTL DEF ReadsSpec

(* A list of all events (FabricLedger.all) has everything an earlier list had, *)
(* and every event whose commit through the reader's peer was answered.         *)
THEOREM ListsMonotonic == ReadsSpec => []ListsNeverGoBack
  <1>1. ReadsInv => ListsNeverGoBack
    <2> SUFFICES ASSUME ReadsInv, NEW t \in Requests, At(t, "answered")
                 PROVE  request[t].rows >= request[t].floor
      BY DEF ListsNeverGoBack
    <2>1. request[t].rows \in Nat /\ request[t].floor \in Nat
      BY DEF At, ReadsInv, ReadsType, RequestState, Resting
    <2>2. QED
      BY <2>1 DEF ReadsInv, RequestInv
  <1>2. QED
    BY <1>1, ReadsInvariance, PTL

(* The only problem verify_chain reports of a sound ledger is that the agent    *)
(* was out of reach.                                                           *)
THEOREM AuditsAreRight == ReadsSpec => []AuditBlamesNoEvent
  <1>1. ReadsInv => AuditBlamesNoEvent
    BY DEF ReadsInv, RequestInv, AuditBlamesNoEvent
  <1>2. QED
    BY <1>1, ReadsInvariance, PTL
-----------------------------------------------------------------------------
(* Files.  The argument: the registry on disk is complete unless it is torn,  *)
(* and a torn one keeps the server down; memory has all of it since the start. *)
(* A key on disk is never replaced by another one.  Whoever holds the write   *)
(* lock finds the ledger and the registry as they were when it took it.  What  *)
(* was answered is on the file unless its end is torn, and all of the file is  *)
(* in memory.                                                                *)

Keys == 1 .. MaxKeys \cup {NoKey}
Registry == UNION {[orgs -> 1 .. MaxKeys] : orgs \in SUBSET (Clients \cup {Portal})}
Event == [id : Nat, artifact : Artifacts]
Disk == [registry : Registry, portalKey : Keys, oracleKey : Keys,
         ledger : Seq(Event), tail : {"ended", "bare", "torn"},
         artifacts : [Artifacts -> {"absent", "partial", "whole"}]]
Steps == {"down", "oracle key", "write oracle key", "portal", "save portal",
          "portal key", "write portal key", "up"}

FilesType ==
    /\ disk \in Disk
    /\ torn \subseteq Files
    /\ server \in Steps
    /\ registry \in Registry
    /\ nextKey \in Nat \ {0}
    /\ handlers = [h \in Handlers |-> handlers[h]]
    /\ acked \subseteq Clients \X (1 .. MaxKeys)
    /\ events \in Seq(Event)
    /\ nextEvent \in Nat

Knows(orgs, org, key) == org \in DOMAIN orgs /\ orgs[org] = key

RegistryInv ==
    \A entry \in acked :
        /\ "registry" \notin torn => Knows(disk.registry, entry[1], entry[2])
        /\ server # "down" => Knows(registry, entry[1], entry[2])

PortalInv ==
    /\ disk.portalKey # NoKey =>
           /\ "registry" \notin torn => Knows(disk.registry, Portal, disk.portalKey)
           /\ server # "down" => Knows(registry, Portal, disk.portalKey)
    /\ server \in {"save portal", "portal key", "write portal key", "up"} =>
           Portal \in DOMAIN registry
    /\ server \in {"portal key", "write portal key"} =>
           "registry" \notin torn /\ disk.registry = registry
    /\ server = "up" /\ signer # NoKey => registry[Portal] = signer

OracleInv ==
    /\ disk.oracleKey = NoKey => attested = {}
    /\ attested \subseteq {disk.oracleKey}
    /\ server = "write oracle key" => disk.oracleKey = NoKey
    /\ server \notin {"down", "oracle key", "write oracle key"} => disk.oracleKey # NoKey

EvidenceInv ==
    /\ refs \subseteq Stored
    /\ \A i \in 1 .. Len(disk.ledger) : disk.ledger[i].artifact \in refs

OnFile == {disk.ledger[i] : i \in 1 .. Len(disk.ledger)}

LedgerInv ==
    /\ disk.tail # "torn" => answered \subseteq OnFile
    /\ server # "down" => Len(disk.ledger) <= Len(events)

\* What an export has noted is still so.
Noted(names, summary) ==
    /\ Len(disk.ledger) <= summary.height
    /\ summary.acked \subseteq acked
    /\ summary.answered \subseteq answered
    /\ \A i \in 1 .. Len(disk.ledger) : disk.ledger[i].artifact \in names

Locks(h) == Doing(h, "save") \/ Doing(h, "hash") \/ Doing(h, "pack")

HandlerInv(h) ==
    /\ ~ Doing(h, "idle") => server = "up"
    /\ Locks(h) => writer = h
    /\ Doing(h, "save") =>
           /\ << handlers[h].org, handlers[h].key >> \in Clients \X (1 .. MaxKeys)
           /\ Knows(registry, handlers[h].org, handlers[h].key)
    /\ Doing(h, "upload") => handlers[h].artifact \in Stored
    /\ Doing(h, "hash") =>
           Noted(handlers[h].names, handlers[h].summary)
    /\ Doing(h, "pack") =>
           Noted(DOMAIN handlers[h].hashed.artifacts, handlers[h].summary)

FilesInv ==
    /\ FilesType
    /\ RegistryInv /\ PortalInv
    /\ OracleInv
    /\ EvidenceInv /\ LedgerInv
    /\ \A h \in Handlers : HandlerInv(h)
    /\ ArchiveComplete

LEMMA WithIs ==
    ASSUME NEW orgs \in Registry, NEW org \in Clients \cup {Portal}, NEW key \in 1 .. MaxKeys
    PROVE  /\ With(orgs, org, key) \in Registry
           /\ Knows(With(orgs, org, key), org, key)
           /\ \A o, k : o # org /\ Knows(orgs, o, k) => Knows(With(orgs, org, key), o, k)
  <1>1. PICK D \in SUBSET (Clients \cup {Portal}) : orgs \in [D -> 1 .. MaxKeys]
    BY DEF Registry
  <1>2. With(orgs, org, key) \in [D \cup {org} -> 1 .. MaxKeys]
    BY <1>1 DEF With
  <1>3. With(orgs, org, key) \in Registry
    BY <1>2 DEF Registry
  <1>4. QED
    BY <1>1, <1>3 DEF With, Knows

LEMMA NoOrgsIs == NoOrgs \in Registry
  BY DEF NoOrgs, Registry

LEMMA NextKeyIs ==
    ASSUME FilesType, nextKey <= MaxKeys
    PROVE  nextKey \in 1 .. MaxKeys /\ nextKey + 1 \in Nat \ {0} /\ nextKey # NoKey
  <1>1. nextKey \in Nat \ {0}
    BY DEF FilesType
  <1>2. nextKey \in 1 .. MaxKeys /\ nextKey + 1 \in Nat \ {0}
    BY <1>1, FilesAssumption
  <1>3. QED
    BY <1>2, FilesAssumption

(* A step of the start leaves what concerns requests as it is: there are none. *)
LEMMA NoRequests ==
    ASSUME FilesInv, server # "up", UNCHANGED requestVars,
           UNCHANGED << nextEvent, answered >>, disk'.ledger = disk.ledger,
           disk'.tail = disk.tail, disk'.artifacts = disk.artifacts,
           (events' = events /\ server # "down") \/ events' = disk.ledger
    PROVE  EvidenceInv' /\ LedgerInv' /\ (\A h \in Handlers : HandlerInv(h)') /\ ArchiveComplete'
  <1>1. UNCHANGED << writer, handlers, acked, refs, attested, archives >>
    BY DEF requestVars
  <1>2. EvidenceInv' /\ LedgerInv'
    BY <1>1 DEF FilesInv, FilesType, Disk, EvidenceInv, Stored, LedgerInv, OnFile
  <1>3. ASSUME NEW h \in Handlers PROVE HandlerInv(h)'
    <2>1. Doing(h, "idle")
      BY DEF FilesInv, HandlerInv
    <2>2. QED
      BY <1>1, <2>1 DEF HandlerInv, Doing, Locks
  <1>4. ArchiveComplete'
    BY <1>1 DEF FilesInv, ArchiveComplete, Restores
  <1>5. QED
    BY <1>2, <1>3, <1>4

LEMMA LoadFilesKeeps ==
    ASSUME FilesInv, LoadFiles
    PROVE  FilesInv'
  <1>1. /\ server = "down" /\ "registry" \notin torn
        /\ registry' = disk.registry /\ server' = "oracle key"
        /\ events' = disk.ledger
        /\ UNCHANGED << disk, torn, signer, nextKey, faults, requestVars, nextEvent,
                        answered >>
    BY DEF LoadFiles, RegistryReadable
  <1>2. EvidenceInv' /\ LedgerInv' /\ (\A h \in Handlers : HandlerInv(h)') /\ ArchiveComplete'
    BY <1>1, NoRequests
  <1>3. FilesType'
    BY <1>1 DEF FilesInv, FilesType, requestVars, Disk, Steps
  <1>4. RegistryInv' /\ PortalInv' /\ OracleInv'
    BY <1>1 DEF FilesInv, RegistryInv, PortalInv, OracleInv, requestVars
  <1>5. QED
    BY <1>2, <1>3, <1>4 DEF FilesInv

LEMMA OracleKeyKeeps ==
    ASSUME FilesInv, FindOracleKey \/ OpenOracleKey \/ WriteOracleKey
    PROVE  FilesInv'
  <1>1. /\ server \in {"oracle key", "write oracle key"}
        /\ server' \in {"write oracle key", "portal"}
        /\ UNCHANGED << registry, signer, faults, requestVars, events, nextEvent, answered >>
        /\ nextKey' \in Nat \ {0}
        /\ disk' \in Disk /\ disk'.registry = disk.registry
        /\ disk'.portalKey = disk.portalKey
        /\ disk'.ledger = disk.ledger /\ disk'.artifacts = disk.artifacts
        /\ disk'.tail = disk.tail
        /\ torn' \subseteq Files /\ ("registry" \in torn' <=> "registry" \in torn)
    <2>1. CASE FindOracleKey
      BY <2>1 DEF FindOracleKey, FilesInv, FilesType, eventVars
    <2>2. CASE OpenOracleKey
      BY <2>2 DEF OpenOracleKey, FilesInv, FilesType, Truncated, Files, eventVars
    <2>3. CASE WriteOracleKey
      <3>1. nextKey \in Keys /\ nextKey + 1 \in Nat \ {0}
        BY <2>3, NextKeyIs DEF WriteOracleKey, FilesInv, Keys
      <3>2. QED
        BY <2>3, <3>1 DEF WriteOracleKey, FilesInv, FilesType, Written, Files, Disk,
           eventVars
    <2>4. QED
      BY <2>1, <2>2, <2>3
  <1>2. EvidenceInv' /\ LedgerInv' /\ (\A h \in Handlers : HandlerInv(h)') /\ ArchiveComplete'
    BY <1>1, NoRequests
  <1>3. FilesType'
    BY <1>1 DEF FilesInv, FilesType, requestVars, Steps
  <1>4. RegistryInv' /\ PortalInv'
    BY <1>1 DEF FilesInv, RegistryInv, PortalInv, requestVars
  <1>5. OracleInv'
    <2>1. CASE FindOracleKey
      BY <2>1 DEF FindOracleKey, FilesInv, OracleInv, requestVars
    <2>2. CASE OpenOracleKey
      BY <2>2 DEF OpenOracleKey, FilesInv, OracleInv, requestVars
    <2>3. CASE WriteOracleKey
      <3>1. disk'.oracleKey = nextKey /\ nextKey # NoKey /\ server' = "portal"
        BY <2>3, NextKeyIs DEF WriteOracleKey, FilesInv, FilesType, Disk
      <3>2. attested' = {}
        BY <1>1, <2>3 DEF WriteOracleKey, FilesInv, OracleInv, requestVars
      <3>3. QED
        BY <3>1, <3>2 DEF OracleInv
    <2>4. QED
      BY <2>1, <2>2, <2>3
  <1>6. QED
    BY <1>2, <1>3, <1>4, <1>5 DEF FilesInv

LEMMA PortalKeeps ==
    ASSUME FilesInv,
           FindPortal \/ RegisterPortal \/ SavePortal \/ OpenPortalKey \/ WritePortalKey
    PROVE  FilesInv'
  <1>1. /\ server \in {"portal", "save portal", "portal key", "write portal key"}
        /\ server' \in {"save portal", "portal key", "write portal key", "up"}
        /\ UNCHANGED << faults, requestVars, events, nextEvent, answered >>
    BY DEF FindPortal, RegisterPortal, SavePortal, OpenPortalKey, WritePortalKey, eventVars
  <1>2. /\ disk' \in Disk /\ disk'.oracleKey = disk.oracleKey
        /\ disk'.ledger = disk.ledger /\ disk'.artifacts = disk.artifacts
        /\ disk'.tail = disk.tail
        /\ torn' \subseteq Files /\ registry' \in Registry /\ nextKey' \in Nat \ {0}
    <2>1. CASE FindPortal
      BY <2>1 DEF FindPortal, FilesInv, FilesType
    <2>2. CASE RegisterPortal
      <3>1. nextKey \in 1 .. MaxKeys /\ nextKey + 1 \in Nat \ {0}
        BY <2>2, NextKeyIs DEF RegisterPortal, FilesInv
      <3>2. registry' \in Registry
        BY <2>2, <3>1, WithIs DEF RegisterPortal, FilesInv, FilesType
      <3>3. QED
        BY <2>2, <3>1, <3>2, NoOrgsIs DEF RegisterPortal, FilesInv, FilesType, Truncated,
           Files, Disk
    <2>3. CASE SavePortal
      BY <2>3 DEF SavePortal, FilesInv, FilesType, Written, Files, Disk
    <2>4. CASE OpenPortalKey
      BY <2>4 DEF OpenPortalKey, FilesInv, FilesType, Truncated, Files, Disk, Keys
    <2>5. CASE WritePortalKey
      <3>1. registry[Portal] \in Keys
        <4>1. registry \in Registry /\ Portal \in DOMAIN registry
          BY <2>5 DEF WritePortalKey, FilesInv, FilesType, PortalInv
        <4>2. QED
          BY <4>1 DEF Registry, Keys
      <3>2. QED
        BY <2>5, <3>1 DEF WritePortalKey, FilesInv, FilesType, Written, Files, Disk
    <2>6. QED
      BY <2>1, <2>2, <2>3, <2>4, <2>5
  <1>3. EvidenceInv' /\ LedgerInv' /\ (\A h \in Handlers : HandlerInv(h)') /\ ArchiveComplete'
    BY <1>1, <1>2, NoRequests
  <1>4. FilesType'
    BY <1>1, <1>2 DEF FilesInv, FilesType, requestVars, Steps
  <1>5. OracleInv'
    BY <1>1, <1>2 DEF FilesInv, OracleInv, requestVars
  <1>6. RegistryInv' /\ PortalInv'
    <2>1. CASE FindPortal
      BY <1>1, <2>1 DEF FindPortal, SignerFound, FilesInv, RegistryInv, PortalInv,
         requestVars, Knows
    <2>2. CASE RegisterPortal
      <3>1. nextKey \in 1 .. MaxKeys /\ nextKey + 1 \in Nat \ {0}
        BY <2>2, NextKeyIs DEF RegisterPortal, FilesInv
      <3>2. /\ Portal \in DOMAIN registry'
            /\ \A o, k : o # Portal /\ Knows(registry, o, k) => Knows(registry', o, k)
        <4>1. registry \in Registry /\ registry' = With(registry, Portal, nextKey)
          BY <2>2 DEF RegisterPortal, FilesInv, FilesType
        <4>2. Knows(registry', Portal, nextKey)
          BY <3>1, <4>1, WithIs
        <4>3. \A o, k : o # Portal /\ Knows(registry, o, k) => Knows(registry', o, k)
          BY <3>1, <4>1, WithIs
        <4>4. QED
          BY <4>2, <4>3 DEF Knows
      <3>3. /\ disk'.portalKey = disk.portalKey /\ "registry" \in torn'
            /\ server' = "save portal" /\ server = "portal" /\ Portal \notin DOMAIN registry
        BY <2>2 DEF RegisterPortal, FilesInv, FilesType, Disk, Truncated
      <3>4. disk.portalKey = NoKey
        BY <3>3 DEF FilesInv, PortalInv, Knows
      <3>5. RegistryInv'
        BY <1>1, <3>2, <3>3 DEF FilesInv, RegistryInv, Knows, requestVars
      <3>6. QED
        BY <3>2, <3>3, <3>4, <3>5 DEF PortalInv
    <2>3. CASE SavePortal
      <3>1. /\ disk'.portalKey = disk.portalKey /\ disk'.registry = registry
            /\ registry' = registry /\ "registry" \notin torn'
            /\ server = "save portal" /\ server' = "portal key"
        BY <2>3 DEF SavePortal, FilesInv, FilesType, Disk, Written
      <3>2. QED
        BY <1>1, <3>1 DEF FilesInv, RegistryInv, PortalInv, requestVars
    <2>4. CASE OpenPortalKey
      <3>1. /\ disk'.portalKey = NoKey /\ disk'.registry = disk.registry
            /\ registry' = registry /\ ("registry" \in torn' <=> "registry" \in torn)
            /\ server = "portal key" /\ server' = "write portal key"
        BY <2>4 DEF OpenPortalKey, FilesInv, FilesType, Disk, Truncated
      <3>2. QED
        BY <1>1, <3>1 DEF FilesInv, RegistryInv, PortalInv, requestVars
    <2>5. CASE WritePortalKey
      <3>1. /\ disk'.portalKey = registry[Portal] /\ disk'.registry = disk.registry
            /\ registry' = registry /\ ("registry" \in torn' <=> "registry" \in torn)
            /\ server = "write portal key" /\ server' = "up" /\ signer' = registry[Portal]
        BY <2>5 DEF WritePortalKey, FilesInv, FilesType, Disk, Written
      <3>2. QED
        BY <1>1, <3>1 DEF FilesInv, RegistryInv, PortalInv, Knows, requestVars
    <2>6. QED
      BY <2>1, <2>2, <2>3, <2>4, <2>5
  <1>7. QED
    BY <1>3, <1>4, <1>5, <1>6 DEF FilesInv

LEMMA CrashKeeps ==
    ASSUME FilesInv, Crash
    PROVE  FilesInv'
  <1>1. /\ server' = "down" /\ registry' = NoOrgs
        /\ handlers' = [h \in Handlers |-> Unoccupied]
        /\ events' = << >>
        /\ UNCHANGED << disk, torn, nextKey, acked, refs, attested, archives, nextEvent,
                        answered >>
    BY DEF Crash
  <1>2. FilesType'
    <2>1. events' \in Seq(Event)
      BY <1>1
    <2>2. QED
      BY <1>1, <2>1, NoOrgsIs DEF FilesInv, FilesType, Steps
  <1>3. RegistryInv' /\ PortalInv' /\ OracleInv' /\ EvidenceInv' /\ LedgerInv'
    BY <1>1 DEF FilesInv, RegistryInv, PortalInv, OracleInv, EvidenceInv, Stored,
       LedgerInv, OnFile
  <1>4. ASSUME NEW h \in Handlers PROVE HandlerInv(h)'
    BY <1>1 DEF HandlerInv, Doing, Locks, Unoccupied
  <1>5. ArchiveComplete'
    BY <1>1 DEF FilesInv, ArchiveComplete, Restores
  <1>6. QED
    BY <1>2, <1>3, <1>4, <1>5 DEF FilesInv

(* What a request does to the handlers. *)
LEMMA Proceeds ==
    ASSUME FilesType, NEW h \in Handlers, NEW call, Proceed(h, call)
    PROVE  /\ handlers' = [g \in Handlers |-> handlers'[g]]
           /\ handlers'[h] = call
           /\ \A g \in Handlers : g # h => handlers'[g] = handlers[g]
  BY DEF FilesType, Proceed

(* A request that does not change the registry, the keys or the answers given. *)
LEMMA KeysUntouched ==
    ASSUME FilesInv, UNCHANGED << torn, server, registry, signer >>,
           disk'.registry = disk.registry, disk'.portalKey = disk.portalKey,
           disk'.oracleKey = disk.oracleKey, UNCHANGED acked,
           attested' \subseteq attested \cup {disk.oracleKey}, server = "up"
    PROVE  RegistryInv' /\ PortalInv' /\ OracleInv'
  BY DEF FilesInv, RegistryInv, PortalInv, OracleInv

LEMMA RegisterOrgKeeps ==
    ASSUME FilesInv, NEW h \in Handlers, NEW org \in Clients, RegisterOrg(h, org)
    PROVE  FilesInv'
  <1> DEFINE call == [step |-> "save", org |-> org, key |-> nextKey]
  <1>1. /\ server = "up" /\ writer = Nobody /\ writer' = h /\ Proceed(h, call)
        /\ "registry" \in torn' /\ torn' \subseteq Files
        /\ UNCHANGED << server, signer, faults, acked, refs, attested, archives >>
        /\ UNCHANGED << events, nextEvent, answered >>
    BY DEF RegisterOrg, Truncated, FilesInv, FilesType, Files, eventVars
  <1>2. nextKey \in 1 .. MaxKeys /\ nextKey' \in Nat \ {0}
    BY NextKeyIs DEF RegisterOrg, FilesInv
  <1>3. /\ disk' \in Disk /\ disk'.portalKey = disk.portalKey
        /\ disk'.oracleKey = disk.oracleKey /\ disk'.ledger = disk.ledger
        /\ disk'.artifacts = disk.artifacts /\ disk'.tail = disk.tail
    BY NoOrgsIs DEF RegisterOrg, FilesInv, FilesType, Disk
  <1>4. registry \in Registry /\ registry' = With(registry, org, nextKey)
        /\ org \notin DOMAIN registry /\ org # Portal
    BY FilesAssumption DEF RegisterOrg, FilesInv, FilesType
  <1>5. /\ registry' \in Registry /\ Knows(registry', org, nextKey)
        /\ \A o, k : o # org /\ Knows(registry, o, k) => Knows(registry', o, k)
    BY <1>2, <1>4, WithIs
  <1>6. \A o, k : Knows(registry, o, k) => Knows(registry', o, k)
    BY <1>4, <1>5 DEF Knows
  <1>7. /\ handlers' = [g \in Handlers |-> handlers'[g]]
        /\ handlers'[h] = call
        /\ \A g \in Handlers : g # h => handlers'[g] = handlers[g]
    BY <1>1, Proceeds DEF FilesInv
  <1>8. FilesType'
    BY <1>1, <1>2, <1>3, <1>5, <1>7 DEF FilesInv, FilesType
  <1>9. RegistryInv'
    BY <1>1, <1>6 DEF FilesInv, RegistryInv
  <1>10. PortalInv'
    <2>1. Portal \in DOMAIN registry' /\ registry'[Portal] = registry[Portal]
      BY <1>1, <1>6 DEF FilesInv, PortalInv, Knows
    <2>2. disk.portalKey # NoKey => Knows(registry', Portal, disk.portalKey)
      BY <1>1, <1>6 DEF FilesInv, PortalInv
    <2>3. QED
      BY <1>1, <1>3, <2>1, <2>2 DEF FilesInv, PortalInv
  <1>11. OracleInv' /\ EvidenceInv' /\ LedgerInv' /\ ArchiveComplete'
    BY <1>1, <1>3 DEF FilesInv, OracleInv, EvidenceInv, Stored, LedgerInv, OnFile,
       ArchiveComplete, Restores
  <1>12. ASSUME NEW g \in Handlers PROVE HandlerInv(g)'
    <2>1. CASE g = h
      BY <1>1, <1>2, <1>5, <1>7, <2>1 DEF HandlerInv, Doing, Locks
    <2>2. CASE g # h
      <3>1. ~ Locks(g)
        BY <1>1, FilesAssumption DEF FilesInv, HandlerInv
      <3>2. QED
        BY <1>1, <1>3, <1>7, <2>2, <3>1 DEF FilesInv, HandlerInv, Doing, Locks, Stored
    <2>3. QED
      BY <2>1, <2>2
  <1>13. QED
    BY <1>8, <1>9, <1>10, <1>11, <1>12 DEF FilesInv

LEMMA SaveRegistryKeeps ==
    ASSUME FilesInv, NEW h \in Handlers, SaveRegistry(h)
    PROVE  FilesInv'
  <1> DEFINE entry == << handlers[h].org, handlers[h].key >>
  <1>1. /\ server = "up" /\ writer' = Nobody /\ Proceed(h, Unoccupied) /\ writer = h
        /\ torn' \subseteq Files
        /\ UNCHANGED << server, registry, signer, nextKey, faults, refs, attested, archives >>
        /\ UNCHANGED << events, nextEvent, answered >>
        /\ acked' = acked \cup {entry}
        /\ entry \in Clients \X (1 .. MaxKeys) /\ Knows(registry, entry[1], entry[2])
    BY DEF SaveRegistry, Written, FilesInv, FilesType, HandlerInv, Doing, Locks, eventVars
  <1> HIDE DEF entry
  <1>2. /\ disk' \in Disk /\ disk'.portalKey = disk.portalKey
        /\ disk'.registry = registry
        /\ disk'.oracleKey = disk.oracleKey /\ disk'.ledger = disk.ledger
        /\ disk'.artifacts = disk.artifacts /\ disk'.tail = disk.tail
    BY DEF SaveRegistry, FilesInv, FilesType, Disk
  <1>3. /\ handlers' = [g \in Handlers |-> handlers'[g]]
        /\ handlers'[h] = Unoccupied
        /\ \A g \in Handlers : g # h => handlers'[g] = handlers[g]
    BY <1>1, Proceeds DEF FilesInv
  <1>4. FilesType'
    BY <1>1, <1>2, <1>3 DEF FilesInv, FilesType
  <1>5. RegistryInv'
    BY <1>1, <1>2 DEF FilesInv, RegistryInv
  <1>6. PortalInv' /\ OracleInv' /\ EvidenceInv' /\ LedgerInv' /\ ArchiveComplete'
    BY <1>1, <1>2 DEF FilesInv, PortalInv, OracleInv, EvidenceInv, Stored, LedgerInv,
       OnFile, ArchiveComplete, Restores
  <1>7. ASSUME NEW g \in Handlers PROVE HandlerInv(g)'
    <2>1. CASE g = h
      BY <1>1, <1>3, <2>1 DEF HandlerInv, Doing, Locks, Unoccupied
    <2>2. CASE g # h
      <3>1. ~ Locks(g)
        BY <1>1, <2>2 DEF FilesInv, HandlerInv
      <3>2. QED
        BY <1>1, <1>2, <1>3, <2>2, <3>1 DEF FilesInv, HandlerInv, Doing, Locks, Stored
    <2>3. QED
      BY <2>1, <2>2
  <1>8. QED
    BY <1>4, <1>5, <1>6, <1>7 DEF FilesInv

LEMMA SaveFailsKeeps ==
    ASSUME FilesInv, NEW h \in Handlers, SaveFails(h)
    PROVE  FilesInv'
  <1>1. /\ server = "up" /\ writer' = Nobody /\ Proceed(h, Unoccupied) /\ writer = h
        /\ UNCHANGED << disk, torn, server, registry, signer, nextKey, acked, refs,
                        attested, archives, events, nextEvent, answered >>
    BY DEF SaveFails, FilesInv, HandlerInv, Doing, Locks, eventVars
  <1>2. /\ handlers' = [g \in Handlers |-> handlers'[g]]
        /\ handlers'[h] = Unoccupied
        /\ \A g \in Handlers : g # h => handlers'[g] = handlers[g]
    BY <1>1, Proceeds DEF FilesInv
  <1>3. FilesType'
    BY <1>1, <1>2 DEF FilesInv, FilesType
  <1>4. RegistryInv' /\ PortalInv' /\ OracleInv'
    BY <1>1 DEF FilesInv, RegistryInv, PortalInv, OracleInv
  <1>5. EvidenceInv' /\ LedgerInv' /\ ArchiveComplete'
    BY <1>1 DEF FilesInv, EvidenceInv, Stored, LedgerInv, OnFile, ArchiveComplete, Restores
  <1>6. ASSUME NEW g \in Handlers PROVE HandlerInv(g)'
    <2>1. CASE g = h
      BY <1>2, <2>1 DEF HandlerInv, Doing, Locks, Unoccupied
    <2>2. CASE g # h
      <3>1. ~ Locks(g)
        BY <1>1, <2>2 DEF FilesInv, HandlerInv
      <3>2. QED
        BY <1>1, <1>2, <2>2, <3>1 DEF FilesInv, HandlerInv, Doing, Locks, Stored
    <2>3. QED
      BY <2>1, <2>2
  <1>7. QED
    BY <1>3, <1>4, <1>5, <1>6 DEF FilesInv

(* An artifact gets a file, or a whole one, and no file goes.                *)
LEMMA ArtifactKeeps ==
    ASSUME FilesInv, NEW h \in Handlers, NEW a \in Artifacts, NEW call,
           NEW status \in {"partial", "whole"}, server = "up",
           disk' = [disk EXCEPT !.artifacts[a] = status], Proceed(h, call),
           ~ Locks(h),
           \/ call = Unoccupied
           \/ call.step = "upload" /\ call.artifact = a,
           refs' \subseteq refs \cup {a}, refs \subseteq refs',
           attested' \subseteq attested \cup {disk.oracleKey},
           UNCHANGED << torn, server, registry, signer, nextKey, writer, acked, archives,
                        events, nextEvent, answered >>
    PROVE  FilesInv'
  <1>1. /\ disk' \in Disk /\ disk'.registry = disk.registry
        /\ disk'.portalKey = disk.portalKey /\ disk'.oracleKey = disk.oracleKey
        /\ disk'.ledger = disk.ledger /\ disk'.tail = disk.tail
        /\ Stored \subseteq Stored' /\ a \in Stored'
    BY DEF FilesInv, FilesType, Disk, Stored
  <1>2. /\ handlers' = [g \in Handlers |-> handlers'[g]]
        /\ handlers'[h] = call
        /\ \A g \in Handlers : g # h => handlers'[g] = handlers[g]
    BY Proceeds DEF FilesInv
  <1>3. FilesType'
    BY <1>1, <1>2 DEF FilesInv, FilesType
  <1>4. RegistryInv' /\ PortalInv' /\ OracleInv'
    BY <1>1, KeysUntouched
  <1>5. EvidenceInv' /\ LedgerInv' /\ ArchiveComplete'
    BY <1>1 DEF FilesInv, EvidenceInv, LedgerInv, OnFile, ArchiveComplete, Restores
  <1>6. ASSUME NEW g \in Handlers PROVE HandlerInv(g)'
    <2>1. CASE g = h
      BY <1>1, <1>2, <2>1 DEF HandlerInv, Doing, Locks, Unoccupied
    <2>2. CASE g # h
      BY <1>1, <1>2, <2>2 DEF FilesInv, HandlerInv, Doing, Locks, Noted
    <2>3. QED
      BY <2>1, <2>2
  <1>7. QED
    BY <1>3, <1>4, <1>5, <1>6 DEF FilesInv

LEMMA UploadKeeps ==
    ASSUME FilesInv, NEW h \in Handlers, NEW a \in Artifacts, NEW source,
           OpenArtifact(h, a, source)
    PROVE  FilesInv'
  BY ArtifactKeeps DEF OpenArtifact, Doing, Locks, eventVars

LEMMA WriteArtifactKeeps ==
    ASSUME FilesInv, NEW h \in Handlers, WriteArtifact(h)
    PROVE  FilesInv'
  <1>1. handlers[h].artifact \in Artifacts /\ server = "up" /\ ~ Locks(h)
    BY DEF WriteArtifact, FilesInv, HandlerInv, Doing, Locks, Stored
  <1> DEFINE a == handlers[h].artifact
  <1>2. /\ disk' = [disk EXCEPT !.artifacts[a] = "whole"] /\ Proceed(h, Unoccupied)
        /\ refs' \subseteq refs \cup {a} /\ refs \subseteq refs'
        /\ attested' \subseteq attested \cup {disk.oracleKey}
        /\ UNCHANGED << torn, server, registry, signer, nextKey, writer, acked, archives,
                        events, nextEvent, answered >>
    BY DEF WriteArtifact, Attest, eventVars
  <1>3. QED
    BY <1>1, <1>2, ArtifactKeeps

(* A line that does not fit the end of the file leaves the ledger as it was.  *)
LEMMA WriteLineIs ==
    ASSUME FilesType, NEW event \in Event, NEW end \in {"ended", "bare", "torn"}
    PROVE  LET written == WriteLine(event, end)
           IN  /\ written \in Disk /\ written.registry = disk.registry
               /\ written.portalKey = disk.portalKey
               /\ written.oracleKey = disk.oracleKey
               /\ written.artifacts = disk.artifacts
               /\ \/ written.ledger = disk.ledger /\ written.tail = "torn"
                  \/ written.ledger = Append(disk.ledger, event) /\ disk.tail # "torn"
               /\ end = "ended" /\ written.tail # "torn" =>
                      written.ledger = Append(disk.ledger, event)
  <1>1. disk \in Disk /\ disk.ledger \in Seq(Event)
    BY DEF FilesType, Disk
  <1> DEFINE longer == Append(disk.ledger, event)
  <1>2. longer \in Seq(Event)
    BY <1>1
  <1>3. CASE disk.tail = "ended" /\ end # "torn"
    <2>1. WriteLine(event, end) = [disk EXCEPT !.ledger = longer, !.tail = end]
      BY <1>3 DEF WriteLine
    <2> HIDE DEF longer
    <2>2. QED
      BY <1>1, <1>2, <1>3, <2>1 DEF Disk, longer
  <1>4. CASE ~ (disk.tail = "ended" /\ end # "torn")
    <2>1. WriteLine(event, end) = [disk EXCEPT !.tail = "torn"]
      BY <1>4 DEF WriteLine
    <2>2. QED
      BY <1>1, <2>1 DEF Disk
  <1>5. QED
    BY <1>3, <1>4

(* An event goes into memory, and the file gets it, nothing, or a torn end;   *)
(* if it is answered, it is on the file or the end is torn.                   *)
LEMMA RecordKeeps ==
    ASSUME FilesInv, NEW a \in Artifacts, Record(a), NEW event,
           event = [id |-> nextEvent, artifact |-> a],
           disk' \in Disk, disk'.registry = disk.registry,
           disk'.portalKey = disk.portalKey, disk'.oracleKey = disk.oracleKey,
           disk'.artifacts = disk.artifacts,
           \/ disk'.ledger = disk.ledger /\ disk'.tail \in {disk.tail, "torn"}
           \/ disk'.ledger = Append(disk.ledger, event) /\ disk.tail # "torn",
           answered' \subseteq answered \cup {event},
           event \in answered' /\ disk'.tail # "torn" =>
               disk'.ledger = Append(disk.ledger, event) \/ event \in answered
    PROVE  FilesInv'
  <1>1. /\ server = "up" /\ writer = Nobody /\ a \in refs
        /\ events' = Append(events, event) /\ nextEvent' = nextEvent + 1
        /\ UNCHANGED << torn, server, registry, signer, nextKey, writer, handlers, acked,
                        refs, attested, archives >>
    BY DEF Record, requestVars
  <1>2. /\ event \in Event /\ event.artifact = a /\ events \in Seq(Event)
        /\ disk.ledger \in Seq(Event) /\ nextEvent \in Nat
    BY DEF FilesInv, FilesType, Disk, Event
  <1>3. FilesType'
    BY <1>1, <1>2 DEF FilesInv, FilesType
  <1>4. RegistryInv' /\ PortalInv' /\ OracleInv'
    BY <1>1, KeysUntouched
  <1>5. EvidenceInv'
    <2>1. Stored' = Stored
      BY DEF Stored
    <2>2. CASE disk'.ledger = disk.ledger
      BY <1>1, <2>1, <2>2 DEF FilesInv, EvidenceInv
    <2>3. CASE disk'.ledger = Append(disk.ledger, event)
      BY <1>1, <1>2, <2>1, <2>3 DEF FilesInv, EvidenceInv
    <2>4. QED
      BY <2>2, <2>3
  <1>6. LedgerInv'
    <2>1. Len(disk'.ledger) <= Len(events')
      BY <1>1, <1>2 DEF FilesInv, LedgerInv
    <2>2. ASSUME disk'.tail # "torn" PROVE answered' \subseteq OnFile'
      <3>1. answered \subseteq OnFile
        BY <2>2 DEF FilesInv, LedgerInv
      <3>2. CASE disk'.ledger = disk.ledger
        <4>1. OnFile' = OnFile
          BY <3>2 DEF OnFile
        <4>2. disk'.ledger # Append(disk.ledger, event)
          BY <1>2, <3>2
        <4>3. QED
          BY <2>2, <3>1, <4>1, <4>2
      <3>3. CASE disk'.ledger = Append(disk.ledger, event)
        <4> DEFINE longer == Append(disk.ledger, event)
                   n == Len(disk.ledger)
        <4>1. /\ n \in Nat /\ Len(longer) = n + 1 /\ longer[n + 1] = event
              /\ \A i \in 1 .. n : longer[i] = disk.ledger[i]
          BY <1>2
        <4>2. OnFile' = {longer[i] : i \in 1 .. Len(longer)}
          BY <3>3 DEF OnFile
        <4>3. OnFile = {disk.ledger[i] : i \in 1 .. n}
          BY DEF OnFile
        <4> HIDE DEF longer, n
        <4>4. n + 1 \in 1 .. Len(longer) /\ 1 .. n \subseteq 1 .. Len(longer)
          BY <4>1
        <4>5. OnFile \subseteq OnFile' /\ event \in OnFile'
          BY <4>1, <4>2, <4>3, <4>4
        <4>6. QED
          BY <3>1, <4>5
      <3>4. QED
        BY <3>2, <3>3
    <2>3. QED
      BY <2>1, <2>2 DEF LedgerInv
  <1>7. ArchiveComplete'
    BY <1>1 DEF FilesInv, ArchiveComplete, Restores
  <1>8. ASSUME NEW g \in Handlers PROVE HandlerInv(g)'
    <2>1. ~ Locks(g)
      BY <1>1, FilesAssumption DEF FilesInv, HandlerInv
    <2>2. QED
      BY <1>1, <2>1 DEF FilesInv, HandlerInv, Doing, Locks, Stored
  <1>9. QED
    BY <1>3, <1>4, <1>5, <1>6, <1>7, <1>8 DEF FilesInv

LEMMA AppendEventKeeps ==
    ASSUME FilesInv, NEW a \in Artifacts, AppendEvent(a)
    PROVE  FilesInv'
  <1> DEFINE event == [id |-> nextEvent, artifact |-> a]
  <1>1. event \in Event
    BY DEF Event, FilesInv, FilesType
  <1>2. /\ Record(a) /\ disk' = WriteLine(event, "ended")
        /\ answered' = answered \cup {event}
    BY DEF AppendEvent
  <1> HIDE DEF event
  <1>3. /\ disk' \in Disk /\ disk'.registry = disk.registry
        /\ disk'.portalKey = disk.portalKey /\ disk'.oracleKey = disk.oracleKey
        /\ disk'.artifacts = disk.artifacts
        /\ \/ disk'.ledger = disk.ledger /\ disk'.tail = "torn"
           \/ disk'.ledger = Append(disk.ledger, event) /\ disk.tail # "torn"
        /\ disk'.tail # "torn" => disk'.ledger = Append(disk.ledger, event)
    BY <1>1, <1>2, WriteLineIs DEF FilesInv
  <1>4. QED
    BY <1>2, <1>3, RecordKeeps DEF event

LEMMA AppendFailsKeeps ==
    ASSUME FilesInv, NEW a \in Artifacts, AppendFails(a)
    PROVE  FilesInv'
  <1> DEFINE event == [id |-> nextEvent, artifact |-> a]
  <1>1. event \in Event /\ disk \in Disk
    BY DEF Event, FilesInv, FilesType
  <1>2. /\ Record(a) /\ answered' = answered
        /\ disk' \in {disk, WriteLine(event, "bare"), WriteLine(event, "torn")}
    BY DEF AppendFails
  <1> HIDE DEF event
  <1>3. /\ disk' \in Disk /\ disk'.registry = disk.registry
        /\ disk'.portalKey = disk.portalKey /\ disk'.oracleKey = disk.oracleKey
        /\ disk'.artifacts = disk.artifacts
        /\ \/ disk'.ledger = disk.ledger /\ disk'.tail \in {disk.tail, "torn"}
           \/ disk'.ledger = Append(disk.ledger, event) /\ disk.tail # "torn"
    <2>1. CASE disk' = disk
      BY <1>1, <2>1
    <2>2. CASE disk' = WriteLine(event, "bare")
      BY <1>1, <2>2, WriteLineIs DEF FilesInv
    <2>3. CASE disk' = WriteLine(event, "torn")
      BY <1>1, <2>3, WriteLineIs DEF FilesInv
    <2>4. QED
      BY <1>2, <2>1, <2>2, <2>3
  <1>4. QED
    BY <1>2, <1>3, RecordKeeps DEF event

LEMMA BeginExportKeeps ==
    ASSUME FilesInv, NEW h \in Handlers, BeginExport(h)
    PROVE  FilesInv'
  <1> DEFINE call == [step |-> "hash", names |-> Stored, summary |-> Summary]
  <1>1. /\ server = "up" /\ writer = Nobody /\ writer' = h /\ Proceed(h, call)
        /\ UNCHANGED << disk, torn, server, registry, signer, nextKey, faults, acked,
                        refs, attested, archives, events, nextEvent, answered >>
    BY DEF BeginExport, Holder, startVars, eventVars
  <1>2. Noted(Stored, Summary)
    BY <1>1 DEF FilesInv, EvidenceInv, LedgerInv, Noted, Summary
  <1>3. /\ handlers' = [g \in Handlers |-> handlers'[g]]
        /\ handlers'[h] = call
        /\ \A g \in Handlers : g # h => handlers'[g] = handlers[g]
    BY <1>1, Proceeds DEF FilesInv
  <1>4. FilesType'
    BY <1>1, <1>3 DEF FilesInv, FilesType
  <1>5. RegistryInv' /\ PortalInv' /\ OracleInv'
    BY <1>1, KeysUntouched
  <1>6. EvidenceInv' /\ LedgerInv' /\ ArchiveComplete'
    BY <1>1 DEF FilesInv, EvidenceInv, Stored, LedgerInv, OnFile, ArchiveComplete, Restores
  <1>7. ASSUME NEW g \in Handlers PROVE HandlerInv(g)'
    <2>1. CASE g = h
      <3>1. call.step = "hash" /\ call.names = Stored /\ call.summary = Summary
        OBVIOUS
      <3> HIDE DEF call
      <3>2. QED
        BY <1>1, <1>2, <1>3, <2>1, <3>1 DEF HandlerInv, Doing, Locks, Noted
    <2>2. CASE g # h
      <3>1. ~ Locks(g)
        BY <1>1, FilesAssumption DEF FilesInv, HandlerInv
      <3>2. QED
        BY <1>1, <1>3, <2>2, <3>1 DEF FilesInv, HandlerInv, Doing, Locks, Stored
    <2>3. QED
      BY <2>1, <2>2
  <1>8. QED
    BY <1>4, <1>5, <1>6, <1>7 DEF FilesInv

LEMMA HashFilesKeeps ==
    ASSUME FilesInv, NEW h \in Handlers, HashFiles(h)
    PROVE  FilesInv'
  <1> DEFINE contents == Contents(handlers[h].names)
             call == [step |-> "pack", summary |-> handlers[h].summary,
                      hashed |-> contents]
  <1>1. /\ server = "up" /\ writer = h /\ Proceed(h, call)
        /\ Noted(handlers[h].names, handlers[h].summary)
        /\ UNCHANGED << disk, torn, server, registry, signer, nextKey, faults, writer,
                        acked, refs, attested, archives, events, nextEvent, answered >>
    BY DEF HashFiles, startVars, eventVars, FilesInv, HandlerInv, Doing, Locks
  <1>2. /\ call.step = "pack" /\ call.summary = handlers[h].summary
        /\ DOMAIN call.hashed.artifacts = handlers[h].names
    BY DEF Contents
  <1> HIDE DEF call
  <1>3. /\ handlers' = [g \in Handlers |-> handlers'[g]]
        /\ handlers'[h] = call
        /\ \A g \in Handlers : g # h => handlers'[g] = handlers[g]
    BY <1>1, Proceeds DEF FilesInv
  <1>4. FilesType'
    BY <1>1, <1>3 DEF FilesInv, FilesType
  <1>5. RegistryInv' /\ PortalInv' /\ OracleInv'
    BY <1>1, KeysUntouched
  <1>6. EvidenceInv' /\ LedgerInv' /\ ArchiveComplete'
    BY <1>1 DEF FilesInv, EvidenceInv, Stored, LedgerInv, OnFile, ArchiveComplete, Restores
  <1>7. ASSUME NEW g \in Handlers PROVE HandlerInv(g)'
    <2>1. CASE g = h
      BY <1>1, <1>2, <1>3, <2>1 DEF HandlerInv, Doing, Locks, Noted
    <2>2. CASE g # h
      BY <1>1, <1>3, <2>2 DEF FilesInv, HandlerInv, Doing, Locks, Stored, Noted
    <2>3. QED
      BY <2>1, <2>2
  <1>8. QED
    BY <1>4, <1>5, <1>6, <1>7 DEF FilesInv

(* The archive is what the export noted: nothing was appended meanwhile.       *)
LEMMA PackFilesKeeps ==
    ASSUME FilesInv, NEW h \in Handlers, PackFiles(h)
    PROVE  FilesInv'
  <1> DEFINE call == handlers[h]
             names == DOMAIN call.hashed.artifacts
             archive == [summary |-> call.summary, hashed |-> call.hashed,
                         packed |-> Contents(names)]
  <1>1. /\ server = "up" /\ writer = h /\ writer' = Nobody /\ Proceed(h, Unoccupied)
        /\ Noted(names, call.summary)
        /\ archives' = archives \cup {archive}
        /\ UNCHANGED << disk, torn, server, registry, signer, nextKey, faults,
                        acked, refs, attested, events, nextEvent, answered >>
    BY DEF PackFiles, startVars, eventVars, FilesInv, HandlerInv, Doing, Locks
  <1>2. /\ archive.packed.ledger = disk.ledger /\ archive.packed.registry = disk.registry
        /\ archive.packed.torn = ("registry" \in torn)
        /\ archive.packed.tail = disk.tail
        /\ DOMAIN archive.packed.artifacts = names
        /\ archive.summary = call.summary
    BY DEF Contents
  <1> HIDE DEF archive, names, call
  <1>3. /\ handlers' = [g \in Handlers |-> handlers'[g]]
        /\ handlers'[h] = Unoccupied
        /\ \A g \in Handlers : g # h => handlers'[g] = handlers[g]
    BY <1>1, Proceeds DEF FilesInv
  <1>4. FilesType'
    BY <1>1, <1>3 DEF FilesInv, FilesType
  <1>5. RegistryInv' /\ PortalInv' /\ OracleInv'
    BY <1>1, KeysUntouched
  <1>6. EvidenceInv' /\ LedgerInv'
    BY <1>1 DEF FilesInv, EvidenceInv, Stored, LedgerInv, OnFile
  <1>7. ArchiveComplete'
    <2> SUFFICES ASSUME NEW one \in archives', Restores(one)
                 PROVE  LET files == one.packed
                            lines == 1 .. Len(files.ledger)
                        IN  /\ Len(files.ledger) <= one.summary.height
                            /\ one.summary.answered \subseteq {files.ledger[i] : i \in lines}
                            /\ \A entry \in one.summary.acked :
                                   /\ entry[1] \in DOMAIN files.registry
                                   /\ files.registry[entry[1]] = entry[2]
                            /\ \A i \in lines :
                                   files.ledger[i].artifact \in DOMAIN files.artifacts
      BY DEF ArchiveComplete, Restores
    <2>1. CASE one \in archives
      BY <2>1 DEF FilesInv, ArchiveComplete
    <2>2. CASE one = archive
      <3>1. "registry" \notin torn /\ disk.tail # "torn"
        BY <1>2, <2>2 DEF Restores
      <3>2. \A entry \in one.summary.acked : Knows(disk.registry, entry[1], entry[2])
        BY <1>1, <1>2, <2>2, <3>1 DEF Noted, FilesInv, RegistryInv
      <3>3. one.summary.answered \subseteq OnFile
        BY <1>1, <1>2, <2>2, <3>1 DEF Noted, FilesInv, LedgerInv
      <3>4. QED
        BY <1>1, <1>2, <2>2, <3>2, <3>3 DEF Noted, Knows, OnFile
    <2>3. QED
      BY <1>1, <2>1, <2>2
  <1>8. ASSUME NEW g \in Handlers PROVE HandlerInv(g)'
    <2>1. CASE g = h
      BY <1>3, <2>1 DEF HandlerInv, Doing, Locks, Unoccupied
    <2>2. CASE g # h
      <3>1. ~ Locks(g)
        BY <1>1, <2>2 DEF FilesInv, HandlerInv
      <3>2. QED
        BY <1>1, <1>3, <2>2, <3>1 DEF FilesInv, HandlerInv, Doing, Locks, Stored
    <2>3. QED
      BY <2>1, <2>2
  <1>9. QED
    BY <1>4, <1>5, <1>6, <1>7, <1>8 DEF FilesInv

LEMMA FilesInitInv == FilesInit => FilesInv
  <1> SUFFICES ASSUME FilesInit PROVE FilesInv
    OBVIOUS
  <1>1. FilesType
    BY NoOrgsIs DEF FilesInit, FilesType, Disk, Keys, Steps
  <1>2. RegistryInv /\ PortalInv /\ OracleInv /\ EvidenceInv /\ ArchiveComplete
    BY DEF FilesInit, RegistryInv, PortalInv, OracleInv, EvidenceInv, ArchiveComplete
  <1>3. LedgerInv
    BY DEF FilesInit, LedgerInv
  <1>4. ASSUME NEW h \in Handlers PROVE HandlerInv(h)
    BY DEF FilesInit, HandlerInv, Doing, Locks, Unoccupied
  <1>5. QED
    BY <1>1, <1>2, <1>3, <1>4 DEF FilesInv

LEMMA FilesStutter == FilesInv /\ UNCHANGED fileVars => FilesInv'
  <1> SUFFICES ASSUME FilesInv, UNCHANGED fileVars PROVE FilesInv'
    OBVIOUS
  <1>1. UNCHANGED << disk, torn, server, registry, signer, nextKey, faults, writer,
                     handlers, acked, refs, attested, archives, events, nextEvent, answered >>
    BY DEF fileVars, startVars, requestVars, eventVars
  <1>2. FilesType' /\ RegistryInv' /\ PortalInv' /\ OracleInv'
    BY <1>1 DEF FilesInv, FilesType, RegistryInv, PortalInv, OracleInv
  <1>3. EvidenceInv' /\ LedgerInv' /\ ArchiveComplete'
    BY <1>1 DEF FilesInv, EvidenceInv, Stored, LedgerInv, OnFile, ArchiveComplete, Restores
  <1>4. ASSUME NEW h \in Handlers PROVE HandlerInv(h)'
    BY <1>1 DEF FilesInv, HandlerInv, Doing, Locks, Stored, Noted
  <1>5. QED
    BY <1>2, <1>3, <1>4 DEF FilesInv

LEMMA FilesNextInv == FilesInv /\ FilesNext => FilesInv'
  <1> SUFFICES ASSUME FilesInv, FilesNext PROVE FilesInv'
    OBVIOUS
  <1>1. CASE Start
    BY <1>1, LoadFilesKeeps, OracleKeyKeeps, PortalKeeps DEF Start
  <1>2. CASE Crash
    BY <1>2, CrashKeeps
  <1>3. ASSUME NEW h \in Handlers, NEW org \in Clients, RegisterOrg(h, org) PROVE FilesInv'
    BY <1>3, RegisterOrgKeeps
  <1>4. ASSUME NEW h \in Handlers, SaveRegistry(h) \/ SaveFails(h) \/ WriteArtifact(h)
        PROVE  FilesInv'
    BY <1>4, SaveRegistryKeeps, SaveFailsKeeps, WriteArtifactKeeps
  <1>5. ASSUME NEW h \in Handlers, NEW a \in Artifacts, NEW source, OpenArtifact(h, a, source)
        PROVE  FilesInv'
    BY <1>5, UploadKeeps
  <1>6. ASSUME NEW h \in Handlers, BeginExport(h) \/ HashFiles(h) \/ PackFiles(h)
        PROVE  FilesInv'
    BY <1>6, BeginExportKeeps, HashFilesKeeps, PackFilesKeeps
  <1>7. ASSUME NEW a \in Artifacts, AppendEvent(a) \/ AppendFails(a) PROVE FilesInv'
    BY <1>7, AppendEventKeeps, AppendFailsKeeps
  <1>8. QED
    BY <1>1, <1>2, <1>3, <1>4, <1>5, <1>6, <1>7 DEF FilesNext

(* The invariant of the application's files, crashes and failed writes included. *)
THEOREM FilesInvariance == FilesSpec => []FilesInv
  BY FilesInitInv, FilesNextInv, FilesStutter, PTL DEF FilesSpec

(* A server that is up knows every organization that was handed a private key   *)
(* (register_org and the registry file it rewrites).                           *)
THEOREM RegistrationsSurvive == FilesSpec => []AckedOrgsSurvive
  <1>1. FilesInv => AckedOrgsSurvive
    BY DEF FilesInv, RegistryInv, AckedOrgsSurvive, Knows
  <1>2. QED
    BY <1>1, FilesInvariance, PTL

(* The portal's key is the registered one, the oracle's that of its attestations. *)
THEOREM KeysSurvive == FilesSpec => []KeysKept
  <1>1. FilesInv => KeysKept
    BY DEF FilesInv, PortalInv, OracleInv, KeysKept
  <1>2. QED
    BY <1>1, FilesInvariance, PTL

(* A backup that can be restored has all that was promised before it, and no    *)
(* event that its summary does not count (admin_export under the write lock).    *)
THEOREM BackupsComplete == FilesSpec => []ArchiveComplete
  <1>1. FilesInv => ArchiveComplete
    BY DEF FilesInv
  <1>2. QED
    BY <1>1, FilesInvariance, PTL
=============================================================================
