-------------------------- MODULE TraceabilityProofs --------------------------
(***************************************************************************)
(* Proofs about Traceability, for any wallets, roles, subjects, start logs   *)
(* and number of events and transactions in flight.                         *)
(*                                                                         *)
(* The argument looks at no interleaving.  The keys of the world state are   *)
(* written once, by a transaction that says so in its write set; so a later  *)
(* state in which a request reads what it read before accepts it as well,    *)
(* and with the same writes (ReadsDetermine).  A transaction that is valid   *)
(* at commit is therefore one that the contract, run alone on the state it   *)
(* commits to, accepts (CommitRecords): the channel is serial, and what a    *)
(* serial run keeps (ExecuteSound, by cases on what the contract checks)      *)
(* holds of the channel.  IInv says that the world state is Sound, that every *)
(* transaction in flight was endorsed on an earlier sound state, and that    *)
(* ids are fresh.                                                            *)
(*                                                                         *)
(* That histories stay in order needs more: stamps in the order of the        *)
(* channel, and no correction.  Then what is valid at commit comes last in    *)
(* its subject's history, and it follows the status it was accepted on       *)
(* (ExecuteValid).                                                         *)
(***************************************************************************)
EXTENDS Traceability, WorkflowProofs

(* The states a log leads through exist, so that the recursion is one.      *)
LEMMA ReplayIs ==
    ASSUME NEW log \in Seq(Event), NEW trust
    PROVE  /\ Replay(log, trust)[0] = EmptyState(trust)
           /\ \A n \in 1 .. Len(log) :
                  Replay(log, trust)[n] = Execute(Replay(log, trust)[n - 1], log[n])
  <1> DEFINE Step(f, n) == IF n = 0 THEN EmptyState(trust) ELSE Execute(f[n - 1], log[n])
             Runs(f, m) == f = [n \in 0 .. m |-> Step(f, n)]
             Solved == {m \in Nat : \E f : Runs(f, m)}
  <1>1. \A m \in 0 .. Len(log) : m \in Solved
    <2>1. 0 \in Solved
      <3> DEFINE f == [n \in 0 .. 0 |-> EmptyState(trust)]
      <3>1. Runs(f, 0)
        OBVIOUS
      <3>2. QED
        BY <3>1
    <2>2. ASSUME NEW m \in 1 .. Len(log), m - 1 \in Solved
          PROVE  m \in Solved
      <3>1. m \in Nat /\ m # 0 /\ m - 1 \in Nat
        BY <2>2
      <3>2. PICK g : Runs(g, m - 1)
        BY <2>2
      <3> DEFINE f == [n \in 0 .. m |-> IF n = m THEN Execute(g[m - 1], log[m]) ELSE g[n]]
      <3>3. \A n \in 0 .. m - 1 : f[n] = g[n]
        BY <3>1
      <3>4. ASSUME NEW n \in 0 .. m
            PROVE  f[n] = Step(f, n)
        <4>1. CASE n = m
          BY <3>1, <3>3, <4>1
        <4>2. CASE n # m
          <5>1. n \in 0 .. m - 1
            BY <3>1, <4>2
          <5>2. g[n] = Step(g, n)
            BY <3>2, <5>1
          <5>3. n # 0 => n - 1 \in 0 .. m - 1
            BY <3>1, <5>1
          <5>4. QED
            BY <3>3, <5>1, <5>2, <5>3
        <4>3. QED
          BY <4>1, <4>2
      <3>5. Runs(f, m)
        BY <3>4
      <3>6. QED
        BY <3>1, <3>5
    <2>3. Len(log) \in Nat
      OBVIOUS
    <2> HIDE DEF Solved
    <2>4. QED
      BY <2>1, <2>2, <2>3, UpTo
  <1>2. Len(log) \in Nat
    OBVIOUS
  <1>3. \E f : Runs(f, Len(log))
    BY <1>1, <1>2
  <1>4. Replay(log, trust) = CHOOSE f : Runs(f, Len(log))
    BY DEF Replay
  <1>5. Runs(Replay(log, trust), Len(log))
    BY <1>3, <1>4
  <1>6. QED
    BY <1>2, <1>5

-----------------------------------------------------------------------------
(* What is recorded *)

LEMMA RecordedIs ==
    ASSUME NEW s \in WorldState
    PROVE  /\ Recorded(s) \subseteq Event /\ IsFiniteSet(Recorded(s))
           /\ \A e \in Recorded(s) : e.id \in IdsOf(s)
           /\ IdsOf(s) \subseteq EventIds
  <1>1. s.log \in Seq(Event) /\ Len(s.log) \in Nat
    BY DEF WorldState
  <1>2. Recorded(s) \subseteq Event
    BY <1>1 DEF Recorded
  <1>3. IsFiniteSet(Recorded(s))
    <2>1. IsFiniteSet(1 .. Len(s.log))
      BY <1>1, FS_Interval
    <2>2. s.log \in [1 .. Len(s.log) -> Event]
      BY <1>1
    <2>3. s.log \in Surjection(1 .. Len(s.log), Recorded(s))
      BY <2>2 DEF Recorded, Surjection
    <2>4. QED
      BY <2>1, <2>3, FS_Surjection
  <1>4. IdsOf(s) \subseteq EventIds
    BY <1>2 DEF IdsOf, Event
  <1>5. QED
    BY <1>2, <1>3, <1>4 DEF IdsOf

\* The world state after an event, one table at a time.
LEMMA ExecuteIs ==
    ASSUME NEW s \in WorldState, NEW e
    PROVE  LET t == Execute(s, e)
           IN  /\ t.log = Append(s.log, e)
               /\ t.supersededBy = IF e.type = "correction"
                                   THEN [s.supersededBy EXCEPT ![e.target] = e.id]
                                   ELSE s.supersededBy
               /\ t.active = s.active
               /\ t.assets = [w \in Wallets |->
                                 IF w \in {c.wallet : c \in Due(s, e)}
                                 THEN AccountAfter(s, e, w) ELSE s.assets[w]]
               /\ t.rewarded = s.rewarded \cup {c.basis : c \in Due(s, e)}
               /\ t.tokenTxs = s.tokenTxs \cup TokenTxsOf(s, e)
               /\ t = [log |-> t.log, supersededBy |-> t.supersededBy, active |-> t.active,
                       assets |-> t.assets, rewarded |-> t.rewarded, tokenTxs |-> t.tokenTxs]
  <1>1. s = [log |-> s.log, supersededBy |-> s.supersededBy, active |-> s.active,
             assets |-> s.assets, rewarded |-> s.rewarded, tokenTxs |-> s.tokenTxs]
    BY DEF WorldState
  <1> DEFINE log == Append(s.log, e)
             superseded == IF e.type = "correction"
                           THEN [s.supersededBy EXCEPT ![e.target] = e.id]
                           ELSE s.supersededBy
             assets == [w \in Wallets |-> IF w \in {c.wallet : c \in Due(s, e)}
                                          THEN AccountAfter(s, e, w) ELSE s.assets[w]]
             rewarded == s.rewarded \cup {c.basis : c \in Due(s, e)}
             tokenTxs == s.tokenTxs \cup TokenTxsOf(s, e)
  <1>2. Execute(s, e) = [s EXCEPT !.log = log, !.supersededBy = superseded,
                                  !.assets = assets, !.rewarded = rewarded,
                                  !.tokenTxs = tokenTxs]
    BY DEF Execute, Apply, WriteSet
  <1> DEFINE t == Execute(s, e)
  <1> HIDE DEF log, superseded, assets, rewarded, tokenTxs
  <1>3. t = [log |-> log, supersededBy |-> superseded, active |-> s.active,
             assets |-> assets, rewarded |-> rewarded, tokenTxs |-> tokenTxs]
    BY <1>1, <1>2
  <1> HIDE DEF t
  <1>4. /\ t.log = log /\ t.supersededBy = superseded /\ t.active = s.active
        /\ t.assets = assets /\ t.rewarded = rewarded /\ t.tokenTxs = tokenTxs
    BY <1>3
  <1>5. t = [log |-> t.log, supersededBy |-> t.supersededBy, active |-> t.active,
             assets |-> t.assets, rewarded |-> t.rewarded, tokenTxs |-> t.tokenTxs]
    BY <1>3, <1>4
  <1>6. QED
    BY <1>4, <1>5 DEF t, log, superseded, assets, rewarded, tokenTxs

LEMMA RecordedAfter ==
    ASSUME NEW s \in WorldState, NEW e
    PROVE  LET t == Execute(s, e)
           IN  /\ Len(t.log) = Len(s.log) + 1 /\ t.log[Len(t.log)] = e
               /\ \A k \in 1 .. Len(s.log) : t.log[k] = s.log[k]
               /\ Recorded(t) = Recorded(s) \cup {e}
               /\ IdsOf(t) = IdsOf(s) \cup {e.id}
  <1> DEFINE t == Execute(s, e)
  <1>1. s.log \in Seq(Event) /\ Len(s.log) \in Nat
    BY DEF WorldState
  <1>2. t.log = Append(s.log, e)
    BY ExecuteIs
  <1> HIDE DEF t
  <1>3. /\ Len(t.log) = Len(s.log) + 1 /\ t.log[Len(t.log)] = e
        /\ \A k \in 1 .. Len(s.log) : t.log[k] = s.log[k]
    BY <1>1, <1>2
  <1>4. Recorded(t) = Recorded(s) \cup {e}
    <2>1. \A k \in 1 .. Len(t.log) : k \in 1 .. Len(s.log) \/ k = Len(t.log)
      BY <1>1, <1>3
    <2>2. 1 .. Len(s.log) \subseteq 1 .. Len(t.log) /\ Len(t.log) \in 1 .. Len(t.log)
      BY <1>1, <1>3
    <2>3. QED
      BY <1>3, <2>1, <2>2 DEF Recorded
  <1>5. QED
    BY <1>3, <1>4 DEF IdsOf, t
-----------------------------------------------------------------------------
(* Credits *)

LEMMA ReasonsAre ==
    Reasons = {"milestone", "accepted_event", "product_completed",
               "circular_completed", "bioenergy"}
  <1>1. 1 .. 5 = {1, 2, 3, 4, 5} /\ Len(ReasonOrder) = 5
    BY DEF ReasonOrder
  <1>2. Reasons = {ReasonOrder[k] : k \in {1, 2, 3, 4, 5}}
    BY <1>1 DEF Reasons, ElementsOf
  <1>3. QED
    BY <1>2 DEF ReasonOrder

\* Every event but a correction was recorded under a role that may.
ByTheirRole(s) ==
    \A x \in Recorded(s) : x.type # "correction" => RoleOf[x.actor] \in Permissions[x.type]

LEMMA EcoIs ==
    ASSUME NEW s \in WorldState, ByTheirRole(s), NEW r \in Subjects
    PROVE  /\ EcoCredits(s, r) \subseteq Credit
           /\ \A c \in EcoCredits(s, r) : c.basis.reason = "bioenergy"
           /\ \A c, d \in EcoCredits(s, r) : c = d
  <1> DEFINE energy == {o \in LiveOf(s, r, "useful_output") : o.fact}
             origins == {g.origin : g \in LiveOf(s, r, "residue_generation")}
             milled == UNION {LiveOf(s, b, "milling") : b \in origins}
             miller == CHOOSE m \in milled : TRUE
             credit == Grant(miller.actor, "ECO", Cardinality(energy),
                             ForSubject("bioenergy", r))
  <1>1. EcoCredits(s, r) = IF energy = {} \/ milled = {} THEN {} ELSE {credit}
    BY DEF EcoCredits
  <1>2. credit.basis.reason = "bioenergy"
    BY DEF Grant, ForSubject
  <1>3. ASSUME energy # {}, milled # {}
        PROVE  credit \in Credit
    <2>1. miller \in milled
      BY <1>3
    <2>2. miller \in Recorded(s) /\ miller.type = "milling"
      BY <2>1 DEF LiveOf
    <2> HIDE DEF miller
    <2>3. miller \in Event /\ RoleOf[miller.actor] \in Permissions["milling"]
      BY <2>2, RecordedIs DEF ByTheirRole
    <2>4. Permissions["milling"] = {"mill"}
      BY DEF Permissions
    <2>5. miller.actor \in Wallets
      BY <2>3, <2>4, ActorsAssumption DEF Event, Actors
    <2>6. energy \subseteq Recorded(s)
      BY DEF LiveOf
    <2> HIDE DEF energy
    <2>7. Cardinality(energy) \in Nat \ {0}
      <3>1. IsFiniteSet(energy)
        BY <2>6, RecordedIs, FS_Subset
      <3>2. QED
        BY <1>3, <3>1, FS_CardinalityType, FS_EmptySet
    <2>8. ForSubject("bioenergy", r) \in Basis
      BY ReasonsAre DEF ForSubject, Basis
    <2>9. QED
      BY <2>5, <2>7, <2>8 DEF Grant, Credit, Tokens
  <1>4. QED
    BY <1>1, <1>2, <1>3

(* A transaction gives one credit at most for each reason.                  *)
LEMMA CreditsAre ==
    ASSUME NEW s \in WorldState, ByTheirRole(s), NEW e \in Event
    PROVE  /\ Credits(s, e) \subseteq Credit
           /\ \A c, d \in Credits(s, e) : c.basis.reason = d.basis.reason => c = d
  <1> DEFINE milestone == Grant(e.actor, "OLIVE", 1, ForEvent("milestone", e))
             accepted == Grant(e.actor, "TRUST", 1, ForEvent("accepted_event", e))
             product == Grant(e.actor, "TRUST", 4, ForSubject("product_completed", e.subject))
             circular == Grant(e.actor, "TRUST", 5, ForSubject("circular_completed", e.subject))
  <1>1. /\ milestone.basis.reason = "milestone" /\ accepted.basis.reason = "accepted_event"
        /\ product.basis.reason = "product_completed"
        /\ circular.basis.reason = "circular_completed"
    BY DEF Grant, ForEvent, ForSubject
  <1>2. ASSUME e.actor # Portal
        PROVE  {milestone, accepted, product, circular} \subseteq Credit
    <2>1. e.actor \in Wallets /\ e.id \in EventIds /\ e.subject \in Subjects
      BY <1>2 DEF Event, Actors
    <2>2. /\ ForEvent("milestone", e) \in Basis /\ ForEvent("accepted_event", e) \in Basis
          /\ ForSubject("product_completed", e.subject) \in Basis
          /\ ForSubject("circular_completed", e.subject) \in Basis
      BY <2>1, ReasonsAre DEF ForEvent, ForSubject, Basis
    <2>3. QED
      BY <2>1, <2>2 DEF Grant, Credit, Tokens
  <1>3. /\ EcoCredits(s, e.subject) \subseteq Credit
        /\ \A c \in EcoCredits(s, e.subject) : c.basis.reason = "bioenergy"
        /\ \A c, d \in EcoCredits(s, e.subject) : c = d
    BY EcoIs DEF Event
  <1>4. Credits(s, e) \subseteq {milestone, accepted, product, circular}
                                \cup EcoCredits(s, e.subject)
    BY DEF Credits
  <1>5. e.actor = Portal => Credits(s, e) = {}
    BY DEF Credits
  <1> HIDE DEF milestone, accepted, product, circular
  <1>6. Credits(s, e) \subseteq Credit
    BY <1>2, <1>3, <1>4, <1>5
  <1>7. ASSUME NEW c \in Credits(s, e), NEW d \in Credits(s, e),
               c.basis.reason = d.basis.reason
        PROVE  c = d
    BY <1>1, <1>3, <1>4, <1>7
  <1>8. QED
    BY <1>6, <1>7

LEMMA LastGiven ==
    ASSUME NEW due, due # {}, \A c \in due : c \in Credit
    PROVE  \E c \in due : \A d \in due : ~ GivenAfter(d, c)
  <1>1. \A c, d : GivenAfter(c, d) =>
            \/ c.basis.reason = "bioenergy" /\ d.basis.reason # "bioenergy"
            \/ c.basis.reason = "circular_completed" /\
               d.basis.reason \notin {"bioenergy", "circular_completed"}
            \/ c.basis.reason = "product_completed" /\
               d.basis.reason \in {"milestone", "accepted_event"}
            \/ c.basis.reason = "accepted_event" /\ d.basis.reason = "milestone"
    <2>1. Len(ReasonOrder) = 5
      BY DEF ReasonOrder
    <2>2. \A k \in 1 .. 5 : k = 1 \/ k = 2 \/ k = 3 \/ k = 4 \/ k = 5
      OBVIOUS
    <2>3. QED
      BY <2>1, <2>2 DEF GivenAfter, ReasonOrder
  <1>2. \A c \in due : c.basis.reason \in
            {"milestone", "accepted_event", "product_completed",
             "circular_completed", "bioenergy"}
    BY ReasonsAre DEF Credit, Basis
  <1>3. CASE \E c \in due : c.basis.reason = "bioenergy"
    BY <1>1, <1>3
  <1>4. CASE \A c \in due : c.basis.reason # "bioenergy"
    <2>1. CASE \E c \in due : c.basis.reason = "circular_completed"
      BY <1>1, <1>4, <2>1
    <2>2. CASE \A c \in due : c.basis.reason # "circular_completed"
      <3>1. CASE \E c \in due : c.basis.reason = "product_completed"
        BY <1>1, <1>4, <2>2, <3>1
      <3>2. CASE \A c \in due : c.basis.reason # "product_completed"
        <4>1. CASE \E c \in due : c.basis.reason = "accepted_event"
          BY <1>1, <1>4, <2>2, <3>2, <4>1
        <4>2. CASE \A c \in due : c.basis.reason # "accepted_event"
          BY <1>1, <1>2, <1>4, <2>2, <3>2, <4>2
        <4>3. QED
          BY <4>1, <4>2
      <3>3. QED
        BY <3>1, <3>2
    <2>3. QED
      BY <2>1, <2>2
  <1>5. QED
    BY <1>3, <1>4

LEMMA CreditedIs ==
    ASSUME NEW account \in Account, NEW c \in Credit
    PROVE  /\ Credited(account, c) \in Nat
           /\ c.token = "TRUST" => Credited(account, c) \in 0 .. TrustCap
  <1>1. /\ account.OLIVE \in Nat /\ account.TRUST \in 0 .. TrustCap /\ account.ECO \in Nat
        /\ c.amount \in Nat /\ c.token \in {"OLIVE", "TRUST", "ECO"} /\ TrustCap = 100
    BY DEF Account, Credit, Tokens, TrustCap
  <1>2. CASE c.token = "TRUST"
    <2>1. Credited(account, c) = IF account.TRUST + c.amount > TrustCap THEN TrustCap
                                 ELSE account.TRUST + c.amount
      BY <1>2 DEF Credited
    <2>2. account.TRUST \in Nat /\ c.amount \in Nat /\ TrustCap \in Nat
      BY <1>1
    <2>3. QED
      BY <2>1, <2>2
  <1>3. CASE c.token = "OLIVE"
    BY <1>1, <1>3 DEF Credited
  <1>4. CASE c.token = "ECO"
    BY <1>1, <1>4 DEF Credited
  <1>5. QED
    BY <1>1, <1>2, <1>3, <1>4

LEMMA AccountAfterIs ==
    ASSUME NEW s \in WorldState, ByTheirRole(s), NEW e \in Event,
           NEW w \in {c.wallet : c \in Due(s, e)}
    PROVE  w \in Wallets /\ AccountAfter(s, e, w) \in Account /\ AccountAfter(s, e, w).writer = e.id
  <1> DEFINE due == {c \in Due(s, e) : c.wallet = w}
             last == CHOOSE c \in due : \A d \in due : ~ GivenAfter(d, c)
             account == s.assets[w]
             value == Credited(account, last)
  <1>1. due # {} /\ due \subseteq Credit
    BY CreditsAre DEF Due
  <1>2. last \in due
    <2> HIDE DEF due
    <2>1. \E c \in due : \A d \in due : ~ GivenAfter(d, c)
      BY <1>1, LastGiven
    <2>2. QED
      BY <2>1
  <1>3. last \in Credit /\ w \in Wallets
    BY <1>1, <1>2 DEF Credit
  <1>4. account \in Account /\ e.id \in EventIds
    BY <1>3 DEF WorldState, Event
  <1>5. AccountAfter(s, e, w) = [account EXCEPT ![last.token] = value, !.writer = e.id]
    BY DEF AccountAfter
  <1>6. value \in Nat /\ (last.token = "TRUST" => value \in 0 .. TrustCap)
        /\ last.token \in {"OLIVE", "TRUST", "ECO"}
    BY <1>3, <1>4, CreditedIs DEF Credit, Tokens
  <1> HIDE DEF last, value, account
  <1>7. CASE last.token = "OLIVE"
    BY <1>4, <1>5, <1>6, <1>7, <1>3 DEF Account
  <1>8. CASE last.token = "TRUST"
    BY <1>4, <1>5, <1>6, <1>8, <1>3 DEF Account
  <1>9. CASE last.token = "ECO"
    BY <1>4, <1>5, <1>6, <1>9, <1>3 DEF Account
  <1>10. QED
    BY <1>6, <1>7, <1>8, <1>9

LEMMA TokenTxsAre ==
    ASSUME NEW s \in WorldState, ByTheirRole(s), NEW e \in Event
    PROVE  /\ TokenTxsOf(s, e) \subseteq TokenTx
           /\ \A t \in TokenTxsOf(s, e) : t.credit \in Due(s, e)
           /\ \A t, u \in TokenTxsOf(s, e) : t.credit = u.credit => t = u
  <1>1. ASSUME NEW t \in TokenTxsOf(s, e)
        PROVE  /\ t.credit \in Due(s, e)
               /\ t = [credit |-> t.credit, event |-> e.id,
                       after |-> Credited(s.assets[t.credit.wallet], t.credit)]
    BY DEF TokenTxsOf
  <1>2. ASSUME NEW c \in Due(s, e)
        PROVE  c \in Credit /\ Credited(s.assets[c.wallet], c) \in Nat
    <2>1. c \in Credit
      BY CreditsAre DEF Due
    <2>2. s.assets[c.wallet] \in Account
      BY <2>1 DEF WorldState, Credit
    <2>3. QED
      BY <2>1, <2>2, CreditedIs
  <1>3. e.id \in EventIds
    BY DEF Event
  <1>4. TokenTxsOf(s, e) \subseteq TokenTx
    BY <1>1, <1>2, <1>3 DEF TokenTx
  <1>5. QED
    BY <1>1, <1>4
-----------------------------------------------------------------------------
(* What every state of the ledger satisfies *)

UniqueIds(s) ==
    \A j, k \in 1 .. Len(s.log) : s.log[j].id = s.log[k].id => j = k

WritersRecorded(s) ==
    \A w \in Wallets : s.assets[w].writer \in IdsOf(s) \cup {NoEvent}

Chained(s) ==
    \A k \in 1 .. Len(s.log) : s.log[k].type = "correction" =>
        /\ s.supersededBy[s.log[k].target] = s.log[k].id
        /\ \E j \in 1 .. k - 1 : s.log[j].id = s.log[k].target

PaidOnce(s) ==
    /\ \A t \in s.tokenTxs : t.credit.basis \in s.rewarded
    /\ \A t, u \in s.tokenTxs : t.credit.basis = u.credit.basis => t = u

StagesOnce(s) ==
    \A b \in Subjects, type \in WorkflowTypes \ Repeatable :
        \A x, y \in LiveOf(s, b, type) : x = y

\* What the log holds before its k-th event.
EarlierOn(s, k, subject, type, fact) ==
    \E j \in 1 .. k - 1 : /\ s.log[j].subject = subject /\ s.log[j].type = type
                          /\ fact => s.log[j].fact

Grounded(s) ==
    \A k \in 1 .. Len(s.log) :
        LET e == s.log[k]
        IN  /\ e.type = "residue_generation" =>
                   EarlierOn(s, k, e.origin, "milling", FALSE)
            /\ e.type = "valorization" =>
                   EarlierOn(s, k, e.subject, "residue_custody", TRUE)
            /\ e.type = "consumer_verification" =>
                   EarlierOn(s, k, e.subject, "distribution_retail", FALSE)

Sound(s) ==
    /\ s \in WorldState
    /\ ByTheirRole(s) /\ UniqueIds(s) /\ WritersRecorded(s)
    /\ Chained(s) /\ PaidOnce(s)
    /\ StagesOnce(s) /\ Grounded(s)

(* The order of the history of a subject is one of all its steps in force:   *)
(* the k-th of them has k - 1 before it.                                   *)
LEMMA InOrderIs ==
    ASSUME NEW S, S \subseteq Event, IsFiniteSet(S),
           \A x, y \in S : x.id = y.id => x = y
    PROVE  LET h == InOrder(S)
           IN  /\ Len(h) = Cardinality(S) /\ Len(h) \in Nat
               /\ h \in Seq(Event)
               /\ \A k \in 1 .. Len(h) :
                      /\ h[k] \in S
                      /\ Cardinality({x \in S : Earlier(x, h[k])}) = k - 1
               /\ \A x \in S : \E k \in 1 .. Len(h) : h[k] = x
               /\ \A x, y \in S : x # y =>
                      Cardinality({z \in S : Earlier(z, x)})
                      # Cardinality({z \in S : Earlier(z, y)})
  <1> DEFINE before(x) == {z \in S : Earlier(z, x)}
             rank(x) == Cardinality(before(x))
             n == Cardinality(S)
             h == InOrder(S)
  <1>1. n \in Nat
    BY FS_CardinalityType
  <1>2. \A x \in S : x.id \in Int /\ x.time \in Int
    BY BoundsAssumption DEF Event, EventIds, Times
  <1>3. ASSUME NEW x \in S
        PROVE  /\ IsFiniteSet(before(x)) /\ rank(x) \in 0 .. n - 1 /\ x \notin before(x)
    <2>1. x \notin before(x)
      BY <1>2 DEF Earlier
    <2>2. before(x) \subseteq S \ {x}
      BY <2>1
    <2>3. IsFiniteSet(S \ {x}) /\ Cardinality(S \ {x}) = n - 1
      BY FS_RemoveElement
    <2> HIDE DEF before, n
    <2>4. IsFiniteSet(before(x)) /\ rank(x) <= n - 1 /\ rank(x) \in Nat
      BY <2>2, <2>3, FS_Subset, FS_CardinalityType
    <2>5. QED
      BY <1>1, <2>1, <2>4
  <1>3a. \A x \in S : rank(x) \in Int
    <2>1. ASSUME NEW x \in S PROVE rank(x) \in Int
      <3>1. IsFiniteSet(before(x))
        BY <1>3
      <3> HIDE DEF before
      <3>2. rank(x) \in Nat
        BY <3>1, FS_CardinalityType
      <3> HIDE DEF rank
      <3>3. QED
        BY <3>2
    <2>2. QED
      BY <2>1
  <1>4. ASSUME NEW x \in S, NEW y \in S, Earlier(x, y)
        PROVE  rank(x) < rank(y)
    <2>1. before(x) \cup {x} \subseteq before(y)
      BY <1>2, <1>4 DEF Earlier
    <2>2. Cardinality(before(x) \cup {x}) = rank(x) + 1
      <3> HIDE DEF before
      <3>1. QED
        BY <1>3, FS_AddElement
    <2>3. Cardinality(before(x) \cup {x}) <= rank(y)
      <3>1. IsFiniteSet(before(y))
        BY <1>3
      <3> HIDE DEF before
      <3>2. QED
        BY <2>1, <3>1, FS_Subset
    <2>4. rank(x) \in Int /\ rank(y) \in Int
      BY <1>3a
    <2> HIDE DEF rank
    <2>5. QED
      BY <2>2, <2>3, <2>4
  <1>5. ASSUME NEW x \in S, NEW y \in S, x # y
        PROVE  rank(x) # rank(y)
    <2>1. Earlier(x, y) \/ Earlier(y, x)
      BY <1>2, <1>5 DEF Earlier
    <2>2. rank(x) \in Int /\ rank(y) \in Int
      BY <1>3a
    <2> HIDE DEF rank
    <2>3. QED
      BY <1>4, <2>1, <2>2
  <1>6. \A k \in 0 .. n - 1 : \E x \in S : rank(x) = k
    <2> DEFINE f == [x \in S |-> rank(x)]
    <2>1. f \in [S -> 0 .. n - 1]
      BY <1>3
    <2>2. f \in Injection(S, 0 .. n - 1)
      <3> HIDE DEF rank
      <3>1. QED
        BY <1>5, <2>1 DEF Injection, IsInjective
    <2>3. IsFiniteSet(0 .. n - 1) /\ Cardinality(0 .. n - 1) = n
      <3> HIDE DEF n
      <3>1. 0 \in Int /\ n - 1 \in Int
        BY <1>1
      <3>2. QED
        BY <1>1, <3>1, FS_Interval
    <2> HIDE DEF f
    <2>4. f \in Surjection(S, 0 .. n - 1)
      BY <2>2, <2>3, FS_Injection
    <2>5. QED
      BY <2>4 DEF Surjection, f
  <1> HIDE DEF rank, n
  <1>7. h = [k \in 1 .. n |-> CHOOSE x \in S : rank(x) = k - 1]
    BY DEF InOrder, rank, n
  <1>8. ASSUME NEW k \in 1 .. n
        PROVE  h[k] \in S /\ rank(h[k]) = k - 1
    <2>1. k - 1 \in 0 .. n - 1
      BY <1>1
    <2>2. \E x \in S : rank(x) = k - 1
      BY <1>6, <2>1
    <2>3. QED
      BY <1>7, <2>2
  <1>9. h \in [1 .. n -> Event]
    BY <1>7, <1>8
  <1> HIDE DEF h
  <1>10. h \in Seq(Event) /\ Len(h) = n
    BY <1>1, <1>9
  <1>11. ASSUME NEW x \in S
         PROVE  \E k \in 1 .. n : h[k] = x
    <2>1. rank(x) \in 0 .. n - 1
      BY <1>3 DEF rank, n
    <2> DEFINE k == rank(x) + 1
               y == h[k]
    <2>2. k \in 1 .. n /\ k - 1 = rank(x)
      BY <1>1, <2>1
    <2> HIDE DEF k
    <2>3. y \in S /\ rank(y) = k - 1
      BY <1>8, <2>2
    <2> HIDE DEF y
    <2>4. y = x
      BY <1>5, <2>2, <2>3 DEF rank
    <2>5. QED
      BY <2>2, <2>4 DEF y
  <1>12. QED
    BY <1>1, <1>5, <1>8, <1>10, <1>11 DEF h, rank, n

\* The history of a subject holds its steps in force.
LEMMA HistoryIs ==
    ASSUME NEW s \in WorldState, UniqueIds(s), NEW b
    PROVE  LET h == SubjectWorkflowEvents(s, b)
           IN  /\ IsHistory(h)
               /\ \A k \in 1 .. Len(h) : h[k] \in StepsInForce(s, b)
               /\ \A x \in StepsInForce(s, b) : \E k \in 1 .. Len(h) : h[k] = x
  <1> DEFINE S == StepsInForce(s, b)
             h == SubjectWorkflowEvents(s, b)
  <1>1. S \subseteq Recorded(s) /\ \A x \in S : x.type \in WorkflowTypes
    BY DEF StepsInForce
  <1>2. S \subseteq Event /\ IsFiniteSet(S)
    BY <1>1, RecordedIs, FS_Subset
  <1>3. \A x, y \in S : x.id = y.id => x = y
    BY <1>1 DEF UniqueIds, Recorded
  <1> HIDE DEF S
  <1>4. /\ Len(h) \in Nat /\ h \in Seq(Event)
        /\ \A k \in 1 .. Len(h) : h[k] \in S
        /\ \A x \in S : \E k \in 1 .. Len(h) : h[k] = x
    BY <1>2, <1>3, InOrderIs DEF SubjectWorkflowEvents, S
  <1> HIDE DEF h
  <1>5. IsHistory(h)
    BY <1>1, <1>4 DEF IsHistory
  <1>6. QED
    BY <1>4, <1>5 DEF S, h

\* A step that may follow is not in force yet, unless it may be repeated.
LEMMA NotYet ==
    ASSUME NEW s \in WorldState, UniqueIds(s), NEW b,
           NEW type \in WorkflowTypes \ Repeatable, MayFollow(type, Status(s, b))
    PROVE  LiveOf(s, b, type) = {}
  <1> DEFINE h == SubjectWorkflowEvents(s, b)
  <1>1. /\ IsHistory(h)
        /\ \A x \in StepsInForce(s, b) : \E k \in 1 .. Len(h) : h[k] = x
    BY HistoryIs
  <1>2. MayFollow(type, AnalyzeWorkflow(h))
    BY DEF Status
  <1> HIDE DEF h
  <1>3. SUFFICES ASSUME NEW x \in LiveOf(s, b, type) PROVE FALSE
    OBVIOUS
  <1>4. x \in StepsInForce(s, b) /\ x.type = type
    BY <1>3 DEF LiveOf, StepsInForce
  <1>5. PICK k \in 1 .. Len(h) : h[k] = x
    BY <1>1, <1>4
  <1>6. h # << >>
    BY <1>1, <1>5 DEF IsHistory
  <1>7. AnalyzeWorkflow(h).valid /\ StepIndex(type) = Scanned(h).step + 1
    BY <1>1, <1>2, <1>6, MayFollowIs
  <1>8. StepIndex(type) <= Scanned(h).step /\ Scanned(h) \in Scan
    BY <1>1, <1>4, <1>5, <1>6, <1>7, Reached
  <1>9. QED
    BY <1>7, <1>8 DEF Scan

\* What an accepted event rests on is recorded.
LEMMA GroundsAre ==
    ASSUME NEW s \in WorldState, UniqueIds(s), NEW e \in Event, Accepted(s, e)
    PROVE  /\ e.type = "residue_generation" =>
                  \E x \in Recorded(s) : x.subject = e.origin /\ x.type = "milling"
           /\ e.type = "valorization" =>
                  \E x \in Recorded(s) : /\ x.subject = e.subject
                                         /\ x.type = "residue_custody" /\ x.fact
           /\ e.type = "consumer_verification" =>
                  \E x \in Recorded(s) : /\ x.subject = e.subject
                                         /\ x.type = "distribution_retail"
  <1>1. e.type # "correction" => TransitionAllowed(s, e)
    BY DEF Accepted, SubmitAllowed, CorrectAllowed
  <1>2. ASSUME NEW b, NEW k \in 1 .. Len(SubjectWorkflowEvents(s, b))
        PROVE  LET x == SubjectWorkflowEvents(s, b)[k]
               IN  x \in Recorded(s) /\ x.subject = b
    BY HistoryIs DEF StepsInForce
  <1>3. \A b : IsHistory(SubjectWorkflowEvents(s, b))
    BY HistoryIs
  <1>4. ProductSteps[4] = "milling" /\ ProductSteps[7] = "distribution_retail"
        /\ 4 \in 1 .. 7 /\ 7 \in 1 .. 7 /\ MillingStep = 4
    BY StepsAre DEF ProductSteps
  <1>5. ASSUME e.type = "residue_generation"
        PROVE  \E x \in Recorded(s) : x.subject = e.origin /\ x.type = "milling"
    <2> DEFINE h == SubjectWorkflowEvents(s, e.origin)
    <2>1. AnalyzeWorkflow(h).workflow = "product" /\ AnalyzeWorkflow(h).step >= 4
      BY <1>1, <1>4, <1>5 DEF TransitionAllowed, ReachedMilling, Status
    <2>2. PICK k \in 1 .. Len(h) : h[k].type = "milling"
      <3>1. IsHistory(h)
        BY <1>3
      <3> HIDE DEF h
      <3>2. QED
        BY <1>4, <2>1, <3>1, ProductReached
    <2>3. QED
      BY <1>2, <2>2
  <1>6. ASSUME e.type = "valorization"
        PROVE  \E x \in Recorded(s) : /\ x.subject = e.subject
                                      /\ x.type = "residue_custody" /\ x.fact
    <2> DEFINE h == SubjectWorkflowEvents(s, e.subject)
    <2>1. MayFollow("valorization", AnalyzeWorkflow(h)) /\ IsHistory(h)
      BY <1>1, <1>3, <1>6 DEF TransitionAllowed, Status
    <2>2. "valorization" \in WorkflowTypes /\ StepIndex("valorization") = 3
          /\ WorkflowOf("valorization") = "circular" /\ StepsOf("circular") = CircularSteps
          /\ Len(CircularSteps) = 6
      BY TypesAre, StepIndexIs DEF WorkflowOf, WorkflowTypes, StepsOf
    <2> HIDE DEF h
    <2>3. h # << >>
      BY <2>1, <2>2, MayFollowIs
    <2>4. /\ AnalyzeWorkflow(h).valid
          /\ WorkflowOf(h[1].type) = "circular"
          /\ "valorization" \in NextAllowed("circular", Scanned(h))
          /\ Scanned(h).step < 6
      BY <2>1, <2>2, <2>3, MayFollowIs
    <2>5. /\ Scanned(h) \in Scan /\ Scanned(h).step \in 1 .. 6
          /\ Scanned(h).accepted <=> \E k \in 1 .. Len(h) : Transfer(h[k])
      BY <2>1, <2>2, <2>3, <2>4, Reached
    <2>6. Scanned(h).accepted
      <3> DEFINE scan == Scanned(h)
      <3>1. Len(StepsOf("circular")) = 6
        BY <2>2
      <3> HIDE DEF scan
      <3>2. scan \in Scan /\ scan.step \in 1 .. 6 /\ scan.step < 6
            /\ "valorization" \in NextAllowed("circular", scan)
        BY <2>4, <2>5 DEF scan
      <3>3. scan.step # 6
        BY <3>2
      <3>4. scan.accepted
        BY <3>1, <3>2, <3>3, NextIs
      <3>5. QED
        BY <3>4 DEF scan
    <2>7. PICK k \in 1 .. Len(h) : h[k].type = "residue_custody" /\ h[k].fact
      BY <2>5, <2>6 DEF Transfer
    <2>8. QED
      BY <1>2, <2>7 DEF h
  <1>7. ASSUME e.type = "consumer_verification"
        PROVE  \E x \in Recorded(s) : /\ x.subject = e.subject
                                      /\ x.type = "distribution_retail"
    <2> DEFINE h == SubjectWorkflowEvents(s, e.subject)
    <2>1. AnalyzeWorkflow(h).workflow = "product" /\ AnalyzeWorkflow(h).complete
      BY <1>1, <1>7 DEF TransitionAllowed, Status
    <2>2. PICK k \in 1 .. Len(h) : h[k].type = "distribution_retail"
      <3>1. IsHistory(h)
        BY <1>3
      <3> HIDE DEF h
      <3>2. QED
        BY <1>4, <2>1, <3>1, ProductReached
    <2>3. QED
      BY <1>2, <2>2
  <1>8. QED
    BY <1>5, <1>6, <1>7

LEMMA AcceptedIs ==
    ASSUME NEW s \in WorldState, NEW e \in Event, Accepted(s, e)
    PROVE  /\ e.id \notin IdsOf(s)
           /\ e.type # "correction" => RoleOf[e.actor] \in Permissions[e.type]
           /\ e.actor \in s.active \cup {Portal}
           /\ e.type = "correction" =>
                  \E target \in Recorded(s) : /\ target.id = e.target
                                              /\ s.supersededBy[e.target] = NoEvent
  BY DEF Accepted, SubmitAllowed, CorrectAllowed, Live

LEMMA ExecuteType ==
    ASSUME NEW s \in WorldState, ByTheirRole(s), NEW e \in Event, Accepted(s, e)
    PROVE  Execute(s, e) \in WorldState
  <1> DEFINE t == Execute(s, e)
  <1>1. /\ t.log = Append(s.log, e)
        /\ t.supersededBy = IF e.type = "correction"
                            THEN [s.supersededBy EXCEPT ![e.target] = e.id]
                            ELSE s.supersededBy
        /\ t.active = s.active
        /\ t.assets = [w \in Wallets |-> IF w \in {c.wallet : c \in Due(s, e)}
                                         THEN AccountAfter(s, e, w) ELSE s.assets[w]]
        /\ t.rewarded = s.rewarded \cup {c.basis : c \in Due(s, e)}
        /\ t.tokenTxs = s.tokenTxs \cup TokenTxsOf(s, e)
        /\ t = [log |-> t.log, supersededBy |-> t.supersededBy, active |-> t.active,
                assets |-> t.assets, rewarded |-> t.rewarded, tokenTxs |-> t.tokenTxs]
    BY ExecuteIs
  <1> HIDE DEF t
  <1>2. /\ s.log \in Seq(Event) /\ s.supersededBy \in [EventIds -> EventIds \cup {NoEvent}]
        /\ s.active \in SUBSET Wallets /\ s.assets \in [Wallets -> Account]
        /\ s.rewarded \in SUBSET Basis /\ s.tokenTxs \in SUBSET TokenTx
        /\ e.id \in EventIds
    BY DEF WorldState, Event
  <1>3. t.log \in Seq(Event)
    BY <1>1, <1>2
  <1>4. t.supersededBy \in [EventIds -> EventIds \cup {NoEvent}]
    BY <1>1, <1>2
  <1>5. t.assets \in [Wallets -> Account]
    BY <1>1, <1>2, AccountAfterIs
  <1>6. t.rewarded \in SUBSET Basis
    <2>1. \A c \in Due(s, e) : c.basis \in Basis
      BY CreditsAre DEF Due, Credit
    <2>2. QED
      BY <1>1, <1>2, <2>1
  <1>7. t.tokenTxs \in SUBSET TokenTx
    BY <1>1, <1>2, TokenTxsAre
  <1>8. QED
    BY <1>1, <1>2, <1>3, <1>4, <1>5, <1>6, <1>7 DEF WorldState, t

(* An event that is accepted keeps the state sound. *)
LEMMA ExecuteSound ==
    ASSUME NEW s, Sound(s), NEW e \in Event, Accepted(s, e)
    PROVE  Sound(Execute(s, e))
  <1> DEFINE t == Execute(s, e)
  <1>0. s \in WorldState /\ ByTheirRole(s)
    BY DEF Sound
  <1>1. s \in WorldState /\ ByTheirRole(s) /\ t \in WorldState
    BY <1>0, ExecuteType
  <1>2. /\ e.id \notin IdsOf(s) /\ e.id \in EventIds
        /\ e.type # "correction" => RoleOf[e.actor] \in Permissions[e.type]
        /\ e.type = "correction" =>
               \E target \in Recorded(s) : /\ target.id = e.target
                                           /\ s.supersededBy[e.target] = NoEvent
    BY <1>1, AcceptedIs DEF Event
  <1>3. /\ Len(t.log) = Len(s.log) + 1 /\ t.log[Len(t.log)] = e
        /\ \A k \in 1 .. Len(s.log) : t.log[k] = s.log[k]
        /\ Recorded(t) = Recorded(s) \cup {e}
        /\ IdsOf(t) = IdsOf(s) \cup {e.id}
    BY <1>0, RecordedAfter
  <1>4. /\ t.supersededBy = IF e.type = "correction"
                            THEN [s.supersededBy EXCEPT ![e.target] = e.id]
                            ELSE s.supersededBy
        /\ t.assets = [w \in Wallets |-> IF w \in {c.wallet : c \in Due(s, e)}
                                         THEN AccountAfter(s, e, w) ELSE s.assets[w]]
        /\ t.rewarded = s.rewarded \cup {c.basis : c \in Due(s, e)}
        /\ t.tokenTxs = s.tokenTxs \cup TokenTxsOf(s, e)
    BY <1>0, ExecuteIs
  <1>5. /\ Len(s.log) \in Nat
        /\ \A k \in 1 .. Len(s.log) : s.log[k] \in Recorded(s) /\ s.log[k] \in Event
        /\ \A x \in Recorded(s) : x.id \in IdsOf(s)
    <2>1. s.log \in Seq(Event)
      BY <1>0 DEF WorldState
    <2>2. QED
      BY <2>1 DEF Recorded, IdsOf
  <1> HIDE DEF t
  <1>6. ASSUME NEW k \in 1 .. Len(t.log)
        PROVE  k \in 1 .. Len(s.log) \/ k = Len(s.log) + 1
    BY <1>3, <1>5
  <1>7. ByTheirRole(t)
    BY <1>1, <1>2, <1>3 DEF ByTheirRole
  <1>8. UniqueIds(t)
    <2>1. SUFFICES ASSUME NEW j \in 1 .. Len(t.log), NEW k \in 1 .. Len(t.log),
                          t.log[j].id = t.log[k].id
                   PROVE  j = k
      BY DEF UniqueIds
    <2>2. \A i \in 1 .. Len(s.log) : t.log[i].id \in IdsOf(s)
      BY <1>3, <1>5
    <2>3. \A i, m \in 1 .. Len(s.log) : t.log[i].id = t.log[m].id => i = m
      BY <1>3 DEF Sound, UniqueIds
    <2>4. t.log[Len(s.log) + 1].id \notin IdsOf(s)
      BY <1>2, <1>3
    <2>5. QED
      BY <1>6, <2>1, <2>2, <2>3, <2>4
  <1>9. WritersRecorded(t)
    <2>1. ASSUME NEW w \in Wallets
          PROVE  t.assets[w].writer = e.id \/ t.assets[w] = s.assets[w]
      BY <1>1, <1>4, AccountAfterIs
    <2>2. QED
      BY <1>3, <2>1 DEF Sound, WritersRecorded
  <1>10. Chained(t)
    <2>1. SUFFICES ASSUME NEW k \in 1 .. Len(t.log), t.log[k].type = "correction"
                   PROVE  /\ t.supersededBy[t.log[k].target] = t.log[k].id
                          /\ \E j \in 1 .. k - 1 : t.log[j].id = t.log[k].target
      BY DEF Chained
    <2>2. CASE k \in 1 .. Len(s.log)
      <3>1. /\ s.log[k].type = "correction" /\ t.log[k] = s.log[k]
            /\ s.supersededBy[s.log[k].target] = s.log[k].id
        BY <1>3, <2>1, <2>2 DEF Sound, Chained
      <3>2. PICK j \in 1 .. k - 1 : s.log[j].id = s.log[k].target
        BY <2>2, <3>1 DEF Sound, Chained
      <3>3. j \in 1 .. Len(s.log)
        BY <1>5, <2>2, <3>2
      <3>4. s.log[k].id \in EventIds /\ NoEvent \notin EventIds
        BY <1>5, <2>2, BoundsAssumption DEF Event, EventIds, NoEvent
      <3>5. e.type = "correction" => e.target # s.log[k].target
        BY <1>2, <3>1, <3>4
      <3>6. t.supersededBy[s.log[k].target] = s.supersededBy[s.log[k].target]
        BY <1>1, <1>4, <3>5 DEF WorldState
      <3>7. QED
        BY <1>3, <3>1, <3>2, <3>3, <3>6
    <2>3. CASE k = Len(s.log) + 1
      <3>1. t.log[k] = e /\ e.type = "correction"
        BY <1>3, <2>1, <2>3
      <3>2. PICK target \in Recorded(s) : target.id = e.target
        BY <1>2, <3>1
      <3>3. PICK j \in 1 .. Len(s.log) : s.log[j] = target
        BY DEF Recorded
      <3>4. e.target \in EventIds
        BY <1>5, <3>2, <3>3 DEF Event
      <3>5. t.supersededBy[e.target] = e.id
        BY <1>1, <1>4, <3>1, <3>4 DEF WorldState
      <3>6. k - 1 = Len(s.log)
        BY <1>5, <2>3
      <3>7. QED
        BY <1>3, <3>1, <3>2, <3>3, <3>5, <3>6
    <2>4. QED
      BY <1>6, <2>2, <2>3
  <1>11. PaidOnce(t)
    <2>1. /\ \A x \in TokenTxsOf(s, e) :
                 /\ x.credit \in Due(s, e) /\ x.credit.basis \notin s.rewarded
                 /\ x.credit.basis \in t.rewarded
          /\ \A x, y \in TokenTxsOf(s, e) : x.credit = y.credit => x = y
      BY <1>1, <1>4, TokenTxsAre DEF Due
    <2>2. \A c, d \in Due(s, e) : c.basis = d.basis => c = d
      BY <1>1, CreditsAre DEF Due
    <2>3. \A x \in s.tokenTxs : x.credit.basis \in s.rewarded
      BY DEF Sound, PaidOnce
    <2>4. \A x, y \in s.tokenTxs : x.credit.basis = y.credit.basis => x = y
      BY DEF Sound, PaidOnce
    <2>5. QED
      BY <1>4, <2>1, <2>2, <2>3, <2>4 DEF PaidOnce
  <1>12. StagesOnce(t)
    <2>1. SUFFICES ASSUME NEW b \in Subjects, NEW type \in WorkflowTypes \ Repeatable,
                          NEW x \in LiveOf(t, b, type), NEW y \in LiveOf(t, b, type)
                   PROVE  x = y
      BY DEF StagesOnce
    <2>2. x \in LiveOf(s, b, type) \cup {e} /\ y \in LiveOf(s, b, type) \cup {e}
      <3>1. \A z \in Recorded(s) : t.supersededBy[z.id] = NoEvent
                                       => s.supersededBy[z.id] = NoEvent
        <4>1. ASSUME NEW z \in Recorded(s), t.supersededBy[z.id] = NoEvent
              PROVE  s.supersededBy[z.id] = NoEvent
          <5>1. z.id \in EventIds /\ e.id # NoEvent
            BY <1>1, <1>2, RecordedIs, BoundsAssumption DEF Event, EventIds, NoEvent
          <5>2. s.supersededBy \in [EventIds -> EventIds \cup {NoEvent}]
            BY <1>1 DEF WorldState
          <5>3. QED
            BY <1>4, <4>1, <5>1, <5>2
        <4>2. QED
          BY <4>1
      <3>2. QED
        BY <1>3, <2>1, <3>1 DEF LiveOf, Live
    <2>3. \A u, v \in LiveOf(s, b, type) : u = v
      BY DEF Sound, StagesOnce
    <2>4. ASSUME e \in LiveOf(t, b, type)
          PROVE  LiveOf(s, b, type) = {}
      <3>1. e.subject = b /\ e.type = type /\ type # "correction"
            /\ type # "consumer_verification"
        BY <2>4, TypesAre DEF LiveOf, WorkflowTypes
      <3>2. MayFollow(type, Status(s, b))
        BY <3>1 DEF Accepted, SubmitAllowed, CorrectAllowed, TransitionAllowed
      <3>3. UniqueIds(s)
        BY DEF Sound
      <3>4. QED
        BY <1>0, <3>2, <3>3, NotYet
    <2>5. QED
      BY <2>1, <2>2, <2>3, <2>4
  <1>13. Grounded(t)
    <2>1. ASSUME NEW x \in Recorded(s)
          PROVE  \E j \in 1 .. Len(s.log) : t.log[j] = x
      BY <1>3 DEF Recorded
    <2>2. ASSUME NEW k \in 1 .. Len(s.log), NEW subject, NEW type, NEW fact,
                 EarlierOn(s, k, subject, type, fact)
          PROVE  EarlierOn(t, k, subject, type, fact)
      <3>1. \A j \in 1 .. k - 1 : j \in 1 .. Len(s.log)
        BY <1>5
      <3>2. QED
        BY <1>3, <2>2, <3>1 DEF EarlierOn
    <2>3. ASSUME NEW k \in 1 .. Len(t.log)
          PROVE  LET x == t.log[k]
                 IN  /\ x.type = "residue_generation" =>
                            EarlierOn(t, k, x.origin, "milling", FALSE)
                     /\ x.type = "valorization" =>
                            EarlierOn(t, k, x.subject, "residue_custody", TRUE)
                     /\ x.type = "consumer_verification" =>
                            EarlierOn(t, k, x.subject, "distribution_retail", FALSE)
      <3>1. CASE k \in 1 .. Len(s.log)
        BY <1>3, <2>2, <3>1 DEF Sound, Grounded
      <3>2. CASE k = Len(s.log) + 1
        <4>1. t.log[k] = e /\ k - 1 = Len(s.log)
          BY <1>3, <1>5, <3>2
        <4>2. UniqueIds(s)
          BY DEF Sound
        <4>3. /\ e.type = "residue_generation" =>
                     \E x \in Recorded(s) : x.subject = e.origin /\ x.type = "milling"
              /\ e.type = "valorization" =>
                     \E x \in Recorded(s) : /\ x.subject = e.subject
                                            /\ x.type = "residue_custody" /\ x.fact
              /\ e.type = "consumer_verification" =>
                     \E x \in Recorded(s) : /\ x.subject = e.subject
                                            /\ x.type = "distribution_retail"
          BY <1>0, <4>2, GroundsAre
        <4>4. QED
          BY <2>1, <4>1, <4>3 DEF EarlierOn
      <3>3. QED
        BY <1>6, <3>1, <3>2
    <2>4. QED
      BY <2>3 DEF Grounded
  <1>14. QED
    BY <1>1, <1>7, <1>8, <1>9, <1>10, <1>11, <1>12, <1>13 DEF Sound, t

(* A revocation touches none of the rest. *)
LEMMA RevokedIs ==
    ASSUME NEW s, Sound(s), NEW w
    PROVE  LET t == Revoked(s, w)
           IN  /\ Sound(t) /\ t.log = s.log /\ t.assets = s.assets
               /\ t.supersededBy = s.supersededBy
               /\ Recorded(t) = Recorded(s) /\ IdsOf(t) = IdsOf(s)
  <1> DEFINE t == Revoked(s, w)
  <1>1. s \in WorldState
    BY DEF Sound
  <1>2. s = [log |-> s.log, supersededBy |-> s.supersededBy, active |-> s.active,
             assets |-> s.assets, rewarded |-> s.rewarded, tokenTxs |-> s.tokenTxs]
    BY <1>1 DEF WorldState
  <1>3. t = [log |-> s.log, supersededBy |-> s.supersededBy, active |-> s.active \ {w},
             assets |-> s.assets, rewarded |-> s.rewarded, tokenTxs |-> s.tokenTxs]
    BY <1>2 DEF Revoked
  <1> HIDE DEF t
  <1>4. /\ t.log = s.log /\ t.supersededBy = s.supersededBy /\ t.active \subseteq s.active
        /\ t.assets = s.assets /\ t.rewarded = s.rewarded /\ t.tokenTxs = s.tokenTxs
    BY <1>3
  <1>5. t \in WorldState
    BY <1>1, <1>3 DEF WorldState
  <1>6. Recorded(t) = Recorded(s) /\ IdsOf(t) = IdsOf(s)
    BY <1>4 DEF Recorded, IdsOf
  <1>7. Sound(t)
    BY <1>4, <1>5, <1>6 DEF Sound, ByTheirRole, UniqueIds, WritersRecorded, Chained,
       PaidOnce, StagesOnce, LiveOf, Live, Grounded, EarlierOn
  <1>8. QED
    BY <1>4, <1>6, <1>7 DEF t

LEMMA EmptySound ==
    ASSUME NEW trust \in StartTrust
    PROVE  /\ Sound(EmptyState(trust))
           /\ IdsOf(EmptyState(trust)) = {} /\ Len(EmptyState(trust).log) = 0
  <1> DEFINE t == EmptyState(trust)
  <1>1. /\ t = [log |-> << >>, supersededBy |-> [i \in EventIds |-> NoEvent],
                active |-> Wallets,
                assets |-> [w \in Wallets |-> [OLIVE |-> 0, TRUST |-> trust, ECO |-> 0,
                                               writer |-> NoEvent]],
                rewarded |-> {}, tokenTxs |-> {}]
        /\ trust \in 0 .. TrustCap
    BY StartAssumption DEF EmptyState
  <1> HIDE DEF t
  <1>2. /\ t.log = << >> /\ t.supersededBy = [i \in EventIds |-> NoEvent]
        /\ t.assets = [w \in Wallets |-> [OLIVE |-> 0, TRUST |-> trust, ECO |-> 0,
                                          writer |-> NoEvent]]
        /\ t.rewarded = {} /\ t.tokenTxs = {}
    BY <1>1
  <1>3. \A w \in Wallets : t.assets[w] \in Account /\ t.assets[w].writer = NoEvent
    BY <1>1, <1>2 DEF Account
  <1>4. t \in WorldState
    <2>1. t.assets \in [Wallets -> Account]
      BY <1>2, <1>3
    <2>2. t.log \in Seq(Event)
      BY <1>2
    <2>3. QED
      BY <1>1, <1>2, <2>1, <2>2 DEF WorldState
  <1>5. Len(t.log) = 0 /\ Recorded(t) = {} /\ IdsOf(t) = {}
    <2>1. Len(t.log) = 0 /\ 1 .. 0 = {}
      BY <1>2
    <2>2. QED
      BY <2>1 DEF Recorded, IdsOf
  <1>6. Sound(t)
    <2>1. 1 .. Len(t.log) = {}
      BY <1>5
    <2>2. QED
      BY <1>2, <1>3, <1>4, <1>5, <2>1 DEF Sound, ByTheirRole, UniqueIds, WritersRecorded,
         Chained, PaidOnce, StagesOnce, LiveOf, Grounded
  <1>7. QED
    BY <1>5, <1>6 DEF t

(* So is every state the channel may start in. *)
LEMMA StartSound == \A s \in StartStates : Sound(s)
  <1>1. SUFFICES ASSUME NEW log \in StartLogs, NEW trust \in StartTrust
                 PROVE  Sound(Replay(log, trust)[Len(log)])
    BY DEF StartStates
  <1> DEFINE state == Replay(log, trust)
             SoundUpTo == {n \in 0 .. Len(log) : Sound(state[n])}
  <1>2. log \in Seq(Event) /\ Len(log) \in Nat
    BY StartAssumption
  <1>3. /\ state[0] = EmptyState(trust)
        /\ \A n \in 1 .. Len(log) : state[n] = Execute(state[n - 1], log[n])
    BY <1>2, ReplayIs
  <1>4. \A n \in 1 .. Len(log) : Accepted(state[n - 1], log[n]) /\ log[n] \in Event
    BY <1>2, StartAssumption
  <1> HIDE DEF state
  <1>5. \A n \in 0 .. Len(log) : n \in SoundUpTo
    <2>1. 0 \in SoundUpTo
      BY <1>2, <1>3, EmptySound
    <2>2. \A n \in 1 .. Len(log) : n - 1 \in SoundUpTo => n \in SoundUpTo
      BY <1>2, <1>3, <1>4, ExecuteSound
    <2> HIDE DEF SoundUpTo
    <2>3. QED
      BY <1>2, <2>1, <2>2, UpTo
  <1>6. QED
    BY <1>2, <1>5 DEF state
-----------------------------------------------------------------------------
(* A state and a later one *)

Past(s, t) ==
    /\ Recorded(s) \subseteq Recorded(t)
    /\ \A w \in Wallets : \/ t.assets[w] = s.assets[w]
                          \/ t.assets[w].writer \notin IdsOf(s) \cup {NoEvent}

LEMMA PastExecute ==
    ASSUME NEW s, NEW t, Sound(t), Past(s, t), NEW e \in Event, Accepted(t, e)
    PROVE  Past(s, Execute(t, e))
  <1>1. t \in WorldState /\ ByTheirRole(t)
    BY DEF Sound
  <1>2. e.id \notin IdsOf(t) /\ e.id # NoEvent
    BY <1>1, AcceptedIs, BoundsAssumption DEF Event, EventIds, NoEvent
  <1>3. e.id \notin IdsOf(s)
    BY <1>2 DEF Past, IdsOf
  <1>4. Recorded(Execute(t, e)) = Recorded(t) \cup {e}
    BY <1>1, RecordedAfter
  <1>5. ASSUME NEW w \in Wallets
        PROVE  \/ Execute(t, e).assets[w] = t.assets[w]
               \/ Execute(t, e).assets[w].writer = e.id
    <2>1. Execute(t, e).assets = [x \in Wallets |-> IF x \in {c.wallet : c \in Due(t, e)}
                                                   THEN AccountAfter(t, e, x)
                                                   ELSE t.assets[x]]
      BY <1>1, ExecuteIs
    <2>2. w \in {c.wallet : c \in Due(t, e)} => AccountAfter(t, e, w).writer = e.id
      BY <1>1, AccountAfterIs
    <2>3. QED
      BY <2>1, <2>2
  <1>6. QED
    BY <1>2, <1>3, <1>4, <1>5 DEF Past

\* What a transaction learns of one subject is the same in both.
SameOf(s, t, b) ==
    /\ \A x : (x \in Recorded(s) /\ x.subject = b) <=> (x \in Recorded(t) /\ x.subject = b)
    /\ \A x \in Recorded(s) : x.subject = b => s.supersededBy[x.id] = t.supersededBy[x.id]

LEMMA ListedSame ==
    ASSUME NEW s, NEW t, Sound(s), Sound(t), Past(s, t), NEW e \in Event,
           ListReads(s, e) = ListReads(t, e),
           NEW b \in Listed(s, e) \cap Listed(t, e)
    PROVE  SameOf(s, t, b)
  <1>1. ASSUME NEW x \in Recorded(s), x.subject = b
        PROVE  x \in Recorded(t) /\ s.supersededBy[x.id] = t.supersededBy[x.id]
    <2>1. [id |-> x.id, supersededBy |-> s.supersededBy[x.id]] \in ListReads(s, e)
      BY <1>1 DEF ListReads, Supersession
    <2>2. PICK y \in Recorded(t) : [id |-> x.id, supersededBy |-> s.supersededBy[x.id]]
                                   = [id |-> y.id, supersededBy |-> t.supersededBy[y.id]]
      BY <2>1 DEF ListReads, Supersession
    <2>3. x.id = y.id /\ s.supersededBy[x.id] = t.supersededBy[y.id]
      BY <2>2
    <2>4. QED
      BY <2>3 DEF Past
  <1>2. ASSUME NEW x \in Recorded(t), x.subject = b
        PROVE  x \in Recorded(s)
    <2>1. [id |-> x.id, supersededBy |-> t.supersededBy[x.id]] \in ListReads(t, e)
      BY <1>2 DEF ListReads, Supersession
    <2>2. PICK y \in Recorded(s) : [id |-> x.id, supersededBy |-> t.supersededBy[x.id]]
                                   = [id |-> y.id, supersededBy |-> s.supersededBy[y.id]]
      BY <2>1 DEF ListReads, Supersession
    <2>3. x.id = y.id /\ y \in Recorded(t)
      BY <2>2 DEF Past
    <2>4. x = y
      BY <2>3 DEF Sound, UniqueIds, Recorded
    <2>5. QED
      BY <2>4
  <1>3. QED
    BY <1>1, <1>2 DEF SameOf

LEMMA SameLive ==
    ASSUME NEW s, NEW t, NEW b, SameOf(s, t, b)
    PROVE  /\ \A type : LiveOf(s, b, type) = LiveOf(t, b, type)
           /\ Status(s, b) = Status(t, b)
  <1>1. ASSUME NEW type
        PROVE  LiveOf(s, b, type) = LiveOf(t, b, type)
    BY DEF SameOf, LiveOf, Live
  <1>2. StepsInForce(s, b) = StepsInForce(t, b)
    BY DEF SameOf, StepsInForce, Live
  <1>3. QED
    BY <1>1, <1>2 DEF Status, SubjectWorkflowEvents

(* A transaction whose read set is the same in a later state would be       *)
(* accepted there, and write the same.                                     *)
LEMMA ReadsDetermine ==
    ASSUME NEW s, NEW t, Sound(s), Sound(t), Past(s, t), NEW e \in Event,
           Accepted(s, e), ReadSet(s, e) = ReadSet(t, e)
    PROVE  Accepted(t, e) /\ WriteSet(s, e) = WriteSet(t, e)
  <1> DEFINE opened(q) == {c \in Credits(q, e) : c.token # "ECO" \/ c.basis \notin q.rewarded}
             keys(q) == Supersession(q, {x \in Recorded(q) : x.id \in {e.id, e.target}})
             accounts(q) == {<< c.wallet, q.assets[c.wallet].writer >> : c \in opened(q)}
             rewarded(q) == {c.basis : c \in Credits(q, e)} \cap q.rewarded
  <1>1. /\ ListReads(s, e) = ListReads(t, e)
        /\ keys(s) = keys(t)
        /\ WalletRead(s, e) = WalletRead(t, e)
        /\ accounts(s) = accounts(t)
        /\ rewarded(s) = rewarded(t)
    <2>1. \A q : ReadSet(q, e) = [lists |-> ListReads(q, e), keys |-> keys(q),
                                  wallet |-> WalletRead(q, e), accounts |-> accounts(q),
                                  rewarded |-> rewarded(q)]
      BY DEF ReadSet
    <2> HIDE DEF keys, accounts, rewarded
    <2>2. \A q : /\ ReadSet(q, e).lists = ListReads(q, e)
                 /\ ReadSet(q, e).keys = keys(q)
                 /\ ReadSet(q, e).wallet = WalletRead(q, e)
                 /\ ReadSet(q, e).accounts = accounts(q)
                 /\ ReadSet(q, e).rewarded = rewarded(q)
      BY <2>1
    <2>3. QED
      BY <2>2
  <1>2. e.actor \in s.active <=> e.actor \in t.active
    BY <1>1 DEF WalletRead
  <1>3. e.id \notin IdsOf(s) /\ e.id \notin IdsOf(t)
    <2>1. e.id \notin IdsOf(s)
      BY AcceptedIs DEF Sound
    <2>2. ASSUME NEW y \in Recorded(t), y.id = e.id
          PROVE  FALSE
      <3>1. [id |-> y.id, supersededBy |-> t.supersededBy[y.id]] \in keys(t)
        BY <2>2 DEF Supersession
      <3> HIDE DEF keys
      <3>1a. [id |-> y.id, supersededBy |-> t.supersededBy[y.id]] \in keys(s)
        BY <1>1, <3>1
      <3>2. PICK x \in Recorded(s) : [id |-> y.id, supersededBy |-> t.supersededBy[y.id]]
                                     = [id |-> x.id, supersededBy |-> s.supersededBy[x.id]]
        BY <3>1a DEF Supersession, keys
      <3>3. x.id = e.id
        BY <2>2, <3>2
      <3>4. QED
        BY <2>1, <3>3 DEF IdsOf
    <2>3. QED
      BY <2>1, <2>2 DEF IdsOf
  <1>4. e.type # "correction" => SameOf(s, t, e.subject)
    BY <1>1, ListedSame DEF Listed
  <1>5. e.type = "residue_generation" => SameOf(s, t, e.origin)
    BY <1>1, ListedSame DEF Listed
  <1>6. e.type # "correction" =>
            /\ \A type : LiveOf(s, e.subject, type) = LiveOf(t, e.subject, type)
            /\ Status(s, e.subject) = Status(t, e.subject)
    BY <1>4, SameLive
  <1>7. e.type = "env_accounting" =>
            \A g \in LiveOf(s, e.subject, "residue_generation") :
                SameOf(s, t, g.origin)
    <2>1. SUFFICES ASSUME e.type = "env_accounting",
                          NEW g \in LiveOf(s, e.subject, "residue_generation")
                   PROVE  SameOf(s, t, g.origin)
      OBVIOUS
    <2>2. g \in LiveOf(t, e.subject, "residue_generation")
      BY <1>6, <2>1
    <2>3. g.origin \in Listed(s, e) \cap Listed(t, e)
      BY <2>1, <2>2 DEF Listed
    <2>4. QED
      BY <1>1, <2>3, ListedSame
  <1>8. Accepted(t, e)
    <2>1. CASE SubmitAllowed(s, e)
      <3>1. e.type # "correction"
        BY <2>1 DEF SubmitAllowed
      <3>2. e.type = "residue_generation" => Status(s, e.origin) = Status(t, e.origin)
        BY <1>5, SameLive
      <3>3. TransitionAllowed(t, e)
        BY <1>6, <2>1, <3>1, <3>2 DEF SubmitAllowed, TransitionAllowed
      <3>4. QED
        BY <1>2, <1>3, <2>1, <3>3 DEF SubmitAllowed, Accepted
    <2>2. CASE CorrectAllowed(s, e)
      <3>1. PICK target \in Recorded(s) :
                /\ target.id = e.target
                /\ target.subject = e.subject
                /\ RoleOf[target.actor] = RoleOf[e.actor]
                /\ s.supersededBy[target.id] = NoEvent
        BY <2>2 DEF CorrectAllowed, Live
      <3>2. target \in Recorded(t)
        BY DEF Past
      <3>3. [id |-> target.id, supersededBy |-> s.supersededBy[target.id]] \in keys(s)
        BY <3>1 DEF Supersession
      <3> HIDE DEF keys
      <3>3a. [id |-> target.id, supersededBy |-> s.supersededBy[target.id]] \in keys(t)
        BY <1>1, <3>3
      <3>4. PICK y \in Recorded(t) :
                [id |-> target.id, supersededBy |-> s.supersededBy[target.id]]
                = [id |-> y.id, supersededBy |-> t.supersededBy[y.id]]
        BY <3>3a DEF Supersession, keys
      <3>5. t.supersededBy[target.id] = NoEvent
        BY <3>1, <3>4
      <3>6. QED
        BY <1>2, <1>3, <2>2, <3>1, <3>2, <3>5 DEF CorrectAllowed, Accepted, Live
    <2>3. QED
      BY <2>1, <2>2 DEF Accepted
  <1>9. Credits(s, e) = Credits(t, e)
    <2>1. CASE e.type = "env_accounting"
      <3>1. \A type : LiveOf(s, e.subject, type) = LiveOf(t, e.subject, type)
        BY <1>6, <2>1
      <3>2. \A g \in LiveOf(t, e.subject, "residue_generation") :
                LiveOf(s, g.origin, "milling") = LiveOf(t, g.origin, "milling")
        BY <1>7, <2>1, <3>1, SameLive
      <3> DEFINE origins == {g.origin : g \in LiveOf(t, e.subject, "residue_generation")}
      <3>3. \A b \in origins : LiveOf(s, b, "milling") = LiveOf(t, b, "milling")
        BY <3>2
      <3>4. UNION {LiveOf(s, b, "milling") : b \in origins}
            = UNION {LiveOf(t, b, "milling") : b \in origins}
        BY <3>3
      <3>5. EcoCredits(s, e.subject) = EcoCredits(t, e.subject)
        <4>1. /\ LiveOf(s, e.subject, "useful_output") = LiveOf(t, e.subject, "useful_output")
              /\ {g.origin : g \in LiveOf(s, e.subject, "residue_generation")} = origins
          BY <3>1
        <4> HIDE DEF origins
        <4>2. EcoCredits(s, e.subject) =
                LET energy == {o \in LiveOf(t, e.subject, "useful_output") : o.fact}
                    milled == UNION {LiveOf(s, b, "milling") : b \in origins}
                IN  IF energy = {} \/ milled = {} THEN {}
                    ELSE {Grant((CHOOSE m \in milled : TRUE).actor, "ECO",
                                Cardinality(energy), ForSubject("bioenergy", e.subject))}
          BY <4>1, Zenon DEF EcoCredits
        <4>3. EcoCredits(t, e.subject) =
                LET energy == {o \in LiveOf(t, e.subject, "useful_output") : o.fact}
                    milled == UNION {LiveOf(t, b, "milling") : b \in origins}
                IN  IF energy = {} \/ milled = {} THEN {}
                    ELSE {Grant((CHOOSE m \in milled : TRUE).actor, "ECO",
                                Cardinality(energy), ForSubject("bioenergy", e.subject))}
          BY Zenon DEF EcoCredits, origins
        <4>4. QED
          BY <3>4, <4>2, <4>3, Zenon
      <3>6. QED
        BY <3>5 DEF Credits
    <2>2. CASE e.type # "env_accounting"
      BY <2>2 DEF Credits
    <2>3. QED
      BY <2>1, <2>2
  <1>10. /\ Due(s, e) = Due(t, e)
         /\ \A c \in Credits(s, e) : c.basis \in s.rewarded <=> c.basis \in t.rewarded
    BY <1>1, <1>9 DEF Due
  <1>11. opened(s) = opened(t)
    BY <1>9, <1>10
  <1>12. ASSUME NEW c \in Due(s, e)
         PROVE  s.assets[c.wallet] = t.assets[c.wallet]
    <2>1. c \in opened(s)
      BY DEF Due
    <2>2. << c.wallet, s.assets[c.wallet].writer >> \in accounts(t)
      BY <1>1, <2>1
    <2>3. PICK d \in opened(t) : << c.wallet, s.assets[c.wallet].writer >>
                                 = << d.wallet, t.assets[d.wallet].writer >>
      BY <2>2
    <2>4. s.assets[c.wallet].writer = t.assets[c.wallet].writer
      BY <2>3
    <2>5. c.wallet \in Wallets
      BY CreditsAre DEF Due, Sound, Credit
    <2>6. s.assets[c.wallet].writer \in IdsOf(s) \cup {NoEvent}
      BY <2>5 DEF Sound, WritersRecorded
    <2>7. QED
      BY <2>4, <2>5, <2>6 DEF Past
  <1>13. \A w \in {c.wallet : c \in Due(s, e)} : AccountAfter(s, e, w) = AccountAfter(t, e, w)
    BY <1>10, <1>12 DEF AccountAfter
  <1>14. TokenTxsOf(s, e) = TokenTxsOf(t, e)
    BY <1>10, <1>12 DEF TokenTxsOf
  <1>15. QED
    BY <1>8, <1>10, <1>13, <1>14 DEF WriteSet
-----------------------------------------------------------------------------
(* The inductive invariant: what is under way was endorsed on an earlier,   *)
(* sound state of the channel.                                             *)

Endorsed(tx) ==
    /\ tx.event \in Event
    /\ \E s \in WorldState :
           /\ Sound(s) /\ Past(s, ws) /\ Accepted(s, tx.event)
           /\ tx.reads = ReadSet(s, tx.event)
           /\ tx.writes = WriteSet(s, tx.event)

IInv ==
    /\ Sound(ws)
    /\ \A tx \in pool : Endorsed(tx)
    /\ nextId \in 1 .. MaxEvents + 1

LEMMA InitInv == Init => IInv
  <1>1. SUFFICES ASSUME Init PROVE IInv
    OBVIOUS
  <1>2. StartIds \in Nat /\ StartIds <= MaxEvents /\ MaxEvents \in Nat
    BY StartIdsAssumption, BoundsAssumption
  <1>3. QED
    BY <1>1, <1>2, StartSound DEF Init, IInv

\* A transaction that is valid at commit ran on what is there now.
LEMMA ValidIsCurrent ==
    ASSUME IInv, NEW tx \in pool, tx.reads = ReadSet(ws, tx.event)
    PROVE  /\ tx.event \in Event /\ Accepted(ws, tx.event)
           /\ Apply(ws, tx.writes) = Execute(ws, tx.event)
  <1>1. PICK s \in WorldState :
            /\ Sound(s) /\ Past(s, ws) /\ Accepted(s, tx.event)
            /\ tx.reads = ReadSet(s, tx.event)
            /\ tx.writes = WriteSet(s, tx.event)
    BY DEF IInv, Endorsed
  <1>2. tx.event \in Event /\ Sound(ws)
    BY DEF IInv, Endorsed
  <1>3. ReadSet(s, tx.event) = ReadSet(ws, tx.event)
    BY <1>1
  <1>4. Accepted(ws, tx.event) /\ WriteSet(s, tx.event) = WriteSet(ws, tx.event)
    <2> DEFINE e == tx.event
    <2>1. e \in Event /\ Sound(s) /\ Sound(ws) /\ Past(s, ws) /\ Accepted(s, e)
          /\ ReadSet(s, e) = ReadSet(ws, e)
      BY <1>1, <1>2, <1>3
    <2> HIDE DEF e
    <2>2. Accepted(ws, e) /\ WriteSet(s, e) = WriteSet(ws, e)
      BY <2>1, ReadsDetermine
    <2>3. QED
      BY <2>2 DEF e
  <1>5. QED
    BY <1>1, <1>2, <1>4 DEF Execute

LEMMA ProposeInv == IInv /\ ProposeAny => IInv'
  <1>1. SUFFICES ASSUME IInv, ProposeAny PROVE IInv'
    OBVIOUS
  <1>2. PICK actor \in Actors, type \in EventTypes, subject \in Subjects,
             stamp \in Stamps :
         \E fact \in Facts(type), origin \in Origins(type), target \in Targets(type) :
             Propose([id |-> nextId, type |-> type, subject |-> subject,
                      actor |-> actor, time |-> stamp, fact |-> fact,
                      origin |-> origin, target |-> target])
    BY <1>1 DEF ProposeAny
  <1>3. PICK fact \in Facts(type), origin \in Origins(type), target \in Targets(type) :
             Propose([id |-> nextId, type |-> type, subject |-> subject,
                      actor |-> actor, time |-> stamp, fact |-> fact,
                      origin |-> origin, target |-> target])
    BY <1>2
  <1> DEFINE e == [id |-> nextId, type |-> type, subject |-> subject,
                   actor |-> actor, time |-> stamp, fact |-> fact,
                   origin |-> origin, target |-> target]
             tx == [event |-> e, reads |-> ReadSet(ws, e), writes |-> WriteSet(ws, e)]
  <1>4. Sound(ws) /\ ws \in WorldState
    BY <1>1 DEF IInv, Sound
  <1>5. /\ nextId \in EventIds /\ nextId + 1 \in 1 .. MaxEvents + 1
        /\ stamp \in Times
    <2>1. /\ MaxEvents \in Nat /\ nextId \in 1 .. MaxEvents + 1
          /\ nextId <= MaxEvents /\ stamp \in Times
      BY <1>1, BoundsAssumption DEF IInv, ProposeAny, Stamps
    <2>2. QED
      BY <2>1 DEF EventIds
  <1>6. fact \in BOOLEAN /\ origin \in Subjects \cup {NoSubject}
        /\ target \in EventIds \cup {NoEvent}
    BY <1>4, RecordedIs DEF Facts, Origins, Targets
  <1>7. e \in Event
    BY <1>5, <1>6 DEF Event
  <1> HIDE DEF e
  <1>8. /\ Accepted(ws, e)
        /\ pool' = pool \cup {tx}
        /\ nextId' = nextId + 1
        /\ ws' = ws
    BY <1>3 DEF Propose, e
  <1>9. Past(ws, ws)
    BY DEF Past
  <1>10. tx.event = e /\ tx.reads = ReadSet(ws, e) /\ tx.writes = WriteSet(ws, e)
    OBVIOUS
  <1> HIDE DEF tx
  <1>11. Endorsed(tx)
    BY <1>4, <1>7, <1>8, <1>9, <1>10 DEF Endorsed
  <1>12. \A u \in pool : Endorsed(u)
    BY <1>1 DEF IInv
  <1>13. \A u \in pool' : Endorsed(u)'
    BY <1>8, <1>11, <1>12 DEF Endorsed
  <1>14. QED
    BY <1>1, <1>5, <1>8, <1>13 DEF IInv

LEMMA CommitInv ==
    ASSUME IInv, NEW tx \in pool, Commit(tx)
    PROVE  IInv'
  <1>1. /\ tx.event \in Event /\ Accepted(ws, tx.event)
        /\ ws' = Execute(ws, tx.event)
        /\ pool' \subseteq pool /\ nextId' = nextId
    BY ValidIsCurrent DEF Commit
  <1>2. Sound(ws) /\ nextId \in 1 .. MaxEvents + 1
    BY DEF IInv
  <1>3. Sound(ws')
    BY <1>1, <1>2, ExecuteSound
  <1>4. ASSUME NEW u \in pool
        PROVE  Endorsed(u)'
    <2>1. u.event \in Event
      BY DEF IInv, Endorsed
    <2>2. PICK s \in WorldState :
              /\ Sound(s) /\ Past(s, ws) /\ Accepted(s, u.event)
              /\ u.reads = ReadSet(s, u.event)
              /\ u.writes = WriteSet(s, u.event)
      BY DEF IInv, Endorsed
    <2>3. Past(s, ws')
      BY <1>1, <1>2, <2>2, PastExecute
    <2>4. QED
      BY <2>1, <2>2, <2>3 DEF Endorsed
  <1>5. QED
    BY <1>1, <1>2, <1>3, <1>4 DEF IInv

LEMMA RevokeInv ==
    ASSUME IInv, NEW w \in Revocable, Revoke(w)
    PROVE  IInv'
  <1>1. ws' = Revoked(ws, w) /\ pool' = pool /\ nextId' = nextId
    BY DEF Revoke
  <1>2. Sound(ws) /\ nextId \in 1 .. MaxEvents + 1
    BY DEF IInv
  <1>3. Sound(ws') /\ ws'.assets = ws.assets /\ Recorded(ws') = Recorded(ws)
    BY <1>1, <1>2, RevokedIs
  <1>4. ASSUME NEW u \in pool
        PROVE  Endorsed(u)'
    <2>1. u.event \in Event
      BY DEF IInv, Endorsed
    <2>2. PICK s \in WorldState :
              /\ Sound(s) /\ Past(s, ws) /\ Accepted(s, u.event)
              /\ u.reads = ReadSet(s, u.event)
              /\ u.writes = WriteSet(s, u.event)
      BY DEF IInv, Endorsed
    <2>3. Past(s, ws')
      BY <1>3, <2>2 DEF Past
    <2>4. QED
      BY <2>1, <2>2, <2>3 DEF Endorsed
  <1>5. QED
    BY <1>1, <1>2, <1>3, <1>4 DEF IInv

LEMMA StepInv == IInv /\ [Next]_vars => IInv'
  <1>1. SUFFICES ASSUME IInv, [Next]_vars PROVE IInv'
    OBVIOUS
  <1>2. CASE ProposeAny
    BY <1>1, <1>2, ProposeInv
  <1>3. ASSUME NEW tx \in pool, Commit(tx)
        PROVE  IInv'
    BY <1>1, <1>3, CommitInv
  <1>4. ASSUME NEW tx \in pool, Drop(tx)
        PROVE  IInv'
    BY <1>1, <1>4 DEF Drop, IInv, Endorsed
  <1>5. ASSUME NEW w \in Revocable, Revoke(w)
        PROVE  IInv'
    BY <1>1, <1>5, RevokeInv
  <1>6. CASE UNCHANGED vars
    BY <1>1, <1>6 DEF vars, IInv, Endorsed
  <1>7. QED
    BY <1>1, <1>2, <1>3, <1>4, <1>5, <1>6 DEF Next

(* In every reachable state: the ledger is sound and what is under way was  *)
(* endorsed on an earlier state of it.                                     *)
THEOREM Invariance == Spec => []IInv
  BY InitInv, StepInv, PTL DEF Spec
-----------------------------------------------------------------------------
(* The states of the channel, the transactions under way and the ids handed *)
(* out keep their types; above all no trust score leaves 0 .. TrustCap.    *)
THEOREM TypeCorrect == Spec => []TypeOK
  <1>1. IInv => TypeOK
    <2>1. SUFFICES ASSUME IInv PROVE TypeOK
      OBVIOUS
    <2>2. ASSUME NEW tx \in pool
          PROVE  /\ tx.event \in Event
                 /\ tx.writes.event = tx.event
                 /\ \A w \in DOMAIN tx.writes.accounts : tx.writes.accounts[w] \in Account
      <3>1. tx.event \in Event
        BY <2>1 DEF IInv, Endorsed
      <3>2. PICK s \in WorldState : Sound(s) /\ tx.writes = WriteSet(s, tx.event)
        BY <2>1 DEF IInv, Endorsed
      <3>3. /\ tx.writes.event = tx.event
            /\ tx.writes.accounts = [w \in {c.wallet : c \in Due(s, tx.event)} |->
                                         AccountAfter(s, tx.event, w)]
        BY <3>2 DEF WriteSet
      <3>4. \A w \in {c.wallet : c \in Due(s, tx.event)} : AccountAfter(s, tx.event, w) \in Account
        BY <3>1, <3>2, AccountAfterIs DEF Sound
      <3>5. QED
        BY <3>1, <3>3, <3>4
    <2>3. QED
      BY <2>1, <2>2 DEF TypeOK, IInv, Sound
  <1>2. QED
    BY <1>1, Invariance, PTL

(* Corrections of one event form a chain, whatever gateways race: the       *)
(* supersede key of a target names the one correction of it, which is later *)
(* in the log.                                                             *)
THEOREM CorrectionsFormChains == Spec => []CorrectionsChain
  <1>1. IInv => CorrectionsChain
    BY DEF IInv, Sound, Chained, CorrectionsChain
  <1>2. QED
    BY <1>1, Invariance, PTL

(* No two token records are for one basis: a milestone, a bonus or the      *)
(* EcoTokens of a residue are given once, whatever is proposed again.      *)
THEOREM BonusesPaidOnce == Spec => []BonusOnce
  <1>1. IInv => BonusOnce
    BY DEF IInv, Sound, PaidOnce, BonusOnce
  <1>2. QED
    BY <1>1, Invariance, PTL

(* A residue comes from a batch that was milled, is valorized after its       *)
(* custody was accepted, and only a delivered batch is verified.           *)
THEOREM EventsAreGrounded == Spec => []Provenance
  <1>1. IInv => Provenance
    BY DEF IInv, Sound, Grounded, EarlierOn, Provenance, Before
  <1>2. QED
    BY <1>1, Invariance, PTL

(* However proposals race, a stage that may not be repeated is in force at    *)
(* most once for a subject.                                                *)
THEOREM StagesNotRepeated == Spec => []NoStageTwice
  <1>1. IInv => NoStageTwice
    <2>1. SUFFICES ASSUME IInv, NEW b \in Subjects,
                          NEW type \in WorkflowTypes \ Repeatable
                   PROVE  Cardinality(LiveOf(ws, b, type)) <= 1
      BY DEF NoStageTwice
    <2>2. \A x, y \in LiveOf(ws, b, type) : x = y
      BY <2>1 DEF IInv, Sound, StagesOnce
    <2>3. CASE LiveOf(ws, b, type) = {}
      BY <2>3, FS_EmptySet
    <2>4. CASE LiveOf(ws, b, type) # {}
      <3>1. PICK x : LiveOf(ws, b, type) = {x}
        BY <2>2, <2>4
      <3>2. Cardinality({x}) = 1
        BY FS_Singleton
      <3>3. QED
        BY <3>1, <3>2
    <2>5. QED
      BY <2>3, <2>4
  <1>2. QED
    BY <1>1, Invariance, PTL

LEMMA CommitRecords ==
    ASSUME IInv, NEW tx \in pool, Commit(tx)
    PROVE  /\ Len(ws'.log) = Len(ws.log) + 1
           /\ ws'.log[Len(ws'.log)] = tx.event
           /\ Accepted(ws, tx.event)
           /\ ws' = Execute(ws, tx.event)
           /\ tx.event.actor \in ws.active \cup {Portal}
  <1>1. /\ tx.event \in Event /\ Accepted(ws, tx.event)
        /\ ws' = Execute(ws, tx.event)
    BY ValidIsCurrent DEF Commit
  <1>2. ws \in WorldState
    BY DEF IInv, Sound
  <1>3. Len(ws'.log) = Len(ws.log) + 1 /\ ws'.log[Len(ws'.log)] = tx.event
    BY <1>1, <1>2, RecordedAfter
  <1>4. QED
    BY <1>1, <1>2, <1>3, AcceptedIs

(* What a wallet had endorsed before its role was revoked is invalid at     *)
(* commit.                                                                 *)
THEOREM RevokedWalletsAreSilent == Spec => RevokedIsSilent
  <1> DEFINE Silent == Len(ws'.log) > Len(ws.log) =>
                           ws'.log[Len(ws'.log)].actor \in ws.active \cup {Portal}
  <1>1. IInv /\ [Next]_vars => [Silent]_ws
    <2>1. SUFFICES ASSUME IInv, [Next]_vars PROVE Silent \/ ws' = ws
      OBVIOUS
    <2>2. CASE ProposeAny
      BY <2>2 DEF ProposeAny, Propose
    <2>3. ASSUME NEW tx \in pool, Commit(tx)
          PROVE  Silent
      BY <2>1, <2>3, CommitRecords
    <2>4. ASSUME NEW tx \in pool, Drop(tx)
          PROVE  ws' = ws
      BY <2>4 DEF Drop
    <2>5. ASSUME NEW w \in Revocable, Revoke(w)
          PROVE  Silent
      <3>1. ws'.log = ws.log
        BY <2>1, <2>5, RevokedIs DEF Revoke, IInv
      <3>2. Len(ws.log) \in Nat
        BY <2>1 DEF IInv, Sound, WorldState
      <3>3. QED
        BY <3>1, <3>2
    <2>6. CASE UNCHANGED vars
      BY <2>6 DEF vars
    <2>7. QED
      BY <2>1, <2>2, <2>3, <2>4, <2>5, <2>6 DEF Next
  <1>2. QED
    BY <1>1, Invariance, PTL DEF Spec, RevokedIsSilent

(* Proposals that race, commit late or get lost add up to transactions that *)
(* run one at a time: the validation of read sets is enough for that.      *)
THEOREM ChannelIsSerial == Spec => Serializable
  <1>1. Init => Serial!LogInit
    BY DEF Init, Serial!LogInit
  <1>2. IInv /\ [Next]_vars => [Serial!LogNext]_ws
    <2>1. SUFFICES ASSUME IInv, [Next]_vars PROVE Serial!LogNext \/ ws' = ws
      OBVIOUS
    <2>2. CASE ProposeAny
      BY <2>2 DEF ProposeAny, Propose
    <2>3. ASSUME NEW tx \in pool, Commit(tx)
          PROVE  Serial!LogNext
      <3>1. /\ Len(ws'.log) = Len(ws.log) + 1
            /\ ws'.log[Len(ws'.log)] = tx.event
            /\ Accepted(ws, tx.event)
            /\ ws' = Execute(ws, tx.event)
        BY <2>1, <2>3, CommitRecords
      <3>2. QED
        BY <3>1 DEF Serial!LogNext, Serial!RecordStep
    <2>4. ASSUME NEW tx \in pool, Drop(tx)
          PROVE  ws' = ws
      BY <2>4 DEF Drop
    <2>5. ASSUME NEW w \in Revocable, Revoke(w)
          PROVE  Serial!LogNext
      BY <2>5 DEF Revoke, Serial!LogNext, Serial!RevokeStep
    <2>6. CASE UNCHANGED vars
      BY <2>6 DEF vars
    <2>7. QED
      BY <2>1, <2>2, <2>3, <2>4, <2>5, <2>6 DEF Next
  <1>3. QED
    BY <1>1, <1>2, Invariance, PTL DEF Spec, Serializable, Serial!LogSpec
-----------------------------------------------------------------------------
(* The order of the channel and the order of the stamps *)

\* An event later than all of a set comes last in the order of both.
LEMMA InOrderAppend ==
    ASSUME NEW S, S \subseteq Event, IsFiniteSet(S),
           \A x, y \in S : x.id = y.id => x = y,
           NEW e \in Event, \A x \in S : x.id # e.id /\ Earlier(x, e)
    PROVE  InOrder(S \cup {e}) = Append(InOrder(S), e)
  <1> DEFINE T == S \cup {e}
             before(R, x) == {z \in R : Earlier(z, x)}
             rank(R, x) == Cardinality(before(R, x))
             n == Cardinality(S)
             g == InOrder(S)
             h == InOrder(T)
  <1>1. n \in Nat /\ IsFiniteSet(T) /\ Cardinality(T) = n + 1
    BY FS_CardinalityType, FS_AddElement
  <1>2. \A x \in T : x.id \in Int /\ x.time \in Int
    BY BoundsAssumption DEF Event, EventIds, Times
  <1>3. \A x \in S : before(T, x) = before(S, x)
    BY <1>2 DEF Earlier
  <1>4. before(T, e) = S
    BY <1>2 DEF Earlier
  <1>5. T \subseteq Event /\ \A x, y \in T : x.id = y.id => x = y
    OBVIOUS
  <1>6. /\ Len(g) = n /\ g \in Seq(Event)
        /\ \A k \in 1 .. n : g[k] \in S /\ rank(S, g[k]) = k - 1
    <2> HIDE DEF T
    <2>1. QED
      BY InOrderIs
  <1> HIDE DEF T, before
  <1>7. /\ Len(h) = n + 1 /\ h \in Seq(Event)
        /\ \A k \in 1 .. n + 1 : h[k] \in T /\ rank(T, h[k]) = k - 1
        /\ \A x, y \in T : x # y => rank(T, x) # rank(T, y)
    <2>1. /\ Len(h) = Cardinality(T) /\ h \in Seq(Event)
          /\ \A k \in 1 .. Len(h) :
                 h[k] \in T /\ Cardinality({x \in T : Earlier(x, h[k])}) = k - 1
          /\ \A x, y \in T : x # y => Cardinality({z \in T : Earlier(z, x)})
                                     # Cardinality({z \in T : Earlier(z, y)})
      BY <1>1, <1>5, InOrderIs
    <2>2. Len(h) = n + 1
      BY <1>1, <2>1
    <2> HIDE DEF h, n
    <2>3. QED
      BY <2>1, <2>2 DEF before
  <1>8. \A x \in S : rank(T, x) = rank(S, x)
    BY <1>3
  <1>9. rank(T, e) = n
    BY <1>4
  <1> HIDE DEF rank, n, g, h
  <1>10. ASSUME NEW k \in 1 .. n
         PROVE  h[k] = g[k]
    <2>1. k \in 1 .. n + 1
      BY <1>1
    <2>2. g[k] \in T /\ h[k] \in T /\ rank(T, g[k]) = rank(T, h[k])
      BY <1>6, <1>7, <1>8, <2>1 DEF T
    <2>3. QED
      BY <1>7, <2>2
  <1>11. h[n + 1] = e
    <2> DEFINE k == n + 1
    <2>1. k \in 1 .. n + 1 /\ k - 1 = n
      BY <1>1
    <2> HIDE DEF k
    <2>2. h[k] \in T /\ rank(T, h[k]) = n
      BY <1>7, <2>1
    <2>3. e \in T
      BY DEF T
    <2>4. h[k] = e
      BY <1>7, <1>9, <2>2, <2>3
    <2>5. QED
      BY <2>4 DEF k
  <1>12. h = Append(g, e)
    <2>1. /\ Append(g, e) \in Seq(Event) /\ Len(Append(g, e)) = n + 1
          /\ \A k \in 1 .. n : Append(g, e)[k] = g[k]
          /\ Append(g, e)[n + 1] = e
      BY <1>1, <1>6
    <2>2. \A k \in 1 .. n + 1 : k \in 1 .. n \/ k = n + 1
      BY <1>1
    <2>3. \A k \in 1 .. n + 1 : h[k] = Append(g, e)[k]
      BY <1>10, <1>11, <2>1, <2>2
    <2> DEFINE a == Append(g, e)
    <2>4. a \in Seq(Event) /\ Len(a) = n + 1 /\ \A k \in 1 .. n + 1 : h[k] = a[k]
      BY <2>1, <2>3
    <2> HIDE DEF a
    <2>5. h = a
      BY <1>1, <1>7, <2>4
    <2>6. QED
      BY <2>5 DEF a
  <1>13. QED
    BY <1>12 DEF g, h, T

AllValid(s) == \A b \in Subjects : Undisturbed(s, b) => Status(s, b).valid

LEMMA ExecuteValid ==
    ASSUME NEW s, Sound(s), AllValid(s), NEW e \in Event, Accepted(s, e)
    PROVE  AllValid(Execute(s, e))
  <1> DEFINE t == Execute(s, e)
             m == Len(s.log)
  <1>1. s \in WorldState /\ UniqueIds(s) /\ m \in Nat
    BY DEF Sound, WorldState
  <1>2. /\ Recorded(t) = Recorded(s) \cup {e}
        /\ Len(t.log) = m + 1 /\ t.log[m + 1] = e
        /\ \A k \in 1 .. m : t.log[k] = s.log[k]
    <2>1. /\ Recorded(t) = Recorded(s) \cup {e}
          /\ Len(t.log) = m + 1 /\ t.log[Len(t.log)] = e
          /\ \A k \in 1 .. m : t.log[k] = s.log[k]
      BY <1>1, RecordedAfter
    <2> HIDE DEF t, m
    <2>2. QED
      BY <2>1
  <1>3. SUFFICES ASSUME NEW b \in Subjects, Undisturbed(t, b)
                 PROVE  Status(t, b).valid
    BY DEF AllValid
  <1>4. t.supersededBy = IF e.type = "correction"
                         THEN [s.supersededBy EXCEPT ![e.target] = e.id]
                         ELSE s.supersededBy
    BY <1>1, ExecuteIs
  <1> HIDE DEF t
  <1>5. /\ Undisturbed(s, b)
        /\ e.subject = b => /\ e.type # "correction"
                            /\ \A k \in 1 .. m : s.log[k].subject = b =>
                                   Earlier(s.log[k], e)
    <2>1. \A k \in 1 .. m : k \in 1 .. m + 1
      BY <1>1
    <2>2. m + 1 \in 1 .. m + 1 /\ (m + 1) - 1 = m
      BY <1>1
    <2>3. ASSUME NEW k \in 1 .. m, NEW j \in 1 .. k - 1
          PROVE  j \in 1 .. m
      BY <1>1
    <2> HIDE DEF m
    <2>4. /\ \A k \in 1 .. m + 1 : \A j \in 1 .. k - 1 :
                (t.log[j].subject = b /\ t.log[k].subject = b) =>
                    Earlier(t.log[j], t.log[k])
          /\ \A k \in 1 .. m + 1 : t.log[k].subject = b => t.log[k].type # "correction"
      BY <1>2, <1>3 DEF Undisturbed
    <2>5. ASSUME e.subject = b
          PROVE  /\ e.type # "correction"
                 /\ \A k \in 1 .. m : s.log[k].subject = b => Earlier(s.log[k], e)
      BY <1>2, <2>2, <2>4, <2>5
    <2>6. /\ \A k \in 1 .. m : \A j \in 1 .. k - 1 :
                (s.log[j].subject = b /\ s.log[k].subject = b) =>
                    Earlier(s.log[j], s.log[k])
          /\ \A k \in 1 .. m : s.log[k].subject = b => s.log[k].type # "correction"
      BY <1>2, <2>1, <2>3, <2>4
    <2>7. Undisturbed(s, b)
      BY <2>6 DEF Undisturbed, m
    <2>8. QED
      BY <2>5, <2>7
  <1>6. e.subject = b =>
            \A x \in Recorded(s) : x.subject = b => Earlier(x, e)
    BY <1>5 DEF Recorded
  <1>7. Status(s, b).valid
    BY <1>5 DEF AllValid
  <1>8. \A x \in Recorded(s) : x.subject = b => (Live(t, x) <=> Live(s, x))
    <2>1. SUFFICES ASSUME NEW x \in Recorded(s), x.subject = b
                   PROVE  Live(t, x) <=> Live(s, x)
      OBVIOUS
    <2>2. CASE e.type # "correction"
      BY <1>4, <2>2 DEF Live
    <2>3. CASE e.type = "correction"
      <3>1. PICK target \in Recorded(s) : target.id = e.target /\ target.subject = e.subject
        BY <2>3 DEF Accepted, SubmitAllowed, CorrectAllowed
      <3>2. target.subject # b
        BY <1>5, <2>3, <3>1
      <3>3. x.id # e.target
        BY <1>1, <2>1, <3>1, <3>2 DEF UniqueIds, Recorded
      <3>4. t.supersededBy[x.id] = s.supersededBy[x.id]
        BY <1>4, <2>3, <3>3, <1>1 DEF WorldState
      <3>5. QED
        BY <3>4 DEF Live
    <2>4. QED
      BY <2>2, <2>3
  <1>9. \/ StepsInForce(t, b) = StepsInForce(s, b)
        \/ /\ e.subject = b /\ e.type \in WorkflowTypes
           /\ StepsInForce(t, b) = StepsInForce(s, b) \cup {e}
    BY <1>2, <1>8 DEF StepsInForce
  <1>10. CASE StepsInForce(t, b) = StepsInForce(s, b)
    BY <1>7, <1>10 DEF Status, SubjectWorkflowEvents
  <1>11. CASE /\ e.subject = b /\ e.type \in WorkflowTypes
              /\ StepsInForce(t, b) = StepsInForce(s, b) \cup {e}
    <2> DEFINE S == StepsInForce(s, b)
               h == InOrder(S)
    <2>1. S \subseteq Recorded(s) /\ \A x \in S : x.subject = b
      BY DEF StepsInForce
    <2>2. S \subseteq Event /\ IsFiniteSet(S)
      BY <1>1, <2>1, RecordedIs, FS_Subset
    <2>3. \A x, y \in S : x.id = y.id => x = y
      BY <1>1, <2>1 DEF UniqueIds, Recorded
    <2>4. \A x \in S : x.id # e.id /\ Earlier(x, e)
      BY <1>1, <1>6, <1>11, <2>1, AcceptedIs DEF IdsOf
    <2>5. IsHistory(h)
      BY <1>1, HistoryIs DEF SubjectWorkflowEvents
    <2> HIDE DEF S
    <2>6. InOrder(S \cup {e}) = Append(h, e) /\ h \in Seq(Event)
      BY <2>2, <2>3, <2>4, InOrderAppend, InOrderIs
    <2>7. MayFollow(e.type, AnalyzeWorkflow(h))
      <3>1. e.type # "consumer_verification" /\ e.type # "correction"
        BY <1>11, TypesAre DEF WorkflowTypes
      <3>2. MayFollow(e.type, Status(s, b))
        BY <1>11, <3>1 DEF Accepted, SubmitAllowed, CorrectAllowed, TransitionAllowed
      <3>3. QED
        BY <3>2 DEF Status, SubjectWorkflowEvents, S
    <2> HIDE DEF h
    <2>8. AnalyzeWorkflow(Append(h, e)).valid
      BY <1>11, <2>5, <2>6, <2>7, FollowerAdvances
    <2>9. QED
      BY <1>11, <2>6, <2>8 DEF Status, SubjectWorkflowEvents, S
  <1>12. QED
    BY <1>9, <1>10, <1>11

LEMMA StartValid == \A s \in StartStates : AllValid(s)
  <1>1. SUFFICES ASSUME NEW log \in StartLogs, NEW trust \in StartTrust
                 PROVE  AllValid(Replay(log, trust)[Len(log)])
    BY DEF StartStates
  <1> DEFINE state == Replay(log, trust)
             Good == {n \in 0 .. Len(log) : Sound(state[n]) /\ AllValid(state[n])}
  <1>2. log \in Seq(Event) /\ Len(log) \in Nat
    BY StartAssumption
  <1>3. /\ state[0] = EmptyState(trust)
        /\ \A n \in 1 .. Len(log) : state[n] = Execute(state[n - 1], log[n])
    BY <1>2, ReplayIs
  <1>4. \A n \in 1 .. Len(log) : Accepted(state[n - 1], log[n]) /\ log[n] \in Event
    BY <1>2, StartAssumption
  <1> HIDE DEF state
  <1>5. 0 \in Good
    <2>1. Sound(state[0]) /\ IdsOf(state[0]) = {}
      BY <1>3, EmptySound
    <2>2. Recorded(state[0]) = {}
      BY <2>1 DEF IdsOf
    <2>3. ASSUME NEW b \in Subjects
          PROVE  Status(state[0], b).valid
      <3> DEFINE h == SubjectWorkflowEvents(state[0], b)
      <3>1. StepsInForce(state[0], b) = {}
        BY <2>2 DEF StepsInForce
      <3>2. IsHistory(h) /\ \A k \in 1 .. Len(h) : h[k] \in {}
        BY <2>1, <3>1, HistoryIs DEF Sound
      <3> HIDE DEF h
      <3>3. h = << >>
        BY <3>2 DEF IsHistory
      <3>4. AnalyzeWorkflow(h) = NoStatus
        BY <3>2, <3>3, AnalyzeIs
      <3>5. QED
        BY <3>4 DEF Status, NoStatus, h
    <2>4. QED
      BY <1>2, <2>1, <2>3 DEF AllValid
  <1>6. ASSUME NEW n \in 1 .. Len(log), n - 1 \in Good
        PROVE  n \in Good
    <2>1. /\ Sound(state[n - 1]) /\ AllValid(state[n - 1])
          /\ Accepted(state[n - 1], log[n]) /\ log[n] \in Event
          /\ state[n] = Execute(state[n - 1], log[n])
      BY <1>3, <1>4, <1>6
    <2>2. Sound(state[n]) /\ AllValid(state[n])
      BY <2>1, ExecuteSound, ExecuteValid
    <2>3. n \in 0 .. Len(log)
      BY <1>2
    <2>4. QED
      BY <2>2, <2>3
  <1>7. Len(log) \in Good
    <2> HIDE DEF Good
    <2>1. \A n \in 0 .. Len(log) : n \in Good
      BY <1>2, <1>5, <1>6, UpTo
    <2>2. QED
      BY <1>2, <2>1
  <1>8. QED
    BY <1>7 DEF state

(* While no correction of it is recorded and its stamps are in the order the  *)
(* channel committed them in, the history of a subject is never out of      *)
(* order, whatever was endorsed, delayed and committed in between: what is  *)
(* valid at commit follows the status its subject has now.                 *)
THEOREM OrderedStampsHistoriesHold == Spec => []HistoryInOrder
  <1>1. Init => AllValid(ws)
    BY StartValid DEF Init
  <1>2. IInv /\ AllValid(ws) /\ [Next]_vars => AllValid(ws)'
    <2>1. SUFFICES ASSUME IInv, AllValid(ws), [Next]_vars PROVE AllValid(ws')
      BY DEF AllValid
    <2>2. ASSUME ws' = ws PROVE AllValid(ws')
      BY <2>1, <2>2, Zenon
    <2>3. CASE ProposeAny
      BY <2>2, <2>3 DEF ProposeAny, Propose
    <2>4. ASSUME NEW tx \in pool, Commit(tx)
          PROVE  AllValid(ws')
      BY <2>1, <2>4, ValidIsCurrent, ExecuteValid DEF Commit, IInv
    <2>5. ASSUME NEW tx \in pool, Drop(tx)
          PROVE  AllValid(ws')
      BY <2>2, <2>5 DEF Drop
    <2>6. ASSUME NEW w \in Revocable, Revoke(w)
          PROVE  AllValid(ws')
      <3>1. ws' = Revoked(ws, w) /\ Sound(ws)
        BY <2>1, <2>6 DEF Revoke, IInv
      <3>2. /\ ws'.log = ws.log /\ ws'.supersededBy = ws.supersededBy
            /\ Recorded(ws') = Recorded(ws)
        BY <3>1, RevokedIs
      <3>3. \A b : Status(ws', b) = Status(ws, b)
        BY <3>2 DEF Status, SubjectWorkflowEvents, StepsInForce, Live
      <3>4. \A b : Undisturbed(ws', b) <=> Undisturbed(ws, b)
        BY <3>2 DEF Undisturbed
      <3>5. QED
        BY <2>1, <3>3, <3>4 DEF AllValid
    <2>7. CASE UNCHANGED vars
      BY <2>2, <2>7 DEF vars
    <2>8. QED
      BY <2>1, <2>3, <2>4, <2>5, <2>6, <2>7 DEF Next
  <1>3. AllValid(ws) => HistoryInOrder
    BY DEF AllValid, HistoryInOrder
  <1>4. QED
    BY <1>1, <1>2, <1>3, Invariance, PTL DEF Spec
=============================================================================
