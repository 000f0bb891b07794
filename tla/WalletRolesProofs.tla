--------------------------- MODULE WalletRolesProofs ---------------------------
(***************************************************************************)
(* Proofs about WalletRoles for any wallets, roles, organizations,          *)
(* certificates and any number of transactions, proposed at once.           *)
(*                                                                         *)
(* The argument.  A read set holds everything that decides a call           *)
(* (ReadsDetermine), so a transaction that is found valid at commit would be *)
(* accepted, and write the same, if it ran alone in that very state         *)
(* (CommitApplies).  It is then enough that each call keeps the tables       *)
(* sound when it runs alone (AfterSound): no interleaving is looked at.     *)
(***************************************************************************)
EXTENDS WalletRoles, TLAPS

(* A transaction that reads the same values is decided the same way and      *)
(* writes the same values: the read set holds all that a call depends on.   *)
LEMMA ReadsDetermine ==
    ASSUME NEW s \in WalletState, NEW t \in WalletState, NEW call \in Call,
           ReadSet(s, call) = ReadSet(t, call), Allowed(s, call)
    PROVE  Allowed(t, call) /\ WriteSet(t, call) = WriteSet(s, call)
  <1>1. call.op \in Ops /\ call.wallet \in WalletsRead(call)
    BY DEF WalletsRead, Call
  <1>2. \A w \in WalletsRead(call) : s.wallet[w] = t.wallet[w]
    <2>1. [w \in WalletsRead(call) |-> s.wallet[w]] =
          [w \in WalletsRead(call) |-> t.wallet[w]]
      BY DEF ReadSet
    <2>2. QED
      BY <2>1
  <1>3. \A i \in RequestsRead(call) : s.request[i] = t.request[i]
    <2>1. [i \in RequestsRead(call) |-> s.request[i]] =
          [i \in RequestsRead(call) |-> t.request[i]]
      BY DEF ReadSet
    <2>2. QED
      BY <2>1
  <1>4. call.op \in Grants => s.bound[call.cert] = t.bound[call.cert]
    <2>1. [c \in IF call.op \in Grants THEN {call.cert} ELSE {} |-> s.bound[c]] =
          [c \in IF call.op \in Grants THEN {call.cert} ELSE {} |-> t.bound[c]]
      BY DEF ReadSet
    <2>2. QED
      BY <2>1
  <1>5. s.wallet[call.wallet] = t.wallet[call.wallet]
    BY <1>1, <1>2
  <1>6. ASSUME call.op \notin {"register", "request"}, AdminAllowed(s, call.caller)
        PROVE  AdminAllowed(t, call.caller)
    BY <1>2, <1>6 DEF AdminAllowed, ActiveBinding, WalletsRead
  <1>7. ASSUME call.op \in {"request", "approve", "grant"}
        PROVE  PendingOf(s, call.wallet) = PendingOf(t, call.wallet)
    BY <1>3, <1>7 DEF PendingOf, RequestsRead
  <1>8. ASSUME call.op \in {"approve", "reject"}
        PROVE  call.target \in TxIds /\ s.request[call.target] = t.request[call.target]
    BY <1>3, <1>8 DEF RequestsRead, Call
  <1>9. CASE call.op = "register"
    BY <1>5, <1>9 DEF Allowed, RegisterAllowed, WriteSet, WalletAfter,
       RequestsAfter, BoundAfter, Grants
  <1>10. CASE call.op = "request"
    BY <1>5, <1>7, <1>10 DEF Allowed, RequestAllowed, WriteSet, WalletAfter,
       RequestsAfter, BoundAfter, Grants
  <1>11. CASE call.op = "approve"
    BY <1>4, <1>5, <1>6, <1>7, <1>8, <1>11 DEF Allowed, ApproveAllowed, Decidable,
       GrantAllowed, WriteSet, WalletAfter, RequestsAfter, BoundAfter, Grants, Decided
  <1>12. CASE call.op = "reject"
    BY <1>5, <1>6, <1>8, <1>12 DEF Allowed, RejectAllowed, Decidable,
       WriteSet, WalletAfter, RequestsAfter, BoundAfter, Grants, Decided
  <1>13. CASE call.op = "grant"
    BY <1>4, <1>5, <1>6, <1>7, <1>13 DEF Allowed, GrantAllowed, WriteSet,
       WalletAfter, RequestsAfter, BoundAfter, Grants, Decided
  <1>14. CASE call.op = "revoke"
    BY <1>5, <1>6, <1>14 DEF Allowed, RevokeAllowed, WriteSet,
       WalletAfter, RequestsAfter, BoundAfter, Grants
  <1>15. QED
    BY <1>1, <1>9, <1>10, <1>11, <1>12, <1>13, <1>14 DEF Ops
-----------------------------------------------------------------------------
After(s, call) == Apply(s, WriteSet(s, call))

PendingSound(s) ==
    \A w \in Wallets :
        PendingOf(s, w) = IF s.wallet[w].status = "pending"
                          THEN {s.wallet[w].pending} ELSE {}

BindingSound(s) ==
    \A c \in Certs, w \in Wallets :
        s.bound[c] = w <=> s.wallet[w].status = "active" /\ s.wallet[w].cert = c

\* An active wallet holds a certificate of the organization that granted it.
OrgSound(s) ==
    \A w \in Wallets : s.wallet[w].status = "active" =>
        s.wallet[w].cert \in Certs /\ s.wallet[w].org = CertOrg[s.wallet[w].cert]

Sound(s) == PendingSound(s) /\ BindingSound(s) /\ OrgSound(s)

\* The grants of the application are for certificates of the caller's agent.
FromOwnAgent(call) ==
    call.op \in Grants => CertOrg[call.cert] = CertOrg[call.caller]

(* What a commit does to each of the three tables. *)
LEMMA AfterTables ==
    ASSUME NEW s \in WalletState, NEW call \in Call
    PROVE  /\ After(s, call).wallet = [s.wallet EXCEPT ![call.wallet] = WalletAfter(s, call)]
           /\ After(s, call).request = Overwritten(s.request, RequestsAfter(s, call))
           /\ After(s, call).bound = Overwritten(s.bound, BoundAfter(s, call))
  <1>1. /\ DOMAIN s.wallet = Wallets
        /\ DOMAIN s.request = TxIds
        /\ DOMAIN s.bound = Certs
        /\ s.wallet = [w \in Wallets |-> s.wallet[w]]
        /\ call.wallet \in Wallets
    BY DEF WalletState, Call
  <1>2. After(s, call).wallet = [s.wallet EXCEPT ![call.wallet] = WalletAfter(s, call)]
    BY <1>1 DEF After, Apply, WriteSet, Overwritten
  <1>3. QED
    BY <1>2 DEF After, Apply, WriteSet

(* The requests a commit leaves, one kind of transaction at a time. *)
LEMMA AfterRequests ==
    ASSUME NEW s \in WalletState, NEW call \in Call, NEW i \in TxIds,
           Allowed(s, call)
    PROVE  /\ call.op \in {"register", "revoke"} => After(s, call).request[i] = s.request[i]
           /\ call.op = "request" =>
                  After(s, call).request[i] =
                      IF i = call.id
                      THEN [wallet |-> call.wallet, role |-> call.role,
                            status |-> "pending", version |-> call.id]
                      ELSE s.request[i]
           /\ call.op \in Grants =>
                  IF i \in PendingOf(s, call.wallet)
                  THEN \E st \in {"approved", "superseded"} :
                           After(s, call).request[i] = Decided(s, i, st, call)
                  ELSE After(s, call).request[i] = s.request[i]
           /\ call.op = "reject" =>
                  After(s, call).request[i] =
                      IF i = call.target THEN Decided(s, i, "rejected", call)
                      ELSE s.request[i]
  <1>1. After(s, call).request[i] = IF i \in DOMAIN RequestsAfter(s, call)
                                    THEN RequestsAfter(s, call)[i] ELSE s.request[i]
    <2>1. DOMAIN s.request = TxIds
      BY DEF WalletState
    <2>2. After(s, call).request = Overwritten(s.request, RequestsAfter(s, call))
      BY AfterTables
    <2>3. QED
      BY <2>1, <2>2 DEF Overwritten
  <1>2. call.op = "approve" => call.target \in PendingOf(s, call.wallet)
    BY DEF Allowed, ApproveAllowed, Decidable, PendingOf, Call
  <1>3. CASE call.op \in {"register", "revoke"}
    <2>1. RequestsAfter(s, call) = Nothing
      BY <1>3 DEF RequestsAfter
    <2>2. QED
      BY <1>1, <1>3, <2>1 DEF Nothing, Grants
  <1>4. CASE call.op = "request"
    BY <1>1, <1>4 DEF RequestsAfter, Grants
  <1>5. CASE call.op = "approve"
    BY <1>1, <1>2, <1>5 DEF RequestsAfter, Grants
  <1>6. CASE call.op = "grant"
    BY <1>1, <1>6 DEF RequestsAfter, Grants
  <1>7. CASE call.op = "reject"
    BY <1>1, <1>7 DEF RequestsAfter, Grants
  <1>8. QED
    BY <1>3, <1>4, <1>5, <1>6, <1>7 DEF Call, Ops

(* The bindings a commit leaves. *)
LEMMA AfterBindings ==
    ASSUME NEW s \in WalletState, NEW call \in Call, NEW c \in Certs
    PROVE  After(s, call).bound[c] =
               IF call.op \in Grants /\ c = call.cert THEN call.wallet
               ELSE IF call.op = "revoke" /\ c = s.wallet[call.wallet].cert THEN NoWallet
               ELSE s.bound[c]
  <1>1. After(s, call).bound[c] = IF c \in DOMAIN BoundAfter(s, call)
                                  THEN BoundAfter(s, call)[c] ELSE s.bound[c]
    <2>1. DOMAIN s.bound = Certs
      BY DEF WalletState
    <2>2. After(s, call).bound = Overwritten(s.bound, BoundAfter(s, call))
      BY AfterTables
    <2>3. QED
      BY <2>1, <2>2 DEF Overwritten
  <1>2. c # NoCert
    BY NullAssumption
  <1>3. CASE call.op \in Grants
    <2>1. BoundAfter(s, call) = [d \in {call.cert} |-> call.wallet]
      BY <1>3 DEF BoundAfter, Grants
    <2>2. QED
      BY <1>1, <1>3, <2>1 DEF Grants
  <1>4. CASE call.op = "revoke"
    <2>1. BoundAfter(s, call) = [d \in {s.wallet[call.wallet].cert} \ {NoCert} |-> NoWallet]
      BY <1>4 DEF BoundAfter, Grants
    <2>2. QED
      BY <1>1, <1>2, <1>4, <2>1 DEF Grants
  <1>5. CASE call.op \notin Grants \cup {"revoke"}
    <2>1. BoundAfter(s, call) = Nothing
      BY <1>5 DEF BoundAfter, Grants, Call, Ops
    <2>2. QED
      BY <1>1, <1>5, <2>1 DEF Nothing
  <1>6. QED
    BY <1>3, <1>4, <1>5

(* The wallet a commit leaves, and that it is one. *)
LEMMA AfterWallet ==
    ASSUME NEW s \in WalletState, NEW call \in Call, Allowed(s, call)
    PROVE  /\ WalletAfter(s, call) \in Wallet
           /\ call.op \in {"register", "reject"} => WalletAfter(s, call).status = "consumer"
           /\ call.op = "request" => /\ WalletAfter(s, call).status = "pending"
                                     /\ WalletAfter(s, call).pending = call.id
           /\ call.op \in Grants => /\ WalletAfter(s, call).status = "active"
                                    /\ WalletAfter(s, call).cert = call.cert
                                    /\ WalletAfter(s, call).org = CertOrg[call.caller]
           /\ call.op = "revoke" => WalletAfter(s, call).status = "revoked"
  <1> DEFINE wallet == s.wallet[call.wallet]
             now == WalletAfter(s, call)
             next == [wallet EXCEPT !.version = call.id]
  <1>1. /\ wallet \in Wallet
        /\ call.op \in Ops /\ call.id \in TxIds /\ call.caller \in Certs
        /\ call.role \in Roles \cup {"consumer", "orgadmin"}
        /\ call.op \in Grants => call.cert \in Certs
    BY DEF WalletState, Call, Grants
  <1>2. CertOrg[call.caller] \in Orgs
    BY <1>1, CertsAssumption
  <1>3. next \in Wallet
    BY <1>1 DEF Wallet
  <1>4. CASE call.op = "register"
    <2>1. now = [next EXCEPT !.status = "consumer"]
      BY <1>4 DEF WalletAfter, Grants
    <2>2. QED
      BY <1>3, <1>4, <2>1 DEF Wallet, Grants
  <1>5. CASE call.op = "request"
    <2>1. now = [next EXCEPT !.status = "pending", !.pending = call.id]
      BY <1>5 DEF WalletAfter, Grants
    <2>2. QED
      BY <1>1, <1>3, <1>5, <2>1 DEF Wallet, Grants
  <1>6. CASE call.op \in Grants
    <2>1. now = [next EXCEPT !.status = "active", !.role = call.role,
                             !.org = CertOrg[call.caller], !.cert = call.cert,
                             !.pending = NoTx]
      BY <1>6 DEF WalletAfter, Grants
    <2>2. QED
      BY <1>1, <1>2, <1>3, <1>6, <2>1 DEF Wallet, Grants
  <1>7. CASE call.op = "reject"
    <2>1. now = [next EXCEPT !.status = "consumer", !.role = "consumer", !.pending = NoTx]
      BY <1>7 DEF WalletAfter, Grants
    <2>2. QED
      BY <1>3, <1>7, <2>1 DEF Wallet, Grants
  <1>8. CASE call.op = "revoke"
    <2>1. now = [next EXCEPT !.status = "revoked"]
      BY <1>8 DEF WalletAfter, Grants
    <2>2. QED
      BY <1>3, <1>8, <2>1 DEF Wallet, Grants
  <1>9. QED
    BY <1>1, <1>4, <1>5, <1>6, <1>7, <1>8 DEF Ops, Grants

(* A commit keeps the types of the three tables. *)
LEMMA AfterType ==
    ASSUME NEW s \in WalletState, NEW call \in Call, Allowed(s, call)
    PROVE  After(s, call) \in WalletState
  <1>1. /\ call.op \in Ops /\ call.id \in TxIds /\ call.wallet \in Wallets
        /\ call.op = "reject" => call.target \in TxIds
        /\ s.wallet \in [Wallets -> Wallet]
        /\ s.request \in [TxIds -> Request \cup {NoRequest}]
        /\ s.bound \in [Certs -> Wallets \cup {NoWallet}]
    BY DEF WalletState, Call
  <1>2. After(s, call).wallet \in [Wallets -> Wallet]
    <2>1. WalletAfter(s, call) \in Wallet
      BY AfterWallet
    <2>2. After(s, call).wallet = [s.wallet EXCEPT ![call.wallet] = WalletAfter(s, call)]
      BY AfterTables
    <2>3. QED
      BY <1>1, <2>1, <2>2
  <1>3. After(s, call).request \in [TxIds -> Request \cup {NoRequest}]
    <2>1. ASSUME NEW i \in TxIds
          PROVE  After(s, call).request[i] \in Request \cup {NoRequest}
      <3>1. ASSUME s.request[i] # NoRequest,
                   NEW st \in {"approved", "rejected", "superseded"}
            PROVE  Decided(s, i, st, call) \in Request
        BY <1>1, <3>1 DEF Decided, Request
      <3>2. CASE call.op \in {"register", "revoke"}
        <4>1. After(s, call).request[i] = s.request[i]
          BY <3>2, AfterRequests
        <4>2. QED
          BY <1>1, <4>1
      <3>3. CASE call.op = "request"
        <4>1. [wallet |-> call.wallet, role |-> call.role,
               status |-> "pending", version |-> call.id] \in Request
          BY <1>1, <3>3 DEF Request, Allowed, RequestAllowed
        <4>2. After(s, call).request[i] =
                  IF i = call.id THEN [wallet |-> call.wallet, role |-> call.role,
                                       status |-> "pending", version |-> call.id]
                  ELSE s.request[i]
          BY <3>3, AfterRequests
        <4>3. QED
          BY <1>1, <4>1, <4>2
      <3>4. CASE call.op \in Grants
        <4>1. IF i \in PendingOf(s, call.wallet)
              THEN \E st \in {"approved", "superseded"} :
                       After(s, call).request[i] = Decided(s, i, st, call)
              ELSE After(s, call).request[i] = s.request[i]
          BY <3>4, AfterRequests
        <4>2. i \in PendingOf(s, call.wallet) => s.request[i] # NoRequest
          BY DEF PendingOf
        <4>3. QED
          BY <1>1, <3>1, <4>1, <4>2
      <3>5. CASE call.op = "reject"
        <4>1. After(s, call).request[i] =
                  IF i = call.target THEN Decided(s, i, "rejected", call)
                  ELSE s.request[i]
          BY <3>5, AfterRequests
        <4>2. s.request[call.target] # NoRequest
          BY <3>5 DEF Allowed, RejectAllowed, Decidable
        <4>3. QED
          BY <1>1, <3>1, <4>1, <4>2
      <3>6. QED
        BY <1>1, <3>2, <3>3, <3>4, <3>5 DEF Ops, Grants
    <2>2. After(s, call).request = Overwritten(s.request, RequestsAfter(s, call))
      BY AfterTables
    <2>3. QED
      BY <1>1, <2>1, <2>2 DEF Overwritten
  <1>4. After(s, call).bound \in [Certs -> Wallets \cup {NoWallet}]
    <2>1. \A c \in Certs : After(s, call).bound[c] \in Wallets \cup {NoWallet}
      BY <1>1, AfterBindings
    <2>2. After(s, call).bound = Overwritten(s.bound, BoundAfter(s, call))
      BY AfterTables
    <2>3. QED
      BY <1>1, <2>1, <2>2 DEF Overwritten
  <1>5. QED
    BY <1>2, <1>3, <1>4 DEF WalletState, After, Apply
-----------------------------------------------------------------------------
(* Which requests of a wallet are pending after a commit. *)
LEMMA PendingAfter ==
    ASSUME NEW s \in WalletState, NEW call \in Call, NEW w \in Wallets,
           Allowed(s, call), s.request[call.id] = NoRequest
    PROVE  PendingOf(After(s, call), w) =
               IF w # call.wallet THEN PendingOf(s, w)
               ELSE IF call.op = "request" THEN PendingOf(s, w) \cup {call.id}
               ELSE IF call.op \in Grants THEN {}
               ELSE IF call.op = "reject" THEN PendingOf(s, w) \ {call.target}
               ELSE PendingOf(s, w)
  <1> DEFINE Pending(r) == r # NoRequest /\ r.wallet = w /\ r.status = "pending"
  <1>1. /\ call.op \in Ops /\ call.id \in TxIds
        /\ \A i \in TxIds : s.request[i] # NoRequest => s.request[i] \in Request
    BY DEF WalletState, Call
  <1>2. /\ \A i \in TxIds : i \in PendingOf(s, w) <=> Pending(s.request[i])
        /\ \A i \in TxIds : i \in PendingOf(After(s, call), w) <=>
                                Pending(After(s, call).request[i])
        /\ PendingOf(s, w) \subseteq TxIds
        /\ PendingOf(After(s, call), w) \subseteq TxIds
    BY DEF PendingOf
  <1>3. ASSUME NEW i \in TxIds, s.request[i] # NoRequest,
               NEW st \in {"approved", "rejected", "superseded"}
        PROVE  ~ Pending(Decided(s, i, st, call))
    BY <1>1, <1>3 DEF Decided, Request
  <1> HIDE DEF Pending
  <1>4. CASE call.op \in {"register", "revoke"}
    <2>1. \A i \in TxIds : After(s, call).request[i] = s.request[i]
      BY <1>4, AfterRequests
    <2>2. QED
      BY <1>2, <1>4, <2>1 DEF Grants
  <1>5. CASE call.op = "request"
    <2> DEFINE new == [wallet |-> call.wallet, role |-> call.role,
                       status |-> "pending", version |-> call.id]
    <2>1. new \in Request
      BY <1>1, <1>5 DEF Request, Allowed, RequestAllowed, Call
    <2>2. Pending(new) <=> w = call.wallet
      BY <2>1, NoRequestAssumption DEF Pending
    <2>3. ~ Pending(s.request[call.id])
      BY DEF Pending
    <2> HIDE DEF new
    <2>4. ASSUME NEW i \in TxIds
          PROVE  After(s, call).request[i] = IF i = call.id THEN new ELSE s.request[i]
      BY <1>5, AfterRequests DEF new
    <2>5. QED
      BY <1>1, <1>2, <1>5, <2>2, <2>3, <2>4
  <1>6. CASE call.op \in Grants
    <2>1. \A i \in PendingOf(s, call.wallet) :
              /\ i \in TxIds /\ s.request[i] # NoRequest
              /\ s.request[i].wallet = call.wallet
      BY DEF PendingOf
    <2>2. ASSUME NEW i \in PendingOf(s, call.wallet)
          PROVE  ~ Pending(After(s, call).request[i])
      <3>1. i \in TxIds /\ s.request[i] # NoRequest
        BY <2>1
      <3>2. PICK st \in {"approved", "superseded"} :
                After(s, call).request[i] = Decided(s, i, st, call)
        BY <1>6, <3>1, AfterRequests
      <3>3. QED
        BY <1>3, <3>1, <3>2
    <2>3. \A i \in TxIds : i \notin PendingOf(s, call.wallet) =>
                               After(s, call).request[i] = s.request[i]
      BY <1>6, AfterRequests
    <2>4. \A i \in PendingOf(s, call.wallet) : w # call.wallet => ~ Pending(s.request[i])
      BY <2>1 DEF Pending
    <2>5. QED
      BY <1>2, <1>6, <2>1, <2>2, <2>3, <2>4 DEF Grants
  <1>7. CASE call.op = "reject"
    <2>1. /\ call.target \in TxIds
          /\ s.request[call.target] # NoRequest
          /\ s.request[call.target].wallet = call.wallet
      BY <1>7 DEF Allowed, RejectAllowed, Decidable, Call
    <2>2. \A i \in TxIds :
              After(s, call).request[i] = IF i = call.target THEN Decided(s, i, "rejected", call)
                                          ELSE s.request[i]
      BY <1>7, AfterRequests
    <2>3. ~ Pending(Decided(s, call.target, "rejected", call))
      BY <1>3, <2>1
    <2>4. w # call.wallet => ~ Pending(s.request[call.target])
      BY <2>1 DEF Pending
    <2>5. QED
      BY <1>2, <1>7, <2>1, <2>2, <2>3, <2>4 DEF Grants
  <1>8. QED
    BY <1>1, <1>4, <1>5, <1>6, <1>7 DEF Ops, Grants

(* A commit on sound tables leaves sound tables. *)
LEMMA AfterSound ==
    ASSUME NEW s \in WalletState, NEW call \in Call, Sound(s), Allowed(s, call),
           s.request[call.id] = NoRequest, FromOwnAgent(call)
    PROVE  Sound(After(s, call))
  <1> DEFINE t == After(s, call)
             wallet == s.wallet[call.wallet]
  <1>1. /\ call.op \in Ops /\ call.wallet \in Wallets /\ call.id \in TxIds
        /\ call.op \in Grants => call.cert \in Certs
        /\ wallet \in Wallet
    BY DEF Call, Grants, WalletState
  <1>2. /\ t.wallet[call.wallet] = WalletAfter(s, call)
        /\ \A w \in Wallets \ {call.wallet} : t.wallet[w] = s.wallet[w]
    <2>1. s.wallet \in [Wallets -> Wallet]
      BY DEF WalletState
    <2>2. t.wallet = [s.wallet EXCEPT ![call.wallet] = WalletAfter(s, call)]
      BY AfterTables
    <2>3. QED
      BY <1>1, <2>1, <2>2
  <1>3. /\ call.op = "register" => wallet.status = "new"
        /\ call.op = "request" => wallet.status # "active"
        /\ call.op = "request" => PendingOf(s, call.wallet) = {}
        /\ call.op = "reject" => call.target \in PendingOf(s, call.wallet)
        /\ call.op \in Grants => GrantAllowed(s, call)
        /\ call.op = "revoke" => wallet.status = "active"
    BY DEF Allowed, RegisterAllowed, RequestAllowed, RejectAllowed, ApproveAllowed,
       RevokeAllowed, Decidable, PendingOf, Grants, Call
  <1>4. call.op = "reject" => /\ wallet.status = "pending"
                              /\ PendingOf(s, call.wallet) = {call.target}
    BY <1>1, <1>3 DEF Sound, PendingSound
  <1> HIDE DEF t
  <1>5. PendingSound(t)
    <2>1. SUFFICES ASSUME NEW w \in Wallets
                   PROVE  PendingOf(t, w) = IF t.wallet[w].status = "pending"
                                            THEN {t.wallet[w].pending} ELSE {}
      BY DEF PendingSound
    <2>2. PendingOf(s, w) = IF s.wallet[w].status = "pending"
                            THEN {s.wallet[w].pending} ELSE {}
      BY DEF Sound, PendingSound
    <2>3. CASE w # call.wallet
      <3>1. PendingOf(t, w) = PendingOf(s, w)
        BY <2>3, PendingAfter DEF t
      <3>2. QED
        BY <1>2, <2>2, <2>3, <3>1
    <2>4. CASE w = call.wallet
      <3>1. PendingOf(t, w) = IF call.op = "request" THEN {call.id}
                              ELSE IF call.op \in Grants \cup {"reject"} THEN {}
                              ELSE PendingOf(s, w)
        BY <1>3, <1>4, <2>4, PendingAfter DEF t, Grants
      <3>2. call.op \in {"register", "revoke"} => PendingOf(s, w) = {}
        BY <1>3, <2>2, <2>4
      <3>3. QED
        BY <1>1, <1>2, <2>4, <3>1, <3>2, AfterWallet DEF Ops, Grants
    <2>5. QED
      BY <2>3, <2>4
  <1>6. BindingSound(t)
    <2>1. SUFFICES ASSUME NEW c \in Certs, NEW w \in Wallets
                   PROVE  t.bound[c] = w <=> /\ t.wallet[w].status = "active"
                                             /\ t.wallet[w].cert = c
      BY DEF BindingSound
    <2>2. \A d \in Certs, v \in Wallets :
              s.bound[d] = v <=> s.wallet[v].status = "active" /\ s.wallet[v].cert = d
      BY DEF Sound, BindingSound
    <2>3. t.bound[c] = IF call.op \in Grants /\ c = call.cert THEN call.wallet
                       ELSE IF call.op = "revoke" /\ c = wallet.cert THEN NoWallet
                       ELSE s.bound[c]
      BY AfterBindings DEF t
    <2>4. w # NoWallet
      BY NullAssumption
    <2>5. CASE call.op \in Grants
      <3>1. /\ wallet.status = "active" => wallet.cert = call.cert
            /\ s.bound[call.cert] \in {NoWallet, call.wallet}
        BY <1>3, <2>5 DEF GrantAllowed
      <3>2. /\ t.wallet[call.wallet].status = "active"
            /\ t.wallet[call.wallet].cert = call.cert
        BY <1>2, <2>5, AfterWallet
      <3>3. CASE w = call.wallet
        BY <2>2, <2>3, <2>5, <3>1, <3>2, <3>3 DEF Grants
      <3>4. CASE w # call.wallet
        BY <1>1, <1>2, <2>2, <2>3, <2>4, <2>5, <3>1, <3>4 DEF Grants
      <3>5. QED
        BY <3>3, <3>4
    <2>6. CASE call.op = "revoke"
      <3>1. t.wallet[call.wallet].status = "revoked"
        BY <1>2, <2>6, AfterWallet
      <3>2. wallet.status = "active"
        BY <1>3, <2>6
      <3>3. QED
        BY <1>1, <1>2, <2>2, <2>3, <2>4, <2>6, <3>1, <3>2 DEF Grants
    <2>7. CASE call.op \in {"register", "request", "reject"}
      <3>1. t.wallet[call.wallet].status \in {"consumer", "pending"}
        BY <1>2, <2>7, AfterWallet
      <3>2. wallet.status # "active"
        BY <1>3, <1>4, <2>7
      <3>3. t.bound[c] = s.bound[c]
        BY <2>3, <2>7 DEF Grants
      <3>4. QED
        BY <1>1, <1>2, <2>2, <3>1, <3>2, <3>3
    <2>8. QED
      BY <1>1, <2>5, <2>6, <2>7 DEF Ops, Grants
  <1>7. OrgSound(t)
    <2>1. SUFFICES ASSUME NEW w \in Wallets, t.wallet[w].status = "active"
                   PROVE  /\ t.wallet[w].cert \in Certs
                          /\ t.wallet[w].org = CertOrg[t.wallet[w].cert]
      BY DEF OrgSound
    <2>2. CASE w # call.wallet
      BY <1>2, <2>1, <2>2 DEF Sound, OrgSound
    <2>3. CASE w = call.wallet
      <3>1. call.op \in Grants
        BY <1>1, <1>2, <2>1, <2>3, AfterWallet DEF Ops, Grants
      <3>2. QED
        BY <1>1, <1>2, <2>3, <3>1, AfterWallet DEF FromOwnAgent
    <2>4. QED
      BY <2>2, <2>3
  <1>8. QED
    BY <1>5, <1>6, <1>7 DEF Sound, t
-----------------------------------------------------------------------------
(* The inductive invariant *)

\* Transaction ids are used once: for one transaction, and for its request.
FreshInv ==
    /\ \A i \in TxIds : ws.request[i] # NoRequest =>
           i < nextTx /\ \A tx \in pool : tx.call.id # i
    /\ \A tx1, tx2 \in pool : tx1.call.id = tx2.call.id => tx1 = tx2

\* A transaction was endorsed on some state of the channel.
EndorsedOn(s, tx) ==
    /\ tx.reads = ReadSet(s, tx.call)
    /\ tx.writes = WriteSet(s, tx.call)
    /\ Allowed(s, tx.call)

PoolInv ==
    \A tx \in pool : /\ FromOwnAgent(tx.call)
                     /\ \E s \in WalletState : EndorsedOn(s, tx)

IInv == TypeOK /\ Sound(ws) /\ FreshInv /\ PoolInv

(* What a commit does: its call is allowed in the state it commits on.     *)
LEMMA CommitApplies ==
    ASSUME IInv, NEW tx \in pool, Commit(tx)
    PROVE  /\ tx.call \in Call
           /\ FromOwnAgent(tx.call)
           /\ Allowed(ws, tx.call)
           /\ ws.request[tx.call.id] = NoRequest
           /\ ws' = After(ws, tx.call)
  <1>1. tx.call \in Call /\ tx.call.id \in TxIds /\ ws \in WalletState
    BY DEF IInv, TypeOK, Call
  <1>2. ws.request[tx.call.id] = NoRequest
    BY <1>1 DEF IInv, FreshInv
  <1>3. PICK s \in WalletState : EndorsedOn(s, tx)
    BY DEF IInv, PoolInv
  <1>4. ReadSet(s, tx.call) = ReadSet(ws, tx.call)
    BY <1>3 DEF Commit, EndorsedOn
  <1>5. Allowed(ws, tx.call) /\ WriteSet(ws, tx.call) = tx.writes
    <2>1. Allowed(s, tx.call) /\ tx.writes = WriteSet(s, tx.call)
      BY <1>3 DEF EndorsedOn
    <2>2. QED
      BY <1>1, <1>4, <2>1, ReadsDetermine
  <1>6. QED
    BY <1>1, <1>2, <1>5 DEF IInv, PoolInv, Commit, After

(* Every proposal of the application is a call with a new id.              *)
LEMMA ProposalsAreCalls ==
    ASSUME TypeOK, SignUp \/ Administer
    PROVE  \E call \in Call : call.id = nextTx /\ FromOwnAgent(call) /\ Propose(call)
  <1>1. ASSUME NEW call, Propose(call)
        PROVE  nextTx <= MaxTx
    BY <1>1 DEF Propose
  <1>2. nextTx <= MaxTx => nextTx \in TxIds
    BY MaxTxAssumption DEF TypeOK, TxIds
  <1>3. Service \in Certs /\ Admins \subseteq Certs /\ PublicRoles \subseteq Roles
    BY ServiceAssumption, RolesAssumption DEF Admins
  <1>4. ASSUME NEW w \in Wallets, RegisterWallet(w)
        PROVE  \E call \in Call : call.id = nextTx /\ FromOwnAgent(call) /\ Propose(call)
    <2> DEFINE call == CallOf("register", Service, w, "consumer", NoCert, NoTx)
    <2>1. Propose(call)
      BY <1>4 DEF RegisterWallet
    <2>2. call \in Call /\ call.id = nextTx /\ FromOwnAgent(call)
      BY <1>1, <1>2, <1>3, <2>1 DEF CallOf, Call, Ops, FromOwnAgent, Grants
    <2>3. QED
      BY <2>1, <2>2
  <1>5. ASSUME NEW w \in Wallets, NEW role \in Roles, RequestWalletRole(w, role)
        PROVE  \E call \in Call : call.id = nextTx /\ FromOwnAgent(call) /\ Propose(call)
    <2> DEFINE call == CallOf("request", Service, w, role, NoCert, NoTx)
    <2>1. Propose(call)
      BY <1>5 DEF RequestWalletRole
    <2>2. call \in Call /\ call.id = nextTx /\ FromOwnAgent(call)
      BY <1>1, <1>2, <1>3, <2>1 DEF CallOf, Call, Ops, FromOwnAgent, Grants
    <2>3. QED
      BY <2>1, <2>2
  <1>6. ASSUME NEW i \in TxIds, ws.request[i] # NoRequest
        PROVE  ws.request[i].wallet \in Wallets /\ ws.request[i].role \in Roles
    BY <1>3, <1>6 DEF TypeOK, WalletState, Request
  <1>7. ASSUME NEW admin \in Admins, NEW i \in TxIds, NEW cert \in Certs,
               ApproveWalletRoleRequest(admin, i, cert)
        PROVE  \E call \in Call : call.id = nextTx /\ FromOwnAgent(call) /\ Propose(call)
    <2> DEFINE call == CallOf("approve", admin, ws.request[i].wallet,
                              ws.request[i].role, cert, i)
    <2>1. Propose(call) /\ ws.request[i] # NoRequest /\ CertOrg[cert] = CertOrg[admin]
      BY <1>7 DEF ApproveWalletRoleRequest, IssuedFor
    <2>2. call \in Call /\ call.id = nextTx /\ FromOwnAgent(call)
      BY <1>1, <1>2, <1>3, <1>6, <2>1 DEF CallOf, Call, Ops, FromOwnAgent, Grants
    <2>3. QED
      BY <2>1, <2>2
  <1>8. ASSUME NEW admin \in Admins, NEW i \in TxIds, RejectWalletRoleRequest(admin, i)
        PROVE  \E call \in Call : call.id = nextTx /\ FromOwnAgent(call) /\ Propose(call)
    <2> DEFINE call == CallOf("reject", admin, ws.request[i].wallet, "consumer", NoCert, i)
    <2>1. Propose(call) /\ ws.request[i] # NoRequest
      BY <1>8 DEF RejectWalletRoleRequest
    <2>2. call \in Call /\ call.id = nextTx /\ FromOwnAgent(call)
      BY <1>1, <1>2, <1>3, <1>6, <2>1 DEF CallOf, Call, Ops, FromOwnAgent, Grants
    <2>3. QED
      BY <2>1, <2>2
  <1>9. ASSUME NEW admin \in Admins, NEW w \in Wallets,
               NEW role \in Roles \cup {"orgadmin"}, NEW cert \in Certs,
               GrantWalletRole(admin, w, role, cert)
        PROVE  \E call \in Call : call.id = nextTx /\ FromOwnAgent(call) /\ Propose(call)
    <2> DEFINE call == CallOf("grant", admin, w, role, cert, NoTx)
    <2>1. Propose(call) /\ CertOrg[cert] = CertOrg[admin]
      BY <1>9 DEF GrantWalletRole, IssuedFor
    <2>2. call \in Call /\ call.id = nextTx /\ FromOwnAgent(call)
      BY <1>1, <1>2, <1>3, <2>1 DEF CallOf, Call, Ops, FromOwnAgent, Grants
    <2>3. QED
      BY <2>1, <2>2
  <1>10. ASSUME NEW admin \in Admins, NEW w \in Wallets, RevokeWalletRole(admin, w)
         PROVE  \E call \in Call : call.id = nextTx /\ FromOwnAgent(call) /\ Propose(call)
    <2> DEFINE call == CallOf("revoke", admin, w, "consumer", NoCert, NoTx)
    <2>1. Propose(call)
      BY <1>10 DEF RevokeWalletRole
    <2>2. call \in Call /\ call.id = nextTx /\ FromOwnAgent(call)
      BY <1>1, <1>2, <1>3, <2>1 DEF CallOf, Call, Ops, FromOwnAgent, Grants
    <2>3. QED
      BY <2>1, <2>2
  <1>11. QED
    BY <1>4, <1>5, <1>7, <1>8, <1>9, <1>10 DEF SignUp, Administer

(* An empty channel satisfies the invariant. *)
LEMMA InitInv == Init => IInv
  <1>1. SUFFICES ASSUME Init PROVE IInv
    OBVIOUS
  <1>2. TypeOK
    <2>1. NewWallet \in Wallet
      BY DEF NewWallet, Wallet
    <2>2. ws \in WalletState
      BY <1>1, <2>1 DEF Init, EmptyRegistry, WalletState
    <2>3. QED
      BY <1>1, <2>2, MaxTxAssumption DEF Init, TypeOK
  <1>3. Sound(ws)
    <2>1. PendingSound(ws)
      BY <1>1 DEF Init, EmptyRegistry, PendingSound, PendingOf, NewWallet
    <2>2. BindingSound(ws)
      BY <1>1, NullAssumption DEF Init, EmptyRegistry, BindingSound, NewWallet
    <2>3. OrgSound(ws)
      BY <1>1 DEF Init, EmptyRegistry, OrgSound, NewWallet
    <2>4. QED
      BY <2>1, <2>2, <2>3 DEF Sound
  <1>4. FreshInv /\ PoolInv
    BY <1>1 DEF Init, EmptyRegistry, FreshInv, PoolInv
  <1>5. QED
    BY <1>2, <1>3, <1>4 DEF IInv

(* A proposal keeps the invariant: it is endorsed on the committed state.  *)
LEMMA ProposeInv ==
    ASSUME IInv, NEW call \in Call, call.id = nextTx, FromOwnAgent(call), Propose(call)
    PROVE  IInv'
  <1> DEFINE new == [call |-> call, reads |-> ReadSet(ws, call), writes |-> WriteSet(ws, call)]
  <1>1. /\ pool' = pool \cup {new}
        /\ nextTx' = nextTx + 1
        /\ ws' = ws
        /\ nextTx <= MaxTx
        /\ Allowed(ws, call)
    BY DEF Propose
  <1>2. /\ new.call = call
        /\ new.reads = ReadSet(ws, call)
        /\ new.writes = WriteSet(ws, call)
    OBVIOUS
  <1> HIDE DEF new
  <1>3. /\ ws \in WalletState
        /\ nextTx \in Nat /\ nextTx >= 1
        /\ \A tx \in pool : tx.call \in Call /\ tx.call.id < nextTx
    BY MaxTxAssumption DEF IInv, TypeOK
  <1>4. \A tx \in pool : tx.call.id \in Nat
    BY <1>3, MaxTxAssumption DEF Call, TxIds
  <1>5. TypeOK'
    BY <1>1, <1>2, <1>3, <1>4, MaxTxAssumption DEF TypeOK
  <1>6. Sound(ws)'
    BY <1>1 DEF IInv, Sound, PendingSound, BindingSound, OrgSound
  <1>7. FreshInv'
    <2>1. ASSUME NEW i \in TxIds, ws.request[i] # NoRequest
          PROVE  i < nextTx + 1 /\ \A tx \in pool \cup {new} : tx.call.id # i
      <3>1. i < nextTx /\ \A tx \in pool : tx.call.id # i
        BY <2>1 DEF IInv, FreshInv
      <3>2. i \in Nat
        BY MaxTxAssumption DEF TxIds
      <3>3. QED
        BY <1>2, <1>3, <3>1, <3>2
    <2>2. ASSUME NEW tx1 \in pool \cup {new}, NEW tx2 \in pool \cup {new},
                 tx1.call.id = tx2.call.id
          PROVE  tx1 = tx2
      <3>1. \A tx \in pool : tx.call.id # new.call.id
        BY <1>2, <1>3, <1>4
      <3>2. QED
        BY <2>2, <3>1 DEF IInv, FreshInv
    <2>3. QED
      BY <1>1, <2>1, <2>2 DEF FreshInv
  <1>8. PoolInv'
    <2>1. EndorsedOn(ws, new) /\ FromOwnAgent(new.call)
      BY <1>1, <1>2 DEF EndorsedOn
    <2>2. QED
      BY <1>1, <1>3, <2>1 DEF IInv, PoolInv
  <1>9. QED
    BY <1>5, <1>6, <1>7, <1>8 DEF IInv

(* A commit keeps the invariant: its call is allowed where it commits.     *)
LEMMA CommitInv ==
    ASSUME IInv, NEW tx \in pool, Commit(tx)
    PROVE  IInv'
  <1>1. /\ tx.call \in Call
        /\ FromOwnAgent(tx.call)
        /\ Allowed(ws, tx.call)
        /\ ws.request[tx.call.id] = NoRequest
        /\ ws' = After(ws, tx.call)
    BY CommitApplies
  <1>2. /\ pool' = pool \ {tx} /\ nextTx' = nextTx
        /\ ws \in WalletState /\ Sound(ws)
        /\ tx.call.id < nextTx /\ tx.call.id \in TxIds
    BY <1>1 DEF Commit, IInv, TypeOK, Call
  <1>3. TypeOK'
    <2>1. ws' \in WalletState
      BY <1>1, <1>2, AfterType
    <2>2. QED
      BY <1>2, <2>1 DEF IInv, TypeOK
  <1>4. Sound(ws)'
    <2>1. Sound(After(ws, tx.call))
      BY <1>1, <1>2, AfterSound
    <2>2. QED
      BY <1>1, <2>1 DEF Sound, PendingSound, BindingSound, OrgSound
  <1>5. FreshInv'
    <2>1. ASSUME NEW i \in TxIds, ws'.request[i] # NoRequest
          PROVE  i = tx.call.id \/ ws.request[i] # NoRequest
      <3>1. CASE tx.call.op \in {"register", "revoke"}
        BY <1>1, <1>2, <2>1, <3>1, AfterRequests
      <3>2. CASE tx.call.op = "request"
        BY <1>1, <1>2, <2>1, <3>2, AfterRequests
      <3>3. CASE tx.call.op \in Grants
        BY <1>1, <1>2, <2>1, <3>3, AfterRequests DEF PendingOf
      <3>4. CASE tx.call.op = "reject"
        <4>1. ws.request[tx.call.target] # NoRequest
          BY <1>1, <3>4 DEF Allowed, RejectAllowed, Decidable
        <4>2. QED
          BY <1>1, <1>2, <2>1, <3>4, <4>1, AfterRequests
      <3>5. QED
        BY <1>1, <3>1, <3>2, <3>3, <3>4 DEF Call, Ops, Grants
    <2>2. QED
      BY <1>2, <2>1 DEF IInv, FreshInv
  <1>6. PoolInv'
    BY <1>2 DEF IInv, PoolInv
  <1>7. QED
    BY <1>3, <1>4, <1>5, <1>6 DEF IInv

(* A step that leaves the channel alone and only loses transactions does. *)
LEMMA DropInv ==
    ASSUME IInv, UNCHANGED << ws, nextTx >>, pool' \subseteq pool
    PROVE  IInv'
  <1>1. TypeOK'
    BY DEF IInv, TypeOK
  <1>2. Sound(ws)'
    BY DEF IInv, Sound, PendingSound, BindingSound, OrgSound
  <1>3. FreshInv' /\ PoolInv'
    BY DEF IInv, FreshInv, PoolInv
  <1>4. QED
    BY <1>1, <1>2, <1>3 DEF IInv

(* The invariant holds in every reachable state. *)
THEOREM Invariance == Spec => []IInv
  <1>1. IInv /\ [Next]_vars => IInv'
    <2>1. SUFFICES ASSUME IInv, [Next]_vars PROVE IInv'
      OBVIOUS
    <2>2. CASE SignUp \/ Administer
      <3>1. PICK call \in Call : call.id = nextTx /\ FromOwnAgent(call) /\ Propose(call)
        BY <2>1, <2>2, ProposalsAreCalls DEF IInv
      <3>2. QED
        BY <2>1, <3>1, ProposeInv
    <2>3. ASSUME NEW tx \in pool, Commit(tx)
          PROVE  IInv'
      BY <2>1, <2>3, CommitInv
    <2>4. ASSUME NEW tx \in pool, Drop(tx)
          PROVE  IInv'
      BY <2>1, <2>4, DropInv DEF Drop
    <2>5. CASE UNCHANGED vars
      BY <2>1, <2>5, DropInv DEF vars
    <2>6. QED
      BY <2>1, <2>2, <2>3, <2>4, <2>5 DEF Next
  <1>2. QED
    BY InitInv, <1>1, PTL DEF Spec
-----------------------------------------------------------------------------
(* The tables, the pool and the counter keep their types. *)
THEOREM TypeCorrect == Spec => []TypeOK
  <1>1. IInv => TypeOK
    BY DEF IInv
  <1>2. QED
    BY Invariance, <1>1, PTL

(* No interleaving of requests, decisions and grants leaves a wallet with    *)
(* two open requests, or with one beside an active role.                   *)
THEOREM OneOpenRequest == Spec => []PendingMatches
  <1>1. IInv => PendingMatches
    BY DEF IInv, Sound, PendingSound, PendingMatches
  <1>2. QED
    BY Invariance, <1>1, PTL

(* The certificate bindings are those of the active wallets, and no others. *)
THEOREM BindingsOfActiveWallets == Spec => []BindingMatches
  <1>1. IInv => BindingMatches
    BY DEF IInv, Sound, BindingSound, BindingMatches
  <1>2. QED
    BY Invariance, <1>1, PTL

(* Only a commit changes the tables. *)
LEMMA OnlyCommitsChange ==
    ASSUME IInv, [Next]_vars, ws' # ws
    PROVE  \E tx \in pool : Commit(tx)
  <1>1. CASE SignUp \/ Administer
    <2>1. PICK call \in Call : Propose(call)
      BY <1>1, ProposalsAreCalls DEF IInv
    <2>2. QED
      BY <2>1 DEF Propose
  <1>2. CASE \E tx \in pool : Drop(tx)
    BY <1>2 DEF Drop
  <1>3. QED
    BY <1>1, <1>2 DEF Next, vars

(* A step that commits leaves the requests alone that are decided.            *)
LEMMA FinalStep ==
    ASSUME IInv, [Next]_vars, ws' # ws, NEW i \in TxIds,
           ws.request[i] # NoRequest, ws.request[i].status # "pending"
    PROVE  ws'.request[i] = ws.request[i]
  <1>1. PICK tx \in pool : Commit(tx)
    BY OnlyCommitsChange
  <1>2. /\ tx.call \in Call /\ ws \in WalletState
        /\ Allowed(ws, tx.call)
        /\ ws.request[tx.call.id] = NoRequest
        /\ ws' = After(ws, tx.call)
    BY <1>1, CommitApplies DEF IInv, TypeOK
  <1>3. i \notin PendingOf(ws, tx.call.wallet)
    BY DEF PendingOf
  <1>4. tx.call.op = "reject" => i # tx.call.target
    BY <1>2 DEF Allowed, RejectAllowed, Decidable
  <1>5. CASE tx.call.op \in {"register", "revoke"}
    BY <1>2, <1>5, AfterRequests
  <1>6. CASE tx.call.op = "request"
    BY <1>2, <1>6, AfterRequests
  <1>7. CASE tx.call.op \in Grants
    BY <1>2, <1>3, <1>7, AfterRequests
  <1>8. CASE tx.call.op = "reject"
    BY <1>2, <1>4, <1>8, AfterRequests
  <1>9. QED
    BY <1>2, <1>5, <1>6, <1>7, <1>8 DEF Call, Ops, Grants

(* However decisions race, a request that was decided is never decided again. *)
THEOREM DecisionsAreFinal == Spec => DecisionsFinal
  <1>1. IInv /\ [Next]_vars =>
            [ \A i \in TxIds :
                (ws.request[i] # NoRequest /\ ws.request[i].status # "pending") =>
                    ws'.request[i] = ws.request[i] ]_ws
    BY FinalStep
  <1>2. QED
    BY Invariance, <1>1, PTL DEF Spec, DecisionsFinal

(* A step that changes an active role is the commit of such an administrator. *)
LEMMA OwnStep ==
    ASSUME IInv, [Next]_vars, ws' # ws, NEW w \in Wallets,
           ws.wallet[w].status = "active", ws'.wallet[w] # ws.wallet[w]
    PROVE  \E tx \in pool \ pool' : /\ AdminAllowed(ws, tx.call.caller)
                                   /\ CertOrg[tx.call.caller] = ws.wallet[w].org
  <1>1. PICK tx \in pool : Commit(tx)
    BY OnlyCommitsChange
  <1>2. /\ tx.call \in Call /\ ws \in WalletState
        /\ FromOwnAgent(tx.call)
        /\ Allowed(ws, tx.call)
        /\ ws' = After(ws, tx.call)
    BY <1>1, CommitApplies DEF IInv, TypeOK
  <1>3. tx \in pool \ pool'
    BY <1>1 DEF Commit
  <1>4. SUFFICES /\ AdminAllowed(ws, tx.call.caller)
                 /\ CertOrg[tx.call.caller] = ws.wallet[w].org
    BY <1>3
  <1>5. w = tx.call.wallet
    <2>1. ws.wallet \in [Wallets -> Wallet] /\ tx.call.wallet \in Wallets
      BY <1>2 DEF WalletState, Call
    <2>2. ws'.wallet = [ws.wallet EXCEPT ![tx.call.wallet] = WalletAfter(ws, tx.call)]
      BY <1>2, AfterTables
    <2>3. QED
      BY <2>1, <2>2
  <1>6. tx.call.op \notin {"register", "request"}
    BY <1>2, <1>5 DEF Allowed, RegisterAllowed, RequestAllowed
  <1>7. tx.call.op # "reject"
    <2>1. SUFFICES ASSUME tx.call.op = "reject" PROVE FALSE
      OBVIOUS
    <2>2. tx.call.target \in PendingOf(ws, w)
      BY <1>2, <1>5, <2>1 DEF Allowed, RejectAllowed, Decidable, PendingOf, Call
    <2>3. QED
      BY <2>2 DEF IInv, Sound, PendingSound
  <1>8. CASE tx.call.op \in Grants
    <2>1. AdminAllowed(ws, tx.call.caller) /\ GrantAllowed(ws, tx.call)
      BY <1>2, <1>8 DEF Allowed, ApproveAllowed, Grants
    <2>2. ws.wallet[w].cert = tx.call.cert
      BY <1>5, <2>1 DEF GrantAllowed
    <2>3. ws.wallet[w].org = CertOrg[ws.wallet[w].cert]
      BY <1>4 DEF IInv, Sound, OrgSound
    <2>4. QED
      BY <1>2, <1>8, <2>1, <2>2, <2>3 DEF FromOwnAgent
  <1>9. CASE tx.call.op = "revoke"
    BY <1>2, <1>5, <1>9 DEF Allowed, RevokeAllowed
  <1>10. QED
    BY <1>2, <1>6, <1>7, <1>8, <1>9 DEF Call, Ops, Grants

(* An active role is changed or ended only by an administrator of its        *)
(* organization who still is one when the transaction commits.             *)
THEOREM RolesEndByOwnOrganization == Spec => OwnOrganizationDecides
  <1>1. IInv /\ [Next]_vars =>
            [ \A w \in Wallets :
                (ws.wallet[w].status = "active" /\ ws'.wallet[w] # ws.wallet[w]) =>
                    \E tx \in pool \ pool' :
                        /\ AdminAllowed(ws, tx.call.caller)
                        /\ CertOrg[tx.call.caller] = ws.wallet[w].org ]_ws
    BY OwnStep
  <1>2. QED
    BY Invariance, <1>1, PTL DEF Spec, OwnOrganizationDecides
=============================================================================
