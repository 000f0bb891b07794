---------------------------- MODULE WalletContract ----------------------------
(***************************************************************************)
(* The wallet lifecycle of the chaincode (wallet.go) as functions of the    *)
(* world state: who may register, request, approve, reject, grant and      *)
(* revoke, what each transaction reads, and what it writes.                *)
(*                                                                         *)
(* Left out: the grant records, which no transaction reads; the trust base  *)
(* of a new role (DomainContract has the asset records); and wallet.Status, *)
(* which no transaction changes.                                           *)
(***************************************************************************)
EXTENDS Naturals

CONSTANTS
    Wallets,        \* wallet addresses
    Certs,          \* Fabric certificates of persons and administrators
    Orgs,
    OrgOf,          \* role |-> the organization it belongs to
    PublicRoles,    \* the roles that sign-up may request
    CertRole,       \* certificate |-> olivechain.role
    CertOrg,        \* certificate |-> the organization of its MSP
    CertWallet,     \* certificate |-> olivechain.wallet, or NoWallet
    MaxTx,          \* bound on the number of transactions proposed
    NoWallet, NoCert, NoRequest

Roles == DOMAIN OrgOf
TxIds == 1 .. MaxTx
NoTx == 0
Admins == {c \in Certs : CertRole[c] = "orgadmin"}

ASSUME RolesAssumption ==
    /\ OrgOf \in [Roles -> Orgs]
    /\ PublicRoles \subseteq Roles
    /\ Roles \cap {"consumer", "orgadmin"} = {}
ASSUME CertsAssumption ==
    /\ CertRole \in [Certs -> Roles \cup {"consumer", "orgadmin"}]
    /\ CertOrg \in [Certs -> Orgs]
    /\ CertWallet \in [Certs -> Wallets \cup {NoWallet}]
ASSUME NullAssumption == NoWallet \notin Wallets \cup Orgs /\ NoCert \notin Certs
ASSUME MaxTxAssumption == MaxTx \in Nat

\* WalletIdentity, with the transaction that wrote it last.
Wallet == [status : {"new", "consumer", "pending", "active", "revoked"},
           role : Roles \cup {"consumer", "orgadmin"},
           org : Orgs \cup {NoWallet}, cert : Certs \cup {NoCert},
           pending : TxIds \cup {NoTx}, version : TxIds \cup {NoTx}]

\* A wallet address that is not on the ledger.
NewWallet == [status |-> "new", role |-> "consumer", org |-> NoWallet,
              cert |-> NoCert, pending |-> NoTx, version |-> NoTx]

\* WalletRoleRequest, under the id of the transaction that filed it.
Request == [wallet : Wallets, role : PublicRoles,
            status : {"pending", "approved", "rejected", "superseded"},
            version : TxIds]

ASSUME NoRequestAssumption == NoRequest \notin Request

WalletState ==
    [wallet : [Wallets -> Wallet],
     request : [TxIds -> Request \cup {NoRequest}],
     bound : [Certs -> Wallets \cup {NoWallet}]]     \* the walletclient keys

Ops == {"register", "request", "approve", "reject", "grant", "revoke"}

(* A call: its transaction id, the certificate of the caller, and arguments. *)
Call ==
    {call \in [op : Ops, id : TxIds, caller : Certs, wallet : Wallets,
               role : Roles \cup {"consumer", "orgadmin"},
               cert : Certs \cup {NoCert}, target : TxIds \cup {NoTx}] :
        /\ call.op \in {"approve", "reject"} => call.target \in TxIds
        /\ call.op \in {"approve", "grant"} => call.cert \in Certs}
-----------------------------------------------------------------------------
PendingOf(s, w) ==
    {i \in TxIds : /\ s.request[i] # NoRequest
                   /\ s.request[i].wallet = w
                   /\ s.request[i].status = "pending"}

\* validateActiveWalletBinding
ActiveBinding(s, c) ==
    /\ CertWallet[c] # NoWallet
    /\ LET wallet == s.wallet[CertWallet[c]]
       IN  /\ wallet.status = "active"
           /\ wallet.org = CertOrg[c]
           /\ wallet.role = CertRole[c]
           /\ wallet.cert = c

\* requireWalletOrgAdminOrBootstrap
AdminAllowed(s, c) ==
    /\ c \in Admins
    /\ CertWallet[c] = NoWallet \/ ActiveBinding(s, c)

RegisterAllowed(s, call) == s.wallet[call.wallet].status = "new"

(* For the mutation runs: sign-up takes restricted roles as well.          *)
RequestAllowedAnyRole(s, call) ==
    /\ s.wallet[call.wallet].status \notin {"new", "active"}
    /\ PendingOf(s, call.wallet) = {}

RequestAllowed(s, call) ==
    /\ call.role \in PublicRoles
    /\ s.wallet[call.wallet].status \notin {"new", "active"}
    /\ PendingOf(s, call.wallet) = {}

\* grantWalletRole up to its last check
GrantAllowed(s, call) ==
    /\ IF call.role = "orgadmin"
       THEN CertWallet[call.caller] = NoWallet
       ELSE call.role \in Roles /\ OrgOf[call.role] = CertOrg[call.caller]
    /\ s.wallet[call.wallet].status # "new"
    /\ s.wallet[call.wallet].status = "active" =>
           s.wallet[call.wallet].cert = call.cert
    /\ s.bound[call.cert] \in {NoWallet, call.wallet}

(* For the mutation runs: a decision on a request that was decided before.  *)
DecidableAgain(s, call) ==
    LET request == s.request[call.target]
    IN  /\ request # NoRequest
        /\ request.wallet = call.wallet
        /\ OrgOf[request.role] = CertOrg[call.caller]

\* The request a decision is about, pending and addressed to the caller's org.
Decidable(s, call) ==
    LET request == s.request[call.target]
    IN  /\ request # NoRequest
        /\ request.status = "pending"
        /\ request.wallet = call.wallet
        /\ OrgOf[request.role] = CertOrg[call.caller]

ApproveAllowed(s, call) ==
    /\ AdminAllowed(s, call.caller)
    /\ Decidable(s, call)
    /\ call.role = s.request[call.target].role
    /\ GrantAllowed(s, call)

RejectAllowed(s, call) == AdminAllowed(s, call.caller) /\ Decidable(s, call)

RevokeAllowed(s, call) ==
    /\ AdminAllowed(s, call.caller)
    /\ s.wallet[call.wallet].status = "active"
    /\ s.wallet[call.wallet].org = CertOrg[call.caller]

Allowed(s, call) ==
    CASE call.op = "register" -> RegisterAllowed(s, call)
      [] call.op = "request" -> RequestAllowed(s, call)
      [] call.op = "approve" -> ApproveAllowed(s, call)
      [] call.op = "reject" -> RejectAllowed(s, call)
      [] call.op = "grant" -> AdminAllowed(s, call.caller) /\ GrantAllowed(s, call)
      [] call.op = "revoke" -> RevokeAllowed(s, call)
-----------------------------------------------------------------------------
(* What a transaction reads and writes *)

(* For the mutation runs: the administrator's own binding not read.         *)
WalletsReadTarget(call) == {call.wallet}

WalletsRead(call) ==
    {call.wallet} \cup
    (IF call.op \in {"register", "request"} \/ CertWallet[call.caller] = NoWallet
     THEN {} ELSE {CertWallet[call.caller]})

\* A range read of the role requests sees every one of them, and new ones.
RequestsRead(call) ==
    CASE call.op \in {"request", "approve", "grant"} -> TxIds
      [] call.op = "reject" -> {call.target}
      [] call.op \in {"register", "revoke"} -> {}

Grants == {"approve", "grant"}

(* The read set, by value: wallets and requests carry their version, and a  *)
(* binding never changes without the wallet it names.                      *)
ReadSet(s, call) ==
    [wallet |-> [w \in WalletsRead(call) |-> s.wallet[w]],
     request |-> [i \in RequestsRead(call) |-> s.request[i]],
     bound |-> [c \in IF call.op \in Grants THEN {call.cert} ELSE {}
                    |-> s.bound[c]]]

WalletAfter(s, call) ==
    LET wallet == s.wallet[call.wallet]
        next == [wallet EXCEPT !.version = call.id]
    IN  CASE call.op = "register" -> [next EXCEPT !.status = "consumer"]
          [] call.op = "request" ->
                 [next EXCEPT !.status = "pending", !.pending = call.id]
          [] call.op \in Grants ->
                 [next EXCEPT !.status = "active", !.role = call.role,
                              !.org = CertOrg[call.caller], !.cert = call.cert,
                              !.pending = NoTx]
          [] call.op = "reject" ->
                 [next EXCEPT !.status = "consumer", !.role = "consumer",
                              !.pending = NoTx]
          [] call.op = "revoke" -> [next EXCEPT !.status = "revoked"]

Nothing == [key \in {} |-> key]

Decided(s, i, status, call) ==
    [s.request[i] EXCEPT !.status = status, !.version = call.id]

(* For the mutation runs: closeOtherPendingRoleRequests left out.          *)
RequestsAfterOneDecided(s, call) ==
    CASE call.op = "request" ->
             [i \in {call.id} |-> [wallet |-> call.wallet, role |-> call.role,
                                   status |-> "pending", version |-> call.id]]
      [] call.op = "approve" -> [i \in {call.target} |-> Decided(s, i, "approved", call)]
      [] call.op = "reject" -> [i \in {call.target} |-> Decided(s, i, "rejected", call)]
      [] call.op \in {"register", "grant", "revoke"} -> Nothing

\* The requests a transaction writes: a new one, the one decided, and those
\* that closeOtherPendingRoleRequests closes.
RequestsAfter(s, call) ==
    CASE call.op = "request" ->
             [i \in {call.id} |-> [wallet |-> call.wallet, role |-> call.role,
                                   status |-> "pending", version |-> call.id]]
      [] call.op = "approve" ->
             [i \in PendingOf(s, call.wallet) \cup {call.target} |->
                 Decided(s, i, IF i = call.target THEN "approved" ELSE "superseded", call)]
      [] call.op = "grant" ->
             [i \in PendingOf(s, call.wallet) |-> Decided(s, i, "superseded", call)]
      [] call.op = "reject" -> [i \in {call.target} |-> Decided(s, i, "rejected", call)]
      [] call.op \in {"register", "revoke"} -> Nothing

(* For the mutation runs: the walletclient key survives a revocation.      *)
BoundAfterKept(s, call) ==
    IF call.op \in Grants THEN [c \in {call.cert} |-> call.wallet] ELSE Nothing

BoundAfter(s, call) ==
    CASE call.op \in Grants -> [c \in {call.cert} |-> call.wallet]
      [] call.op = "revoke" ->
             [c \in {s.wallet[call.wallet].cert} \ {NoCert} |-> NoWallet]
      [] call.op \in {"register", "request", "reject"} -> Nothing

WriteSet(s, call) ==
    [wallet |-> [w \in {call.wallet} |-> WalletAfter(s, call)],
     request |-> RequestsAfter(s, call),
     bound |-> BoundAfter(s, call)]

\* f with the keys that g has taken from g
Overwritten(f, g) == [x \in DOMAIN f |-> IF x \in DOMAIN g THEN g[x] ELSE f[x]]

Apply(s, writes) ==
    [wallet |-> Overwritten(s.wallet, writes.wallet),
     request |-> Overwritten(s.request, writes.request),
     bound |-> Overwritten(s.bound, writes.bound)]

EmptyRegistry ==
    [wallet |-> [w \in Wallets |-> NewWallet],
     request |-> [i \in TxIds |-> NoRequest],
     bound |-> [c \in Certs |-> NoWallet]]
=============================================================================
