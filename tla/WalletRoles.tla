----------------------------- MODULE WalletRoles -----------------------------
(***************************************************************************)
(* Wallet roles on the channel: sign-ups and administrators of several     *)
(* organizations whose transactions are under way at once.  A proposal is   *)
(* endorsed on the committed state; at commit it is valid if what it read   *)
(* has not changed since, and otherwise leaves no trace.                   *)
(***************************************************************************)
EXTENDS WalletContract, FiniteSets

CONSTANTS
    Service,        \* the consumer-portal identity that submits sign-ups
    MaxInFlight     \* bound on the transactions under way

ASSUME ServiceAssumption == Service \in Certs

VARIABLES
    ws,             \* the committed wallets, requests and bindings
    pool,           \* endorsed transactions that are not committed yet
    nextTx          \* the next transaction id

vars == << ws, pool, nextTx >>

TypeOK ==
    /\ ws \in WalletState
    /\ \A tx \in pool : tx.call \in Call /\ tx.call.id < nextTx
    /\ nextTx \in 1 .. MaxTx + 1

Init ==
    /\ ws = EmptyRegistry
    /\ pool = {}
    /\ nextTx = 1
-----------------------------------------------------------------------------
Propose(call) ==
    /\ nextTx <= MaxTx
    /\ Cardinality(pool) < MaxInFlight
    /\ Allowed(ws, call)
    /\ pool' = pool \cup {[call |-> call, reads |-> ReadSet(ws, call),
                           writes |-> WriteSet(ws, call)]}
    /\ nextTx' = nextTx + 1
    /\ UNCHANGED ws

CallOf(op, caller, w, role, cert, target) ==
    [op |-> op, id |-> nextTx, caller |-> caller, wallet |-> w, role |-> role,
     cert |-> cert, target |-> target]

(* The application signs a wallet up, or asks for a role on its behalf.     *)
RegisterWallet(w) ==
    Propose(CallOf("register", Service, w, "consumer", NoCert, NoTx))

RequestWalletRole(w, role) ==
    Propose(CallOf("request", Service, w, role, NoCert, NoTx))

\* The certificate an administrator has the agent issue for a role.
IssuedFor(cert, admin, w, role) ==
    /\ CertOrg[cert] = CertOrg[admin]
    /\ CertWallet[cert] = w
    /\ CertRole[cert] = role

ApproveWalletRoleRequest(admin, i, cert) ==
    LET request == ws.request[i]
    IN  /\ request # NoRequest
        /\ IssuedFor(cert, admin, request.wallet, request.role)
        /\ Propose(CallOf("approve", admin, request.wallet, request.role, cert, i))

RejectWalletRoleRequest(admin, i) ==
    /\ ws.request[i] # NoRequest
    /\ Propose(CallOf("reject", admin, ws.request[i].wallet, "consumer", NoCert, i))

GrantWalletRole(admin, w, role, cert) ==
    /\ IssuedFor(cert, admin, w, role)
    /\ Propose(CallOf("grant", admin, w, role, cert, NoTx))

RevokeWalletRole(admin, w) ==
    Propose(CallOf("revoke", admin, w, "consumer", NoCert, NoTx))

(* The transaction is ordered, and its read set is still current. *)
Commit(tx) ==
    /\ tx.reads = ReadSet(ws, tx.call)
    /\ ws' = Apply(ws, tx.writes)
    /\ pool' = pool \ {tx}
    /\ UNCHANGED nextTx

(* It is never ordered, or it is found invalid. *)
Drop(tx) ==
    /\ pool' = pool \ {tx}
    /\ UNCHANGED << ws, nextTx >>

SignUp ==
    \E w \in Wallets :
        \/ RegisterWallet(w)
        \/ \E role \in Roles : RequestWalletRole(w, role)

Administer ==
    \E admin \in Admins :
        \/ \E i \in TxIds : \/ RejectWalletRoleRequest(admin, i)
                            \/ \E cert \in Certs : ApproveWalletRoleRequest(admin, i, cert)
        \/ \E w \in Wallets : \/ RevokeWalletRole(admin, w)
                              \/ \E role \in Roles \cup {"orgadmin"}, cert \in Certs :
                                     GrantWalletRole(admin, w, role, cert)

Next ==
    \/ SignUp
    \/ Administer
    \/ \E tx \in pool : Commit(tx) \/ Drop(tx)

Spec == Init /\ [][Next]_vars
-----------------------------------------------------------------------------
(* A wallet is pending exactly while one request of it is, and names it: no *)
(* race of requests, decisions and direct grants leaves two requests open,  *)
(* or one that an active wallet could still be overwritten by.             *)
PendingMatches ==
    \A w \in Wallets :
        PendingOf(ws, w) = IF ws.wallet[w].status = "pending"
                           THEN {ws.wallet[w].pending} ELSE {}

(* GetWalletByClientIDHash finds a wallet by a certificate exactly while the *)
(* wallet is active with that very certificate.                            *)
BindingMatches ==
    \A c \in Certs, w \in Wallets :
        ws.bound[c] = w <=> /\ ws.wallet[w].status = "active"
                            /\ ws.wallet[w].cert = c

(* A decision on a request is final. *)
DecisionsFinal ==
    [][ \A i \in TxIds :
            (ws.request[i] # NoRequest /\ ws.request[i].status # "pending") =>
                ws'.request[i] = ws.request[i] ]_ws

(* An active role changes or ends only by a transaction of an administrator *)
(* of its organization, who at that very moment still is one, not merely    *)
(* when the transaction was endorsed.                                      *)
OwnOrganizationDecides ==
    [][ \A w \in Wallets :
            (ws.wallet[w].status = "active" /\ ws'.wallet[w] # ws.wallet[w]) =>
                \E tx \in pool \ pool' :
                    /\ AdminAllowed(ws, tx.call.caller)
                    /\ CertOrg[tx.call.caller] = ws.wallet[w].org ]_ws
=============================================================================
