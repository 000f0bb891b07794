------------------------------- MODULE RoleDesk -------------------------------
(***************************************************************************)
(* Administrators deciding on roles in the portal.  A decision changes two   *)
(* systems in turn: the gateway agent of the organization, which issues or   *)
(* disables a Fabric identity, and the wallet contract.  Either call may be   *)
(* refused, may never arrive, or may take effect after its reply was given    *)
(* up (the client waits 30 seconds, the agent up to 120), and the             *)
(* application then undoes what it can.                                       *)
(*                                                                         *)
(* The alias of a portal identity is made from the wallet address alone, so  *)
(* an organization issues one to a wallet at most once; a certificate of a    *)
(* person stands for its alias.  Administrators' own identities are made by   *)
(* bootstrap-wallet-admin.py, under fresh names.                              *)
(***************************************************************************)
EXTENDS WalletRoles

CONSTANTS
    Desks,          \* requests of administrators the portal serves at once
    Registered,     \* the wallets on the ledger at the start
    MaxLost         \* bound on the calls lost

ASSUME RegisteredAssumption == Registered \subseteq Wallets

VARIABLES
    identities,     \* certificate |-> its state at the agent that issued it
    jobs,           \* what each desk is doing
    lost,           \* calls or replies lost so far
    told,           \* what administrators were told had been done
    swallowed       \* identities whose clean-up failed, unknown to anybody

deskVars == << identities, jobs, lost, told, swallowed >>
allVars == << vars, deskVars >>

Idle == [op |-> "none", step |-> "idle", caller |-> NoCert, wallet |-> NoWallet,
         role |-> "consumer", target |-> NoTx, cert |-> NoCert, tx |-> NoTx]

DeskInit ==
    /\ ws = [EmptyRegistry EXCEPT
                !.wallet = [w \in Wallets |->
                               IF w \in Registered
                               THEN [NewWallet EXCEPT !.status = "consumer"]
                               ELSE NewWallet]]
    /\ pool = {}
    /\ nextTx = 1
    /\ identities = [c \in Certs |-> "none"]
    /\ jobs = [d \in Desks |-> Idle]
    /\ lost = 0
    /\ told = {}
    /\ swallowed = {}
-----------------------------------------------------------------------------
(* The identity store of the agents *)

\* An alias the store knows; "reserved" is one that only the CA knows.
Taken(c) == identities[c] # "none"

AliasTaken(org, w) ==
    \E c \in Certs : CertOrg[c] = org /\ CertWallet[c] = w
                     /\ CertRole[c] \in Roles /\ Taken(c)

Usable(c) == identities[c] = "active"

\* The certificate a job asks for; a bootstrap identity is bound to no wallet.
Wanted(job, c) ==
    /\ CertWallet[c] = job.wallet
    /\ CertRole[c] = job.role
    /\ CertOrg[c] = CertOrg[job.caller]
    /\ ~Taken(c)
    /\ job.op = "bootstrap" \/ ~AliasTaken(CertOrg[c], job.wallet)

\* At most one of them exists for a wallet that holds an administrator's role.
SignedInAdmins == {c \in Admins : CertWallet[c] # NoWallet /\ ActiveBinding(ws, c)}
-----------------------------------------------------------------------------
(* How a job goes on *)

Done(job) == IF job.op = "bootstrap" THEN [job EXCEPT !.step = "last", !.tx = NoTx]
                                     ELSE Idle

(* For the mutation runs: an identity issued for nothing is left as it is.  *)
FailedUncleaned(job) == Done(job)

(* For the mutation runs: a call that timed out is taken as under way.       *)
FailedWhenRefused(job) ==
    IF job.op # "revoke" /\ job.cert # NoCert /\ job.tx = NoTx
    THEN [job EXCEPT !.step = "undo"] ELSE Done(job)

\* An error: what was issued for the role is disabled again.
Failed(job) ==
    IF job.op # "revoke" /\ job.cert # NoCert
    THEN [job EXCEPT !.step = "undo", !.tx = NoTx] ELSE Done(job)

Become(d, job) == jobs' = [jobs EXCEPT ![d] = job]

At(d, step) == jobs[d].step = step

LoseCall == lost < MaxLost /\ lost' = lost + 1

Open(d, job) ==
    /\ At(d, "idle")
    /\ Become(d, job)
    /\ UNCHANGED << vars, identities, lost, told, swallowed >>

OpenApproval(d, admin, i) ==
    LET request == ws.request[i]
    IN  /\ request # NoRequest
        /\ OrgOf[request.role] = CertOrg[admin]
        /\ Open(d, [Idle EXCEPT !.op = "approve", !.step = "create", !.caller = admin,
                                !.wallet = request.wallet, !.role = request.role,
                                !.target = i])

OpenGrant(d, admin, w, role) ==
    /\ role \in Roles \ PublicRoles
    /\ OrgOf[role] = CertOrg[admin]
    /\ ws.wallet[w].status # "new"
    /\ Open(d, [Idle EXCEPT !.op = "grant", !.step = "create", !.caller = admin,
                            !.wallet = w, !.role = role])

OpenRejection(d, admin, i) ==
    /\ ws.request[i] # NoRequest
    /\ Open(d, [Idle EXCEPT !.op = "reject", !.step = "submit", !.caller = admin,
                            !.wallet = ws.request[i].wallet, !.target = i])

OpenRevocation(d, admin, w) ==
    /\ ws.wallet[w].org = CertOrg[admin]
    /\ Open(d, [Idle EXCEPT !.op = "revoke", !.step = "disable", !.caller = admin,
                            !.wallet = w, !.cert = ws.wallet[w].cert])

\* bootstrap-wallet-admin.py, run by hand on the machine of an organization
OpenBootstrap(d, w) ==
    /\ ws.wallet[w].status \notin {"new", "active"}
    /\ Open(d, [Idle EXCEPT !.op = "bootstrap", !.step = "first",
                            !.wallet = w, !.role = "orgadmin"])
-----------------------------------------------------------------------------
(* Calls to the agent about identities *)

\* The temporary identity of the bootstrap, bound to no wallet.
CreateBootstrap(d) ==
    \E c \in Admins :
        /\ At(d, "first")
        /\ CertWallet[c] = NoWallet
        /\ ~Taken(c)
        /\ identities' = [identities EXCEPT ![c] = "active"]
        /\ \/ /\ Become(d, [jobs[d] EXCEPT !.step = "create", !.caller = c])
              /\ UNCHANGED lost
           \/ /\ LoseCall
              /\ Become(d, Idle)
        /\ UNCHANGED << vars, told, swallowed >>

CreateIdentity(d) ==
    \E c \in Certs :
        /\ At(d, "create")
        /\ Wanted(jobs[d], c)
        /\ identities' = [identities EXCEPT ![c] = "active"]
        /\ Become(d, [jobs[d] EXCEPT !.step = "submit", !.cert = c])
        /\ UNCHANGED << vars, lost, told, swallowed >>

\* The CA registers the name, and the identity is stored or not, but the
\* application never learns of either.
CreateUnanswered(d) ==
    \E c \in Certs, state \in {"reserved", "active"} :
        /\ At(d, "create")
        /\ Wanted(jobs[d], c)
        /\ LoseCall
        /\ identities' = [identities EXCEPT ![c] = state]
        /\ Become(d, Failed(jobs[d]))
        /\ UNCHANGED << vars, told, swallowed >>

\* The alias exists, or the agent is out of reach.
CreateRefused(d) ==
    /\ At(d, "first") \/ At(d, "create")
    /\ \/ /\ At(d, "create")
          /\ ~\E c \in Certs : Wanted(jobs[d], c)
          /\ UNCHANGED lost
       \/ LoseCall
    /\ Become(d, IF At(d, "first") THEN Idle ELSE Failed(jobs[d]))
    /\ UNCHANGED << vars, identities, told, swallowed >>

(* For the mutation runs: the state is switched over instead of set.        *)
Toggled(c) ==
    CASE identities[c] = "active" -> [identities EXCEPT ![c] = "disabled"]
      [] identities[c] = "disabled" -> [identities EXCEPT ![c] = "active"]
      [] OTHER -> identities

\* The store after an identity was disabled; it has to know the alias.
Disabled(c) ==
    IF identities[c] = "active" THEN [identities EXCEPT ![c] = "disabled"]
                                ELSE identities

\* A revocation starts at the agent, and goes no further when that fails.
DisableIdentity(d) ==
    LET c == jobs[d].cert
    IN  /\ At(d, "disable")
        /\ \/ /\ identities' = Disabled(c)
              /\ Become(d, [jobs[d] EXCEPT !.step = "submit"])
              /\ UNCHANGED lost
           \/ /\ LoseCall
              /\ identities' \in {identities, Disabled(c)}
              /\ Become(d, Idle)
        /\ UNCHANGED << vars, told, swallowed >>

\* The clean-up after an error, whose own errors are ignored.
Undo(d) ==
    LET c == jobs[d].cert
    IN  /\ At(d, "undo")
        /\ \/ identities' = Disabled(c) /\ UNCHANGED << lost, swallowed >>
           \/ /\ LoseCall
              /\ UNCHANGED identities
              /\ swallowed' = swallowed \cup {c}
        /\ Become(d, Done(jobs[d]))
        /\ UNCHANGED << vars, told >>

\* The finally clause of the bootstrap.
DisableBootstrap(d) ==
    LET c == jobs[d].caller
    IN  /\ At(d, "last")
        /\ \/ identities' = Disabled(c) /\ UNCHANGED lost
           \/ LoseCall /\ UNCHANGED identities
        /\ Become(d, Idle)
        /\ UNCHANGED << vars, told, swallowed >>
-----------------------------------------------------------------------------
(* The transaction *)

CallOfJob(job) ==
    CallOf(IF job.op = "bootstrap" THEN "grant" ELSE job.op, job.caller, job.wallet,
           job.role, IF job.op = "revoke" THEN NoCert ELSE job.cert, job.target)

\* The agent signs with the identity of the caller, if it is not disabled.
Submit(d) ==
    /\ At(d, "submit")
    /\ Usable(jobs[d].caller)
    /\ Propose(CallOfJob(jobs[d]))
    /\ Become(d, [jobs[d] EXCEPT !.step = "wait", !.tx = nextTx])
    /\ UNCHANGED << identities, lost, told, swallowed >>

SubmitRefused(d) ==
    /\ At(d, "submit")
    /\ \/ /\ ~Usable(jobs[d].caller) \/ ~Allowed(ws, CallOfJob(jobs[d]))
          /\ UNCHANGED lost
       \/ LoseCall
    /\ Become(d, Failed(jobs[d]))
    /\ UNCHANGED << vars, identities, told, swallowed >>

\* The reply is late, or the caller's connection was closed when its identity
\* was disabled.  The transaction may still commit.
GiveUp(d) ==
    /\ At(d, "wait")
    /\ LoseCall \/ (~Usable(jobs[d].caller) /\ UNCHANGED lost)
    /\ Become(d, Failed(jobs[d]))
    /\ UNCHANGED << vars, identities, told, swallowed >>

Waiting(tx) == {d \in Desks : At(d, "wait") /\ jobs[d].tx = tx.call.id}

CommitTx(tx) ==
    /\ Commit(tx)
    /\ jobs' = [d \in Desks |-> IF d \in Waiting(tx) THEN Done(jobs[d]) ELSE jobs[d]]
    /\ told' = told \cup {[op |-> jobs[d].op, cert |-> jobs[d].cert] : d \in Waiting(tx)}
    /\ UNCHANGED << identities, lost, swallowed >>

DropTx(tx) ==
    /\ Drop(tx)
    /\ jobs' = [d \in Desks |-> IF d \in Waiting(tx) THEN Failed(jobs[d]) ELSE jobs[d]]
    /\ UNCHANGED << identities, lost, told, swallowed >>

DeskNext ==
    \/ SignUp /\ UNCHANGED deskVars
    \/ \E d \in Desks :
          \/ \E admin \in SignedInAdmins :
                \/ \E i \in TxIds : OpenApproval(d, admin, i) \/ OpenRejection(d, admin, i)
                \/ \E w \in Wallets : \/ OpenRevocation(d, admin, w)
                                      \/ \E role \in Roles : OpenGrant(d, admin, w, role)
          \/ \E w \in Wallets : OpenBootstrap(d, w)
          \/ CreateBootstrap(d) \/ CreateIdentity(d) \/ CreateUnanswered(d)
          \/ CreateRefused(d) \/ DisableIdentity(d) \/ Undo(d) \/ DisableBootstrap(d)
          \/ Submit(d) \/ SubmitRefused(d) \/ GiveUp(d)
    \/ \E tx \in pool : CommitTx(tx) \/ DropTx(tx)

DeskSpec == DeskInit /\ [][DeskNext]_allVars
-----------------------------------------------------------------------------
WorkedOn(c) == \E d \in Desks : c \in {jobs[d].cert, jobs[d].caller}

(* When a revocation was reported as done, the identity can neither sign at  *)
(* the agent nor act on the ledger, and never will again: no late            *)
(* transaction and no other decision brings it back.                         *)
RevokedForGood ==
    \A done \in told :
        done.op = "revoke" => ~Usable(done.cert) /\ ws.bound[done.cert] = NoWallet

(* A role that can be exercised is one that an administrator was told was    *)
(* given, or is being decided on; one reported as failed, though its         *)
(* transaction committed later, cannot be used unless the clean-up was lost  *)
(* as well.                                                                  *)
UsableWasConfirmed ==
    \A c \in Certs :
        (ws.bound[c] # NoWallet /\ Usable(c)) =>
            \/ \E done \in told : done.op # "revoke" /\ done.cert = c
            \/ c \in swallowed
            \/ WorkedOn(c)

(* As long as no call is lost, no decision that fails leaves an identity at   *)
(* an agent: one that can sign and that nobody is working on is the role of a *)
(* wallet, and was reported as given.  In particular it is not the unbound    *)
(* administrator of a bootstrap, nor one whose caller was disabled meanwhile. *)
NoStrayIdentity ==
    \A c \in Certs :
        (lost = 0 /\ Usable(c) /\ ~WorkedOn(c)) =>
            /\ CertWallet[c] # NoWallet
            /\ \E done \in told : done.op # "revoke" /\ done.cert = c
=============================================================================
