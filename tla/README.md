# OliveChain: a verification project

OliveChain records the life of olive-oil batches and of the residues of their
milling. The same application runs over one of two ledgers: a local one, a
hash-chained JSON-lines file behind a FastAPI server (`olivechain/ledger.py`,
`olivechain/api.py`), or a chaincode on a four-machine Hyperledger Fabric channel
(`fabric-network/chaincode/olivechain-domain`), reached through a gateway agent on
every machine (`fabric-gateway-agent`). This directory holds TLA+ models of the
parts that carry state, what TLC checks of them, and what TLAPS proves.

## 1. Inventory

| Component | State | Operations | Talks to |
|---|---|---|---|
| Local ledger, `ledger.py` | `_events`, `_by_id`, `superseded_by`; the file | `append`, `commit_prepared`, `_load`, `verify_chain`, `effective_payload` | API (under `write_lock`), file |
| HTTP API, `api.py` | `write_lock`, rate-limit windows; everything else by reference | `/events/prepare`, `/events/commit`, `/scan`, `/rewards/run`, portal, wallet and organization routes, `/admin/export` | both ledgers, registry, agents |
| Workflow rules, `workflow.go` and `workflow.py` | none (computed from events) | `analyzeWorkflow`/`derive_status`, `validateWorkflowTransition`/`transition_allowed` | contract; portal |
| Event contract, `contract.go`, `helpers.go` | events, their indexes, supersede keys | `SubmitEvent`, `CorrectEvent`, queries | workflow, tokens, wallets; Fabric |
| Wallet incentives, `tokens.go` | asset record per wallet, token transactions, reward keys | `applyWalletIncentives`, `creditToken`, `adjustTrust`, `mintEcoForCompletedResidue` | called by `writeEvent` |
| Wallet roles, `wallet.go` | wallets, role requests, grants, certificate bindings | register, request, approve, reject, grant, revoke | provisioning in the API, agent |
| Governance and rewards, `governance.go`, `incentives.go`, `incentives.py` | proposals with approvals; `REWARD_ISSUED` events | propose, approve, finalize; `due_rewards`, `run` | contract; mass balance |
| Mass balance, anomaly scan (Go and Python) | none | `ReconcileResidue`, `ScanAnomalies` | events |
| Gateway agent, `server.mjs`; `fabric_client.py` | gateway sessions, identity store | evaluate, submit, create and disable identities | Fabric; API |
| Fabric adapter, `fabric_ledger.py`, `fabric_registry.py` | caches (0.75 s, 5 s) | `all`, `commit_prepared`, role submission | agents |
| Wallet login, `wallet_auth.py`; rate limiter in `api.py` | challenges, sessions, windows | issue, verify, parse | API |
| Registry and startup, `registry.py`, `serve.py` | organizations and their file, key files | `register`, `_save`, startup | API |
| Evidence, backup, restore | artifact files, archives | `put`, `verify`, `make_backup`, `restore_backup` | API, scripts |
| Passport, PDF, credentials, weather oracle, frontend, network scripts, demo | none, or payload of one event | rendering, fetching, deployment | |

Hard behaviours, and what correct means there:

* **Local ledger.** Prepare and commit are two requests with a client's signature in
  between; replies get lost and bodies are sent again; the process dies between the
  three steps of a commit; the disk refuses a write. What was acknowledged must stay
  on file, the chain must stay verifiable, and the supersession pointers set one by
  one must be those a restart rebuilds.
* **Fabric channel.** A transaction is computed on a state that may be old when it
  commits, does not see its own writes, may be lost, and is sent again under a new
  event id. Checks and balances must be those of a serial execution; corrections must
  form a chain; a bonus must be given once; a revoked wallet must be silent.
* **Workflow.** The rules exist twice, in Go and in Python, and read a history sorted
  by the clients' timestamps from which corrections remove events.
* **Wallet roles, governance, provisioning.** Several administrators decide at once,
  and two systems (contract and identity store) change one after the other.
* **Governance and rewards.** A worklist goes stale while the authority signs from it; a
  reward due when proposed may not be due when finalized; the engine runs beside the
  consoles. Nobody may be paid twice unseen, and nothing under review may be paid (of the
  last, the code does less than its comments say: see the findings).
* **Login, caches, backup, startup.** One-time challenges, stale caches, files read
  twice, a crash between two files, a passport put together while the ledger grows.

The hazards at their lines are in `PROJECT.json`, with the properties that cover each, or
the reason why none does.

## 2. The modules

| Module | Models | |
|---|---|---|
| `LedgerEvents` | `ledger.py` | an event, the hash chain, `verify_chain`, supersession as functions of a log |
| `LocalLedger` | `ledger.py`, `api.py` | the server, the file, clients, crashes, failed writes, lines cut short |
| `AppendOnlyLedger` | | what the file promises; `LocalLedger` implements it |
| `LocalLedgerProofs` | | the proofs about `LocalLedger` |
| `BoundedInduction` | | two lemmas on positions of a log that the proofs share |
| `Workflow` | `workflow.go`, `models.go` | steps, permissions, `analyzeWorkflow`, the transition check |
| `WorkflowMirror` | `workflow.py` | `derive_status`, `transition_allowed` |
| `WorkflowHistory` | `workflow.go`, `workflow.py` | the histories of one subject, and what both copies of the rules make of them |
| `WorkflowProofs` | | the proofs about `WorkflowHistory` |
| `DomainContract` | `contract.go`, `helpers.go`, `tokens.go`, `workflow.go` | the world state; when the contract accepts a request, its read and write sets |
| `Traceability` | the contract on the channel, `server.mjs` | delayed proposals, endorsement, MVCC commit, loss, retries, revocation |
| `TraceabilityLog` | | the contract run one transaction at a time, its operators as parameters; `Traceability` implements it |
| `TraceabilityProofs` | | the proofs about `Traceability` |
| `WalletContract` | `wallet.go` | wallets, role requests, bindings: each operation as a function of the committed state |
| `WalletRoles` | `wallet.go` on the channel | the same operations in flight at once; revocation, rebinding |
| `WalletRolesProofs` | | the proofs about `WalletRoles` |
| `Rewards` | `massbalance.py`, `anomaly.py`, `incentives.py`, their Go twins | mass balance, anomaly scans, open flags and due rewards as functions of a log |
| `RewardDesk` | `api.py`, `incentives.py` | consoles of the authority with stale worklists, the engine, actors and corrections on the local ledger |
| `Governance` | `governance.go`, `incentives.go` | proposals, approvals and finalizations on the channel |
| `RewardProofs` | | the proofs about `Governance` and `RewardDesk` |
| `WalletLogin` | `wallet_auth.py`, `api.py` | challenges, sign-in, registration, sessions, the rate limiter, restarts |
| `RoleDesk` | `api.py`, `fabric_client.py`, `server.mjs`, `manage-identity.sh`, `bootstrap-wallet-admin.py` | decisions on roles in two systems, over `WalletRoles`, with calls that fail |
| `PortalProofs` | | the proofs about `WalletLogin` and `RoleDesk` |
| `AppFiles` | `serve.py`, `registry.py`, `evidence.py`, `oracle.py`, `backup.py`, `restore.py` | the files of a server, its start, crashes, uploads, exports |
| `LedgerReads` | `fabric_ledger.py`, `passport.py`, `api.py` | reads through a cache and a lagging peer, commits with lost replies, passports |
| `ApplicationProofs` | | the proofs about `AppFiles` and `LedgerReads` |
| `MC...` | | the instances TLC runs; `MCLocalLedger`, `MCRewards`, `MCPortal` and `MCApplication` put two components side by side as scenes of one run, chosen in the initial state |

### State and actions against the code

*Local ledger.* `mem` is `Ledger._events` with its index; `supersededBy` the pointers;
`job` is the request that holds `write_lock` with the step of `commit_prepared` (or
`append`) it has reached: `supersede` (line 168), `append` (169-170), `write`
(171-173). `disk` is the lines a load gets through, and `tail` what comes after the last of
them: its newline (`ended`), or nothing (`bare`: the write was cut just before the newline,
and the line loads all the same), or text that does not parse and stops `_load` (`server =
"broken"`): part of a line (`torn`), or two lines on one (`glued`), which is what an append
to a `bare` file leaves. `Lines` and `TailAfter` say what a write does to a file in each of
these conditions; nothing in the code repairs one. `Prepare` is
`/events/prepare`, which reads the head without the lock; `Commit` is
`/events/commit` with every check of `commit_prepared`, and leaves the body with the
client, which may send it again; `Scan` is the server-signed consumer scan.
`WriteLine`, `WriteFails` and `Crash` are the three ends of a write; the last two leave the
line whole, without its newline, in part, or not at all. A request that
is refused changes nothing and is no action. A hash is modelled by the chain of ids it
commits to, so that equal hashes mean equal histories; signatures hold by assumption.
`body` keeps a body until its client forgets it: a body may be committed after any
number of other commits, crashes and restarts. `lostWrites` is a history variable.

*Workflow.* A history is a sequence of workflow events with their type and the value of
`accepted` as it was sent, which nobody checks: `AsBool` is what the chaincode makes of it
(true, or the text "true"), `Truthy` what the portal does (Python's `bool`), and each copy
of the rules is given the history in its own reading (`ByChaincode`, `ByPortal`). `AnalyzeWorkflow` is the Go function as a fold of
`Advance`; `DeriveStatus` is the Python one, written from its own code: a step is
raised at the first event of each type, the three repeats are its `continue`s. A
status that is not valid reports step 0 (`not_started`), as the early returns do.

*Contract on a channel.* `ws` is the world state: the log in commit order,
`supersededBy` (the supersede keys), `active` (wallets with an active role), `assets`,
reward keys and token records. `Accepted` is every check of `SubmitEvent` and
`CorrectEvent`; `WriteSet` everything `writeEvent` puts, with its incentives. A
transaction does not see its own writes, so of two puts of an asset record the last
one, computed from the committed record, is what remains (`AccountAfter`). An event
earns at most one credit for each reason, so its credits are a set, and `ReasonOrder` says
in which order the code gives them.
A proposal carries the time at which the gateway made it (`Stamps`): the endorsement may
come up to half a minute later (`endorseOptions`, `server.mjs:162`), after others have
committed, and the clock may be ahead. `Propose` endorses on the committed state, `Commit` validates the read set (event
lists with phantoms, the keys of target and wallet, asset versions, reward keys) and
applies, `Drop` is a transaction lost or invalidated. Fabric itself is external: its
MVCC semantics are modelled from how the contract relies on them. The payload is
abstracted to one fact the contract branches on; the mass balance at the environmental
accounting is that fact, so it may come out either way. A certificate's role
determines its MSP, and a wallet has one certificate.

*Wallet roles on a channel.* `ws` holds the wallets (`wallet:` keys), the role requests
and the certificate bindings (`walletclient:` keys); `pool` the endorsed transactions.
A wallet's `status` is its `RoleStatus`, or `new` while the address is not on the
ledger; `wallet.Status` is always `active`. `...Allowed` are the checks of the six
transactions of `wallet.go` in their order, `ReadSet` what each reads (a listing of the
role requests is a range read and sees new ones), `WriteSet` what each puts or deletes,
with the requests that `closeOtherPendingRoleRequests` closes. The proposals are those
the application makes: sign-ups by the portal's service identity, decisions by
administrators, and grants for a certificate that the agent of the administrator's
organization issued for that wallet and role (`IssuedFor`, `_issue_fabric_identity`).
The contract itself would take any certificate hash. The grant records are left out
(nothing reads them in a transaction), and so is the trust base of a new role.

*Rewards on either backend.* `Reconcile`, `Scan`, `OpenFlags` and `DueRewards` are the
functions of `massbalance.py`, `anomaly.py` and `incentives.py` on a log of entries with
small weights. On the local ledger a console loads a prefix of the log (`seen`) and
signs later what it saw there; `/events/commit` checks role, fields and head, not
whether a reward is still due, so two consoles can pay one reward, and the duplicate
scan is what reports it. `RunEngine` is the engine's request, all under `write_lock`. On
Fabric, `Governance` has proposals, approvals and finalizations with their read sets;
`FinalizeGovernanceProposal` computes again whether the reward is due. What the code does
and the properties but `ReviewFirst` therefore take as given: of two flags on one event only
the last counts (a finding); a residue with nothing but a generation is balanced; corrected weights drop out
of the balance with the wrong ones. The Python code counts superseded flags and rewards
and the Go code does not, which is the same as long as governed events are not
corrected, and on Fabric nobody has the certificate to do it.

*Signing in.* `challenges` is `WalletAuth._challenges`, one per address; `Popped` is the
`pop` that consumes one, whatever the outcome. A login is `AskLogin` (rate limiter),
`Consume`, then `VerifyLogin` or `VerifyFails`, so that two requests with one answer can
be between the steps. A session is a token in the browser; `ParseSession` checks its age
and takes role and identity from the ledger (`RoleNow`), by asking the peer of the farmers'
agent: `roleOf` is what that peer shows, `blocks` what is committed and it has not applied
yet (`PeerApplies`). An administrator whose own peer has answered a revocation may so see
the next request of the wallet served in the old role. Logging out deletes the cookie
and nothing else. CSRF tokens and the operator's password are left out.

*Decisions in two systems.* `RoleDesk` extends `WalletRoles` by the identity stores of the
agents and the portal's administrators, whose decisions (`jobs`) are chains of calls: an
identity is made, the transaction submitted, and on failure the identity disabled; a
revocation disables it first. `CreateUnanswered` and `GiveUp` are replies that do not
come, the transaction of the second still being under way. The alias of an identity is
made from the wallet's address and is never freed, so a wallet that lost its role, or
whose identity was made in vain, cannot be given one in that organization again.

*Files.* `disk` is what the files hold and `torn` which of them were truncated and not
written since. `server` is the line of `serve.py` the start has reached; a file that does
not parse stops it there. An export is three steps under the write lock: summary and list
of files, checksums, and the files again; the summary is of the ledger in memory
(`events`), the files are those on disk, and the two differ after a write that failed while
the server lived on (`AppendFails`). An upload takes no lock.

*Reads.* Since a peer keeps the channel's order, what a read returns is a number of events.
The list of all events comes from the cache (`Call`, `Answered`); the events of a subject or
a type, and so the parts of a passport, come from the peer directly (`ReadPart`) and may be
ahead of the next list. An audit is answered with the `problems` that `verify_chain` found,
and with the one problem `unreachable` when the agent did not answer: the code reports that
as an invalid chain too.
`BeginFetch` takes the lock of `FabricLedger`, `Evaluate` is the moment the peer answers,
`SetCache` the end of the fetch; `Invalidate` waits for the lock as `_invalidate` does. A
commit is answered by the peer it was submitted at, which need not be the one that
answers the reads: only commits through the latter can be expected in the next read. A
passport is an audit, the reads of its parts, and the head.

## 3. What is checked

| Run | Shows |
|---|---|
| `local_ledger` | `AckedDurable`: an acknowledged event is on file for good, but for a write that failed while the server lived on and a line glued to one without a newline; `ChainIntact`: the chain in memory verifies, but for the first of these. `SupersessionRebuilds`: the pointers are those a restart rebuilds. `PointersForward`: following them ends. `AppendOnly`: the file implements `AppendOnlyLedger`. In its second scene: `PortalMirrorsChaincode`: the two versions of the rules agree on every history that is in order or spoilt by one event, except that the portal offers a valorization, and the chaincode does not, while the portal alone takes a transfer for accepted; `AllowedStepsAdvance`: an allowed step keeps a history in order and there always is one; `ValorizationNeedsAcceptance`. |
| `ledger_disk` | *violated*: the chain on file always verifies (`DiskReverifies`). |
| `traceability` | `Serializable`: the channel implements `TraceabilityLog`; `CorrectionsChain`, `NoStageTwice`, `Provenance`, `BonusOnce`, `RevokedIsSilent`; `HistoryInOrder`: a subject's history is in order unless one of its events was corrected or carries a stamp behind that of an event committed before it. |
| `correction_progress` | *violated*: a recorded stage still counts after its correction. |
| `clock_skew` | *violated*: the events of a subject count in the order of the channel. |
| `olive_credit` | *violated*: an OLIVE balance is the sum of its credits. |
| `wallet_roles` | `PendingMatches`: a wallet is pending exactly while one request of it is; `BindingMatches`: a certificate is bound exactly while its wallet is active with it; `DecisionsFinal`: a decided request stays as decided; `OwnOrganizationDecides`: an active role is changed only by an administrator of its organization who still is one at commit. |
| `rewards` | `EnginePaysOnce`, `RecoveredWasGenerated`, `DoublePaymentIsReported` on the local ledger; `RewardedOnce`, `GovernedByQuorum`, `PaidWhenDue` (an action property: when it is recorded, a reward is due on the ledger as it is then) on Fabric. |
| `review_flags` | *violated*: the engine pays for an event only when every flag on it is answered. |
| `portal` | `SessionAnswersChallenge`: one session for a challenge, opened by its owner in time; `RoleShownDuringRequest`: a request acts with a role that the peer which is asked shows at some moment of the request; `RevokedForGood`: nothing in flight brings a revoked role back; `UsableWasConfirmed`: no role works that an administrator was told had failed; `NoStrayIdentity`. |
| `application` | `AckedOrgsSurvive`, `ArchiveComplete`, `KeysKept` of the files; `ListsNeverGoBack`: no cache brings an older list of all events back, `AuditBlamesNoEvent`: the only problem an audit reports of a sound ledger is an agent out of reach, and, under fairness, `RequestsEnd`: nobody waits for ever. |
| `passport_snapshot` | *violated*: the content of a signed passport is that of the ledger whose head is signed with it. |

The six disagreements with the documentation are in `PROJECT.json` under `findings`:

1. A write that fails while the server lives leaves memory ahead of the file; the next
   commit is chained to the lost event and the file never verifies again.
2. Corrections supersede a workflow event and so take it out of the history a status is
   computed from: the stage "did not happen", and the steps after it are out of order.
3. The order of a subject's events is that of the stamps their proposals were made with, on
   the clients' clocks, not the channel's.
4. The OLIVE credit of an event is overwritten by the trust update of the same
   transaction.
5. A passport is assembled by several reads without the write lock, and the head it is
   signed with is read last: what was committed in between is in the head and not in the
   content.
6. Of several review flags on one event the code remembers the last: once that is answered,
   the event is paid for, although "events under an unresolved review flag are not rewardable
   yet".

### Bounds, and why they are enough

* `local_ledger`: three organizations (one that records, one authority, the portal) and
  three event ids. Three ids suffice for a record, a correction of it, and a second
  correction of either; for two bodies prepared on one head; for a lost line with an
  event chained to it; for a line without its newline and one glued to it. Crashes, restarts,
  failed writes and repeated commits are unbounded. Beside it all histories of up to seven
  events that are in order but perhaps for the last: seven are the longest workflow, and
  six with a repeat the other. The proofs below drop the bounds.
* `traceability`: one batch and one residue of it, eight wallets with a role each
  (distributor and retailer may race for one delivery) and the consumer service; the histories
  start at every point of the life of the batch and of the residue, and right after the
  last step there was corrected. All were reached by the contract itself (`StartAssumption`
  checks it). Two further events, both in flight at once, are what every conflict needs, and
  from some start each kind of step, bonus and correction is among them. A proposal is
  endorsed at once or two ticks late, so that its stamp falls behind an event or two. Trust
  starts at 97 so that the cap of 100 is reached. Two wallets may be revoked.
* `wallet_roles`: two organizations with a bootstrap administrator each, two wallets,
  four certificates for their roles, six transactions of which two are in flight. Six
  are what it takes to sign up two wallets, make one an administrator and one a farmer,
  and let the revocation of the one race a decision by it. The proofs drop the bounds.
* `clock_skew` lets a gateway's clock be up to two ticks ahead; `olive_credit` and
  `correction_progress` need one transaction at a time.
* `rewards`: on the local ledger two consoles, three drafts and one correction after five
  starts (a doubtful yield, an over-full valorization, a refused delivery, more
  received than generated, two owners of one lot), each an anomaly or a reward away from
  a conflict, up to six events. On Fabric two organizations with a threshold of two, two
  proposals and two transactions in flight: the code asks for three of four, and what a
  threshold must prevent shows with two of two. `review_flags` starts with a lot that two
  owners claim and needs five further events: two flags, an answer, and two rewards.
* `portal`: one address with two threads, two challenges and two sessions, lifetimes of one
  tick and a limit of two logins; two desks, an organization with one role that sign-up
  may ask for and one that an administrator grants, four transactions of which two are in
  flight, and one lost call or reply. The peer that is asked for roles is up to two changes
  behind: a revocation and a new grant.
* `application`: two registrations, two handlers, one artifact, two events (one after a
  write that failed), two crashes or
  failed writes and one export; five keys let a server that forgot its registry register
  its portal again. For the reads two threads, two peers, two commits after the first
  stage of a batch, and one failed call.
* `passport_snapshot` needs one append at the right moment.

Deadlock is not checked where the ids are used up or the server is broken: there the
system really stops.

Fairness is assumed in one place, for `RequestsEnd`: a peer commits the blocks it is sent
(Fabric's ordering and gossip), and a thread that is not blocked goes on, which includes
that a call of the agent ends: the client has a timeout (`fabric_client.py`), and a call that
it cuts off is one that failed. Of the clients nothing is assumed but that at some moment
they stop asking (`Quiet`); without that, a request could lose the race for the lock to
later ones for ever, and neither Python's locks nor the code excludes it. Calls to the agent
fail a bounded number of times, and nobody polls the server. All other properties are
safety properties: neither the file nor the channel owes a client an answer.

## 4. What is proved

Every safety property of every passing run is also a theorem, for every value of the
constants that the named assumptions admit; only the liveness property is not. The
theorems are listed in `PROJECT.json`; this section gives the arguments. TLC evaluates the
assumptions on every run.

### The local ledger (`LocalLedgerProofs`)

For any organizations, clients and number of events: `TypeCorrect`, `AckedEventsDurable`,
`ChainAlwaysIntact`, `FileIsAppendOnly` (`Spec => AppendOnly`, the refinement),
`PointersAreRebuilt` and `PointersLeadForward`.

None of the invariants is inductive alone. `Invariance` proves `IInv`, the conjunction of

* `TypeOK`;
* `FreshInv`: every id in memory, on file, in the job or in a body is below `nextId`;
* `LockInv`: a server that is not up has no job; until the event of the job is in memory
  it still extends memory (new id, current head, target that may be corrected), and
  while its line is being written its id is in memory and not on file;
* `FileInv`: what is on file is in memory while the server is up; and as long as no
  write was lost, both chains verify, and unless a line was glued to another what was
  acknowledged is on file, and memory is the file, or the file and the event whose line is
  being written.

`LockInv` is what makes the check of `prev_hash` at the beginning of a commit still
good when the event is appended; `FileInv` carries durability through crash and load.
From the invariant each step of `LocalLedger` is a step of `AppendOnlyLedger` or a
stutter: only a write that gets through adds a line (with or without its newline), and it is
the job's, which `CommitAllowed` (or `Scan`) admitted. The assumptions are those named
in the modules: authorities, writers and the portal are organizations, `MaxEvents` is
a natural number, the two null values are not events or jobs.

The pointers hold without any proviso about lost writes, and the reason is not in the
code that sets them. After a lost line and a restart a correction may be in memory whose
target is not; its body may still be with its client. If it could be committed now, it
would enter behind its correction, with no pointer where `_load` would set one. It cannot,
because its `prev` is a chain shorter than the head. `PInv` (`PointerInvariance`) says so:
an id names one event wherever it is (`OneEventPerId`); chains grow along memory and file
(`Ordered`); the chain of a correction is longer than that of the one event its target
can be, be it in memory, on file or with a client (`TargetsEarlier`); and the pointers
are those of `Rebuild` but for the correction about to enter memory (`PointerInv`).

### The workflow rules (`WorkflowProofs`)

For histories of any length: `PortalIsAMirror`, `AllowedStepsDoAdvance` and
`AcceptanceOpensValorization`. Both scans are recursive functions over a history, and the
provers know no induction over data, so each fact about a scan is stated of a prefix and
carried to the next by `UpTo` (`BoundedInduction`), which rests on the well-foundedness of
the naturals, stated of a set. The number of steps is the code's (seven and six), so that
the rest is by cases on them.

### The contract on the channel (`TraceabilityProofs`)

For any wallets, roles, subjects, start logs, events and transactions in flight:
`TypeCorrect`, `CorrectionsFormChains`, `StagesNotRepeated`, `EventsAreGrounded`,
`BonusesPaidOnce`, `RevokedWalletsAreSilent`, and the refinement `ChannelIsSerial`
(`Spec => Serializable`). The invariant `IInv` says that the world state is `Sound`, that
ids are fresh, and that every transaction in flight was endorsed on a sound state of the
past. No interleaving is looked at: `ReadsDetermine` shows that in a later state with the
same read set the request is accepted too, with the same writes, so a transaction that is
valid at commit is one the contract would accept alone (`CommitRecords`); and
`ExecuteSound` that a contract run alone keeps the state sound. What is in `Sound` beyond
the properties themselves (ids name one event, an account's last writer is on record, an
event was recorded by a wallet with the role for it) is what these two need. That the
start logs are histories the contract accepts is an assumption (`StartAssumption`).

`OrderedStampsHistoriesHold` (`HistoryInOrder`) assumes nothing of clocks and delays. Its
condition is one on the log itself (`Undisturbed`): the stamps of the subject are in the
order of its commits, and none of its events was corrected. That a late stamp does put a
history out of order is what run `clock_skew` shows. The argument: a transaction that is
valid at commit was endorsed on the status its subject has now, and a subject that is
undisturbed after the commit was so before it.

### Wallet roles (`WalletRolesProofs`)

For any wallets, roles, organizations, certificates and any
number of transactions in flight: `TypeCorrect`, `OneOpenRequest` (`PendingMatches`),
`BindingsOfActiveWallets` (`BindingMatches`), `DecisionsAreFinal` (`DecisionsFinal`) and
`RolesEndByOwnOrganization` (`OwnOrganizationDecides`). Its invariant is the conjunction
of `TypeOK`, `Sound(ws)` (pending requests, bindings, and that an active wallet's
organization is that of its certificate), `FreshInv` (a transaction id names one
transaction and, once committed, its request) and `PoolInv` (a transaction in flight
was endorsed on *some* state). The argument is the same: `ReadsDetermine`,
`CommitApplies`, `AfterSound`. The assumptions are the types of
the constants; that only grants for a certificate of the administrator's own
organization are proposed is part of the model, and `RolesEndByOwnOrganization`
rests on it.

### Rewards (`RewardProofs`)

*On Fabric*, for any organizations, threshold, start histories, proposals and
transactions in flight: `OneReward`, `QuorumBehindDecisions`, `RewardsPaidWhenDue`. A
transaction that can still commit was endorsed on a proposal that was not final
(`OnOpen`), so a final proposal is never written again, and two of them never have one
event; and the log a reward was endorsed on is the log it extends.

*On the local ledger*, for any histories, consoles and number of events:
`EngineNeverPaysAgain` and `DoublePaymentsAreFound`. The engine adds
several rewards in one step, so what it establishes of each must survive those before it
in the same run: they do not change the mass balance. `RecoveryIsReal`
(`RecoveredWasGenerated`) is proved under `WeightsAreNatural`. The code does not check it:
`models.py` asks only that the field is there, `massbalance.py` adds up what it finds, and
a negative weight would balance any lot. It is what a scale shows, and the theorem says
what the conclusion depends on. The sums of the balance are a recursive function
(`Total`), over which the proof goes position by position.

### Signing in, and decisions in two systems (`PortalProofs`)

`ChallengesAnsweredOnce` and `RolesAsShown` for any wallets, threads, challenges,
sessions and lifetimes: a challenge is consumed when it is looked at, and its nonce is
never issued again. `RevocationsLast`, `RolesWereConfirmed` and `NothingIsLeftBehind` for any
wallets, roles, certificates, desks and number of lost calls. The invariant (`DeskInv`)
holds, beside the tables of `WalletRolesProofs`: an identity is made for one decision and
never comes back once disabled; the decision submits it once, so that when it is or was in
the tables, nothing in flight can bring it there again; and until the administrator was
told of it or it is disabled, some desk is in charge of it, unless its clean-up was lost.

`DesksFollowRoles` is the refinement of the role contract by the desks, step by step:
`DeskSpec => [][Next]_vars` with `Next` and `vars` of `WalletRoles`. It is no refinement of
`Spec`, because the desks start with registered wallets. A second invariant (`AskedInv`)
carries what was checked when a job was opened to the step that submits it: the request it
names is still there with the wallet and the role it was filed for (`CommitKeepsRequests`),
and the identity the agent issued has the role that is given. From it follow, for the
portal with its lost calls and its undoing, `DesksKeepTables`, `DesksDecideOnce` and
`DesksDecideOwn`: the properties of the run `wallet_roles`.

An identity that can sign and that nobody works on was, says `NoStrayIdentity`, reported as
given, and not only made for some wallet: that is what the proof showed and what an
administrator relies on.

### Files and reads (`ApplicationProofs`)

`RegistrationsSurvive`, `KeysSurvive` and `BackupsComplete` for any clients, artifacts,
crashes and failed writes: the invariant says what each line of `serve.py` and each step of
a handler has established (what is in memory is on file, or the file is torn), and that
the three steps of an export see one state of what the write lock protects.
In `BackupsComplete` the ledger on file never has more events than the one in memory, since
a write that fails has put its event in memory before, and what was answered is on file as
long as its last line is whole (`LedgerInv`).

`ListsMonotonic` and `AuditsAreRight` for any requests, peers, events and failures: the lists
that were answered grow only while the lock is free or with the cache; a fetch holds the
lock, so what it brings covers every list before it began; and the table that audits look
their events up in never loses rows. Of queries that go to the peer directly they say
nothing.

### What stays with TLC

`RequestsEnd`: liveness under fairness is out of the prover's reach. The six violated
properties are false, and there is nothing to prove.

## 5. Not modelled, and the plan

Not modelled for good:

* layout and formats: PDF, credentials, QR codes, frontend; what they are signed over is in
  `LedgerReads`. Signatures and SHA-256 are taken as perfect;
* the weather provider (one artifact in `AppFiles`);
* `portal_auth.py`, which nothing imports any more;
* the five-second cache of organizations in `fabric_registry.py`: the contract's
  organizations do not change after the bootstrap;
* CSRF, the operator's password, and the rate limits other than the login's;
* `scripts/backup.py` beside a live server: it takes no lock, and `ArchiveComplete` does not
  hold for it (the export without the lock is the mutant of that property). Stopping the
  server first is up to the operator;
* network configuration, scripts of the machines, the demo.

Consequences of the modelled code that no document speaks of, and that are therefore
no findings: an administrator who revokes its own role disables the identity that the
revocation was to be signed with, and stays an administrator that cannot act; and a crash
between registering the consumer portal and writing its key leaves the portal registered
without a key for good; the alias of an identity is spent once it was made; a passport whose
query of the wallet rewards fails is signed without them; and an audit made while the agent
is out of reach reports an invalid chain. Not modelled is a reader of the local ledger that
follows a pointer before the correction it names is in the index: it gets an error, and no
state changes.

What is left, in this order:

1. The reads of `LedgerReads` against an abstract specification of a list that only grows.
2. Lemmas that the mass balance and the due rewards of the two backends agree on logs in
   which governed events are not corrected.
