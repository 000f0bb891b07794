----------------------------- MODULE WalletLogin -----------------------------
(***************************************************************************)
(* Signing in with a wallet: WalletAuth and the routes that use it.  A        *)
(* challenge is a random message, kept in memory, one for each address; the   *)
(* browser signs it and the answer consumes it.  A session is a token that    *)
(* only the browser keeps: the server checks its seal and its age and reads   *)
(* the wallet again on every request.  It reads at the peer of the farmers'   *)
(* agent, which shows what is committed only once it has applied the block,   *)
(* maybe after the peer of the organization that committed it.                *)
(*                                                                         *)
(* A message stands for its random nonce, a signature for the message that    *)
(* was signed, and a token for its contents.  Logging out deletes the cookie  *)
(* and nothing else, so a token can be used until it expires.  The clock      *)
(* does not go back.                                                          *)
(***************************************************************************)
EXTENDS Naturals, FiniteSets, Sequences

CONSTANTS
    Holders,        \* wallet addresses
    Threads,        \* requests the server handles at once
    ChallengeTtl, SessionTtl,
    LoginLimit, LoginWindow,        \* of the rate limiter
    MaxTime, MaxMessages, MaxSessions, \* bounds on the clock, on challenges
                                       \* issued and on sessions
    MaxBehind,      \* bound on the role changes a peer has yet to apply
    NoMessage

Purposes == {"login", "register"}

Message == [wallet : Holders, nonce : 1 .. MaxMessages, purpose : Purposes,
            at : 0 .. MaxTime]

ASSUME LifetimesAssumption ==
    /\ ChallengeTtl \in Nat \ {0} /\ SessionTtl \in Nat \ {0}
    /\ MaxTime \in Nat /\ MaxMessages \in Nat
ASSUME NoMessageAssumption == NoMessage \notin Message

VARIABLES
    clock,
    roleOf,         \* address |-> what the peer that is asked shows
    blocks,         \* the role changes it has not applied yet, in order
    challenges,     \* address |-> the message to be signed
    signed,         \* the messages that a browser has signed
    nextNonce,
    sessions,       \* the tokens given out
    hits,           \* the logins the rate limiter remembers
    threads         \* what each thread is doing

loginVars == << clock, roleOf, blocks, challenges, signed, nextNonce, sessions,
                hits, threads >>

Resting == [step |-> "idle"]

LoginInit ==
    /\ clock = 0
    /\ roleOf \in [Holders -> {"unregistered", "consumer"}]
    /\ blocks = << >>
    /\ challenges = [w \in Holders |-> NoMessage]
    /\ signed = {}
    /\ nextNonce = 1
    /\ sessions = {}
    /\ hits = << >>
    /\ threads = [t \in Threads |-> Resting]
-----------------------------------------------------------------------------
(* What the ledger says of a wallet, whether or not that peer shows it.       *)
RoleOnLedger(w) ==
    LET changes == {k \in 1 .. Len(blocks) : blocks[k].wallet = w}
    IN  IF changes = {} THEN roleOf[w]
        ELSE blocks[CHOOSE k \in changes : \A j \in changes : j <= k].role

CommitRole(w, role) ==
    /\ Len(blocks) < MaxBehind
    /\ blocks' = Append(blocks, [wallet |-> w, role |-> role])

In(t, step) == threads[t].step = step
Set(t, call) == threads' = [threads EXCEPT ![t] = call]

\* _purge_challenges
Pending ==
    [w \in Holders |->
        IF challenges[w] # NoMessage /\ challenges[w].at + ChallengeTtl <= clock
        THEN NoMessage ELSE challenges[w]]

(* For the mutation runs: the challenge stays until it expires.             *)
Kept(pending, w) == pending

Popped(pending, w) == [pending EXCEPT ![w] = NoMessage]

\* RateLimiter.allow, for the requests of one client
Recent == SelectSeq(hits, LAMBDA at : at > clock - LoginWindow)
WithinLimit == Len(Recent) < LoginLimit
-----------------------------------------------------------------------------
(* Challenges.  The wallet is looked up first: it has to be known to log in,  *)
(* and must not be to register.                                              *)
AskChallenge(t, w, purpose) ==
    /\ In(t, "idle")
    /\ purpose = "register" <=> roleOf[w] = "unregistered"
    /\ Set(t, [step |-> "issue", wallet |-> w, purpose |-> purpose])
    /\ UNCHANGED << clock, roleOf, blocks, challenges, signed, nextNonce, sessions, hits >>

\* Whoever asked: the holder, who signs it, or somebody else.
IssueChallenge(t) ==
    /\ In(t, "issue")
    /\ nextNonce <= MaxMessages
    /\ LET message == [wallet |-> threads[t].wallet, nonce |-> nextNonce,
                       purpose |-> threads[t].purpose, at |-> clock]
       IN  /\ challenges' = [Pending EXCEPT ![message.wallet] = message]
           /\ signed' \in {signed, signed \cup {message}}
    /\ nextNonce' = nextNonce + 1
    /\ Set(t, Resting)
    /\ UNCHANGED << clock, roleOf, blocks, sessions, hits >>

(* Answers.  A browser sends a signature as often as it likes, and to either  *)
(* route.                                                                     *)
AskLogin(t, message) ==
    /\ In(t, "idle")
    /\ WithinLimit
    /\ hits' = Append(Recent, clock)
    /\ roleOf[message.wallet] # "unregistered"
    /\ Set(t, [step |-> "verify", message |-> message, purpose |-> "login"])
    /\ UNCHANGED << clock, roleOf, blocks, challenges, signed, nextNonce, sessions >>

AskRegistration(t, message) ==
    /\ In(t, "idle")
    /\ Set(t, [step |-> "verify", message |-> message, purpose |-> "register"])
    /\ UNCHANGED << clock, roleOf, blocks, challenges, signed, nextNonce, sessions, hits >>

\* verify_challenge; the challenge is consumed whatever becomes of the rest.
Verified(t) ==
    LET call == threads[t]
        challenge == Pending[call.message.wallet]
    IN  /\ challenge # NoMessage
        /\ challenge.purpose = call.purpose
        /\ challenge = call.message

Consume(t) == challenges' = Popped(Pending, threads[t].message.wallet)

VerifyLogin(t) ==
    LET w == threads[t].message.wallet
    IN  /\ In(t, "verify") /\ threads[t].purpose = "login"
        /\ Verified(t)
        /\ Cardinality(sessions) < MaxSessions
        /\ Consume(t)
        /\ sessions' = sessions \cup
               {[id |-> Cardinality(sessions) + 1, wallet |-> w, role |-> roleOf[w],
                 answers |-> threads[t].message, iat |-> clock,
                 exp |-> clock + SessionTtl]}
        /\ Set(t, Resting)
        /\ UNCHANGED << clock, roleOf, blocks, signed, nextNonce, hits >>

VerifyRegistration(t) ==
    /\ In(t, "verify") /\ threads[t].purpose = "register"
    /\ Verified(t)
    /\ Consume(t)
    /\ Set(t, [step |-> "register", wallet |-> threads[t].message.wallet])
    /\ UNCHANGED << clock, roleOf, blocks, signed, nextNonce, sessions, hits >>

VerifyFails(t) ==
    /\ In(t, "verify")
    /\ ~Verified(t)
    /\ Consume(t)
    /\ Set(t, Resting)
    /\ UNCHANGED << clock, roleOf, blocks, signed, nextNonce, sessions, hits >>

\* The contract registers a wallet once.
SubmitRegistration(t) ==
    LET w == threads[t].wallet
    IN  /\ In(t, "register")
        /\ \/ RoleOnLedger(w) = "unregistered" /\ CommitRole(w, "consumer")
           \/ RoleOnLedger(w) # "unregistered" /\ UNCHANGED blocks
        /\ Set(t, Resting)
        /\ UNCHANGED << clock, roleOf, challenges, signed, nextNonce, sessions, hits >>
-----------------------------------------------------------------------------
(* Requests of a session *)

\* A request arrives; "shown" are the roles of its wallet that the peer has
\* shown since then.
BeginRequest(t, session) ==
    /\ In(t, "idle")
    /\ Set(t, [step |-> "parse", session |-> session,
               shown |-> {roleOf[session.wallet]}])
    /\ UNCHANGED << clock, roleOf, blocks, challenges, signed, nextNonce, sessions, hits >>

(* For the mutation runs: the session remembers the role of the login.      *)
RoleAtLogin(session) == session.role

RoleNow(session) == roleOf[session.wallet]

Live(session) == session.exp > clock

\* parse_session; with its answer the route decides what the request may do.
ParseSession(t) ==
    LET call == threads[t]
    IN  /\ In(t, "parse")
        /\ Set(t, IF Live(call.session)
                  THEN [step |-> "act", session |-> call.session,
                        shown |-> call.shown, role |-> RoleNow(call.session)]
                  ELSE Resting)
        /\ UNCHANGED << clock, roleOf, blocks, challenges, signed, nextNonce, sessions, hits >>

Act(t) ==
    /\ In(t, "act")
    /\ Set(t, Resting)
    /\ UNCHANGED << clock, roleOf, blocks, challenges, signed, nextNonce, sessions, hits >>

\* Meanwhile administrators give and revoke roles.
ChangeRole(w) ==
    /\ RoleOnLedger(w) # "unregistered"
    /\ CommitRole(w, IF RoleOnLedger(w) = "active" THEN "consumer" ELSE "active")
    /\ UNCHANGED << clock, roleOf, challenges, signed, nextNonce, sessions, hits,
                    threads >>

\* The peer applies the next block.
PeerApplies ==
    LET change == Head(blocks)
        Asks(t) == /\ threads[t].step \in {"parse", "act"}
                   /\ threads[t].session.wallet = change.wallet
    IN  /\ blocks # << >>
        /\ blocks' = Tail(blocks)
        /\ roleOf' = [roleOf EXCEPT ![change.wallet] = change.role]
        /\ threads' = [t \in Threads |->
                          IF Asks(t)
                          THEN [threads[t] EXCEPT !.shown = @ \cup {change.role}]
                          ELSE threads[t]]
        /\ UNCHANGED << clock, challenges, signed, nextNonce, sessions, hits >>

Tick ==
    /\ clock < MaxTime
    /\ clock' = clock + 1
    /\ UNCHANGED << roleOf, blocks, challenges, signed, nextNonce, sessions, hits, threads >>

\* Challenges and the limiter are lost; the secret that seals tokens is not.
Restart ==
    /\ challenges' = [w \in Holders |-> NoMessage]
    /\ hits' = << >>
    /\ threads' = [t \in Threads |-> Resting]
    /\ UNCHANGED << clock, roleOf, blocks, signed, nextNonce, sessions >>

LoginNext ==
    \/ \E t \in Threads :
          \/ \E w \in Holders, purpose \in Purposes : AskChallenge(t, w, purpose)
          \/ \E message \in signed : AskLogin(t, message) \/ AskRegistration(t, message)
          \/ \E session \in sessions : BeginRequest(t, session)
          \/ IssueChallenge(t) \/ VerifyLogin(t) \/ VerifyRegistration(t)
          \/ VerifyFails(t) \/ SubmitRegistration(t) \/ ParseSession(t) \/ Act(t)
    \/ \E w \in Holders : ChangeRole(w)
    \/ PeerApplies
    \/ Tick
    \/ Restart

LoginSpec == LoginInit /\ [][LoginNext]_loginVars
-----------------------------------------------------------------------------
(* Every session answers a challenge of its own: one that was issued for      *)
(* logging in, signed by the wallet, not older than its time to live, and     *)
(* answered by no other session, however often and to however many threads    *)
(* the signature was sent.                                                    *)
SessionAnswersChallenge ==
    \A session \in sessions :
        /\ session.answers \in signed
        /\ session.answers.purpose = "login"
        /\ session.iat < session.answers.at + ChallengeTtl
        /\ \A other \in sessions : other.answers = session.answers => other = session

(* A request acts in a role that the peer has shown at some moment since the  *)
(* request arrived: a revocation ends the role of sessions that are already   *)
(* open with the first request after the peer has applied it, however long    *)
(* before they were opened, and a grant begins it.  (Until the peer applies   *)
(* it, a revocation that was answered to the administrator shows no effect.)  *)
RoleShownDuringRequest ==
    \A t \in Threads : In(t, "act") => threads[t].role \in threads[t].shown
=============================================================================
