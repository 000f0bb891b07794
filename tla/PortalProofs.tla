----------------------------- MODULE PortalProofs -----------------------------
(***************************************************************************)
(* Proofs about WalletLogin, for any number of wallets, threads, challenges   *)
(* and sessions and any lifetimes, and about RoleDesk, for any wallets,       *)
(* roles, organizations and certificates and any number of desks,            *)
(* transactions and lost calls.                                            *)
(*                                                                         *)
(* Signing in.  A challenge is answered by taking it out of the table, and    *)
(* its nonce is never issued again, so no challenge in the table is one that  *)
(* a session answers.  A request that is about to look its wallet's role up   *)
(* has that role, as its peer shows it, among those it notes, because a        *)
(* wallet with a session is registered, so that what is committed about it    *)
(* is what administrators decide, and no block brings back the time before.   *)
(*                                                                         *)
(* Deciding on roles.  An identity is made for one decision and never comes   *)
(* back once it is disabled.  That decision submits it in one transaction,    *)
(* so when the identity is in the tables, or was, no transaction under way    *)
(* can bring it there again (SpentInv, OnceInv).  Until the administrator     *)
(* was told of it or it is disabled, somebody is in charge of it, unless the  *)
(* clean-up was lost (UsableInv, StrayInv).  The tables themselves are sound  *)
(* as WalletRolesProofs shows (IInv).  What a desk asks for stays what an     *)
(* administrator may ask for while its calls succeed, fail or come late       *)
(* (AskedInv), so every step of the desks is one of WalletRoles or leaves its *)
(* variables alone, and what is proved of those steps holds of the desks.    *)
(***************************************************************************)
EXTENDS WalletRolesProofs, RoleDesk, WalletLogin

Statuses == {"unregistered", "consumer", "active"}

Session == [id : Nat, wallet : Holders, role : Statuses, answers : Message, iat : Nat,
            exp : Nat]

Change == [wallet : Holders, role : {"consumer", "active"}]

LoginType ==
    /\ clock \in 0 .. MaxTime
    /\ roleOf \in [Holders -> Statuses]
    /\ blocks \in Seq(Change)
    /\ challenges \in [Holders -> Message \cup {NoMessage}]
    /\ signed \subseteq Message
    /\ nextNonce \in Nat \ {0}
    /\ threads = [t \in Threads |-> threads[t]]

\* A challenge in the table is for its wallet, and no session has answered it.
ChallengeInv ==
    \A w \in Holders : challenges[w] # NoMessage =>
        /\ challenges[w].wallet = w
        /\ challenges[w].nonce < nextNonce
        /\ \A session \in sessions : session.answers # challenges[w]

SessionInv ==
    /\ \A session \in sessions :
           /\ session.wallet \in Holders /\ roleOf[session.wallet] # "unregistered"
           /\ session.answers.nonce < nextNonce
    /\ SessionAnswersChallenge

Asking == [step : {"issue"}, wallet : Holders, purpose : Purposes]
Parsing == [step : {"parse"}, session : sessions, shown : SUBSET Statuses]
Acting == [step : {"act"}, session : sessions, shown : SUBSET Statuses, role : Statuses]

ThreadInv(t) ==
    /\ In(t, "issue") => threads[t] \in Asking
    /\ In(t, "verify") =>
           /\ threads[t].message \in signed
           /\ threads[t].purpose = "login" =>
                  roleOf[threads[t].message.wallet] # "unregistered"
    /\ In(t, "register") => threads[t].wallet \in Holders
    /\ In(t, "parse") =>
           threads[t] \in Parsing /\ roleOf[threads[t].session.wallet] \in threads[t].shown
    /\ In(t, "act") => threads[t] \in Acting /\ threads[t].role \in threads[t].shown

LoginInv ==
    /\ LoginType
    /\ ChallengeInv
    /\ SessionInv
    /\ \A t \in Threads : ThreadInv(t)
-----------------------------------------------------------------------------
(* What a thread does to the threads. *)
LEMMA Sets ==
    ASSUME LoginType, NEW t \in Threads, NEW call, Set(t, call)
    PROVE  /\ threads' = [u \in Threads |-> threads'[u]]
           /\ threads'[t] = call
           /\ \A u \in Threads : u # t => threads'[u] = threads[u]
  BY DEF LoginType, Set

(* A thread that moves while nothing else changes: its new state is sound. *)
LEMMA ThreadMoves ==
    ASSUME LoginInv, NEW t \in Threads, NEW call, Set(t, call),
           UNCHANGED << clock, roleOf, blocks, challenges, signed, nextNonce, sessions >>,
           ThreadInv(t)'
    PROVE  LoginInv'
  <1>1. /\ threads' = [u \in Threads |-> threads'[u]]
        /\ \A u \in Threads : u # t => threads'[u] = threads[u]
    BY Sets DEF LoginInv
  <1>2. LoginType' /\ ChallengeInv' /\ SessionInv'
    BY <1>1 DEF LoginInv, LoginType, ChallengeInv, SessionInv, SessionAnswersChallenge
  <1>3. ASSUME NEW u \in Threads PROVE ThreadInv(u)'
    <2>1. CASE u = t
      BY <2>1
    <2>2. CASE u # t
      BY <1>1, <2>2 DEF LoginInv, ThreadInv, In, Parsing, Acting
    <2>3. QED
      BY <2>1, <2>2
  <1>4. QED
    BY <1>2, <1>3 DEF LoginInv

LEMMA AskChallengeKeeps ==
    ASSUME LoginInv, NEW t \in Threads, NEW w \in Holders, NEW purpose \in Purposes,
           AskChallenge(t, w, purpose)
    PROVE  LoginInv'
  <1> DEFINE call == [step |-> "issue", wallet |-> w, purpose |-> purpose]
  <1>1. threads'[t] = call
    BY Sets DEF AskChallenge, LoginInv
  <1>2. ThreadInv(t)'
    BY <1>1 DEF ThreadInv, In, Asking
  <1>3. QED
    BY <1>2, ThreadMoves DEF AskChallenge

LEMMA AskLoginKeeps ==
    ASSUME LoginInv, NEW t \in Threads, NEW message \in signed,
           AskLogin(t, message) \/ AskRegistration(t, message)
    PROVE  LoginInv'
  <1> PICK purpose \in Purposes :
             /\ Set(t, [step |-> "verify", message |-> message, purpose |-> purpose])
             /\ purpose = "login" => roleOf[message.wallet] # "unregistered"
    BY DEF AskLogin, AskRegistration, Purposes
  <1> DEFINE call == [step |-> "verify", message |-> message, purpose |-> purpose]
  <1>1. UNCHANGED << clock, roleOf, blocks, challenges, signed, nextNonce, sessions >>
    BY DEF AskLogin, AskRegistration
  <1>2. threads'[t] = call
    BY Sets DEF LoginInv
  <1>3. ThreadInv(t)'
    BY <1>1, <1>2 DEF ThreadInv, In
  <1>4. QED
    BY <1>1, <1>3, ThreadMoves

LEMMA RequestKeeps ==
    ASSUME LoginInv, NEW t \in Threads, NEW session \in sessions, BeginRequest(t, session)
    PROVE  LoginInv'
  <1> DEFINE call == [step |-> "parse", session |-> session,
                      shown |-> {roleOf[session.wallet]}]
  <1>1. /\ Set(t, call)
        /\ UNCHANGED << clock, roleOf, blocks, challenges, signed, nextNonce, sessions >>
    BY DEF BeginRequest
  <1>2. threads'[t] = call
    BY <1>1, Sets DEF LoginInv
  <1>3. roleOf[session.wallet] \in Statuses
    BY DEF LoginInv, LoginType, SessionInv
  <1>4. ThreadInv(t)'
    BY <1>1, <1>2, <1>3 DEF ThreadInv, In, Parsing
  <1>5. QED
    BY <1>1, <1>4, ThreadMoves

LEMMA ParseSessionKeeps ==
    ASSUME LoginInv, NEW t \in Threads, ParseSession(t)
    PROVE  LoginInv'
  <1> DEFINE now == threads[t]
             call == [step |-> "act", session |-> now.session, shown |-> now.shown,
                      role |-> roleOf[now.session.wallet]]
  <1>1. /\ \/ Set(t, call) \/ Set(t, Resting)
        /\ UNCHANGED << clock, roleOf, blocks, challenges, signed, nextNonce, sessions >>
        /\ In(t, "parse")
    BY DEF ParseSession, RoleNow
  <1>2. /\ now \in Parsing /\ roleOf[now.session.wallet] \in now.shown
    BY <1>1 DEF LoginInv, ThreadInv
  <1>3. /\ now.session \in sessions /\ now.shown \subseteq Statuses
        /\ roleOf[now.session.wallet] \in Statuses
    BY <1>2 DEF Parsing
  <1> HIDE DEF now
  <1>4. threads'[t] = call \/ threads'[t] = Resting
    BY <1>1, Sets DEF LoginInv
  <1>5. ThreadInv(t)'
    BY <1>1, <1>2, <1>3, <1>4 DEF ThreadInv, In, Resting, Acting
  <1>6. QED
    BY <1>1, <1>5, ThreadMoves

LEMMA RestKeeps ==
    ASSUME LoginInv, NEW t \in Threads, Set(t, Resting),
           UNCHANGED << clock, roleOf, blocks, challenges, signed, nextNonce, sessions >>
    PROVE  LoginInv'
  <1>1. threads'[t] = Resting
    BY Sets DEF LoginInv
  <1>2. ThreadInv(t)'
    BY <1>1 DEF ThreadInv, In, Resting
  <1>3. QED
    BY <1>2, ThreadMoves

(* The challenges that are left once the expired ones are purged.            *)
LEMMA PendingIs ==
    ASSUME LoginInv
    PROVE  /\ Pending \in [Holders -> Message \cup {NoMessage}]
           /\ \A w \in Holders : Pending[w] # NoMessage =>
                  /\ Pending[w] = challenges[w] /\ challenges[w] \in Message
                  /\ clock < challenges[w].at + ChallengeTtl
  <1>1. clock \in Nat /\ ChallengeTtl \in Nat
    BY LifetimesAssumption DEF LoginInv, LoginType
  <1>2. \A w \in Holders : challenges[w] \in Message => challenges[w].at \in Nat
    BY LifetimesAssumption DEF Message
  <1>3. QED
    BY <1>1, <1>2 DEF Pending, LoginInv, LoginType

(* The nonce is a new one, so no session has answered the message.            *)
LEMMA IssueChallengeKeeps ==
    ASSUME LoginInv, NEW t \in Threads, IssueChallenge(t)
    PROVE  LoginInv'
  <1> DEFINE message == [wallet |-> threads[t].wallet, nonce |-> nextNonce,
                         purpose |-> threads[t].purpose, at |-> clock]
             w == threads[t].wallet
  <1>1. /\ challenges' = [Pending EXCEPT ![w] = message]
        /\ signed' \in {signed, signed \cup {message}}
        /\ nextNonce' = nextNonce + 1 /\ nextNonce <= MaxMessages
        /\ Set(t, Resting) /\ UNCHANGED << clock, roleOf, blocks, sessions >>
        /\ threads[t] \in Asking
    BY DEF IssueChallenge, LoginInv, ThreadInv
  <1>2. nextNonce \in 1 .. MaxMessages /\ nextNonce \in Nat /\ clock \in 0 .. MaxTime
    BY <1>1, LifetimesAssumption DEF LoginInv, LoginType
  <1>3. message \in Message /\ message.wallet = w /\ message.nonce = nextNonce
        /\ w \in Holders
    BY <1>1, <1>2 DEF Message, Asking
  <1> HIDE DEF message, w
  <1>4. /\ threads' = [u \in Threads |-> threads'[u]]
        /\ threads'[t] = Resting
        /\ \A u \in Threads : u # t => threads'[u] = threads[u]
    BY <1>1, Sets DEF LoginInv
  <1>5. /\ challenges' \in [Holders -> Message \cup {NoMessage}]
        /\ challenges'[w] = message
        /\ \A v \in Holders : v # w => challenges'[v] = Pending[v]
    BY <1>1, <1>3, PendingIs
  <1>6. LoginType'
    BY <1>1, <1>2, <1>3, <1>4, <1>5 DEF LoginInv, LoginType
  <1>7. SessionInv'
    <2>1. \A session \in sessions : session.answers \in signed
      BY DEF LoginInv, SessionInv, SessionAnswersChallenge
    <2>2. \A session \in sessions : session.answers.nonce \in Nat
      BY <2>1 DEF LoginInv, LoginType, Message
    <2>3. \A session \in sessions : session.answers.nonce < nextNonce'
      BY <1>1, <1>2, <2>2 DEF LoginInv, SessionInv
    <2>4. SessionAnswersChallenge'
      BY <1>1 DEF LoginInv, SessionInv, SessionAnswersChallenge
    <2>5. QED
      BY <1>1, <2>3, <2>4 DEF LoginInv, SessionInv
  <1>8. ChallengeInv'
    <2> SUFFICES ASSUME NEW v \in Holders, challenges'[v] # NoMessage
                 PROVE  /\ challenges'[v].wallet = v
                        /\ challenges'[v].nonce < nextNonce'
                        /\ \A session \in sessions' : session.answers # challenges'[v]
      BY DEF ChallengeInv
    <2>1. CASE v = w
      <3>1. \A session \in sessions : session.answers.nonce < nextNonce
        BY DEF LoginInv, SessionInv
      <3>2. \A session \in sessions : session.answers # message
        BY <1>2, <1>3, <3>1
      <3>3. QED
        BY <1>1, <1>2, <1>3, <1>5, <2>1, <3>2
    <2>2. CASE v # w
      <3>1. challenges'[v] = challenges[v] /\ challenges[v] \in Message
        BY <1>5, <2>2, PendingIs
      <3>2. challenges[v].nonce \in Nat
        BY <3>1 DEF Message
      <3>3. challenges[v] # NoMessage
        BY <3>1
      <3>4. QED
        BY <1>1, <1>2, <3>1, <3>2, <3>3 DEF LoginInv, ChallengeInv
    <2>3. QED
      BY <2>1, <2>2
  <1>9. ASSUME NEW u \in Threads PROVE ThreadInv(u)'
    BY <1>1, <1>4 DEF LoginInv, ThreadInv, In, Resting, Parsing, Acting
  <1>10. QED
    BY <1>6, <1>7, <1>8, <1>9 DEF LoginInv

(* Consuming a challenge: what is left was there before, and not for the wallet. *)
LEMMA ConsumeIs ==
    ASSUME LoginInv, NEW t \in Threads, In(t, "verify"), Consume(t)
    PROVE  LET w == threads[t].message.wallet
           IN  /\ w \in Holders
               /\ challenges' \in [Holders -> Message \cup {NoMessage}]
               /\ challenges'[w] = NoMessage
               /\ \A v \in Holders : challenges'[v] # NoMessage =>
                      v # w /\ challenges'[v] = challenges[v]
  <1>1. threads[t].message \in Message
    BY DEF LoginInv, LoginType, ThreadInv
  <1>2. threads[t].message.wallet \in Holders
    BY <1>1 DEF Message
  <1>3. QED
    BY <1>2, PendingIs DEF Consume, Popped

(* An answer that opens no session: the challenge is gone, and nothing comes of it. *)
LEMMA ConsumeKeeps ==
    ASSUME LoginInv, NEW t \in Threads, In(t, "verify"), Consume(t),
           NEW call \in {Resting, [step |-> "register",
                                  wallet |-> threads[t].message.wallet]},
           Set(t, call), UNCHANGED << clock, roleOf, blocks, signed, nextNonce, sessions >>
    PROVE  LoginInv'
  <1> DEFINE w == threads[t].message.wallet
  <1>1. /\ w \in Holders
        /\ challenges' \in [Holders -> Message \cup {NoMessage}]
        /\ \A v \in Holders : challenges'[v] # NoMessage => challenges'[v] = challenges[v]
    BY ConsumeIs
  <1>2. /\ threads' = [u \in Threads |-> threads'[u]]
        /\ threads'[t] = call
        /\ \A u \in Threads : u # t => threads'[u] = threads[u]
    BY Sets DEF LoginInv
  <1>3. LoginType' /\ SessionInv'
    BY <1>1, <1>2 DEF LoginInv, LoginType, SessionInv, SessionAnswersChallenge
  <1>4. ChallengeInv'
    BY <1>1 DEF LoginInv, ChallengeInv
  <1>5. ASSUME NEW u \in Threads PROVE ThreadInv(u)'
    <2>1. CASE u = t
      BY <1>1, <1>2, <2>1 DEF ThreadInv, In, Resting
    <2>2. CASE u # t
      BY <1>2, <2>2 DEF LoginInv, ThreadInv, In, Parsing, Acting
    <2>3. QED
      BY <2>1, <2>2
  <1>6. QED
    BY <1>3, <1>4, <1>5 DEF LoginInv

LEMMA VerifyFailsKeeps ==
    ASSUME LoginInv, NEW t \in Threads, VerifyFails(t) \/ VerifyRegistration(t)
    PROVE  LoginInv'
  BY ConsumeKeeps DEF VerifyFails, VerifyRegistration

(* The session answers the challenge that was in the table until now.         *)
LEMMA VerifyLoginKeeps ==
    ASSUME LoginInv, NEW t \in Threads, VerifyLogin(t)
    PROVE  LoginInv'
  <1> DEFINE message == threads[t].message
             w == message.wallet
             new == [id |-> Cardinality(sessions) + 1, wallet |-> w, role |-> roleOf[w],
                     answers |-> message, iat |-> clock, exp |-> clock + SessionTtl]
  <1>1. /\ In(t, "verify") /\ threads[t].purpose = "login" /\ Consume(t)
        /\ Verified(t) /\ sessions' = sessions \cup {new} /\ Set(t, Resting)
        /\ UNCHANGED << clock, roleOf, blocks, signed, nextNonce >>
    BY DEF VerifyLogin
  <1>2. /\ message \in signed /\ message \in Message /\ w \in Holders
        /\ roleOf[w] # "unregistered"
    BY <1>1, ConsumeIs DEF LoginInv, LoginType, ThreadInv
  <1>3. /\ message = challenges[w] /\ challenges[w] # NoMessage
        /\ message.purpose = "login" /\ clock < message.at + ChallengeTtl
    BY <1>1, <1>2, PendingIs DEF Verified
  <1>4. /\ message.nonce < nextNonce
        /\ \A session \in sessions : session.answers # message
    BY <1>2, <1>3 DEF LoginInv, ChallengeInv
  <1>5. /\ new.wallet = w /\ new.answers = message /\ new.iat = clock
    OBVIOUS
  <1>6. /\ challenges' \in [Holders -> Message \cup {NoMessage}]
        /\ \A v \in Holders : challenges'[v] # NoMessage =>
              v # w /\ challenges'[v] = challenges[v]
    BY <1>1, ConsumeIs
  <1>7. /\ threads' = [u \in Threads |-> threads'[u]]
        /\ threads'[t] = Resting
        /\ \A u \in Threads : u # t => threads'[u] = threads[u]
    BY <1>1, Sets DEF LoginInv
  <1> HIDE DEF new, message, w
  <1>8. LoginType'
    BY <1>1, <1>6, <1>7 DEF LoginInv, LoginType
  <1>9. SessionInv'
    <2>1. \A session \in sessions' :
             /\ session.wallet \in Holders /\ roleOf[session.wallet] # "unregistered"
             /\ session.answers.nonce < nextNonce
      BY <1>1, <1>2, <1>4, <1>5 DEF LoginInv, SessionInv
    <2>2. \A session \in sessions' :
             /\ session.answers \in signed
             /\ session.answers.purpose = "login"
             /\ session.iat < session.answers.at + ChallengeTtl
      BY <1>1, <1>2, <1>3, <1>5 DEF LoginInv, SessionInv, SessionAnswersChallenge
    <2>3. \A session, other \in sessions' :
             other.answers = session.answers => other = session
      BY <1>1, <1>4, <1>5 DEF LoginInv, SessionInv, SessionAnswersChallenge
    <2>4. SessionAnswersChallenge'
      BY <1>1, <2>2, <2>3 DEF SessionAnswersChallenge
    <2>5. QED
      BY <1>1, <2>1, <2>4 DEF SessionInv
  <1>10. ChallengeInv'
    <2> SUFFICES ASSUME NEW v \in Holders, challenges'[v] # NoMessage
                 PROVE  /\ challenges'[v].wallet = v
                        /\ challenges'[v].nonce < nextNonce'
                        /\ \A session \in sessions' : session.answers # challenges'[v]
      BY DEF ChallengeInv
    <2>1. v # w /\ challenges'[v] = challenges[v]
      BY <1>6
    <2>2. challenges[v].wallet = v /\ message.wallet = w
      BY <2>1 DEF LoginInv, ChallengeInv, w
    <2>3. QED
      BY <1>1, <1>5, <2>1, <2>2 DEF LoginInv, ChallengeInv
  <1>11. ASSUME NEW u \in Threads PROVE ThreadInv(u)'
    BY <1>1, <1>7 DEF LoginInv, ThreadInv, In, Resting, Parsing, Acting
  <1>12. QED
    BY <1>8, <1>9, <1>10, <1>11 DEF LoginInv

LEMMA CommitRoleIs ==
    ASSUME LoginInv, NEW w \in Holders, NEW role \in {"consumer", "active"},
           CommitRole(w, role)
    PROVE  blocks' \in Seq(Change)
  BY DEF CommitRole, LoginInv, LoginType, Change

\* A block that is not applied changes nothing that a thread has noted.
LEMMA BlocksKeep ==
    ASSUME LoginInv, blocks' \in Seq(Change),
           UNCHANGED << clock, roleOf, challenges, signed, nextNonce, sessions >>,
           threads' = [u \in Threads |-> threads'[u]],
           \A u \in Threads : threads'[u] = threads[u] \/ threads'[u] = Resting
    PROVE  LoginInv'
  <1>1. LoginType' /\ ChallengeInv' /\ SessionInv'
    BY DEF LoginInv, LoginType, ChallengeInv, SessionInv, SessionAnswersChallenge
  <1>2. ASSUME NEW u \in Threads PROVE ThreadInv(u)'
    <2>1. CASE threads'[u] = Resting
      BY <2>1 DEF ThreadInv, In, Resting
    <2>2. CASE threads'[u] = threads[u]
      BY <2>2 DEF LoginInv, ThreadInv, In, Parsing, Acting
    <2>3. QED
      BY <2>1, <2>2
  <1>3. QED
    BY <1>1, <1>2 DEF LoginInv

LEMMA SubmitRegistrationKeeps ==
    ASSUME LoginInv, NEW t \in Threads, SubmitRegistration(t)
    PROVE  LoginInv'
  <1> DEFINE w == threads[t].wallet
  <1>1. /\ Set(t, Resting) /\ w \in Holders
        /\ UNCHANGED << clock, roleOf, challenges, signed, nextNonce, sessions >>
        /\ CommitRole(w, "consumer") \/ blocks' = blocks
    BY DEF SubmitRegistration, LoginInv, ThreadInv
  <1> HIDE DEF w
  <1>2. blocks' \in Seq(Change)
    BY <1>1, CommitRoleIs DEF LoginInv, LoginType
  <1>3. /\ threads' = [u \in Threads |-> threads'[u]]
        /\ threads'[t] = Resting
        /\ \A u \in Threads : u # t => threads'[u] = threads[u]
    BY <1>1, Sets DEF LoginInv
  <1>4. QED
    BY <1>1, <1>2, <1>3, BlocksKeep

LEMMA ChangeRoleKeeps ==
    ASSUME LoginInv, NEW w \in Holders, ChangeRole(w)
    PROVE  LoginInv'
  <1>1. /\ blocks' \in Seq(Change)
        /\ UNCHANGED << clock, roleOf, challenges, signed, nextNonce, sessions, threads >>
    BY CommitRoleIs DEF ChangeRole
  <1>2. threads' = [u \in Threads |-> threads'[u]]
    BY <1>1 DEF LoginInv, LoginType
  <1>3. QED
    BY <1>1, <1>2, BlocksKeep

(* Every request of the wallet that is under way notes the new role.          *)
LEMMA PeerAppliesKeeps ==
    ASSUME LoginInv, PeerApplies
    PROVE  LoginInv'
  <1> DEFINE w == Head(blocks).wallet
             role == Head(blocks).role
  <1>1. /\ blocks # << >> /\ blocks' = Tail(blocks)
        /\ roleOf' = [roleOf EXCEPT ![w] = role]
        /\ UNCHANGED << clock, challenges, signed, nextNonce, sessions >>
        /\ threads' =
               [t \in Threads |->
                   IF threads[t].step \in {"parse", "act"} /\ threads[t].session.wallet = w
                   THEN [threads[t] EXCEPT !.shown = @ \cup {role}]
                   ELSE threads[t]]
    BY DEF PeerApplies
  <1>2. blocks' \in Seq(Change) /\ Head(blocks) \in Change
    BY <1>1 DEF LoginInv, LoginType
  <1>3. w \in Holders /\ role \in Statuses /\ role # "unregistered"
    BY <1>2 DEF Change, Statuses
  <1> HIDE DEF w, role
  <1>4. /\ roleOf' \in [Holders -> Statuses] /\ roleOf'[w] = role
        /\ \A v \in Holders : v # w => roleOf'[v] = roleOf[v]
    BY <1>1, <1>3 DEF LoginInv, LoginType
  <1>5. LoginType' /\ ChallengeInv'
    BY <1>1, <1>2, <1>4 DEF LoginInv, LoginType, ChallengeInv
  <1>6. SessionInv'
    BY <1>1, <1>3, <1>4 DEF LoginInv, SessionInv, SessionAnswersChallenge
  <1>7. ASSUME NEW u \in Threads PROVE ThreadInv(u)'
    <2>1. CASE In(u, "parse")
      <3> DEFINE now == threads[u]
      <3>1. /\ now \in Parsing /\ now.session.wallet \in Holders
            /\ roleOf[now.session.wallet] \in now.shown
        BY <2>1 DEF LoginInv, ThreadInv, SessionInv, Parsing
      <3>2. threads'[u] = IF now.session.wallet = w
                          THEN [now EXCEPT !.shown = @ \cup {role}] ELSE now
        BY <1>1, <2>1 DEF In
      <3> HIDE DEF now
      <3>3. /\ threads'[u] \in Parsing /\ threads'[u].session = now.session
            /\ threads'[u].step = "parse"
            /\ roleOf'[now.session.wallet] \in threads'[u].shown
        BY <1>3, <1>4, <3>1, <3>2 DEF Parsing
      <3>4. QED
        BY <1>1, <3>3 DEF ThreadInv, In, Parsing
    <2>2. CASE In(u, "act")
      <3> DEFINE now == threads[u]
      <3>1. now \in Acting /\ now.role \in now.shown
        BY <2>2 DEF LoginInv, ThreadInv
      <3>2. threads'[u] = IF now.session.wallet = w
                          THEN [now EXCEPT !.shown = @ \cup {role}] ELSE now
        BY <1>1, <2>2 DEF In
      <3> HIDE DEF now
      <3>3. /\ threads'[u] \in Acting /\ threads'[u].role \in threads'[u].shown
            /\ threads'[u].step = "act"
        BY <1>3, <3>1, <3>2 DEF Acting
      <3>4. QED
        BY <1>1, <3>3 DEF ThreadInv, In, Acting
    <2>3. CASE ~ In(u, "parse") /\ ~ In(u, "act")
      <3>1. threads'[u] = threads[u]
        BY <1>1, <2>3 DEF In
      <3>2. In(u, "verify") => threads[u].message.wallet \in Holders
        BY DEF LoginInv, LoginType, ThreadInv, Message
      <3>3. QED
        BY <1>1, <1>3, <1>4, <2>3, <3>1, <3>2 DEF LoginInv, ThreadInv, In
    <2>4. QED
      BY <2>1, <2>2, <2>3
  <1>8. QED
    BY <1>5, <1>6, <1>7 DEF LoginInv

LEMMA TickKeeps ==
    ASSUME LoginInv, Tick
    PROVE  LoginInv'
  <1>1. /\ clock' \in 0 .. MaxTime
        /\ UNCHANGED << roleOf, blocks, challenges, signed, nextNonce, sessions, threads >>
    BY LifetimesAssumption DEF Tick, LoginInv, LoginType
  <1>2. LoginType' /\ ChallengeInv' /\ SessionInv'
    BY <1>1 DEF LoginInv, LoginType, ChallengeInv, SessionInv, SessionAnswersChallenge
  <1>3. ASSUME NEW u \in Threads PROVE ThreadInv(u)'
    BY <1>1 DEF LoginInv, ThreadInv, In, Parsing, Acting
  <1>4. QED
    BY <1>2, <1>3 DEF LoginInv

LEMMA RestartKeeps ==
    ASSUME LoginInv, Restart
    PROVE  LoginInv'
  <1>1. /\ challenges' = [w \in Holders |-> NoMessage]
        /\ threads' = [t \in Threads |-> Resting]
        /\ UNCHANGED << clock, roleOf, blocks, signed, nextNonce, sessions >>
    BY DEF Restart
  <1>2. LoginType' /\ ChallengeInv' /\ SessionInv'
    BY <1>1 DEF LoginInv, LoginType, ChallengeInv, SessionInv, SessionAnswersChallenge
  <1>3. ASSUME NEW u \in Threads PROVE ThreadInv(u)'
    BY <1>1 DEF ThreadInv, In, Resting
  <1>4. QED
    BY <1>2, <1>3 DEF LoginInv

LEMMA LoginInitInv == LoginInit => LoginInv
  <1> SUFFICES ASSUME LoginInit PROVE LoginInv
    OBVIOUS
  <1>1. LoginType /\ ChallengeInv /\ SessionInv
    BY LifetimesAssumption DEF LoginInit, LoginType, Statuses, ChallengeInv, SessionInv,
       SessionAnswersChallenge
  <1>2. ASSUME NEW u \in Threads PROVE ThreadInv(u)
    BY DEF LoginInit, ThreadInv, In, Resting
  <1>3. QED
    BY <1>1, <1>2 DEF LoginInv

LEMMA LoginStutter == LoginInv /\ UNCHANGED loginVars => LoginInv'
  <1> SUFFICES ASSUME LoginInv, UNCHANGED loginVars PROVE LoginInv'
    OBVIOUS
  <1>1. LoginType' /\ ChallengeInv' /\ SessionInv'
    BY DEF LoginInv, LoginType, ChallengeInv, SessionInv, SessionAnswersChallenge, loginVars
  <1>2. ASSUME NEW u \in Threads PROVE ThreadInv(u)'
    BY DEF LoginInv, ThreadInv, In, Parsing, Acting, loginVars
  <1>3. QED
    BY <1>1, <1>2 DEF LoginInv

LEMMA LoginNextInv == LoginInv /\ LoginNext => LoginInv'
  <1> SUFFICES ASSUME LoginInv, LoginNext PROVE LoginInv'
    OBVIOUS
  <1>1. ASSUME NEW t \in Threads,
               \/ IssueChallenge(t) \/ VerifyLogin(t) \/ VerifyRegistration(t)
               \/ VerifyFails(t) \/ SubmitRegistration(t) \/ ParseSession(t)
        PROVE  LoginInv'
    BY <1>1, IssueChallengeKeeps, VerifyLoginKeeps, VerifyFailsKeeps,
       SubmitRegistrationKeeps, ParseSessionKeeps
  <1>2. ASSUME NEW t \in Threads, Act(t) PROVE LoginInv'
    BY <1>2, RestKeeps DEF Act
  <1>3. ASSUME NEW t \in Threads, NEW w \in Holders, NEW purpose \in Purposes,
               AskChallenge(t, w, purpose)
        PROVE  LoginInv'
    BY <1>3, AskChallengeKeeps
  <1>4. ASSUME NEW t \in Threads, NEW message \in signed,
               AskLogin(t, message) \/ AskRegistration(t, message)
        PROVE  LoginInv'
    BY <1>4, AskLoginKeeps
  <1>5. ASSUME NEW t \in Threads, NEW session \in sessions, BeginRequest(t, session)
        PROVE  LoginInv'
    BY <1>5, RequestKeeps
  <1>6. QED
    BY <1>1, <1>2, <1>3, <1>4, <1>5, ChangeRoleKeeps, PeerAppliesKeeps, TickKeeps,
       RestartKeeps DEF LoginNext
-----------------------------------------------------------------------------
(* The invariant of WalletAuth and its routes, restarts included.             *)
THEOREM LoginInvariance == LoginSpec => []LoginInv
  BY LoginInitInv, LoginNextInv, LoginStutter, PTL DEF LoginSpec

(* Every session answers a challenge of its own, in time, once: verify_challenge *)
(* consumes what issue_challenge put there.                                    *)
THEOREM ChallengesAnsweredOnce == LoginSpec => []SessionAnswersChallenge
  <1>1. LoginInv => SessionAnswersChallenge
    BY DEF LoginInv, SessionInv
  <1>2. QED
    BY <1>1, LoginInvariance, PTL

(* A request acts in a role that the peer it asks has shown since it arrived:   *)
(* parse_session asks that peer, never the token.                              *)
THEOREM RolesAsShown == LoginSpec => []RoleShownDuringRequest
  <1>1. LoginInv => RoleShownDuringRequest
    BY DEF LoginInv, ThreadInv, RoleShownDuringRequest
  <1>2. QED
    BY <1>1, LoginInvariance, PTL
-----------------------------------------------------------------------------
(* Deciding on roles *)

Giving == {"approve", "grant", "bootstrap"}
JobSteps == {"idle", "first", "create", "disable", "submit", "wait", "undo", "last"}

Job == [op : Giving \cup {"none", "reject", "revoke"}, step : JobSteps,
        caller : Certs \cup {NoCert}, wallet : Wallets \cup {NoWallet},
        role : Roles \cup {"consumer", "orgadmin"}, target : TxIds \cup {NoTx},
        cert : Certs \cup {NoCert}, tx : TxIds \cup {NoTx}]

DeskType ==
    /\ identities \in [Certs -> {"none", "reserved", "active", "disabled"}]
    /\ jobs \in [Desks -> Job]
    /\ lost \in Nat

\* What a job holds in each of its steps.
JobSound(job) ==
    /\ job.step = "idle" => job = Idle
    /\ job.step # "idle" => job.wallet \in Wallets /\ job.op # "none"
    /\ job.step \notin {"idle", "first"} => job.caller \in Certs
    /\ job.step \in {"first", "last"} => job.op = "bootstrap"
    /\ job.step \in {"first", "create"} => job.op \in Giving /\ job.cert = NoCert
    /\ job.step = "disable" => job.op = "revoke"
    /\ job.step = "undo" => job.op \in Giving /\ job.cert \in Certs
    /\ job.step \in {"submit", "wait"} /\ job.op \in Giving => job.cert \in Certs
    /\ job.op \in {"approve", "reject"} => job.target \in TxIds
    /\ job.op = "reject" => job.cert = NoCert
    /\ job.op \in Giving /\ job.cert # NoCert =>
           /\ Taken(job.cert)
           /\ CertWallet[job.cert] = job.wallet
           /\ CertOrg[job.cert] = CertOrg[job.caller]
    /\ job.op = "revoke" =>
           /\ job.cert \in Certs
           /\ CertWallet[job.cert] = job.wallet
           /\ job.step \in {"submit", "wait"} => ~ Usable(job.cert)

Grant(tx, c) == tx.call.op \in Grants /\ tx.call.cert = c

Submits(d, c) == At(d, "submit") /\ jobs[d].op \in Giving /\ jobs[d].cert = c

\* The identity was made, and nothing can grant a role for it any more.
Spent(c) ==
    /\ Taken(c)
    /\ \A tx \in pool : ~ Grant(tx, c)
    /\ \A d \in Desks : ~ Submits(d, c)

SpentInv ==
    /\ \A w \in Wallets :
           /\ ws.wallet[w].org # NoWallet => ws.wallet[w].cert \in Certs
           /\ ws.wallet[w].cert \in Certs =>
                  Spent(ws.wallet[w].cert) /\ CertWallet[ws.wallet[w].cert] = w
    /\ \A d \in Desks : jobs[d].op = "revoke" => Spent(jobs[d].cert)
    /\ \A done \in told : done.op = "revoke" =>
           /\ done.cert \in Certs /\ Spent(done.cert)
           /\ ~ Usable(done.cert) /\ ws.bound[done.cert] = NoWallet

\* An identity has one job that gives it, and one transaction.
OnceInv ==
    /\ \A d, e \in Desks :
           (/\ jobs[d].op \in Giving /\ jobs[e].op \in Giving
            /\ jobs[d].cert = jobs[e].cert /\ jobs[d].cert # NoCert) => d = e
    /\ \A tx \in pool : tx.call.op \in Grants =>
           /\ Taken(tx.call.cert) /\ CertWallet[tx.call.cert] = tx.call.wallet
           /\ \A d \in Desks : ~ Submits(d, tx.call.cert)
           /\ \A other \in pool : Grant(other, tx.call.cert) => other = tx

OpOf(job) == IF job.op = "bootstrap" THEN "grant" ELSE job.op

\* A job that waits, waits for its own transaction.
WaitInv ==
    \A d \in Desks : At(d, "wait") =>
        /\ jobs[d].tx < nextTx
        /\ \A tx \in pool : tx.call.id = jobs[d].tx =>
               tx.call.op = OpOf(jobs[d]) /\ tx.call.wallet = jobs[d].wallet

Reported(c) == \E done \in told : done.op # "revoke" /\ done.cert = c

InCharge(d, c) ==
    jobs[d].op \in Giving /\ jobs[d].cert = c /\ (At(d, "wait") \/ At(d, "undo"))

UsableInv ==
    \A c \in Certs :
        (Usable(c) /\ (ws.bound[c] # NoWallet \/ \E tx \in pool : Grant(tx, c))) =>
            Reported(c) \/ c \in swallowed \/ \E d \in Desks : InCharge(d, c)

\* The job that will see to the identity, whatever happens.
Minds(d, c) ==
    \/ InCharge(d, c) \/ Submits(d, c)
    \/ jobs[d].op = "bootstrap" /\ jobs[d].caller = c /\ ~ At(d, "first")

StrayInv ==
    \A c \in Certs : (lost = 0 /\ Usable(c)) =>
        \/ CertWallet[c] # NoWallet /\ Reported(c)
        \/ \E d \in Desks : Minds(d, c)

DeskInv ==
    /\ IInv /\ DeskType
    /\ \A d \in Desks : JobSound(jobs[d])
    /\ SpentInv /\ OnceInv /\ WaitInv
    /\ UsableInv /\ StrayInv

LEMMA IdleIs == Idle \in Job /\ JobSound(Idle) /\ Idle.step = "idle" /\ Idle.op = "none"
                /\ Idle.cert = NoCert
  <1>1. Idle \in Job
    BY DEF Idle, Job, JobSteps, Giving
  <1>2. QED
    BY <1>1 DEF Idle, JobSound, Giving

LEMMA DoneIs ==
    ASSUME NEW job \in Job, JobSound(job), job.step \notin {"idle", "first"}
    PROVE  /\ Done(job) \in Job /\ JobSound(Done(job))
           /\ Done(job).step \in {"idle", "last"}
           /\ job.op # "bootstrap" => Done(job) = Idle
           /\ job.op = "bootstrap" =>
                  /\ Done(job).op = "bootstrap" /\ Done(job).step = "last"
                  /\ Done(job).caller = job.caller /\ Done(job).cert = job.cert
  <1>1. CASE job.op # "bootstrap"
    BY <1>1, IdleIs DEF Done
  <1>2. CASE job.op = "bootstrap"
    <2> DEFINE done == [job EXCEPT !.step = "last", !.tx = NoTx]
    <2>1. Done(job) = done
      BY <1>2 DEF Done
    <2>2. /\ done \in Job /\ done.op = "bootstrap" /\ done.step = "last"
          /\ done.caller = job.caller /\ done.cert = job.cert /\ done.wallet = job.wallet
      BY <1>2 DEF Job, JobSteps
    <2> HIDE DEF done
    <2>3. JobSound(done)
      BY <1>2, <2>2 DEF JobSound, Giving
    <2>4. QED
      BY <1>2, <2>1, <2>2, <2>3
  <1>3. QED
    BY <1>1, <1>2

\* What has become of a job that failed: the identity it made is to be disabled.
LEMMA FailedIs ==
    ASSUME NEW job \in Job, JobSound(job), job.step \in {"create", "submit", "wait"}
    PROVE  /\ Failed(job) \in Job /\ JobSound(Failed(job))
           /\ Failed(job).step \in {"idle", "last", "undo"}
           /\ job.op \in Giving /\ job.cert # NoCert =>
                  /\ Failed(job).step = "undo" /\ Failed(job).op = job.op
                  /\ Failed(job).cert = job.cert /\ Failed(job).caller = job.caller
           /\ ~ (job.op \in Giving /\ job.cert # NoCert) => Failed(job) = Done(job)
  <1>0. job.op = "revoke" \/ job.op = "reject" \/ job.op \in Giving
    BY DEF Job, JobSound
  <1>1. CASE job.op \in Giving /\ job.cert # NoCert
    <2> DEFINE failed == [job EXCEPT !.step = "undo", !.tx = NoTx]
    <2>1. Failed(job) = failed
      BY <1>1 DEF Failed, Giving
    <2>2. /\ failed \in Job /\ failed.op = job.op /\ failed.step = "undo"
          /\ failed.caller = job.caller /\ failed.cert = job.cert
          /\ failed.wallet = job.wallet /\ failed.target = job.target
          /\ job.cert \in Certs
      BY <1>1 DEF Job, JobSteps
    <2> HIDE DEF failed
    <2>3. JobSound(failed)
      BY <1>1, <2>2 DEF JobSound, Giving
    <2>4. QED
      BY <1>1, <2>1, <2>2, <2>3
  <1>2. CASE ~ (job.op \in Giving /\ job.cert # NoCert)
    <2>1. job.op = "revoke" \/ job.cert = NoCert
      BY <1>0, <1>2 DEF JobSound
    <2>2. Failed(job) = Done(job)
      BY <2>1 DEF Failed
    <2>3. QED
      BY <1>2, <2>2, DoneIs
  <1>3. QED
    BY <1>1, <1>2

-----------------------------------------------------------------------------
LEMMA BecomeIs ==
    ASSUME DeskType, NEW d \in Desks, NEW job, Become(d, job)
    PROVE  jobs'[d] = job /\ jobs' = [jobs EXCEPT ![d] = jobs'[d]]
  BY DEF DeskType, Become

\* Identities are made once, and one that was disabled stays so.
NeverBack ==
    /\ identities' \in [Certs -> {"none", "reserved", "active", "disabled"}]
    /\ \A c \in Certs : Taken(c) => Taken(c)' /\ (~ Usable(c) => ~ Usable(c)')

\* A step of one desk that leaves the channel alone, by what it hands on.
LocalStep(d) ==
    /\ jobs'[d] \in Job /\ jobs' = [jobs EXCEPT ![d] = jobs'[d]]
    /\ UNCHANGED << vars, told >> /\ lost' \in Nat /\ swallowed \subseteq swallowed'
    /\ NeverBack
    /\ jobs'[d].step # "wait"
    /\ jobs'[d].op \in Giving /\ jobs'[d].cert # NoCert =>
           \/ jobs[d].op \in Giving /\ jobs[d].cert = jobs'[d].cert
           \/ ~ Taken(jobs'[d].cert)
    /\ jobs'[d].op = "revoke" =>
           \/ jobs[d].op = "revoke" /\ jobs[d].cert = jobs'[d].cert
           \/ Spent(jobs'[d].cert)
    /\ jobs'[d].op \in Giving /\ jobs'[d].step = "submit" => ~ Taken(jobs'[d].cert)

\* What a step may not leave behind.
LeavesNothing(d) ==
    /\ \A c \in Certs : Usable(c)' /\ InCharge(d, c) => InCharge(d, c)' \/ c \in swallowed'
    /\ lost' = 0 =>
           /\ lost = 0
           /\ \A c \in Certs : Usable(c)' => Minds(d, c)' \/ (Usable(c) /\ ~ Minds(d, c))

LEMMA LocalStepInv ==
    ASSUME DeskInv, NEW d \in Desks, LocalStep(d), LeavesNothing(d),
           JobSound(jobs'[d]) \/ JobSound(jobs[d])'
    PROVE  DeskInv'
  <1>1. IInv /\ DeskType /\ \A e \in Desks : JobSound(jobs[e])
    BY DEF DeskInv
  <1>2. /\ ws' = ws /\ pool' = pool /\ nextTx' = nextTx /\ told' = told
        /\ \A e \in Desks : e # d => jobs'[e] = jobs[e]
        /\ \A e \in Desks : jobs'[e] \in Job
    BY <1>1 DEF LocalStep, vars, DeskType
  <1>3. IInv'
    BY <1>1, <1>2, DropInv
  <1>4. DeskType'
    BY <1>1, <1>2 DEF LocalStep, NeverBack, DeskType
  <1>5. ASSUME NEW e \in Desks, e # d
        PROVE  /\ \A s : At(e, s)' <=> At(e, s)
               /\ \A c : Submits(e, c)' <=> Submits(e, c)
               /\ \A c : InCharge(e, c)' <=> InCharge(e, c)
               /\ \A c : Minds(e, c)' <=> Minds(e, c)
    BY <1>2, <1>5 DEF At, Submits, InCharge, Minds
  <1>6. ASSUME NEW c \in Certs, Taken(c)
        PROVE  Taken(c)' /\ (~ Usable(c) => ~ Usable(c)') /\ ~ Submits(d, c)'
    BY <1>6 DEF LocalStep, NeverBack, Submits, At
  <1>7. ASSUME NEW c \in Certs, Spent(c)
        PROVE  Spent(c)'
    BY <1>2, <1>5, <1>6, <1>7 DEF Spent
  <1>8. ASSUME NEW e \in Desks
        PROVE  jobs'[e].op = "revoke" => Spent(jobs'[e].cert)
    <2>1. \A f \in Desks : jobs[f].op = "revoke" => Spent(jobs[f].cert)
      BY DEF DeskInv, SpentInv
    <2>2. QED
      BY <1>2, <2>1 DEF LocalStep
  <1>9. ASSUME NEW e \in Desks
        PROVE  JobSound(jobs[e])'
    <2>1. JobSound(jobs'[e]) \/ JobSound(jobs[e])'
      BY <1>1, <1>2
    <2>2. jobs'[e] \in Job
      BY <1>2
    <2>3. jobs'[e].op = "revoke" => Taken(jobs'[e].cert)
      BY <1>8 DEF Spent
    <2>4. QED
      BY <1>6, <2>1, <2>2, <2>3 DEF JobSound, Job, Idle
  <1>10. SpentInv'
    <2>1. /\ \A w \in Wallets :
                /\ ws'.wallet[w].org # NoWallet => ws'.wallet[w].cert \in Certs
                /\ ws'.wallet[w].cert \in Certs =>
                       Spent(ws'.wallet[w].cert) /\ CertWallet[ws'.wallet[w].cert] = w
          /\ \A done \in told' : done.op = "revoke" =>
                 /\ done.cert \in Certs /\ Spent(done.cert)
                 /\ ~ Usable(done.cert) /\ ws'.bound[done.cert] = NoWallet
      BY <1>2 DEF DeskInv, SpentInv
    <2>2. \A e \in Desks : jobs'[e].op = "revoke" => jobs'[e].cert \in Certs
      BY <1>9 DEF JobSound
    <2>3. \A c \in Certs : Spent(c) => Taken(c) /\ Spent(c)'
      BY <1>7 DEF Spent
    <2>4. QED
      BY <1>6, <1>8, <2>1, <2>2, <2>3 DEF SpentInv
  <1>11. OnceInv'
    <2>1. ASSUME NEW e \in Desks, NEW f \in Desks,
                 jobs'[e].op \in Giving, jobs'[f].op \in Giving,
                 jobs'[e].cert = jobs'[f].cert, jobs'[e].cert # NoCert
          PROVE  e = f
      <3>1. \A g, h \in Desks :
                (/\ jobs[g].op \in Giving /\ jobs[h].op \in Giving
                 /\ jobs[g].cert = jobs[h].cert /\ jobs[g].cert # NoCert) => g = h
        BY DEF DeskInv, OnceInv
      <3>2. \A g \in Desks : jobs[g].op \in Giving /\ jobs[g].cert # NoCert =>
                                 Taken(jobs[g].cert)
        BY <1>1 DEF JobSound
      <3>3. QED
        BY <1>2, <2>1, <3>1, <3>2 DEF LocalStep
    <2>2. ASSUME NEW tx \in pool, tx.call.op \in Grants
          PROVE  /\ Taken(tx.call.cert)' /\ CertWallet[tx.call.cert] = tx.call.wallet
                 /\ \A e \in Desks : ~ Submits(e, tx.call.cert)'
                 /\ \A other \in pool : Grant(other, tx.call.cert) => other = tx
      <3>1. tx.call.cert \in Certs
        BY <1>1, <2>2 DEF IInv, TypeOK, Call, Grants
      <3>2. /\ Taken(tx.call.cert) /\ CertWallet[tx.call.cert] = tx.call.wallet
            /\ \A e \in Desks : ~ Submits(e, tx.call.cert)
            /\ \A other \in pool : Grant(other, tx.call.cert) => other = tx
        BY <2>2 DEF DeskInv, OnceInv
      <3>3. QED
        BY <1>5, <1>6, <3>1, <3>2
    <2>3. QED
      BY <1>2, <2>1, <2>2 DEF OnceInv, Grant
  <1>12. WaitInv'
    BY <1>2 DEF DeskInv, WaitInv, LocalStep, At, OpOf
  <1>13. \A c : Reported(c)' <=> Reported(c)
    BY <1>2 DEF Reported
  <1>14. UsableInv'
    <2>1. SUFFICES ASSUME NEW c \in Certs, Usable(c)',
                          ws.bound[c] # NoWallet \/ \E tx \in pool : Grant(tx, c)
                   PROVE  Reported(c)' \/ c \in swallowed' \/ \E e \in Desks : InCharge(e, c)'
      BY <1>2 DEF UsableInv, Grant
    <2>2. Taken(c)
      <3>1. CASE ws.bound[c] # NoWallet
        <4>1. ws.bound[c] \in Wallets
          BY <1>1, <3>1 DEF IInv, TypeOK, WalletState
        <4>2. ws.wallet[ws.bound[c]].cert = c
          BY <1>1, <4>1 DEF IInv, Sound, BindingSound
        <4>3. QED
          BY <4>1, <4>2 DEF DeskInv, SpentInv, Spent
      <3>2. CASE \E tx \in pool : Grant(tx, c)
        BY <3>2 DEF DeskInv, OnceInv, Grant
      <3>3. QED
        BY <2>1, <3>1, <3>2
    <2>3. Reported(c) \/ c \in swallowed \/ \E e \in Desks : InCharge(e, c)
      BY <1>6, <2>1, <2>2 DEF DeskInv, UsableInv
    <2>4. QED
      BY <1>5, <1>13, <2>1, <2>3 DEF LocalStep, LeavesNothing
  <1>15. StrayInv'
    <2>1. SUFFICES ASSUME NEW c \in Certs, lost' = 0, Usable(c)'
                   PROVE  \/ CertWallet[c] # NoWallet /\ Reported(c)'
                          \/ \E e \in Desks : Minds(e, c)'
      BY DEF StrayInv
    <2>2. lost = 0 /\ (Minds(d, c)' \/ (Usable(c) /\ ~ Minds(d, c)))
      BY <2>1 DEF LeavesNothing
    <2>3. CASE Minds(d, c)'
      BY <2>3
    <2>4. CASE Usable(c) /\ ~ Minds(d, c)
      <3>1. \/ CertWallet[c] # NoWallet /\ Reported(c)
            \/ \E e \in Desks : Minds(e, c)
        BY <2>2, <2>4 DEF DeskInv, StrayInv
      <3>2. QED
        BY <1>5, <1>13, <2>4, <3>1
    <2>5. QED
      BY <2>2, <2>3, <2>4
  <1>16. QED
    BY <1>3, <1>4, <1>9, <1>10, <1>11, <1>12, <1>14, <1>15 DEF DeskInv

-----------------------------------------------------------------------------
(* The steps of one desk *)

LEMMA DisabledIs ==
    ASSUME DeskType, NEW c, c \in Certs \cup {NoCert}, identities' = Disabled(c)
    PROVE  NeverBack /\ (c \in Certs => ~ Usable(c)')
  BY DEF DeskType, NeverBack, Disabled, Taken, Usable

LEMMA KeptIs ==
    ASSUME DeskType, UNCHANGED identities
    PROVE  NeverBack /\ \A c : (Usable(c)' <=> Usable(c)) /\ (Taken(c)' <=> Taken(c))
  BY DEF DeskType, NeverBack, Usable, Taken

LEMMA LoseIs ==
    ASSUME DeskType, LoseCall \/ UNCHANGED lost
    PROVE  lost' \in Nat /\ (lost' = 0 => UNCHANGED lost) /\ (LoseCall => lost' # 0)
  BY DEF DeskType, LoseCall

\* A job that is opened has made no identity.
LEMMA OpenInv ==
    ASSUME DeskInv, NEW d \in Desks, NEW job \in Job, Open(d, job), JobSound(job),
           job.step \in {"first", "create", "submit", "disable"},
           job.cert # NoCert => job.op = "revoke" /\ Spent(job.cert),
           job.op = "revoke" => job.cert # NoCert, job.tx = NoTx
    PROVE  DeskInv'
  <1>1. DeskType /\ JobSound(jobs[d]) /\ At(d, "idle") /\ jobs[d] = Idle
    BY DEF DeskInv, Open, JobSound, At
  <1>2. jobs'[d] = job /\ jobs' = [jobs EXCEPT ![d] = jobs'[d]]
    BY <1>1, BecomeIs DEF Open
  <1>3. NeverBack /\ \A c : Usable(c)' <=> Usable(c)
    BY <1>1, KeptIs DEF Open
  <1>4. job.step = "submit" => job.op \notin Giving
    BY NullAssumption DEF JobSound, Giving
  <1>5. LocalStep(d)
    BY <1>1, <1>2, <1>3, <1>4 DEF LocalStep, Open, DeskType, Giving
  <1>6. \A c \in Certs : ~ Minds(d, c)
    BY <1>1, IdleIs DEF Minds, InCharge, Submits, Giving
  <1>7. LeavesNothing(d)
    BY <1>3, <1>6 DEF LeavesNothing, Minds, Open
  <1>8. QED
    BY <1>2, <1>5, <1>7, LocalStepInv

LEMMA OpensInv ==
    ASSUME DeskInv, NEW d \in Desks, NEW admin \in SignedInAdmins,
           \/ \E i \in TxIds : OpenApproval(d, admin, i) \/ OpenRejection(d, admin, i)
           \/ \E w \in Wallets : \/ OpenRevocation(d, admin, w)
                                 \/ \E role \in Roles : OpenGrant(d, admin, w, role)
    PROVE  DeskInv'
  <1>1. admin \in Certs
    BY DEF SignedInAdmins, Admins
  <1>2. ws \in WalletState /\ PublicRoles \subseteq Roles
    BY RolesAssumption DEF DeskInv, IInv, TypeOK
  <1>3. ASSUME NEW i \in TxIds, ws.request[i] # NoRequest
        PROVE  ws.request[i].wallet \in Wallets /\ ws.request[i].role \in Roles
    BY <1>2, <1>3 DEF WalletState, Request
  <1>4. ASSUME NEW i \in TxIds, OpenApproval(d, admin, i)
        PROVE  DeskInv'
    <2> DEFINE job == [Idle EXCEPT !.op = "approve", !.step = "create", !.caller = admin,
                                   !.wallet = ws.request[i].wallet,
                                   !.role = ws.request[i].role, !.target = i]
    <2>1. Open(d, job)
      BY <1>4 DEF OpenApproval
    <2>2. /\ job \in Job /\ job.op = "approve" /\ job.step = "create" /\ job.caller \in Certs
          /\ job.wallet \in Wallets /\ job.target \in TxIds /\ job.cert = NoCert
          /\ job.tx = NoTx
      BY <1>1, <1>3, <1>4 DEF OpenApproval, Idle, Job, JobSteps, Giving
    <2> HIDE DEF job
    <2>3. JobSound(job)
      BY <2>2 DEF JobSound, Giving
    <2>4. QED
      BY <2>1, <2>2, <2>3, OpenInv
  <1>5. ASSUME NEW i \in TxIds, OpenRejection(d, admin, i)
        PROVE  DeskInv'
    <2> DEFINE job == [Idle EXCEPT !.op = "reject", !.step = "submit", !.caller = admin,
                                   !.wallet = ws.request[i].wallet, !.target = i]
    <2>1. Open(d, job)
      BY <1>5 DEF OpenRejection
    <2>2. /\ job \in Job /\ job.op = "reject" /\ job.step = "submit" /\ job.caller \in Certs
          /\ job.wallet \in Wallets /\ job.target \in TxIds /\ job.cert = NoCert
          /\ job.tx = NoTx
      BY <1>1, <1>3, <1>5 DEF OpenRejection, Idle, Job, JobSteps, Giving
    <2> HIDE DEF job
    <2>3. JobSound(job)
      BY <2>2 DEF JobSound, Giving
    <2>4. QED
      BY <2>1, <2>2, <2>3, OpenInv
  <1>6. ASSUME NEW w \in Wallets, OpenRevocation(d, admin, w)
        PROVE  DeskInv'
    <2> DEFINE job == [Idle EXCEPT !.op = "revoke", !.step = "disable", !.caller = admin,
                                   !.wallet = w, !.cert = ws.wallet[w].cert]
    <2>1. Open(d, job)
      BY <1>6 DEF OpenRevocation
    <2>2. ws.wallet[w].org # NoWallet
      BY <1>1, <1>6, CertsAssumption, NullAssumption DEF OpenRevocation
    <2>3. /\ ws.wallet[w].cert \in Certs /\ Spent(ws.wallet[w].cert)
          /\ CertWallet[ws.wallet[w].cert] = w
      BY <2>2 DEF DeskInv, SpentInv
    <2>4. /\ job \in Job /\ job.op = "revoke" /\ job.step = "disable" /\ job.caller \in Certs
          /\ job.wallet = w /\ job.cert = ws.wallet[w].cert /\ job.tx = NoTx
      BY <1>1, <2>3 DEF Idle, Job, JobSteps, Giving
    <2> HIDE DEF job
    <2>5. JobSound(job)
      BY <2>3, <2>4 DEF JobSound, Giving
    <2>6. job.cert # NoCert
      BY <2>3, <2>4, NullAssumption
    <2>7. QED
      BY <2>1, <2>3, <2>4, <2>5, <2>6, OpenInv
  <1>7. ASSUME NEW w \in Wallets, NEW role \in Roles, OpenGrant(d, admin, w, role)
        PROVE  DeskInv'
    <2> DEFINE job == [Idle EXCEPT !.op = "grant", !.step = "create", !.caller = admin,
                                   !.wallet = w, !.role = role]
    <2>1. Open(d, job)
      BY <1>7 DEF OpenGrant
    <2>2. /\ job \in Job /\ job.op = "grant" /\ job.step = "create" /\ job.caller \in Certs
          /\ job.wallet \in Wallets /\ job.cert = NoCert /\ job.tx = NoTx
      BY <1>1 DEF Idle, Job, JobSteps, Giving
    <2> HIDE DEF job
    <2>3. JobSound(job)
      BY <2>2 DEF JobSound, Giving
    <2>4. QED
      BY <2>1, <2>2, <2>3, OpenInv
  <1>8. QED
    BY <1>4, <1>5, <1>6, <1>7

LEMMA OpenBootstrapInv ==
    ASSUME DeskInv, NEW d \in Desks, NEW w \in Wallets, OpenBootstrap(d, w)
    PROVE  DeskInv'
  <1> DEFINE job == [Idle EXCEPT !.op = "bootstrap", !.step = "first",
                                 !.wallet = w, !.role = "orgadmin"]
  <1>1. Open(d, job)
    BY DEF OpenBootstrap
  <1>2. /\ job \in Job /\ job.op = "bootstrap" /\ job.step = "first"
        /\ job.wallet \in Wallets /\ job.cert = NoCert /\ job.tx = NoTx
    BY DEF Idle, Job, JobSteps, Giving
  <1> HIDE DEF job
  <1>3. JobSound(job)
    BY <1>2 DEF JobSound, Giving
  <1>4. QED
    BY <1>1, <1>2, <1>3, OpenInv

\* What is known of a job in progress.
LEMMA JobIs ==
    ASSUME DeskInv, NEW d \in Desks
    PROVE  /\ DeskType /\ jobs[d] \in Job /\ JobSound(jobs[d])
           /\ jobs[d].cert # NoCert => jobs[d].cert \in Certs
           /\ jobs[d].caller # NoCert => jobs[d].caller \in Certs
           /\ jobs[d].op = "revoke" => Spent(jobs[d].cert)
  BY DEF DeskInv, DeskType, SpentInv, Job

LEMMA CreateBootstrapInv ==
    ASSUME DeskInv, NEW d \in Desks, CreateBootstrap(d)
    PROVE  DeskInv'
  <1>1. /\ DeskType /\ jobs[d] \in Job /\ JobSound(jobs[d]) /\ At(d, "first")
        /\ jobs[d].step = "first" /\ jobs[d].op = "bootstrap" /\ jobs[d].cert = NoCert
        /\ jobs[d].wallet \in Wallets
    BY JobIs DEF CreateBootstrap, At, JobSound
  <1>2. PICK c \in Admins :
            /\ ~ Taken(c)
            /\ identities' = [identities EXCEPT ![c] = "active"]
            /\ \/ /\ Become(d, [jobs[d] EXCEPT !.step = "create", !.caller = c])
                  /\ UNCHANGED lost
               \/ LoseCall /\ Become(d, Idle)
            /\ UNCHANGED << vars, told, swallowed >>
    BY DEF CreateBootstrap
  <1>3. c \in Certs
    BY DEF Admins
  <1>4. NeverBack /\ \A e \in Certs : e # c => (Usable(e)' <=> Usable(e))
    BY <1>1, <1>2, <1>3 DEF DeskType, NeverBack, Taken, Usable
  <1>5. lost' \in Nat /\ (lost' = 0 => UNCHANGED lost) /\ (LoseCall => lost' # 0)
    BY <1>1, <1>2, LoseIs
  <1>6. \A e \in Certs : ~ Minds(d, e)
    BY <1>1 DEF Minds, InCharge, Submits, At
  <1>7. CASE LoseCall /\ Become(d, Idle)
    <2>1. jobs'[d] = Idle /\ jobs' = [jobs EXCEPT ![d] = jobs'[d]]
      BY <1>1, <1>7, BecomeIs
    <2>2. LocalStep(d)
      BY <1>2, <1>4, <1>5, <2>1, IdleIs DEF LocalStep, Giving
    <2>3. LeavesNothing(d)
      BY <1>5, <1>6, <1>7 DEF LeavesNothing, Minds
    <2>4. QED
      BY <2>1, <2>2, <2>3, LocalStepInv, IdleIs
  <1>8. CASE Become(d, [jobs[d] EXCEPT !.step = "create", !.caller = c]) /\ UNCHANGED lost
    <2> DEFINE job == [jobs[d] EXCEPT !.step = "create", !.caller = c]
    <2>1. jobs'[d] = job /\ jobs' = [jobs EXCEPT ![d] = jobs'[d]]
      BY <1>1, <1>8, BecomeIs
    <2>2. /\ job \in Job /\ job.op = "bootstrap" /\ job.step = "create" /\ job.caller = c
          /\ job.cert = NoCert /\ job.wallet \in Wallets
      BY <1>1, <1>3 DEF Job, JobSteps
    <2> HIDE DEF job
    <2>3. JobSound(job)
      BY <1>3, <2>2 DEF JobSound, Giving
    <2>4. LocalStep(d)
      BY <1>2, <1>4, <1>5, <2>1, <2>2 DEF LocalStep
    <2>5. Minds(d, c)'
      BY <2>1, <2>2 DEF Minds, At
    <2>6. LeavesNothing(d)
      BY <1>4, <1>6, <1>8, <2>5 DEF LeavesNothing, Minds
    <2>7. QED
      BY <2>1, <2>3, <2>4, <2>6, LocalStepInv
  <1>9. QED
    BY <1>2, <1>7, <1>8

LEMMA CreateIdentityInv ==
    ASSUME DeskInv, NEW d \in Desks, CreateIdentity(d)
    PROVE  DeskInv'
  <1>1. /\ DeskType /\ jobs[d] \in Job /\ JobSound(jobs[d]) /\ jobs[d].step = "create"
        /\ jobs[d].op \in Giving /\ jobs[d].cert = NoCert
        /\ jobs[d].wallet \in Wallets /\ jobs[d].caller \in Certs
        /\ jobs[d].op = "approve" => jobs[d].target \in TxIds
    BY JobIs DEF CreateIdentity, At, JobSound
  <1>2. PICK c \in Certs :
            /\ Wanted(jobs[d], c)
            /\ identities' = [identities EXCEPT ![c] = "active"]
            /\ Become(d, [jobs[d] EXCEPT !.step = "submit", !.cert = c])
            /\ UNCHANGED << vars, lost, told, swallowed >>
    BY DEF CreateIdentity
  <1>3. ~ Taken(c) /\ CertWallet[c] = jobs[d].wallet /\ CertOrg[c] = CertOrg[jobs[d].caller]
    BY <1>2 DEF Wanted
  <1>4. /\ NeverBack /\ Taken(c)'
        /\ \A e \in Certs : e # c => (Usable(e)' <=> Usable(e))
    BY <1>1, <1>2, <1>3 DEF DeskType, NeverBack, Taken, Usable
  <1> DEFINE job == [jobs[d] EXCEPT !.step = "submit", !.cert = c]
  <1>5. jobs'[d] = job /\ jobs' = [jobs EXCEPT ![d] = jobs'[d]]
    BY <1>1, <1>2, BecomeIs
  <1>6. /\ job \in Job /\ job.op = jobs[d].op /\ job.step = "submit"
        /\ job.caller = jobs[d].caller /\ job.cert = c /\ job.wallet = jobs[d].wallet
        /\ job.target = jobs[d].target
    BY <1>1 DEF Job, JobSteps
  <1> HIDE DEF job
  <1>7. JobSound(jobs[d])'
    BY <1>1, <1>3, <1>4, <1>5, <1>6 DEF JobSound, Giving
  <1>8. LocalStep(d)
    BY <1>1, <1>2, <1>3, <1>4, <1>5, <1>6 DEF LocalStep, DeskType, Giving
  <1>9. \A e \in Certs : /\ ~ InCharge(d, e)
                         /\ Minds(d, e) \/ e = c => Minds(d, e)'
    BY <1>1, <1>5, <1>6 DEF Minds, InCharge, Submits, At
  <1>10. LeavesNothing(d)
    BY <1>2, <1>4, <1>9 DEF LeavesNothing
  <1>11. QED
    BY <1>7, <1>8, <1>10, LocalStepInv

LEMMA CreateUnansweredInv ==
    ASSUME DeskInv, NEW d \in Desks, CreateUnanswered(d)
    PROVE  DeskInv'
  <1>1. /\ DeskType /\ jobs[d] \in Job /\ JobSound(jobs[d]) /\ jobs[d].step = "create"
        /\ jobs[d].op \in Giving /\ jobs[d].cert = NoCert
    BY JobIs DEF CreateUnanswered, At, JobSound
  <1>2. PICK c \in Certs, state \in {"reserved", "active"} :
            /\ Wanted(jobs[d], c)
            /\ LoseCall
            /\ identities' = [identities EXCEPT ![c] = state]
            /\ Become(d, Failed(jobs[d]))
            /\ UNCHANGED << vars, told, swallowed >>
    BY DEF CreateUnanswered
  <1>3. NeverBack
    BY <1>1, <1>2 DEF DeskType, NeverBack, Taken, Usable, Wanted
  <1>4. lost' \in Nat /\ lost' # 0
    BY <1>1, <1>2, LoseIs
  <1>5. jobs'[d] = Failed(jobs[d]) /\ jobs' = [jobs EXCEPT ![d] = jobs'[d]]
    BY <1>1, <1>2, BecomeIs
  <1>6. /\ Failed(jobs[d]) \in Job /\ JobSound(Failed(jobs[d]))
        /\ Failed(jobs[d]).step \in {"idle", "last"} /\ Failed(jobs[d]).cert = NoCert
        /\ Failed(jobs[d]).op # "revoke"
    BY <1>1, FailedIs, DoneIs, IdleIs DEF Giving
  <1>7. LocalStep(d)
    BY <1>2, <1>3, <1>4, <1>5, <1>6 DEF LocalStep
  <1>8. LeavesNothing(d)
    BY <1>1, <1>4 DEF LeavesNothing, InCharge, At
  <1>9. QED
    BY <1>5, <1>6, <1>7, <1>8, LocalStepInv

LEMMA CreateRefusedInv ==
    ASSUME DeskInv, NEW d \in Desks, CreateRefused(d)
    PROVE  DeskInv'
  <1>1. /\ DeskType /\ jobs[d] \in Job /\ JobSound(jobs[d])
        /\ jobs[d].op \in Giving /\ jobs[d].cert = NoCert
        /\ jobs[d].step \in {"first", "create"} /\ (At(d, "first") => jobs[d].op = "bootstrap")
    BY JobIs DEF CreateRefused, At, JobSound
  <1>2. /\ UNCHANGED << vars, identities, told, swallowed >>
        /\ LoseCall \/ UNCHANGED lost
    BY DEF CreateRefused
  <1>3. NeverBack /\ \A e \in Certs : (Usable(e)' <=> Usable(e))
    BY <1>1, <1>2, KeptIs
  <1>4. lost' \in Nat /\ (lost' = 0 => UNCHANGED lost)
    BY <1>1, <1>2, LoseIs
  <1>5. \A e \in Certs : ~ InCharge(d, e)
    BY <1>1 DEF InCharge, At
  <1>6. CASE At(d, "first")
    <2>1. jobs'[d] = Idle /\ jobs' = [jobs EXCEPT ![d] = jobs'[d]]
      BY <1>1, <1>6, BecomeIs DEF CreateRefused
    <2>2. LocalStep(d)
      BY <1>2, <1>3, <1>4, <2>1, IdleIs DEF LocalStep, Giving
    <2>3. \A e \in Certs : ~ Minds(d, e)
      BY <1>1, <1>5, <1>6 DEF Minds, Submits, At
    <2>4. LeavesNothing(d)
      BY <1>3, <1>4, <1>5, <2>3 DEF LeavesNothing
    <2>5. QED
      BY <2>1, <2>2, <2>4, LocalStepInv, IdleIs
  <1>7. CASE ~ At(d, "first")
    <2>1. jobs[d].step = "create"
      BY <1>1, <1>7 DEF At
    <2>2. jobs'[d] = Failed(jobs[d]) /\ jobs' = [jobs EXCEPT ![d] = jobs'[d]]
      BY <1>1, <1>7, BecomeIs DEF CreateRefused
    <2>3. /\ Failed(jobs[d]) \in Job /\ JobSound(Failed(jobs[d]))
          /\ Failed(jobs[d]) = Done(jobs[d])
      BY <1>1, <2>1, FailedIs
    <2>4. /\ Done(jobs[d]).step \in {"idle", "last"} /\ Done(jobs[d]).cert = NoCert
          /\ Done(jobs[d]).op # "revoke"
          /\ jobs[d].op = "bootstrap" => /\ Done(jobs[d]).op = "bootstrap"
                                         /\ Done(jobs[d]).step = "last"
                                         /\ Done(jobs[d]).caller = jobs[d].caller
      BY <1>1, <2>1, DoneIs, IdleIs
    <2>5. LocalStep(d)
      BY <1>2, <1>3, <1>4, <2>2, <2>3, <2>4 DEF LocalStep
    <2>6. \A e \in Certs : Minds(d, e) => Minds(d, e)'
      BY <1>5, <2>1, <2>2, <2>3, <2>4 DEF Minds, Submits, At
    <2>7. LeavesNothing(d)
      BY <1>3, <1>4, <1>5, <2>6 DEF LeavesNothing
    <2>8. QED
      BY <2>2, <2>3, <2>5, <2>7, LocalStepInv
  <1>8. QED
    BY <1>6, <1>7

LEMMA DisableIdentityInv ==
    ASSUME DeskInv, NEW d \in Desks, DisableIdentity(d)
    PROVE  DeskInv'
  <1>1. /\ DeskType /\ jobs[d] \in Job /\ JobSound(jobs[d]) /\ jobs[d].step = "disable"
        /\ jobs[d].op = "revoke" /\ jobs[d].cert \in Certs /\ Spent(jobs[d].cert)
        /\ CertWallet[jobs[d].cert] = jobs[d].wallet
        /\ jobs[d].wallet \in Wallets /\ jobs[d].caller \in Certs
    BY JobIs DEF DisableIdentity, At, JobSound
  <1>2. UNCHANGED << vars, told, swallowed >> /\ (LoseCall \/ UNCHANGED lost)
    BY DEF DisableIdentity
  <1>3. NeverBack
    BY <1>1, DisabledIs, KeptIs DEF DisableIdentity
  <1>4. lost' \in Nat /\ (lost' = 0 => UNCHANGED lost) /\ (LoseCall => lost' # 0)
    BY <1>1, <1>2, LoseIs
  <1>5. \A e \in Certs : ~ InCharge(d, e) /\ ~ Minds(d, e)
    BY <1>1 DEF InCharge, Minds, Submits, At, Giving
  <1>6. LeavesNothing(d)
    <2>1. \A e \in Certs : Usable(e)' => Usable(e)
      BY <1>1 DEF DisableIdentity, Disabled, Usable, DeskType
    <2>2. QED
      BY <1>4, <1>5, <2>1 DEF LeavesNothing
  <1>7. CASE Become(d, Idle)
    <2>1. jobs'[d] = Idle /\ jobs' = [jobs EXCEPT ![d] = jobs'[d]]
      BY <1>1, <1>7, BecomeIs
    <2>2. LocalStep(d)
      BY <1>2, <1>3, <1>4, <2>1, IdleIs DEF LocalStep, Giving
    <2>3. QED
      BY <1>6, <2>1, <2>2, LocalStepInv, IdleIs
  <1>8. CASE Become(d, [jobs[d] EXCEPT !.step = "submit"]) /\ identities' = Disabled(jobs[d].cert)
    <2> DEFINE job == [jobs[d] EXCEPT !.step = "submit"]
    <2>1. jobs'[d] = job /\ jobs' = [jobs EXCEPT ![d] = jobs'[d]]
      BY <1>1, <1>8, BecomeIs
    <2>2. /\ job \in Job /\ job.op = "revoke" /\ job.step = "submit"
          /\ job.caller = jobs[d].caller /\ job.cert = jobs[d].cert
          /\ job.wallet = jobs[d].wallet
      BY <1>1 DEF Job, JobSteps
    <2> HIDE DEF job
    <2>3. ~ Usable(jobs[d].cert)'
      <3>1. \/ identities' = [identities EXCEPT ![jobs[d].cert] = "disabled"]
            \/ identities' = identities /\ identities[jobs[d].cert] # "active"
        BY <1>8 DEF Disabled
      <3>2. jobs'[d].cert = jobs[d].cert
        BY <2>1, <2>2
      <3>3. QED
        BY <1>1, <3>1, <3>2 DEF Usable, DeskType
    <2>4. JobSound(jobs[d])'
      BY <1>1, <2>1, <2>2, <2>3 DEF JobSound, Giving
    <2>5. LocalStep(d)
      BY <1>1, <1>2, <1>3, <1>4, <2>1, <2>2 DEF LocalStep, Giving
    <2>6. QED
      BY <1>6, <2>4, <2>5, LocalStepInv
  <1>9. QED
    BY <1>7, <1>8 DEF DisableIdentity

LEMMA UndoInv ==
    ASSUME DeskInv, NEW d \in Desks, Undo(d)
    PROVE  DeskInv'
  <1> DEFINE c == jobs[d].cert
  <1>1. /\ DeskType /\ jobs[d] \in Job /\ JobSound(jobs[d]) /\ jobs[d].step = "undo"
        /\ jobs[d].op \in Giving /\ c \in Certs
    BY JobIs DEF Undo, At, JobSound
  <1>2. /\ UNCHANGED << vars, told >>
        /\ \/ identities' = Disabled(c) /\ UNCHANGED << lost, swallowed >>
           \/ LoseCall /\ UNCHANGED identities /\ swallowed' = swallowed \cup {c}
    BY DEF Undo
  <1>3. NeverBack /\ \A e \in Certs : Usable(e)' => Usable(e)
    <2>1. NeverBack
      BY <1>1, <1>2, DisabledIs, KeptIs
    <2>2. QED
      BY <1>1, <1>2, <2>1 DEF Disabled, Usable, DeskType
  <1>4. lost' \in Nat /\ (lost' = 0 => UNCHANGED lost) /\ (LoseCall => lost' # 0)
    BY <1>1, <1>2, LoseIs
  <1>5. jobs'[d] = Done(jobs[d]) /\ jobs' = [jobs EXCEPT ![d] = jobs'[d]]
    BY <1>1, BecomeIs DEF Undo
  <1>6. /\ Done(jobs[d]) \in Job /\ JobSound(Done(jobs[d]))
        /\ Done(jobs[d]).step \in {"idle", "last"} /\ Done(jobs[d]).op # "revoke"
        /\ Done(jobs[d]).op \in Giving => Done(jobs[d]).cert = c
        /\ jobs[d].op = "bootstrap" => /\ Done(jobs[d]).op = "bootstrap"
                                       /\ Done(jobs[d]).step = "last"
                                       /\ Done(jobs[d]).caller = jobs[d].caller
    BY <1>1, DoneIs, IdleIs DEF Giving
  <1> HIDE DEF c
  <1>8. LocalStep(d)
    <2>1. c = jobs[d].cert
      BY DEF c
    <2>2. swallowed \subseteq swallowed'
      BY <1>2
    <2>3. QED
      BY <1>1, <1>2, <1>3, <1>4, <1>5, <1>6, <2>1, <2>2 DEF LocalStep
  <1>9. ASSUME NEW e \in Certs, Minds(d, e)
        PROVE  Minds(d, e)' \/ e = c
    BY <1>1, <1>5, <1>6, <1>9 DEF Minds, InCharge, Submits, At, c
  <1>10. \A e \in Certs : InCharge(d, e) => e = c
    BY DEF InCharge, c
  <1>11. ASSUME identities' = Disabled(c), NEW e \in Certs, Usable(e)'
         PROVE  e # c
    <2>1. identities'[c] # "active"
      BY <1>1, <1>11 DEF Disabled, DeskType, c
    <2>2. QED
      BY <1>11, <2>1 DEF Usable
  <1>12. LeavesNothing(d)
    BY <1>2, <1>3, <1>4, <1>9, <1>10, <1>11 DEF LeavesNothing
  <1>13. QED
    BY <1>5, <1>6, <1>8, <1>12, LocalStepInv

LEMMA DisableBootstrapInv ==
    ASSUME DeskInv, NEW d \in Desks, DisableBootstrap(d)
    PROVE  DeskInv'
  <1>1. /\ DeskType /\ jobs[d] \in Job /\ JobSound(jobs[d]) /\ jobs[d].step = "last"
        /\ jobs[d].op = "bootstrap" /\ jobs[d].caller \in Certs
    BY JobIs DEF DisableBootstrap, At, JobSound
  <1>2. /\ UNCHANGED << vars, told, swallowed >>
        /\ \/ identities' = Disabled(jobs[d].caller) /\ UNCHANGED lost
           \/ LoseCall /\ UNCHANGED identities
    BY DEF DisableBootstrap
  <1>3. NeverBack /\ \A e \in Certs : Usable(e)' => Usable(e)
    <2>1. NeverBack
      BY <1>1, <1>2, DisabledIs, KeptIs
    <2>2. QED
      BY <1>1, <1>2, <2>1 DEF Disabled, Usable, DeskType
  <1>4. lost' \in Nat /\ (lost' = 0 => UNCHANGED lost) /\ (LoseCall => lost' # 0)
    BY <1>1, <1>2, LoseIs
  <1>5. jobs'[d] = Idle /\ jobs' = [jobs EXCEPT ![d] = jobs'[d]]
    BY <1>1, BecomeIs DEF DisableBootstrap
  <1>6. LocalStep(d)
    BY <1>2, <1>3, <1>4, <1>5, IdleIs DEF LocalStep, Giving
  <1>7. \A e \in Certs : ~ InCharge(d, e) /\ (Minds(d, e) => e = jobs[d].caller)
    BY <1>1 DEF Minds, InCharge, Submits, At
  <1>8. ASSUME identities' = Disabled(jobs[d].caller), NEW e \in Certs, Usable(e)'
        PROVE  e # jobs[d].caller
    <2>1. identities'[jobs[d].caller] # "active"
      BY <1>1, <1>8 DEF Disabled, DeskType
    <2>2. QED
      BY <1>8, <2>1 DEF Usable
  <1>9. LeavesNothing(d)
    BY <1>2, <1>3, <1>4, <1>7, <1>8 DEF LeavesNothing
  <1>10. QED
    BY <1>5, <1>6, <1>9, LocalStepInv, IdleIs

\* A transaction that was refused, or given up: what was issued is undone.
LEMMA FailInv ==
    ASSUME DeskInv, NEW d \in Desks, At(d, "submit") \/ At(d, "wait"),
           LoseCall \/ UNCHANGED lost, Become(d, Failed(jobs[d])),
           UNCHANGED << vars, identities, told, swallowed >>
    PROVE  DeskInv'
  <1>1. /\ DeskType /\ jobs[d] \in Job /\ JobSound(jobs[d])
        /\ jobs[d].step \in {"submit", "wait"}
        /\ jobs[d].op \in Giving => jobs[d].cert \in Certs
    BY JobIs DEF At, JobSound
  <1>2. NeverBack /\ \A e \in Certs : (Usable(e)' <=> Usable(e))
    BY <1>1, KeptIs
  <1>3. lost' \in Nat /\ (lost' = 0 => UNCHANGED lost)
    BY <1>1, LoseIs
  <1>4. jobs'[d] = Failed(jobs[d]) /\ jobs' = [jobs EXCEPT ![d] = jobs'[d]]
    BY <1>1, BecomeIs
  <1>5. Failed(jobs[d]) \in Job /\ JobSound(Failed(jobs[d]))
    BY <1>1, FailedIs
  <1>6. CASE jobs[d].op \in Giving
    <2>1. jobs[d].cert # NoCert
      BY <1>1, <1>6, NullAssumption
    <2>2. /\ Failed(jobs[d]).step = "undo" /\ Failed(jobs[d]).op = jobs[d].op
          /\ Failed(jobs[d]).cert = jobs[d].cert /\ Failed(jobs[d]).caller = jobs[d].caller
      BY <1>1, <1>6, <2>1, FailedIs
    <2>3. LocalStep(d)
      BY <1>2, <1>3, <1>4, <1>5, <1>6, <2>2 DEF LocalStep, Giving
    <2>4. \A e \in Certs : /\ InCharge(d, e) => InCharge(d, e)'
                           /\ Minds(d, e) => Minds(d, e)'
      BY <1>1, <1>4, <1>6, <2>2 DEF Minds, InCharge, Submits, At
    <2>5. LeavesNothing(d)
      BY <1>2, <1>3, <2>4 DEF LeavesNothing
    <2>6. QED
      BY <1>4, <1>5, <2>3, <2>5, LocalStepInv
  <1>7. CASE jobs[d].op \notin Giving
    <2>1. Failed(jobs[d]) = Idle
      BY <1>1, <1>7, FailedIs, DoneIs DEF Giving
    <2>2. LocalStep(d)
      BY <1>2, <1>3, <1>4, <2>1, IdleIs DEF LocalStep, Giving
    <2>3. \A e \in Certs : ~ InCharge(d, e) /\ ~ Minds(d, e)
      BY <1>7 DEF Minds, InCharge, Submits, Giving
    <2>4. LeavesNothing(d)
      BY <1>2, <1>3, <2>3 DEF LeavesNothing
    <2>5. QED
      BY <1>4, <1>5, <2>2, <2>4, LocalStepInv
  <1>8. QED
    BY <1>6, <1>7

-----------------------------------------------------------------------------
(* The channel *)

\* A sign-up is the call of nobody's job, and grants nothing.
LEMMA SignUpIs ==
    ASSUME TypeOK, SignUp
    PROVE  \E call \in Call : /\ call.id = nextTx /\ call.op \notin Grants
                              /\ FromOwnAgent(call) /\ Propose(call)
  <1>1. Service \in Certs
    BY ServiceAssumption
  <1>2. PICK w \in Wallets : RegisterWallet(w) \/ \E role \in Roles : RequestWalletRole(w, role)
    BY DEF SignUp
  <1>3. nextTx <= MaxTx
    BY <1>2 DEF RegisterWallet, RequestWalletRole, Propose
  <1>4. nextTx \in TxIds
    BY <1>3, MaxTxAssumption DEF TypeOK, TxIds
  <1>5. CASE RegisterWallet(w)
    <2> DEFINE call == CallOf("register", Service, w, "consumer", NoCert, NoTx)
    <2>1. Propose(call)
      BY <1>5 DEF RegisterWallet
    <2>2. call \in Call /\ call.id = nextTx /\ call.op \notin Grants /\ FromOwnAgent(call)
      BY <1>1, <1>4 DEF CallOf, Call, Ops, FromOwnAgent, Grants
    <2>3. QED
      BY <2>1, <2>2
  <1>6. CASE \E role \in Roles : RequestWalletRole(w, role)
    <2>1. PICK role \in Roles : RequestWalletRole(w, role)
      BY <1>6
    <2> DEFINE call == CallOf("request", Service, w, role, NoCert, NoTx)
    <2>2. Propose(call)
      BY <2>1 DEF RequestWalletRole
    <2>3. call \in Call /\ call.id = nextTx /\ call.op \notin Grants /\ FromOwnAgent(call)
      BY <1>1, <1>4 DEF CallOf, Call, Ops, FromOwnAgent, Grants
    <2>4. QED
      BY <2>2, <2>3
  <1>7. QED
    BY <1>2, <1>5, <1>6

\* The transactions under way, with one more.
LEMMA ProposeIs ==
    ASSUME IInv, NEW call \in Call, call.id = nextTx, FromOwnAgent(call), Propose(call)
    PROVE  /\ IInv' /\ ws' = ws /\ nextTx' = nextTx + 1 /\ nextTx \in TxIds
           /\ \A tx \in pool : tx.call.id # nextTx
           /\ \E new : new.call = call /\ pool' = pool \cup {new}
  <1> DEFINE new == [call |-> call, reads |-> ReadSet(ws, call), writes |-> WriteSet(ws, call)]
  <1>1. new.call = call /\ pool' = pool \cup {new} /\ ws' = ws /\ nextTx' = nextTx + 1
    BY DEF Propose
  <1>2. nextTx \in TxIds
    BY MaxTxAssumption DEF Propose, IInv, TypeOK, TxIds
  <1>3. \A tx \in pool : tx.call.id < nextTx /\ tx.call.id \in Nat
    BY MaxTxAssumption DEF IInv, TypeOK, Call, TxIds
  <1>4. \A tx \in pool : tx.call.id # nextTx
    BY <1>2, <1>3, MaxTxAssumption DEF TxIds
  <1>5. QED
    BY <1>1, <1>2, <1>4, ProposeInv

LEMMA SignUpInv ==
    ASSUME DeskInv, SignUp, UNCHANGED deskVars
    PROVE  DeskInv'
  <1>1. IInv /\ TypeOK
    BY DEF DeskInv, IInv
  <1>2. PICK call \in Call : /\ call.id = nextTx /\ call.op \notin Grants
                             /\ FromOwnAgent(call) /\ Propose(call)
    BY <1>1, SignUpIs
  <1>3. /\ IInv' /\ ws' = ws /\ nextTx' = nextTx + 1 /\ nextTx \in TxIds
        /\ \A tx \in pool : tx.call.id # nextTx
    BY <1>1, <1>2, ProposeIs
  <1>4. PICK new : new.call = call /\ pool' = pool \cup {new}
    BY <1>1, <1>2, ProposeIs
  <1>5. /\ identities' = identities /\ jobs' = jobs /\ lost' = lost
        /\ told' = told /\ swallowed' = swallowed
    BY DEF deskVars
  <1>6. \A c : ~ Grant(new, c)
    BY <1>2, <1>4 DEF Grant
  <1>7. DeskType' /\ \A d \in Desks : JobSound(jobs[d])'
    BY <1>5 DEF DeskInv, DeskType, JobSound, Taken, Usable
  <1>8. \A c : /\ Spent(c) <=> Spent(c)'
               /\ Usable(c) <=> Usable(c)'
               /\ (\E tx \in pool : Grant(tx, c)) <=> (\E tx \in pool' : Grant(tx, c))
    BY <1>4, <1>5, <1>6 DEF Spent, Taken, Usable, Submits, At
  <1>9. SpentInv'
    BY <1>3, <1>5, <1>8 DEF DeskInv, SpentInv
  <1>10. OnceInv'
    BY <1>2, <1>4, <1>5, <1>6 DEF DeskInv, OnceInv, Grant, Submits, Taken, At
  <1>11. WaitInv'
    <2>1. SUFFICES ASSUME NEW d \in Desks, At(d, "wait")'
                   PROVE  /\ jobs'[d].tx < nextTx'
                          /\ \A tx \in pool' : tx.call.id = jobs'[d].tx =>
                                 /\ tx.call.op = OpOf(jobs[d])'
                                 /\ tx.call.wallet = jobs'[d].wallet
      BY DEF WaitInv
    <2>2. /\ jobs[d].tx < nextTx
          /\ \A tx \in pool : tx.call.id = jobs[d].tx =>
                 tx.call.op = OpOf(jobs[d]) /\ tx.call.wallet = jobs[d].wallet
      BY <1>5, <2>1 DEF DeskInv, WaitInv, At
    <2>3. jobs[d].tx \in Nat /\ nextTx \in Nat
      BY <1>3, MaxTxAssumption DEF DeskInv, DeskType, Job, TxIds, NoTx
    <2>4. new.call.id # jobs[d].tx /\ jobs[d].tx < nextTx + 1
      BY <1>2, <1>4, <2>2, <2>3
    <2>5. QED
      BY <1>3, <1>4, <1>5, <2>2, <2>4 DEF OpOf
  <1>12. UsableInv'
    BY <1>3, <1>5, <1>8 DEF DeskInv, UsableInv, Reported, InCharge, At
  <1>13. StrayInv'
    BY <1>5, <1>8 DEF DeskInv, StrayInv, Reported, Minds, InCharge, Submits, At
  <1>14. QED
    BY <1>3, <1>7, <1>9, <1>10, <1>11, <1>12, <1>13 DEF DeskInv

LEMMA SubmitInv ==
    ASSUME DeskInv, NEW d \in Desks, Submit(d)
    PROVE  DeskInv'
  <1> DEFINE call == CallOfJob(jobs[d])
  <1>1. /\ IInv /\ DeskType /\ jobs[d] \in Job /\ JobSound(jobs[d]) /\ jobs[d].step = "submit"
        /\ jobs[d].caller \in Certs /\ jobs[d].wallet \in Wallets /\ jobs[d].op # "none"
        /\ jobs[d].op \in {"approve", "reject"} => jobs[d].target \in TxIds
        /\ jobs[d].op \in Giving =>
               /\ jobs[d].cert \in Certs /\ Taken(jobs[d].cert)
               /\ CertWallet[jobs[d].cert] = jobs[d].wallet
               /\ CertOrg[jobs[d].cert] = CertOrg[jobs[d].caller]
    BY JobIs, NullAssumption DEF Submit, At, JobSound, DeskInv
  <1>2. /\ Propose(call) /\ Become(d, [jobs[d] EXCEPT !.step = "wait", !.tx = nextTx])
        /\ UNCHANGED << identities, lost, told, swallowed >>
    BY DEF Submit
  <1>3. nextTx \in TxIds
    BY <1>1, <1>2, MaxTxAssumption DEF Propose, IInv, TypeOK, TxIds
  <1>4. /\ call.op = OpOf(jobs[d]) /\ call.id = nextTx /\ call.caller = jobs[d].caller
        /\ call.wallet = jobs[d].wallet /\ call.role = jobs[d].role
        /\ call.target = jobs[d].target
        /\ call.cert = IF jobs[d].op = "revoke" THEN NoCert ELSE jobs[d].cert
    BY DEF CallOfJob, CallOf, OpOf
  <1>5. call.op \in Grants <=> jobs[d].op \in Giving
    BY <1>1, <1>4 DEF OpOf, Grants, Giving, Job
  <1>6. call \in Call
    <2>1. call = [op |-> call.op, id |-> call.id, caller |-> call.caller,
                  wallet |-> call.wallet, role |-> call.role, cert |-> call.cert,
                  target |-> call.target]
      BY DEF CallOfJob, CallOf
    <2>2. /\ call.op \in Ops /\ call.cert \in Certs \cup {NoCert}
          /\ call.role \in Roles \cup {"consumer", "orgadmin"}
          /\ call.target \in TxIds \cup {NoTx}
          /\ call.op \in {"approve", "reject"} => call.target \in TxIds
          /\ call.op \in {"approve", "grant"} => call.cert \in Certs
      BY <1>1, <1>4, <1>5 DEF Job, OpOf, Ops, Grants, Giving
    <2> HIDE DEF call
    <2>3. QED
      BY <1>1, <1>3, <1>4, <2>1, <2>2 DEF Call
  <1> HIDE DEF call
  <1>7. FromOwnAgent(call)
    BY <1>1, <1>4, <1>5 DEF FromOwnAgent, Giving
  <1>8. /\ IInv' /\ ws' = ws /\ nextTx' = nextTx + 1
        /\ \A tx \in pool : tx.call.id # nextTx
    BY <1>1, <1>2, <1>4, <1>6, <1>7, ProposeIs
  <1>9. PICK new : new.call = call /\ pool' = pool \cup {new}
    BY <1>1, <1>2, <1>4, <1>6, <1>7, ProposeIs
  <1> DEFINE job == [jobs[d] EXCEPT !.step = "wait", !.tx = nextTx]
  <1>10. jobs'[d] = job /\ \A e \in Desks : e # d => jobs'[e] = jobs[e]
    BY <1>1, <1>2 DEF Become, DeskType
  <1>11. /\ job \in Job /\ job.op = jobs[d].op /\ job.step = "wait" /\ job.tx = nextTx
         /\ job.cert = jobs[d].cert /\ job.caller = jobs[d].caller
         /\ job.wallet = jobs[d].wallet /\ job.target = jobs[d].target
    BY <1>1, <1>3 DEF Job, JobSteps
  <1> HIDE DEF job
  <1>12. DeskType'
    BY <1>1, <1>2, <1>11 DEF DeskType, Become, job
  <1>13. \A c : /\ Taken(c)' <=> Taken(c)
                /\ Usable(c)' <=> Usable(c)
                /\ Reported(c)' <=> Reported(c)
    BY <1>2 DEF Taken, Usable, Reported
  <1>14. ASSUME NEW e \in Desks
         PROVE  JobSound(jobs[e])'
    <2>1. CASE e = d
      BY <1>1, <1>10, <1>11, <1>13, <2>1 DEF JobSound, Giving
    <2>2. CASE e # d
      BY <1>10, <1>13, <2>2 DEF DeskInv, JobSound
    <2>3. QED
      BY <2>1, <2>2
  <1>15. \A c : Grant(new, c) => Submits(d, c)
    BY <1>1, <1>4, <1>5, <1>9 DEF Grant, Submits, At, Giving
  <1>16. \A c, e : e \in Desks /\ Submits(e, c)' => e # d /\ Submits(e, c)
    BY <1>10, <1>11 DEF Submits, At
  <1>17. \A c : Spent(c) => Spent(c)'
    <2>1. \A c, tx : Grant(tx, c)' <=> Grant(tx, c)
      BY DEF Grant
    <2>2. QED
      BY <1>9, <1>13, <1>15, <1>16, <2>1 DEF Spent
  <1>18. \A e \in Desks : /\ jobs'[e].op = jobs[e].op /\ jobs'[e].cert = jobs[e].cert
                          /\ jobs'[e].caller = jobs[e].caller
    BY <1>10, <1>11
  <1>19. SpentInv'
    BY <1>2, <1>8, <1>13, <1>17, <1>18 DEF DeskInv, SpentInv
  <1>20. \A c : Submits(d, c) => /\ \A e \in Desks : ~ Submits(e, c)'
                                 /\ \A tx \in pool : ~ Grant(tx, c)
    <2>1. \A c, e : Submits(d, c) /\ e \in Desks /\ Submits(e, c) => e = d
      BY <1>1, NullAssumption DEF Submits, DeskInv, OnceInv
    <2>2. \A c, tx : Submits(d, c) /\ tx \in pool => ~ Grant(tx, c)
      BY DEF DeskInv, OnceInv, Grant
    <2>3. QED
      BY <1>16, <2>1, <2>2
  <1>21. OnceInv'
    <2>1. ASSUME NEW tx \in pool', tx.call.op \in Grants
          PROVE  /\ Taken(tx.call.cert)' /\ CertWallet[tx.call.cert] = tx.call.wallet
                 /\ \A e \in Desks : ~ Submits(e, tx.call.cert)'
                 /\ \A other \in pool' : Grant(other, tx.call.cert) => other = tx
      <3>1. CASE tx = new
        <4>1. Submits(d, tx.call.cert)
          BY <1>15, <2>1, <3>1 DEF Grant
        <4>2. Taken(tx.call.cert)' /\ CertWallet[tx.call.cert] = tx.call.wallet
          BY <1>1, <1>4, <1>5, <1>9, <1>13, <2>1, <3>1, <4>1 DEF Submits
        <4>3. QED
          BY <1>9, <1>20, <3>1, <4>1, <4>2
      <3>2. CASE tx \in pool
        <4>1. /\ Taken(tx.call.cert) /\ CertWallet[tx.call.cert] = tx.call.wallet
              /\ \A e \in Desks : ~ Submits(e, tx.call.cert)
              /\ \A other \in pool : Grant(other, tx.call.cert) => other = tx
          BY <2>1, <3>2 DEF DeskInv, OnceInv
        <4>2. QED
          BY <1>9, <1>13, <1>15, <1>16, <4>1
      <3>3. QED
        BY <1>9, <2>1, <3>1, <3>2
    <2>2. QED
      BY <1>18, <2>1 DEF DeskInv, OnceInv, Grant
  <1>22. WaitInv'
    <2>1. SUFFICES ASSUME NEW e \in Desks, At(e, "wait")'
                   PROVE  /\ jobs'[e].tx < nextTx'
                          /\ \A tx \in pool' : tx.call.id = jobs'[e].tx =>
                                 /\ tx.call.op = OpOf(jobs[e])'
                                 /\ tx.call.wallet = jobs'[e].wallet
      BY DEF WaitInv
    <2>2. nextTx \in Nat
      BY <1>3, MaxTxAssumption DEF TxIds
    <2>3. CASE e = d
      <3>1. OpOf(jobs[d])' = OpOf(jobs[d])
        BY <1>18 DEF OpOf
      <3>2. QED
        BY <1>4, <1>8, <1>9, <1>10, <1>11, <2>2, <2>3, <3>1
    <2>4. CASE e # d
      <3>1. jobs'[e] = jobs[e]
        BY <1>10, <2>4
      <3>2. /\ jobs[e].tx < nextTx
            /\ \A tx \in pool : tx.call.id = jobs[e].tx =>
                   tx.call.op = OpOf(jobs[e]) /\ tx.call.wallet = jobs[e].wallet
        BY <2>1, <3>1 DEF DeskInv, WaitInv, At
      <3>3. jobs[e].tx \in Nat
        BY <1>1, MaxTxAssumption DEF DeskType, Job, TxIds, NoTx
      <3>4. new.call.id # jobs[e].tx /\ jobs[e].tx < nextTx + 1
        BY <1>4, <1>9, <2>2, <3>2, <3>3
      <3>5. QED
        BY <1>8, <1>9, <3>1, <3>2, <3>4 DEF OpOf
    <2>5. QED
      BY <2>3, <2>4
  <1>23. \A c, e : e \in Desks =>
            /\ InCharge(e, c) => InCharge(e, c)'
            /\ Minds(e, c) => Minds(e, c)'
            /\ Submits(d, c) => InCharge(d, c)'
    BY <1>1, <1>10, <1>11 DEF Minds, InCharge, Submits, At
  <1>24. UsableInv'
    <2>1. SUFFICES ASSUME NEW c \in Certs, Usable(c),
                          ws.bound[c] # NoWallet \/ \E tx \in pool' : Grant(tx, c)
                   PROVE  Reported(c) \/ c \in swallowed \/ \E e \in Desks : InCharge(e, c)'
      BY <1>2, <1>8, <1>13 DEF UsableInv, Grant
    <2>2. CASE Grant(new, c)
      BY <1>15, <1>23, <2>2
    <2>3. CASE ~ Grant(new, c)
      <3>1. Reported(c) \/ c \in swallowed \/ \E e \in Desks : InCharge(e, c)
        BY <1>9, <2>1, <2>3 DEF DeskInv, UsableInv
      <3>2. QED
        BY <1>23, <3>1
    <2>4. QED
      BY <2>2, <2>3
  <1>25. StrayInv'
    BY <1>2, <1>13, <1>23 DEF DeskInv, StrayInv
  <1>26. QED
    BY <1>8, <1>12, <1>14, <1>19, <1>21, <1>22, <1>24, <1>25 DEF DeskInv

LEMMA DropTxInv ==
    ASSUME DeskInv, NEW tx \in pool, DropTx(tx)
    PROVE  DeskInv'
  <1>1. IInv /\ DeskType /\ \A d \in Desks : JobSound(jobs[d]) /\ jobs[d] \in Job
    BY DEF DeskInv, DeskType
  <1>2. /\ pool' = pool \ {tx} /\ ws' = ws /\ nextTx' = nextTx
        /\ identities' = identities /\ lost' = lost /\ told' = told
        /\ swallowed' = swallowed
    BY DEF DropTx, Drop
  <1>3. IInv'
    BY <1>1, <1>2, DropInv
  <1>4. ASSUME NEW d \in Desks
        PROVE  \/ jobs'[d] = jobs[d]
               \/ jobs[d].step = "wait" /\ jobs'[d] = Failed(jobs[d])
    BY DEF DropTx, Waiting, At
  <1>5. ASSUME NEW d \in Desks
        PROVE  /\ jobs'[d] \in Job /\ JobSound(jobs'[d])
               /\ jobs'[d] # jobs[d] => jobs'[d].step # "wait" /\ jobs'[d].step # "submit"
               /\ jobs'[d].op # "none" => jobs'[d].op = jobs[d].op /\ jobs'[d].cert = jobs[d].cert
               /\ (jobs[d].op \in Giving /\ jobs'[d] # jobs[d]) =>
                      /\ jobs'[d].step = "undo" /\ jobs'[d].op = jobs[d].op
                      /\ jobs'[d].cert = jobs[d].cert /\ jobs'[d].caller = jobs[d].caller
    <2>1. CASE jobs'[d] = jobs[d]
      BY <1>1, <2>1
    <2>2. CASE jobs[d].step = "wait" /\ jobs'[d] = Failed(jobs[d])
      <3>1. Failed(jobs[d]) \in Job /\ JobSound(Failed(jobs[d]))
        BY <1>1, <2>2, FailedIs
      <3>2. CASE jobs[d].op \in Giving
        <4>1. jobs[d].cert # NoCert
          BY <1>1, <2>2, <3>2, NullAssumption DEF JobSound
        <4>2. QED
          BY <1>1, <2>2, <3>1, <3>2, <4>1, FailedIs
      <3>3. CASE jobs[d].op \notin Giving
        <4>1. Failed(jobs[d]) = Idle
          BY <1>1, <2>2, <3>3, FailedIs, DoneIs DEF Giving
        <4>2. QED
          BY <2>2, <3>1, <3>3, <4>1, IdleIs
      <3>4. QED
        BY <3>2, <3>3
    <2>3. QED
      BY <1>4, <2>1, <2>2
  <1>6. DeskType' /\ \A d \in Desks : JobSound(jobs[d])'
    <2>1. jobs' \in [Desks -> Job]
      BY <1>5 DEF DropTx
    <2>2. QED
      BY <1>1, <1>2, <1>5, <2>1 DEF DeskType, JobSound, Taken, Usable
  <1>7. \A c : /\ Taken(c)' <=> Taken(c)
               /\ Usable(c)' <=> Usable(c)
               /\ Reported(c)' <=> Reported(c)
    BY <1>2 DEF Taken, Usable, Reported
  <1>8. \A d \in Desks : \A c : /\ Submits(d, c)' => Submits(d, c)
                                /\ InCharge(d, c) => InCharge(d, c)'
                                /\ Minds(d, c) => Minds(d, c)'
    BY <1>5 DEF Submits, InCharge, Minds, At, Giving
  <1>9. \A c : Spent(c) => Spent(c)'
    BY <1>2, <1>7, <1>8 DEF Spent, Grant
  <1>10. SpentInv'
    BY <1>2, <1>5, <1>7, <1>9 DEF DeskInv, SpentInv
  <1>11. OnceInv'
    <2>1. \A d, e \in Desks :
              (/\ jobs'[d].op \in Giving /\ jobs'[e].op \in Giving
               /\ jobs'[d].cert = jobs'[e].cert /\ jobs'[d].cert # NoCert) => d = e
      BY <1>5 DEF DeskInv, OnceInv, Giving
    <2>2. QED
      BY <1>2, <1>7, <1>8, <2>1 DEF DeskInv, OnceInv, Grant
  <1>12. WaitInv'
    BY <1>2, <1>5 DEF DeskInv, WaitInv, At, OpOf
  <1>13. UsableInv'
    BY <1>2, <1>7, <1>8 DEF DeskInv, UsableInv, Grant
  <1>14. StrayInv'
    BY <1>2, <1>7, <1>8 DEF DeskInv, StrayInv
  <1>15. QED
    BY <1>3, <1>6, <1>10, <1>11, <1>12, <1>13, <1>14 DEF DeskInv

\* A call that grants nothing leaves the certificate of every wallet alone.
LEMMA AfterCert ==
    ASSUME NEW s \in WalletState, NEW call \in Call, NEW w \in Wallets
    PROVE  LET now == After(s, call).wallet[w]
           IN  \/ call.op \in Grants /\ w = call.wallet /\ now.cert = call.cert
               \/ now.cert = s.wallet[w].cert /\ now.org = s.wallet[w].org
  <1> DEFINE wallet == s.wallet[call.wallet]
             next == [wallet EXCEPT !.version = call.id]
  <1>1. /\ s.wallet \in [Wallets -> Wallet] /\ call.wallet \in Wallets /\ wallet \in Wallet
        /\ call.op \in Ops /\ call.id \in TxIds
    BY DEF WalletState, Call
  <1>2. After(s, call).wallet = [s.wallet EXCEPT ![call.wallet] = WalletAfter(s, call)]
    BY AfterTables
  <1>3. next \in Wallet /\ next.cert = wallet.cert /\ next.org = wallet.org
    BY <1>1 DEF Wallet
  <1> HIDE DEF next
  <1>4. /\ call.op \in Grants => WalletAfter(s, call).cert = call.cert
        /\ call.op \notin Grants => /\ WalletAfter(s, call).cert = next.cert
                                    /\ WalletAfter(s, call).org = next.org
    <2>1. WalletAfter(s, call) =
              CASE call.op = "register" -> [next EXCEPT !.status = "consumer"]
                [] call.op = "request" ->
                       [next EXCEPT !.status = "pending", !.pending = call.id]
                [] call.op \in Grants ->
                       [next EXCEPT !.status = "active", !.role = call.role,
                                    !.org = CertOrg[call.caller], !.cert = call.cert,
                                    !.pending = NoTx]
                [] call.op = "reject" ->
                       [next EXCEPT !.status = "consumer", !.role = "consumer",
                                    !.pending = NoTx]
                [] call.op = "revoke" -> [next EXCEPT !.status = "revoked"]
      BY DEF WalletAfter, next
    <2>2. CASE call.op = "register"
      BY <1>3, <2>1, <2>2 DEF Grants, Wallet
    <2>3. CASE call.op = "request"
      BY <1>3, <2>1, <2>3 DEF Grants, Wallet
    <2>4. CASE call.op \in Grants
      BY <1>3, <2>1, <2>4 DEF Grants, Wallet
    <2>5. CASE call.op = "reject"
      BY <1>3, <2>1, <2>5 DEF Grants, Wallet
    <2>6. CASE call.op = "revoke"
      BY <1>3, <2>1, <2>6 DEF Grants, Wallet
    <2>7. QED
      BY <1>1, <2>2, <2>3, <2>4, <2>5, <2>6 DEF Ops, Grants
  <1>5. QED
    BY <1>1, <1>2, <1>3, <1>4

LEMMA CommitTxInv ==
    ASSUME DeskInv, NEW tx \in pool, CommitTx(tx)
    PROVE  DeskInv'
  <1> DEFINE call == tx.call
  <1>1. IInv /\ DeskType /\ \A d \in Desks : JobSound(jobs[d]) /\ jobs[d] \in Job
    BY DEF DeskInv, DeskType
  <1>2. /\ Commit(tx) /\ pool' = pool \ {tx} /\ nextTx' = nextTx
        /\ identities' = identities /\ lost' = lost /\ swallowed' = swallowed
        /\ told' = told \cup {[op |-> jobs[d].op, cert |-> jobs[d].cert] : d \in Waiting(tx)}
    BY DEF CommitTx, Commit
  <1>3. IInv' /\ call \in Call /\ Allowed(ws, call) /\ ws' = After(ws, call) /\ ws \in WalletState
    BY <1>1, <1>2, CommitInv, CommitApplies DEF IInv, TypeOK
  <1>4. ASSUME NEW d \in Desks
        PROVE  jobs'[d] = IF d \in Waiting(tx) THEN Done(jobs[d]) ELSE jobs[d]
    BY DEF CommitTx
  <1>5. ASSUME NEW d \in Desks
        PROVE  /\ jobs'[d] \in Job /\ JobSound(jobs'[d])
               /\ d \in Waiting(tx) => /\ jobs'[d].step \in {"idle", "last"}
                                       /\ jobs[d].step = "wait" /\ jobs[d].tx = call.id
               /\ jobs'[d].op # "none" => jobs'[d].op = jobs[d].op /\ jobs'[d].cert = jobs[d].cert
               /\ jobs[d].op = "bootstrap" => /\ jobs'[d].op = "bootstrap"
                                              /\ jobs'[d].caller = jobs[d].caller
    <2>1. CASE d \notin Waiting(tx)
      BY <1>1, <1>4, <2>1
    <2>2. CASE d \in Waiting(tx)
      <3>1. jobs[d].step = "wait" /\ jobs[d].tx = call.id
        BY <2>2 DEF Waiting, At
      <3>2. QED
        BY <1>1, <1>4, <2>2, <3>1, DoneIs, IdleIs
    <2>3. QED
      BY <2>1, <2>2
  <1>6. DeskType' /\ \A d \in Desks : JobSound(jobs[d])'
    <2>1. jobs' \in [Desks -> Job]
      BY <1>5 DEF CommitTx
    <2>2. QED
      BY <1>1, <1>2, <1>5, <2>1 DEF DeskType, JobSound, Taken, Usable
  <1>7. \A c : /\ Taken(c)' <=> Taken(c)
               /\ Usable(c)' <=> Usable(c)
               /\ Reported(c) => Reported(c)'
    BY <1>2 DEF Taken, Usable, Reported
  <1>8. \A d \in Desks : \A c : Submits(d, c)' => Submits(d, c)
    BY <1>4, <1>5 DEF Submits, At
  <1>9. \A c : Spent(c) => Spent(c)'
    BY <1>2, <1>7, <1>8 DEF Spent, Grant
  <1>10. call.op \in Grants => Spent(call.cert)'
    BY <1>2, <1>7, <1>8 DEF DeskInv, OnceInv, Spent, Grant
  <1>11. ASSUME NEW w \in Wallets
         PROVE  /\ ws'.wallet[w].org # NoWallet => ws'.wallet[w].cert \in Certs
                /\ ws'.wallet[w].cert \in Certs =>
                       Spent(ws.wallet[w].cert)' /\ CertWallet[ws'.wallet[w].cert] = w
    <2>1. CASE call.op \in Grants /\ w = call.wallet /\ ws'.wallet[w].cert = call.cert
      <3>1. call.cert \in Certs /\ CertWallet[call.cert] = w
        BY <1>3, <2>1 DEF Call, Grants, DeskInv, OnceInv
      <3>2. Spent(ws.wallet[w].cert)'
        BY <1>10, <2>1 DEF Spent, Grant, Submits, At, Taken
      <3>3. QED
        BY <2>1, <3>1, <3>2
    <2>2. CASE ws'.wallet[w].cert = ws.wallet[w].cert /\ ws'.wallet[w].org = ws.wallet[w].org
      <3>1. /\ ws.wallet[w].org # NoWallet => ws.wallet[w].cert \in Certs
            /\ ws.wallet[w].cert \in Certs =>
                   Spent(ws.wallet[w].cert) /\ CertWallet[ws.wallet[w].cert] = w
        BY DEF DeskInv, SpentInv
      <3>2. Spent(ws.wallet[w].cert) => Spent(ws.wallet[w].cert)'
        BY <1>2, <1>7, <1>8, <2>2 DEF Spent, Grant, Taken, Submits, At
      <3>3. QED
        BY <2>2, <3>1, <3>2
    <2>3. QED
      BY <1>3, <2>1, <2>2, AfterCert
  <1>12. \A c \in Certs : /\ ~ Grant(tx, c) => ws'.bound[c] \in {NoWallet, ws.bound[c]}
                          /\ Spent(c) => ~ Grant(tx, c)
    BY <1>3, AfterBindings DEF Grant, Spent
  <1>13. ASSUME NEW d \in Waiting(tx), jobs[d].op = "revoke"
         PROVE  /\ jobs[d].cert \in Certs /\ Spent(jobs[d].cert) /\ ~ Usable(jobs[d].cert)
                /\ ws'.bound[jobs[d].cert] = NoWallet
    <2> DEFINE c == jobs[d].cert
    <2>1. /\ jobs[d].step = "wait" /\ jobs[d].tx = call.id /\ d \in Desks
      BY <1>13 DEF Waiting, At
    <2>2. c \in Certs /\ Spent(c) /\ ~ Usable(c) /\ CertWallet[c] = jobs[d].wallet
      BY <1>1, <1>13, <2>1 DEF JobSound, DeskInv, SpentInv
    <2>3. call.op = "revoke" /\ call.wallet = jobs[d].wallet
      BY <1>13, <2>1 DEF DeskInv, WaitInv, OpOf, At
    <2> HIDE DEF c
    <2>4. ws'.wallet[call.wallet].status = "revoked"
      <3>1. ws.wallet \in [Wallets -> Wallet] /\ call.wallet \in Wallets
        BY <1>3 DEF WalletState, Call
      <3>2. ws'.wallet = [ws.wallet EXCEPT ![call.wallet] = WalletAfter(ws, call)]
        BY <1>3, AfterTables
      <3>3. WalletAfter(ws, call).status = "revoked"
        BY <1>3, <2>3, AfterWallet
      <3>4. QED
        BY <3>1, <3>2, <3>3
    <2>5. \A w \in Wallets : ws'.bound[c] = w =>
              ws'.wallet[w].status = "active" /\ ws'.wallet[w].cert = c
      BY <1>3, <2>2 DEF IInv, Sound, BindingSound
    <2>6. ws'.bound[c] \in Wallets \cup {NoWallet}
      BY <1>3, <2>2 DEF IInv, TypeOK, WalletState
    <2>7. ws'.bound[c] \notin Wallets
      BY <1>11, <2>2, <2>3, <2>4, <2>5
    <2>8. QED
      BY <2>2, <2>6, <2>7 DEF c
  <1>14. SpentInv'
    <2>1. ASSUME NEW done \in told', done.op = "revoke"
          PROVE  /\ done.cert \in Certs /\ Spent(done.cert)
                 /\ ~ Usable(done.cert) /\ ws'.bound[done.cert] = NoWallet
      <3>1. CASE done \in told
        <4>1. /\ done.cert \in Certs /\ Spent(done.cert)
              /\ ~ Usable(done.cert) /\ ws.bound[done.cert] = NoWallet
          BY <2>1, <3>1 DEF DeskInv, SpentInv
        <4>2. QED
          BY <1>12, <4>1
      <3>2. CASE done \notin told
        <4>1. PICK d \in Waiting(tx) : done = [op |-> jobs[d].op, cert |-> jobs[d].cert]
          BY <1>2, <3>2
        <4>2. QED
          BY <1>13, <2>1, <4>1
      <3>3. QED
        BY <3>1, <3>2
    <2>2. \A d \in Desks : jobs'[d].op = "revoke" => Spent(jobs'[d].cert)
      BY <1>5 DEF DeskInv, SpentInv
    <2>3. QED
      BY <1>7, <1>9, <1>11, <2>1, <2>2 DEF SpentInv
  <1>15. OnceInv'
    <2>1. \A d, e \in Desks :
              (/\ jobs'[d].op \in Giving /\ jobs'[e].op \in Giving
               /\ jobs'[d].cert = jobs'[e].cert /\ jobs'[d].cert # NoCert) => d = e
      BY <1>5 DEF DeskInv, OnceInv, Giving
    <2>2. QED
      BY <1>2, <1>7, <1>8, <2>1 DEF DeskInv, OnceInv, Grant
  <1>16. WaitInv'
    BY <1>2, <1>4, <1>5 DEF DeskInv, WaitInv, At, OpOf
  <1>17. ASSUME NEW d \in Desks, NEW c \in Certs, InCharge(d, c)
         PROVE  InCharge(d, c)' \/ (CertWallet[c] # NoWallet /\ Reported(c)')
    <2>1. CASE d \in Waiting(tx)
      <3>1. [op |-> jobs[d].op, cert |-> jobs[d].cert] \in told'
        BY <1>2, <2>1
      <3>2. Reported(c)'
        <4>1. jobs[d].cert = c /\ jobs[d].op # "revoke"
          BY <1>17 DEF InCharge, Giving
        <4>2. QED
          BY <3>1, <4>1 DEF Reported
      <3>3. CertWallet[c] = jobs[d].wallet /\ jobs[d].wallet \in Wallets
        BY <1>1, <1>5, <1>17, <2>1, NullAssumption DEF JobSound, InCharge
      <3>4. QED
        BY <3>2, <3>3, NullAssumption
    <2>2. CASE d \notin Waiting(tx)
      BY <1>4, <1>17, <2>2 DEF InCharge, At
    <2>3. QED
      BY <2>1, <2>2
  <1>18. UsableInv'
    <2>1. SUFFICES ASSUME NEW c \in Certs, Usable(c),
                          ws'.bound[c] # NoWallet \/ \E other \in pool' : Grant(other, c)
                   PROVE  Reported(c)' \/ c \in swallowed \/ \E e \in Desks : InCharge(e, c)'
      BY <1>2, <1>7 DEF UsableInv, Grant
    <2>2. ws.bound[c] # NoWallet \/ \E other \in pool : Grant(other, c)
      BY <1>2, <1>12, <2>1
    <2>3. Reported(c) \/ c \in swallowed \/ \E e \in Desks : InCharge(e, c)
      BY <2>1, <2>2 DEF DeskInv, UsableInv
    <2>4. QED
      BY <1>7, <1>17, <2>3
  <1>19. StrayInv'
    <2>1. SUFFICES ASSUME NEW c \in Certs, lost = 0, Usable(c)
                   PROVE  \/ CertWallet[c] # NoWallet /\ Reported(c)'
                          \/ \E d \in Desks : Minds(d, c)'
      BY <1>2, <1>7 DEF StrayInv
    <2>2. \/ CertWallet[c] # NoWallet /\ Reported(c)
          \/ \E d \in Desks : Minds(d, c)
      BY <2>1 DEF DeskInv, StrayInv
    <2>3. ASSUME NEW d \in Desks, Minds(d, c)
          PROVE  Minds(d, c)' \/ (CertWallet[c] # NoWallet /\ Reported(c)')
      <3>1. CASE InCharge(d, c)
        BY <1>17, <3>1 DEF Minds
      <3>2. CASE Submits(d, c)
        BY <1>4, <1>5, <3>2 DEF Minds, Submits, At
      <3>3. CASE jobs[d].op = "bootstrap" /\ jobs[d].caller = c /\ ~ At(d, "first")
        BY <1>4, <1>5, <3>3 DEF Minds, At
      <3>4. QED
        BY <2>3, <3>1, <3>2, <3>3 DEF Minds
    <2>4. QED
      BY <1>7, <2>2, <2>3
  <1>20. QED
    BY <1>3, <1>6, <1>14, <1>15, <1>16, <1>18, <1>19 DEF DeskInv

LEMMA DeskInitInv == DeskInit => DeskInv
  <1>1. SUFFICES ASSUME DeskInit PROVE DeskInv
    OBVIOUS
  <1> DEFINE first == [w \in Wallets |-> IF w \in Registered
                                         THEN [NewWallet EXCEPT !.status = "consumer"]
                                         ELSE NewWallet]
  <1>2. /\ ws = [EmptyRegistry EXCEPT !.wallet = first]
        /\ pool = {} /\ nextTx = 1 /\ identities = [c \in Certs |-> "none"]
        /\ jobs = [d \in Desks |-> Idle] /\ lost = 0 /\ told = {}
    BY <1>1 DEF DeskInit
  <1>3. /\ first \in [Wallets -> Wallet]
        /\ \A w \in Wallets : /\ first[w].status \in {"new", "consumer"}
                              /\ first[w].cert = NoCert /\ first[w].org = NoWallet
    BY DEF NewWallet, Wallet
  <1> HIDE DEF first
  <1>4. /\ ws.wallet = first
        /\ ws.request = [i \in TxIds |-> NoRequest]
        /\ ws.bound = [c \in Certs |-> NoWallet]
        /\ ws \in WalletState
    <2>1. ws = [wallet |-> first, request |-> [i \in TxIds |-> NoRequest],
                bound |-> [c \in Certs |-> NoWallet]]
      BY <1>2 DEF EmptyRegistry
    <2>2. QED
      BY <1>3, <2>1 DEF WalletState
  <1>5. IInv
    <2>1. TypeOK
      BY <1>2, <1>4, MaxTxAssumption DEF TypeOK
    <2>2. PendingSound(ws)
      BY <1>3, <1>4 DEF PendingSound, PendingOf
    <2>3. BindingSound(ws) /\ OrgSound(ws)
      BY <1>3, <1>4, NullAssumption DEF BindingSound, OrgSound
    <2>4. FreshInv /\ PoolInv
      BY <1>2, <1>4 DEF FreshInv, PoolInv
    <2>5. QED
      BY <2>1, <2>2, <2>3, <2>4 DEF IInv, Sound
  <1>6. DeskType /\ \A d \in Desks : JobSound(jobs[d])
    BY <1>2, IdleIs DEF DeskType
  <1>7. SpentInv /\ OnceInv
    BY <1>2, <1>3, <1>4, IdleIs, NullAssumption DEF SpentInv, OnceInv, Giving
  <1>8. WaitInv
    BY <1>2, IdleIs DEF WaitInv, At
  <1>9. UsableInv /\ StrayInv
    BY <1>2 DEF UsableInv, StrayInv, Usable
  <1>10. QED
    BY <1>5, <1>6, <1>7, <1>8, <1>9 DEF DeskInv

LEMMA DeskStutter ==
    ASSUME DeskInv, UNCHANGED allVars
    PROVE  DeskInv'
  <1>1. IInv'
    BY DropInv DEF DeskInv, allVars, vars
  <1>2. /\ ws' = ws /\ pool' = pool /\ nextTx' = nextTx /\ identities' = identities
        /\ jobs' = jobs /\ lost' = lost /\ told' = told /\ swallowed' = swallowed
    BY DEF allVars, vars, deskVars
  <1>3. DeskType' /\ \A d \in Desks : JobSound(jobs[d])'
    BY <1>2 DEF DeskInv, DeskType, JobSound, Taken, Usable
  <1>4. SpentInv' /\ OnceInv'
    BY <1>2 DEF DeskInv, SpentInv, OnceInv, Spent, Taken, Usable, Grant, Submits, At
  <1>5. WaitInv' /\ UsableInv' /\ StrayInv'
    BY <1>2 DEF DeskInv, WaitInv, UsableInv, StrayInv, Usable, Reported, InCharge,
       Minds, Grant, Submits, At, OpOf
  <1>6. QED
    BY <1>1, <1>3, <1>4, <1>5 DEF DeskInv

(* Whatever calls are lost, and however decisions and their clean-up overlap  *)
(* with the commits, identities and jobs stay as DeskInv says.               *)
THEOREM DeskInvariance == DeskSpec => []DeskInv
  <1>1. DeskInv /\ [DeskNext]_allVars => DeskInv'
    <2>1. SUFFICES ASSUME DeskInv, [DeskNext]_allVars PROVE DeskInv'
      OBVIOUS
    <2>2. CASE SignUp /\ UNCHANGED deskVars
      BY <2>1, <2>2, SignUpInv
    <2>3. ASSUME NEW d \in Desks, NEW admin \in SignedInAdmins,
                 \/ \E i \in TxIds : OpenApproval(d, admin, i) \/ OpenRejection(d, admin, i)
                 \/ \E w \in Wallets : \/ OpenRevocation(d, admin, w)
                                       \/ \E role \in Roles : OpenGrant(d, admin, w, role)
          PROVE  DeskInv'
      BY <2>1, <2>3, OpensInv
    <2>4. ASSUME NEW d \in Desks,
                 \/ \E w \in Wallets : OpenBootstrap(d, w)
                 \/ CreateBootstrap(d) \/ CreateIdentity(d) \/ CreateUnanswered(d)
                 \/ CreateRefused(d) \/ DisableIdentity(d) \/ Undo(d) \/ DisableBootstrap(d)
                 \/ Submit(d)
          PROVE  DeskInv'
      BY <2>1, <2>4, OpenBootstrapInv, CreateBootstrapInv, CreateIdentityInv,
         CreateUnansweredInv, CreateRefusedInv, DisableIdentityInv, UndoInv,
         DisableBootstrapInv, SubmitInv
    <2>5. ASSUME NEW d \in Desks, SubmitRefused(d) \/ GiveUp(d)
          PROVE  DeskInv'
      BY <2>1, <2>5, FailInv DEF SubmitRefused, GiveUp
    <2>6. ASSUME NEW tx \in pool, CommitTx(tx) \/ DropTx(tx)
          PROVE  DeskInv'
      BY <2>1, <2>6, CommitTxInv, DropTxInv
    <2>7. CASE UNCHANGED allVars
      BY <2>1, <2>7, DeskStutter
    <2>8. QED
      BY <2>1, <2>2, <2>3, <2>4, <2>5, <2>6, <2>7 DEF DeskNext
  <1>2. QED
    BY DeskInitInv, <1>1, PTL DEF DeskSpec

(* An identity whose revocation was reported as done can neither sign nor    *)
(* act on the ledger, and never will again.                                 *)
THEOREM RevocationsLast == DeskSpec => []RevokedForGood
  <1>1. DeskInv => RevokedForGood
    BY DEF DeskInv, SpentInv, RevokedForGood
  <1>2. QED
    BY DeskInvariance, <1>1, PTL

(* A role that can be exercised was reported as given, or is being decided    *)
(* on, unless the clean-up of the decision was lost too.                     *)
THEOREM RolesWereConfirmed == DeskSpec => []UsableWasConfirmed
  <1>1. ASSUME DeskInv, NEW c \in Certs, ws.bound[c] # NoWallet, Usable(c)
        PROVE  Reported(c) \/ c \in swallowed \/ WorkedOn(c)
    <2>1. Reported(c) \/ c \in swallowed \/ \E d \in Desks : InCharge(d, c)
      BY <1>1 DEF DeskInv, UsableInv
    <2>2. QED
      BY <2>1 DEF InCharge, WorkedOn
  <1>2. DeskInv => UsableWasConfirmed
    BY <1>1 DEF UsableWasConfirmed, Reported
  <1>3. QED
    BY DeskInvariance, <1>2, PTL

(* Without lost calls no decision that fails leaves an identity behind. *)
THEOREM NothingIsLeftBehind == DeskSpec => []NoStrayIdentity
  <1>1. ASSUME DeskInv, NEW c \in Certs, lost = 0, Usable(c), ~ WorkedOn(c)
        PROVE  CertWallet[c] # NoWallet /\ Reported(c)
    <2>1. \A d \in Desks : ~ Minds(d, c)
      BY <1>1 DEF Minds, InCharge, Submits, WorkedOn
    <2>2. QED
      BY <1>1, <2>1 DEF DeskInv, StrayInv
  <1>2. DeskInv => NoStrayIdentity
    BY <1>1 DEF NoStrayIdentity, Reported
  <1>3. QED
    BY DeskInvariance, <1>2, PTL
-----------------------------------------------------------------------------
(* Desks and the rules of administrators *)

\* What a job asks for is what an administrator may ask for: it is about the
\* request it names, and the identity it made has the role that is given.
AskedSound(s, job) ==
    /\ job.step \notin {"idle", "first"} => job.caller \in Admins
    /\ job.step \in {"create", "submit"} /\ job.op \in {"approve", "reject"} =>
           /\ s.request[job.target] # NoRequest
           /\ s.request[job.target].wallet = job.wallet
           /\ job.op = "approve" => s.request[job.target].role = job.role
    /\ job.op \notin {"approve", "reject"} => job.target = NoTx
    /\ job.op \in {"reject", "revoke"} => job.role = "consumer"
    /\ job.op = "grant" => job.role \in Roles
    /\ job.op = "bootstrap" => job.role = "orgadmin"
    /\ job.op \in Giving /\ job.cert # NoCert => CertRole[job.cert] = job.role

AskedInv == \A d \in Desks : AskedSound(ws, jobs[d])

\* Requests are decided, but never withdrawn or altered.
RequestsKept ==
    \A i \in TxIds : ws.request[i] # NoRequest =>
        /\ ws'.request[i] # NoRequest
        /\ ws'.request[i].wallet = ws.request[i].wallet
        /\ ws'.request[i].role = ws.request[i].role

(* A job that ends, is undone, or goes on to wait asks for nothing else.      *)
LEMMA AsksNoMore ==
    ASSUME NEW s, NEW job \in Job, AskedSound(s, job), NEW next,
           \/ next = Idle
           \/ /\ job.step \notin {"idle", "first"}
              /\ \E step \in {"last", "undo", "wait"} : \E tx :
                     next = [job EXCEPT !.step = step, !.tx = tx]
    PROVE  AskedSound(s, next)
  <1>1. CASE next = Idle
    BY <1>1 DEF Idle, AskedSound, Giving
  <1>2. ASSUME job.step \notin {"idle", "first"}, NEW step \in {"last", "undo", "wait"}, NEW tx,
               next = [job EXCEPT !.step = step, !.tx = tx]
        PROVE  AskedSound(s, next)
    <2>1. /\ next.step = step /\ next.op = job.op /\ next.caller = job.caller
          /\ next.role = job.role /\ next.target = job.target /\ next.cert = job.cert
      BY <1>2 DEF Job
    <2>2. QED
      BY <1>2, <2>1 DEF AskedSound
  <1>3. QED
    BY <1>1, <1>2

LEMMA DoneAsks ==
    ASSUME NEW s, NEW job \in Job, AskedSound(s, job), job.step \notin {"idle", "first"}
    PROVE  AskedSound(s, Done(job)) /\ AskedSound(s, Failed(job))
  <1>1. \/ Done(job) = Idle
        \/ \E step \in {"last", "undo", "wait"} : \E tx :
               Done(job) = [job EXCEPT !.step = step, !.tx = tx]
    BY DEF Done
  <1>2. \/ Failed(job) = Idle
        \/ \E step \in {"last", "undo", "wait"} : \E tx :
               Failed(job) = [job EXCEPT !.step = step, !.tx = tx]
    BY <1>1 DEF Failed
  <1>3. QED
    BY <1>1, <1>2, AsksNoMore

(* One desk changes its job while the requests are as they were.             *)
LEMMA DeskAsks ==
    ASSUME DeskType, AskedInv, NEW d \in Desks, NEW job, Become(d, job),
           ws' = ws, AskedSound(ws, job)
    PROVE  AskedInv'
  <1>1. /\ jobs'[d] = job
        /\ \A e \in Desks : e # d => jobs'[e] = jobs[e]
    BY DEF DeskType, Become
  <1>2. QED
    BY <1>1 DEF AskedInv

LEMMA OpensAsk ==
    ASSUME DeskInv, AskedInv, NEW d \in Desks, NEW admin \in SignedInAdmins,
           \/ \E i \in TxIds : OpenApproval(d, admin, i) \/ OpenRejection(d, admin, i)
           \/ \E w \in Wallets : \/ OpenRevocation(d, admin, w)
                                 \/ \E role \in Roles : OpenGrant(d, admin, w, role)
    PROVE  AskedInv'
  <1>1. admin \in Admins /\ DeskType
    BY DEF SignedInAdmins, DeskInv
  <1>2. \A job : Open(d, job) => Become(d, job) /\ ws' = ws
    BY DEF Open, vars
  <1>3. ASSUME NEW i \in TxIds, OpenApproval(d, admin, i)
        PROVE  AskedInv'
    <2> DEFINE job == [Idle EXCEPT !.op = "approve", !.step = "create", !.caller = admin,
                                   !.wallet = ws.request[i].wallet,
                                   !.role = ws.request[i].role, !.target = i]
    <2>1. Open(d, job) /\ ws.request[i] # NoRequest
      BY <1>3 DEF OpenApproval
    <2>2. AskedSound(ws, job)
      BY <1>1, <2>1 DEF Idle, AskedSound, Giving
    <2> HIDE DEF job
    <2>3. QED
      BY <1>1, <1>2, <2>1, <2>2, DeskAsks
  <1>4. ASSUME NEW i \in TxIds, OpenRejection(d, admin, i)
        PROVE  AskedInv'
    <2> DEFINE job == [Idle EXCEPT !.op = "reject", !.step = "submit", !.caller = admin,
                                   !.wallet = ws.request[i].wallet, !.target = i]
    <2>1. Open(d, job) /\ ws.request[i] # NoRequest
      BY <1>4 DEF OpenRejection
    <2>2. AskedSound(ws, job)
      BY <1>1, <2>1 DEF Idle, AskedSound, Giving
    <2> HIDE DEF job
    <2>3. QED
      BY <1>1, <1>2, <2>1, <2>2, DeskAsks
  <1>5. ASSUME NEW w \in Wallets, OpenRevocation(d, admin, w)
        PROVE  AskedInv'
    <2> DEFINE job == [Idle EXCEPT !.op = "revoke", !.step = "disable", !.caller = admin,
                                   !.wallet = w, !.cert = ws.wallet[w].cert]
    <2>1. Open(d, job)
      BY <1>5 DEF OpenRevocation
    <2>2. AskedSound(ws, job)
      BY <1>1 DEF Idle, AskedSound, Giving
    <2> HIDE DEF job
    <2>3. QED
      BY <1>1, <1>2, <2>1, <2>2, DeskAsks
  <1>6. ASSUME NEW w \in Wallets, NEW role \in Roles, OpenGrant(d, admin, w, role)
        PROVE  AskedInv'
    <2> DEFINE job == [Idle EXCEPT !.op = "grant", !.step = "create", !.caller = admin,
                                   !.wallet = w, !.role = role]
    <2>1. Open(d, job)
      BY <1>6 DEF OpenGrant
    <2>2. AskedSound(ws, job)
      BY <1>1 DEF Idle, AskedSound, Giving
    <2> HIDE DEF job
    <2>3. QED
      BY <1>1, <1>2, <2>1, <2>2, DeskAsks
  <1>7. QED
    BY <1>3, <1>4, <1>5, <1>6

LEMMA CreatesAsk ==
    ASSUME DeskInv, AskedInv, NEW d \in Desks,
           \/ \E w \in Wallets : OpenBootstrap(d, w)
           \/ CreateBootstrap(d) \/ CreateIdentity(d)
    PROVE  AskedInv'
  <1>1. DeskType /\ jobs[d] \in Job /\ JobSound(jobs[d]) /\ AskedSound(ws, jobs[d])
    BY JobIs DEF AskedInv
  <1>2. ASSUME NEW w \in Wallets, OpenBootstrap(d, w)
        PROVE  AskedInv'
    <2> DEFINE job == [Idle EXCEPT !.op = "bootstrap", !.step = "first",
                                   !.wallet = w, !.role = "orgadmin"]
    <2>1. Become(d, job) /\ ws' = ws
      BY <1>2 DEF OpenBootstrap, Open, vars
    <2>2. AskedSound(ws, job)
      BY DEF Idle, AskedSound, Giving
    <2> HIDE DEF job
    <2>3. QED
      BY <1>1, <2>1, <2>2, DeskAsks
  <1>3. CASE CreateBootstrap(d)
    <2>1. PICK c \in Admins :
              /\ \/ Become(d, [jobs[d] EXCEPT !.step = "create", !.caller = c])
                 \/ Become(d, Idle)
              /\ ws' = ws /\ jobs[d].step = "first"
      BY <1>3 DEF CreateBootstrap, At, vars
    <2> DEFINE job == [jobs[d] EXCEPT !.step = "create", !.caller = c]
    <2>2. jobs[d].op = "bootstrap" /\ jobs[d].cert = NoCert
      BY <1>1, <2>1 DEF JobSound
    <2>3. /\ job.op = jobs[d].op /\ job.caller = c /\ job.role = jobs[d].role
          /\ job.target = jobs[d].target /\ job.cert = NoCert
      BY <1>1, <2>2 DEF Job
    <2> HIDE DEF job
    <2>4. AskedSound(ws, job)
      BY <1>1, <2>2, <2>3 DEF AskedSound
    <2>5. QED
      BY <1>1, <2>1, <2>4, DeskAsks, AsksNoMore DEF job
  <1>4. CASE CreateIdentity(d)
    <2>1. PICK c \in Certs :
              /\ Wanted(jobs[d], c)
              /\ Become(d, [jobs[d] EXCEPT !.step = "submit", !.cert = c])
              /\ ws' = ws /\ jobs[d].step = "create"
      BY <1>4 DEF CreateIdentity, At, vars
    <2> DEFINE job == [jobs[d] EXCEPT !.step = "submit", !.cert = c]
    <2>2. /\ job.op = jobs[d].op /\ job.caller = jobs[d].caller /\ job.role = jobs[d].role
          /\ job.target = jobs[d].target /\ job.cert = c /\ job.step = "submit"
          /\ job.wallet = jobs[d].wallet /\ CertRole[c] = jobs[d].role
      BY <1>1, <2>1 DEF Job, Wanted
    <2>3. Become(d, job)
      BY <2>1
    <2> HIDE DEF job
    <2>4. AskedSound(ws, job)
      BY <1>1, <2>1, <2>2 DEF AskedSound
    <2>5. QED
      BY <1>1, <2>1, <2>3, <2>4, DeskAsks
  <1>5. QED
    BY <1>2, <1>3, <1>4

LEMMA GoesOnAsks ==
    ASSUME DeskInv, AskedInv, NEW d \in Desks,
           \/ CreateUnanswered(d) \/ CreateRefused(d) \/ DisableIdentity(d) \/ Undo(d)
           \/ DisableBootstrap(d) \/ Submit(d) \/ SubmitRefused(d) \/ GiveUp(d)
    PROVE  AskedInv'
  <1>1. DeskType /\ jobs[d] \in Job /\ JobSound(jobs[d]) /\ AskedSound(ws, jobs[d])
    BY JobIs DEF AskedInv
  <1>2. ws' = ws
    BY DEF CreateUnanswered, CreateRefused, DisableIdentity, Undo, DisableBootstrap, Submit,
           SubmitRefused, GiveUp, Propose, vars
  <1>3. AskedSound(ws, Idle)
    BY <1>1, AsksNoMore
  <1>4. CASE CreateUnanswered(d) \/ CreateRefused(d) \/ SubmitRefused(d) \/ GiveUp(d)
    <2>1. \/ Become(d, Idle)
          \/ Become(d, Failed(jobs[d])) /\ jobs[d].step \notin {"idle", "first"}
      BY <1>4 DEF CreateUnanswered, CreateRefused, SubmitRefused, GiveUp, At
    <2>2. QED
      BY <1>1, <1>2, <1>3, <2>1, DoneAsks, DeskAsks
  <1>5. CASE Undo(d) \/ DisableBootstrap(d)
    <2>1. \/ Become(d, Idle)
          \/ Become(d, Done(jobs[d])) /\ jobs[d].step \notin {"idle", "first"}
      BY <1>5 DEF Undo, DisableBootstrap, At
    <2>2. QED
      BY <1>1, <1>2, <1>3, <2>1, DoneAsks, DeskAsks
  <1>6. CASE Submit(d)
    <2> DEFINE job == [jobs[d] EXCEPT !.step = "wait", !.tx = nextTx]
    <2>1. Become(d, job) /\ jobs[d].step = "submit"
      BY <1>6 DEF Submit, At
    <2>2. AskedSound(ws, job)
      BY <1>1, <2>1, AsksNoMore
    <2> HIDE DEF job
    <2>3. QED
      BY <1>1, <1>2, <2>1, <2>2, DeskAsks
  <1>7. CASE DisableIdentity(d)
    <2> DEFINE job == [jobs[d] EXCEPT !.step = "submit"]
    <2>1. jobs[d].step = "disable" /\ (Become(d, Idle) \/ Become(d, job))
      BY <1>7 DEF DisableIdentity, At
    <2>2. jobs[d].op = "revoke"
      BY <1>1, <2>1 DEF JobSound
    <2>3. /\ job.op = jobs[d].op /\ job.caller = jobs[d].caller /\ job.role = jobs[d].role
          /\ job.target = jobs[d].target /\ job.step = "submit"
      BY <1>1 DEF Job
    <2> HIDE DEF job
    <2>4. AskedSound(ws, job)
      BY <1>1, <2>1, <2>2, <2>3 DEF AskedSound, Giving
    <2>5. QED
      BY <1>1, <1>2, <1>3, <2>1, <2>4, DeskAsks
  <1>8. QED
    BY <1>4, <1>5, <1>6, <1>7

(* A commit leaves every request the wallet and the role it was filed for.   *)
LEMMA CommitKeepsRequests ==
    ASSUME IInv, NEW tx \in pool, Commit(tx)
    PROVE  RequestsKept
  <1> DEFINE call == tx.call
  <1>1. /\ call \in Call /\ ws \in WalletState /\ Allowed(ws, call)
        /\ ws.request[call.id] = NoRequest /\ ws' = After(ws, call)
    BY CommitApplies DEF IInv, TypeOK
  <1> HIDE DEF call
  <1>2. SUFFICES ASSUME NEW i \in TxIds, ws.request[i] # NoRequest
                 PROVE  /\ ws'.request[i] # NoRequest
                        /\ ws'.request[i].wallet = ws.request[i].wallet
                        /\ ws'.request[i].role = ws.request[i].role
    BY DEF RequestsKept
  <1>3. ws.request[i] \in Request
    BY <1>1, <1>2 DEF WalletState
  <1>4. ASSUME NEW status \in {"approved", "superseded", "rejected"}
        PROVE  /\ Decided(ws, i, status, call) \in Request
               /\ Decided(ws, i, status, call).wallet = ws.request[i].wallet
               /\ Decided(ws, i, status, call).role = ws.request[i].role
    BY <1>1, <1>3 DEF Decided, Request, Call
  <1>5. \/ ws'.request[i] = ws.request[i]
        \/ \E status \in {"approved", "superseded", "rejected"} :
               ws'.request[i] = Decided(ws, i, status, call)
    <2>1. CASE call.op \in {"register", "revoke"}
      BY <1>1, <2>1, AfterRequests
    <2>2. CASE call.op = "request"
      BY <1>1, <1>2, <2>2, AfterRequests
    <2>3. CASE call.op \in Grants
      <3>1. IF i \in PendingOf(ws, call.wallet)
            THEN \E status \in {"approved", "superseded"} :
                     After(ws, call).request[i] = Decided(ws, i, status, call)
            ELSE After(ws, call).request[i] = ws.request[i]
        BY <1>1, <2>3, AfterRequests
      <3>2. QED
        BY <1>1, <3>1
    <2>4. CASE call.op = "reject"
      BY <1>1, <2>4, AfterRequests
    <2>5. QED
      BY <1>1, <2>1, <2>2, <2>3, <2>4 DEF Call, Ops, Grants
  <1>6. QED
    BY <1>2, <1>3, <1>4, <1>5, NoRequestAssumption

LEMMA ChannelAsks ==
    ASSUME DeskInv, AskedInv,
           \/ SignUp /\ UNCHANGED deskVars
           \/ \E tx \in pool : CommitTx(tx) \/ DropTx(tx)
           \/ UNCHANGED allVars
    PROVE  AskedInv'
  <1>1. RequestsKept
    BY CommitKeepsRequests
    DEF DeskInv, CommitTx, DropTx, Drop, SignUp, RegisterWallet, RequestWalletRole, Propose,
        RequestsKept, allVars, vars
  <1>2. ASSUME NEW d \in Desks
        PROVE  AskedSound(ws, jobs'[d])
    <2>1. jobs[d] \in Job /\ JobSound(jobs[d]) /\ AskedSound(ws, jobs[d])
      BY JobIs DEF AskedInv
    <2>2. \/ jobs'[d] = jobs[d]
          \/ jobs[d].step = "wait" /\ jobs'[d] \in {Done(jobs[d]), Failed(jobs[d])}
      BY DEF CommitTx, DropTx, Waiting, At, allVars, deskVars
    <2>3. QED
      BY <2>1, <2>2, DoneAsks
  <1>3. \A d \in Desks : JobSound(jobs[d])' /\ jobs'[d] \in Job
    <2>1. DeskInv'
      BY SignUpInv, CommitTxInv, DropTxInv, DeskStutter
    <2>2. QED
      BY <2>1 DEF DeskInv, DeskType
  <1>4. \A d \in Desks : jobs'[d].op \in {"approve", "reject"} => jobs'[d].target \in TxIds
    BY <1>3 DEF JobSound
  <1>5. QED
    BY <1>1, <1>2, <1>4 DEF AskedInv, AskedSound, RequestsKept

(* What a desk submits is one of the transactions of administrators.         *)
LEMMA SubmitAdministers ==
    ASSUME DeskInv, AskedInv, NEW d \in Desks, Submit(d)
    PROVE  Administer
  <1> DEFINE job == jobs[d]
  <1>1. /\ job \in Job /\ JobSound(job) /\ AskedSound(ws, job) /\ job.step = "submit"
        /\ Propose(CallOfJob(job))
    BY JobIs DEF AskedInv, Submit, At
  <1> HIDE DEF job
  <1>2. /\ job.caller \in Admins /\ job.wallet \in Wallets /\ job.op # "none"
        /\ job.op \in Giving =>
               /\ job.cert \in Certs /\ IssuedFor(job.cert, job.caller, job.wallet, job.role)
    BY <1>1, NullAssumption DEF JobSound, AskedSound, IssuedFor
  <1>3. CASE job.op = "approve"
    <2>1. /\ job.target \in TxIds /\ ws.request[job.target] # NoRequest
          /\ ws.request[job.target].wallet = job.wallet
          /\ ws.request[job.target].role = job.role
      BY <1>1, <1>3 DEF JobSound, AskedSound
    <2>2. ApproveWalletRoleRequest(job.caller, job.target, job.cert)
      BY <1>1, <1>2, <1>3, <2>1 DEF ApproveWalletRoleRequest, CallOfJob, Giving
    <2>3. QED
      BY <1>2, <1>3, <2>1, <2>2 DEF Administer, Giving
  <1>4. CASE job.op = "reject"
    <2>1. /\ job.target \in TxIds /\ ws.request[job.target] # NoRequest
          /\ ws.request[job.target].wallet = job.wallet
          /\ job.role = "consumer" /\ job.cert = NoCert
      BY <1>1, <1>4 DEF JobSound, AskedSound
    <2>2. RejectWalletRoleRequest(job.caller, job.target)
      BY <1>1, <1>4, <2>1 DEF RejectWalletRoleRequest, CallOfJob
    <2>3. QED
      BY <1>2, <2>1, <2>2 DEF Administer
  <1>5. CASE job.op \in {"grant", "bootstrap"}
    <2>1. job.role \in Roles \cup {"orgadmin"} /\ job.target = NoTx
      BY <1>1, <1>5 DEF AskedSound
    <2>2. GrantWalletRole(job.caller, job.wallet, job.role, job.cert)
      BY <1>1, <1>2, <1>5, <2>1 DEF GrantWalletRole, CallOfJob, Giving
    <2>3. QED
      BY <1>2, <1>5, <2>1, <2>2 DEF Administer, Giving
  <1>6. CASE job.op = "revoke"
    <2>1. job.role = "consumer" /\ job.target = NoTx
      BY <1>1, <1>6 DEF AskedSound
    <2>2. RevokeWalletRole(job.caller, job.wallet)
      BY <1>1, <1>6, <2>1 DEF RevokeWalletRole, CallOfJob
    <2>3. QED
      BY <1>2, <2>2 DEF Administer
  <1>7. QED
    BY <1>1, <1>2, <1>3, <1>4, <1>5, <1>6 DEF Job, Giving

LEMMA DeskStepIsStep ==
    ASSUME DeskInv, AskedInv, [DeskNext]_allVars
    PROVE  [Next]_vars
  <1>1. CASE SignUp /\ UNCHANGED deskVars
    BY <1>1 DEF Next
  <1>2. ASSUME NEW d \in Desks, Submit(d)
        PROVE  Next
    BY <1>2, SubmitAdministers DEF Next
  <1>3. ASSUME NEW tx \in pool, CommitTx(tx) \/ DropTx(tx)
        PROVE  Next
    BY <1>3 DEF CommitTx, DropTx, Next
  <1>4. CASE UNCHANGED allVars
    BY <1>4 DEF allVars
  <1>5. ASSUME NEW d \in Desks,
               \/ \E admin \in SignedInAdmins :
                     \/ \E i \in TxIds : OpenApproval(d, admin, i) \/ OpenRejection(d, admin, i)
                     \/ \E w \in Wallets : \/ OpenRevocation(d, admin, w)
                                           \/ \E role \in Roles : OpenGrant(d, admin, w, role)
               \/ \E w \in Wallets : OpenBootstrap(d, w)
               \/ CreateBootstrap(d) \/ CreateIdentity(d) \/ CreateUnanswered(d)
               \/ CreateRefused(d) \/ DisableIdentity(d) \/ Undo(d) \/ DisableBootstrap(d)
               \/ SubmitRefused(d) \/ GiveUp(d)
        PROVE  UNCHANGED vars
    <2>1. \A job : Open(d, job) => UNCHANGED vars
      BY DEF Open
    <2>2. QED
      BY <1>5, <2>1
      DEF OpenApproval, OpenRejection, OpenRevocation, OpenGrant, OpenBootstrap,
          CreateBootstrap, CreateIdentity, CreateUnanswered, CreateRefused, DisableIdentity,
          Undo, DisableBootstrap, SubmitRefused, GiveUp
  <1>6. QED
    BY <1>1, <1>2, <1>3, <1>4, <1>5 DEF DeskNext

LEMMA AskedInit == DeskInit => AskedInv
  BY DEF DeskInit, AskedInv, AskedSound, Idle, Giving

LEMMA AskedNext ==
    ASSUME DeskInv, AskedInv, [DeskNext]_allVars
    PROVE  AskedInv'
  BY OpensAsk, CreatesAsk, GoesOnAsks, ChannelAsks DEF DeskNext

(* Every step of the desks is a step of WalletRoles or leaves its variables   *)
(* alone: what the portal submits, in whatever order its calls to the agent  *)
(* and to the channel fail, is what an administrator may submit.             *)
THEOREM DesksFollowRoles == DeskSpec => [][Next]_vars
  <1>1. DeskSpec => []AskedInv
    BY DeskInvariance, AskedInit, AskedNext, PTL DEF DeskSpec
  <1>2. QED
    BY <1>1, DeskInvariance, DeskStepIsStep, PTL DEF DeskSpec

(* In the portal too, where wallets are registered already and identities     *)
(* come and go, a wallet is pending exactly while one request of it is, and   *)
(* certificates are bound to the wallets that are active with them.          *)
THEOREM DesksKeepTables == DeskSpec => [](PendingMatches /\ BindingMatches)
  <1>1. DeskInv => PendingMatches /\ BindingMatches
    BY DEF DeskInv, IInv, Sound, PendingSound, BindingSound, PendingMatches, BindingMatches
  <1>2. QED
    BY <1>1, DeskInvariance, PTL

(* However desks, retries and late transactions overlap, a decision on a      *)
(* request is final.                                                         *)
THEOREM DesksDecideOnce == DeskSpec => DecisionsFinal
  <1>1. IInv /\ [Next]_vars =>
            [ \A i \in TxIds :
                (ws.request[i] # NoRequest /\ ws.request[i].status # "pending") =>
                    ws'.request[i] = ws.request[i] ]_ws
    BY FinalStep
  <1>2. DeskInv => IInv
    BY DEF DeskInv
  <1>3. QED
    BY DeskInvariance, DesksFollowRoles, <1>1, <1>2, PTL DEF DecisionsFinal

(* In the portal an active role changes or ends only by an administrator of    *)
(* its organization who still is one when the transaction commits, whatever   *)
(* held when the desk was asked.                                             *)
THEOREM DesksDecideOwn == DeskSpec => OwnOrganizationDecides
  <1>1. IInv /\ [Next]_vars =>
            [ \A w \in Wallets :
                (ws.wallet[w].status = "active" /\ ws'.wallet[w] # ws.wallet[w]) =>
                    \E tx \in pool \ pool' :
                        /\ AdminAllowed(ws, tx.call.caller)
                        /\ CertOrg[tx.call.caller] = ws.wallet[w].org ]_ws
    BY OwnStep
  <1>2. DeskInv => IInv
    BY DEF DeskInv
  <1>3. QED
    BY DeskInvariance, DesksFollowRoles, <1>1, <1>2, PTL DEF OwnOrganizationDecides
=============================================================================
