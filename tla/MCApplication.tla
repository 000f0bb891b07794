---------------------------- MODULE MCApplication ----------------------------
(* The application's own state, in two scenes: its files on the local         *)
(* backend, and the requests that read the ledger on either backend, which     *)
(* clients make until they stop.                                              *)
EXTENDS AppFiles, LedgerReads

VARIABLES scene, clients

mcVars == << scene, clients, fileVars, readVars >>

MCInit ==
    /\ scene \in {"files", "reads"}
    /\ clients = "asking"
    /\ FilesInit
    /\ ReadsInit
    /\ scene = "files" => backend = "local"

OnFiles == scene = "files" /\ UNCHANGED << scene, clients, readVars >>
OnReads == scene = "reads" /\ UNCHANGED << scene, fileVars >>

\* From some moment on no request comes in.
Quiet ==
    /\ OnReads
    /\ clients = "asking"
    /\ clients' = "quiet"
    /\ UNCHANGED readVars

MCNext ==
    \/ OnFiles /\ FilesNext
    \/ OnReads /\ GoOn /\ UNCHANGED clients
    \/ OnReads /\ clients = "asking" /\ (\E t \in Requests : Ask(t)) /\ UNCHANGED clients
    \/ Quiet

\* A peer commits the blocks it gets, and a thread that is not blocked runs:
\* every call of the agent ends, with an answer or after its timeout.
MCFairness ==
    /\ \A p \in Peers : WF_mcVars(OnReads /\ Deliver(p) /\ UNCHANGED clients)
    /\ \A t \in Requests : WF_mcVars(OnReads /\ Continue(t) /\ UNCHANGED clients)

MCSpec == MCInit /\ [][MCNext]_mcVars /\ MCFairness

(* Nobody waits for ever: once clients stop asking, every request that was    *)
(* begun is answered, however it had to wait for the lock of FabricLedger,     *)
(* for a fetch of another thread, for a commit or for a call that failed.      *)
RequestsEnd == clients = "quiet" ~> \A t \in Requests : At(t, "idle")
=============================================================================
