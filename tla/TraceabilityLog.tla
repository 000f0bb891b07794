--------------------------- MODULE TraceabilityLog ---------------------------
(***************************************************************************)
(* What the consortium relies on: the contract's transactions take effect  *)
(* one at a time, each on the state the one before it left.                *)
(***************************************************************************)
EXTENDS Naturals, Sequences

CONSTANTS
    Accepted(_, _),     \* whether the contract accepts an event in a state
    Execute(_, _),      \* the state after the event
    Revoked(_, _),      \* the state after a wallet lost its role
    StartStates

VARIABLE state

LogInit == state \in StartStates

\* The event of a step is the one it adds to the log.
RecordStep ==
    /\ Len(state'.log) = Len(state.log) + 1
    /\ LET e == state'.log[Len(state'.log)]
       IN  /\ Accepted(state, e)
           /\ state' = Execute(state, e)

RevokeStep == \E w \in state.active : state' = Revoked(state, w)

LogNext == RecordStep \/ RevokeStep

LogSpec == LogInit /\ [][LogNext]_state
=============================================================================
