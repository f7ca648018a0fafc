------------------------ MODULE TransportRefinement ------------------------
(***************************************************************************)
(* The transport state machine implements SingleFlight.                    *)
(***************************************************************************)
EXTENDS TransportState

\* What a handle says to the caller that holds it.
HeardFrom(h) == [flight |-> h.flight, outcome |-> h.final]

Abstract == INSTANCE SingleFlight WITH
    Outcomes <- SessionState,
    started  <- minted,
    flight   <- inFlight.token,
    joined   <- inFlight.subscribers,
    told     <- [c \in Callers |-> HeardFrom(handle[c])]

\* Every behaviour of the state machine is one of SingleFlight: whatever the
\* matrix admits or rejects, there is at most one transition under way and
\* exactly its subscribers learn its outcome.
ImplementsSingleFlight == Abstract!SFSpec

=============================================================================
