--------------------------- MODULE TransportState ---------------------------
(***************************************************************************)
(* The lifecycle state machine of one transport session                    *)
(* (pinky_daemon/transport_state.py, class StateMachine).                  *)
(*                                                                         *)
(* Callers are the coroutines that share the machine: connect(),           *)
(* force_restart(), idle_sleep(), the watchdog.  request_transition either *)
(* makes the caller the owner of a new in-flight transition, subscribes it *)
(* to the one in flight, answers an observational read, or rejects.  The   *)
(* body of both methods runs under one asyncio.Lock and never awaits, so   *)
(* each is one step here.                                                  *)
(*                                                                         *)
(* The state flips when ownership is GRANTED, not when the side effect     *)
(* completes; the owner later reports where the side effect ended.         *)
(***************************************************************************)
EXTENDS Naturals, FiniteSets

CONSTANTS
    Callers,     \* coroutines that use the machine
    MaxTokens    \* bound: how many transitions may ever be granted

ASSUME CallersAssumption == IsFiniteSet(Callers)
ASSUME MaxTokensAssumption == MaxTokens \in Nat

SessionState ==
    {"uninitialized", "booting", "reconnecting", "connected", "idle_sleeping", "dead"}

Trigger ==
    {"boot", "boot_complete", "boot_failed", "broker", "watchdog",
     "scheduler", "internal", "user_agent", "api_admin"}

VARIABLES
    state,      \* _state
    inFlight,   \* _in_flight, NoFlight when it is None
    minted,     \* how many owner tokens were ever minted; the last is the newest
    held,       \* held[c]: the token caller c was last granted, 0 when none
    handle,     \* handle[c]: c's InFlightHandle, NoHandle when it has none
    reporter    \* ghost: whose completion was accepted last, NoReporter at first

vars == <<state, inFlight, minted, held, handle, reporter>>

\* Tokens are random hex strings in the code; here the n-th grant mints n.
NoFlight == [target |-> "none", token |-> 0, subscribers |-> {}]

InFlightRecord ==
    [target : SessionState, token : Nat \ {0}, subscribers : SUBSET Callers]

\* A handle remembers which transition it subscribed to and, once resolved,
\* the final state it was resolved with.
NoHandle == [flight |-> 0, target |-> "none", final |-> "none"]

HandleRecord ==
    [flight : Nat \ {0}, target : SessionState, final : SessionState \cup {"pending"}]

NoReporter == "nobody"

\* LEGAL_TRANSITIONS
Legal(from, to, trig) ==
    \/ from = "uninitialized" /\ to = "booting"       /\ trig = "boot"
    \/ from = "uninitialized" /\ to = "dead"          /\ trig \in {"boot", "api_admin"}
    \/ from = "booting"       /\ to = "connected"     /\ trig = "boot_complete"
    \/ from = "booting"       /\ to = "dead"          /\ trig \in {"boot_failed", "api_admin"}
    \/ from = "reconnecting"  /\ to = "connected"     /\ trig = "internal"
    \/ from = "reconnecting"  /\ to = "dead"          /\ trig \in {"internal", "api_admin"}
    \/ from = "connected"     /\ to = "reconnecting"
         /\ trig \in {"user_agent", "watchdog", "api_admin", "internal"}
    \/ from = "connected"     /\ to = "idle_sleeping" /\ trig \in {"user_agent", "watchdog"}
    \/ from = "connected"     /\ to = "dead"          /\ trig \in {"internal", "api_admin"}
    \/ from \in {"idle_sleeping", "dead"} /\ to = "reconnecting"
         /\ trig \in {"broker", "watchdog", "scheduler", "api_admin"}
    \/ from = "idle_sleeping" /\ to = "dead"          /\ trig \in {"watchdog", "api_admin"}

\* A caller blocked in InFlightHandle.wait() does nothing else.
Waiting(c) == handle[c].final = "pending"

InFlight == inFlight # NoFlight

-----------------------------------------------------------------------------

\* __init__ accepts two birth states only.
Init ==
    /\ state \in {"uninitialized", "dead"}
    /\ inFlight = NoFlight
    /\ minted = 0
    /\ held = [c \in Callers |-> 0]
    /\ handle = [c \in Callers |-> NoHandle]
    /\ reporter = NoReporter

\* request_transition, a transition to the same target is in flight: subscribe.
Subscribe(c, target) ==
    /\ InFlight
    /\ inFlight.target = target
    /\ inFlight' = [inFlight EXCEPT !.subscribers = @ \cup {c}]
    /\ handle' = [handle EXCEPT ![c] =
                    [flight |-> inFlight.token, target |-> target, final |-> "pending"]]
    /\ UNCHANGED <<state, minted, held, reporter>>

\* request_transition, nothing is in flight and the state is already target: an
\* observational read, answered without a token.
Observe(c, target) ==
    /\ ~InFlight
    /\ state = target
    /\ UNCHANGED vars

\* request_transition: another target is in flight, or the matrix says no.
Reject(c, target, trig) ==
    /\ \/ InFlight /\ inFlight.target # target
       \/ ~InFlight /\ state # target /\ ~Legal(state, target, trig)
    /\ UNCHANGED vars

\* Mutant: in-flight transitions keyed by target, as before the singleton: a
\* second owner replaces the first.
GrantBesideInFlight(c, target, trig) ==
    /\ inFlight.target # target
    /\ state # target
    /\ Legal(state, target, trig)
    /\ minted < MaxTokens
    /\ minted' = minted + 1
    /\ state' = target
    /\ inFlight' = [target |-> target, token |-> minted + 1, subscribers |-> {}]
    /\ held' = [held EXCEPT ![c] = minted + 1]
    /\ UNCHANGED <<handle, reporter>>

\* request_transition: mint the token, flip the state, register the transition.
Grant(c, target, trig) ==
    /\ ~InFlight
    /\ state # target
    /\ Legal(state, target, trig)
    /\ minted < MaxTokens
    /\ minted' = minted + 1
    /\ state' = target
    /\ inFlight' = [target |-> target, token |-> minted + 1, subscribers |-> {}]
    /\ held' = [held EXCEPT ![c] = minted + 1]
    /\ UNCHANGED <<handle, reporter>>

RequestTransition(c, target, trig) ==
    \/ Subscribe(c, target)
    \/ Observe(c, target)
    \/ Reject(c, target, trig)
    \/ Grant(c, target, trig)

\* transition_complete raises unless the token is the one in flight.
TokenMatches(c) == InFlight /\ inFlight.token = held[c]

\* The outcome the owner reports: DEAD is the universal emergency exit, the
\* current state is "resolved at target", anything else must be in the matrix.
CompletionAccepted(final, trig) ==
    \/ final = state
    \/ final = "dead"
    \/ Legal(state, final, trig)

\* handle._resolve(final_state) for every subscriber
HandlesReleased(subscribers, final) ==
    [c \in Callers |-> IF c \in subscribers THEN [handle[c] EXCEPT !.final = final]
                                            ELSE handle[c]]

\* Mutant: the subscribers are released but the transition is not cleared.
CompleteKeepsFlight(c, final, trig) ==
    /\ TokenMatches(c)
    /\ CompletionAccepted(final, trig)
    /\ state' = final
    /\ handle' = HandlesReleased(inFlight.subscribers, final)
    /\ reporter' = c
    /\ UNCHANGED <<inFlight, minted, held>>

Complete(c, final, trig) ==
    /\ TokenMatches(c)
    /\ CompletionAccepted(final, trig)
    /\ state' = final
    /\ handle' = HandlesReleased(inFlight.subscribers, final)
    /\ inFlight' = NoFlight
    /\ reporter' = c
    /\ UNCHANGED <<minted, held>>

\* TransitionError: unknown or used token, or an illegal completion.  The
\* transition stays in flight: a rightful owner may still report another outcome.
CompleteRaises(c, final, trig) ==
    /\ ~(TokenMatches(c) /\ CompletionAccepted(final, trig))
    /\ UNCHANGED vars

\* A caller that was granted a token keeps it in a local variable: nothing but
\* the machine stops it from reporting twice.
TransitionComplete(c, final, trig) ==
    /\ held[c] # 0
    /\ Complete(c, final, trig) \/ CompleteRaises(c, final, trig)

\* The owner of the transition in flight runs its side effect and reports; it
\* never waits for itself (the backends bring the substrate up directly under
\* the transition they own, instead of calling connect() inside it).
OwnerDoesNotJoinItself(c, target) == ~(TokenMatches(c) /\ inFlight.target = target)

Next ==
    \E c \in Callers, target \in SessionState, trig \in Trigger :
        /\ ~Waiting(c)
        /\ \/ /\ OwnerDoesNotJoinItself(c, target)
              /\ RequestTransition(c, target, trig)
           \/ TransitionComplete(c, target, trig)

\* The driver contract: an owner that holds the live token reports an accepted
\* outcome in the end.  DEAD is always accepted, so that report always exists.
OwnerReports(c) ==
    /\ held[c] # 0
    /\ ~Waiting(c)
    /\ \E final \in SessionState, trig \in Trigger : Complete(c, final, trig)

Spec == Init /\ [][Next]_vars

FairSpec == Spec /\ \A c \in Callers : WF_vars(OwnerReports(c))

-----------------------------------------------------------------------------

TypeOK ==
    /\ state \in SessionState
    /\ inFlight \in InFlightRecord \cup {NoFlight}
    /\ minted \in Nat
    /\ held \in [Callers -> Nat]
    /\ handle \in [Callers -> HandleRecord \cup {NoHandle}]
    /\ reporter \in Callers \cup {NoReporter}

\* Nobody waits for a transition that is no longer in flight: a blocked
\* subscriber is registered with the very transition its handle names, so the
\* owner's one report releases it (the stranding of two coexisting owners that
\* _in_flight's comment describes).
NoStrandedSubscriber ==
    \A c \in Callers : Waiting(c) =>
        /\ InFlight
        /\ c \in inFlight.subscribers
        /\ handle[c].flight = inFlight.token
        /\ handle[c].target = inFlight.target

\* Ownership is exclusive and real: the token in flight is held by exactly one
\* caller, that caller is not itself blocked on a handle, and while it owns the
\* transition the published state is the target it was granted.
ExclusiveOwner ==
    InFlight =>
        /\ state = inFlight.target
        /\ \E c \in Callers :
              /\ held[c] = inFlight.token
              /\ ~Waiting(c)
              /\ \A d \in Callers \ {c} : held[d] # inFlight.token

\* Every subscriber of one transition learns the same outcome, and learns it only
\* once that transition is over.
OneOutcomePerFlight ==
    \A c, d \in Callers :
        (handle[c] # NoHandle /\ handle[c].final # "pending") =>
            /\ handle[c].flight # inFlight.token
            /\ handle[d].flight = handle[c].flight => handle[d].final = handle[c].final

\* A token is used once.  A transition leaves flight only through a completion by
\* the holder of its token, and never comes back; a caller with an older token
\* for the same target cannot close a newer transition.
TokensAreSingleUse ==
    [][/\ (InFlight /\ inFlight'.token # inFlight.token) =>
             /\ inFlight' = NoFlight
             /\ reporter' \in Callers
             /\ held[reporter'] = inFlight.token
       /\ (~InFlight /\ InFlight') => inFlight'.token > minted]_vars

\* The lifecycle the enum's docstring promises.  UNINITIALIZED has no way in,
\* BOOTING follows nothing but UNINITIALIZED, and CONNECTED is only ever reached
\* out of one of the two handshake states.
LifecycleOrder ==
    [][state' # state =>
         /\ state' # "uninitialized"
         /\ state' = "booting" => state = "uninitialized"
         /\ state' = "connected" => state \in {"booting", "reconnecting"}]_vars

\* Every subscriber is released in the end, provided owners keep the driver
\* contract.
SubscribersReleased == \A c \in Callers : Waiting(c) ~> ~Waiting(c)

=============================================================================
