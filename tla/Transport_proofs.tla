-------------------------- MODULE Transport_proofs --------------------------
(***************************************************************************)
(* Proofs about TransportState, for any set of callers and any bound, and  *)
(* about SessionLifecycle, which uses it: for any set of coroutines, any   *)
(* choice of the backends and any bound on attempts and tokens.            *)
(***************************************************************************)
EXTENDS SessionLifecycle, TransportRefinement, TLAPS

-----------------------------------------------------------------------------
(* The machine.                                                              *)

(***************************************************************************)
(* The inductive invariant.  NoStrandedSubscriber and ExclusiveOwner are   *)
(* about the transition in flight only; to survive a Grant they need that  *)
(* the token about to be minted is new to everyone, that is, that no       *)
(* caller holds and no handle names a token larger than the last minted.   *)
(***************************************************************************)
TokensBounded ==
    /\ inFlight.token <= minted
    /\ \A c \in Callers : held[c] <= minted /\ handle[c].flight <= minted

\* The subscribers of the transition in flight are blocked on that transition.
SubscribersWait ==
    \A c \in inFlight.subscribers :
        /\ handle[c].final = "pending"
        /\ handle[c].flight = inFlight.token

IInv == TypeOK /\ TokensBounded /\ SubscribersWait /\ NoStrandedSubscriber /\ ExclusiveOwner

\* Every initial state satisfies the inductive invariant.
LEMMA InitIInv == Init => IInv
  BY DEF Init, IInv, TypeOK, TokensBounded, SubscribersWait, NoStrandedSubscriber,
         ExclusiveOwner, NoFlight, NoHandle, InFlight, Waiting, SessionState, NoReporter

USE DEF InFlight, Waiting, NoFlight, NoHandle, InFlightRecord, HandleRecord, SessionState

\* Joining a transition preserves it: the new subscriber waits for the transition
\* in flight, and it is not its owner.
LEMMA SubscribeIInv ==
    ASSUME IInv, NEW c \in Callers, NEW target \in SessionState,
           ~Waiting(c), OwnerDoesNotJoinItself(c, target), Subscribe(c, target)
    PROVE  IInv'
  <1> USE DEF IInv, TypeOK, TokensBounded, SubscribersWait, NoStrandedSubscriber, ExclusiveOwner
  <1>1. TypeOK'
    BY DEF Subscribe
  <1>2. TokensBounded'
    BY DEF Subscribe
  <1>3. SubscribersWait' /\ NoStrandedSubscriber'
    BY DEF Subscribe
  <1>4. ExclusiveOwner'
    BY DEF Subscribe, OwnerDoesNotJoinItself, TokenMatches
  <1> QED BY <1>1, <1>2, <1>3, <1>4

\* Granting a transition preserves it: its token is larger than every other.
LEMMA GrantIInv ==
    ASSUME IInv, NEW c \in Callers, NEW target \in SessionState, NEW trig \in Trigger,
           ~Waiting(c), Grant(c, target, trig)
    PROVE  IInv'
  <1> USE DEF IInv, TypeOK, TokensBounded, SubscribersWait, NoStrandedSubscriber, ExclusiveOwner
  <1>1. TypeOK'
    BY DEF Grant
  <1>2. TokensBounded'
    BY DEF Grant
  <1>3. SubscribersWait' /\ NoStrandedSubscriber'
    BY DEF Grant
  <1>4. ExclusiveOwner'
    BY DEF Grant
  <1> QED BY <1>1, <1>2, <1>3, <1>4

\* Completing a transition preserves it: its subscribers are exactly the blocked
\* callers, and all of them are released.
LEMMA CompleteIInv ==
    ASSUME IInv, NEW c \in Callers, NEW final \in SessionState, NEW trig \in Trigger,
           Complete(c, final, trig)
    PROVE  IInv'
  <1> USE DEF IInv, TypeOK, TokensBounded, SubscribersWait, NoStrandedSubscriber, ExclusiveOwner
  <1>1. TypeOK'
    BY DEF Complete, HandlesReleased, TokenMatches
  <1>2. TokensBounded' /\ SubscribersWait' /\ ExclusiveOwner'
    BY DEF Complete, HandlesReleased, TokenMatches
  <1>3. NoStrandedSubscriber'
    BY DEF Complete, HandlesReleased, TokenMatches
  <1> QED BY <1>1, <1>2, <1>3

\* Every step preserves the inductive invariant.
LEMMA NextIInv == IInv /\ [Next]_vars => IInv'
  <1> SUFFICES ASSUME IInv, [Next]_vars PROVE IInv'
    OBVIOUS
  <1>1. CASE UNCHANGED vars
    BY <1>1 DEF vars, IInv, TypeOK, TokensBounded, SubscribersWait,
                NoStrandedSubscriber, ExclusiveOwner
  <1>2. CASE Next
    <2>1. PICK c \in Callers, target \in SessionState, trig \in Trigger :
            /\ ~Waiting(c)
            /\ \/ /\ OwnerDoesNotJoinItself(c, target)
                  /\ RequestTransition(c, target, trig)
               \/ TransitionComplete(c, target, trig)
      BY <1>2 DEF Next
    <2>2. CASE OwnerDoesNotJoinItself(c, target) /\ RequestTransition(c, target, trig)
      <3>1. CASE Subscribe(c, target)
        BY <2>1, <2>2, <3>1, SubscribeIInv
      <3>2. CASE Observe(c, target) \/ Reject(c, target, trig)
        BY <3>2, <1>1 DEF Observe, Reject
      <3>3. CASE Grant(c, target, trig)
        BY <2>1, <3>3, GrantIInv
      <3> QED BY <2>2, <3>1, <3>2, <3>3 DEF RequestTransition
    <2>3. CASE TransitionComplete(c, target, trig)
      <3>1. CASE Complete(c, target, trig)
        BY <3>1, CompleteIInv
      <3>2. CASE CompleteRaises(c, target, trig)
        BY <3>2, <1>1 DEF CompleteRaises
      <3> QED BY <2>3, <3>1, <3>2 DEF TransitionComplete
    <2> QED BY <2>1, <2>2, <2>3
  <1> QED BY <1>1, <1>2

\* The machine keeps its types.
THEOREM TypeCorrect == Spec => []TypeOK
  BY InitIInv, NextIInv, PTL DEF Spec, IInv

\* However many coroutines share a session, nobody is ever left waiting for a
\* transition that is gone.
THEOREM NobodyStranded == Spec => []NoStrandedSubscriber
  BY InitIInv, NextIInv, PTL DEF Spec, IInv

\* At any moment the transition in flight has exactly one owner, awake, and the
\* published state is the one that owner was granted.
THEOREM OwnershipIsExclusive == Spec => []ExclusiveOwner
  BY InitIInv, NextIInv, PTL DEF Spec, IInv

\* What all subscribers of one transition are told is inductive together with IInv:
\* a handle that names the transition in flight is still pending.
LEMMA NextOneOutcome == IInv /\ OneOutcomePerFlight /\ [Next]_vars => OneOutcomePerFlight'
  <1> SUFFICES ASSUME IInv, OneOutcomePerFlight, [Next]_vars PROVE OneOutcomePerFlight'
    OBVIOUS
  <1> USE DEF IInv, TypeOK, TokensBounded, SubscribersWait, NoStrandedSubscriber,
              OneOutcomePerFlight
  <1>1. CASE UNCHANGED vars
    BY <1>1 DEF vars
  <1>2. CASE Next
    <2>1. PICK c \in Callers, target \in SessionState, trig \in Trigger :
            /\ ~Waiting(c)
            /\ \/ /\ OwnerDoesNotJoinItself(c, target)
                  /\ RequestTransition(c, target, trig)
               \/ TransitionComplete(c, target, trig)
      BY <1>2 DEF Next
    <2>2. CASE Subscribe(c, target)
      BY <2>2 DEF Subscribe
    <2>3. CASE Grant(c, target, trig)
      BY <2>3 DEF Grant
    <2>4. CASE Complete(c, target, trig)
      <3>1. handle' = HandlesReleased(inFlight.subscribers, target) /\ inFlight' = NoFlight /\ InFlight
        BY <2>4 DEF Complete, TokenMatches
      <3>2. ASSUME NEW d \in Callers, handle'[d] # NoHandle, handle'[d].final # "pending"
            PROVE  /\ handle'[d].flight # 0
                   /\ \/ handle[d].flight = inFlight.token /\ handle'[d].final = target
                      \/ handle[d].flight # inFlight.token /\ handle'[d] = handle[d]
                   /\ handle'[d].flight = handle[d].flight
        BY <3>1, <3>2 DEF HandlesReleased
      <3>3. ASSUME NEW d \in Callers, NEW e \in Callers, handle'[d] # NoHandle,
                   handle'[d].final # "pending", handle'[e].flight = handle'[d].flight
            PROVE  handle'[e].final = handle'[d].final
        <4>1. handle'[e] # NoHandle /\ handle'[e].final # "pending"
          BY <3>1, <3>2, <3>3 DEF HandlesReleased
        <4> QED BY <3>2, <3>3, <4>1
      <3> QED BY <3>1, <3>2, <3>3
    <2>5. CASE UNCHANGED vars
      BY <2>5, <1>1
    <2> QED BY <2>1, <2>2, <2>3, <2>4, <2>5
          DEF RequestTransition, TransitionComplete, Observe, Reject, CompleteRaises
  <1> QED BY <1>1, <1>2

\* Two coroutines that waited for the same connect never disagree on whether it
\* worked, and neither learns it early.
THEOREM OutcomeIsShared == Spec => []OneOutcomePerFlight
  <1>1. Init => OneOutcomePerFlight
    BY DEF Init, OneOutcomePerFlight
  <1> QED BY <1>1, InitIInv, NextIInv, NextOneOutcome, PTL DEF Spec

\* A transition can be closed only by the holder of its own token, and a closed
\* one never reopens: a second report with a used token changes nothing.
THEOREM SingleUse == Spec => TokensAreSingleUse
  <1> DEFINE A == /\ (InFlight /\ inFlight'.token # inFlight.token) =>
                         /\ inFlight' = NoFlight
                         /\ reporter' \in Callers
                         /\ held[reporter'] = inFlight.token
                  /\ (~InFlight /\ InFlight') => inFlight'.token > minted
  <1>1. IInv /\ [Next]_vars => [A]_vars
    <2> SUFFICES ASSUME IInv, Next PROVE A
      OBVIOUS
    <2>1. PICK c \in Callers, target \in SessionState, trig \in Trigger :
            \/ RequestTransition(c, target, trig)
            \/ TransitionComplete(c, target, trig)
      BY DEF Next
    <2> USE DEF IInv, TypeOK
    <2>2. CASE Subscribe(c, target)
      BY <2>2 DEF Subscribe
    <2>3. CASE Grant(c, target, trig)
      BY <2>3 DEF Grant
    <2>4. CASE Complete(c, target, trig)
      BY <2>4 DEF Complete, TokenMatches
    <2>5. CASE UNCHANGED vars
      BY <2>5 DEF vars
    <2> QED BY <2>1, <2>2, <2>3, <2>4, <2>5
          DEF RequestTransition, TransitionComplete, Observe, Reject, CompleteRaises
  <1> QED BY <1>1, InitIInv, NextIInv, PTL DEF Spec, TokensAreSingleUse

\* The birth state is never re-entered, booting happens at most once in a
\* session's life, and CONNECTED always comes out of a handshake state.
THEOREM LifecycleIsOrdered == Spec => LifecycleOrder
  <1> DEFINE A == state' # state =>
                    /\ state' # "uninitialized"
                    /\ state' = "booting" => state = "uninitialized"
                    /\ state' = "connected" => state \in {"booting", "reconnecting"}
  <1>1. [Next]_vars => [A]_vars
    <2> SUFFICES ASSUME Next PROVE A
      OBVIOUS
    <2>1. PICK c \in Callers, target \in SessionState, trig \in Trigger :
            \/ RequestTransition(c, target, trig)
            \/ TransitionComplete(c, target, trig)
      BY DEF Next
    <2>2. CASE Subscribe(c, target)
      BY <2>2 DEF Subscribe
    <2>3. CASE Grant(c, target, trig)
      BY <2>3 DEF Grant, Legal
    <2>4. CASE Complete(c, target, trig)
      BY <2>4 DEF Complete, CompletionAccepted, Legal
    <2>5. CASE UNCHANGED vars
      BY <2>5 DEF vars
    <2> QED BY <2>1, <2>2, <2>3, <2>4, <2>5
          DEF RequestTransition, TransitionComplete, Observe, Reject, CompleteRaises
  <1> QED BY <1>1, PTL DEF Spec, LifecycleOrder

(***************************************************************************)
(* Refinement: the machine implements SingleFlight.                        *)
(***************************************************************************)

USE DEF HeardFrom

\* Each step of the machine is a Begin, a Join, an End or a stutter.
LEMMA StepRefines == IInv /\ [Next]_vars => [Abstract!SFNext]_(Abstract!sfVars)
  <1> SUFFICES ASSUME IInv, [Next]_vars
               PROVE  Abstract!SFNext \/ UNCHANGED Abstract!sfVars
    OBVIOUS
  <1> USE DEF IInv, TypeOK, TokensBounded, SubscribersWait, NoStrandedSubscriber
  <1>1. CASE UNCHANGED vars
    BY <1>1 DEF vars, Abstract!sfVars
  <1>2. CASE Next
    <2>1. PICK c \in Callers, target \in SessionState, trig \in Trigger :
            /\ ~Waiting(c)
            /\ \/ RequestTransition(c, target, trig)
               \/ TransitionComplete(c, target, trig)
      BY <1>2 DEF Next
    <2>2. CASE Subscribe(c, target)
      <3>1. Abstract!Join(c)
        BY <2>1, <2>2 DEF Subscribe, Abstract!Join, Abstract!Unheard
      <3> QED BY <3>1 DEF Abstract!SFNext
    <2>3. CASE Grant(c, target, trig)
      <3>1. Abstract!Begin
        BY <2>3 DEF Grant, Abstract!Begin
      <3> QED BY <3>1 DEF Abstract!SFNext
    <2>4. CASE Complete(c, target, trig)
      <3>1. Abstract!End(target)
        BY <2>4 DEF Complete, TokenMatches, HandlesReleased, Abstract!End
      <3> QED BY <3>1 DEF Abstract!SFNext
    <2>5. CASE UNCHANGED vars
      BY <2>5, <1>1
    <2> QED BY <2>1, <2>2, <2>3, <2>4, <2>5
          DEF RequestTransition, TransitionComplete, Observe, Reject, CompleteRaises
  <1> QED BY <1>1, <1>2

\* The lock-guarded machine with its matrix, tokens and handles is a correct
\* implementation of one-at-a-time shared work.
THEOREM Refinement == Spec => ImplementsSingleFlight
  <1>1. Init => Abstract!SFInit
    BY DEF Init, Abstract!SFInit
  <1> QED BY <1>1, InitIInv, NextIInv, StepRefines, PTL
        DEF Spec, ImplementsSingleFlight, Abstract!SFSpec

HIDE DEF InFlight, Waiting, NoFlight, NoHandle, InFlightRecord, HandleRecord, SessionState

-----------------------------------------------------------------------------
(* The backends that use it.                                                 *)

(***************************************************************************)
(* The inductive invariant.  Its first part is about the machine alone,    *)
(* and weaker than the machine's own invariant: where a task may be        *)
(* cancelled anywhere, the owner of an abandoned transition may come back  *)
(* and wait for itself.                                                    *)
(***************************************************************************)

\* The state a granted transition publishes: never CONNECTED.
FlightIsState ==
    InFlight =>
        /\ state = inFlight.target
        /\ state \in {"booting", "reconnecting", "idle_sleeping", "dead"}

\* The token in flight is nobody else's.
OneHolder ==
    InFlight => \A c, d \in Callers :
        held[c] = inFlight.token /\ held[d] = inFlight.token => c = d

MachineInv == TypeOK /\ TokensBounded /\ SubscribersWait /\ FlightIsState /\ OneHolder

\* The awaits at which a coroutine is the owner of the transition in flight.
Owning(c) ==
    \/ op[c] = "connect" /\ pc[c] \in {"spawning", "spawned"}
    \/ op[c] = "force_restart" /\ pc[c] \in {"teardown", "teardown2", "spawning", "spawned"}
    \/ op[c] = "reconnect"
         /\ pc[c] \in {"teardown", "teardown2", "backoff", "spawning", "spawned"}
    \/ op[c] = "idle_sleep" /\ pc[c] \in {"teardown", "teardown2"}
    \/ op[c] = "idle_sleep" /\ pc[c] = "presave" /\ backend = "codex"
    \/ op[c] = "disconnect" /\ pc[c] = "closing"

\* The awaits of an operation that owns nothing (yet, or any longer).
Elsewhere(c) ==
    \/ op[c] = "none" /\ pc[c] = "idle"
    \/ op[c] \in {"connect", "reconnect"} /\ pc[c] = "waiting"
    \/ op[c] \in {"force_restart", "reconnect"} /\ pc[c] = "rewake"
    \/ op[c] = "idle_sleep" /\ pc[c] = "presave" /\ backend = "tmux"
    \/ op[c] = "disconnect" /\ pc[c] \in {"teardown", "teardown2", "terminalize"}

Program == \A c \in Callers : Owning(c) \/ Elsewhere(c)

\* Whoever is blocked on a handle is at the await of that handle.
Blocked == \A c \in Callers : Waiting(c) => pc[c] = "waiting"

OwnersHold == \A c \in Callers : Owning(c) => TokenMatches(c)

\* The coroutines that will see to a session that is CONNECTED without a worker.
Restores(c) ==
    \/ pc[c] = "rewake"
    \/ op[c] = "disconnect" /\ pc[c] \in {"teardown", "teardown2", "terminalize"}

\* Where no task dies unhandled, there is one of them, and a transition in flight has its
\* owner at work.
Drains == ~CancelAnywhere /\ state = "connected" /\ ~worker => \E c \in Callers : Restores(c)

OwnerAtWork == ~CancelAnywhere /\ InFlight => \E c \in Callers : Owning(c)

OwnTypes ==
    /\ backend \in Backends
    /\ op \in [Callers -> Operation] /\ pc \in [Callers -> Await]
    /\ tries \in [Callers -> 0..Attempts]
    /\ substrate \in BOOLEAN /\ worker \in BOOLEAN

CoroutineInv == Program /\ Blocked /\ OwnersHold /\ Drains /\ OwnerAtWork

LifecycleIInv == MachineInv /\ OwnTypes /\ CoroutineInv

USE DEF InFlight, Waiting, NoFlight, NoHandle, InFlightRecord, HandleRecord, SessionState

-----------------------------------------------------------------------------
(* What the steps of the machine do to its part of the invariant             *)

\* A grant finds no owner and makes one.
LEMMA Granted ==
    ASSUME MachineInv, OwnersHold, NEW c \in Callers, NEW target \in SessionState, NEW trig,
           target \in {"booting", "reconnecting", "idle_sleeping", "dead"},
           Grant(c, target, trig)
    PROVE  /\ MachineInv'
           /\ InFlight' /\ inFlight'.token = held'[c]
           /\ \A d \in Callers : ~Owning(d)
           /\ handle' = handle /\ state' = target
  <1> USE DEF MachineInv, TypeOK, Grant
  <1>1. TypeOK' /\ TokensBounded' /\ SubscribersWait'
    BY DEF TokensBounded, SubscribersWait
  <1>2. FlightIsState' /\ OneHolder'
    BY DEF TokensBounded, FlightIsState, OneHolder
  <1>3. \A d \in Callers : ~Owning(d)
    BY DEF OwnersHold, TokenMatches
  <1> QED BY <1>1, <1>2, <1>3

\* A subscription changes the subscriber's handle only.
LEMMA Subscribed ==
    ASSUME MachineInv, NEW c \in Callers, NEW target \in SessionState,
           Subscribe(c, target)
    PROVE  /\ MachineInv'
           /\ InFlight /\ InFlight' /\ inFlight'.token = inFlight.token
           /\ UNCHANGED <<state, held>>
           /\ \A d \in Callers \ {c} : handle'[d] = handle[d]
  <1> USE DEF MachineInv, TypeOK, Subscribe
  <1>1. TypeOK' /\ TokensBounded' /\ SubscribersWait'
    BY DEF TokensBounded, SubscribersWait
  <1>2. FlightIsState' /\ OneHolder'
    BY DEF FlightIsState, OneHolder
  <1> QED BY <1>1, <1>2

\* A completion comes from the only owner, and blocks nobody.
LEMMA Completed ==
    ASSUME MachineInv, OwnersHold, NEW c \in Callers, NEW final \in SessionState, NEW trig,
           Complete(c, final, trig)
    PROVE  /\ MachineInv'
           /\ ~InFlight' /\ state' = final
           /\ \A d \in Callers \ {c} : ~Owning(d)
           /\ \A d \in Callers : Waiting(d)' => Waiting(d)
  <1> USE DEF MachineInv, TypeOK, Complete
  <1>1. TypeOK'
    BY DEF HandlesReleased, SubscribersWait
  <1>2. TokensBounded' /\ SubscribersWait' /\ FlightIsState' /\ OneHolder'
    BY DEF TokensBounded, HandlesReleased, FlightIsState, OneHolder, SubscribersWait
  <1>3. \A d \in Callers \ {c} : ~Owning(d)
    BY DEF OwnersHold, TokenMatches, OneHolder
  <1>4. \A d \in Callers : Waiting(d)' => Waiting(d)
    BY DEF HandlesReleased
  <1> QED BY <1>1, <1>2, <1>3, <1>4

-----------------------------------------------------------------------------
(* How a coroutine moves                                                     *)

\* c moves to await a of operation o, and nothing happens to the machine.
LEMMA MovedAlone ==
    ASSUME LifecycleIInv, NEW c \in Callers, NEW o \in Operation, NEW a \in Await,
           Suspend(c, o, a), UNCHANGED tsVars, UNCHANGED backend,
           (Owning(c) \/ Elsewhere(c))',
           Owning(c)' => Owning(c),
           Waiting(c) => a = "waiting",
           CancelAnywhere \/ (Owning(c) => Owning(c)'),
           ~CancelAnywhere /\ state = "connected" /\ ~worker' =>
               Restores(c)' \/ \E d \in Callers : d # c /\ Restores(d)
    PROVE  CoroutineInv' /\ op' \in [Callers -> Operation] /\ pc' \in [Callers -> Await]
  <1> USE DEF LifecycleIInv, CoroutineInv, Suspend, OwnTypes, tsVars, vars
  <1>1. /\ op' \in [Callers -> Operation] /\ pc' \in [Callers -> Await]
        /\ op'[c] = o /\ pc'[c] = a
        /\ \A d \in Callers \ {c} : op'[d] = op[d] /\ pc'[d] = pc[d]
    OBVIOUS
  <1>2. \A d \in Callers \ {c} : /\ Owning(d)' <=> Owning(d)
                                 /\ Elsewhere(d)' <=> Elsewhere(d)
                                 /\ Restores(d)' <=> Restores(d)
    BY <1>1 DEF Owning, Elsewhere, Restores
  <1> HIDE DEF Suspend
  <1>3. Program'
    BY <1>2 DEF Program
  <1>4. Blocked'
    BY <1>1 DEF Blocked
  <1>5. OwnersHold'
    BY <1>2 DEF OwnersHold, TokenMatches
  <1>6. Drains'
    BY <1>2 DEF Drains
  <1>7. OwnerAtWork'
    BY <1>2 DEF OwnerAtWork
  <1> QED BY <1>1, <1>3, <1>4, <1>5, <1>6, <1>7

\* c is granted a transition and goes to an await that owns it.
LEMMA MovedGranted ==
    ASSUME LifecycleIInv, NEW c \in Callers, NEW o \in Operation, NEW a \in Await,
           NEW target \in {"booting", "reconnecting", "idle_sleeping", "dead"}, NEW trig,
           Grant(c, target, trig), Suspend(c, o, a), UNCHANGED backend,
           Owning(c)', pc[c] # "waiting"
    PROVE  MachineInv' /\ CoroutineInv' /\ op' \in [Callers -> Operation] /\ pc' \in [Callers -> Await]
  <1> USE DEF LifecycleIInv, CoroutineInv
  <1>1. /\ op' \in [Callers -> Operation] /\ pc' \in [Callers -> Await]
        /\ \A d \in Callers \ {c} : op'[d] = op[d] /\ pc'[d] = pc[d]
    BY DEF Suspend, OwnTypes
  <1>2. \A d \in Callers \ {c} : (Owning(d)' <=> Owning(d)) /\ (Elsewhere(d)' <=> Elsewhere(d))
    BY <1>1 DEF Owning, Elsewhere
  <1>3. /\ MachineInv' /\ InFlight' /\ inFlight'.token = held'[c]
        /\ \A d \in Callers : ~Owning(d)
        /\ handle' = handle /\ state' = target
    BY Granted
  <1>4. Program' /\ OwnersHold' /\ OwnerAtWork'
    BY <1>2, <1>3 DEF Program, OwnersHold, TokenMatches, OwnerAtWork
  <1>5. Blocked'
    BY <1>1, <1>3 DEF Blocked
  <1>6. Drains'
    BY <1>3 DEF Drains
  <1> QED BY <1>1, <1>3, <1>4, <1>5, <1>6

\* c subscribes and waits.
LEMMA MovedSubscribed ==
    ASSUME LifecycleIInv, NEW c \in Callers, NEW o \in {"connect", "reconnect"},
           NEW target \in SessionState,
           Subscribe(c, target), Suspend(c, o, "waiting"), UNCHANGED backend,
           Free(c)
    PROVE  MachineInv' /\ CoroutineInv' /\ op' \in [Callers -> Operation] /\ pc' \in [Callers -> Await]
  <1> USE DEF LifecycleIInv, CoroutineInv
  <1>1. /\ op' \in [Callers -> Operation] /\ pc' \in [Callers -> Await]
        /\ op'[c] = o /\ pc'[c] = "waiting"
        /\ \A d \in Callers \ {c} : op'[d] = op[d] /\ pc'[d] = pc[d]
    BY DEF Suspend, OwnTypes, Operation, Await
  <1>2. \A d \in Callers \ {c} : (Owning(d)' <=> Owning(d)) /\ (Elsewhere(d)' <=> Elsewhere(d))
    BY <1>1 DEF Owning, Elsewhere
  <1>3. ~Owning(c) /\ ~Owning(c)' /\ Elsewhere(c)'
    BY <1>1 DEF Owning, Elsewhere, Free
  <1>4. /\ MachineInv' /\ InFlight /\ InFlight' /\ inFlight'.token = inFlight.token
        /\ UNCHANGED <<state, held>>
        /\ \A d \in Callers \ {c} : handle'[d] = handle[d]
    BY Subscribed
  <1>5. Program' /\ OwnersHold' /\ OwnerAtWork'
    BY <1>2, <1>3, <1>4 DEF Program, OwnersHold, TokenMatches, OwnerAtWork
  <1>6. Blocked'
    BY <1>1, <1>4 DEF Blocked
  <1>7. Drains'
    BY <1>4 DEF Drains, MachineInv, FlightIsState
  <1> QED BY <1>1, <1>4, <1>5, <1>6, <1>7

\* c reports an outcome, and leaves the awaits that own: a session it leaves CONNECTED has
\* a worker, or c on its way to start one.
LEMMA MovedReported ==
    ASSUME LifecycleIInv, NEW c \in Callers, NEW o \in Operation, NEW a \in Await,
           NEW final \in SessionState, NEW trig,
           Complete(c, final, trig), Suspend(c, o, a), UNCHANGED backend,
           ~Owning(c)', Elsewhere(c)', pc[c] # "waiting",
           final = "connected" => worker' \/ Restores(c)'
    PROVE  MachineInv' /\ CoroutineInv' /\ op' \in [Callers -> Operation] /\ pc' \in [Callers -> Await]
  <1> USE DEF LifecycleIInv, CoroutineInv
  <1>1. /\ op' \in [Callers -> Operation] /\ pc' \in [Callers -> Await]
        /\ \A d \in Callers \ {c} : op'[d] = op[d] /\ pc'[d] = pc[d]
    BY DEF Suspend, OwnTypes
  <1>2. \A d \in Callers \ {c} : (Owning(d)' <=> Owning(d)) /\ (Elsewhere(d)' <=> Elsewhere(d))
    BY <1>1 DEF Owning, Elsewhere
  <1>3. /\ MachineInv' /\ ~InFlight' /\ state' = final
        /\ \A d \in Callers \ {c} : ~Owning(d)
        /\ \A d \in Callers : Waiting(d)' => Waiting(d)
    BY Completed
  <1>4. Program' /\ OwnersHold'
    BY <1>2, <1>3 DEF Program, OwnersHold
  <1>5. OwnerAtWork'
    BY <1>3 DEF OwnerAtWork
  <1>6. Blocked'
    BY <1>1, <1>3 DEF Blocked
  <1>7. Drains'
    BY <1>3 DEF Drains
  <1> QED BY <1>1, <1>3, <1>4, <1>5, <1>6, <1>7

\* Nobody moves.
LEMMA Stayed ==
    ASSUME LifecycleIInv, UNCHANGED <<tsVars, op, pc, backend>>,
           state = "connected" /\ ~worker' => ~worker
    PROVE  MachineInv' /\ CoroutineInv' /\ op' \in [Callers -> Operation] /\ pc' \in [Callers -> Await]
  BY DEF LifecycleIInv, CoroutineInv, MachineInv, OwnTypes, tsVars, vars, TypeOK, TokensBounded,
         SubscribersWait, FlightIsState, OneHolder, Program, Blocked, OwnersHold, Drains,
            OwnerAtWork,
         Owning, Elsewhere, Restores, TokenMatches

\* The machine's part where the machine is left alone.
LEMMA MachineKept ==
    ASSUME MachineInv, UNCHANGED tsVars
    PROVE  MachineInv'
  BY DEF MachineInv, tsVars, vars, TypeOK, TokensBounded, SubscribersWait, FlightIsState, OneHolder

-----------------------------------------------------------------------------
(* The operations                                                            *)

\* A request of a free coroutine, whatever the machine answers.
LEMMA Established ==
    ASSUME LifecycleIInv, NEW c \in Callers,
           NEW o \in {"connect", "reconnect"}, NEW a \in {"spawning", "teardown"},
           o = "connect" => a = "spawning",
           NEW target \in {"booting", "reconnecting"}, NEW trig,
           Free(c), Establish(c, o, a, target, trig), UNCHANGED <<backend, worker>>
    PROVE  MachineInv' /\ CoroutineInv' /\ op' \in [Callers -> Operation] /\ pc' \in [Callers -> Await]
  <1>1. CASE Grant(c, target, trig) /\ Suspend(c, o, a)
    <2>1. Owning(c)' /\ pc[c] # "waiting" /\ o \in Operation /\ a \in Await
      BY <1>1 DEF Owning, Suspend, Free, LifecycleIInv, OwnTypes, Operation, Await
    <2> QED BY <1>1, <2>1, MovedGranted
  <1>2. CASE Subscribe(c, target) /\ Suspend(c, o, "waiting")
    BY <1>2, MovedSubscribed
  <1>3. CASE (Observe(c, target) \/ Reject(c, target, trig)) /\ UNCHANGED <<op, pc>>
    BY <1>3, Stayed DEF Observe, Reject, tsVars
  <1> QED BY <1>1, <1>2, <1>3 DEF Establish

\* A request whose handle is dropped: c returns without a token.
LEMMA EstablishedOrReturned ==
    ASSUME LifecycleIInv, NEW c \in Callers, NEW o \in Operation, NEW a \in Await,
           NEW target \in {"reconnecting", "idle_sleeping", "dead"}, NEW trig,
           ~Owning(c), pc[c] # "waiting",
           Suspend(c, o, a) => Owning(c)',
           EstablishOrReturn(c, o, a, target, trig), UNCHANGED backend,
           state = "connected" =>
               \/ target = "dead" /\ trig = "internal"
               \/ worker' = worker /\ ~Restores(c)
    PROVE  MachineInv' /\ CoroutineInv' /\ op' \in [Callers -> Operation] /\ pc' \in [Callers -> Await]
  <1>1. CASE Grant(c, target, trig) /\ Suspend(c, o, a)
    BY <1>1, MovedGranted
  <1>2. CASE /\ InFlight \/ state = target \/ ~Legal(state, target, trig)
             /\ Return(c) /\ UNCHANGED tsVars
    <2>1. Elsewhere(c)' /\ ~Owning(c)' /\ "none" \in Operation /\ "idle" \in Await
      BY <1>2 DEF Return, Suspend, Owning, Elsewhere, LifecycleIInv, OwnTypes, Operation, Await
    <2>2. ~Waiting(c)
      BY DEF LifecycleIInv, CoroutineInv, Blocked
    <2>3. ~CancelAnywhere /\ state = "connected" /\ ~worker' => \E d \in Callers : d # c /\ Restores(d)
      <3>1. CASE target = "dead" /\ trig = "internal"
        BY <1>2, <3>1 DEF Legal, LifecycleIInv, MachineInv, FlightIsState
      <3>2. CASE worker' = worker /\ ~Restores(c)
        BY <3>2 DEF LifecycleIInv, CoroutineInv, Drains
      <3> QED BY <3>1, <3>2
    <2>4. MachineInv'
      BY <1>2, MachineKept DEF LifecycleIInv
    <2> QED BY <1>2, <2>1, <2>2, <2>3, <2>4, MovedAlone DEF Return
  <1> QED BY <1>1, <1>2 DEF EstablishOrReturn

\* The parts together.
LEMMA Together ==
    ASSUME LifecycleIInv, UNCHANGED backend,
           MachineInv' /\ CoroutineInv' /\ op' \in [Callers -> Operation] /\ pc' \in [Callers -> Await],
           tries' \in [Callers -> 0..Attempts], substrate' \in BOOLEAN, worker' \in BOOLEAN
    PROVE  LifecycleIInv'
  BY DEF LifecycleIInv, OwnTypes

\* What is known of c at an await: whether it owns the transition, which then is not to
\* CONNECTED, and that only a waiting coroutine is blocked.
LEMMA AtAwait ==
    ASSUME LifecycleIInv, NEW c \in Callers
    PROVE  /\ Owning(c) \/ Elsewhere(c)
           /\ Owning(c) => TokenMatches(c) /\ state # "connected"
           /\ pc[c] # "waiting" => ~Waiting(c)
           /\ backend \in {"tmux", "codex"} /\ tries \in [Callers -> 0..Attempts]
           /\ substrate \in BOOLEAN /\ worker \in BOOLEAN
           /\ op[c] \in Operation /\ pc[c] \in Await
  BY BackendsAssumption
  DEF LifecycleIInv, CoroutineInv, Program, OwnersHold, Blocked, MachineInv, FlightIsState,
     OwnTypes,
      TokenMatches

\* connect and attempt_reconnect ask, and go on, wait or return.
LEMMA ConnectIInv ==
    ASSUME LifecycleIInv, NEW c \in Callers, NEW trig \in WakeTriggers,
           Connect(c, trig), UNCHANGED backend
    PROVE  LifecycleIInv'
  <1>1. Free(c) /\ UNCHANGED <<tries, substrate, worker>>
    BY DEF Connect, Starts
  <1>2. \/ Establish(c, "connect", "spawning", "booting", "boot")
        \/ Establish(c, "connect", "spawning", "reconnecting", trig)
    BY DEF Connect
  <1> QED BY <1>1, <1>2, Established, AtAwait, Together

\* attempt_reconnect has its budget of attempts from the grant on.
LEMMA ReconnectIInv ==
    ASSUME LifecycleIInv, NEW c \in Callers, NEW trig \in WakeTriggers,
           Reconnect(c, trig), UNCHANGED backend
    PROVE  LifecycleIInv'
  <1>1. /\ Free(c) /\ UNCHANGED <<substrate, worker>>
        /\ Establish(c, "reconnect", "teardown", "reconnecting", trig)
    BY DEF Reconnect, Starts
  <1>2. tries' \in [Callers -> 0..Attempts]
    BY AtAwait, AttemptsAssumption DEF Reconnect
  <1> QED BY <1>1, <1>2, Established, AtAwait, Together

\* force_restart and idle_sleep ask with the handle dropped.
LEMMA ForceRestartIInv ==
    ASSUME LifecycleIInv, NEW c \in Callers, ForceRestart(c), UNCHANGED backend
    PROVE  LifecycleIInv'
  <1>1. /\ Free(c) /\ UNCHANGED <<tries, substrate, worker>>
        /\ EstablishOrReturn(c, "force_restart", "teardown", "reconnecting", "user_agent")
    BY DEF ForceRestart, Starts
  <1>2. /\ ~Owning(c) /\ ~Restores(c) /\ pc[c] # "waiting"
        /\ Suspend(c, "force_restart", "teardown") => Owning(c)'
    BY <1>1 DEF Free, Owning, Restores, Suspend, LifecycleIInv, OwnTypes
  <1>3. "force_restart" \in Operation /\ "teardown" \in Await
    BY DEF Operation, Await
  <1> QED BY <1>1, <1>2, <1>3, EstablishedOrReturned, AtAwait, Together

\* idle_sleep of tmux saves before it asks, that of codex as the owner.
LEMMA IdleSleepIInv ==
    ASSUME LifecycleIInv, NEW c \in Callers, IdleSleep(c), UNCHANGED backend
    PROVE  LifecycleIInv'
  <1>1. Free(c) /\ UNCHANGED <<tries, substrate, worker>>
    BY DEF IdleSleep, Starts
  <1>2. ~Owning(c) /\ ~Restores(c) /\ pc[c] # "waiting"
    BY <1>1 DEF Free, Owning, Restores
  <1>3. "idle_sleep" \in Operation /\ "presave" \in Await
    BY DEF Operation, Await
  <1>4. CASE backend = "tmux" /\ Suspend(c, "idle_sleep", "presave") /\ UNCHANGED tsVars
    <2>1. Elsewhere(c)' /\ ~Owning(c)'
      BY <1>4 DEF Suspend, Owning, Elsewhere, LifecycleIInv, OwnTypes
    <2>2. ~CancelAnywhere /\ state = "connected" /\ ~worker' => \E d \in Callers : d # c /\ Restores(d)
      BY <1>1, <1>2 DEF LifecycleIInv, CoroutineInv, Drains
    <2>3. MachineInv'
      BY <1>4, MachineKept DEF LifecycleIInv
    <2>4. ~Waiting(c)
      BY <1>2, AtAwait
    <2> QED BY <1>1, <1>2, <1>3, <1>4, <2>1, <2>2, <2>3, <2>4, MovedAlone, AtAwait, Together
  <1>5. CASE /\ backend = "codex"
             /\ EstablishOrReturn(c, "idle_sleep", "presave", "idle_sleeping", "user_agent")
    <2>1. Suspend(c, "idle_sleep", "presave") => Owning(c)'
      BY <1>5 DEF Suspend, Owning, LifecycleIInv, OwnTypes
    <2> QED BY <1>1, <1>2, <1>3, <1>5, <2>1, EstablishedOrReturned, AtAwait, Together
  <1> QED BY <1>4, <1>5 DEF IdleSleep

\* The save is done: tmux asks now, codex goes on as the owner.
LEMMA PresavedIInv ==
    ASSUME LifecycleIInv, NEW c \in Callers, Presaved(c), UNCHANGED backend
    PROVE  LifecycleIInv'
  <1>1. op[c] = "idle_sleep" /\ pc[c] = "presave" /\ UNCHANGED <<tries, substrate, worker>>
    BY DEF Presaved, At
  <1>2. "idle_sleep" \in Operation /\ "teardown" \in Await /\ ~Restores(c)
    BY <1>1 DEF Operation, Await, Restores
  <1>3. Suspend(c, "idle_sleep", "teardown") => Owning(c)'
    BY DEF Suspend, Owning, LifecycleIInv, OwnTypes
  <1>4. CASE /\ backend = "tmux"
             /\ EstablishOrReturn(c, "idle_sleep", "teardown", "idle_sleeping", "user_agent")
    <2>1. ~Owning(c)
      BY <1>1, <1>4 DEF Owning
    <2> QED BY <1>1, <1>2, <1>3, <1>4, <2>1, EstablishedOrReturned, AtAwait, Together
  <1>5. CASE backend = "codex" /\ Suspend(c, "idle_sleep", "teardown") /\ UNCHANGED tsVars
    <2>1. Owning(c) /\ Owning(c)'
      BY <1>1, <1>3, <1>5 DEF Owning
    <2>2. MachineInv'
      BY <1>5, MachineKept DEF LifecycleIInv
    <2> QED BY <1>1, <1>2, <1>5, <2>1, <2>2, MovedAlone, AtAwait, Together
  <1> QED BY <1>4, <1>5 DEF Presaved

\* disconnect, alone or over a forced restart it cancels, whose transition it closes.
LEMMA DisconnectIInv ==
    ASSUME LifecycleIInv, NEW c \in Callers, Disconnect(c), UNCHANGED backend
    PROVE  LifecycleIInv'
  <1>1. Free(c) /\ UNCHANGED <<tries, worker>>
    BY DEF Disconnect, Starts
  <1>2. ~Owning(c) /\ ~Restores(c) /\ ~Waiting(c) /\ "disconnect" \in Operation /\ "teardown" \in Await
    BY <1>1, AtAwait DEF Free, Owning, Restores, Operation, Await
  <1>3. CASE Suspend(c, "disconnect", "teardown") /\ UNCHANGED <<tsVars, substrate>>
    <2>1. Elsewhere(c)' /\ ~Owning(c)' /\ Restores(c)'
      BY <1>3 DEF Suspend, Owning, Elsewhere, Restores, LifecycleIInv, OwnTypes
    <2>2. MachineInv'
      BY <1>3, MachineKept DEF LifecycleIInv
    <2> QED BY <1>1, <1>2, <1>3, <2>1, <2>2, MovedAlone, AtAwait, Together
  <1>4. ASSUME NEW f \in Callers, CancelRecovery(c, f),
               op' = [op EXCEPT ![c] = "disconnect", ![f] = "none"],
               pc' = [pc EXCEPT ![c] = "teardown", ![f] = "idle"],
               substrate' = (substrate /\ pc[f] \notin {"spawning", "spawned"})
        PROVE  LifecycleIInv'
    <2>1. f # c /\ op[f] = "force_restart" /\ pc[f] # "waiting"
      BY <1>4, AtAwait DEF CancelRecovery, Owning, Elsewhere
    <2>2. /\ op' \in [Callers -> Operation] /\ pc' \in [Callers -> Await]
          /\ op'[c] = "disconnect" /\ pc'[c] = "teardown" /\ op'[f] = "none" /\ pc'[f] = "idle"
          /\ \A d \in Callers \ {c, f} : op'[d] = op[d] /\ pc'[d] = pc[d]
      BY <1>4, <2>1 DEF LifecycleIInv, OwnTypes, Operation, Await
    <2>3. /\ Restores(c)' /\ Elsewhere(c)' /\ Elsewhere(f)' /\ ~Owning(c)' /\ ~Owning(f)'
          /\ \A d \in Callers \ {c, f} :
                (Owning(d)' <=> Owning(d)) /\ (Elsewhere(d)' <=> Elsewhere(d))
      BY <2>2 DEF Restores, Elsewhere, Owning
    <2>4. /\ MachineInv'
          /\ \A d \in Callers : Waiting(d)' => Waiting(d)
          /\ \A d \in Callers \ {f} : Owning(d) => TokenMatches(d)'
          /\ InFlight' => InFlight /\ ~Owning(f)
      <3>1. CASE TokenMatches(f)
        BY <1>4, <3>1, Completed DEF CancelRecovery, LifecycleIInv, CoroutineInv
      <3>2. CASE ~TokenMatches(f)
        <4>1. UNCHANGED tsVars
          BY <1>4, <3>2 DEF CancelRecovery
        <4> QED BY <3>2, <4>1, MachineKept, AtAwait DEF LifecycleIInv, tsVars, vars, TokenMatches
      <3> QED BY <3>1, <3>2
    <2>5. Program' /\ OwnersHold' /\ Drains'
      BY <2>3, <2>4 DEF Program, OwnersHold, Drains, LifecycleIInv, CoroutineInv
    <2>6. Blocked'
      BY <1>2, <2>1, <2>2, <2>4 DEF Blocked, LifecycleIInv, CoroutineInv
    <2>7. OwnerAtWork'
      BY <1>2, <2>3, <2>4 DEF OwnerAtWork, LifecycleIInv, CoroutineInv
    <2>8. substrate' \in BOOLEAN
      BY <1>4
    <2> QED BY <1>1, <2>2, <2>4, <2>5, <2>6, <2>7, <2>8, AtAwait, Together DEF CoroutineInv
  <1> QED BY <1>3, <1>4 DEF Disconnect

\* The two halves of a teardown, and what each operation does after it.
LEMMA TeardownFirstIInv ==
    ASSUME LifecycleIInv, NEW c \in Callers, TeardownFirst(c), UNCHANGED backend
    PROVE  LifecycleIInv'
  <1>1. /\ pc[c] = "teardown" /\ pc' = [pc EXCEPT ![c] = "teardown2"]
        /\ UNCHANGED <<tsVars, op, tries>>
    BY DEF TeardownFirst
  <1>2. substrate' \in BOOLEAN /\ worker' \in BOOLEAN
    BY AtAwait DEF TeardownFirst
  <1>3. Suspend(c, op[c], "teardown2") /\ op[c] \in Operation /\ "teardown2" \in Await
    BY <1>1, AtAwait DEF Suspend, LifecycleIInv, OwnTypes, Await
  <1>4. /\ op[c] \in {"force_restart", "reconnect", "idle_sleep", "disconnect"}
        /\ op'[c] = op[c] /\ pc'[c] = "teardown2"
    BY <1>1, AtAwait DEF Owning, Elsewhere, LifecycleIInv, OwnTypes
  <1>5. (Owning(c) <=> Owning(c)') /\ (Owning(c) \/ Elsewhere(c))' /\ (Restores(c)' \/ Owning(c))
    BY <1>1, <1>4 DEF Owning, Elsewhere, Restores
  <1>6. MachineInv'
    BY <1>1, MachineKept DEF LifecycleIInv
  <1>7. ~Waiting(c) /\ (state = "connected" => Restores(c)')
    BY <1>1, <1>5, AtAwait
  <1> QED BY <1>1, <1>2, <1>3, <1>5, <1>6, <1>7, MovedAlone, AtAwait, Together

\* The second half, and what the operation does after it.
LEMMA TeardownRestIInv ==
    ASSUME LifecycleIInv, NEW c \in Callers, TeardownRest(c), UNCHANGED backend
    PROVE  LifecycleIInv'
  <1>1. pc[c] = "teardown2" /\ AfterTeardown(c) /\ UNCHANGED tries
    BY DEF TeardownRest
  <1>2. substrate' \in BOOLEAN /\ worker' \in BOOLEAN
    BY AtAwait DEF TeardownRest
  <1>3. /\ Operation = {"none", "connect", "force_restart", "idle_sleep", "reconnect", "disconnect"}
        /\ {"idle", "spawning", "backoff", "closing"} \subseteq Await
    BY DEF Operation, Await
  <1>4. ~Waiting(c)
    BY <1>1, AtAwait
  <1>5. ASSUME NEW a \in {"spawning", "backoff"}, Suspend(c, op[c], a), UNCHANGED tsVars,
               \/ op[c] = "force_restart" /\ a = "spawning"
               \/ op[c] = "reconnect" /\ a = "backoff"
        PROVE  LifecycleIInv'
    <2>1. op'[c] = op[c] /\ pc'[c] = a
      BY <1>5 DEF Suspend, LifecycleIInv, OwnTypes
    <2>2. Owning(c) /\ Owning(c)'
      BY <1>1, <1>5, <2>1 DEF Owning
    <2>3. MachineInv'
      BY <1>5, MachineKept DEF LifecycleIInv
    <2> QED BY <1>1, <1>2, <1>3, <1>4, <1>5, <2>2, <2>3, MovedAlone, AtAwait, Together
  <1>6. CASE op[c] = "idle_sleep" /\ Complete(c, "idle_sleeping", "user_agent") /\ Return(c)
    <2>1. op'[c] = "none" /\ pc'[c] = "idle"
      BY <1>6 DEF Return, Suspend, LifecycleIInv, OwnTypes
    <2>2. ~Owning(c)' /\ Elsewhere(c)'
      BY <2>1 DEF Owning, Elsewhere
    <2> QED BY <1>1, <1>2, <1>3, <1>6, <2>2, MovedReported, AtAwait, Together DEF Return
  <1>7. CASE /\ op[c] = "disconnect" /\ state = "connected"
             /\ EstablishOrReturn(c, "disconnect", "closing", "dead", "internal")
    <2>1. ~Owning(c)
      BY <1>1, <1>7 DEF Owning
    <2>2. Suspend(c, "disconnect", "closing") => Owning(c)'
      BY DEF Suspend, Owning, LifecycleIInv, OwnTypes
    <2> QED BY <1>1, <1>2, <1>3, <1>7, <2>1, <2>2, EstablishedOrReturned, AtAwait, Together
  <1>8. CASE op[c] = "disconnect" /\ state # "connected" /\ Return(c) /\ UNCHANGED tsVars
    <2>1. op'[c] = "none" /\ pc'[c] = "idle"
      BY <1>8 DEF Return, Suspend, LifecycleIInv, OwnTypes
    <2>2. ~Owning(c)' /\ ~Owning(c) /\ Elsewhere(c)'
      BY <1>1, <1>8, <2>1 DEF Owning, Elsewhere
    <2>3. MachineInv'
      BY <1>8, MachineKept DEF LifecycleIInv
    <2> QED BY <1>1, <1>2, <1>3, <1>4, <1>8, <2>2, <2>3, MovedAlone, AtAwait, Together DEF Return
  <1>9. CASE op[c] = "force_restart" /\ Suspend(c, op[c], "spawning") /\ UNCHANGED tsVars
    BY <1>5, <1>9
  <1>10. CASE op[c] = "reconnect" /\ Suspend(c, op[c], "backoff") /\ UNCHANGED tsVars
    BY <1>5, <1>10
  <1> QED BY <1>1, <1>6, <1>7, <1>8, <1>9, <1>10 DEF AfterTeardown

\* An owner goes on to its next await.
LEMMA OwnerGoesOn ==
    ASSUME LifecycleIInv, NEW c \in Callers, NEW a \in {"spawning", "spawned", "backoff", "teardown"},
           Owning(c), UNCHANGED <<tsVars, backend>>, Suspend(c, op[c], a), Owning(c)'
    PROVE  MachineInv' /\ CoroutineInv' /\ op' \in [Callers -> Operation] /\ pc' \in [Callers -> Await]
  <1>1. a \in Await
    BY DEF Await
  <1>2. ~Waiting(c) /\ state # "connected" /\ op[c] \in Operation
    BY AtAwait DEF Owning
  <1>3. MachineInv'
    BY MachineKept DEF LifecycleIInv
  <1> QED BY <1>1, <1>2, <1>3, MovedAlone

\* An owner reports that it is over, and returns.
LEMMA OwnerReturns ==
    ASSUME LifecycleIInv, NEW c \in Callers, NEW final \in SessionState, NEW trig,
           pc[c] # "waiting", Complete(c, final, trig), Return(c), UNCHANGED backend,
           final = "connected" => worker'
    PROVE  MachineInv' /\ CoroutineInv' /\ op' \in [Callers -> Operation] /\ pc' \in [Callers -> Await]
  <1>1. op'[c] = "none" /\ pc'[c] = "idle" /\ "none" \in Operation /\ "idle" \in Await
    BY DEF Return, Suspend, LifecycleIInv, OwnTypes, Operation, Await
  <1>2. ~Owning(c)' /\ Elsewhere(c)'
    BY <1>1 DEF Owning, Elsewhere
  <1> QED BY <1>1, <1>2, MovedReported DEF Return

\* A coroutine that owns nothing, and is not needed to restore the session, returns.
LEMMA OtherReturns ==
    ASSUME LifecycleIInv, NEW c \in Callers,
           ~Waiting(c), Return(c), UNCHANGED <<tsVars, backend>>,
           CancelAnywhere \/ ~Owning(c),
           ~CancelAnywhere /\ state = "connected" =>
               worker' = TRUE \/ (worker' = worker /\ ~Restores(c))
    PROVE  MachineInv' /\ CoroutineInv' /\ op' \in [Callers -> Operation] /\ pc' \in [Callers -> Await]
  <1>1. op'[c] = "none" /\ pc'[c] = "idle" /\ "none" \in Operation /\ "idle" \in Await
    BY DEF Return, Suspend, LifecycleIInv, OwnTypes, Operation, Await
  <1>2. ~Owning(c)' /\ Elsewhere(c)'
    BY <1>1 DEF Owning, Elsewhere
  <1>3. MachineInv'
    BY MachineKept DEF LifecycleIInv
  <1>4. ~CancelAnywhere /\ state = "connected" /\ ~worker' => \E d \in Callers : d # c /\ Restores(d)
    BY DEF LifecycleIInv, CoroutineInv, Drains
  <1> QED BY <1>1, <1>2, <1>3, <1>4, MovedAlone DEF Return

\* The bring-up, by its owner.
LEMMA BringUpIInv ==
    ASSUME LifecycleIInv, NEW c \in Callers, BackoffElapses(c) \/ SubstrateUp(c), UNCHANGED backend
    PROVE  LifecycleIInv'
  <1>1. PICK a \in {"spawning", "spawned"} :
           /\ Suspend(c, op[c], a) /\ UNCHANGED <<tsVars, tries, worker>>
           /\ \/ pc[c] = "backoff" /\ a = "spawning"
              \/ pc[c] = "spawning" /\ a = "spawned"
    BY DEF BackoffElapses, SubstrateUp
  <1>2. op'[c] = op[c] /\ pc'[c] = a
    BY <1>1 DEF Suspend, LifecycleIInv, OwnTypes
  <1>3. Owning(c) /\ Owning(c)'
    BY <1>1, <1>2, AtAwait DEF Owning, Elsewhere
  <1>4. substrate' \in BOOLEAN
    BY AtAwait DEF BackoffElapses, SubstrateUp
  <1> QED BY <1>1, <1>3, <1>4, OwnerGoesOn, AtAwait, Together

\* A bring-up that fails is tried again by its owner, or reported.
LEMMA BringUpFailsIInv ==
    ASSUME LifecycleIInv, NEW c \in Callers, BringUpFails(c), UNCHANGED backend
    PROVE  LifecycleIInv'
  <1>1. pc[c] \in {"spawning", "spawned"} /\ UNCHANGED worker /\ substrate' = FALSE
    BY DEF BringUpFails
  <1>2. Owning(c)
    BY <1>1, AtAwait DEF Elsewhere
  <1>3. CASE /\ op[c] = "reconnect" /\ tries[c] > 1
             /\ tries' = [tries EXCEPT ![c] = @ - 1]
             /\ Suspend(c, "reconnect", IF backend = "codex" THEN "teardown" ELSE "backoff")
             /\ UNCHANGED tsVars
    <2>1. PICK a \in {"teardown", "backoff"} : Suspend(c, op[c], a)
      BY <1>3
    <2>2. op'[c] = op[c] /\ pc'[c] = a
      BY <2>1 DEF Suspend, LifecycleIInv, OwnTypes
    <2>3. Owning(c)'
      BY <1>3, <2>2 DEF Owning
    <2>4. tries' \in [Callers -> 0..Attempts]
      BY <1>3, AtAwait, AttemptsAssumption
    <2> QED BY <1>1, <1>2, <1>3, <2>1, <2>3, <2>4, OwnerGoesOn, AtAwait, Together
  <1>4. CASE Complete(c, "dead", FailureTrigger(c)) /\ Return(c) /\ UNCHANGED tries
    BY <1>1, <1>4, OwnerReturns, AtAwait, Together
  <1> QED BY <1>3, <1>4 DEF BringUpFails

\* CONNECTED is published with a worker, or by a coroutine on its way to start one.
LEMMA PublishIInv ==
    ASSUME LifecycleIInv, NEW c \in Callers, Publish(c), UNCHANGED backend
    PROVE  LifecycleIInv'
  <1>1. /\ pc[c] = "spawned" /\ Complete(c, "connected", CompletionTrigger(c))
        /\ UNCHANGED <<tries, substrate>>
    BY DEF Publish
  <1>2. CASE backend = "tmux" /\ op[c] # "connect" /\ Suspend(c, op[c], "rewake") /\ UNCHANGED worker
    <2>1. op'[c] = op[c] /\ pc'[c] = "rewake" /\ "rewake" \in Await
      BY <1>2 DEF Suspend, LifecycleIInv, OwnTypes, Await
    <2>2. op[c] \in {"force_restart", "reconnect"}
      BY <1>1, <1>2, AtAwait DEF Owning, Elsewhere
    <2>3. ~Owning(c)' /\ Elsewhere(c)' /\ Restores(c)'
      BY <2>1, <2>2 DEF Owning, Elsewhere, Restores
    <2> QED BY <1>1, <1>2, <2>1, <2>3, MovedReported, AtAwait, Together
  <1>3. CASE Return(c) /\ worker' = TRUE
    BY <1>1, <1>3, OwnerReturns, AtAwait, Together
  <1> QED BY <1>2, <1>3 DEF Publish

\* The owner closes its transition, or a task dies with it.
LEMMA ClosingIInv ==
    ASSUME LifecycleIInv, NEW c \in Callers, Close(c) \/ CancelHandled(c), UNCHANGED backend
    PROVE  LifecycleIInv'
  <1>1. PICK trig : Complete(c, "dead", trig) /\ Return(c) /\ UNCHANGED <<tries, worker>>
    BY DEF Close, CancelHandled
  <1>2. pc[c] # "waiting" /\ substrate' \in BOOLEAN
    BY AtAwait DEF Close, CancelHandled, ClosesOnCancel
  <1> QED BY <1>1, <1>2, OwnerReturns, AtAwait, Together

\* A task that dies unhandled leaves its transition in flight, or settles it in DEAD.
LEMMA CancelUnhandledIInv ==
    ASSUME LifecycleIInv, NEW c \in Callers, CancelUnhandled(c), UNCHANGED backend
    PROVE  LifecycleIInv'
  <1>1. /\ CancelAnywhere /\ pc[c] # "waiting"
        /\ Return(c) /\ UNCHANGED <<tries, substrate, worker>>
        /\ Complete(c, "dead", "internal") \/ UNCHANGED tsVars
    BY DEF CancelUnhandled
  <1>2. ~Waiting(c)
    BY <1>1, AtAwait
  <1>3. CASE Complete(c, "dead", "internal")
    BY <1>1, <1>3, OwnerReturns, AtAwait, Together
  <1>4. CASE UNCHANGED tsVars
    BY <1>1, <1>2, <1>4, OtherReturns, AtAwait, Together
  <1> QED BY <1>1, <1>3, <1>4

\* The worker, started or stopped, and the substrate.
LEMMA RewakeIInv ==
    ASSUME LifecycleIInv, NEW c \in Callers, Rewake(c) \/ WaitReturns(c), UNCHANGED backend
    PROVE  LifecycleIInv'
  <1>1. /\ Return(c) /\ UNCHANGED <<tsVars, tries, substrate>>
        /\ \/ pc[c] = "rewake" /\ worker' = TRUE
           \/ pc[c] = "waiting" /\ ~Waiting(c) /\ worker' = worker
    BY DEF Rewake, WaitReturns
  <1>2. ~Owning(c) /\ ~Waiting(c) /\ (pc[c] = "waiting" => ~Restores(c))
    BY <1>1, AtAwait DEF Owning, Restores
  <1>3. CASE pc[c] = "rewake" /\ worker' = TRUE
    BY <1>1, <1>2, <1>3, OtherReturns, AtAwait, Together
  <1>4. CASE pc[c] = "waiting" /\ worker' = worker
    BY <1>1, <1>2, <1>4, OtherReturns, AtAwait, Together
  <1> QED BY <1>1, <1>3, <1>4

\* The worker leaves a session that is not CONNECTED; the substrate dies on its own.
LEMMA WorldIInv ==
    ASSUME LifecycleIInv, WorkerExits \/ SubstrateDies, UNCHANGED backend
    PROVE  LifecycleIInv'
  <1>1. /\ UNCHANGED <<tsVars, op, pc, tries>> /\ worker' \in BOOLEAN /\ substrate' \in BOOLEAN
        /\ state = "connected" /\ ~worker' => ~worker
    BY DEF WorkerExits, SubstrateDies, LifecycleIInv, OwnTypes
  <1> QED BY <1>1, Stayed, Together DEF LifecycleIInv, OwnTypes

\* A worker that dies has scheduled the coroutine that will see to it.
LEMMA WorkerDiesIInv ==
    ASSUME LifecycleIInv, NEW c \in Callers, WorkerDies(c), UNCHANGED backend
    PROVE  LifecycleIInv'
  <1>1. PICK a \in {"teardown", "terminalize"} :
           /\ Free(c) /\ Suspend(c, "disconnect", a) /\ worker' = FALSE
           /\ UNCHANGED <<tsVars, tries, substrate>>
    BY DEF WorkerDies, Starts
  <1>2. op'[c] = "disconnect" /\ pc'[c] = a /\ "disconnect" \in Operation /\ a \in Await
    BY <1>1 DEF Suspend, LifecycleIInv, OwnTypes, Operation, Await
  <1>3. ~Owning(c) /\ ~Waiting(c) /\ ~Owning(c)' /\ Elsewhere(c)' /\ Restores(c)'
    BY <1>1, <1>2, AtAwait DEF Free, Owning, Elsewhere, Restores
  <1>4. MachineInv'
    BY <1>1, MachineKept DEF LifecycleIInv
  <1> QED BY <1>1, <1>2, <1>3, <1>4, MovedAlone, AtAwait, Together

\* That coroutine claims DEAD, unless someone else is at work.
LEMMA TerminalizeDeadIInv ==
    ASSUME LifecycleIInv, NEW c \in Callers, TerminalizeDead(c), UNCHANGED backend
    PROVE  LifecycleIInv'
  <1>1. /\ pc[c] = "terminalize" /\ UNCHANGED <<tries, substrate, worker>>
        /\ EstablishOrReturn(c, "disconnect", "closing", "dead", "internal")
    BY DEF TerminalizeDead
  <1>2. ~Owning(c) /\ "disconnect" \in Operation /\ "closing" \in Await
    BY <1>1 DEF Owning, Operation, Await
  <1>3. Suspend(c, "disconnect", "closing") => Owning(c)'
    BY DEF Suspend, Owning, LifecycleIInv, OwnTypes
  <1> QED BY <1>1, <1>2, <1>3, EstablishedOrReturned, AtAwait, Together

-----------------------------------------------------------------------------
(* The invariant, and what it gives                                          *)

\* Every initial state satisfies the inductive invariant.
LEMMA LifecycleInitIInv == LifecycleInit => LifecycleIInv
  <1> SUFFICES ASSUME LifecycleInit PROVE LifecycleIInv
    OBVIOUS
  <1>1. MachineInv
    BY MaxTokensAssumption
    DEF LifecycleInit, Init, MachineInv, TypeOK, TokensBounded, SubscribersWait, FlightIsState,
       OneHolder,
        NoReporter
  <1>2. OwnTypes
    <2>1. substrate \in BOOLEAN /\ worker \in BOOLEAN
      BY DEF LifecycleInit
    <2>2. tries \in [Callers -> 0..Attempts]
      BY AttemptsAssumption DEF LifecycleInit
    <2> QED BY <2>1, <2>2 DEF LifecycleInit, OwnTypes, Operation, Await
  <1>3. CoroutineInv
    BY DEF LifecycleInit, Init, CoroutineInv, Program, Blocked, OwnersHold, Drains, OwnerAtWork,
       Owning,
           Elsewhere
  <1> QED BY <1>1, <1>2, <1>3 DEF LifecycleIInv

\* Every step preserves it.
LEMMA LifecycleNextIInv == LifecycleIInv /\ [LifecycleNext]_allVars => LifecycleIInv'
  <1> SUFFICES ASSUME LifecycleIInv, [LifecycleNext]_allVars PROVE LifecycleIInv'
    OBVIOUS
  <1>1. CASE UNCHANGED allVars
    <2>1. UNCHANGED <<tsVars, op, pc, tries, substrate, worker, backend>>
      BY <1>1 DEF allVars, ownVars
    <2> QED BY <2>1, Stayed, Together DEF LifecycleIInv, OwnTypes
  <1>2. CASE LifecycleNext
    <2>1. LifecycleStep /\ UNCHANGED backend
      BY <1>2 DEF LifecycleNext
    <2>2. ASSUME NEW c \in Callers, NEW trig \in WakeTriggers, Connect(c, trig) \/ Reconnect(c, trig)
          PROVE  LifecycleIInv'
      BY <2>1, <2>2, ConnectIInv, ReconnectIInv
    <2>3. ASSUME NEW c \in Callers, ForceRestart(c) \/ IdleSleep(c) \/ Disconnect(c)
          PROVE  LifecycleIInv'
      BY <2>1, <2>3, ForceRestartIInv, IdleSleepIInv, DisconnectIInv
    <2>4. ASSUME NEW c \in Callers, Resume(c)
          PROVE  LifecycleIInv'
      BY <2>1, <2>4, PresavedIInv, TeardownFirstIInv, TeardownRestIInv, ClosingIInv, BringUpIInv,
         BringUpFailsIInv, PublishIInv, RewakeIInv, TerminalizeDeadIInv DEF Resume
    <2>5. ASSUME NEW c \in Callers, CancelHandled(c) \/ CancelUnhandled(c) \/ WorkerDies(c)
          PROVE  LifecycleIInv'
      BY <2>1, <2>5, ClosingIInv, CancelUnhandledIInv, WorkerDiesIInv
    <2>6. CASE WorkerExits \/ SubstrateDies
      BY <2>1, <2>6, WorldIInv
    <2> QED BY <2>1, <2>2, <2>3, <2>4, <2>5, <2>6 DEF LifecycleStep
  <1> QED BY <1>1, <1>2

\* The inductive invariant holds throughout.
LEMMA LifecycleInvariant == LifecycleSpec => []LifecycleIInv
  BY LifecycleInitIInv, LifecycleNextIInv, PTL DEF LifecycleSpec

\* Type correctness of the session and of the machine it drives.
THEOREM LifecycleTypeCorrect == LifecycleSpec => []LifecycleTypeOK
  <1>1. LifecycleIInv => LifecycleTypeOK
    BY DEF LifecycleIInv, MachineInv, OwnTypes, LifecycleTypeOK
  <1> QED BY <1>1, LifecycleInvariant, PTL

\* However many coroutines connect, restart, reconnect, sleep and disconnect, and wherever
\* their tasks are cancelled, one of them at most brings the substrate up (tmux_session.py
\* and codex_session.py, connect and attempt_reconnect): each bring-up owns the transition
\* in flight, and that has one owner.
THEOREM OneBringUpHolds == LifecycleSpec => []OneBringUp
  <1>1. LifecycleIInv => OneBringUp
    <2> SUFFICES ASSUME LifecycleIInv, NEW c \in Callers, NEW d \in Callers,
                        pc[c] \in {"backoff", "spawning", "spawned"},
                        pc[d] \in {"backoff", "spawning", "spawned"}
                 PROVE  c = d
      BY DEF OneBringUp
    <2>1. Owning(c) /\ Owning(d)
      BY AtAwait DEF Elsewhere
    <2> QED BY <2>1, AtAwait DEF LifecycleIInv, MachineInv, OneHolder, TokenMatches
  <1> QED BY <1>1, LifecycleInvariant, PTL

\* A CONNECTED session nobody is at work on drains its queue, where no task dies in an
\* operation that has no handler for it: whoever stops the worker of a CONNECTED session, or
\* publishes CONNECTED before it starts one, stays at work until it is CONNECTED no longer or
\* has its worker.  A restart cancelled at its wake prompt (tmux_session.py, _force_restart
\* and _reconnect_attempts) is what the assumption excludes.
THEOREM ConnectedSessionsDrain ==
    ASSUME ~CancelAnywhere
    PROVE  LifecycleSpec => []ConnectedDrains
  <1>1. LifecycleIInv => ConnectedDrains
    BY DEF LifecycleIInv, CoroutineInv, Drains, ConnectedDrains, Restores, Free
  <1> QED BY <1>1, LifecycleInvariant, PTL

\* The driver contract of OwnerToken, where no task dies in an operation that has no
\* handler for it: a transition in flight has its owner inside the operation.
THEOREM DriverContractHolds ==
    ASSUME ~CancelAnywhere
    PROVE  LifecycleSpec => []DriverContract
  <1>1. LifecycleIInv => DriverContract
    BY AtAwait
    DEF LifecycleIInv, CoroutineInv, OwnerAtWork, DriverContract, Owning, Free, TokenMatches
  <1> QED BY <1>1, LifecycleInvariant, PTL

-----------------------------------------------------------------------------
(* Refinement: the backends drive the machine by its own steps               *)

\* A request of a caller that is not blocked, and would not join itself, is a step of the
\* machine.
LEMMA RequestRefines ==
    ASSUME NEW c \in Callers, NEW target \in SessionState, NEW trig \in Trigger, ~Waiting(c),
           \/ Grant(c, target, trig)
           \/ Subscribe(c, target) /\ OwnerDoesNotJoinItself(c, target)
           \/ Observe(c, target) \/ Reject(c, target, trig)
    PROVE  [Next]_vars
  <1>1. CASE Observe(c, target) \/ Reject(c, target, trig)
    BY <1>1 DEF Observe, Reject
  <1>2. CASE Grant(c, target, trig)
    <2>1. OwnerDoesNotJoinItself(c, target)
      BY <1>2 DEF Grant, OwnerDoesNotJoinItself, TokenMatches
    <2> QED BY <1>2, <2>1 DEF Next, RequestTransition
  <1>3. CASE Subscribe(c, target) /\ OwnerDoesNotJoinItself(c, target)
    BY <1>3 DEF Next, RequestTransition
  <1> QED BY <1>1, <1>2, <1>3

\* A completion of a coroutine that is not blocked is a step of the machine.
LEMMA CompleteRefines ==
    ASSUME LifecycleIInv, NEW c \in Callers, NEW final \in SessionState, NEW trig \in Trigger,
           pc[c] # "waiting", Complete(c, final, trig)
    PROVE  [Next]_vars
  <1>1. held[c] # 0
    BY DEF Complete, TokenMatches, LifecycleIInv, MachineInv, TypeOK
  <1>2. ~Waiting(c)
    BY AtAwait
  <1> QED BY <1>1, <1>2 DEF Next, TransitionComplete

\* The same of a coroutine's requests, as its operations make them.
LEMMA EstablishRefines ==
    ASSUME LifecycleIInv, ~CancelAnywhere, NEW c \in Callers, Free(c),
           NEW o, NEW a, NEW target \in SessionState, NEW trig \in Trigger,
           Establish(c, o, a, target, trig)
    PROVE  [Next]_vars
  <1>1. ~Waiting(c) /\ ~Owning(c)
    BY AtAwait DEF Free, Owning
  <1>2. OwnerDoesNotJoinItself(c, target)
    <2>1. ~TokenMatches(c)
      BY <1>1, AtAwait DEF LifecycleIInv, CoroutineInv, OwnerAtWork, MachineInv, OneHolder,
         TokenMatches
    <2> QED BY <2>1 DEF OwnerDoesNotJoinItself
  <1> QED BY <1>1, <1>2, RequestRefines DEF Establish

\* A request with the handle dropped never subscribes.
LEMMA EstablishOrReturnRefines ==
    ASSUME LifecycleIInv, NEW c \in Callers, pc[c] # "waiting",
           NEW o, NEW a, NEW target \in SessionState, NEW trig \in Trigger,
           EstablishOrReturn(c, o, a, target, trig)
    PROVE  [Next]_vars
  BY AtAwait, RequestRefines DEF EstablishOrReturn, tsVars

\* Every step of the backends is one of the machine, or none.
LEMMA LifecycleStepRefines ==
    ASSUME ~CancelAnywhere
    PROVE  LifecycleIInv /\ [LifecycleNext]_allVars => [Next]_vars
  <1> SUFFICES ASSUME LifecycleIInv, [LifecycleNext]_allVars PROVE [Next]_vars
    OBVIOUS
  <1>1. CASE UNCHANGED tsVars
    BY <1>1 DEF tsVars
  <1>2. CASE LifecycleStep
    <2> USE WakeTriggersAssumption DEF Trigger
    <2>1. ASSUME NEW c \in Callers, NEW trig \in WakeTriggers, Connect(c, trig) \/ Reconnect(c, trig)
          PROVE  [Next]_vars
      <3>1. Free(c) /\ trig \in Trigger
        BY <2>1 DEF Connect, Reconnect, Starts
      <3>2. \/ Establish(c, "connect", "spawning", "booting", "boot")
            \/ Establish(c, "connect", "spawning", "reconnecting", trig)
            \/ Establish(c, "reconnect", "teardown", "reconnecting", trig)
        BY <2>1 DEF Connect, Reconnect
      <3> QED BY <3>1, <3>2, EstablishRefines
    <2>2. ASSUME NEW c \in Callers,
                 ForceRestart(c) \/ IdleSleep(c) \/ Presaved(c) \/ TerminalizeDead(c)
          PROVE  [Next]_vars
      BY <1>1, <2>2, EstablishOrReturnRefines
      DEF ForceRestart, IdleSleep, Presaved, TerminalizeDead, Starts, Free, At
    <2>3. ASSUME NEW c \in Callers, Disconnect(c)
          PROVE  [Next]_vars
      <3>1. ASSUME NEW f \in Callers, CancelRecovery(c, f)
            PROVE  [Next]_vars
        <4>1. pc[f] # "waiting"
          BY <3>1, AtAwait DEF CancelRecovery, Owning, Elsewhere
        <4> QED BY <1>1, <3>1, <4>1, CompleteRefines DEF CancelRecovery
      <3> QED BY <1>1, <2>3, <3>1 DEF Disconnect
    <2>4. ASSUME NEW c \in Callers, TeardownRest(c)
          PROVE  [Next]_vars
      BY <1>1, <2>4, CompleteRefines, EstablishOrReturnRefines DEF TeardownRest, AfterTeardown
    <2>5. ASSUME NEW c \in Callers,
                 \/ Close(c) \/ BringUpFails(c) \/ Publish(c)
                 \/ CancelHandled(c) \/ CancelUnhandled(c)
          PROVE  [Next]_vars
      BY <1>1, <2>5, CompleteRefines
      DEF Close, BringUpFails, Publish, CancelHandled, ClosesOnCancel, CancelUnhandled,
          FailureTrigger, CompletionTrigger
    <2>6. ASSUME NEW c \in Callers,
                 \/ WaitReturns(c) \/ TeardownFirst(c) \/ BackoffElapses(c) \/ SubstrateUp(c)
                 \/ Rewake(c) \/ WorkerDies(c) \/ WorkerExits \/ SubstrateDies
          PROVE  [Next]_vars
      BY <1>1, <2>6
      DEF WaitReturns, TeardownFirst, BackoffElapses, SubstrateUp, Rewake, WorkerDies, WorkerExits,
          SubstrateDies
    <2>7. CASE WorkerExits \/ SubstrateDies
      BY <1>1, <2>7 DEF WorkerExits, SubstrateDies
    <2> QED BY <1>2, <2>1, <2>2, <2>3, <2>4, <2>5, <2>6, <2>7 DEF LifecycleStep, Resume
  <1> QED BY <1>1, <1>2 DEF LifecycleNext, allVars

\* The backends use the state machine only through its protocol: no coroutine reports with a
\* token it does not hold, acts while it is blocked, or waits for itself.  This is where the
\* driver contract is needed: a free coroutine that still held the token in flight could
\* subscribe to its own transition.
THEOREM BackendsUseTheMachine ==
    ASSUME ~CancelAnywhere
    PROVE  LifecycleSpec => UsesTransportState
  <1>1. LifecycleInit => Init
    BY DEF LifecycleInit
  <1> QED BY <1>1, LifecycleInvariant, LifecycleStepRefines, PTL
          DEF LifecycleSpec, UsesTransportState, Spec

\* So all that is proved of the machine is true of the sessions that drive it; among it,
\* that no connect() waits for a bring-up that is gone.
THEOREM NoCoroutineStranded ==
    ASSUME ~CancelAnywhere
    PROVE  LifecycleSpec => []NoStrandedSubscriber
  BY BackendsUseTheMachine, NobodyStranded, PTL DEF UsesTransportState

=============================================================================
