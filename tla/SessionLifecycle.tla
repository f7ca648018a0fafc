-------------------------- MODULE SessionLifecycle --------------------------
(***************************************************************************)
(* The coroutines that drive one retained transport session through its    *)
(* state machine: connect, force_restart, idle_sleep, attempt_reconnect    *)
(* and disconnect of TmuxSession and CodexSession, interleaved at their    *)
(* awaits.  The two backends share this choreography and differ where      *)
(* backend is tested.  Recovery ownership (PINKY_SESSION_CLASS_REBUILD,    *)
(* PINKY_RESUME_FAILSAFE) is off, its default.                             *)
(*                                                                         *)
(* The substrate is the tmux pane or the codex app-server; the worker is   *)
(* the task that drains the message queue.                                 *)
(***************************************************************************)
EXTENDS TransportState

CONSTANTS
    Backends,         \* the kinds of session: "tmux", "codex"
    WakeTriggers,     \* triggers callers pass to connect and attempt_reconnect
    Attempts,         \* bound: len(_RECONNECT_BACKOFF)
    CancelAnywhere    \* whether the task of any operation may be cancelled at its awaits

ASSUME BackendsAssumption == Backends \subseteq {"tmux", "codex"}
ASSUME WakeTriggersAssumption == WakeTriggers \subseteq Trigger
ASSUME AttemptsAssumption == Attempts \in Nat \ {0}
ASSUME CancelAssumption == CancelAnywhere \in BOOLEAN

VARIABLES
    backend,     \* the kind of this session, fixed
    op,          \* op[c]: the operation coroutine c runs
    pc,          \* pc[c]: the await it is suspended at
    tries,       \* tries[c]: bring-up attempts left to attempt_reconnect
    substrate,   \* whether the pane or the app-server process is up
    worker       \* whether a queue drainer is running

tsVars == vars
ownVars == <<op, pc, tries, substrate, worker>>
allVars == <<tsVars, backend, ownVars>>

Operation == {"none", "connect", "force_restart", "idle_sleep", "reconnect", "disconnect"}

Await ==
    {"idle", "waiting", "presave", "teardown", "teardown2", "backoff",
     "spawning", "spawned", "rewake", "closing", "terminalize"}

LifecycleInit ==
    /\ Init
    /\ backend \in Backends
    /\ op = [c \in Callers |-> "none"]
    /\ pc = [c \in Callers |-> "idle"]
    /\ tries = [c \in Callers |-> 0]
    /\ substrate = FALSE
    /\ worker = FALSE

\* Suspend c at await a of operation o.
Suspend(c, o, a) ==
    /\ op' = [op EXCEPT ![c] = o]
    /\ pc' = [pc EXCEPT ![c] = a]

Return(c) == Suspend(c, "none", "idle")

Free(c) == pc[c] = "idle"

\* Bound: an operation starts only while the tokens left suffice for it and for
\* every operation under way (each is granted one at most).
TokensLeft == minted + Cardinality({c \in Callers : ~Free(c)}) < MaxTokens

Starts(c) == Free(c) /\ TokensLeft

At(c, o, a) == op[c] = o /\ pc[c] = a

\* The request, and where the operation stands after it: the owner goes on to
\* await a, a subscriber waits for the owner's outcome, anyone else returns.
Establish(c, o, a, target, trig) ==
    \/ Grant(c, target, trig) /\ Suspend(c, o, a)
    \/ Subscribe(c, target) /\ Suspend(c, o, "waiting")
    \/ (Observe(c, target) \/ Reject(c, target, trig)) /\ UNCHANGED <<op, pc>>

\* A request whose subscriber handle is dropped: without a token, return.
EstablishOrReturn(c, o, a, target, trig) ==
    \/ Grant(c, target, trig) /\ Suspend(c, o, a)
    \/ /\ InFlight \/ state = target \/ ~Legal(state, target, trig)
       /\ Return(c)
       /\ UNCHANGED tsVars

-----------------------------------------------------------------------------
(* connect().  The test of the state and the request run without an await    *)
(* between them.  From CONNECTED and from RECONNECTING it returns at once.   *)

\* Mutant: only UNINITIALIZED asks for the BOOT; a caller that finds BOOTING falls
\* through to a handshake of its own.
ConnectPastBooting(c, trig) ==
    /\ Starts(c)
    /\ \/ /\ state = "uninitialized"
          /\ Establish(c, "connect", "spawning", "booting", "boot")
       \/ state = "booting" /\ Suspend(c, "connect", "spawning") /\ UNCHANGED tsVars
       \/ /\ state \in {"idle_sleeping", "dead"}
          /\ Establish(c, "connect", "spawning", "reconnecting", trig)
    /\ UNCHANGED <<tries, substrate, worker>>

Connect(c, trig) ==
    /\ Starts(c)
    /\ \/ /\ state \in {"uninitialized", "booting"}
          /\ Establish(c, "connect", "spawning", "booting", "boot")
       \/ /\ state \in {"idle_sleeping", "dead"}
          /\ Establish(c, "connect", "spawning", "reconnecting", trig)
    /\ UNCHANGED <<tries, substrate, worker>>

\* InFlightHandle.wait() returned: CONNECTED is success, anything else raises.
WaitReturns(c) ==
    /\ pc[c] = "waiting"
    /\ ~Waiting(c)
    /\ Return(c)
    /\ UNCHANGED <<tsVars, tries, substrate, worker>>

(* force_restart(): own RECONNECTING, tear down, bring up.                   *)
ForceRestart(c) ==
    /\ Starts(c)
    /\ EstablishOrReturn(c, "force_restart", "teardown", "reconnecting", "user_agent")
    /\ UNCHANGED <<tries, substrate, worker>>

(* attempt_reconnect(): own RECONNECTING, retry the bring-up under it.       *)
Reconnect(c, trig) ==
    /\ Starts(c)
    /\ backend = "tmux" => state # "reconnecting"
    /\ Establish(c, "reconnect", "teardown", "reconnecting", trig)
    /\ tries' = [tries EXCEPT ![c] = IF minted' > minted THEN Attempts ELSE @]
    /\ UNCHANGED <<substrate, worker>>

(* idle_sleep(): tmux asks the agent to save while still CONNECTED and only  *)
(* then claims IDLE_SLEEPING; codex claims it first and saves as its owner.  *)
IdleSleep(c) ==
    /\ Starts(c)
    /\ state = "connected"
    /\ \/ backend = "tmux" /\ Suspend(c, "idle_sleep", "presave") /\ UNCHANGED tsVars
       \/ /\ backend = "codex"
          /\ EstablishOrReturn(c, "idle_sleep", "presave", "idle_sleeping", "user_agent")
    /\ UNCHANGED <<tries, substrate, worker>>

Presaved(c) ==
    /\ At(c, "idle_sleep", "presave")
    /\ \/ /\ backend = "tmux"
          /\ EstablishOrReturn(c, "idle_sleep", "teardown", "idle_sleeping", "user_agent")
       \/ backend = "codex" /\ Suspend(c, "idle_sleep", "teardown") /\ UNCHANGED tsVars
    /\ UNCHANGED <<tries, substrate, worker>>

-----------------------------------------------------------------------------
(* disconnect(), on its own or as the teardown of the operations above.      *)

\* Another coroutine's force_restart, scheduled by the wake-submission recovery,
\* is cancelled first; its finally clause closes a transition it still owns.
\* Codex has no such task.
CancelRecovery(c, f) ==
    /\ backend = "tmux"
    /\ f # c
    /\ op[f] = "force_restart"
    /\ IF TokenMatches(f) THEN Complete(f, "dead", "internal") ELSE UNCHANGED tsVars

Disconnect(c) ==
    /\ Starts(c)
    /\ \/ Suspend(c, "disconnect", "teardown") /\ UNCHANGED <<tsVars, substrate>>
       \/ \E f \in Callers :
            /\ CancelRecovery(c, f)
            /\ op' = [op EXCEPT ![c] = "disconnect", ![f] = "none"]
            /\ pc' = [pc EXCEPT ![c] = "teardown", ![f] = "idle"]
            /\ substrate' = (substrate /\ pc[f] \notin {"spawning", "spawned"})
    /\ UNCHANGED <<tries, worker>>

\* The first awaited half: tmux cancels the worker, codex stops the app-server.
TeardownFirst(c) ==
    /\ pc[c] = "teardown"
    /\ pc' = [pc EXCEPT ![c] = "teardown2"]
    /\ IF backend = "tmux" THEN worker' = FALSE /\ UNCHANGED substrate
                           ELSE substrate' = FALSE /\ UNCHANGED worker
    /\ UNCHANGED <<tsVars, op, tries>>

\* What the operation does when its teardown returns.  A bare disconnect of a
\* session that is (still or again) CONNECTED claims DEAD.
AfterTeardown(c) ==
    \/ op[c] = "force_restart" /\ Suspend(c, op[c], "spawning") /\ UNCHANGED tsVars
    \/ op[c] = "reconnect" /\ Suspend(c, op[c], "backoff") /\ UNCHANGED tsVars
    \/ op[c] = "idle_sleep" /\ Complete(c, "idle_sleeping", "user_agent") /\ Return(c)
    \/ /\ op[c] = "disconnect"
       /\ state = "connected"
       /\ EstablishOrReturn(c, "disconnect", "closing", "dead", "internal")
    \/ op[c] = "disconnect" /\ state # "connected" /\ Return(c) /\ UNCHANGED tsVars

TeardownRest(c) ==
    /\ pc[c] = "teardown2"
    /\ IF backend = "tmux" THEN substrate' = FALSE /\ UNCHANGED worker
                           ELSE worker' = FALSE /\ UNCHANGED substrate
    /\ AfterTeardown(c)
    /\ UNCHANGED tries

Close(c) ==
    /\ pc[c] = "closing"
    /\ Complete(c, "dead", "internal")
    /\ Return(c)
    /\ UNCHANGED <<tries, substrate, worker>>

-----------------------------------------------------------------------------
(* Bring-up: _spawn_tmux_repl / _bring_up_substrate under an owned           *)
(* transition, then the completion that publishes CONNECTED.                 *)

BackoffElapses(c) ==
    /\ pc[c] = "backoff"
    /\ Suspend(c, op[c], "spawning")
    /\ UNCHANGED <<tsVars, tries, substrate, worker>>

SubstrateUp(c) ==
    /\ pc[c] = "spawning"
    /\ substrate' = TRUE
    /\ Suspend(c, op[c], "spawned")
    /\ UNCHANGED <<tsVars, tries, worker>>

FailureTrigger(c) == IF inFlight.target = "booting" THEN "boot_failed" ELSE "internal"

\* Mutant: a failure raises out of the operation without reporting it.
BringUpFailsSilently(c) ==
    /\ pc[c] \in {"spawning", "spawned"}
    /\ substrate' = FALSE
    /\ Return(c)
    /\ UNCHANGED <<tsVars, tries, worker>>

\* A failed bring-up rolls its substrate back.  attempt_reconnect has its budget;
\* codex repeats the disconnect before each attempt.
BringUpFails(c) ==
    /\ pc[c] \in {"spawning", "spawned"}
    /\ substrate' = FALSE
    /\ \/ /\ op[c] = "reconnect" /\ tries[c] > 1
          /\ tries' = [tries EXCEPT ![c] = @ - 1]
          /\ Suspend(c, "reconnect", IF backend = "codex" THEN "teardown" ELSE "backoff")
          /\ UNCHANGED tsVars
       \/ /\ op[c] # "reconnect" \/ tries[c] = 1
          /\ Complete(c, "dead", FailureTrigger(c))
          /\ Return(c)
          /\ UNCHANGED tries
    /\ UNCHANGED worker

CompletionTrigger(c) == IF inFlight.target = "booting" THEN "boot_complete" ELSE "internal"

\* Mutant: the restart paths bring the session up but respawn no worker.
PublishOnly(c) ==
    /\ pc[c] = "spawned"
    /\ Complete(c, "connected", CompletionTrigger(c))
    /\ Return(c)
    /\ worker' = (worker \/ op[c] = "connect")
    /\ UNCHANGED <<tries, substrate>>

\* The tmux restart paths await the wake prompt between publishing CONNECTED and
\* starting the worker, so that it leads the requeued backlog.
Publish(c) ==
    /\ pc[c] = "spawned"
    /\ Complete(c, "connected", CompletionTrigger(c))
    /\ IF backend = "tmux" /\ op[c] # "connect"
       THEN Suspend(c, op[c], "rewake") /\ UNCHANGED worker
       ELSE Return(c) /\ worker' = TRUE
    /\ UNCHANGED <<tries, substrate>>

Rewake(c) ==
    /\ pc[c] = "rewake"
    /\ worker' = TRUE
    /\ Return(c)
    /\ UNCHANGED <<tsVars, tries, substrate>>

\* The awaits at which the operation closes the transition it owns when it is cancelled.
ClosesOnCancel(c) ==
    \/ op[c] = "connect" /\ pc[c] \in {"spawning", "spawned"}
    \/ op[c] = "force_restart" /\ pc[c] \in {"teardown", "teardown2", "spawning", "spawned"}

\* A cancelled connect (the cold-start umbrella's timeout) or force_restart (a
\* disconnect cancels its recovery task) closes its transition.
CancelHandled(c) ==
    /\ ClosesOnCancel(c)
    /\ substrate' = (substrate /\ pc[c] \notin {"spawning", "spawned"})
    /\ Complete(c, "dead", FailureTrigger(c))
    /\ Return(c)
    /\ UNCHANGED <<tries, worker>>

\* The task dies at any other await.  idle_sleep of tmux and attempt_reconnect of both
\* leave the method with their token unreported; idle_sleep of codex catches BaseException
\* and settles in DEAD.  A restart path that dies at its wake prompt, and a disconnect
\* that dies at all, leave what they found or published to itself, worker or none.  Left
\* out: a cancelled subscriber, which is one that returns early, and the claim of DEAD,
\* whose two calls do not suspend (the machine's lock is never held at an await).
CancelUnhandled(c) ==
    /\ CancelAnywhere
    /\ pc[c] \notin {"idle", "waiting", "closing"}
    /\ ~ClosesOnCancel(c)
    /\ IF backend = "codex" /\ op[c] = "idle_sleep"
       THEN Complete(c, "dead", "internal")
       ELSE UNCHANGED tsVars
    /\ Return(c)
    /\ UNCHANGED <<tries, substrate, worker>>

-----------------------------------------------------------------------------
(* The worker and the world.                                                 *)

\* The worker loops while the session is CONNECTED.
WorkerExits ==
    /\ worker
    /\ state # "connected"
    /\ worker' = FALSE
    /\ UNCHANGED <<tsVars, op, pc, tries, substrate>>

SubstrateDies ==
    /\ substrate
    /\ substrate' = FALSE
    /\ UNCHANGED <<tsVars, op, pc, tries, worker>>

\* The worker stops while the session is CONNECTED: on a dead pane it has
\* scheduled a disconnect; a codex worker's done-callback schedules
\* _terminalize_dead.  The scheduled task is coroutine c.
WorkerDies(c) ==
    /\ Starts(c)
    /\ worker
    /\ state = "connected"
    /\ worker' = FALSE
    /\ \/ backend = "tmux" /\ ~substrate /\ Suspend(c, "disconnect", "teardown")
       \/ backend = "codex" /\ Suspend(c, "disconnect", "terminalize")
    /\ UNCHANGED <<tsVars, tries, substrate>>

TerminalizeDead(c) ==
    /\ pc[c] = "terminalize"
    /\ EstablishOrReturn(c, "disconnect", "closing", "dead", "internal")
    /\ UNCHANGED <<tries, substrate, worker>>

\* What coroutine c does at its next resumption.
Resume(c) ==
    \/ WaitReturns(c)
    \/ Presaved(c)
    \/ TeardownFirst(c)
    \/ TeardownRest(c)
    \/ Close(c)
    \/ BackoffElapses(c)
    \/ SubstrateUp(c)
    \/ BringUpFails(c)
    \/ Publish(c)
    \/ Rewake(c)
    \/ TerminalizeDead(c)

LifecycleStep ==
    \/ \E c \in Callers, trig \in WakeTriggers : Connect(c, trig)
    \/ \E c \in Callers, trig \in WakeTriggers : Reconnect(c, trig)
    \/ \E c \in Callers : ForceRestart(c)
    \/ \E c \in Callers : IdleSleep(c)
    \/ \E c \in Callers : Disconnect(c)
    \/ \E c \in Callers : Resume(c)
    \/ \E c \in Callers : CancelHandled(c)
    \/ \E c \in Callers : CancelUnhandled(c)
    \/ \E c \in Callers : WorkerDies(c)
    \/ WorkerExits
    \/ SubstrateDies

LifecycleNext == LifecycleStep /\ UNCHANGED backend

LifecycleSpec == LifecycleInit /\ [][LifecycleNext]_allVars

\* Every await of these coroutines is bounded (timeouts, backoff, process exit)
\* except the wait for another coroutine's outcome, which is what is checked.
FairLifecycleSpec == LifecycleSpec /\ \A c \in Callers : WF_allVars(Resume(c) /\ UNCHANGED backend)

-----------------------------------------------------------------------------

LifecycleTypeOK ==
    /\ TypeOK
    /\ op \in [Callers -> Operation]
    /\ pc \in [Callers -> Await]
    /\ tries \in [Callers -> 0..Attempts]
    /\ substrate \in BOOLEAN
    /\ worker \in BOOLEAN

\* One bring-up at a time: "concurrent connect() calls on a fresh or sleeping
\* session result in exactly one tmux spawn", and no restart or retry loop spawns
\* beside it either.
OneBringUp ==
    \A c, d \in Callers :
        pc[c] \in {"backoff", "spawning", "spawned"} /\ pc[d] \in {"backoff", "spawning", "spawned"}
            => c = d

\* The driver contract of OwnerToken: a transition in flight always has an owner
\* that is still inside the operation it was granted to.
DriverContract ==
    InFlight => \E c \in Callers : held[c] = inFlight.token /\ ~Free(c)

\* A session that is CONNECTED with no operation under way drains its queue: no
\* interleaving of restarts, sleeps and disconnects ends "CONNECTED with no worker
\* ... silently inert" (the watchdog's comment).
ConnectedDrains ==
    (state = "connected" /\ \A c \in Callers : Free(c)) => worker

\* Every operation returns: no coroutine waits forever for another one.
OperationsReturn == \A c \in Callers : ~Free(c) ~> Free(c)

\* The backends use the state machine only through its protocol: every step they
\* take is one of the machine's own.
UsesTransportState == Spec

=============================================================================
