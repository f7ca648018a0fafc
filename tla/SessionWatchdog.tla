--------------------------- MODULE SessionWatchdog ---------------------------
(***************************************************************************)
(* The session watchdog of one agent and label: what its sweeps remember   *)
(* of a streaming session, and when they replace it (session_watchdog.py   *)
(* with _watchdog_recover in api.py).  Time is the clock of the sweeps: a  *)
(* tick is check_interval seconds, a sweep runs in every tick, and ages    *)
(* are counted up to the longest threshold.                                *)
(***************************************************************************)
EXTENDS Naturals

CONSTANTS
    WarnAfter, RecoverAfter,        \* of progress, in ticks
    TransitionWarn, TransitionRecover,
    Activities,     \* the tools a session can be seen using
    MaxTurns,       \* bound: turns of one session object
    MaxTroubles     \* bound: hangs, drops, replacements and recoveries that fail

ASSUME WatchdogAssumption ==
    /\ WarnAfter \in Nat \ {0} /\ RecoverAfter \in Nat /\ WarnAfter <= RecoverAfter
    /\ TransitionWarn \in Nat \ {0} /\ TransitionRecover \in Nat
    /\ TransitionWarn <= TransitionRecover /\ TransitionRecover <= RecoverAfter
    /\ MaxTurns \in Nat \ {0} /\ MaxTroubles \in Nat /\ "" \notin Activities

VARIABLES
    stamps,         \* the transport stamps state_entered_at on every change (tmux, Codex)
    session,        \* what is registered under the label
    watch,          \* _states[(agent, label)]
    sweep,          \* where the sweep is, and what it has decided
    sinceRecovery,  \* history: ticks since the last recovery for lack of progress
    troubles

watchdogVars == <<stamps, session, watch, sweep, sinceRecovery, troubles>>

Ages == 0..RecoverAfter
Older(age) == IF age = RecoverAfter THEN age ELSE age + 1

\* entered: the age of state_entered_at; inState and idle are true ages the code does not
\* have: in this state, and without a turn, a change of activity or an empty queue.
Session ==
    [ registered : BOOLEAN, state : {"connected", "reconnecting", "resting"},
      turns : 0..MaxTurns, activity : Activities \cup {""}, pending : BOOLEAN,
      hung : BOOLEAN, entered : Ages, inState : Ages, idle : Ages ]

NewSession ==
    [ registered |-> TRUE, state |-> "connected", turns |-> 0, activity |-> "",
      pending |-> FALSE, hung |-> FALSE, entered |-> 0, inState |-> 0, idle |-> 0 ]

\* _AgentState; recovered_at as the ticks its grace period has left.
Watch ==
    [ known : BOOLEAN, turns : 0..MaxTurns, activity : Activities \cup {""}, stale : Ages,
      warned : BOOLEAN, grace : 0..WarnAfter, inTransition : BOOLEAN,
      transitionWarned : BOOLEAN, transitionGrace : 0..TransitionWarn ]

Unwatched ==
    [ known |-> FALSE, turns |-> 0, activity |-> "", stale |-> 0, warned |-> FALSE,
      grace |-> 0, inTransition |-> FALSE, transitionWarned |-> FALSE, transitionGrace |-> 0 ]

\* due, done, or at an await: of the alert (and a recovery after it), of the recovery.
Sweep == [at : {"due", "done", "alert", "recover"}, tier : {"progress", "transition"}, then : BOOLEAN]

Done == [at |-> "done", tier |-> "progress", then |-> FALSE]

WatchdogInit ==
    /\ stamps \in BOOLEAN
    /\ session = NewSession
    /\ watch = Unwatched
    /\ sweep = Done
    /\ sinceRecovery = RecoverAfter
    /\ troubles = 0

Trouble == troubles < MaxTroubles /\ troubles' = troubles + 1

-----------------------------------------------------------------------------
(* The session                                                               *)

Works == session.registered /\ session.state = "connected" /\ ~session.hung

\* A message is queued, in a session that has none.
MessageArrives ==
    /\ session.registered /\ session.state = "connected" /\ ~session.pending
    /\ session' = [session EXCEPT !.pending = TRUE, !.idle = 0]
    /\ UNCHANGED <<stamps, watch, sweep, sinceRecovery, troubles>>

ToolUsed ==
    /\ Works /\ session.pending
    /\ \E tool \in Activities \ {session.activity} :
         session' = [session EXCEPT !.activity = tool, !.idle = 0]
    /\ UNCHANGED <<stamps, watch, sweep, sinceRecovery, troubles>>

TurnEnds ==
    /\ Works /\ session.pending /\ session.turns < MaxTurns
    /\ \E more \in BOOLEAN :
         session' = [session EXCEPT !.turns = @ + 1, !.activity = "", !.pending = more, !.idle = 0]
    /\ UNCHANGED <<stamps, watch, sweep, sinceRecovery, troubles>>

Hangs ==
    /\ session.registered /\ ~session.hung
    /\ Trouble
    /\ session' = [session EXCEPT !.hung = TRUE]
    /\ UNCHANGED <<stamps, watch, sweep, sinceRecovery>>

\* Only a change through the state machine stamps the entry: StreamingSession assigns
\* _state when it reconnects and when it is put to rest.
Enters(state) ==
    [session EXCEPT !.state = state, !.inState = 0, !.idle = 0,
                    !.entered = IF stamps THEN 0 ELSE @]

Drops ==
    /\ session.registered /\ session.state = "connected"
    /\ Trouble
    /\ session' = Enters("reconnecting")
    /\ UNCHANGED <<stamps, watch, sweep, sinceRecovery>>

Reconnects ==
    /\ session.registered /\ session.state = "reconnecting" /\ ~session.hung
    /\ session' = Enters("connected")
    /\ UNCHANGED <<stamps, watch, sweep, sinceRecovery, troubles>>

\* Idle sleep, and the wake.
RestsOrWakes ==
    /\ session.registered /\ session.state # "reconnecting" /\ ~session.hung /\ ~session.pending
    /\ session' = Enters(IF session.state = "resting" THEN "connected" ELSE "resting")
    /\ UNCHANGED <<stamps, watch, sweep, sinceRecovery, troubles>>

\* Another part of the daemon retires the session, and one registers a new object, whose
\* wake prompt may still be pending.
Unregistered ==
    /\ session.registered
    /\ Trouble
    /\ session' = [NewSession EXCEPT !.registered = FALSE]
    /\ UNCHANGED <<stamps, watch, sweep, sinceRecovery>>

Registered ==
    /\ ~session.registered
    /\ \E waking \in BOOLEAN : session' = [NewSession EXCEPT !.pending = waking]
    /\ UNCHANGED <<stamps, watch, sweep, sinceRecovery, troubles>>

Ticks ==
    /\ sweep = Done
    /\ sweep' = [Done EXCEPT !.at = "due"]
    /\ session' = [session EXCEPT
         !.entered = Older(@), !.inState = Older(@),
         !.idle = IF session.pending /\ session.state = "connected" THEN Older(@) ELSE 0]
    /\ watch' = [watch EXCEPT !.stale = Older(@), !.grace = IF @ = 0 THEN 0 ELSE @ - 1,
                              !.transitionGrace = IF @ = 0 THEN 0 ELSE @ - 1]
    /\ sinceRecovery' = Older(sinceRecovery)
    /\ UNCHANGED <<stamps, troubles>>

-----------------------------------------------------------------------------
(* A sweep: it decides on a snapshot, alerts, and then recovers              *)

\* The entry of the session under the label, set up at its first sight.
Watched ==
    IF watch.known THEN watch
    ELSE [Unwatched EXCEPT !.known = TRUE, !.turns = session.turns, !.activity = session.activity]

Decides(tier, alert, recover) ==
    sweep' = IF ~alert /\ ~recover THEN Done
             ELSE [at |-> IF alert THEN "alert" ELSE "recover", tier |-> tier, then |-> recover]

SweepsNothing ==
    /\ sweep.at = "due" /\ ~session.registered
    /\ watch' = Unwatched
    /\ sweep' = Done
    /\ UNCHANGED <<stamps, session, sinceRecovery, troubles>>

\* _evaluate_transition (its warning is repeated only for a transition a sweep did not
\* see before).
SweepsTransition ==
    /\ sweep.at = "due" /\ session.registered /\ session.state = "reconnecting"
    /\ LET w == Watched
           age == session.entered
           fresh == ~w.inTransition
           warned == w.transitionWarned /\ ~fresh
           alert == w.transitionGrace = 0 /\ ~warned /\ age >= TransitionWarn
       IN  /\ watch' = [w EXCEPT !.inTransition = TRUE, !.transitionWarned = warned \/ alert]
           /\ Decides("transition", alert, w.transitionGrace = 0 /\ age >= TransitionRecover)
    /\ UNCHANGED <<stamps, session, sinceRecovery, troubles>>

\* Mutant: warned once, a session is not recovered by a later sweep.
RecoversUnlessWarned(w) == w.stale >= RecoverAfter /\ ~w.warned

RecoversNow(w) == w.stale >= RecoverAfter

\* The progress tier of _evaluate.  A working tmux session may report a live turn.
SweepsProgress ==
    /\ sweep.at = "due" /\ session.registered /\ session.state # "reconnecting"
    /\ LET w == [Watched EXCEPT !.inTransition = FALSE, !.transitionWarned = FALSE,
                                !.transitionGrace = IF Watched.inTransition THEN 0 ELSE @]
           progress == session.turns > w.turns \/ session.activity # w.activity
           candidate == w.grace = 0 /\ session.state = "connected" /\ session.pending
       IN  \/ /\ progress
              /\ watch' = [w EXCEPT !.turns = session.turns, !.activity = session.activity,
                                    !.stale = 0, !.warned = FALSE, !.grace = 0]
              /\ sweep' = Done
           \/ /\ ~progress
              /\ ~candidate \/ (stamps /\ ~session.hung)
              /\ watch' = w
              /\ sweep' = Done
           \/ /\ ~progress /\ candidate
              /\ LET alert == ~w.warned /\ w.stale >= WarnAfter
                 IN  /\ watch' = [w EXCEPT !.warned = @ \/ alert]
                     /\ Decides("progress", alert, RecoversNow(w))
    /\ UNCHANGED <<stamps, session, sinceRecovery, troubles>>

\* The owner was told, or not.
AlertEnds ==
    /\ sweep.at = "alert"
    /\ sweep' = IF sweep.then THEN [sweep EXCEPT !.at = "recover"] ELSE Done
    /\ UNCHANGED <<stamps, session, watch, sinceRecovery, troubles>>

\* Mutant: the progress clock is not reset.
ForgetsToReset == [watch EXCEPT !.warned = FALSE, !.turns = 0, !.activity = ""]

\* The state after a recovery, each tier its own.
AfterProgressRecovery ==
    [watch EXCEPT !.stale = 0, !.grace = WarnAfter, !.warned = FALSE, !.turns = 0, !.activity = ""]

AfterTransitionRecovery ==
    [watch EXCEPT !.inTransition = FALSE, !.transitionWarned = FALSE, !.transitionGrace = TransitionWarn]

\* _watchdog_recover: whatever is under the label by now is torn down and brought up, a
\* retained object with its turns or a new one.  It never raises: a recovery that failed
\* counts as done.
Recovers ==
    /\ sweep.at = "recover"
    /\ \/ /\ \E kept, waking \in BOOLEAN :
               session' = [NewSession EXCEPT !.turns = IF kept THEN session.turns ELSE 0,
                                             !.pending = waking]
          /\ UNCHANGED troubles
       \/ Trouble /\ UNCHANGED session
    /\ IF sweep.tier = "progress"
       THEN watch' = AfterProgressRecovery /\ sinceRecovery' = 0
       ELSE watch' = AfterTransitionRecovery /\ UNCHANGED sinceRecovery
    /\ sweep' = Done
    /\ UNCHANGED stamps

-----------------------------------------------------------------------------

Sweeps == SweepsNothing \/ SweepsTransition \/ SweepsProgress

WatchdogNext ==
    \/ MessageArrives \/ ToolUsed \/ TurnEnds \/ Hangs \/ Drops \/ Reconnects \/ RestsOrWakes
    \/ Unregistered \/ Registered \/ Ticks
    \/ Sweeps \/ AlertEnds \/ Recovers

\* The loop sleeps and sweeps, and what it awaits returns.
WatchdogFairness ==
    /\ WF_watchdogVars(Ticks) /\ WF_watchdogVars(Sweeps)
    /\ WF_watchdogVars(AlertEnds) /\ WF_watchdogVars(Recovers)

WatchdogSpec == WatchdogInit /\ [][WatchdogNext]_watchdogVars /\ WatchdogFairness

-----------------------------------------------------------------------------

WatchdogTypeOK ==
    /\ stamps \in BOOLEAN /\ session \in Session /\ watch \in Watch /\ sweep \in Sweep
    /\ sinceRecovery \in Ages /\ troubles \in 0..MaxTroubles

Stuck ==
    session.registered /\ session.hung
      /\ (session.state = "reconnecting" \/ (session.state = "connected" /\ session.pending))

\* A session that hangs with a message waiting, or in a reconnect, is replaced in the end,
\* also if a recovery fails and if what the watchdog remembers is of another session.
StuckIsReplaced == Stuck ~> ~Stuck

\* The progress tier leaves a session alone for its whole threshold after it recovered it,
\* also if that failed and nothing moved since.
RecoveriesSpaced ==
    [][sweep.at = "recover" /\ sweep.tier = "progress" /\ sweep'.at = "done"
         => sinceRecovery >= RecoverAfter]_watchdogVars

Decided(tier) == sweep.at = "due" /\ sweep'.tier = tier /\ sweep'.then

\* A legitimately slow reconnect is not recovered in mid-retry: the transition tier takes
\* a session only after it has been reconnecting for the threshold.
NotMidRetry ==
    [][Decided("transition") => session.inState >= TransitionRecover]_watchdogVars

\* A session is recovered for lack of progress only if it made none for the threshold
\* while a message was waiting.
OnlyStuckAreRecovered ==
    [][Decided("progress") => session.idle >= RecoverAfter]_watchdogVars

=============================================================================
