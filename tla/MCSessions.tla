----------------------------- MODULE MCSessions -----------------------------
(* Five protocols around the sessions of one agent, checked in one run: a    *)
(* behaviour exercises one of them, and the others stay as they begin.       *)
(*   lifecycle: three coroutines drive one session of a backend              *)
(*   dedupe: three identical sends, of either mode                           *)
(*   recovery: one StreamingSession                                          *)
(*   watchdog: one label and the sessions registered under it                *)
(*   autonomy: the event queue and the work loops                            *)
EXTENDS SessionLifecycle, OutboundDedupe, StreamingRecovery, SessionWatchdog, AutonomyLoop

CONSTANTS c1, c2, c3

VARIABLE running

ThreeCallers == {c1, c2, c3}
BrokerAndWatchdog == {"broker", "watchdog"}
BothModes == {"plain", "completion"}
OneTool == {"tool"}

everyVar == <<running, allVars, dedupeVars, recoveryVars, watchdogVars, autonomyVars>>

SessionsInit ==
    /\ running \in {"lifecycle", "dedupe", "recovery", "watchdog", "autonomy"}
    /\ LifecycleInit /\ (running # "lifecycle" => backend = "tmux" /\ state = "dead")
    /\ DedupeInit /\ (running # "dedupe" => mode = "plain")
    /\ RecoveryInit
    /\ WatchdogInit /\ (running # "watchdog" => stamps = FALSE)
    /\ AutonomyInit /\ (running # "autonomy" => enabled)

SessionsNext ==
    \/ /\ running = "lifecycle" /\ LifecycleNext
       /\ UNCHANGED <<running, dedupeVars, recoveryVars, watchdogVars, autonomyVars>>
    \/ /\ running = "dedupe" /\ DedupeNext
       /\ UNCHANGED <<running, allVars, recoveryVars, watchdogVars, autonomyVars>>
    \/ /\ running = "recovery" /\ RecoveryNext
       /\ UNCHANGED <<running, allVars, dedupeVars, watchdogVars, autonomyVars>>
    \/ /\ running = "watchdog" /\ WatchdogNext
       /\ UNCHANGED <<running, allVars, dedupeVars, recoveryVars, autonomyVars>>
    \/ /\ running = "autonomy" /\ AutonomyNext
       /\ UNCHANGED <<running, allVars, dedupeVars, recoveryVars, watchdogVars>>

\* The fairness of FairLifecycleSpec, RecoverySpec, WatchdogSpec and AutonomySpec,
\* each for its own behaviours.
SessionsFairness ==
    /\ \A c \in Callers : WF_allVars(running = "lifecycle" /\ Resume(c) /\ UNCHANGED backend)
    /\ \A t \in Operations : WF_recoveryVars(running = "recovery" /\ Advances(t))
    /\ WF_recoveryVars(running = "recovery" /\ QuiesceEnds)
    /\ WF_recoveryVars(running = "recovery" /\ ReconnectRuns)
    /\ WF_recoveryVars(running = "recovery" /\ RestartRuns)
    /\ WF_recoveryVars(running = "recovery" /\ BackoffEnds)
    /\ WF_recoveryVars(running = "recovery" /\ SleepResumes)
    /\ WF_recoveryVars(running = "recovery" /\ SleepGoesOn)
    /\ WF_recoveryVars(running = "recovery" /\ sstate \in {"dead", "reconnecting"} /\ ReplaceBegins(FALSE))
    /\ WF_watchdogVars(running = "watchdog" /\ Ticks)
    /\ WF_watchdogVars(running = "watchdog" /\ Sweeps)
    /\ WF_watchdogVars(running = "watchdog" /\ AlertEnds)
    /\ WF_watchdogVars(running = "watchdog" /\ Recovers)
    /\ \A l \in Loops : WF_autonomyVars(running = "autonomy" /\ LoopStep(l))

SessionsSpec == SessionsInit /\ [][SessionsNext]_everyVar /\ SessionsFairness

=============================================================================
