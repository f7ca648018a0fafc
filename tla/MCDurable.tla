------------------------------ MODULE MCDurable ------------------------------
(* Four protocols whose state outlives a process, checked in one run: a      *)
(* behaviour exercises one of them, and the others stay as they begin.       *)
(*   dream: the runners of two daemon processes, one after the other         *)
(*   overlap: the same in the last night, one beside the other               *)
(*   buzz: two channels with an event each, two pollers                      *)
(*   telegram: two messages that the platform keeps, two pollers             *)
(*   restore: one store, the tool, the daemon and some other process         *)
EXTENDS DreamLease, BuzzInbound, TelegramPoll, StoreRestore

CONSTANTS d1, d2, general, ops, p1, p2

VARIABLE running

TwoRunners == {d1, d2}
OneRunner == {d1}
TwoChannels == {general, ops}
EventChannels == <<general, ops>>
TwoPollers == {p1, p2}
TwoBotPollers == {"b1", "b2"}

allVars == <<running, dreamVars, buzzVars, telegramVars, restoreVars>>

DurableInit ==
    /\ running \in {"dream", "overlap", "buzz", "telegram", "restore"}
    /\ arrived = 0 /\ history = {} /\ night = IF running = "overlap" THEN MaxNights ELSE 1
    /\ attempts = [a \in Attempts |-> NoReceipt]
    /\ watermark = 0
    /\ run = [r \in Runners |-> IdleRun]
    /\ dreaming = {} /\ written = {} /\ outlived = {} /\ abandoned = {}
    /\ faults = 0
    /\ BuzzInit /\ (running # "buzz" => listed = {general})
    /\ TelegramInit
    /\ RestoreInit

DurableNext ==
    \/ /\ running = "dream" /\ DreamNext /\ TakeTurns'
       /\ UNCHANGED <<running, buzzVars, telegramVars, restoreVars>>
    \/ /\ running = "overlap" /\ DreamNext
       /\ UNCHANGED <<running, buzzVars, telegramVars, restoreVars>>
    \/ /\ running = "buzz" /\ BuzzNext
       /\ UNCHANGED <<running, dreamVars, telegramVars, restoreVars>>
    \/ /\ running = "telegram" /\ TelegramNext
       /\ UNCHANGED <<running, dreamVars, buzzVars, restoreVars>>
    \/ /\ running = "restore" /\ RestoreNext
       /\ UNCHANGED <<running, dreamVars, buzzVars, telegramVars>>

\* The fairness of DreamSpec, BuzzSpec and TelegramSpec, each for its own behaviours.
DurableFairness ==
    /\ \A r \in Runners : WF_dreamVars(running \in {"dream", "overlap"} /\ RunStep(r))
    /\ WF_dreamVars(running \in {"dream", "overlap"} /\ NightTurns)
    /\ \A p \in Pollers : WF_buzzVars(running = "buzz" /\ PollerGoesOn(p))
    /\ \A e \in Events : WF_buzzVars(running = "buzz" /\ LeaseRunsOut(e))
    /\ WF_telegramVars(running = "telegram" /\ PollBegins)
    /\ \A k \in Polls :
         /\ WF_telegramVars(running = "telegram" /\ ThreadStep(k))
         /\ WF_telegramVars(running = "telegram" /\ Collect(k))
         /\ WF_telegramVars(running = "telegram" /\ poll[k].at = "stuck" /\ DeadlineFires(k))
    /\ \A u \in Updates : WF_telegramVars(running = "telegram" /\ DeliveryEnds(u))

DurableSpec == DurableInit /\ [][DurableNext]_allVars /\ DurableFairness

=============================================================================
