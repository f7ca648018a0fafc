---------------------------- MODULE WakeDelivery ----------------------------
(***************************************************************************)
(* Delivery of one agent's scheduled wakes: the cron tick, the cohort      *)
(* tasks and the replay task of pinky_daemon/scheduler.py, the transport's *)
(* queue of scheduler turns (pinky_daemon/tmux_session.py) and the durable *)
(* ledger, with crashes of the daemon, replaced sessions and operators.    *)
(*                                                                         *)
(* The daemon is one event loop: a step of this module is what a coroutine *)
(* does between two awaits, or one commit of it when it makes several (a   *)
(* crash may come between two commits; nothing else may).                  *)
(*                                                                         *)
(* Receipts: turn[f] is the transport's live turn for fire f, one whose    *)
(* receipt is not done yet.  A turn whose receipt is done is inert ("none")*)
(* and the receipt's value goes to whoever waits for it (lane.answer).     *)
(***************************************************************************)
EXTENDS WakeLedger, FiniteSetsExt

CONSTANTS
    OneShot,      \* the schedules that are one-shots
    MaxFaults     \* bound: how often the daemon dies, a pass raises or an operator acts

ASSUME OneShotAssumption == OneShot \subseteq Schedules
ASSUME FaultsAssumption == MaxFaults \in Nat

VARIABLES
    tick,      \* the running cron pass: fires claimed, and the one-shot not yet disabled
    age,       \* age[f]: 0 young, 1 past its busy deadline, 2 past its replay age
    groups,    \* cohort tasks that do not have the lane yet
    replay,    \* the agent's replay task and the coalesced request for another
    lane,      \* who holds the agent's delivery lock, and where it is
    session,   \* the id of the live transport session, or NoSession
    used,      \* the session ids minted so far
    turn,      \* turn[f]: the open turn of fire f
    pastes,    \* pastes[f]: how often f was handed to a pane (history)
    faults

tasks == <<tick, groups, replay, lane>>
transport == <<session, used, turn, pastes>>
deliveryVars == <<ledgerVars, age, faults, tasks, transport>>

Turn == {"none", "queued", "marked", "pasted"}

\* A cohort task that found a replay pass is not ready before that pass is over.
Group == [fires : SUBSET Fires, ready : BOOLEAN]

Stage == {"free", "check", "settle", "probe", "park", "plan", "collapse", "deliver",
          "send", "wait"}

Lane ==
    [ by : {"nobody", "cohort", "replay"}, at : Stage, todo : SUBSET Fires,
      keep : SUBSET Fires, fire : 0..MaxFires,
      answer : {"open", "true", "false"}, any : BOOLEAN ]

Free ==
    [ by |-> "nobody", at |-> "free", todo |-> {}, keep |-> {}, fire |-> 0,
      answer |-> "open", any |-> FALSE ]

NoTick == [claimed |-> {}, disable |-> NoSchedule]
NoReplay == [task |-> "idle", again |-> FALSE]

DeliveryInit ==
    /\ LedgerInit
    /\ tick = NoTick
    /\ age = [f \in Fires |-> 0]
    /\ groups = {}
    /\ replay = NoReplay
    /\ lane = Free
    /\ session = NoSession
    /\ used = {}
    /\ turn = [f \in Fires |-> "none"]
    /\ pastes = [f \in Fires |-> 0]
    /\ faults = 0

\* Stages during which the lane's holder does not yield to the event loop.
Running == {"check", "settle", "park", "plan", "collapse", "deliver"}

\* Nobody is between two commits, and no cohort is at the head of the event loop's
\* ready queue: another coroutine may run.
Yielded == tick = NoTick /\ lane.at \notin Running /\ \A g \in groups : ~g.ready

ScheduleOf(f) == ledger[f].schedule
Recurring(f) == ScheduleOf(f) \in Schedules \ OneShot
InPane(f) == turn[f] \in {"marked", "pasted"}

-----------------------------------------------------------------------------
(* The cron tick.                                                            *)

\* _check_schedules, one due schedule: claim the fire.
TickClaim(s) ==
    /\ lane.at \notin Running /\ \A g \in groups : ~g.ready
    /\ tick.disable = NoSchedule
    /\ \A f \in tick.claimed : ScheduleOf(f) # s
    /\ schedule[s].enabled
    /\ ClaimFire(s, schedule[s].lastRun)
    /\ tick' = [claimed |-> tick.claimed \cup {clock + 1},
                disable |-> IF s \in OneShot THEN s ELSE NoSchedule]
    /\ UNCHANGED <<age, faults, groups, replay, lane, transport>>

\* ... and its second commit, which disables a one-shot.
TickDisable ==
    /\ tick.disable # NoSchedule
    /\ Toggle(tick.disable, FALSE)
    /\ tick' = [tick EXCEPT !.disable = NoSchedule]
    /\ UNCHANGED <<age, faults, groups, replay, lane, transport>>

\* Every schedule was checked: the agent's cohort task starts, and first waits for a
\* replay pass if one is under way.
TickEnd ==
    /\ tick.claimed # {} /\ tick.disable = NoSchedule
    /\ groups' = groups \cup {[fires |-> tick.claimed, ready |-> replay.task = "idle"]}
    /\ tick' = NoTick
    /\ UNCHANGED <<ledgerVars, age, faults, replay, lane, transport>>

\* Time passes for an owed fire: first its busy deadline, then its replay age.
GrowOld(f) ==
    /\ Unsettled(f)
    /\ age[f] < 2
    /\ age' = [age EXCEPT ![f] = @ + 1]
    /\ UNCHANGED <<ledgerVars, faults, tasks, transport>>

-----------------------------------------------------------------------------
(* Cohort tasks.                                                             *)

\* The cohort's next member, or the end of the cohort.
NextMember(todo) ==
    IF todo = {} THEN Free
    ELSE [Free EXCEPT !.by = "cohort", !.at = "check", !.fire = Min(todo),
                      !.todo = todo \ {Min(todo)}]

\* The ready cohorts go in the order of their ticks.
First(g) == g.ready /\ \A h \in groups : h.ready => Min(g.fires) <= Min(h.fires)

\* _deliver_schedule_group finds the agent busy or the lock taken: its rows wait for
\* the replay.
CohortDefer(g) ==
    /\ tick = NoTick /\ lane.at \notin Running
    /\ First(g)
    /\ groups' = groups \ {g}
    /\ UNCHANGED <<ledgerVars, age, faults, tick, replay, lane, transport>>

\* It takes the lock, for all its members.
CohortTake(g) ==
    /\ tick = NoTick
    /\ First(g)
    /\ lane.by = "nobody"
    /\ groups' = groups \ {g}
    /\ lane' = NextMember(g.fires)
    /\ UNCHANGED <<ledgerVars, age, faults, tick, replay, transport>>

\* _deliver_schedule before its first await: persist the fire it carries (a no-op if
\* the row is there); leave it alone if it was settled or held meanwhile; drop it if
\* it is stale; send it.
CohortCheck ==
    /\ lane.at = "check"
    /\ LET f == lane.fire IN
         \/ /\ PersistFire(f)
            /\ UNCHANGED lane
         \/ /\ Stored(f) /\ ~Active(f)
            /\ lane' = NextMember(lane.todo)
            /\ UNCHANGED ledgerVars
         \/ /\ age[f] = 2
            /\ DeleteStale(f)
            /\ lane' = NextMember(lane.todo)
         \/ /\ Active(f) /\ age[f] < 2
            /\ lane' = [lane EXCEPT !.at = "send"]
            /\ UNCHANGED ledgerVars
    /\ UNCHANGED <<age, faults, tick, groups, replay, transport>>

-----------------------------------------------------------------------------
(* The replay task.                                                          *)

\* replay_pending_for_agent: one task at a time, and one more after it.
Requested == IF replay.task = "idle" THEN [replay EXCEPT !.task = "due"]
             ELSE [replay EXCEPT !.again = TRUE]

\* Boot, a turn-idle boundary, or the minute scan.
Trigger ==
    /\ Yielded
    /\ replay' = Requested
    /\ UNCHANGED <<ledgerVars, age, faults, tick, groups, lane, transport>>

\* has_released_pending_wakes, of a table
Debt(rows) ==
    \E f \in Fires : /\ rows[f].stored = "yes" /\ rows[f].released
                     /\ ~rows[f].accepted /\ ~rows[f].parked
                     /\ ~rows[f].abandoned /\ ~rows[f].drain

\* The pass is over.  Its done-callback starts the one more that was asked for, which
\* is first in line for the lock, so that a cohort that waited finds it taken and
\* defers; with no further pass the cohort goes ahead.
PassDone(again) ==
    /\ replay' = [task |-> IF again THEN "due" ELSE "idle", again |-> FALSE]
    /\ groups' = IF again THEN {g \in groups : g.ready}
                 ELSE {[g EXCEPT !.ready = TRUE] : g \in groups}

\* The pass ends; confirmed says whether it saw a receipt, which sweeps what is held
\* and asks for another pass if released work remains.
EndPass(confirmed) ==
    /\ IF confirmed THEN ReleaseDrainParked ELSE UNCHANGED ledgerVars
    /\ PassDone(replay.again \/ (confirmed /\ Debt(ledger')))
    /\ lane' = Free

\* _replay_pending_for_agent gets the lock.
ReplayTake ==
    /\ Yielded
    /\ replay.task = "due"
    /\ lane.by = "nobody"
    /\ replay' = [replay EXCEPT !.task = "running"]
    /\ lane' = [Free EXCEPT !.by = "replay", !.at = "settle", !.todo = 1..clock]
    /\ UNCHANGED <<ledgerVars, age, faults, tick, groups, transport>>

\* Mutant: with no session at all nothing counts as lost.
LostOnlyOnline(f) ==
    /\ Unsettled(f) /\ ledger[f].pasted # NoSession
    /\ session # NoSession /\ ledger[f].pasted # session

\* Pasted by a session that is not the live one, and still unsettled.
LostPaste(f) ==
    Unsettled(f) /\ ledger[f].pasted # NoSession /\ ledger[f].pasted # session

\* _settle_lost_pastes, one row.  With no session at all it waits for a grace
\* period, which the row may still be inside.
SettleLost ==
    /\ lane.at = "settle"
    /\ \E f \in lane.todo :
         /\ f = Min(lane.todo)
         /\ LostPaste(f)
         /\ Abandon(f)
         /\ lane' = [lane EXCEPT !.todo = @ \ {f}]
    /\ UNCHANGED <<age, faults, tick, groups, replay, transport>>

SettleSkip ==
    /\ lane.at = "settle"
    /\ \/ /\ lane.todo = {}
          /\ lane' = [lane EXCEPT !.at = "probe"]
       \/ /\ lane.todo # {}
          /\ ~LostPaste(Min(lane.todo)) \/ session = NoSession
          /\ lane' = [lane EXCEPT !.todo = @ \ {Min(lane.todo)}]
    /\ UNCHANGED <<ledgerVars, age, faults, tick, groups, replay, transport>>

\* Rows of the active outbox that no session has pasted and that outlasted the
\* deadline up to which they wait for an idle agent.
Due(f) == Active(f) /\ ledger[f].pasted = NoSession /\ age[f] > 0

\* The probe finds the agent busy, and nothing is due: the pass ends.
ProbeBusy ==
    /\ Yielded
    /\ lane.at = "probe"
    /\ ~\E f \in Fires : Due(f)
    /\ EndPass(FALSE)
    /\ UNCHANGED <<age, faults, tick, transport>>

\* ... or, its drain budget spent, parks old rows that were not pasted, one commit
\* each.  Which rows are old enough is left open.
ParkForDrain(f) ==
    /\ \/ lane.at = "park"
       \/ Yielded /\ lane.at = "probe" /\ ~\E g \in Fires : Due(g)
    /\ ledger[f].pasted = NoSession
    /\ DrainPark(f)
    /\ lane' = [lane EXCEPT !.at = "park"]
    /\ UNCHANGED <<age, faults, tick, groups, replay, transport>>

ParkDone ==
    /\ lane.at = "park"
    /\ EndPass(FALSE)
    /\ UNCHANGED <<age, faults, tick, transport>>

\* The rows a pass examines: unaccepted and never pasted.
Listed(f) == Stored(f) /\ ~ledger[f].accepted /\ ledger[f].pasted = NoSession

\* Busy, but something is due: only what is due is examined.
ProbeDue ==
    /\ Yielded
    /\ lane.at = "probe"
    /\ \E f \in Fires : Due(f)
    /\ lane' = [lane EXCEPT !.at = "plan", !.todo = {f \in Fires : Listed(f) /\ age[f] > 0}]
    /\ UNCHANGED <<ledgerVars, age, faults, tick, groups, replay, transport>>

\* Idle: on the periodic recheck that releases what is held; then all is examined.
ProbeIdle ==
    /\ Yielded
    /\ lane.at = "probe"
    /\ UNCHANGED ledgerVars \/ ReleaseDrainParked
    /\ lane' = [lane EXCEPT !.at = "plan", !.todo = {f \in Fires : Listed(f)}]
    /\ UNCHANGED <<age, faults, tick, groups, replay, transport>>

\* The schedule of the row can no longer want it.
Zombie(f) ==
    LET s == ScheduleOf(f) IN
    ~schedule[s].exists \/ (s \notin OneShot /\ ~schedule[s].enabled)

\* Mutant: asks whether the recurrence is held, which its release has just undone.
SupersededIfHeld(f) ==
    Recurring(f) /\ ledger[f].drain /\ f <= schedule[ScheduleOf(f)].highWater

\* A released recurrence not newer than the newest accepted one.
Superseded(f) ==
    Recurring(f) /\ ledger[f].released /\ f <= schedule[ScheduleOf(f)].highWater

\* An unaccepted fire of the same schedule is in the pane and can still run.
Fenced(f) ==
    \E g \in Fires : /\ Stored(g) /\ ~ledger[g].accepted /\ ledger[g].pasted # NoSession
                     /\ ScheduleOf(g) = ScheduleOf(f) /\ InPane(g)

\* The policy of one row; the rest of the pass delivers what it keeps.
PlanRow ==
    /\ lane.at = "plan"
    /\ lane.todo # {}
    /\ LET f == Min(lane.todo)
           next == [lane EXCEPT !.todo = @ \ {f}]
           held == ledger[f].drain \/ ledger[f].parked \/ ledger[f].abandoned
       IN  \/ /\ Zombie(f)
              /\ IF ledger[f].parked \/ ledger[f].abandoned
                 THEN UNCHANGED ledgerVars ELSE Park(f)
              /\ lane' = next
           \/ /\ ~Zombie(f) /\ held
              /\ lane' = next
              /\ UNCHANGED ledgerVars
           \/ /\ ~Zombie(f) /\ ~held /\ Superseded(f)
              /\ Park(f)
              /\ lane' = next
           \/ /\ ~Zombie(f) /\ ~held /\ ~Superseded(f) /\ Fenced(f)
              /\ lane' = next
              /\ UNCHANGED ledgerVars
           \/ /\ ~Zombie(f) /\ ~held /\ ~Superseded(f) /\ ~Fenced(f) /\ age[f] = 2
              /\ DeleteStale(f)
              /\ lane' = next
           \/ /\ ~Zombie(f) /\ ~held /\ ~Superseded(f) /\ ~Fenced(f) /\ age[f] < 2
              /\ lane' = [next EXCEPT !.keep = @ \cup {f}]
              /\ UNCHANGED ledgerVars
    /\ UNCHANGED <<age, faults, tick, groups, replay, transport>>

PlanDone ==
    /\ lane.at = "plan"
    /\ lane.todo = {}
    /\ lane' = [lane EXCEPT !.at = "collapse", !.todo = lane.keep]
    /\ UNCHANGED <<ledgerVars, age, faults, tick, groups, replay, transport>>

\* Recurrence collapse: of a recurring schedule only the newest kept fire is left.
Collapse ==
    /\ lane.at = "collapse"
    /\ lane.todo # {}
    /\ LET f == Min(lane.todo)
           older == Recurring(f) /\ \E g \in lane.todo \ {f} : ScheduleOf(g) = ScheduleOf(f)
       IN  IF older
           THEN /\ Park(f)
                /\ lane' = [lane EXCEPT !.todo = @ \ {f}, !.keep = @ \ {f}]
           ELSE /\ lane' = [lane EXCEPT !.todo = @ \ {f}]
                /\ UNCHANGED ledgerVars
    /\ UNCHANGED <<age, faults, tick, groups, replay, transport>>

CollapseDone ==
    /\ lane.at = "collapse"
    /\ lane.todo = {}
    /\ lane' = [lane EXCEPT !.at = "deliver", !.todo = lane.keep, !.keep = {}]
    /\ UNCHANGED <<ledgerVars, age, faults, tick, groups, replay, transport>>

\* The delivery loop takes its next row: capped (park it, stop), settled by somebody
\* else while an earlier row was waited for (skip it), or one more attempt.
DeliverNext ==
    /\ lane.at = "deliver"
    /\ lane.todo # {}
    /\ LET f == Min(lane.todo) IN
         \/ /\ Active(f) /\ ledger[f].attempts = MaxAttempts
            /\ lane' = [lane EXCEPT !.todo = {}]
            /\ Park(f)
         \/ /\ ~Active(f)
            /\ lane' = [lane EXCEPT !.todo = @ \ {f}]
            /\ UNCHANGED ledgerVars
         \/ /\ IncrementAttempts(f)
            /\ lane' = [lane EXCEPT !.todo = @ \ {f}, !.at = "send", !.fire = f,
                                    !.answer = "open"]
    /\ UNCHANGED <<age, faults, tick, groups, replay, transport>>

DeliverDone ==
    /\ lane.at = "deliver"
    /\ lane.todo = {}
    /\ EndPass(lane.any)
    /\ UNCHANGED <<age, faults, tick, transport>>

\* A registry call of the pass raises, and the done-callback drops the coalesced
\* request together with the pass.
PassFails ==
    /\ lane.at = "deliver"
    /\ lane.todo # {}
    /\ faults < MaxFaults
    /\ faults' = faults + 1
    /\ PassDone(FALSE)
    /\ lane' = Free
    /\ UNCHANGED <<ledgerVars, age, tick, transport>>

-----------------------------------------------------------------------------
(* Sending a fire and waiting for its receipt (_wait_for_wake_confirmation). *)

Waits(f) == lane.at = "wait" /\ lane.fire = f /\ lane.answer = "open"

\* The receipt of f resolves to v; a late observer has no lane to tell.
Resolved(f, v) == IF Waits(f) THEN [lane EXCEPT !.answer = v] ELSE lane

\* A failed attempt ends the delivery loop of the pass.
StopPass == [Free EXCEPT !.by = "replay", !.at = "deliver", !.any = lane.any]

\* _wake_callback: the live session queues the prompt, or there is none.
Send ==
    /\ Yielded
    /\ lane.at = "send"
    /\ \/ /\ session # NoSession
          /\ turn' = [turn EXCEPT ![lane.fire] = "queued"]
          /\ lane' = [lane EXCEPT !.at = "wait", !.answer = "open"]
       \/ /\ session = NoSession
          /\ lane' = [lane EXCEPT !.at = "wait", !.answer = "false"]
          /\ UNCHANGED turn
    /\ UNCHANGED <<ledgerVars, age, faults, tick, groups, replay, session, used, pastes>>

\* A positive receipt reaches the cohort: confirm, sweep, and ask for a pass if
\* released work remains.
CohortConfirmed ==
    /\ Yielded
    /\ lane.by = "cohort" /\ lane.at = "wait" /\ lane.answer = "true"
    /\ Confirm(lane.fire)
    /\ replay' = IF Debt(ledger') THEN Requested ELSE replay
    /\ lane' = NextMember(lane.todo)
    /\ UNCHANGED <<age, faults, tick, groups, transport>>

\* ... or the pass.
ReplayConfirmed ==
    /\ Yielded
    /\ lane.by = "replay" /\ lane.at = "wait" /\ lane.answer = "true"
    /\ Confirm(lane.fire)
    /\ lane' = [Free EXCEPT !.by = "replay", !.at = "deliver", !.todo = lane.todo, !.any = TRUE]
    /\ UNCHANGED <<age, faults, tick, groups, replay, transport>>

\* No receipt: the cohort leaves the row to the replay (_record_schedule_undelivered
\* finds it stored) and goes on with its next member.
CohortUndelivered ==
    /\ Yielded
    /\ lane.by = "cohort" /\ lane.at = "wait" /\ lane.answer = "false"
    /\ lane' = NextMember(lane.todo)
    /\ UNCHANGED <<ledgerVars, age, faults, tick, groups, replay, transport>>

\* ... and the pass parks the row if that was its last attempt, and stops.
ReplayUndelivered ==
    /\ Yielded
    /\ lane.by = "replay" /\ lane.at = "wait" /\ lane.answer = "false"
    /\ IF ledger[lane.fire].attempts = MaxAttempts /\ Unsettled(lane.fire)
       THEN Park(lane.fire) ELSE UNCHANGED ledgerVars
    /\ lane' = StopPass
    /\ UNCHANGED <<age, faults, tick, groups, replay, transport>>

\* A wait within its budget expires while the prompt is neither in the pane nor queued
\* on a connected transport: the receipt is cancelled, which fences its turn.
TimeoutUncapped ==
    /\ Yielded
    /\ lane.at = "send" \/ Waits(lane.fire)
    /\ ~InPane(lane.fire)
    /\ lane.at = "wait" => session = NoSession
    /\ turn' = [turn EXCEPT ![lane.fire] = "none"]
    /\ lane' = [lane EXCEPT !.at = "wait", !.answer = "false"]
    /\ UNCHANGED <<ledgerVars, age, faults, tick, groups, replay, session, used, pastes>>

\* Mutant: a pasted prompt is waited for without a cap.
TimeoutExtends(f) ==
    /\ Yielded
    /\ lane.fire = f
    /\ lane.at = "send" \/ Waits(f)
    /\ ~InPane(f)
    /\ turn' = [turn EXCEPT ![f] = "none"]
    /\ IF Unsettled(f) THEN Abandon(f) ELSE UNCHANGED ledgerVars
    /\ lane' = IF lane.by = "replay" THEN StopPass ELSE NextMember(lane.todo)
    /\ UNCHANGED <<age, faults, tick, groups, replay, session, used, pastes>>

\* The budget of f is spent: a queued turn is recalled, a turn in the pane keeps its
\* receipt open for a late observer; either way the row is abandoned, unless somebody
\* settled it, and the lane goes on.
TimeoutCapped(f) ==
    /\ Yielded
    /\ lane.fire = f
    /\ lane.at = "send" \/ Waits(f)
    /\ turn' = IF InPane(f) THEN turn ELSE [turn EXCEPT ![f] = "none"]
    /\ IF Unsettled(f) THEN Abandon(f) ELSE UNCHANGED ledgerVars
    /\ lane' = IF lane.by = "replay" THEN StopPass ELSE NextMember(lane.todo)
    /\ UNCHANGED <<age, faults, tick, groups, replay, session, used, pastes>>

-----------------------------------------------------------------------------
(* The transport.                                                            *)

\* Mutant: an unresolved receipt of another turn does not hold the pane.
MarkUngated(f) ==
    /\ Yielded
    /\ session # NoSession
    /\ turn[f] = "queued"
    /\ MarkPasted(f, session)
    /\ turn' = [turn EXCEPT ![f] = "marked"]
    /\ UNCHANGED <<age, faults, tasks, session, used, pastes>>

\* _deliver_turn under the pane lock: the pane is free of unresolved receipts, and the
\* write-ahead marker is stored before the paste starts.
Mark(f) ==
    /\ Yielded
    /\ session # NoSession
    /\ turn[f] = "queued"
    /\ \A g \in Fires : ~InPane(g)
    /\ MarkPasted(f, session)
    /\ turn' = [turn EXCEPT ![f] = "marked"]
    /\ UNCHANGED <<age, faults, tasks, session, used, pastes>>

\* The ledger refuses the marker: the row left the outbox, or was pasted before.
MarkRefused(f) ==
    /\ Yielded
    /\ session # NoSession
    /\ turn[f] = "queued"
    /\ \A g \in Fires : ~InPane(g)
    /\ ~(Active(f) /\ ledger[f].pasted = NoSession)
    /\ turn' = [turn EXCEPT ![f] = "none"]
    /\ lane' = Resolved(f, "false")
    /\ UNCHANGED <<ledgerVars, age, faults, tick, groups, replay, session, used, pastes>>

\* paste_text returns, one way or the other.
Paste(f) ==
    /\ Yielded
    /\ turn[f] = "marked"
    /\ turn' = [turn EXCEPT ![f] = "pasted"]
    /\ pastes' = [pastes EXCEPT ![f] = @ + 1]
    /\ UNCHANGED <<ledgerVars, age, faults, tasks, session, used>>

\* ... or a pasted turn left the pane without evidence that it was consumed: the
\* receipt is negative, and a marked fire is not redelivered.
PaneFails(f) ==
    /\ Yielded
    /\ InPane(f)
    /\ turn' = [turn EXCEPT ![f] = "none"]
    /\ lane' = Resolved(f, "false")
    /\ UNCHANGED <<ledgerVars, age, faults, tick, groups, replay, session, used, pastes>>

\* Exact acceptance evidence, maybe before paste_text returned: the receipt is stored
\* first, then resolved.  The observer of an abandoned wait asks for a pass.
Accept(f) ==
    /\ Yielded
    /\ InPane(f)
    /\ Confirm(f)
    /\ turn' = [turn EXCEPT ![f] = "none"]
    /\ pastes' = IF turn[f] = "marked" THEN [pastes EXCEPT ![f] = @ + 1] ELSE pastes
    /\ lane' = Resolved(f, "true")
    /\ replay' = IF ~Waits(f) /\ Debt(ledger') THEN Requested ELSE replay
    /\ UNCHANGED <<age, faults, tick, groups, session, used>>

\* Mutant: teardown does not resolve the receipt of a turn still queued.
SessionDownQuiet ==
    /\ Yielded
    /\ session # NoSession \/ \E f \in Fires : turn[f] # "none"
    /\ session' = NoSession
    /\ turn' = [f \in Fires |-> "none"]
    /\ lane' = IF \E f \in Fires : Waits(f) /\ turn[f] = "queued" THEN lane ELSE Resolved(lane.fire, "false")
    /\ UNCHANGED <<ledgerVars, age, faults, tick, groups, replay, used, pastes>>

\* disconnect, a dead pane or a failed restart: every open receipt is negative.
SessionDown ==
    /\ Yielded
    /\ session # NoSession \/ \E f \in Fires : turn[f] # "none"
    /\ session' = NoSession
    /\ turn' = [f \in Fires |-> "none"]
    /\ lane' = Resolved(lane.fire, "false")
    /\ UNCHANGED <<ledgerVars, age, faults, tick, groups, replay, used, pastes>>

\* A replacement pane, with a fresh paste-session id.
SessionUp(g) ==
    /\ Yielded
    /\ session = NoSession
    /\ g \notin used
    /\ session' = g
    /\ used' = used \cup {g}
    /\ UNCHANGED <<ledgerVars, age, faults, tasks, turn, pastes>>

\* The inflight watchdog restarts a wedged pane: its unaccepted head f goes back to the
\* queue, its receipt still open, and every other receipt is negative.
Requeue(f) ==
    /\ Yielded
    /\ session # NoSession
    /\ turn[f] = "pasted"
    /\ session' = NoSession
    /\ turn' = [g \in Fires |-> IF g = f THEN "queued" ELSE "none"]
    /\ lane' = IF Waits(f) THEN lane ELSE Resolved(lane.fire, "false")
    /\ UNCHANGED <<ledgerVars, age, faults, tick, groups, replay, used, pastes>>

-----------------------------------------------------------------------------
(* Operators, the reaper, and crashes.                                       *)

\* discard_pending_schedule_wake, remove_schedule, toggle_schedule off
Operator ==
    /\ Yielded
    /\ \/ \E f \in Fires : Park(f)
       \/ \E s \in Schedules : Remove(s)
       \/ \E s \in Schedules : schedule[s].enabled /\ Toggle(s, FALSE)
    /\ faults < MaxFaults
    /\ faults' = faults + 1
    /\ UNCHANGED <<age, tasks, transport>>

\* The reaper abandons what outlasted every deadline.
Reap(f) ==
    /\ Yielded
    /\ age[f] = 2
    /\ ReapAbandon(f)
    /\ UNCHANGED <<age, faults, tasks, transport>>

\* The daemon dies, possibly between two commits, and starts again.
Crash ==
    /\ faults < MaxFaults
    /\ faults' = faults + 1
    /\ tick' = NoTick
    /\ groups' = {}
    /\ replay' = NoReplay
    /\ lane' = Free
    /\ session' = NoSession
    /\ turn' = [f \in Fires |-> "none"]
    /\ UNCHANGED <<ledgerVars, age, used, pastes>>

CohortStep ==
    \/ \E g \in groups : CohortDefer(g) \/ CohortTake(g)
    \/ CohortCheck \/ CohortConfirmed \/ CohortUndelivered

PassStep ==
    \/ SettleLost \/ SettleSkip
    \/ ProbeBusy \/ ParkDone \/ ProbeDue \/ ProbeIdle
    \/ \E f \in Fires : ParkForDrain(f)
    \/ PlanRow \/ PlanDone \/ Collapse \/ CollapseDone
    \/ DeliverNext \/ DeliverDone \/ ReplayConfirmed \/ ReplayUndelivered

TickStep == TickDisable \/ TickEnd

DeliveryNext ==
    \/ \E s \in Schedules : TickClaim(s)
    \/ TickStep
    \/ \E f \in Fires : GrowOld(f)
    \/ Trigger \/ ReplayTake
    \/ CohortStep
    \/ PassStep \/ PassFails
    \/ Send \/ TimeoutUncapped
    \/ \E f \in Fires : TimeoutCapped(f)
    \/ \E f \in Fires : Mark(f) \/ MarkRefused(f) \/ Paste(f) \/ PaneFails(f) \/ Accept(f)
    \/ SessionDown
    \/ \E g \in Sessions : SessionUp(g)
    \/ \E f \in Fires : Requeue(f)
    \/ Operator
    \/ \E f \in Fires : Reap(f)
    \/ Crash

DeliverySafety == DeliveryInit /\ [][DeliveryNext]_deliveryVars

\* The event loop runs every ready coroutine, the minute scan asks for a pass, wall
\* clocks advance and receipt budgets expire.  A lost paste is settled if passes keep
\* finding it, since its grace period is measured on a monotonic clock.  Nothing is
\* assumed of panes, of sessions or of operators.
Fairness ==
    /\ WF_deliveryVars(TickStep)
    /\ WF_deliveryVars(CohortStep)
    /\ WF_deliveryVars(PassStep)
    /\ SF_deliveryVars(SettleLost)
    /\ WF_deliveryVars(Trigger)
    /\ WF_deliveryVars(ReplayTake)
    /\ WF_deliveryVars(Send)
    /\ \A f \in Fires : WF_deliveryVars(GrowOld(f))
    /\ \A f \in Fires : WF_deliveryVars(TimeoutCapped(f))

DeliverySpec == DeliverySafety /\ Fairness

-----------------------------------------------------------------------------

\* The types, and the registered replay task is the one in the lock.
DeliveryTypeOK ==
    /\ (lane.by = "replay") = (replay.task = "running")
    /\ tick \in [claimed : SUBSET Fires, disable : Schedules \cup {NoSchedule}]
    /\ age \in [Fires -> 0..2]
    /\ groups \subseteq Group
    /\ replay \in [task : {"idle", "due", "running"}, again : BOOLEAN]
    /\ lane \in Lane
    /\ session \in Sessions \cup {NoSession}
    /\ used \subseteq Sessions
    /\ turn \in [Fires -> Turn]
    /\ pastes \in [Fires -> Nat]
    /\ faults \in 0..MaxFaults

\* "never pasted twice": whatever crashes, replaced sessions, requeued heads, replays
\* and cohorts do, an exact fire reaches a pane at most once.
PastedAtMostOnce == \A f \in Fires : pastes[f] <= 1

\* Only one unresolved exact receipt is in the pane, also when earlier waits gave up.
OneOpenPaste == Cardinality({f \in Fires : InPane(f)}) <= 1

\* Until its receipt is resolved, a prompt in the pane keeps the ledger row that its
\* acceptance, however late, must be able to confirm.
PasteHasRow == \A f \in Fires : InPane(f) => Stored(f) /\ ledger[f].pasted # NoSession

\* A queued prompt that the ledger would still let into the pane has somebody waiting
\* for it: a verdict of "undelivered" or "abandoned" always recalls it first.
RecallableIsAwaited ==
    \A f \in Fires : (turn[f] = "queued" /\ ledger[f].pasted = NoSession) => Waits(f)

\* Nobody waits for a receipt that no turn can resolve any more.
WaiterHasTurn == \A f \in Fires : Waits(f) => turn[f] # "none"

\* "an older fire must never be delivered after a newer one was accepted", once it went
\* through the drain: no released recurrence at or below the floor enters a pane.
SupersededStaysOut ==
    \A f \in Fires :
        (turn[f] # "marked" /\ turn'[f] = "marked" /\ Recurring(f) /\ ledger[f].released)
            => f > schedule[ScheduleOf(f)].highWater

SupersededNotPasted == [][SupersededStaysOut]_deliveryVars

\* A one-shot "auto-disables after one fire".
OneShotFiresOnce ==
    \A f, g \in 1..clock :
        (ScheduleOf(f) = ScheduleOf(g) /\ ScheduleOf(f) \in OneShot) => f = g

\* The delivery machinery uses the ledger only through its operations, so that all the
\* ledger promises of a fire holds of the running system.
UsesLedger == LedgerSpec

\* Every owed fire is confirmed, held, settled or dropped in the end, unless it was
\* pasted by the session that is still live, or a turn of its schedule is in the pane.
OwedSettles ==
    \A f \in Fires :
        Active(f) ~> \/ ~Active(f)
                    \/ (session # NoSession /\ ledger[f].pasted = session)
                    \/ Fenced(f)

\* Delivery never wedges: whoever holds the agent's lock gives it up, even if a pasted
\* prompt is never answered.
LaneReleased == (lane.by # "nobody") ~> (lane.by = "nobody")

=============================================================================
