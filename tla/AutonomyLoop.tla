---------------------------- MODULE AutonomyLoop ----------------------------
(***************************************************************************)
(* The event queue and the work loops of one agent (autonomy.py): an event *)
(* starts a loop if none is registered, the loop sends what is queued to   *)
(* the agent's session in batches, and goes to sleep after a few idle      *)
(* checks.  A step of a loop runs to its next await; between two of them   *)
(* others push, start and stop.  Events are only counted.                  *)
(***************************************************************************)
EXTENDS Naturals, FiniteSets

CONSTANTS
    MaxEvents,          \* bound: events pushed
    IdleChecks,         \* idle checks in a row after which a loop sleeps
    MaxInterventions    \* bound: loops stopped, the agent enabled or disabled

ASSUME AutonomyAssumption ==
    MaxEvents \in Nat /\ IdleChecks \in Nat \ {0} /\ MaxInterventions \in Nat

VARIABLES
    queue,          \* events in the agent's queue
    enabled,        \* the agent's row
    registered,     \* _running_loops[agent]
    at,             \* the await of each loop
    idle,           \* consecutive_idle of each loop
    stopped,        \* loops with a CancelledError on its way
    left,           \* history: a loop ended, or was not started, beside a queued event
    pushed, interventions

autonomyVars == <<queue, enabled, registered, at, idle, stopped, left, pushed, interventions>>

NoLoop == 0
Loops == 1..(MaxInterventions + 2)      \* names of tasks; that of one that ended is free

AutonomyInit ==
    /\ queue = 0 /\ enabled \in BOOLEAN
    /\ registered = NoLoop
    /\ at = [l \in Loops |-> "none"] /\ idle = [l \in Loops |-> 0] /\ stopped = {}
    /\ left = FALSE /\ pushed = 0 /\ interventions = 0

Alive == {l \in Loops : at[l] # "none"}

Intervention == interventions < MaxInterventions /\ interventions' = interventions + 1

\* Mutant: a start does not look whether a loop is registered.
StartBeside == \E l \in Loops \ Alive : registered' = l /\ at' = [at EXCEPT ![l] = "created"]

\* start_agent_loop
Start ==
    IF registered # NoLoop THEN UNCHANGED <<registered, at>>
    ELSE LET l == CHOOSE k \in Loops \ Alive : TRUE
         IN  registered' = l /\ at' = [at EXCEPT ![l] = "created"]

\* Mutant: only the first event starts a loop.
PushStartsOnce ==
    /\ pushed < MaxEvents /\ pushed' = pushed + 1
    /\ queue' = queue + 1
    /\ IF enabled /\ pushed = 0 THEN Start /\ UNCHANGED left
       ELSE left' = (left \/ (~enabled /\ registered = NoLoop)) /\ UNCHANGED <<registered, at>>
    /\ UNCHANGED <<enabled, idle, stopped, interventions>>

\* push_event.  A loop that waits is woken by the queue.
PushEvent ==
    /\ pushed < MaxEvents /\ pushed' = pushed + 1
    /\ queue' = queue + 1
    /\ IF enabled THEN Start /\ UNCHANGED left
       ELSE left' = (left \/ registered = NoLoop) /\ UNCHANGED <<registered, at>>
    /\ UNCHANGED <<enabled, idle, stopped, interventions>>

\* At boot, for the main agent, and by the endpoint.
StartAgentLoop ==
    /\ registered = NoLoop
    /\ Start
    /\ UNCHANGED <<queue, enabled, idle, stopped, left, pushed, interventions>>

\* stop_agent_loop: the registration goes first, the task when it next runs.
StopAgentLoop ==
    /\ registered # NoLoop
    /\ Intervention
    /\ stopped' = stopped \cup {registered}
    /\ registered' = NoLoop
    /\ UNCHANGED <<queue, enabled, at, idle, left, pushed>>

EnabledChanges ==
    /\ Intervention
    /\ enabled' = ~enabled
    /\ UNCHANGED <<queue, registered, at, idle, stopped, left, pushed>>

-----------------------------------------------------------------------------
(* _agent_loop                                                               *)

\* The top of the loop: what is queued is the batch, which is sent or, if something
\* raises before, dropped; or it waits for an event.
Listens(l, checks) ==
    IF queue > 0
    THEN /\ queue' = 0 /\ left' = FALSE
         /\ \E next \in {"sending", "backoff"} : at' = [at EXCEPT ![l] = next]
         /\ idle' = [idle EXCEPT ![l] = 0]
    ELSE /\ at' = [at EXCEPT ![l] = "waiting"] /\ idle' = [idle EXCEPT ![l] = checks]
         /\ UNCHANGED <<queue, left>>

LoopEnds(l) ==
    /\ at' = [at EXCEPT ![l] = "none"] /\ idle' = [idle EXCEPT ![l] = 0]
    /\ stopped' = stopped \ {l}
    /\ left' = (left \/ queue > 0)
    /\ UNCHANGED queue

\* The cleanup removes what is registered, its own task or not.
CleansUp(l) == LoopEnds(l) /\ registered' = NoLoop

LoopBegins(l) ==
    /\ at[l] = "created" /\ l \notin stopped
    /\ Listens(l, 0)
    /\ UNCHANGED <<registered, stopped>>

EventWakes(l) ==
    /\ at[l] = "waiting" /\ queue > 0 /\ l \notin stopped
    /\ Listens(l, 0)
    /\ UNCHANGED <<registered, stopped>>

\* The timer of the wait fires.  An event that is pushed before the task runs again
\* stays in the queue.
TimerFires(l) ==
    /\ at[l] = "waiting" /\ l \notin stopped
    /\ at' = [at EXCEPT ![l] = "expired"]
    /\ UNCHANGED <<queue, registered, idle, stopped, left>>

IdleCheck(l) ==
    /\ at[l] = "expired" /\ l \notin stopped
    /\ IF idle[l] + 1 >= IdleChecks THEN CleansUp(l)
       ELSE Listens(l, idle[l] + 1) /\ UNCHANGED <<registered, stopped>>

\* The session took the batch, refused it or failed: it is gone in any case.
SendReturns(l) ==
    /\ at[l] = "sending" /\ l \notin stopped
    /\ Listens(l, 0)
    /\ UNCHANGED <<registered, stopped>>

BackoffOver(l) ==
    /\ at[l] = "backoff" /\ l \notin stopped
    /\ Listens(l, 0)
    /\ UNCHANGED <<registered, stopped>>

\* Cancelled before its first step, or in the handler that backs off, a task ends
\* without the cleanup.
LoopCancelled(l) ==
    /\ l \in stopped
    /\ IF at[l] \in {"created", "backoff"} THEN LoopEnds(l) /\ UNCHANGED registered
       ELSE CleansUp(l)

-----------------------------------------------------------------------------

LoopStep(l) ==
    /\ \/ LoopBegins(l) \/ EventWakes(l) \/ IdleCheck(l) \/ SendReturns(l)
       \/ BackoffOver(l) \/ LoopCancelled(l)
    /\ UNCHANGED <<enabled, pushed, interventions>>

AutonomyNext ==
    \/ PushEvent \/ StartAgentLoop \/ StopAgentLoop \/ EnabledChanges
    \/ \E l \in Loops :
         \/ LoopStep(l)
         \/ TimerFires(l) /\ UNCHANGED <<enabled, pushed, interventions>>

\* The event loop runs what is ready, and sends return.
AutonomySpec ==
    AutonomyInit /\ [][AutonomyNext]_autonomyVars /\ \A l \in Loops : WF_autonomyVars(LoopStep(l))

-----------------------------------------------------------------------------

AutonomyTypeOK ==
    /\ queue \in 0..MaxEvents /\ {enabled, left} \subseteq BOOLEAN
    /\ registered \in Loops \cup {NoLoop}
    /\ at \in [Loops -> {"none", "created", "waiting", "expired", "sending", "backoff"}]
    /\ idle \in [Loops -> 0..(IdleChecks - 1)] /\ stopped \subseteq Alive
    /\ pushed \in 0..MaxEvents /\ interventions \in 0..MaxInterventions

\* Loops beside the registered one were stopped, or lost their registration to the cleanup
\* of one that was: without a stop one loop works the queue, with it at most one more.
LoopsAreCounted == Cardinality(Alive \ {registered}) <= interventions

\* An event beside which no loop ended has a loop that may take it.
EventIsHeard == queue > 0 /\ ~left => Alive # {}

\* An event that is pushed while a loop runs, sleeps or is started reaches a batch,
\* however it interleaves with the others' steps, unless a loop ended beside it.
EventsReachBatch == queue > 0 ~> queue = 0 \/ left

\* "Push an event to an agent's queue. Starts loop if not running.": an event of an
\* enabled agent reaches a batch.
EventsAreTaken == queue > 0 /\ enabled ~> queue = 0 \/ ~enabled

=============================================================================
