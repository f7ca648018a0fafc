---------------------------- MODULE ApprovalGate ----------------------------
(***************************************************************************)
(* The approval gate of the message broker (broker.py) for one approval    *)
(* key of one agent: a sender of direct messages, or a channel.  Messages  *)
(* of an unknown key are held in the agent registry until the owner, who   *)
(* is asked with retries, approves or denies it; a flush then hands them   *)
(* to the agent's session.  Handlers, owner and the broker's retry loop    *)
(* are coroutines of one daemon, which may die between any two steps.      *)
(*                                                                         *)
(* A step is what a coroutine does between two awaits, or one commit.      *)
(* Other keys appear only as the time the loop spends on them.             *)
(***************************************************************************)
EXTENDS Naturals, Sequences, FiniteSets, FiniteSetsExt

CONSTANTS
    MaxMessages,    \* bound: messages of the key
    Tagless,        \* messages a mention-only policy does not admit once held
    MaxTries,       \* _APPROVAL_NOTIFY_MAX_ATTEMPTS
    Reprompts,      \* length of _APPROVAL_AGING_REPROMPT_AFTER_SEC
    ManyHolds,      \* _APPROVAL_RENOTIFY_HELD_COUNT
    MaxDecisions,   \* bound: decisions of the owner
    MaxMishaps      \* bound: crashes, refused hand-offs and failed questions

ASSUME ApprovalAssumption ==
    /\ {MaxMessages, Reprompts, MaxDecisions, MaxMishaps} \subseteq Nat
    /\ {MaxTries, ManyHolds} \subseteq Nat \ {0}
    /\ Tagless \subseteq 1..MaxMessages

VARIABLES
    gate,       \* the key's status in approved_users
    request,    \* its row of approval_requests
    held,       \* its rows of pending_messages, in the order they were created
    delivered,  \* those marked delivered
    hours,      \* what the clock says of the request
    handler,    \* handle_inbound of each message
    owner,      \* the flush of the owner's last approval
    loop,       \* run_approval_notification_retries
    flush,      \* the rows (places in held) that the flush lock's holder has yet to route
    asking,     \* the holder of the request's notification lock
    handed,     \* history variable: messages in the order the session got them
    doubted,    \* history variable: handed over by a flush that never marked them
    decisions, mishaps

approvalTables == <<gate, request, held, delivered>>
flushVars == <<flush, handed, doubted>>
approvalVars == <<approvalTables, hours, handler, owner, loop, flushVars, asking,
                  decisions, mishaps>>

Messages == 1..MaxMessages
Loop == 0                            \* as a notifier, next to the handlers of messages
Notifiers == {Loop} \cup Messages
Nobody == MaxMessages + 1

Request ==
    [gate : {"none", "pending", "approved", "denied"}, holds : 0..MaxMessages,
     mode : {"retrying", "delivered", "failed"}, tries : 0..MaxTries,
     notified : 0..MaxMessages, reprompts : 0..Reprompts]

NoRequest ==
    [gate |-> "none", holds |-> 0, mode |-> "retrying", tries |-> 0,
     notified |-> 0, reprompts |-> 0]

\* due: next_retry_at has come; age: aging thresholds passed since the first hold;
\* quiet: the renotify interval has passed since the owner was last told.
Hours == [due : BOOLEAN, age : 0..Reprompts, quiet : BOOLEAN]

Flushers == {"owner", "loop"}
NoFlush == [todo |-> {}, routed |-> FALSE]

ApprovalInit ==
    /\ gate = "none" /\ request = NoRequest /\ held = <<>> /\ delivered = {}
    /\ hours = [due |-> TRUE, age |-> 0, quiet |-> TRUE]
    /\ handler = [m \in Messages |-> "absent"]
    /\ owner = "idle" /\ loop = "asleep"
    /\ flush = [p \in Flushers |-> NoFlush] /\ asking = Nobody
    /\ handed = <<>> /\ doubted = {}
    /\ decisions = 0 /\ mishaps = 0

HeldRows == {held[i] : i \in DOMAIN held}
Waiting == {i \in DOMAIN held : held[i] \notin delivered}     \* get_pending_messages

\* "oldest first": the row that flush p routes next, and its message.
Oldest(p) == Min(flush[p].todo)
NextHeld(p) == held[Oldest(p)]

Mishap == mishaps < MaxMishaps /\ mishaps' = mishaps + 1

-----------------------------------------------------------------------------
(* handle_inbound.                                                           *)

Becomes(m, at) == handler' = [handler EXCEPT ![m] = at]

\* queue_pending_message_with_approval_request: the row and the request, in one
\* transaction; whatever was decided, the request is pending again.
HoldRow(m) ==
    /\ held' = Append(held, m)
    /\ request' = [request EXCEPT !.gate = "pending", !.holds = @ + 1]
    /\ Becomes(m, "notifying")

NextMessage(m) == handler[m] = "absent" /\ \A n \in 1..(m - 1) : handler[n] # "absent"

ArriveDenied(m) ==
    /\ NextMessage(m) /\ gate = "denied"
    /\ Becomes(m, "gone")
    /\ UNCHANGED <<approvalTables, hours, owner, loop, flushVars, asking, decisions, mishaps>>

ArriveApproved(m) ==
    /\ NextMessage(m) /\ gate = "approved"
    /\ Becomes(m, "routing")
    /\ UNCHANGED <<approvalTables, hours, owner, loop, flushVars, asking, decisions, mishaps>>

ArrivePending(m) ==
    /\ NextMessage(m) /\ gate = "pending"
    /\ HoldRow(m)
    /\ UNCHANGED <<gate, delivered, hours, owner, loop, flushVars, asking, decisions, mishaps>>

\* The key is unknown (and not the owner's): "Request sent!" is awaited before the
\* message is held.  A channel is sent nothing, and takes no time.
ArriveUnknown(m) ==
    /\ NextMessage(m) /\ gate = "none"
    /\ gate' = "pending"
    /\ Becomes(m, "onboarding")
    /\ UNCHANGED <<request, held, delivered, hours, owner, loop, flushVars, asking,
                   decisions, mishaps>>

\* ... and whatever the owner has decided in the meantime, it is held.
Onboarded(m) ==
    /\ handler[m] = "onboarding"
    /\ HoldRow(m)
    /\ UNCHANGED <<gate, delivered, hours, owner, loop, flushVars, asking, decisions, mishaps>>

\* A message of an approved key: the session takes it, or the sender is told that the
\* agent is not running.
RouteLive(m) ==
    /\ handler[m] = "routing"
    /\ \/ handed' = Append(handed, m) /\ UNCHANGED mishaps
       \/ Mishap /\ UNCHANGED handed
    /\ Becomes(m, "gone")
    /\ UNCHANGED <<approvalTables, hours, owner, loop, flush, doubted, asking, decisions>>

-----------------------------------------------------------------------------
(* handle_approval: the flush, by the owner's decision or by the loop.       *)

\* A flush is over: the owner's decision is answered, the loop goes on.
Returned(p) ==
    /\ owner' = IF p = "owner" THEN "idle" ELSE owner
    /\ loop' = IF p = "loop" THEN "due" ELSE loop

\* With the lock, a flush takes the list of what is undelivered now.
StartFlush(p) ==
    IF Waiting = {} THEN Returned(p) /\ UNCHANGED flush
    ELSE /\ flush' = [flush EXCEPT ![p] = [todo |-> Waiting, routed |-> FALSE]]
         /\ owner' = IF p = "owner" THEN "flush" ELSE owner
         /\ loop' = IF p = "loop" THEN "flush" ELSE loop

Unlocked == \A p \in Flushers : flush[p] = NoFlush

\* Mutant: flushes of one key are not serialized.
EnterAnyway(p) == StartFlush(p)

EnterFlush(p) ==
    IF Unlocked THEN StartFlush(p)
    ELSE /\ owner' = IF p = "owner" THEN "wait" ELSE owner
         /\ loop' = IF p = "loop" THEN "wait" ELSE loop
         /\ UNCHANGED flush

\* The lock is released to whoever waits for it.
FlushBegins(p) ==
    /\ (IF p = "owner" THEN owner ELSE loop) = "wait"
    /\ Unlocked
    /\ StartFlush(p)
    /\ UNCHANGED <<approvalTables, hours, handler, handed, doubted, asking, decisions, mishaps>>

\* _route_streaming of the oldest; the session has it before the row is marked.
RouteHeld(p) ==
    /\ flush[p] # NoFlush /\ ~flush[p].routed
    /\ NextHeld(p) \notin Tagless
    /\ handed' = Append(handed, NextHeld(p))
    /\ flush' = [flush EXCEPT ![p].routed = TRUE]
    /\ UNCHANGED <<approvalTables, hours, handler, owner, loop, doubted, asking, decisions,
                   mishaps>>

\* mark_pending_message_delivered, after the hand-off or for a row that is not admitted
MarkRow(p) ==
    /\ flush[p] # NoFlush
    /\ flush[p].routed \/ NextHeld(p) \in Tagless
    /\ delivered' = delivered \cup {NextHeld(p)}
    /\ IF flush[p].todo = {Oldest(p)}
       THEN flush' = [flush EXCEPT ![p] = NoFlush] /\ Returned(p)
       ELSE /\ flush' = [flush EXCEPT ![p] = [todo |-> @.todo \ {Oldest(p)}, routed |-> FALSE]]
            /\ UNCHANGED <<owner, loop>>
    /\ UNCHANGED <<gate, request, held, hours, handler, handed, doubted, asking, decisions,
                   mishaps>>

\* The hand-off is refused and the flush gives up; what is left stays held.
RouteRefused(p) ==
    /\ flush[p] # NoFlush /\ ~flush[p].routed
    /\ NextHeld(p) \notin Tagless
    /\ Mishap
    /\ flush' = [flush EXCEPT ![p] = NoFlush] /\ Returned(p)
    /\ UNCHANGED <<approvalTables, hours, handler, handed, doubted, asking, decisions>>

-----------------------------------------------------------------------------
(* The owner's decisions: a command in chat or an endpoint.                  *)

\* settle_approval_request, also part of approve_user and deny_user
Settled(decision) == IF held = <<>> THEN request ELSE [request EXCEPT !.gate = decision]

\* approve_user; the flush follows, unless the agent's storage is on hold.
Approve ==
    /\ owner = "idle"
    /\ decisions < MaxDecisions /\ decisions' = decisions + 1
    /\ gate' = "approved"
    /\ request' = Settled("approved")
    /\ \/ EnterFlush("owner")
       \/ UNCHANGED <<owner, loop, flush>>
    /\ UNCHANGED <<held, delivered, hours, handler, handed, doubted, asking, mishaps>>

Deny ==
    /\ decisions < MaxDecisions /\ decisions' = decisions + 1
    /\ gate' = "denied"
    /\ request' = Settled("denied")
    /\ UNCHANGED <<held, delivered, hours, handler, owner, loop, flushVars, asking, mishaps>>

\* revoke_user removes the status, not the request.
Revoke ==
    /\ decisions < MaxDecisions /\ decisions' = decisions + 1
    /\ gate # "none" /\ gate' = "none"
    /\ UNCHANGED <<request, held, delivered, hours, handler, owner, loop, flushVars, asking,
                   mishaps>>

-----------------------------------------------------------------------------
(* _notify_approval_request: asking the owner, by a handler or by the loop.  *)

\* _approval_notification_reason.  (Alerts about other keys' principals are left out.)
Reason ==
    /\ request.gate = "pending" /\ Waiting # {}
    /\ \/ request.mode = "retrying" /\ hours.due
       \/ request.mode # "retrying" /\ request.reprompts < hours.age
       \/ /\ request.mode = "delivered"
          /\ LET new == request.holds - request.notified IN
               new >= ManyHolds \/ (new > 0 /\ hours.quiet)

Notifies(n) == IF n = Loop THEN loop = "ask" ELSE handler[n] = "notifying"

NotifierReturns(n) ==
    IF n = Loop THEN loop' = "asleep" /\ UNCHANGED handler
    ELSE Becomes(n, "gone") /\ UNCHANGED loop

\* The lock is free: the request is read again, and there is nothing to say ...
NothingToSay(n) ==
    /\ Notifies(n) /\ asking = Nobody /\ ~Reason
    /\ NotifierReturns(n)
    /\ UNCHANGED <<approvalTables, hours, owner, flushVars, asking, decisions, mishaps>>

\* ... or a cycle begins, with fresh attempts unless it is a retry.
Ask(n) ==
    /\ Notifies(n) /\ asking = Nobody /\ Reason
    /\ asking' = n
    /\ request' = IF request.mode = "retrying" THEN request ELSE
         [request EXCEPT !.mode = "retrying", !.tries = 0,
                         !.reprompts = IF @ < hours.age THEN @ + 1 ELSE @]
    /\ UNCHANGED <<gate, held, delivered, hours, handler, owner, loop, flushVars, decisions,
                   mishaps>>

\* The outcome is recorded on a request that is still pending.
Recorded(r) == request' = IF request.gate = "pending" THEN r ELSE request

OwnerTold ==
    /\ asking # Nobody
    /\ Recorded([request EXCEPT !.mode = "delivered", !.tries = 0, !.notified = request.holds])
    /\ hours' = [hours EXCEPT !.quiet = FALSE]
    /\ asking' = Nobody /\ NotifierReturns(asking)
    /\ UNCHANGED <<gate, held, delivered, owner, flushVars, decisions, mishaps>>

\* Every destination failed, or there is none: the attempt counts.
AskFails ==
    /\ asking # Nobody
    /\ Mishap
    /\ Recorded([request EXCEPT
         !.mode = IF request.tries + 1 >= MaxTries THEN "failed" ELSE "retrying",
         !.tries = @ + 1])
    /\ hours' = [hours EXCEPT !.due = FALSE]
    /\ asking' = Nobody /\ NotifierReturns(asking)
    /\ UNCHANGED <<gate, held, delivered, owner, flushVars, decisions>>

-----------------------------------------------------------------------------
(* The loop: flush what is approved, then ask again where it is due.         *)

LoopAt(at) ==
    /\ loop' = at
    /\ UNCHANGED <<gate, held, delivered, hours, handler, owner, flushVars, asking,
                   decisions, mishaps>>

\* Mutant: the pass looks for requests that are approved.
SnapshotOfRequests ==
    /\ loop = "asleep"
    /\ LoopAt(IF Waiting # {} /\ request.gate = "approved" THEN "settle" ELSE "due")
    /\ UNCHANGED request

\* reconcile_approved_pending_messages takes its list of backlogs ...
Snapshot ==
    /\ loop = "asleep"
    /\ LoopAt(IF Waiting # {} /\ gate = "approved" THEN "settle" ELSE "due")
    /\ UNCHANGED request

\* ... and comes to this key's when the flushes of others are over.
SettleBacklog ==
    /\ loop = "settle"
    /\ request' = Settled("approved")
    /\ EnterFlush("loop")
    /\ UNCHANGED <<gate, held, delivered, hours, handler, handed, doubted, asking, decisions,
                   mishaps>>

\* Mutant: the loop retries what it sent itself, and a handler's question is not its own.
LookForTold ==
    /\ loop = "due"
    /\ LoopAt(IF Reason /\ request.mode # "retrying" THEN "ask" ELSE "asleep")
    /\ UNCHANGED request

\* retry_due_approval_notifications
LookForDue ==
    /\ loop = "due"
    /\ LoopAt(IF Reason THEN "ask" ELSE "asleep")
    /\ UNCHANGED request

-----------------------------------------------------------------------------
(* The clock and crashes.                                                    *)

TimePasses ==
    /\ hours' \in
         {[hours EXCEPT !.due = TRUE], [hours EXCEPT !.quiet = TRUE]} \cup
         (IF hours.age < Reprompts /\ held # <<>> THEN {[hours EXCEPT !.age = @ + 1]} ELSE {})
    /\ hours' # hours
    /\ UNCHANGED <<approvalTables, handler, owner, loop, flushVars, asking, decisions, mishaps>>

\* What was in flight is gone; the loop starts over with the daemon.
BrokerDies ==
    /\ Mishap
    /\ handler' = [m \in Messages |-> IF handler[m] = "absent" THEN "absent" ELSE "gone"]
    /\ owner' = "idle" /\ loop' = "asleep"
    /\ flush' = [p \in Flushers |-> NoFlush] /\ asking' = Nobody
    /\ doubted' = doubted \cup {NextHeld(p) : p \in {q \in Flushers : flush[q].routed}}
    /\ UNCHANGED <<approvalTables, hours, handed, decisions>>

-----------------------------------------------------------------------------

HandlerStep(m) == Onboarded(m) \/ RouteLive(m)
FlushStep(p) == FlushBegins(p) \/ RouteHeld(p) \/ MarkRow(p)
AskStep == OwnerTold \/ \E n \in Notifiers : NothingToSay(n) \/ Ask(n)
ReconcileStep == Snapshot \/ SettleBacklog \/ LookForDue

ApprovalNext ==
    \/ \E m \in Messages :
         \/ ArriveDenied(m) \/ ArriveApproved(m) \/ ArrivePending(m) \/ ArriveUnknown(m)
         \/ HandlerStep(m)
    \/ Approve \/ Deny \/ Revoke
    \/ \E p \in Flushers : FlushStep(p) \/ RouteRefused(p)
    \/ AskStep \/ AskFails
    \/ ReconcileStep
    \/ TimePasses \/ BrokerDies

\* The event loop runs what is ready, sends and hand-offs return, time passes.
\* Nothing is assumed of senders and owner.
ApprovalFairness ==
    /\ \A m \in Messages : WF_approvalVars(HandlerStep(m))
    /\ \A n \in Notifiers : WF_approvalVars(NothingToSay(n) \/ Ask(n))
    /\ \A p \in Flushers : WF_approvalVars(FlushStep(p) \/ RouteRefused(p))
    /\ WF_approvalVars(OwnerTold \/ AskFails)
    /\ WF_approvalVars(ReconcileStep)
    /\ WF_approvalVars(TimePasses)

ApprovalSpec == ApprovalInit /\ [][ApprovalNext]_approvalVars /\ ApprovalFairness

-----------------------------------------------------------------------------

ApprovalTypeOK ==
    /\ gate \in {"none", "pending", "approved", "denied"}
    /\ request \in Request
    /\ held \in Seq(Messages) /\ \A i, j \in DOMAIN held : held[i] = held[j] => i = j
    /\ delivered \subseteq HeldRows
    /\ hours \in Hours
    /\ handler \in [Messages -> {"absent", "onboarding", "notifying", "routing", "gone"}]
    /\ owner \in {"idle", "wait", "flush"}
    /\ loop \in {"asleep", "settle", "wait", "flush", "due", "ask"}
    /\ flush \in [Flushers -> [todo : SUBSET DOMAIN held, routed : BOOLEAN]]
    /\ asking \in Notifiers \cup {Nobody}
    /\ handed \in Seq(Messages) /\ doubted \subseteq HeldRows
    /\ decisions \in 0..MaxDecisions /\ mishaps \in 0..MaxMishaps

\* "checkpoints successful messages individually", "serializes each agent/chat flush":
\* held messages reach the session in the order they were held and each of them once,
\* whatever flushes race; only a daemon that died before marking one repeats it.
HeldInOrder ==
    \A i, j \in DOMAIN handed : i < j /\ {handed[i], handed[j]} \subseteq HeldRows =>
        \/ handed[i] \in doubted
        \/ \E k, l \in DOMAIN held : k < l /\ held[k] = handed[i] /\ held[l] = handed[j]

\* "the systemic catch-all": no held message of an approved key is stranded by a crash
\* or a refused hand-off, nor by an approval during its own onboarding.
ApprovedGetThrough ==
    \A m \in Messages :
        (m \in HeldRows /\ gate = "approved") ~> (m \in delivered \/ gate # "approved")

\* The owner is asked about what is held, or every attempt of a cycle has failed,
\* although the daemon may die between the hold and the question.
OwnerIsAsked ==
    (request.gate = "pending" /\ Waiting # {}) ~>
        (request.mode # "retrying" \/ request.gate # "pending" \/ Waiting = {})

\* "If denied -> silently drop": a key that was denied has none of its held messages
\* handed over.
DeniedStaysOut ==
    [][gate = "denied" /\ handed' # handed =>
         handed'[Len(handed')] \notin HeldRows]_approvalVars

=============================================================================
