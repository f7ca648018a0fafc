---------------------------- MODULE TelegramPoll ----------------------------
(***************************************************************************)
(* The Telegram pollers of one agent (BrokerTelegramPoller in pollers.py,  *)
(* with getUpdates of telegram.py).  A poll runs in a thread under a hard  *)
(* deadline.  The adapter's offset moves while the thread parses the       *)
(* answer, and the next request confirms what is below it, so that what a  *)
(* poll has parsed exists nowhere else: a poll that was given up delivers  *)
(* its late answer itself.  A poller that was stopped delivers nothing.    *)
(* Updates are plain messages, numbered by update_id.                      *)
(***************************************************************************)
EXTENDS Naturals, FiniteSets, FiniteSetsExt

CONSTANTS
    MaxUpdates,     \* bound: messages users send
    BotPollers,     \* names of pollers; that of one without a thread is free
    MaxInstalls,    \* bound: tokens set or removed, daemons that die
    MaxOutages      \* bound: requests that fail or hang, and deadlines

ASSUME TelegramAssumption ==
    /\ {MaxUpdates, MaxInstalls, MaxOutages} \subseteq Nat
    /\ BotPollers # {} /\ "none" \notin BotPollers

VARIABLES
    sent,           \* how many updates the platform has
    confirmed,      \* those up to here it has dropped
    current,        \* the poller in _broker_pollers
    offset,         \* _last_update_id of each poller's adapter
    poll,           \* the polls: thread, result and future
    delivering,     \* how many handle_inbound tasks of each update run
    given,          \* history: how often the broker has taken an update
    again,          \* history: how many more polls may bring it than the first
    discarded,      \* history: updates a stop or a crash took from a late poll or a delivery
    installs, outages

telegramVars ==
    <<sent, confirmed, current, offset, poll, delivering, given, again, discarded, installs,
      outages>>

Updates == 1..MaxUpdates
NoPoller == "none"
Polls == 1..(MaxOutages + MaxInstalls + 1)     \* names, free when the poll is off

\* asked: the offset of its request.  unparsed, parsed: the updates of its answer.
\* active: its poller awaits it; otherwise the poll was given up.
Poll ==
    [ of : BotPollers \cup {NoPoller}, at : {"off", "asking", "held", "stuck", "parsing", "done"},
      asked : 0..MaxUpdates, unparsed : SUBSET Updates, parsed : SUBSET Updates,
      active : BOOLEAN ]

NoPoll ==
    [ of |-> NoPoller, at |-> "off", asked |-> 0, unparsed |-> {}, parsed |-> {},
      active |-> FALSE ]

TelegramInit ==
    /\ sent = 0 /\ confirmed = 0
    /\ current = CHOOSE p \in BotPollers : TRUE
    /\ offset = [p \in BotPollers |-> 0]
    /\ poll = [k \in Polls |-> NoPoll]
    /\ delivering = [u \in Updates |-> 0]
    /\ given = [u \in Updates |-> 0] /\ again = [u \in Updates |-> 0] /\ discarded = {}
    /\ installs = 0 /\ outages = 0

Outage == outages < MaxOutages /\ outages' = outages + 1

UserSends ==
    /\ sent < MaxUpdates /\ sent' = sent + 1
    /\ UNCHANGED <<confirmed, current, offset, poll, delivering, given, again, discarded,
                   installs, outages>>

-----------------------------------------------------------------------------
(* get_updates, in the poll's thread                                         *)

\* The platform has the request: what is below its offset is confirmed.
RequestArrives(k) ==
    /\ poll[k].at = "asking"
    /\ confirmed' = Max({confirmed, poll[k].asked})
    /\ poll' = [poll EXCEPT ![k] = IF @.of = current THEN [@ EXCEPT !.at = "held"] ELSE NoPoll]
    /\ UNCHANGED <<sent, current, offset, delivering, given, again, discarded, installs, outages>>

\* It answers with all it has, or, after the poll's timeout, with nothing.
PlatformAnswers(k) ==
    /\ poll[k].at = "held"
    /\ poll' = [poll EXCEPT ![k].at = "parsing", ![k].unparsed = (confirmed + 1)..sent]
    /\ UNCHANGED <<sent, confirmed, current, offset, delivering, given, again, discarded,
                   installs, outages>>

\* The thread parses an update.  Between two it may have callbacks to answer.
ParseUpdate(k) ==
    /\ poll[k].at = "parsing" /\ poll[k].unparsed # {}
    /\ LET u == Min(poll[k].unparsed)
       IN  /\ offset' = [offset EXCEPT ![poll[k].of] = Max({@, u})]
           /\ poll' = [poll EXCEPT ![k].unparsed = @ \ {u}, ![k].parsed = @ \cup {u}]
    /\ UNCHANGED <<sent, confirmed, current, delivering, given, again, discarded, installs,
                   outages>>

PollReturns(k) ==
    /\ poll[k].at = "parsing" /\ poll[k].unparsed = {}
    /\ poll' = [poll EXCEPT ![k].at = "done"]
    /\ UNCHANGED <<sent, confirmed, current, offset, delivering, given, again, discarded,
                   installs, outages>>

\* The request fails: an outage, or the recycling closes the socket of a poll that was
\* given up.
RequestFails(k) ==
    /\ poll[k].at \in {"asking", "held"}
    /\ IF poll[k].active THEN Outage ELSE UNCHANGED outages
    /\ poll' = [poll EXCEPT ![k] = NoPoll]
    /\ UNCHANGED <<sent, confirmed, current, offset, delivering, given, again, discarded, installs>>

\* The connection is dead, and the read never returns.
RequestHangs(k) ==
    /\ poll[k].at \in {"asking", "held"} /\ poll[k].active
    /\ Outage
    /\ poll' = [poll EXCEPT ![k].at = "stuck"]
    /\ UNCHANGED <<sent, confirmed, current, offset, delivering, given, again, discarded, installs>>

-----------------------------------------------------------------------------
(* The poller                                                                *)

Awaited(p) == {k \in Polls : poll[k].of = p /\ poll[k].active}

PollBegins ==
    /\ current # NoPoller /\ Awaited(current) = {}
    /\ LET k == CHOOSE k \in Polls : poll[k] = NoPoll
       IN  poll' = [poll EXCEPT ![k] = [NoPoll EXCEPT
                        !.of = current, !.at = "asking", !.asked = offset[current],
                        !.active = TRUE]]
    /\ UNCHANGED <<sent, confirmed, current, offset, delivering, given, again, discarded,
                   installs, outages>>

\* Mutant: a new adapter instead of a new client.
RecreatesAdapter(p) == offset' = [offset EXCEPT ![p] = 0]

\* recycle() preserves the offset.
Recycles(p) == UNCHANGED offset

\* The deadline of _watched_poll.  A stuck thread brings nothing any more; another may
\* still answer.
DeadlineFires(k) ==
    /\ poll[k].active /\ poll[k].at # "done"
    /\ IF poll[k].at = "stuck" THEN UNCHANGED outages ELSE Outage
    /\ Recycles(poll[k].of)
    /\ poll' = [poll EXCEPT ![k] = IF @.at = "stuck" THEN NoPoll ELSE [@ EXCEPT !.active = FALSE]]
    /\ again' = [u \in Updates |-> IF u > poll[k].asked THEN again[u] + 1 ELSE again[u]]
    /\ UNCHANGED <<sent, confirmed, current, delivering, given, discarded, installs>>

\* Mutant: what a poll brings after its deadline is dropped.
CollectInTime(k) ==
    /\ poll[k].at = "done"
    /\ poll' = [poll EXCEPT ![k] = NoPoll]
    /\ delivering' = [u \in Updates |->
           IF poll[k].active /\ u \in poll[k].parsed
           THEN delivering[u] + 1 ELSE delivering[u]]
    /\ UNCHANGED <<sent, confirmed, current, offset, given, again, discarded, installs, outages>>

\* _poll_once, or _on_abandoned_poll_done, and _process_messages: every update gets a
\* delivery of its own.
Collect(k) ==
    /\ poll[k].at = "done"
    /\ poll' = [poll EXCEPT ![k] = NoPoll]
    /\ delivering' = [u \in Updates |->
           IF u \in poll[k].parsed THEN delivering[u] + 1 ELSE delivering[u]]
    /\ UNCHANGED <<sent, confirmed, current, offset, given, again, discarded, installs, outages>>

\* handle_inbound is over (ApprovalGate).
DeliveryEnds(u) ==
    /\ delivering[u] > 0
    /\ delivering' = [delivering EXCEPT ![u] = @ - 1]
    /\ given' = [given EXCEPT ![u] = @ + 1]
    /\ UNCHANGED <<sent, confirmed, current, offset, poll, again, discarded, installs, outages>>

-----------------------------------------------------------------------------
(* Tokens and crashes                                                        *)

\* What polls that were given up have read, and have not delivered.
Late(p) ==
    UNION {poll[k].parsed \cup poll[k].unparsed : k \in {j \in Polls : poll[j].of = p} \ Awaited(p)}

\* set_agent_token and remove_agent_token: the poller is stopped, and what its polls bring
\* is dropped; only a request under way still confirms.  A new poller has an adapter of
\* its own, and begins at once.
TokenChanges ==
    /\ installs < MaxInstalls /\ installs' = installs + 1
    /\ current' \in {NoPoller} \cup
         {p \in BotPollers \ {current} : \A k \in Polls : poll[k].of # p}
    /\ current' # current
    /\ poll' = [k \in Polls |->
           IF poll[k].at = "asking" THEN [poll[k] EXCEPT !.active = FALSE] ELSE NoPoll]
    /\ offset' = [p \in BotPollers |-> IF p = current' THEN 0 ELSE offset[p]]
    /\ again' = [u \in Updates |->
           IF u > confirmed /\ current' # NoPoller THEN again[u] + 1 ELSE again[u]]
    /\ discarded' = discarded \cup Late(current)
    /\ UNCHANGED <<sent, confirmed, delivering, given, outages>>

DaemonRestarts ==
    /\ current # NoPoller
    /\ installs < MaxInstalls /\ installs' = installs + 1
    /\ poll' = [k \in Polls |-> NoPoll]
    /\ offset' = [p \in BotPollers |-> 0]
    /\ delivering' = [u \in Updates |-> 0]
    /\ again' = [u \in Updates |-> IF u > confirmed THEN again[u] + 1 ELSE again[u]]
    /\ discarded' = discarded \cup {u \in Updates : delivering[u] > 0} \cup Late(current)
    /\ UNCHANGED <<sent, confirmed, current, given, outages>>

-----------------------------------------------------------------------------

ThreadStep(k) == RequestArrives(k) \/ PlatformAnswers(k) \/ ParseUpdate(k) \/ PollReturns(k)

TelegramNext ==
    \/ UserSends \/ PollBegins \/ TokenChanges \/ DaemonRestarts
    \/ \E k \in Polls :
         \/ ThreadStep(k) \/ RequestFails(k) \/ RequestHangs(k)
         \/ DeadlineFires(k) \/ Collect(k)
    \/ \E u \in Updates : DeliveryEnds(u)

\* Threads and the event loop go on, the platform answers what reaches it, and the
\* deadline comes for what never returns.
TelegramFairness ==
    /\ WF_telegramVars(PollBegins)
    /\ \A k \in Polls :
         /\ WF_telegramVars(ThreadStep(k)) /\ WF_telegramVars(Collect(k))
         /\ WF_telegramVars(poll[k].at = "stuck" /\ DeadlineFires(k))
    /\ \A u \in Updates : WF_telegramVars(DeliveryEnds(u))

TelegramSpec == TelegramInit /\ [][TelegramNext]_telegramVars /\ TelegramFairness

-----------------------------------------------------------------------------

TelegramTypeOK ==
    /\ sent \in 0..MaxUpdates /\ confirmed \in 0..MaxUpdates
    /\ current \in BotPollers \cup {NoPoller}
    /\ offset \in [BotPollers -> 0..MaxUpdates]
    /\ poll \in [Polls -> Poll]
    /\ {delivering, given, again} \subseteq [Updates -> Nat]
    /\ discarded \subseteq Updates
    /\ installs \in 0..MaxInstalls /\ outages \in 0..MaxOutages

\* What a user sends reaches the broker, through requests that fail or hang, deadlines
\* and late answers, replaced pollers and crashes; except what a stop or a crash takes
\* from a late poll or a running delivery, and without a poller.
UpdatesGetThrough ==
    \A u \in Updates : sent >= u ~> given[u] > 0 \/ u \in discarded \/ current = NoPoller

\* The broker gets an update once; once more for each poll given up that had asked for it,
\* and for each new adapter that finds it unconfirmed.
GivenOnce == \A u \in Updates : given[u] + delivering[u] <= 1 + again[u]

=============================================================================
