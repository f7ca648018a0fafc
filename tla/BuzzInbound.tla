----------------------------- MODULE BuzzInbound -----------------------------
(***************************************************************************)
(* The inbound side of one agent's Buzz identity (buzz_inbound.py): the    *)
(* relay sends the events of the listed channels, the poller records each  *)
(* before it hands it to the agent's session, and what was recorded and    *)
(* not delivered is replayed.  A change of the owner's policy stops the    *)
(* poller, which finishes what it is doing, and starts another one.        *)
(* Principals are gated and revoked as channels are, and are left out.     *)
(***************************************************************************)
EXTENDS Naturals, FiniteSets, Sequences, SequencesExt

CONSTANTS
    Channels,       \* the channels of the relay
    ChannelOf,      \* sequence of channels: that of each event
    Overlap,        \* how far below the newest recorded event a subscription reaches
    Pollers,        \* names of pollers; that of one that ended is free
    NoEvent,        \* dispatching nothing
    MaxPolicies,    \* bound: policies the owner puts
    MaxUpsets       \* bound: connections that end, hand-overs and writes that fail, crashes

ASSUME BuzzAssumption ==
    /\ ChannelOf \in Seq(Channels) /\ Overlap \in Nat
    /\ IsFiniteSet(Pollers) /\ NoEvent \notin DOMAIN ChannelOf
    /\ MaxPolicies \in Nat /\ MaxUpsets \in Nat

VARIABLES
    published,      \* events the relay stores
    listed,         \* buzz_inbound_channels
    rows,           \* buzz_inbound_events: delivery_status and claimed_at of each event
    phase,          \* of each poller
    stopping,       \* pollers that were told to stop
    todo,           \* what the poller's replay has still to process
    stream,         \* events the relay sends on the poller's connection
    floor,          \* subscription_since of the connection
    remembered,     \* _recent_ids of the poller's processor
    dispatching,    \* the event whose hand-over the poller awaits
    accepted,       \* pollers whose event the session has taken meanwhile
    taken,          \* history: how often the session took each event
    loosened,       \* history: how often a claim was dropped beside its hand-over
    revoked,        \* history: events revoked while nothing handed them over
    policies, upsets

buzzVars == <<published, listed, rows, phase, stopping, todo, stream, floor, remembered,
              dispatching, accepted, taken, loosened, revoked, policies, upsets>>

Events == DOMAIN ChannelOf      \* numbered by created_at

BuzzInit ==
    /\ published = {} /\ listed \in SUBSET Channels \ {{}}
    /\ rows = [e \in Events |-> "none"]
    /\ LET first == CHOOSE p \in Pollers : TRUE
       IN  phase = [p \in Pollers |-> IF p = first THEN "connecting" ELSE "off"]
    /\ stopping = {}
    /\ todo = [p \in Pollers |-> <<>>] /\ stream = [p \in Pollers |-> {}]
    /\ floor = [p \in Pollers |-> 0] /\ remembered = [p \in Pollers |-> {}]
    /\ dispatching = [p \in Pollers |-> NoEvent] /\ accepted = {}
    /\ taken = [e \in Events |-> 0] /\ loosened = [e \in Events |-> 0] /\ revoked = {}
    /\ policies = 0 /\ upsets = 0

Upset == upsets < MaxUpsets /\ upsets' = upsets + 1

Idle(p) == dispatching[p] = NoEvent /\ todo[p] = <<>>

\* An author's client: the relay stores the event and sends it to who is subscribed.
Publish(e) ==
    /\ e \notin published
    /\ published' = published \cup {e}
    /\ stream' = [p \in Pollers |->
                     IF phase[p] = "reading" /\ p \notin stopping /\ ChannelOf[e] \in listed
                     THEN stream[p] \cup {e} ELSE stream[p]]
    /\ UNCHANGED <<listed, rows, phase, stopping, todo, floor, remembered, dispatching,
                   accepted, taken, loosened, revoked, policies, upsets>>

-----------------------------------------------------------------------------
(* process_event                                                             *)

\* Mutant: what was delivered is claimed again.
ClaimsDelivered(p, e, replay) ==
    IF ChannelOf[e] \in listed /\ rows[e] # "claimed"
    THEN rows' = [rows EXCEPT ![e] = "claimed"] /\ dispatching' = [dispatching EXCEPT ![p] = e]
    ELSE UNCHANGED <<rows, dispatching>>

\* The gates, and begin_buzz_inbound_event_delivery: a replay finds no row when it was
\* deleted since the rows were listed, and records the event as a new one.
Claims(p, e, replay) ==
    IF ChannelOf[e] \in listed /\ (rows[e] = "none" \/ (replay /\ rows[e] = "pending"))
    THEN rows' = [rows EXCEPT ![e] = "claimed"] /\ dispatching' = [dispatching EXCEPT ![p] = e]
    ELSE UNCHANGED <<rows, dispatching>>

\* The connection ends with an exception; a poller that was stopped ends with it.
Disconnects(p) ==
    /\ phase' = [phase EXCEPT ![p] = IF p \in stopping THEN "off" ELSE "connecting"]
    /\ stopping' = stopping \ {p}
    /\ todo' = [todo EXCEPT ![p] = <<>>]
    /\ stream' = [stream EXCEPT ![p] = {}] /\ floor' = [floor EXCEPT ![p] = 0]
    /\ remembered' = [remembered EXCEPT ![p] = IF p \in stopping THEN {} ELSE @]

\* dispatch_pre_authorized: the session takes the event, and then the call returns.
HandsOver(p) ==
    /\ dispatching[p] # NoEvent /\ p \notin accepted
    /\ accepted' = accepted \cup {p}
    /\ taken' = [taken EXCEPT ![dispatching[p]] = @ + 1]
    /\ UNCHANGED <<published, listed, rows, phase, stopping, todo, stream, floor, remembered,
                   dispatching, loosened, revoked, policies, upsets>>

\* mark_buzz_inbound_event_delivered: a row that was deleted meanwhile stays so.
MarksDelivered(p) ==
    /\ p \in accepted
    /\ accepted' = accepted \ {p} /\ dispatching' = [dispatching EXCEPT ![p] = NoEvent]
    /\ rows' = [rows EXCEPT ![dispatching[p]] =
                    IF @ \in {"pending", "claimed"} THEN "delivered" ELSE @]
    /\ UNCHANGED <<published, listed, phase, stopping, todo, stream, floor, remembered,
                   taken, loosened, revoked, policies, upsets>>

\* mark_buzz_inbound_event_retry: the session did not take the event.
Refused(p) ==
    /\ dispatching[p] # NoEvent /\ p \notin accepted
    /\ Upset
    /\ rows' = [rows EXCEPT ![dispatching[p]] = IF @ = "claimed" THEN "pending" ELSE @]
    /\ dispatching' = [dispatching EXCEPT ![p] = NoEvent]
    /\ Disconnects(p)
    /\ UNCHANGED <<published, listed, accepted, taken, loosened, revoked, policies>>

\* The write after the hand-over raises: the claim stays until its lease has run out.
MarkFails(p) ==
    /\ p \in accepted
    /\ Upset
    /\ accepted' = accepted \ {p} /\ dispatching' = [dispatching EXCEPT ![p] = NoEvent]
    /\ Disconnects(p)
    /\ UNCHANGED <<published, listed, rows, taken, loosened, revoked, policies>>

\* A claim is as good as released when it is older than its lease.
Unclaimed(e) ==
    /\ rows[e] = "claimed"
    /\ rows' = [rows EXCEPT ![e] = "pending"]
    /\ loosened' = [loosened EXCEPT ![e] = @ + 1]
    /\ UNCHANGED <<published, listed, phase, stopping, todo, stream, floor, remembered,
                   dispatching, accepted, taken, revoked, policies>>

HandedOver(e) == \E p \in Pollers : dispatching[p] = e

LeaseRunsOut(e) == ~HandedOver(e) /\ Unclaimed(e) /\ UNCHANGED upsets

HandOverOutlivesLease(e) == HandedOver(e) /\ Unclaimed(e) /\ Upset

-----------------------------------------------------------------------------
(* The poller                                                                *)

\* list_pending_buzz_inbound_events
Replayable == SetToSortSeq({e \in Events : rows[e] = "pending"}, <)

\* Authenticated: the replay lists what it will process.
Connect(p) ==
    /\ phase[p] = "connecting"
    /\ phase' = [phase EXCEPT ![p] = "replaying"]
    /\ todo' = [todo EXCEPT ![p] = Replayable]
    /\ UNCHANGED <<published, listed, rows, stopping, stream, floor, remembered, dispatching,
                   accepted, taken, loosened, revoked, policies, upsets>>

\* replay_pending awaits each hand-over before it processes the next event.
ReplayNext(p) ==
    /\ todo[p] # <<>> /\ dispatching[p] = NoEvent
    /\ todo' = [todo EXCEPT ![p] = Tail(@)]
    /\ Claims(p, Head(todo[p]), TRUE)
    /\ UNCHANGED <<published, listed, phase, stopping, stream, floor, remembered, accepted,
                   taken, loosened, revoked, policies, upsets>>

\* get_buzz_subscription_since: a little below the newest event on record, or the last
\* minute when there is none.  The relay sends what it stores, of any age.
Subscribe(p) ==
    /\ phase[p] = "replaying" /\ Idle(p)
    /\ phase' = [phase EXCEPT ![p] = "reading"]
    /\ LET known == {e \in Events : rows[e] # "none"}
       IN  IF known = {} THEN \E f \in 0..Len(ChannelOf) : floor' = [floor EXCEPT ![p] = f]
           ELSE LET newest == CHOOSE e \in known : \A k \in known : k <= e
                IN  floor' = [floor EXCEPT ![p] =
                                 IF newest > Overlap THEN newest - Overlap ELSE 0]
    /\ stream' = [stream EXCEPT ![p] = {e \in published : ChannelOf[e] \in listed}]
    /\ UNCHANGED <<published, listed, rows, stopping, todo, remembered, dispatching, accepted,
                   taken, loosened, revoked, policies, upsets>>

\* An EVENT frame, in whatever order the relay sends them.
Read(p, e) ==
    /\ phase[p] = "reading" /\ Idle(p)
    /\ e \in stream[p] /\ stream' = [stream EXCEPT ![p] = @ \ {e}]
    /\ IF e < floor[p] \/ e \in remembered[p] THEN UNCHANGED <<rows, remembered, dispatching>>
       ELSE /\ remembered' = [remembered EXCEPT ![p] = @ \cup {e}]
            /\ Claims(p, e, FALSE)
    /\ UNCHANGED <<published, listed, phase, stopping, todo, floor, accepted, taken, loosened,
                   revoked, policies, upsets>>

\* Mutant: the heartbeat only probes the relay.
ProbesOnly(p) ==
    /\ phase[p] = "reading" /\ Idle(p) /\ p \notin stopping /\ Replayable # <<>>
    /\ UNCHANGED buzzVars

\* The heartbeat, after its probe, replays too.
Heartbeat(p) ==
    /\ phase[p] = "reading" /\ Idle(p) /\ p \notin stopping /\ Replayable # <<>>
    /\ todo' = [todo EXCEPT ![p] = Replayable]
    /\ UNCHANGED <<published, listed, rows, phase, stopping, stream, floor, remembered,
                   dispatching, accepted, taken, loosened, revoked, policies, upsets>>

\* The relay or the network ends the connection, or the write before a hand-over raises:
\* the processor remembers the event, which has no row.
ConnectionEnds(p) ==
    /\ phase[p] = "reading" /\ Idle(p) /\ p \notin stopping
    /\ Upset
    /\ LET kept == {e \in stream[p] : e >= floor[p] /\ ChannelOf[e] \in listed /\ rows[e] = "none"}
       IN  \E lost \in {{}} \cup {{e} : e \in kept} :
              remembered' = [remembered EXCEPT ![p] = @ \cup lost]
    /\ phase' = [phase EXCEPT ![p] = "connecting"]
    /\ stream' = [stream EXCEPT ![p] = {}] /\ floor' = [floor EXCEPT ![p] = 0]
    /\ UNCHANGED <<published, listed, rows, stopping, todo, dispatching, accepted, taken,
                   loosened, revoked, policies>>

\* A poller that was stopped ends when it next looks, or its socket is closed under it.
StoppedEnds(p) ==
    /\ p \in stopping /\ Idle(p)
    /\ Disconnects(p)
    /\ UNCHANGED <<published, listed, rows, dispatching, accepted, taken, loosened, revoked,
                   policies, upsets>>

-----------------------------------------------------------------------------

\* configure_buzz_inbound_owner_control deletes what waits of a revoked channel, and
\* _restart_buzz_poller tells the poller to stop and starts one beside it.
PutPolicy(channels) ==
    /\ policies < MaxPolicies /\ policies' = policies + 1
    /\ \E p \in Pollers : phase[p] = "off"
    /\ listed' = channels
    /\ LET Revoked(e) == rows[e] \in {"pending", "claimed"} /\ ChannelOf[e] \notin channels
       IN  /\ rows' = [e \in Events |-> IF Revoked(e) THEN "none" ELSE rows[e]]
           /\ loosened' = [e \in Events |-> IF Revoked(e) /\ rows[e] = "claimed"
                                            THEN loosened[e] + 1 ELSE loosened[e]]
           /\ revoked' = revoked \cup {e \in Events : Revoked(e) /\ ~HandedOver(e)}
    /\ stopping' = {p \in Pollers : phase[p] # "off"}
    /\ LET new == CHOOSE p \in Pollers : phase[p] = "off"
       IN  phase' = [phase EXCEPT ![new] = "connecting"]
    /\ UNCHANGED <<published, todo, stream, floor, remembered, dispatching, accepted, taken, upsets>>

\* The daemon dies; reset_buzz_inbound_event_claims_after_restart, and a new poller.
Restart ==
    /\ Upset
    /\ rows' = [e \in Events |-> IF rows[e] = "claimed" THEN "pending" ELSE rows[e]]
    /\ loosened' = [e \in Events |-> IF rows[e] = "claimed" THEN loosened[e] + 1 ELSE loosened[e]]
    /\ LET new == CHOOSE p \in Pollers : TRUE
       IN  phase' = [p \in Pollers |-> IF p = new THEN "connecting" ELSE "off"]
    /\ stopping' = {} /\ accepted' = {}
    /\ todo' = [p \in Pollers |-> <<>>] /\ stream' = [p \in Pollers |-> {}]
    /\ floor' = [p \in Pollers |-> 0] /\ remembered' = [p \in Pollers |-> {}]
    /\ dispatching' = [p \in Pollers |-> NoEvent]
    /\ UNCHANGED <<published, listed, taken, revoked, policies>>

PollerGoesOn(p) ==
    \/ HandsOver(p) \/ MarksDelivered(p) \/ Connect(p) \/ ReplayNext(p) \/ Subscribe(p)
    \/ Heartbeat(p) \/ StoppedEnds(p)

BuzzNext ==
    \/ \E e \in Events : Publish(e) \/ LeaseRunsOut(e) \/ HandOverOutlivesLease(e)
    \/ \E p \in Pollers :
         \/ PollerGoesOn(p) \/ Refused(p) \/ MarkFails(p) \/ ConnectionEnds(p)
         \/ \E e \in Events : Read(p, e)
    \/ \E channels \in SUBSET Channels \ {{}} : PutPolicy(channels)
    \/ Restart

\* The event loop runs what is ready, calls return, the relay can be reached, and time passes.
BuzzSpec ==
    /\ BuzzInit /\ [][BuzzNext]_buzzVars
    /\ \A p \in Pollers : WF_buzzVars(PollerGoesOn(p))
    /\ \A e \in Events : WF_buzzVars(LeaseRunsOut(e))

-----------------------------------------------------------------------------

BuzzTypeOK ==
    /\ published \subseteq Events /\ revoked \subseteq Events
    /\ listed \subseteq Channels /\ listed # {}
    /\ rows \in [Events -> {"none", "claimed", "pending", "delivered"}]
    /\ phase \in [Pollers -> {"off", "connecting", "replaying", "reading"}]
    /\ stopping \subseteq {p \in Pollers : phase[p] # "off"}
    /\ todo \in [Pollers -> Seq(Events)] /\ stream \in [Pollers -> SUBSET Events]
    /\ floor \in [Pollers -> 0..Len(ChannelOf)] /\ remembered \in [Pollers -> SUBSET Events]
    /\ dispatching \in [Pollers -> Events \cup {NoEvent}]
    /\ accepted \subseteq {p \in Pollers : dispatching[p] # NoEvent}
    /\ taken \in [Events -> Nat] /\ loosened \in [Events -> Nat]
    /\ policies \in 0..MaxPolicies /\ upsets \in 0..MaxUpsets

\* The session takes an event once, whatever the relay sends again on a later connection
\* and however the pollers before and after a change of policy overlap; once more for each
\* time its claim was dropped beside a hand-over, by a crash, a lease or a revocation.
TakenOnce == \A e \in Events : taken[e] <= 1 + loosened[e]

\* What was recorded does not stay undelivered: connections that end, hand-overs that
\* fail, crashes and stopped pollers only delay it, unless it is revoked.
RecordedSettles ==
    \A e \in Events : rows[e] \in {"pending", "claimed"} ~> rows[e] \in {"delivered", "none"}

\* "Pending events whose channel or author was revoked must not become deliverable if
\* that authority is added back later."
RevokedStaysOut == [][\A e \in revoked : taken'[e] = taken[e]]_buzzVars

=============================================================================
