-------------------------- MODULE StreamingRecovery --------------------------
(***************************************************************************)
(* Who may tear down and bring up the SDK client of one StreamingSession:  *)
(* the warm reconnect and the forced restart, each in a task of its own,   *)
(* the replacement or retirement the API runs (TransportReplacementMixin), *)
(* and the idle sleep of the scheduler, which no ownership covers.  Both   *)
(* ownership flags are on.  A step runs to the next await that can block;  *)
(* disconnect() is taken to block even where there is nothing to close.    *)
(* The session has booted: BOOTING is the subject of SessionLifecycle.     *)
(***************************************************************************)
EXTENDS Naturals, FiniteSets

CONSTANTS
    MaxRetries,     \* attempts of one reconnect, len(_RECONNECT_BACKOFF)
    MaxRequests,    \* bound: restarts and retirements nothing but a caller wants
    MaxBreaks,      \* bound: transport failures, cancelled callers, failed steps
    MaxDropped      \* bound: clients the idle sleep drops before it is not called any more

ASSUME RecoveryAssumption ==
    MaxRetries \in Nat \ {0} /\ MaxRequests \in Nat /\ MaxBreaks \in Nat /\ MaxDropped \in Nat

VARIABLES
    sstate,         \* state of the session's state machine
    flight,         \* a forced restart's transition is in flight
    slot,           \* self._client
    live,           \* clients whose process may be running
    dropped,        \* history: clients the idle sleep took out of the slot without stopping them
    uncertain,      \* _cleanup_uncertain: the client in the slot may not have stopped
    reader,         \* what self._reader_task does
    inhibited,      \* _recovery_inhibited
    retired,        \* _recovery_retired
    stale,          \* the forced restart's generation is not the current one
    phase,          \* phase[t]: the await at which operation t is
    client,         \* client[t]: the client that await is about
    cancelled,      \* operations with a CancelledError on its way
    retries, fresh, \* of the running recovery: attempts, fallback used
    retiring,       \* the replacement is a retirement
    gone,           \* retire_transport returned: the session is unregistered
    requests, breaks

recoveryVars ==
    <<sstate, flight, slot, live, dropped, uncertain, reader, inhibited, retired, stale, phase, client,
      cancelled, retries, fresh, retiring, gone, requests, breaks>>

clientVars == <<slot, live, dropped, uncertain>>
attempt == <<cancelled, retries, fresh>>
flags == <<inhibited, retired, stale, retiring, gone>>
bounds == <<requests, breaks>>

Recoveries == {"reconnect", "restart"}      \* _reconnect_task, _force_restart_task
Owners == Recoveries \cup {"replace"}
Operations == Owners \cup {"sleep"}

NoClient == 0
Clients == 1..(MaxDropped + 4)     \* names; a closed client's is free again, not a dropped one's

RecoveryInit ==
    /\ sstate = "connected" /\ flight = FALSE
    /\ slot = 1 /\ live = {1} /\ dropped = {} /\ uncertain = FALSE /\ reader = "reading"
    /\ inhibited = FALSE /\ retired = FALSE /\ stale = FALSE
    /\ phase = [t \in Operations |-> "off"]
    /\ client = [t \in Operations |-> NoClient]
    /\ cancelled = {} /\ retries = 0 /\ fresh = FALSE /\ retiring = FALSE /\ gone = FALSE
    /\ requests = 0 /\ breaks = 0

Running(t) == phase[t] # "off"

\* The reconnect and the reader that asked for it, each awaiting the other: cancelling
\* either raises RecursionError, and neither ever resumes.
Entangled == phase["reconnect"] = "entangled"

Breaks == breaks < MaxBreaks /\ breaks' = breaks + 1 /\ UNCHANGED requests

-----------------------------------------------------------------------------
(* Claims: synchronous, before anything is awaited                           *)

\* _check_recovery_owner
Recoverable == ~inhibited /\ ~retired

Claimed(t) == phase' = [phase EXCEPT ![t] = "claimed"]

\* Mutant: attempt_reconnect does not join a forced restart.
ReconnectsBesideRestart ==
    IF ~Recoverable \/ Running("reconnect") THEN UNCHANGED phase ELSE Claimed("reconnect")

\* attempt_reconnect: join a forced restart, coalesce on a running reconnect or start it;
\* refused while a replacement holds the session.
AttemptReconnect ==
    IF Running("restart") \/ ~Recoverable \/ Running("reconnect")
    THEN UNCHANGED phase
    ELSE Claimed("reconnect")

\* The stream broke: the reader declares RECONNECTING and asks for a reconnect.
ReaderFails ==
    /\ reader = "reading"
    /\ Breaks
    /\ sstate' = "reconnecting"
    /\ reader' = CASE Running("restart") -> "joins"
                   [] ~Running("restart") /\ ~Recoverable -> "off"
                   [] OTHER -> "reconnects"
    /\ AttemptReconnect
    /\ UNCHANGED <<flight, clientVars, client, attempt, flags>>

\* A failed send asks for it, or the heartbeat of a session that is down.
OthersReconnect ==
    /\ \/ sstate = "connected" /\ slot # NoClient /\ Breaks
       \/ sstate \in {"dead", "reconnecting"} /\ ~gone /\ UNCHANGED bounds
    /\ AttemptReconnect /\ phase' # phase
    /\ UNCHANGED <<sstate, flight, clientVars, reader, client, cancelled, retries, fresh,
                   flags>>

\* The caller of attempt_reconnect awaits the task itself: cancelled, it cancels it.
CallerCancelled ==
    /\ Running("reconnect") /\ ~Entangled
    /\ Breaks
    /\ cancelled' = cancelled \cup {"reconnect"}
    /\ UNCHANGED <<sstate, flight, clientVars, reader, phase, client, retries, fresh, flags>>

\* Mutant: _start_force_restart does not look for a reconnect in flight.
RestartsBesideReconnect == Recoverable

\* _start_force_restart: not beside a reconnect in flight.
MayRestart == Recoverable /\ ~Running("reconnect")

\* force_restart, asked for by the reader (context full) or by another caller, who waits
\* shielded.
BeginRestart ==
    /\ MayRestart /\ ~gone
    /\ requests < MaxRequests /\ requests' = requests + 1 /\ UNCHANGED breaks
    /\ \/ reader' = reader
       \/ reader = "reading" /\ sstate = "connected" /\ slot # NoClient /\ reader' = "restarts"
    /\ IF Running("restart") THEN UNCHANGED <<phase, stale>>
       ELSE Claimed("restart") /\ stale' = FALSE
    /\ UNCHANGED <<sstate, flight, clientVars, client, cancelled, retries, fresh,
                   inhibited, retired, retiring, gone>>

-----------------------------------------------------------------------------
(* disconnect() and the ways an operation ends                               *)

\* disconnect up to its await, in state st: the fallback to DEAD, the reader cancelled,
\* the client it finds asked to stop.  A reader that awaits the reconnect is left to the
\* callers of this.
Disconnects(t, st) ==
    /\ sstate' = IF st = "connected" /\ ~flight THEN "dead" ELSE st
    /\ reader' = "off"
    /\ phase' = [phase EXCEPT ![t] = "closing"]
    /\ client' = [client EXCEPT ![t] = slot]

\* The slot is emptied, whatever is in it by now, and these clients no longer run.  One that
\* still does when the idle sleep takes it out runs on with nobody to stop it.
Empties(t, stopped) ==
    /\ slot' = NoClient /\ uncertain' = FALSE
    /\ live' = live \ stopped
    /\ dropped' = IF t = "sleep" THEN dropped \cup ({slot} \cap live') ELSE dropped

\* The client of its await stopped.
Stopped(t) == Empties(t, {client[t]})

\* The reader that waited for t goes on, if it still exists: the one whose stream broke
\* ends.
ReaderAfter(t) ==
    CASE t = "restart" /\ reader = "restarts" -> "reading"
      [] t = "restart" /\ reader = "joins" -> "off"
      [] t = "reconnect" /\ reader = "reconnects" -> "off"
      [] OTHER -> reader

Off(t) ==
    /\ phase' = [phase EXCEPT ![t] = "off"]
    /\ client' = [client EXCEPT ![t] = NoClient]
    /\ cancelled' = cancelled \ {t}
    /\ retries' = IF t = "reconnect" THEN 0 ELSE retries
    /\ fresh' = IF t = "sleep" THEN fresh ELSE FALSE

\* transition_complete: DEAD is always accepted, CONNECTED in CONNECTED or RECONNECTING;
\* otherwise it raises and the transition stays in flight.
Completes(final) ==
    LET accepted == final = "dead" \/ sstate \in {"connected", "reconnecting"}
    IN  /\ sstate' = IF accepted THEN final ELSE sstate
        /\ flight' = ~accepted

\* Every failure of an owner settles in DEAD.  A replacement that failed leaves the
\* session inhibited.
Fails(t) ==
    /\ Off(t) /\ reader' = ReaderAfter(t)
    /\ IF t = "restart" THEN Completes("dead")
       ELSE sstate' = "dead" /\ UNCHANGED flight

-----------------------------------------------------------------------------
(* The runs of the two recoveries up to their disconnect                     *)

\* _reconnect_attempts.  The reader that asked for it is awaiting this task, and
\* disconnect cancels and awaits that reader.
ReconnectRuns ==
    /\ phase["reconnect"] = "claimed" /\ "reconnect" \notin cancelled
    /\ IF reader = "reconnects"
       THEN /\ sstate' = "reconnecting"
            /\ phase' = [phase EXCEPT !["reconnect"] = "entangled"]
            /\ UNCHANGED <<reader, client>>
       ELSE Disconnects("reconnect", "reconnecting")
    /\ UNCHANGED <<flight, clientVars, attempt, flags, bounds>>

\* _force_restart_owned: the transition is granted from CONNECTED only.
RestartRuns ==
    /\ phase["restart"] = "claimed" /\ "restart" \notin cancelled
    /\ IF sstate = "connected" /\ ~flight
       THEN /\ flight' = TRUE
            /\ Disconnects("restart", "reconnecting")
            /\ UNCHANGED <<attempt>>
       ELSE /\ Off("restart") /\ reader' = ReaderAfter("restart")
            /\ UNCHANGED <<sstate, flight>>
    /\ UNCHANGED <<clientVars, flags, bounds>>

-----------------------------------------------------------------------------
(* restart_transport and retire_transport, one at a time (_session_scope)    *)

\* _quiesce_recovery_owner, up to its wait: revoke first, then cancel.
Quiesces(retire) ==
    /\ cancelled' = cancelled \cup {t \in Recoveries : Running(t)}
    /\ IF \E t \in Recoveries : Running(t)
       THEN /\ phase' = [phase EXCEPT !["replace"] = "quiescing"]
            /\ UNCHANGED <<sstate, reader, client, retired>>
       ELSE /\ retired' = (retired \/ retire)
            /\ Disconnects("replace", sstate)

\* The API, ensuring a session that is down, the watchdog, one that is reconnecting for
\* too long, or a caller who asks for it.  On the entangled pair task.cancel() raises,
\* and leaves the session inhibited.
ReplaceBegins(retire) ==
    /\ ~Running("replace") /\ ~gone
    /\ \/ sstate \in {"dead", "idle", "reconnecting"} /\ ~retire /\ UNCHANGED bounds
       \/ requests < MaxRequests /\ requests' = requests + 1 /\ UNCHANGED breaks
    /\ inhibited' = TRUE /\ stale' = TRUE
    /\ IF Entangled
       THEN UNCHANGED <<sstate, reader, phase, client, cancelled, retired, retiring>>
       ELSE Quiesces(retire) /\ retiring' = retire
    /\ UNCHANGED <<flight, clientVars, retries, fresh, gone>>

QuiesceEnds ==
    /\ phase["replace"] = "quiescing"
    /\ \A t \in Recoveries : ~Running(t)
    /\ retired' = (retired \/ retiring)
    /\ Disconnects("replace", sstate)
    /\ UNCHANGED <<flight, clientVars, inhibited, stale, retiring, gone, cancelled, retries,
                   fresh, bounds>>

\* The recoveries did not stop in five seconds, or one ended with an error.
QuiesceGivesUp ==
    /\ phase["replace"] = "quiescing"
    /\ Breaks
    /\ phase' = [phase EXCEPT !["replace"] = "off"]
    /\ UNCHANGED <<sstate, flight, clientVars, reader, client, attempt, flags>>

-----------------------------------------------------------------------------
(* connect()                                                                 *)

\* Mutant: connect does not know its replacement.
StartsAnyInhibited(t) ==
    ~retired /\ ~inhibited /\ (Running("restart") => ~stale)

\* _check_startup_owner
MayStart(t) ==
    ~retired /\ (inhibited => t = "replace") /\ (Running("restart") => ~stale)

FreeClients == Clients \ (live \cup dropped \cup {slot} \cup {client[t] : t \in Operations})

\* A new client in the slot, and its handshake.
Connects(t) ==
    LET new == CHOOSE c \in FreeClients : TRUE
    IN  /\ slot' = new
        /\ phase' = [phase EXCEPT ![t] = "handshake"]
        /\ client' = [client EXCEPT ![t] = new]
        /\ UNCHANGED dropped

\* disconnect returned in the operation: it goes on.
CloseEnds(t) ==
    /\ phase[t] = "closing" /\ t \notin cancelled
    /\ \/ /\ t = "sleep"
          /\ Stopped(t) /\ Off(t)
          /\ UNCHANGED <<sstate, flight, reader, gone>>
       \/ /\ t = "replace" /\ retiring
          /\ Stopped(t) /\ Off(t)
          /\ gone' = TRUE
          /\ UNCHANGED <<sstate, flight, reader>>
       \/ /\ t = "reconnect"
          /\ Stopped(t)
          /\ phase' = [phase EXCEPT ![t] = "backoff"]
          /\ client' = [client EXCEPT ![t] = NoClient]
          /\ sstate' = "reconnecting" /\ retries' = 1 /\ fresh' = FALSE
          /\ UNCHANGED <<flight, reader, cancelled, gone>>
       \/ /\ t = "restart" \/ (t = "replace" /\ ~retiring)
          /\ MayStart(t)
          /\ Connects(t) /\ live' = (live \ {client[t]}) \cup {slot'} /\ uncertain' = FALSE
          /\ sstate' = IF t = "restart" THEN "reconnecting" ELSE sstate
          /\ UNCHANGED <<flight, reader, cancelled, retries, fresh, gone>>
       \/ /\ t = "restart" \/ (t = "replace" /\ ~retiring)
          /\ ~MayStart(t)
          /\ Stopped(t) /\ Fails(t)
          /\ UNCHANGED gone
    /\ UNCHANGED <<inhibited, retired, stale, retiring, bounds>>

\* _replacement_cleanup_strict, an attribute of the session, is set by whoever owns it.
Strict(t) ==
    \/ t # "sleep"
    \/ \E r \in Recoveries : phase[r] \notin {"off", "claimed"}
    \/ phase["replace"] = "closing"
    \/ uncertain

\* client.disconnect() raised.  Strict: the client is kept for the next owner to settle.
\* Otherwise the slot is emptied all the same.
CloseFails(t) ==
    /\ phase[t] = "closing" /\ t \notin cancelled
    /\ Breaks
    /\ IF Strict(t)
       THEN /\ uncertain' = TRUE /\ UNCHANGED <<slot, live, dropped>>
            /\ IF t = "sleep" THEN Off(t) /\ UNCHANGED <<sstate, flight, reader>> ELSE Fails(t)
       ELSE Empties(t, {}) /\ Off(t) /\ UNCHANGED <<sstate, flight, reader>>
    /\ UNCHANGED flags

BackoffEnds ==
    /\ phase["reconnect"] = "backoff" /\ "reconnect" \notin cancelled
    /\ IF MayStart("reconnect")
       THEN /\ Connects("reconnect") /\ live' = live \cup {slot'}
            /\ UNCHANGED <<sstate, flight, reader, uncertain, attempt>>
       ELSE Fails("reconnect") /\ UNCHANGED clientVars
    /\ UNCHANGED <<flags, bounds>>

\* Shaken hands: the owner is checked again before CONNECTED is declared.
HandshakeSucceeds(t) ==
    /\ phase[t] = "handshake" /\ t \notin cancelled
    /\ IF MayStart(t)
       THEN /\ sstate' = "connected"
            /\ phase' = [phase EXCEPT ![t] = "setup"]
            /\ UNCHANGED <<flight, reader, client, attempt>>
       ELSE Fails(t)
    /\ UNCHANGED <<clientVars, flags, bounds>>

\* It failed: the partial client is stopped before anything else.
HandshakeFails(t) ==
    /\ phase[t] = "handshake" /\ t \notin cancelled
    /\ Breaks
    /\ phase' = [phase EXCEPT ![t] = "cleaning"]
    /\ UNCHANGED <<sstate, flight, clientVars, reader, client, attempt, flags>>

\* The partial client is stopped.  Then the one fallback to a fresh conversation, or the
\* error: the reconnect backs off unless its fallback is spent, the others fail.
CleaningEnds(t) ==
    /\ phase[t] = "cleaning" /\ t \notin cancelled
    /\ \/ /\ ~fresh /\ MayStart(t)
          /\ fresh' = TRUE
          /\ Connects(t) /\ live' = (live \ {client[t]}) \cup {slot'} /\ uncertain' = FALSE
          /\ UNCHANGED <<sstate, flight, reader, cancelled, retries>>
       \/ /\ t = "reconnect" /\ ~fresh /\ retries < MaxRetries
          /\ Stopped(t)
          /\ sstate' = "reconnecting" /\ retries' = retries + 1
          /\ phase' = [phase EXCEPT ![t] = "backoff"]
          /\ client' = [client EXCEPT ![t] = NoClient]
          /\ UNCHANGED <<flight, reader, cancelled, fresh>>
       \/ /\ t = "reconnect" => fresh \/ retries = MaxRetries
          /\ Stopped(t) /\ Fails(t)
    /\ UNCHANGED <<flags, bounds>>

\* Whether it stopped cannot be told: the client is kept, no further attempt.
CleaningFails(t) ==
    /\ phase[t] = "cleaning" /\ t \notin cancelled
    /\ Breaks
    /\ Fails(t) /\ uncertain' = TRUE
    /\ UNCHANGED <<slot, live, dropped, flags>>

\* Account info is there; the reader starts, and the operation has succeeded.
SetupEnds(t) ==
    /\ phase[t] = "setup" /\ t \notin cancelled
    /\ Off(t)
    /\ reader' = "reading"
    /\ IF t = "restart" THEN Completes("connected") ELSE UNCHANGED <<sstate, flight>>
    /\ IF t = "replace" THEN inhibited' = FALSE /\ retired' = FALSE
                        ELSE UNCHANGED <<inhibited, retired>>
    /\ UNCHANGED <<clientVars, stale, retiring, gone, bounds>>

\* CancelledError at the await.  Before its first step a task just ends; in the handshake
\* the partial client is stopped first; in a cleanup the client is kept.
Interrupted(t) ==
    /\ t \in cancelled
    /\ \/ /\ phase[t] = "claimed"
          /\ Off(t) /\ reader' = ReaderAfter(t)
          /\ UNCHANGED <<sstate, flight, uncertain>>
       \/ /\ phase[t] = "handshake"
          /\ phase' = [phase EXCEPT ![t] = "stopping"]
          /\ cancelled' = cancelled \ {t}
          /\ UNCHANGED <<sstate, flight, reader, uncertain, client, retries, fresh>>
       \/ /\ phase[t] \notin {"claimed", "handshake"}
          /\ Fails(t)
          /\ uncertain' = (uncertain \/ phase[t] \in {"closing", "cleaning", "stopping"})
    /\ UNCHANGED <<slot, live, dropped, flags, bounds>>

\* A cancelled handshake's client is stopped, or kept if that failed; the task ends.
StoppingEnds(t) ==
    /\ phase[t] = "stopping" /\ t \notin cancelled
    /\ Fails(t)
    /\ \/ Stopped(t) /\ UNCHANGED bounds
       \/ uncertain' = TRUE /\ UNCHANGED <<slot, live, dropped>> /\ Breaks
    /\ UNCHANGED flags

-----------------------------------------------------------------------------
(* idle_sleep                                                                *)

\* The scheduler found the session idle; it may save its memory first.
SleepBegins ==
    /\ sstate = "connected" /\ slot # NoClient /\ ~Running("sleep") /\ ~gone
    /\ Cardinality(dropped) < MaxDropped
    /\ phase' = [phase EXCEPT !["sleep"] = "saving"]
    /\ UNCHANGED <<sstate, flight, clientVars, reader, client, attempt, flags,
                   bounds>>

\* New messages arrived meanwhile.
SleepAborted ==
    /\ phase["sleep"] = "saving"
    /\ Off("sleep")
    /\ UNCHANGED <<sstate, flight, clientVars, reader, flags, bounds>>

\* The save is done: IDLE_SLEEPING, whatever the state is by now, and disconnect.  A
\* reader that awaits the reconnect is cancelled with it, and awaited first.
SleepResumes ==
    /\ phase["sleep"] = "saving"
    /\ CASE Entangled ->
              /\ sstate' = "idle"
              /\ Off("sleep")
              /\ UNCHANGED reader
         [] ~Entangled /\ reader = "reconnects" ->
              /\ sstate' = "idle"
              /\ phase' = [phase EXCEPT !["sleep"] = "waiting"]
              /\ cancelled' = cancelled \cup {"reconnect"}
              /\ UNCHANGED <<reader, client, retries, fresh>>
         [] OTHER ->
              /\ Disconnects("sleep", "idle")
              /\ UNCHANGED attempt
    /\ UNCHANGED <<flight, clientVars, flags, bounds>>

SleepGoesOn ==
    /\ phase["sleep"] = "waiting" /\ ~Running("reconnect")
    /\ phase' = [phase EXCEPT !["sleep"] = "closing"]
    /\ client' = [client EXCEPT !["sleep"] = slot]
    /\ UNCHANGED <<sstate, flight, clientVars, reader, attempt, flags, bounds>>

-----------------------------------------------------------------------------

Advances(t) ==
    \/ CloseEnds(t) \/ HandshakeSucceeds(t) \/ CleaningEnds(t) \/ SetupEnds(t)
    \/ Interrupted(t) \/ StoppingEnds(t)

RecoveryNext ==
    \/ ReaderFails \/ OthersReconnect \/ CallerCancelled \/ BeginRestart
    \/ \E retire \in BOOLEAN : ReplaceBegins(retire)
    \/ QuiesceEnds \/ QuiesceGivesUp
    \/ ReconnectRuns \/ RestartRuns \/ BackoffEnds
    \/ \E t \in Operations :
         Advances(t) \/ CloseFails(t) \/ HandshakeFails(t) \/ CleaningFails(t)
    \/ SleepBegins \/ SleepAborted \/ SleepResumes \/ SleepGoesOn

\* Awaits return, and tasks that can run do.  A session that is down, or reconnecting
\* for too long, is replaced: its messages, its heartbeat and the watchdog's sweep see
\* to that.
RecoveryFairness ==
    /\ \A t \in Operations : WF_recoveryVars(Advances(t))
    /\ WF_recoveryVars(QuiesceEnds) /\ WF_recoveryVars(ReconnectRuns)
    /\ WF_recoveryVars(RestartRuns) /\ WF_recoveryVars(BackoffEnds)
    /\ WF_recoveryVars(SleepResumes) /\ WF_recoveryVars(SleepGoesOn)
    /\ WF_recoveryVars(sstate \in {"dead", "reconnecting"} /\ ReplaceBegins(FALSE))

RecoverySpec == RecoveryInit /\ [][RecoveryNext]_recoveryVars /\ RecoveryFairness

-----------------------------------------------------------------------------

RecoveryTypeOK ==
    /\ sstate \in {"connected", "reconnecting", "idle", "dead"} /\ flight \in BOOLEAN
    /\ slot \in Clients \cup {NoClient} /\ live \subseteq Clients /\ dropped \subseteq Clients
    /\ uncertain \in BOOLEAN
    /\ reader \in {"off", "reading", "restarts", "joins", "reconnects"}
    /\ {inhibited, retired, stale, retiring, gone, fresh} \subseteq BOOLEAN
    /\ phase \in [Operations ->
         {"off", "claimed", "entangled", "quiescing", "closing", "backoff", "handshake",
          "cleaning", "stopping", "setup", "saving", "waiting"}]
    /\ client \in [Operations -> Clients \cup {NoClient}]
    /\ cancelled \subseteq Owners
    /\ retries \in 0..MaxRetries /\ requests \in 0..MaxRequests /\ breaks \in 0..MaxBreaks

\* One owner at a time has its hands on the client: reconnect, forced restart and
\* replacement never tear down or bring up beside each other, in whatever order they are
\* asked for, cancelled, refused and timed out.
OneRecoveryOwner ==
    Cardinality({t \in Owners : phase[t] \notin {"off", "claimed", "quiescing", "entangled"}}) <= 1

\* No recovery orphans a client: one that may be running is the one in the slot, where the
\* next owner finds and stops it; and behind a retirement that has returned none runs, nor
\* a recovery that would start one.  But for the clients the idle sleep dropped.
NoOrphan ==
    /\ live \subseteq {slot} \cup dropped
    /\ gone => live \subseteq dropped /\ \A t \in Owners : ~Running(t)

\* connect() assigns a new client only where the one before it has been settled: what its
\* comment asks of every entry, the idle wake included.
PriorChildSettled == [][slot' \notin {slot, NoClient} => live' = {slot'}]_recoveryVars

\* A session that broke comes back, unless it is put to sleep or retired, or its reconnect
\* is entangled with the reader that asked for it.
ComesBack ==
    sstate \in {"dead", "reconnecting"} ~> sstate \in {"connected", "idle"} \/ retired \/ gone \/ Entangled

\* A reconnect that has begun settles the session: what attempt_reconnect promises of the
\* task of its own it runs in.
ReconnectSettles == sstate = "reconnecting" ~> sstate # "reconnecting" \/ retired \/ gone

=============================================================================
