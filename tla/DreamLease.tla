----------------------------- MODULE DreamLease -----------------------------
(***************************************************************************)
(* The durable receipts of an agent's nightly dream (dream_runner.py): a    *)
(* dream hands an interval of the conversation history to an external       *)
(* session, which writes memories as it goes.  Every run first persists an  *)
(* attempt - the frozen interval, a lease on it - and moves the watermark   *)
(* of dreamt history only when the attempt settles, so that a daemon that   *)
(* dies in between neither loses history nor dreams it twice.               *)
(*                                                                          *)
(* A step is one database transaction or one await of _run_dream_locked.    *)
(* Messages are numbered in the order of their timestamps.                  *)
(***************************************************************************)
EXTENDS Naturals, FiniteSets, FiniteSetsExt

CONSTANTS
    Runners,        \* identities of DreamRunner: one per daemon process
    Nobody,         \* no lease owner
    Cap,            \* _REFLECTION_ATTEMPT_CAP
    MaxNights,      \* bound: calendar nights
    MaxMessages,    \* bound: messages of the history
    MaxFaults       \* bound: crashes, interruptions, stalls, sessions a teardown leaves
                    \* behind and removed messages

ASSUME DreamAssumption ==
    /\ IsFiniteSet(Runners) /\ Nobody \notin Runners
    /\ Cap \in Nat \ {0} /\ MaxNights \in Nat \ {0}
    /\ MaxMessages \in Nat /\ MaxFaults \in Nat

VARIABLES
    arrived,        \* messages stored so far
    history,        \* those still in the conversation store
    night,          \* the current night key
    attempts,       \* dream_reflection_attempts
    watermark,      \* dream_state.last_message_ts
    run,            \* what each runner is doing
    dreaming,       \* the dream sessions that may be running
    written,        \* memories: which attempt's session wrote, launched by whom
    outlived,       \* history variable: attempts whose session a crash or stall of its
                    \* owner left unattended
    abandoned,      \* history variable: attempts whose session a teardown left running
    faults

storeVars == <<attempts, watermark>>
outsideVars == <<arrived, history, night>>
sessionVars == <<dreaming, written, outlived, abandoned>>
dreamVars == <<outsideVars, storeVars, run, sessionVars, faults>>

-----------------------------------------------------------------------------

\* The key of a receipt: its night and its number in that night.
Attempts == (1..MaxNights) \X (1..Cap)
NoAttempt == <<0, 0>>

Status == {"none", "pending", "completed", "failed"}

Receipt ==
    [status : Status, terminal : BOOLEAN, start : Nat, end : Nat,
     owner : Runners \cup {Nobody}, expired : BOOLEAN, ended : BOOLEAN, begun : Nat]

NoReceipt ==
    [status |-> "none", terminal |-> FALSE, start |-> 0, end |-> 0,
     owner |-> Nobody, expired |-> FALSE, ended |-> FALSE, begun |-> 0]

Stage == {"idle", "progress", "read", "close", "begin", "check", "launch", "running",
          "ended", "count", "commit", "giveup", "dead"}

Run ==
    [at : Stage, attempt : Attempts \cup {NoAttempt}, snapshot : Nat,
     retry : Attempts \cup {NoAttempt}, start : Nat, end : Nat, failed : BOOLEAN]

IdleRun ==
    [at |-> "idle", attempt |-> NoAttempt, snapshot |-> 0, retry |-> NoAttempt,
     start |-> 0, end |-> 0, failed |-> FALSE]

\* _resolve_dream_transport: a task in the daemon, or a session of the tmux server
\* that has the agent's name for dreams.
Transports == {"sdk", "tmux"}

\* A dream session; "left" once nobody waits for it any more.
Session == [attempt : Attempts, by : Runners, over : Transports, left : BOOLEAN]

DreamInit ==
    /\ arrived = 0 /\ history = {} /\ night = 1
    /\ attempts = [a \in Attempts |-> NoReceipt]
    /\ watermark = 0
    /\ run = [r \in Runners |-> IdleRun]
    /\ dreaming = {} /\ written = {} /\ outlived = {} /\ abandoned = {}
    /\ faults = 0

Later(x, y) == IF x >= y THEN x ELSE y

Pending == {a \in Attempts : attempts[a].status = "pending"}
Settled(receipt) == receipt.status = "completed" \/ receipt.terminal
Holds(r, a) == attempts[a].status = "pending" /\ attempts[a].owner = r
WrittenUnder(a) == \E r \in Runners : <<a, r>> \in written

\* _fetch_unprocessed_history between two timestamps
Between(low, high) == {m \in history : low < m /\ m <= high}
Lines(low) == Between(low, arrived)
NewWatermark(low) == IF Lines(low) = {} THEN low ELSE Max(Lines(low))

Goes(r, at) == run' = [run EXCEPT ![r].at = at]
Returns(r) == run' = [run EXCEPT ![r] = IdleRun]

-----------------------------------------------------------------------------
(* Recovery of a receipt that was left pending.                              *)

\* _claim_pending_reflection_attempt: the lease is the runner's own, ran out, or
\* belongs to a process that is provably dead.
Claimable(r, a) ==
    \/ attempts[a].owner = r
    \/ attempts[a].expired
    \/ run[attempts[a].owner].at = "dead"

Claim(r) ==
    /\ run[r].at = "idle"
    /\ \E a \in Pending :
         /\ Claimable(r, a)
         /\ attempts' = [attempts EXCEPT ![a].owner = r, ![a].expired = FALSE]
         /\ run' = [run EXCEPT ![r] = [IdleRun EXCEPT !.at = "check", !.attempt = a]]
    /\ UNCHANGED <<outsideVars, watermark, sessionVars, faults>>

\* Mutant: what the interrupted session wrote is not looked at.
ResumeAnyway(r) ==
    /\ run[r].at = "check"
    /\ Goes(r, "launch")
    /\ UNCHANGED <<outsideVars, storeVars, sessionVars, faults>>

\* Tagged memories, or a session that had ended, settle the attempt; an attempt that
\* wrote nothing runs again on its frozen interval, if there still is history in it.
CheckWrites(r) ==
    /\ run[r].at = "check"
    /\ LET a == run[r].attempt IN
         \/ /\ WrittenUnder(a) \/ attempts[a].ended
            /\ Goes(r, "commit")
         \/ /\ ~WrittenUnder(a) /\ ~attempts[a].ended
            /\ IF Between(attempts[a].start, attempts[a].end) = {}
               THEN Goes(r, "giveup") ELSE Goes(r, "launch")
    /\ UNCHANGED <<outsideVars, storeVars, sessionVars, faults>>

-----------------------------------------------------------------------------
(* A new attempt.                                                            *)

NothingPending(r) ==
    /\ run[r].at = "idle"
    /\ Pending = {}
    /\ Goes(r, "progress")
    /\ UNCHANGED <<outsideVars, storeVars, sessionVars, faults>>

ReadProgress(r) ==
    /\ run[r].at = "progress"
    /\ run' = [run EXCEPT ![r].at = "read", ![r].snapshot = watermark]
    /\ UNCHANGED <<outsideVars, storeVars, sessionVars, faults>>

\* _get_retryable_failed_attempt: the newest failed interval ahead of the watermark
Retryable(a) ==
    /\ attempts[a].status = "failed" /\ ~attempts[a].terminal
    /\ attempts[a].end > watermark

Newest(a) == Retryable(a) /\ \A b \in Attempts : Retryable(b) => attempts[b].begun <= attempts[a].begun

\* The interval is that of the failed attempt; or, if its messages are gone, what
\* follows it; or, with nothing to retry, what follows the watermark.
ReadInterval(r) ==
    /\ run[r].at = "read"
    /\ \/ \E a \in Attempts :
            /\ Newest(a)
            /\ LET old == attempts[a]
                   rest == Later(run[r].snapshot, old.end)
               IN run' = [run EXCEPT ![r] =
                    IF Between(old.start, old.end) # {}
                    THEN [@ EXCEPT !.at = "begin", !.retry = a,
                                   !.start = old.start, !.end = old.end]
                    ELSE [@ EXCEPT !.at = "close", !.retry = a,
                                   !.start = rest, !.end = NewWatermark(rest)]]
       \/ /\ \A a \in Attempts : ~Retryable(a)
          /\ LET low == run[r].snapshot IN
               run' = [run EXCEPT ![r] =
                    IF Lines(low) = {} THEN IdleRun
                    ELSE [@ EXCEPT !.at = "begin", !.start = low, !.end = NewWatermark(low)]]
    /\ UNCHANGED <<outsideVars, storeVars, sessionVars, faults>>

\* _close_empty_retry_interval, unless progress moved since the snapshot.
CloseEmptyRetry(r) ==
    /\ run[r].at = "close"
    /\ LET a == run[r].retry IN
         \/ /\ watermark # run[r].snapshot
            /\ Returns(r)
            /\ UNCHANGED storeVars
         \/ /\ watermark = run[r].snapshot
            /\ attempts' = [b \in Attempts |->
                 IF b[1] = a[1] /\ attempts[b].status = "failed"
                 THEN [attempts[b] EXCEPT !.terminal = TRUE] ELSE attempts[b]]
            /\ watermark' = Later(watermark, attempts[a].end)
            /\ run' = [run EXCEPT ![r] =
                 IF run[r].end = run[r].start THEN IdleRun
                 ELSE [@ EXCEPT !.at = "begin", !.retry = NoAttempt, !.snapshot = run[r].start]]
    /\ UNCHANGED <<outsideVars, sessionVars, faults>>

\* The interval that was read is still the right one to begin with.
Fresh(r) ==
    LET a == run[r].retry IN
    IF a = NoAttempt THEN watermark = run[r].start
    ELSE /\ attempts[a].status = "failed" /\ ~attempts[a].terminal
         /\ run[r].end > watermark

NightOf(r) == IF run[r].retry = NoAttempt THEN night ELSE run[r].retry[1]
Used(n) == {i \in 1..Cap : attempts[<<n, i>>].status # "none"}
NextNumber(n) == 1 + IF Used(n) = {} THEN 0 ELSE Max(Used(n))
Begun == Cardinality({a \in Attempts : attempts[a].status # "none"})

NewReceipt(r) ==
    [status |-> "pending", terminal |-> FALSE, start |-> run[r].start, end |-> run[r].end,
     owner |-> r, expired |-> FALSE, ended |-> FALSE, begun |-> Begun + 1]

\* _begin_reflection_attempt: the receipt is on disk before the session exists.
Begin(r) ==
    /\ run[r].at = "begin"
    /\ LET n == NightOf(r)
           a == <<n, NextNumber(n)>>
           mayBegin == Fresh(r) /\ Pending = {} /\ NextNumber(n) <= Cap
       IN \/ /\ ~mayBegin
             /\ Returns(r)
             /\ UNCHANGED attempts
          \/ /\ mayBegin
             /\ attempts' = [attempts EXCEPT ![a] = NewReceipt(r)]
             /\ run' = [run EXCEPT ![r] = [IdleRun EXCEPT !.at = "launch", !.attempt = a]]
    /\ UNCHANGED <<outsideVars, watermark, sessionVars, faults>>

-----------------------------------------------------------------------------
(* The session.                                                              *)

\* kill-session by the agent's name for dreams: whoever started the session that has it.
NameKilled == {d \in dreaming : d.over = "sdk"}

\* Over tmux the name is freed first: a session that has it and would not go makes the
\* launch fail.  Over the SDK nothing looks for a task that was abandoned.
Launch(r) ==
    /\ run[r].at = "launch"
    /\ \E t \in Transports :
         dreaming' = (IF t = "tmux" THEN NameKilled ELSE dreaming)
                       \cup {[attempt |-> run[r].attempt, by |-> r, over |-> t, left |-> FALSE]}
    /\ Goes(r, "running")
    /\ UNCHANGED <<outsideVars, storeVars, written, outlived, abandoned, faults>>

\* ... or fails before that.
LaunchFails(r) ==
    /\ run[r].at = "launch"
    /\ run' = [run EXCEPT ![r].at = "count", ![r].failed = TRUE]
    /\ UNCHANGED <<outsideVars, storeVars, sessionVars, faults>>

\* reflect(): a memory with the attempt's tag, straight into the memory database.
Writes ==
    /\ \E d \in dreaming : written' = written \cup {<<d.attempt, d.by>>}
    /\ UNCHANGED <<outsideVars, storeVars, run, dreaming, outlived, abandoned, faults>>

\* The session the runner waits for, unless another runner's launch killed it.
Own(r) == {d \in dreaming : d.by = r /\ ~d.left}
OverTmux(r) == \A d \in Own(r) : d.over = "tmux"

\* The session is gone with the run: the SDK task ended or obeyed the cancellation, the
\* tmux session was killed by its name.
Gone(r) ==
    /\ dreaming' = IF OverTmux(r) THEN NameKilled ELSE dreaming \ Own(r)
    /\ UNCHANGED abandoned

\* Or it is not: an SDK task that outlives the grace of its teardown is abandoned, and
\* nobody looks whether kill-session timed out.
Left(r) ==
    /\ Own(r) # {}
    /\ dreaming' = (dreaming \ Own(r)) \cup {[d EXCEPT !.left = TRUE] : d \in Own(r)}
    /\ abandoned' = abandoned \cup {d.attempt : d \in Own(r)}

\* The report is there, or it never comes: the session exits, times out, is killed by
\* another runner, or the renewal of the lease fails and the run is cancelled.
Ends(r) ==
    /\ run[r].at = "running"
    /\ \/ /\ Own(r) # {}
          /\ Goes(r, "ended")
          /\ Gone(r) /\ UNCHANGED faults
       \/ /\ run' = [run EXCEPT ![r].at = "count", ![r].failed = TRUE]
          /\ \/ Gone(r) /\ UNCHANGED faults
             \/ Left(r) /\ faults < MaxFaults /\ faults' = faults + 1
    /\ UNCHANGED <<outsideVars, storeVars, written, outlived>>

-----------------------------------------------------------------------------
(* Settling the attempt.                                                     *)

\* _mark_reflection_attempt_runner_completed, by the owner of the lease only
MarkEnded(r) ==
    /\ run[r].at = "ended"
    /\ LET a == run[r].attempt IN
         \/ /\ Holds(r, a)
            /\ attempts' = [attempts EXCEPT ![a].ended = TRUE]
            /\ Goes(r, "count")
         \/ /\ ~Holds(r, a)
            /\ Returns(r)
            /\ UNCHANGED attempts
    /\ UNCHANGED <<outsideVars, watermark, sessionVars, faults>>

CountWrites(r) ==
    /\ run[r].at = "count"
    /\ IF run[r].failed /\ ~WrittenUnder(run[r].attempt)
       THEN Goes(r, "giveup") ELSE Goes(r, "commit")
    /\ UNCHANGED <<outsideVars, storeVars, sessionVars, faults>>

Closed(a, status, terminal) ==
    attempts' = [attempts EXCEPT ![a].status = status, ![a].terminal = terminal,
                                 ![a].owner = Nobody, ![a].expired = FALSE]

\* A lease that was taken over meanwhile raises out of the run.
LeaseLost(r) ==
    /\ run[r].at \in {"commit", "giveup"}
    /\ ~Holds(r, run[r].attempt)
    /\ Returns(r)
    /\ UNCHANGED <<outsideVars, storeVars, sessionVars, faults>>

\* Mutant: finalizing only looks at the attempt, not at its state or its owner.
CommitUnfenced(r) ==
    /\ run[r].at = "commit"
    /\ LET a == run[r].attempt IN
         /\ Closed(a, "completed", FALSE)
         /\ watermark' = Later(watermark, attempts[a].end)
    /\ Returns(r)
    /\ UNCHANGED <<outsideVars, sessionVars, faults>>

\* _commit_reflection_outcome of a dream
Commit(r) ==
    /\ run[r].at = "commit"
    /\ LET a == run[r].attempt IN
         /\ Holds(r, a)
         /\ Closed(a, "completed", FALSE)
         /\ watermark' = Later(watermark, attempts[a].end)
    /\ Returns(r)
    /\ UNCHANGED <<outsideVars, sessionVars, faults>>

\* Mutant: a failed attempt moves the watermark behind its interval.
FailBehind(r) ==
    /\ run[r].at = "giveup"
    /\ LET a == run[r].attempt IN
         /\ Holds(r, a)
         /\ a[2] < Cap
         /\ Closed(a, "failed", FALSE)
         /\ watermark' = Later(watermark, attempts[a].end)
    /\ Returns(r)
    /\ UNCHANGED <<outsideVars, sessionVars, faults>>

\* _fail_reflection_attempt: nothing was written, the interval may be retried.
Fail(r) ==
    /\ run[r].at = "giveup"
    /\ LET a == run[r].attempt IN
         /\ Holds(r, a)
         /\ a[2] < Cap
         /\ Closed(a, "failed", FALSE)
         /\ watermark' = Later(watermark, attempts[a].start)
    /\ Returns(r)
    /\ UNCHANGED <<outsideVars, sessionVars, faults>>

\* Mutant: the night's last attempt fails like the others.
FailAgain(r) ==
    /\ run[r].at = "giveup"
    /\ LET a == run[r].attempt IN
         /\ Holds(r, a)
         /\ a[2] = Cap
         /\ Closed(a, "failed", FALSE)
         /\ watermark' = Later(watermark, attempts[a].start)
    /\ Returns(r)
    /\ UNCHANGED <<outsideVars, sessionVars, faults>>

\* The night's last attempt gives the interval up: failed-terminal.
FailForGood(r) ==
    /\ run[r].at = "giveup"
    /\ LET a == run[r].attempt IN
         /\ Holds(r, a)
         /\ a[2] = Cap
         /\ Closed(a, "failed", TRUE)
         /\ watermark' = Later(watermark, attempts[a].end)
    /\ Returns(r)
    /\ UNCHANGED <<outsideVars, sessionVars, faults>>

-----------------------------------------------------------------------------
(* The world.                                                                *)

Busy(r) == run[r].at \notin {"idle", "dead"}

\* The lease runs out.  A runner at work renews it every quarter of an hour, unless it
\* stalls: then its session is unattended.
LeaseExpires(a) ==
    /\ attempts[a].status = "pending" /\ ~attempts[a].expired
    /\ attempts' = [attempts EXCEPT ![a].expired = TRUE]
    /\ \/ /\ ~Busy(attempts[a].owner)
          /\ UNCHANGED <<outlived, faults>>
       \/ /\ Busy(attempts[a].owner)
          /\ faults < MaxFaults /\ faults' = faults + 1
          /\ outlived' = outlived \cup {a}
    /\ UNCHANGED <<outsideVars, watermark, run, dreaming, written, abandoned>>

\* The run is cancelled, and its session with it.
Interrupted(r) ==
    /\ Busy(r)
    /\ faults < MaxFaults /\ faults' = faults + 1
    /\ Returns(r)
    /\ \/ run[r].at = "running" /\ (Gone(r) \/ Left(r))
       \/ run[r].at # "running" /\ UNCHANGED <<dreaming, abandoned>>
    /\ UNCHANGED <<outsideVars, storeVars, written, outlived>>

\* The daemon dies; the session of its run may go on.  Another daemon takes over.
Crash(r) ==
    /\ run[r].at # "dead"
    /\ \E q \in Runners \ {r} : run[q].at # "dead"
    /\ faults < MaxFaults /\ faults' = faults + 1
    /\ run' = [run EXCEPT ![r] = [IdleRun EXCEPT !.at = "dead"]]
    /\ \/ /\ dreaming' = (dreaming \ Own(r)) \cup {[d EXCEPT !.left = TRUE] : d \in Own(r)}
          /\ outlived' = outlived \cup {d.attempt : d \in Own(r)}
       \/ /\ dreaming' = {d \in dreaming : d.by # r}
          /\ UNCHANGED outlived
    /\ UNCHANGED <<outsideVars, storeVars, written, abandoned>>

Arrives ==
    /\ arrived < MaxMessages
    /\ arrived' = arrived + 1
    /\ history' = history \cup {arrived + 1}
    /\ UNCHANGED <<night, storeVars, run, sessionVars, faults>>

\* A message is removed from the conversation store.
Forgotten(m) ==
    /\ m \in history
    /\ faults < MaxFaults /\ faults' = faults + 1
    /\ history' = history \ {m}
    /\ UNCHANGED <<arrived, night, storeVars, run, sessionVars>>

NightTurns ==
    /\ night < MaxNights
    /\ night' = night + 1
    /\ UNCHANGED <<arrived, history, storeVars, run, sessionVars, faults>>

-----------------------------------------------------------------------------

RunStep(r) ==
    \/ Claim(r) \/ CheckWrites(r)
    \/ NothingPending(r) \/ ReadProgress(r) \/ ReadInterval(r)
    \/ CloseEmptyRetry(r) \/ Begin(r)
    \/ Launch(r) \/ LaunchFails(r) \/ Ends(r)
    \/ MarkEnded(r) \/ CountWrites(r)
    \/ LeaseLost(r) \/ Commit(r) \/ Fail(r) \/ FailForGood(r)

DreamNext ==
    \/ \E r \in Runners : RunStep(r)
    \/ Writes
    \/ \E a \in Attempts : LeaseExpires(a)
    \/ \E r \in Runners : Interrupted(r) \/ Crash(r)
    \/ Arrives \/ NightTurns
    \/ \E m \in history : Forgotten(m)

DreamSafety == DreamInit /\ [][DreamNext]_dreamVars

\* The scheduler runs the dream every night, a session is given an hour, and the event
\* loop runs what is ready.  Nothing is assumed of what sessions write.
DreamSpec ==
    /\ DreamSafety
    /\ \A r \in Runners : WF_dreamVars(RunStep(r))
    /\ WF_dreamVars(NightTurns)

-----------------------------------------------------------------------------

\* The types; a lease has an owner exactly while its attempt is pending, and there is
\* at most one pending attempt.
DreamTypeOK ==
    /\ arrived \in 0..MaxMessages /\ history \subseteq 1..arrived
    /\ night \in 1..MaxNights
    /\ attempts \in [Attempts -> Receipt]
    /\ watermark \in 0..arrived
    /\ run \in [Runners -> Run]
    /\ dreaming \subseteq Session
    /\ written \subseteq Attempts \X Runners
    /\ outlived \subseteq Attempts /\ abandoned \subseteq Attempts
    /\ faults \in 0..MaxFaults
    /\ Cardinality(Pending) <= 1
    /\ \A a \in Attempts : (attempts[a].owner = Nobody) = (a \notin Pending)

\* No history is skipped: whatever failed, retried or raced, a message at or below the
\* watermark was in the interval of an attempt that was completed or given up for good.
WatermarkCovers ==
    \A m \in history : m <= watermark =>
        \E a \in Attempts : /\ Settled(attempts[a])
                            /\ attempts[a].start < m /\ m <= attempts[a].end

SameInterval(a, b) ==
    attempts[a].start = attempts[b].start /\ attempts[a].end = attempts[b].end

\* "duplicate memories are worse": no two sessions write memories of one interval,
\* unless one of them was left unattended: by a crash or a stall of its owner, or by a
\* teardown that gave up on it.
DreamtOnce ==
    \A v, w \in written :
        v # w /\ SameInterval(v[1], w[1])
            => {v[1], w[1]} \cap (outlived \cup abandoned) # {}

\* "No durable reflection escaped a failed run, so retrying the same history later cannot
\* duplicate memory side effects": two attempts at one interval do not both write
\* memories, unless a crash or a stall left a session of one unattended.
RetryDuplicatesNothing ==
    \A v, w \in written :
        v[1] # w[1] /\ SameInterval(v[1], w[1]) => {v[1], w[1]} \cap outlived # {}

\* Progress is never taken back: not the watermark, nor a settled attempt, however late
\* a runner that lost its lease wakes up.
ProgressKept ==
    [][/\ watermark' >= watermark
       /\ \A a \in Attempts : Settled(attempts[a]) => attempts'[a] = attempts[a]]_dreamVars

\* Runners take turns: run_dream holds a lock per agent, and a daemon the authority over
\* the stores it writes.
TakeTurns == Cardinality({r \in Runners : Busy(r)}) <= 1

\* "unblock it": while runners take turns, every message is dreamt or given up in the
\* end; a night whose dreams all fail does not hold up the history behind it.  (The
\* last modelled night has no next one to go on with.)
HistoryIsDreamt ==
    []TakeTurns =>
        \A m \in 1..MaxMessages :
            (m \in history) ~> \/ m <= watermark \/ m \notin history
                               \/ NextNumber(MaxNights) > Cap

=============================================================================
