----------------------------- MODULE WakeLedger -----------------------------
(***************************************************************************)
(* The durable exact-fire ledger of one agent's scheduled wakes: the table *)
(* pending_schedule_wakes and the columns of agent_schedules that go with  *)
(* it (pinky_daemon/agent_registry.py).  Each operation is one SQL         *)
(* transaction under the registry's lock and is one action here; its guard *)
(* is the WHERE clause.  A call whose WHERE matches no row changes nothing *)
(* and is a stuttering step.                                               *)
(*                                                                         *)
(* Fire f is the f-th claim; its number stands for fired_at, so that order *)
(* of fires is order of claims.  Timestamps other than fired_at are read   *)
(* by the code only as zero or non-zero, and are Booleans here.            *)
(***************************************************************************)
EXTENDS Naturals, FiniteSets

CONSTANTS
    Schedules,     \* ids of the agent's schedules
    Sessions,      \* ids of transport sessions, the owners of pastes
    NoSession,     \* pasted_session_id of a row never pasted
    MaxFires,      \* bound: how many fires are ever claimed
    MaxAttempts    \* bound: how many delivery attempts a row records

ASSUME FiresAssumption == MaxFires \in Nat
ASSUME AttemptsBound == MaxAttempts \in Nat
ASSUME SessionsAssumption == NoSession \notin Sessions

Fires == 1..MaxFires

NoSchedule == "no schedule"

ASSUME SchedulesAssumption == NoSchedule \notin Schedules

VARIABLES
    clock,       \* the newest fired_at handed out, 0 at first
    schedule,    \* schedule[s]: the row of agent_schedules
    ledger       \* ledger[f]: the row of pending_schedule_wakes for fire f

ledgerVars == <<clock, schedule, ledger>>

\* stored: "no" before the claim and after a hard delete, "reaped" once retention
\* ended.  Deleted rows keep the schedule their callers still hold.
Row ==
    [ stored    : {"no", "yes", "reaped"},
      schedule  : Schedules \cup {NoSchedule},
      attempts  : 0..MaxAttempts,
      pasted    : Sessions \cup {NoSession},
      accepted  : BOOLEAN,
      parked    : BOOLEAN,
      abandoned : BOOLEAN,
      drain     : BOOLEAN,
      released  : BOOLEAN ]

Blank(s, stored) ==
    [ stored |-> stored, schedule |-> s, attempts |-> 0, pasted |-> NoSession,
      accepted |-> FALSE, parked |-> FALSE, abandoned |-> FALSE,
      drain |-> FALSE, released |-> FALSE ]

ScheduleRow ==
    [ exists : BOOLEAN, enabled : BOOLEAN, lastRun : 0..MaxFires, highWater : 0..MaxFires ]

LedgerInit ==
    /\ clock = 0
    /\ schedule = [s \in Schedules |->
                     [exists |-> TRUE, enabled |-> TRUE, lastRun |-> 0, highWater |-> 0]]
    /\ ledger = [f \in Fires |-> Blank(NoSchedule, "no")]

Stored(f) == ledger[f].stored = "yes"

\* WHERE accepted_at=0 AND parked_at=0 AND abandoned_at=0
Unsettled(f) ==
    Stored(f) /\ ~ledger[f].accepted /\ ~ledger[f].parked /\ ~ledger[f].abandoned

\* ... AND drain_parked_at=0: the active outbox.
Active(f) == Unsettled(f) /\ ~ledger[f].drain

-----------------------------------------------------------------------------
(* Claiming and retaining a fire.                                            *)

\* claim_schedule_fire: advance last_run and insert the row in one transaction,
\* only if last_run is still the one the caller read.
ClaimFire(s, expected) ==
    /\ clock < MaxFires
    /\ schedule[s].exists
    /\ schedule[s].lastRun = expected
    /\ clock' = clock + 1
    /\ schedule' = [schedule EXCEPT ![s].lastRun = clock + 1]
    /\ ledger' = [ledger EXCEPT ![clock + 1] = Blank(s, "yes")]

\* persist_schedule_wake: INSERT OR IGNORE.  A caller holds its fire for minutes,
\* retention is days: it never persists a reaped fire.
PersistFire(f) ==
    /\ f \in 1..clock
    /\ ledger[f].stored = "no"
    /\ ledger' = [ledger EXCEPT ![f] = Blank(@.schedule, "yes")]
    /\ UNCHANGED <<clock, schedule>>

(* Delivery bookkeeping.                                                     *)

\* Mutant: a row that was pasted before may be marked by the next session.
MarkPastedAgain(f, g) ==
    /\ Active(f)
    /\ ledger' = [ledger EXCEPT ![f].pasted = g]
    /\ UNCHANGED <<clock, schedule>>

\* mark_schedule_wake_pasted, by session g
MarkPasted(f, g) ==
    /\ Active(f)
    /\ ledger[f].pasted = NoSession
    /\ ledger' = [ledger EXCEPT ![f].pasted = g]
    /\ UNCHANGED <<clock, schedule>>

\* increment_pending_schedule_wake_attempts
IncrementAttempts(f) ==
    /\ Active(f)
    /\ ledger[f].attempts < MaxAttempts
    /\ ledger' = [ledger EXCEPT ![f].attempts = @ + 1]
    /\ UNCHANGED <<clock, schedule>>

-----------------------------------------------------------------------------
(* Settling a fire without a receipt.                                        *)

\* park_, collapse_ and discard_pending_schedule_wake: terminal quarantine, for
\* different reasons.
Park(f) ==
    /\ Unsettled(f)
    /\ ledger' = [ledger EXCEPT ![f].parked = TRUE, ![f].drain = FALSE]
    /\ UNCHANGED <<clock, schedule>>

\* abandon_pending_schedule_wake
Abandon(f) ==
    /\ Unsettled(f)
    /\ ledger' = [ledger EXCEPT ![f].abandoned = TRUE, ![f].drain = FALSE]
    /\ UNCHANGED <<clock, schedule>>

\* reap_pending_schedule_wakes, first pass: rows past the ceiling that were never
\* pasted, drain-parked ones included.
ReapAbandon(f) ==
    /\ Unsettled(f)
    /\ ledger[f].pasted = NoSession
    /\ ledger' = [ledger EXCEPT ![f].abandoned = TRUE, ![f].drain = FALSE]
    /\ UNCHANGED <<clock, schedule>>

\* delete_pending_schedule_wake, the stale drop
DeleteStale(f) ==
    /\ Active(f)
    /\ ledger' = [ledger EXCEPT ![f] = Blank(@.schedule, "no")]
    /\ UNCHANGED <<clock, schedule>>

-----------------------------------------------------------------------------
(* Drain parking, and the positive receipt that undoes it.                   *)

DrainPark(f) ==
    /\ Active(f)
    /\ ledger' = [ledger EXCEPT ![f].drain = TRUE, ![f].released = FALSE]
    /\ UNCHANGED <<clock, schedule>>

\* Mutant: terminal rows are released too.
ReleasedTerminal(rows) ==
    [f \in Fires |->
        IF rows[f].stored = "yes" /\ ~rows[f].accepted /\ (rows[f].drain \/ rows[f].parked)
        THEN [rows[f] EXCEPT !.drain = FALSE, !.parked = FALSE, !.released = TRUE]
        ELSE rows[f]]

\* _release_drain_parked_locked
Released(rows) ==
    [f \in Fires |->
        IF /\ rows[f].stored = "yes" /\ rows[f].drain
           /\ ~rows[f].accepted /\ ~rows[f].parked /\ ~rows[f].abandoned
        THEN [rows[f] EXCEPT !.drain = FALSE, !.released = TRUE]
        ELSE rows[f]]

\* release_drain_parked_schedule_wakes
ReleaseDrainParked ==
    /\ ledger' = Released(ledger)
    /\ UNCHANGED <<clock, schedule>>

\* Mutant: the high-water mark follows the latest receipt, not the latest fire.
RaisedToLatest(s, f) == [schedule EXCEPT ![s].highWater = f]

\* SET last_accepted_fired_at=MAX(last_accepted_fired_at, fired_at); no row, no write
Raised(s, f) ==
    IF schedule[s].exists /\ schedule[s].highWater < f
    THEN [schedule EXCEPT ![s].highWater = f]
    ELSE schedule

\* confirm_pending_schedule_wake and confirm_pending_schedule_wake_by_fire: the
\* receipt outranks every marker, and releases what the agent has drain-parked.
Confirm(f) ==
    /\ Stored(f)
    /\ schedule' = Raised(ledger[f].schedule, f)
    /\ ledger' = Released([ledger EXCEPT ![f].accepted = TRUE, ![f].parked = FALSE,
                                         ![f].abandoned = FALSE, ![f].drain = FALSE])
    /\ UNCHANGED clock

-----------------------------------------------------------------------------
(* Retention and the schedules themselves.                                   *)

\* reap_pending_schedule_wakes, the retention passes.  Ages, and the reason that
\* spares the newest parked row of a schedule, are not modelled: any terminal row
\* may go.
ReapTerminal(f) ==
    /\ Stored(f)
    /\ ledger[f].accepted \/ ledger[f].abandoned \/ ledger[f].parked
    /\ ledger' = [ledger EXCEPT ![f] = Blank(@.schedule, "reaped")]
    /\ UNCHANGED <<clock, schedule>>

\* toggle_schedule
Toggle(s, on) ==
    /\ schedule[s].exists
    /\ schedule' = [schedule EXCEPT ![s].enabled = on]
    /\ UNCHANGED <<clock, ledger>>

\* remove_schedule
Remove(s) ==
    /\ schedule[s].exists
    /\ schedule' = [schedule EXCEPT ![s].exists = FALSE]
    /\ UNCHANGED <<clock, ledger>>

LedgerNext ==
    \/ \E s \in Schedules, expected \in 0..MaxFires : ClaimFire(s, expected)
    \/ \E f \in Fires : PersistFire(f)
    \/ \E f \in Fires, g \in Sessions : MarkPasted(f, g)
    \/ \E f \in Fires : IncrementAttempts(f)
    \/ \E f \in Fires : Park(f)
    \/ \E f \in Fires : Abandon(f)
    \/ \E f \in Fires : ReapAbandon(f)
    \/ \E f \in Fires : DeleteStale(f)
    \/ \E f \in Fires : DrainPark(f)
    \/ \E f \in Fires : Confirm(f)
    \/ \E f \in Fires : ReapTerminal(f)
    \/ ReleaseDrainParked
    \/ \E s \in Schedules, on \in BOOLEAN : Toggle(s, on)
    \/ \E s \in Schedules : Remove(s)

LedgerSpec == LedgerInit /\ [][LedgerNext]_ledgerVars

-----------------------------------------------------------------------------

LedgerTypeOK ==
    /\ clock \in 0..MaxFires
    /\ schedule \in [Schedules -> ScheduleRow]
    /\ ledger \in [Fires -> Row]

\* Every stored row is a claimed fire of a real schedule.
RowsAreClaimed ==
    \A f \in Fires :
        /\ f > clock => ledger[f].stored = "no"
        /\ f <= clock => ledger[f].schedule \in Schedules

\* One outcome at a time, over every order of the fourteen writers: "no row may
\* carry the recoverable marker and a terminal marker simultaneously", an accepted
\* row carries no other marker, and quarantine and abandonment exclude each other.
OneMarker ==
    \A f \in Fires :
        /\ ledger[f].accepted => ~ledger[f].parked /\ ~ledger[f].abandoned /\ ~ledger[f].drain
        /\ ledger[f].parked => ~ledger[f].abandoned /\ ~ledger[f].drain
        /\ ledger[f].abandoned => ~ledger[f].drain

\* The supersession floor of a schedule is never below a fire of it that ran, in
\* whatever order receipts arrive: "an older fire accepted late must never supersede
\* newer owed work", and a newer accepted one always does.
HighWaterCovers ==
    \A f \in Fires :
        (Stored(f) /\ ledger[f].accepted /\ schedule[ledger[f].schedule].exists)
            => f <= schedule[ledger[f].schedule].highWater

\* "A positive receipt is release evidence at the durable edge": a crash right after
\* a receipt strands no drain-parked row, because no step leaves one behind.
NoDebtAfterReceipt ==
    (\E f \in Fires : ~ledger[f].accepted /\ ledger'[f].accepted)
      => \A f \in Fires : ~(ledger'[f].stored = "yes" /\ ledger'[f].drain)

ReceiptReleasesDebt == [][NoDebtAfterReceipt]_ledgerVars

\* The write-ahead marker: once a row is marked as pasted it stays so, by the same
\* session, as long as it is kept, and a marked row is never offered to another
\* session; and no row that left the active outbox is ever marked.
MarkerKept ==
    \A f \in Fires :
        (ledger'[f].stored = "yes" /\ ledger'[f].pasted # ledger[f].pasted)
            => ledger[f].pasted = NoSession /\ Active(f)

MarkerIsFinal == [][MarkerKept]_ledgerVars

\* PendingScheduleWake.ledger_state, with the rows that are not there.
OutcomeOf(f) ==
    IF ledger[f].stored = "no" THEN (IF f > clock THEN "unfired" ELSE "dropped")
    ELSE IF ledger[f].stored = "reaped" THEN "forgotten"
    ELSE IF ledger[f].accepted THEN "ran"
    ELSE IF ledger[f].abandoned \/ ledger[f].parked THEN "settled"
    ELSE IF ledger[f].drain THEN "held"
    ELSE "owed"

Promise == INSTANCE FireOutcome WITH outcome <- [f \in Fires |-> OutcomeOf(f)]

\* The ledger keeps FireOutcome's promise about every fire.
ImplementsFireOutcome == Promise!OutcomeSpec

=============================================================================
