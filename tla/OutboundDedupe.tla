--------------------------- MODULE OutboundDedupe ---------------------------
(***************************************************************************)
(* The broker's guard against duplicate outbound messages                  *)
(* (deliver_deduped in broker.py): identical sends, which agents repeat    *)
(* when their tool call timed out, are delivered once per window.  A send  *)
(* reserves the key, delivers in a worker thread that cannot be stopped,   *)
(* and settles the reservation; callers may be cancelled meanwhile.        *)
(* One key; time is the clock the windows are measured with.               *)
(***************************************************************************)
EXTENDS Naturals

CONSTANTS
    MaxSends,       \* bound: identical sends of one agent to one chat
    Modes,          \* "completion" for Slack group DMs, "plain" for all others
    Window,         \* _dedupe_window
    Cap,            \* _OUTBOUND_INFLIGHT_MAX_SEC
    MaxTime         \* bound of the clock

ASSUME DedupeAssumption ==
    /\ Modes \subseteq {"plain", "completion"}
    /\ {MaxSends, Window, Cap, MaxTime} \subseteq Nat /\ Window <= Cap

VARIABLES
    mode,           \* of the key
    now,
    reservation,    \* _recent_sends[key]
    call,           \* each caller of deliver_deduped
    work,           \* its platform call
    started, ended  \* history variables: when that call began and ended

dedupeVars == <<mode, now, reservation, call, work, started, ended>>

Sends == 1..MaxSends                 \* numbered in the order they register
NoSend == 0

NoReservation == [by |-> NoSend, at |-> 0, result |-> NoSend]
Reservation == [by : Sends \cup {NoSend}, at : 0..MaxTime, result : Sends \cup {NoSend}]

DedupeInit ==
    /\ mode \in Modes /\ now = 0
    /\ reservation = NoReservation
    /\ call = [c \in Sends |-> "absent"]
    /\ work = [c \in Sends |-> "none"]
    /\ started = [c \in Sends |-> 0] /\ ended = [c \in Sends |-> 0]

\* _prune_recent_sends keeps a reservation for the window, and one of a completion
\* window up to the cap while its delivery is in flight.
Lifetime == IF mode = "completion" /\ reservation.result = NoSend THEN Cap ELSE Window
Reserved == reservation # NoReservation /\ now - reservation.at <= Lifetime

Registers(c) == call[c] = "absent" /\ \A b \in 1..(c - 1) : call[b] # "absent"

\* register_outbound: the key is taken, and the caller is told that its message is sent.
Suppressed(c) ==
    /\ Registers(c) /\ Reserved
    /\ call' = [call EXCEPT ![c] = "deduped"]
    /\ UNCHANGED <<mode, now, reservation, work, started, ended>>

\* ... or it is free, and the delivery starts.
Deliver(c) ==
    /\ Registers(c) /\ ~Reserved
    /\ reservation' = [by |-> c, at |-> now, result |-> NoSend]
    /\ call' = [call EXCEPT ![c] = "delivering"]
    /\ work' = [work EXCEPT ![c] = "open"]
    /\ started' = [started EXCEPT ![c] = now]
    /\ UNCHANGED <<mode, now, ended>>

\* The caller is gone; the worker is not.
SenderCancelled(c) ==
    /\ call[c] = "delivering"
    /\ call' = [call EXCEPT ![c] = "cancelled"]
    /\ UNCHANGED <<mode, now, reservation, work, started, ended>>

\* Mutant: a completion window, too, settles whatever is under its key.
SettlesByKey(c) == mode = "completion" \/ call[c] = "delivering"

\* Who settles: of a completion window the delivery itself, if the reservation is still
\* its own; else a caller that is still there, whatever is under the key by now.
Settles(c) ==
    IF mode = "completion" THEN reservation.by = c ELSE call[c] = "delivering"

Ended(c, outcome) ==
    /\ work[c] = "open"
    /\ work' = [work EXCEPT ![c] = outcome]
    /\ ended' = [ended EXCEPT ![c] = now]
    /\ call' = [call EXCEPT ![c] = IF @ = "delivering" THEN "returned" ELSE @]
    /\ UNCHANGED <<mode, now, started>>

\* finalize_outbound
Delivered(c) ==
    /\ Ended(c, "sent")
    /\ reservation' =
         IF ~Settles(c) \/ reservation = NoReservation THEN reservation
         ELSE [reservation EXCEPT !.result = c, !.at = IF mode = "completion" THEN now ELSE @]

\* clear_outbound: the send failed, or the platform never said that it did not.
DeliveryFails(c) ==
    /\ Ended(c, "failed")
    /\ reservation' = IF Settles(c) THEN NoReservation ELSE reservation

ClockTicks ==
    /\ now < MaxTime
    /\ now' = now + 1
    /\ UNCHANGED <<mode, reservation, call, work, started, ended>>

DedupeNext ==
    \/ \E c \in Sends :
         \/ Suppressed(c) \/ Deliver(c) \/ SenderCancelled(c)
         \/ Delivered(c) \/ DeliveryFails(c)
    \/ ClockTicks

DedupeSpec == DedupeInit /\ [][DedupeNext]_dedupeVars

-----------------------------------------------------------------------------

DedupeTypeOK ==
    /\ mode \in Modes /\ now \in 0..MaxTime
    /\ reservation \in Reservation
    /\ call \in [Sends -> {"absent", "deduped", "delivering", "cancelled", "returned"}]
    /\ work \in [Sends -> {"none", "open", "sent", "failed"}]
    /\ started \in [Sends -> 0..MaxTime] /\ ended \in [Sends -> 0..MaxTime]

\* The window of a delivery: from its start; of a completion window, while it is in
\* flight, and then from its end, if that came before the cap.
InWindow(c) ==
    CASE mode = "plain" -> work[c] \in {"open", "sent"} /\ now - started[c] <= Window
      [] mode = "completion" /\ work[c] = "open" -> now - started[c] <= Cap
      [] mode = "completion" /\ work[c] = "sent" ->
           ended[c] - started[c] <= Cap /\ now - ended[c] <= Window
      [] OTHER -> FALSE

SendStarts(c) == work[c] = "none" /\ work'[c] = "open"

\* b's window was cut short: another delivery under way, whose own window was over or
\* cut short, failed in it.
CutShort(b) ==
    \E a \in Sends \ {b} : work[a] = "failed" /\ ended[a] >= started[b]

\* "Run deliver at most once per dedupe window", also across cancelled callers and late
\* answers: nothing is delivered in the window of a delivery that has not failed.  In
\* plain mode, unless the late failure of another cut that window short.
OncePerWindow ==
    [][\A b, c \in Sends :
         SendStarts(c) /\ InWindow(b) => mode = "plain" /\ CutShort(b)]_dedupeVars

\* The same of every delivery, as deliver_deduped states it.
AtMostOncePerWindow ==
    [][\A b, c \in Sends : SendStarts(c) => ~InWindow(b)]_dedupeVars

=============================================================================
