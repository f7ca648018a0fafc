------------------------- MODULE WakeLedger_proofs -------------------------
(***************************************************************************)
(* Proofs about WakeLedger, for any schedules, sessions and bounds.        *)
(***************************************************************************)
EXTENDS WakeLedger, TLAPS

\* A row that is not there carries no paste marker.
UnstoredUnmarked == \A f \in Fires : Stored(f) \/ ledger[f].pasted = NoSession

\* The invariants are inductive together.  HighWaterCovers needs to know that a stored
\* row's schedule is a real one (RowsAreClaimed), OneMarker is what the guards of the
\* settling transitions maintain, and UnstoredUnmarked says that a fire persisted again
\* starts without a marker.
LInv == LedgerTypeOK /\ RowsAreClaimed /\ OneMarker /\ HighWaterCovers /\ UnstoredUnmarked

\* The initial ledger is empty and satisfies the invariant.
LEMMA LedgerInitInv == LedgerInit => LInv
  <1> SUFFICES ASSUME LedgerInit PROVE LInv
    OBVIOUS
  <1>1. Blank(NoSchedule, "no") \in Row
    BY AttemptsBound DEF Blank, Row
  <1>2. \A f \in Fires : ledger[f] = Blank(NoSchedule, "no")
    BY DEF LedgerInit
  <1>3. LedgerTypeOK
    BY <1>1, FiresAssumption DEF LedgerInit, LedgerTypeOK, ScheduleRow
  <1>4. RowsAreClaimed
    BY <1>2, FiresAssumption DEF LedgerInit, RowsAreClaimed, Blank, Fires
  <1>5. OneMarker /\ HighWaterCovers /\ UnstoredUnmarked
    BY <1>2 DEF OneMarker, HighWaterCovers, UnstoredUnmarked, Blank, Stored
  <1> QED BY <1>3, <1>4, <1>5 DEF LInv

\* A schedule's two fire numbers may be set to any fire.
LEMMA ScheduleRowEdit ==
    ASSUME NEW r \in ScheduleRow, NEW n \in 0..MaxFires
    PROVE  /\ [r EXCEPT !.lastRun = n] \in ScheduleRow
           /\ [r EXCEPT !.highWater = n] \in ScheduleRow
  BY DEF ScheduleRow

\* A claim writes a fresh row for a fire nobody had claimed.
LEMMA ClaimInv ==
    ASSUME LInv, NEW s \in Schedules, NEW expected \in 0..MaxFires, ClaimFire(s, expected)
    PROVE  LInv'
  <1> USE FiresAssumption, AttemptsBound, SchedulesAssumption
      DEF LInv, Fires, Blank, Stored
  <1>1. LedgerTypeOK'
    <2>1. Blank(s, "yes") \in Row /\ clock + 1 \in Fires
      BY DEF ClaimFire, LedgerTypeOK, Row
    <2>2. ledger' \in [Fires -> Row]
      <3> DEFINE r == Blank(s, "yes")
      <3>1. r \in Row /\ ledger' = [ledger EXCEPT ![clock + 1] = r]
        BY <2>1 DEF ClaimFire
      <3> HIDE DEF r
      <3> QED BY <2>1, <3>1 DEF LedgerTypeOK
    <2>3. schedule[s] \in ScheduleRow /\ clock + 1 \in 0..MaxFires
      BY DEF ClaimFire, LedgerTypeOK
    <2>4. schedule' \in [Schedules -> ScheduleRow]
      <3> DEFINE r == [schedule[s] EXCEPT !.lastRun = clock + 1]
      <3>1. r \in ScheduleRow
        BY <2>3, ScheduleRowEdit
      <3>2. schedule' = [schedule EXCEPT ![s] = r]
        BY DEF ClaimFire
      <3> HIDE DEF r
      <3> QED BY <3>1, <3>2 DEF LedgerTypeOK
    <2> QED BY <2>1, <2>2, <2>4 DEF ClaimFire, LedgerTypeOK
  <1>2. RowsAreClaimed'
    BY DEF ClaimFire, LedgerTypeOK, RowsAreClaimed
  <1>3. OneMarker'
    BY DEF ClaimFire, LedgerTypeOK, OneMarker, Row
  <1>4. HighWaterCovers'
    BY DEF ClaimFire, LedgerTypeOK, RowsAreClaimed, HighWaterCovers, ScheduleRow
  <1>5. UnstoredUnmarked'
    BY DEF ClaimFire, LedgerTypeOK, UnstoredUnmarked
  <1> QED BY <1>1, <1>2, <1>3, <1>4, <1>5

\* The operations that rewrite one row and nothing else, by what they write.
LEMMA OneRowInv ==
    ASSUME LInv, NEW f \in Fires, NEW r \in Row,
           UNCHANGED <<clock, schedule>>,
           ledger' = [ledger EXCEPT ![f] = r],
           r.schedule = ledger[f].schedule,
           f > clock => r.stored = "no",
           r.accepted /\ r.stored = "yes" => Stored(f) /\ ledger[f].accepted,
           r.accepted => ~r.parked /\ ~r.abandoned /\ ~r.drain,
           r.parked => ~r.abandoned /\ ~r.drain,
           r.abandoned => ~r.drain,
           r.stored = "yes" \/ r.pasted = NoSession
    PROVE  LInv'
  <1> USE FiresAssumption, AttemptsBound DEF LInv, Fires, Stored
  <1>1. LedgerTypeOK'
    BY DEF LedgerTypeOK
  <1>2. RowsAreClaimed'
    BY DEF LedgerTypeOK, RowsAreClaimed
  <1>3. OneMarker'
    BY DEF LedgerTypeOK, OneMarker
  <1>4. HighWaterCovers'
    BY DEF LedgerTypeOK, HighWaterCovers, ScheduleRow
  <1>5. UnstoredUnmarked'
    BY DEF LedgerTypeOK, UnstoredUnmarked
  <1> QED BY <1>1, <1>2, <1>3, <1>4, <1>5

\* Releasing the drain-parked rows of a well-formed table touches two fields of them.
LEMMA ReleasedRows ==
    ASSUME NEW rows \in [Fires -> Row]
    PROVE  /\ Released(rows) \in [Fires -> Row]
           /\ \A f \in Fires :
                /\ Released(rows)[f].stored = rows[f].stored
                /\ Released(rows)[f].schedule = rows[f].schedule
                /\ Released(rows)[f].attempts = rows[f].attempts
                /\ Released(rows)[f].pasted = rows[f].pasted
                /\ Released(rows)[f].accepted = rows[f].accepted
                /\ Released(rows)[f].parked = rows[f].parked
                /\ Released(rows)[f].abandoned = rows[f].abandoned
                /\ Released(rows)[f].drain => rows[f].drain
  <1>1. ASSUME NEW f \in Fires
        PROVE  Released(rows)[f] \in {rows[f], [rows[f] EXCEPT !.drain = FALSE, !.released = TRUE]}
    BY DEF Released
  <1>2. \A r \in Row : [r EXCEPT !.drain = FALSE, !.released = TRUE] \in Row
    BY DEF Row
  <1>3. \A f \in Fires : Released(rows)[f] \in Row
    BY <1>1, <1>2
  <1>4. Released(rows) \in [Fires -> Row]
    BY <1>3 DEF Released
  <1>5. ASSUME NEW r \in Row, NEW t, t = [r EXCEPT !.drain = FALSE, !.released = TRUE]
        PROVE  /\ t.stored = r.stored /\ t.schedule = r.schedule /\ t.attempts = r.attempts
               /\ t.pasted = r.pasted /\ t.accepted = r.accepted /\ t.parked = r.parked
               /\ t.abandoned = r.abandoned /\ ~t.drain
    BY <1>5 DEF Row
  <1>6. ASSUME NEW f \in Fires
        PROVE  /\ Released(rows)[f].stored = rows[f].stored
               /\ Released(rows)[f].schedule = rows[f].schedule
               /\ Released(rows)[f].attempts = rows[f].attempts
               /\ Released(rows)[f].pasted = rows[f].pasted
               /\ Released(rows)[f].accepted = rows[f].accepted
               /\ Released(rows)[f].parked = rows[f].parked
               /\ Released(rows)[f].abandoned = rows[f].abandoned
               /\ Released(rows)[f].drain => rows[f].drain
    <2>1. PICK r, t : r = rows[f] /\ t = Released(rows)[f]
      OBVIOUS
    <2>2. r \in Row /\ t \in {r, [r EXCEPT !.drain = FALSE, !.released = TRUE]}
      BY <1>1, <2>1
    <2>3. /\ t.stored = r.stored /\ t.schedule = r.schedule /\ t.attempts = r.attempts
          /\ t.pasted = r.pasted /\ t.accepted = r.accepted /\ t.parked = r.parked
          /\ t.abandoned = r.abandoned /\ (t.drain => r.drain)
      <3>1. CASE t = r
        BY <3>1
      <3>2. CASE t # r
        BY <1>5, <2>2, <3>2
      <3> QED BY <3>1, <3>2
    <2> QED BY <2>1, <2>3
  <1> QED BY <1>4, <1>6

\* A receipt replaces every marker of its row and raises the schedule's floor to it.
LEMMA ConfirmInv ==
    ASSUME LInv, NEW f \in Fires, Confirm(f)
    PROVE  LInv'
  <1> USE FiresAssumption, AttemptsBound DEF LInv
  <1> DEFINE rows == [ledger EXCEPT ![f].accepted = TRUE, ![f].parked = FALSE,
                                    ![f].abandoned = FALSE, ![f].drain = FALSE]
  <1>1. rows \in [Fires -> Row] /\ ledger' = Released(rows)
    <2> DEFINE r == [ledger[f] EXCEPT !.accepted = TRUE, !.parked = FALSE,
                                      !.abandoned = FALSE, !.drain = FALSE]
    <2>1. r \in Row
      BY DEF LedgerTypeOK, Row
    <2>2. rows = [ledger EXCEPT ![f] = r]
      BY DEF LedgerTypeOK
    <2>3. rows \in [Fires -> Row]
      <3> HIDE DEF r, rows
      <3> QED BY <2>1, <2>2 DEF LedgerTypeOK
    <2> QED BY <2>3 DEF Confirm
  <1>2. \A g \in Fires : /\ ledger'[g].stored = ledger[g].stored
                         /\ ledger'[g].schedule = ledger[g].schedule
                         /\ ledger'[g].pasted = ledger[g].pasted
                         /\ g # f => /\ ledger'[g].accepted = ledger[g].accepted
                                     /\ ledger'[g].parked = ledger[g].parked
                                     /\ ledger'[g].abandoned = ledger[g].abandoned
                                     /\ ledger'[g].drain => ledger[g].drain
    <2>1. \A g \in Fires : /\ rows[g].stored = ledger[g].stored
                           /\ rows[g].schedule = ledger[g].schedule
                           /\ rows[g].pasted = ledger[g].pasted
                           /\ g # f => rows[g] = ledger[g]
      BY DEF LedgerTypeOK, Row
    <2> HIDE DEF rows
    <2> QED BY <1>1, <2>1, ReleasedRows
  <1>3. ledger'[f].accepted /\ ~ledger'[f].parked /\ ~ledger'[f].abandoned /\ ~ledger'[f].drain
    <2>1. rows[f].accepted /\ ~rows[f].parked /\ ~rows[f].abandoned /\ ~rows[f].drain
      BY DEF LedgerTypeOK, Row
    <2> HIDE DEF rows
    <2> QED BY <1>1, <2>1, ReleasedRows
  <1>4. ledger[f].schedule \in Schedules
    BY DEF Confirm, Stored, RowsAreClaimed, LedgerTypeOK, Fires
  <1>5. LedgerTypeOK'
    <2>1. ledger' \in [Fires -> Row]
      <3> HIDE DEF rows
      <3> QED BY <1>1, ReleasedRows
    <2>2. schedule' \in [Schedules -> ScheduleRow]
      <3> DEFINE s == ledger[f].schedule
                 r == [schedule[s] EXCEPT !.highWater = f]
      <3>1. r \in ScheduleRow
        <4>1. schedule[s] \in ScheduleRow /\ f \in 0..MaxFires
          BY <1>4 DEF LedgerTypeOK, Fires
        <4> QED BY <4>1, ScheduleRowEdit
      <3>2. schedule' = schedule \/ schedule' = [schedule EXCEPT ![s] = r]
        BY DEF Confirm, Raised
      <3> HIDE DEF r
      <3> QED BY <1>4, <3>1, <3>2 DEF LedgerTypeOK
    <2> QED BY <2>1, <2>2 DEF Confirm, LedgerTypeOK
  <1>6. RowsAreClaimed'
    BY <1>2 DEF Confirm, RowsAreClaimed, Fires
  <1>7. OneMarker'
    BY <1>2, <1>3 DEF OneMarker
  <1>8. HighWaterCovers'
    <2>1. \A s \in Schedules : /\ schedule'[s].exists = schedule[s].exists
                               /\ schedule'[s].highWater >= schedule[s].highWater
      BY <1>4 DEF Confirm, Raised, LedgerTypeOK, ScheduleRow, Fires
    <2>2. schedule[ledger[f].schedule].exists => schedule'[ledger[f].schedule].highWater >= f
      BY <1>4 DEF Confirm, Raised, LedgerTypeOK, ScheduleRow, Fires
    <2>3. \A g \in Fires : Stored(g) => ledger[g].schedule \in Schedules
      BY DEF Stored, RowsAreClaimed, LedgerTypeOK, Fires
    <2>4. \A s \in Schedules : schedule[s].highWater \in Nat /\ schedule'[s].highWater \in Nat
      BY <1>5 DEF LedgerTypeOK, ScheduleRow
    <2> QED
      BY <1>2, <2>1, <2>2, <2>3, <2>4 DEF HighWaterCovers, Stored, Fires
  <1>9. UnstoredUnmarked'
    BY <1>2 DEF UnstoredUnmarked, Stored
  <1> QED BY <1>5, <1>6, <1>7, <1>8, <1>9

\* Releasing the drain-parked rows sets no marker.
LEMMA ReleaseInv ==
    ASSUME LInv, ReleaseDrainParked
    PROVE  LInv'
  <1> USE DEF LInv
  <1>1. ledger \in [Fires -> Row] /\ ledger' = Released(ledger) /\ clock' = clock /\ schedule' = schedule
    BY DEF ReleaseDrainParked, LedgerTypeOK
  <1>2. /\ ledger' \in [Fires -> Row]
        /\ \A f \in Fires : /\ ledger'[f].stored = ledger[f].stored
                            /\ ledger'[f].schedule = ledger[f].schedule
                            /\ ledger'[f].pasted = ledger[f].pasted
                            /\ ledger'[f].accepted = ledger[f].accepted
                            /\ ledger'[f].parked = ledger[f].parked
                            /\ ledger'[f].abandoned = ledger[f].abandoned
                            /\ ledger'[f].drain => ledger[f].drain
    BY <1>1, ReleasedRows
  <1>3. LedgerTypeOK' /\ RowsAreClaimed' /\ OneMarker'
    BY <1>1, <1>2 DEF LedgerTypeOK, RowsAreClaimed, OneMarker
  <1>4. HighWaterCovers'
    BY <1>1, <1>2 DEF HighWaterCovers, Stored
  <1>5. UnstoredUnmarked'
    BY <1>2 DEF UnstoredUnmarked, Stored
  <1> QED BY <1>3, <1>4, <1>5

\* Changes to the schedules never raise one out of removal nor lower its floor.
LEMMA ScheduleInv ==
    ASSUME LInv, NEW s \in Schedules, (\E on \in BOOLEAN : Toggle(s, on)) \/ Remove(s)
    PROVE  LInv'
  <1> USE DEF LInv
  <1>1. ledger' = ledger /\ clock' = clock
    BY DEF Toggle, Remove
  <1>2. PICK r \in ScheduleRow :
           /\ schedule' = [schedule EXCEPT ![s] = r]
           /\ r.highWater = schedule[s].highWater
           /\ r.exists => schedule[s].exists
    <2>1. CASE \E on \in BOOLEAN : Toggle(s, on)
      <3>1. PICK on \in BOOLEAN : Toggle(s, on)
        BY <2>1
      <3>2. [schedule[s] EXCEPT !.enabled = on] \in ScheduleRow
        BY DEF LedgerTypeOK, ScheduleRow
      <3> QED BY <3>1, <3>2 DEF Toggle, LedgerTypeOK, ScheduleRow
    <2>2. CASE Remove(s)
      <3>1. [schedule[s] EXCEPT !.exists = FALSE] \in ScheduleRow
        BY DEF LedgerTypeOK, ScheduleRow
      <3> QED BY <2>2, <3>1 DEF Remove, LedgerTypeOK, ScheduleRow
    <2> QED BY <2>1, <2>2
  <1>3. LedgerTypeOK'
    BY <1>1, <1>2 DEF LedgerTypeOK
  <1>4. RowsAreClaimed' /\ OneMarker' /\ UnstoredUnmarked'
    BY <1>1 DEF RowsAreClaimed, OneMarker, UnstoredUnmarked, Stored
  <1>5. HighWaterCovers'
    <2>1. \A f \in Fires : Stored(f) => ledger[f].schedule \in Schedules
      BY DEF Stored, RowsAreClaimed, LedgerTypeOK, Fires
    <2> QED BY <1>1, <1>2, <2>1 DEF HighWaterCovers, Stored, LedgerTypeOK
  <1> QED BY <1>3, <1>4, <1>5

\* Every step preserves the invariant.
LEMMA LedgerStepInv == LInv /\ [LedgerNext]_ledgerVars => LInv'
  <1> SUFFICES ASSUME LInv, [LedgerNext]_ledgerVars
               PROVE  LInv'
    OBVIOUS
  <1>t. ledger \in [Fires -> Row]
    BY DEF LInv, LedgerTypeOK
  <1>m. OneMarker /\ RowsAreClaimed
    BY DEF LInv
  <1>1. ASSUME NEW s \in Schedules, NEW expected \in 0..MaxFires, ClaimFire(s, expected)
        PROVE  LInv'
    BY <1>1, ClaimInv
  <1>2. ASSUME NEW f \in Fires, PersistFire(f)
        PROVE  LInv'
    <2> DEFINE r == Blank(ledger[f].schedule, "yes")
    <2>1. r \in Row /\ ledger' = [ledger EXCEPT ![f] = r]
      BY <1>2, <1>t, AttemptsBound DEF PersistFire, Blank, Row
    <2>2. /\ ~(f > clock) /\ r.schedule = ledger[f].schedule
          /\ ~r.accepted /\ ~r.parked /\ ~r.abandoned /\ r.pasted = NoSession
      BY <1>2, FiresAssumption DEF PersistFire, Blank, Fires, LInv, LedgerTypeOK
    <2> HIDE DEF r
    <2> QED BY <1>2, <2>1, <2>2, OneRowInv DEF PersistFire
  <1>3. ASSUME NEW f \in Fires, NEW g \in Sessions, MarkPasted(f, g)
        PROVE  LInv'
    <2> DEFINE r == [ledger[f] EXCEPT !.pasted = g]
    <2>1. r \in Row /\ ledger' = [ledger EXCEPT ![f] = r]
      BY <1>3, <1>t DEF MarkPasted, Row
    <2>2. /\ r.schedule = ledger[f].schedule /\ r.stored = ledger[f].stored /\ r.stored = "yes"
          /\ ~r.accepted /\ ~r.parked /\ ~r.abandoned
      BY <1>3, <1>t DEF MarkPasted, Active, Unsettled, Stored, Row
    <2>3. f > clock => r.stored = "no"
      BY <1>m, <2>2 DEF RowsAreClaimed
    <2> HIDE DEF r
    <2> QED BY <1>3, <2>1, <2>2, <2>3, OneRowInv DEF MarkPasted
  <1>4. ASSUME NEW f \in Fires, IncrementAttempts(f)
        PROVE  LInv'
    <2> DEFINE r == [ledger[f] EXCEPT !.attempts = @ + 1]
    <2>1. r \in Row /\ ledger' = [ledger EXCEPT ![f] = r]
      BY <1>4, <1>t, AttemptsBound DEF IncrementAttempts, Row
    <2>2. /\ r.schedule = ledger[f].schedule /\ r.stored = ledger[f].stored /\ r.stored = "yes"
          /\ ~r.accepted /\ ~r.parked /\ ~r.abandoned
      BY <1>4, <1>t DEF IncrementAttempts, Active, Unsettled, Stored, Row
    <2>3. f > clock => r.stored = "no"
      BY <1>m, <2>2 DEF RowsAreClaimed
    <2> HIDE DEF r
    <2> QED BY <1>4, <2>1, <2>2, <2>3, OneRowInv DEF IncrementAttempts
  <1>5. ASSUME NEW f \in Fires, Park(f)
        PROVE  LInv'
    <2> DEFINE r == [ledger[f] EXCEPT !.parked = TRUE, !.drain = FALSE]
    <2>1. r \in Row /\ ledger' = [ledger EXCEPT ![f] = r]
      BY <1>5, <1>t DEF Park, Row
    <2>2. /\ r.schedule = ledger[f].schedule /\ r.stored = ledger[f].stored /\ r.stored = "yes"
          /\ ~r.accepted /\ ~r.abandoned /\ ~r.drain
      BY <1>5, <1>t DEF Park, Unsettled, Stored, Row
    <2>3. f > clock => r.stored = "no"
      BY <1>m, <2>2 DEF RowsAreClaimed
    <2> HIDE DEF r
    <2> QED BY <1>5, <2>1, <2>2, <2>3, OneRowInv DEF Park
  <1>6. ASSUME NEW f \in Fires, Abandon(f) \/ ReapAbandon(f)
        PROVE  LInv'
    <2> DEFINE r == [ledger[f] EXCEPT !.abandoned = TRUE, !.drain = FALSE]
    <2>1. r \in Row /\ ledger' = [ledger EXCEPT ![f] = r] /\ UNCHANGED <<clock, schedule>>
      <3>1. r \in Row
        BY <1>t DEF Row
      <3>2. CASE Abandon(f)
        BY <1>t, <3>1, <3>2 DEF Abandon
      <3>3. CASE ReapAbandon(f)
        BY <1>t, <3>1, <3>3 DEF ReapAbandon
      <3> QED BY <1>6, <3>2, <3>3
    <2>2. /\ r.schedule = ledger[f].schedule /\ r.stored = ledger[f].stored /\ r.stored = "yes"
          /\ ~r.accepted /\ ~r.parked /\ ~r.drain
      BY <1>6, <1>t DEF Abandon, ReapAbandon, Unsettled, Stored, Row
    <2>3. f > clock => r.stored = "no"
      BY <1>m, <2>2 DEF RowsAreClaimed
    <2> HIDE DEF r
    <2> QED BY <2>1, <2>2, <2>3, OneRowInv
  <1>7. ASSUME NEW f \in Fires, DeleteStale(f) \/ ReapTerminal(f)
        PROVE  LInv'
    <2> PICK where \in {"no", "reaped"} :
            /\ ledger' = [ledger EXCEPT ![f] = Blank(ledger[f].schedule, where)]
            /\ Stored(f)
            /\ UNCHANGED <<clock, schedule>>
      BY <1>7 DEF DeleteStale, ReapTerminal, Active, Unsettled
    <2> DEFINE r == Blank(ledger[f].schedule, where)
    <2>1. r \in Row
      BY <1>t, AttemptsBound DEF Blank, Row
    <2>2. /\ r.schedule = ledger[f].schedule /\ r.stored # "yes" /\ r.pasted = NoSession
          /\ ~r.accepted /\ ~r.parked /\ ~r.abandoned
      BY DEF Blank
    <2>3. ~(f > clock)
      BY <1>m DEF RowsAreClaimed, Stored
    <2> HIDE DEF r
    <2> QED BY <2>1, <2>2, <2>3, OneRowInv DEF r
  <1>8. ASSUME NEW f \in Fires, DrainPark(f)
        PROVE  LInv'
    <2> DEFINE r == [ledger[f] EXCEPT !.drain = TRUE, !.released = FALSE]
    <2>1. r \in Row /\ ledger' = [ledger EXCEPT ![f] = r]
      BY <1>8, <1>t DEF DrainPark, Row
    <2>2. /\ r.schedule = ledger[f].schedule /\ r.stored = ledger[f].stored /\ r.stored = "yes"
          /\ ~r.accepted /\ ~r.parked /\ ~r.abandoned
      BY <1>8, <1>t DEF DrainPark, Active, Unsettled, Stored, Row
    <2>3. f > clock => r.stored = "no"
      BY <1>m, <2>2 DEF RowsAreClaimed
    <2> HIDE DEF r
    <2> QED BY <1>8, <2>1, <2>2, <2>3, OneRowInv DEF DrainPark
  <1>9. ASSUME NEW f \in Fires, Confirm(f)
        PROVE  LInv'
    BY <1>9, ConfirmInv
  <1>10. CASE ReleaseDrainParked
    BY <1>10, ReleaseInv
  <1>11. ASSUME NEW s \in Schedules, (\E on \in BOOLEAN : Toggle(s, on)) \/ Remove(s)
         PROVE  LInv'
    BY <1>11, ScheduleInv
  <1>12. CASE UNCHANGED ledgerVars
    BY <1>12 DEF ledgerVars, LInv, LedgerTypeOK, RowsAreClaimed, OneMarker,
                 HighWaterCovers, UnstoredUnmarked, Stored
  <1> QED
    BY <1>1, <1>2, <1>3, <1>4, <1>5, <1>6, <1>7, <1>8, <1>9, <1>10, <1>11, <1>12 DEF LedgerNext

\* The invariant holds in every reachable state.
LEMMA LedgerInvariant == LedgerSpec => []LInv
  BY LedgerInitInv, LedgerStepInv, PTL DEF LedgerSpec

\* The ledger keeps its types: every claimed fire has a row of a real schedule, and
\* nothing is stored for a fire that was not claimed.
THEOREM LedgerTypes == LedgerSpec => [](LedgerTypeOK /\ RowsAreClaimed)
  <1>1. LInv => LedgerTypeOK /\ RowsAreClaimed
    BY DEF LInv
  <1> QED BY <1>1, LedgerInvariant, PTL

\* Whatever order the ledger's writers run in, a row has one outcome: the recoverable
\* marker and the terminal ones exclude each other.
THEOREM OutcomesExclude == LedgerSpec => []OneMarker
  <1>1. LInv => OneMarker
    BY DEF LInv
  <1> QED BY <1>1, LedgerInvariant, PTL

\* The supersession floor of a schedule covers every fire of it that ran.
THEOREM FloorCoversReceipts == LedgerSpec => []HighWaterCovers
  <1>1. LInv => HighWaterCovers
    BY DEF LInv
  <1> QED BY <1>1, LedgerInvariant, PTL

-----------------------------------------------------------------------------
(* What one step of the ledger may do to one fire's row, whichever of the    *)
(* fourteen writers took it: the action properties and the refinement follow *)
(* from this alone.                                                          *)

\* The markers a row carries before and after the step.
SameMarkers(f) ==
    /\ ledger'[f].stored = ledger[f].stored
    /\ ledger'[f].accepted = ledger[f].accepted
    /\ ledger'[f].parked = ledger[f].parked
    /\ ledger'[f].abandoned = ledger[f].abandoned

NoMarker(f) ==
    ledger'[f].stored = "yes" /\ ~ledger'[f].accepted /\ ~ledger'[f].parked /\ ~ledger'[f].abandoned

SamePaste(f) == ledger'[f].pasted = ledger[f].pasted

\* A row is written again: at the claim, or by a caller that still carries the fire.
Written(f) ==
    /\ ledger[f].stored = "no" /\ f <= clock'
    /\ NoMarker(f) /\ ~ledger'[f].drain /\ ledger'[f].pasted = NoSession

\* Its paste is marked, or nothing but its attempts changes.
Carried(f) ==
    /\ SameMarkers(f) /\ ledger'[f].drain = ledger[f].drain
    /\ f > clock <=> f > clock'
    /\ ~SamePaste(f) => Active(f) /\ ledger[f].pasted = NoSession

\* It is held, or released again.
Held(f) ==
    Active(f) /\ NoMarker(f) /\ ledger'[f].drain /\ SamePaste(f)

Freed(f) ==
    Unsettled(f) /\ ledger[f].drain /\ NoMarker(f) /\ ~ledger'[f].drain /\ SamePaste(f)

\* It is settled without a receipt.
Settled(f) ==
    /\ Unsettled(f)
    /\ Stored(f)' /\ ~ledger'[f].accepted /\ ~ledger'[f].drain
    /\ ledger'[f].parked \/ ledger'[f].abandoned
    /\ SamePaste(f)

\* Its receipt arrives.
Received(f) ==
    /\ Stored(f) /\ Stored(f)'
    /\ ledger'[f].accepted /\ ~ledger'[f].parked /\ ~ledger'[f].abandoned /\ ~ledger'[f].drain
    /\ SamePaste(f)
    /\ \A g \in Fires : ~(ledger'[g].stored = "yes" /\ ledger'[g].drain)

\* It leaves the table: dropped as stale, or past its retention.
Gone(f) ==
    /\ ~ledger'[f].accepted
    /\ \/ Active(f) /\ ledger'[f].stored = "no" /\ f <= clock'
       \/ /\ Stored(f) /\ (ledger[f].accepted \/ ledger[f].abandoned \/ ledger[f].parked)
          /\ ledger'[f].stored = "reaped"

RowStep(f) ==
    Written(f) \/ Carried(f) \/ Held(f) \/ Freed(f) \/ Settled(f) \/ Received(f) \/ Gone(f)

\* A row the step does not touch is carried along.
LEMMA UntouchedRow ==
    ASSUME NEW f \in Fires, ledger'[f] = ledger[f], f > clock <=> f > clock'
    PROVE  RowStep(f)
  BY DEF RowStep, Carried, SameMarkers, SamePaste

\* A step that releases held rows either touches a row's drain mark or carries it.
LEMMA ReleasedRow ==
    ASSUME NEW f \in Fires, NEW rows \in [Fires -> Row], rows[f] = ledger[f],
           ledger' = Released(rows), clock' = clock
    PROVE  RowStep(f)
  <1>1. CASE /\ rows[f].stored = "yes" /\ rows[f].drain
             /\ ~rows[f].accepted /\ ~rows[f].parked /\ ~rows[f].abandoned
    <2>1. ledger'[f] = [rows[f] EXCEPT !.drain = FALSE, !.released = TRUE]
      BY <1>1 DEF Released
    <2>2. Freed(f)
      BY <1>1, <2>1 DEF Freed, Unsettled, Stored, NoMarker, SamePaste, Row
    <2> QED BY <2>2 DEF RowStep
  <1>2. CASE ~(/\ rows[f].stored = "yes" /\ rows[f].drain
               /\ ~rows[f].accepted /\ ~rows[f].parked /\ ~rows[f].abandoned)
    <2>1. ledger'[f] = ledger[f]
      BY <1>2 DEF Released
    <2> QED BY <2>1, UntouchedRow
  <1> QED BY <1>1, <1>2

\* After a receipt nothing stored is held.
LEMMA ReceiptRow ==
    ASSUME LInv, NEW f \in Fires, Confirm(f)
    PROVE  \A g \in Fires : RowStep(g)
  <1> DEFINE r == [ledger[f] EXCEPT !.accepted = TRUE, !.parked = FALSE,
                                    !.abandoned = FALSE, !.drain = FALSE]
             rows == [ledger EXCEPT ![f] = r]
  <1>t. ledger \in [Fires -> Row]
    BY DEF LInv, LedgerTypeOK
  <1>1. /\ r \in Row /\ r.stored = ledger[f].stored /\ r.pasted = ledger[f].pasted
        /\ r.accepted /\ ~r.parked /\ ~r.abandoned /\ ~r.drain
    BY <1>t DEF Row
  <1>2. ledger' = Released(rows) /\ clock' = clock /\ Stored(f)
    BY <1>t DEF Confirm
  <1>3. /\ rows \in [Fires -> Row] /\ rows[f] = r
        /\ \A g \in Fires : g # f => rows[g] = ledger[g]
    <2> HIDE DEF r
    <2> QED BY <1>1, <1>t
  <1> HIDE DEF r, rows
  <1>4. ASSUME NEW g \in Fires
        PROVE  ~(ledger'[g].stored = "yes" /\ ledger'[g].drain)
    <2>1. LInv'
      BY ConfirmInv
    <2>2. /\ ledger'[g].accepted = rows[g].accepted /\ ledger'[g].parked = rows[g].parked
          /\ ledger'[g].abandoned = rows[g].abandoned /\ ledger'[g].stored = rows[g].stored
          /\ ledger'[g].drain => rows[g].drain
      BY <1>2, <1>3, ReleasedRows
    <2>3. ASSUME ledger'[g].stored = "yes", ledger'[g].drain
          PROVE  FALSE
      <3>1. /\ rows[g].stored = "yes" /\ rows[g].drain
            /\ ~rows[g].accepted /\ ~rows[g].parked /\ ~rows[g].abandoned
        BY <2>1, <2>2, <2>3 DEF LInv, OneMarker
      <3>2. ledger'[g] = [rows[g] EXCEPT !.drain = FALSE, !.released = TRUE]
        BY <1>2, <3>1 DEF Released
      <3>3. rows[g] \in Row
        BY <1>3
      <3> QED BY <2>3, <3>2, <3>3 DEF Row
    <2> QED BY <2>3
  <1>5. RowStep(f)
    <2>1. ledger'[f] = r
      BY <1>1, <1>2, <1>3 DEF Released
    <2> QED BY <1>1, <1>2, <1>4, <2>1 DEF RowStep, Received, Stored, SamePaste
  <1>6. ASSUME NEW g \in Fires, g # f
        PROVE  RowStep(g)
    BY <1>2, <1>3, <1>6, ReleasedRow
  <1> QED BY <1>5, <1>6

\* Every step treats every row in one of these ways.
LEMMA RowMoves == LInv /\ [LedgerNext]_ledgerVars => \A f \in Fires : RowStep(f)
  <1> SUFFICES ASSUME LInv, [LedgerNext]_ledgerVars, NEW f \in Fires
               PROVE  RowStep(f)
    OBVIOUS
  <1>t. ledger \in [Fires -> Row] /\ ledger[f] \in Row
    BY DEF LInv, LedgerTypeOK
  <1>c. RowsAreClaimed /\ OneMarker /\ clock \in Nat /\ f \in Nat
    BY FiresAssumption DEF LInv, LedgerTypeOK, Fires
  <1>1. ASSUME NEW s \in Schedules, NEW expected \in 0..MaxFires, ClaimFire(s, expected)
        PROVE  RowStep(f)
    <2>1. CASE f = clock + 1
      <3>1. ledger[f].stored = "no" /\ ledger'[f] = Blank(s, "yes") /\ f <= clock'
        BY <1>1, <1>t, <1>c, <2>1 DEF ClaimFire, RowsAreClaimed
      <3> QED BY <3>1 DEF RowStep, Written, NoMarker, Blank
    <2>2. CASE f # clock + 1
      <3>1. ledger'[f] = ledger[f] /\ (f > clock <=> f > clock')
        BY <1>1, <1>t, <1>c, <2>2 DEF ClaimFire
      <3> QED BY <3>1, UntouchedRow
    <2> QED BY <2>1, <2>2
  <1>2. ASSUME NEW h \in Fires, PersistFire(h)
        PROVE  RowStep(f)
    <2>1. CASE f = h
      <3>1. ledger[f].stored = "no" /\ ledger'[f] = Blank(ledger[f].schedule, "yes") /\ f <= clock'
        BY <1>2, <1>t, <1>c, <2>1 DEF PersistFire
      <3> QED BY <3>1 DEF RowStep, Written, NoMarker, Blank
    <2>2. CASE f # h
      BY <1>2, <1>t, <2>2, UntouchedRow DEF PersistFire
    <2> QED BY <2>1, <2>2
  <1>3. ASSUME NEW h \in Fires, NEW g \in Sessions, MarkPasted(h, g)
        PROVE  RowStep(f)
    <2>1. CASE f = h
      <3>1. ledger'[f] = [ledger[f] EXCEPT !.pasted = g] /\ clock' = clock
        BY <1>3, <1>t, <2>1 DEF MarkPasted
      <3> QED BY <1>3, <1>t, <2>1, <3>1 DEF MarkPasted, RowStep, Carried, SameMarkers, Row
    <2>2. CASE f # h
      BY <1>3, <1>t, <2>2, UntouchedRow DEF MarkPasted
    <2> QED BY <2>1, <2>2
  <1>4. ASSUME NEW h \in Fires, IncrementAttempts(h)
        PROVE  RowStep(f)
    <2>1. CASE f = h
      <3>1. /\ ledger'[f] = [ledger[f] EXCEPT !.attempts = ledger[f].attempts + 1]
            /\ clock' = clock
        BY <1>4, <1>t, <2>1 DEF IncrementAttempts
      <3> QED BY <1>t, <3>1 DEF RowStep, Carried, SameMarkers, SamePaste, Row
    <2>2. CASE f # h
      BY <1>4, <1>t, <2>2, UntouchedRow DEF IncrementAttempts
    <2> QED BY <2>1, <2>2
  <1>5. ASSUME NEW h \in Fires, Park(h) \/ Abandon(h) \/ ReapAbandon(h)
        PROVE  RowStep(f)
    <2>1. Unsettled(h) /\ clock' = clock
      BY <1>5 DEF Park, Abandon, ReapAbandon
    <2>2. \/ ledger' = [ledger EXCEPT ![h].parked = TRUE, ![h].drain = FALSE]
          \/ ledger' = [ledger EXCEPT ![h].abandoned = TRUE, ![h].drain = FALSE]
      BY <1>5 DEF Park, Abandon, ReapAbandon
    <2>3. CASE f = h
      <3>1. \/ ledger'[f] = [ledger[f] EXCEPT !.parked = TRUE, !.drain = FALSE]
            \/ ledger'[f] = [ledger[f] EXCEPT !.abandoned = TRUE, !.drain = FALSE]
        BY <1>t, <2>2, <2>3
      <3> QED BY <1>t, <2>1, <2>3, <3>1 DEF RowStep, Settled, Unsettled, Stored, SamePaste, Row
    <2>4. CASE f # h
      BY <1>t, <2>1, <2>2, <2>4, UntouchedRow
    <2> QED BY <2>3, <2>4
  <1>6. ASSUME NEW h \in Fires, DeleteStale(h)
        PROVE  RowStep(f)
    <2>1. CASE f = h
      <3>1. ledger'[f] = Blank(ledger[f].schedule, "no") /\ Active(f) /\ clock' = clock
        BY <1>6, <1>t, <2>1 DEF DeleteStale
      <3>2. f <= clock'
        BY <1>c, <3>1 DEF RowsAreClaimed, Active, Unsettled, Stored
      <3> QED BY <3>1, <3>2 DEF RowStep, Gone, Blank
    <2>2. CASE f # h
      BY <1>6, <1>t, <2>2, UntouchedRow DEF DeleteStale
    <2> QED BY <2>1, <2>2
  <1>7. ASSUME NEW h \in Fires, ReapTerminal(h)
        PROVE  RowStep(f)
    <2>1. CASE f = h
      <3>1. ledger'[f] = Blank(ledger[f].schedule, "reaped")
        BY <1>7, <1>t, <2>1 DEF ReapTerminal
      <3> QED BY <1>7, <2>1, <3>1 DEF ReapTerminal, RowStep, Gone, Blank
    <2>2. CASE f # h
      BY <1>7, <1>t, <2>2, UntouchedRow DEF ReapTerminal
    <2> QED BY <2>1, <2>2
  <1>8. ASSUME NEW h \in Fires, DrainPark(h)
        PROVE  RowStep(f)
    <2>1. CASE f = h
      <3>1. ledger'[f] = [ledger[f] EXCEPT !.drain = TRUE, !.released = FALSE] /\ Active(f)
        BY <1>8, <1>t, <2>1 DEF DrainPark
      <3> QED BY <1>t, <3>1 DEF RowStep, Held, NoMarker, Active, Unsettled, Stored, SamePaste, Row
    <2>2. CASE f # h
      BY <1>8, <1>t, <2>2, UntouchedRow DEF DrainPark
    <2> QED BY <2>1, <2>2
  <1>9. ASSUME NEW h \in Fires, Confirm(h)
        PROVE  RowStep(f)
    BY <1>9, ReceiptRow
  <1>10. CASE ReleaseDrainParked
    BY <1>10, <1>t, ReleasedRow DEF ReleaseDrainParked
  <1>11. ASSUME NEW s \in Schedules, (\E on \in BOOLEAN : Toggle(s, on)) \/ Remove(s)
         PROVE  RowStep(f)
    BY <1>11, UntouchedRow DEF Toggle, Remove
  <1>12. CASE UNCHANGED ledgerVars
    BY <1>12, UntouchedRow DEF ledgerVars
  <1> QED
    BY <1>1, <1>2, <1>3, <1>4, <1>5, <1>6, <1>7, <1>8, <1>9, <1>10, <1>11, <1>12 DEF LedgerNext

\* A receipt leaves no row of the agent held, so a crash right after it strands none.
THEOREM ReceiptsRelease == LedgerSpec => ReceiptReleasesDebt
  <1>1. LInv /\ [LedgerNext]_ledgerVars => [NoDebtAfterReceipt]_ledgerVars
    <2> SUFFICES ASSUME LInv, [LedgerNext]_ledgerVars,
                        NEW f \in Fires, ~ledger[f].accepted, ledger'[f].accepted
                 PROVE  \A g \in Fires : ~(ledger'[g].stored = "yes" /\ ledger'[g].drain)
      BY DEF NoDebtAfterReceipt
    <2>1. RowStep(f)
      BY RowMoves
    <2>2. Received(f)
      BY <2>1 DEF RowStep, Written, Carried, Held, Freed, Settled, Gone, SameMarkers, NoMarker
    <2> QED BY <2>2 DEF Received
  <1> QED BY <1>1, LedgerInvariant, PTL DEF LedgerSpec, ReceiptReleasesDebt

\* The write-ahead marker stays with the session that wrote it for as long as the row
\* is kept, and is only ever written on a row of the active outbox.
THEOREM MarkersAreFinal == LedgerSpec => MarkerIsFinal
  <1>1. LInv /\ [LedgerNext]_ledgerVars => [MarkerKept]_ledgerVars
    <2> SUFFICES ASSUME LInv, [LedgerNext]_ledgerVars, NEW f \in Fires,
                        ledger'[f].stored = "yes", ledger'[f].pasted # ledger[f].pasted
                 PROVE  ledger[f].pasted = NoSession /\ Active(f)
      BY DEF MarkerKept
    <2>1. RowStep(f) /\ (Stored(f) \/ ledger[f].pasted = NoSession)
      BY RowMoves DEF LInv, UnstoredUnmarked
    <2> QED
      BY <2>1 DEF RowStep, Written, Carried, Held, Freed, Settled, Received, Gone, SamePaste, Stored
  <1> QED BY <1>1, LedgerInvariant, PTL DEF LedgerSpec, MarkerIsFinal

\* The ledger implements the promise about each fire: each step of a row is one edge.
THEOREM KeepsThePromise == LedgerSpec => ImplementsFireOutcome
  <1>1. LedgerInit => Promise!OutcomeInit
    BY FiresAssumption DEF LedgerInit, Promise!OutcomeInit, OutcomeOf, Blank, Fires
  <1>2. LInv /\ [LedgerNext]_ledgerVars
          => [Promise!OutcomeNext]_([f \in Fires |-> OutcomeOf(f)])
    <2> SUFFICES ASSUME LInv, [LedgerNext]_ledgerVars
                 PROVE  Promise!OutcomeNext
      OBVIOUS
    <2>1. ASSUME NEW f \in Fires
          PROVE  /\ OutcomeOf(f)' \in Promise!Outcome
                 /\ \/ OutcomeOf(f)' = OutcomeOf(f)
                    \/ <<OutcomeOf(f), OutcomeOf(f)'>> \in Promise!Edge
      <3>1. RowStep(f) /\ LInv /\ LInv'
        BY RowMoves, LedgerStepInv
      <3>2. OutcomeOf(f)' \in Promise!Outcome
        BY DEF OutcomeOf, Promise!Outcome
      <3>4. /\ OneMarker /\ OneMarker' /\ f \in Nat /\ clock \in Nat /\ clock' \in Nat
            /\ f > clock => ledger[f].stored = "no"
        BY <3>1, FiresAssumption DEF LInv, LedgerTypeOK, RowsAreClaimed, Fires
      <3>6. CASE Written(f)
        <4>1. OutcomeOf(f) \in {"unfired", "dropped"} /\ OutcomeOf(f)' = "owed"
          BY <3>4, <3>6 DEF Written, NoMarker, OutcomeOf
        <4> QED BY <3>2, <4>1 DEF Promise!Edge
      <3>7. CASE Carried(f)
        BY <3>2, <3>7 DEF Carried, SameMarkers, OutcomeOf
      <3>8. CASE Held(f)
        <4>1. OutcomeOf(f) = "owed" /\ OutcomeOf(f)' = "held"
          BY <3>8 DEF Held, Active, Unsettled, Stored, NoMarker, OutcomeOf
        <4> QED BY <3>2, <4>1 DEF Promise!Edge
      <3>9. CASE Freed(f)
        <4>1. OutcomeOf(f) = "held" /\ OutcomeOf(f)' = "owed"
          BY <3>9 DEF Freed, Unsettled, Stored, NoMarker, OutcomeOf
        <4> QED BY <3>2, <4>1 DEF Promise!Edge
      <3>10. CASE Settled(f)
        <4>1. OutcomeOf(f) \in {"owed", "held"} /\ OutcomeOf(f)' = "settled"
          BY <3>10 DEF Settled, Unsettled, Stored, OutcomeOf
        <4> QED BY <3>2, <4>1 DEF Promise!Edge
      <3>11. CASE Received(f)
        <4>1. OutcomeOf(f) \in {"owed", "held", "settled", "ran"} /\ OutcomeOf(f)' = "ran"
          BY <3>11 DEF Received, Stored, OutcomeOf
        <4> QED BY <3>2, <4>1 DEF Promise!Edge
      <3>12. CASE Gone(f)
        <4>1. \/ OutcomeOf(f) = "owed" /\ OutcomeOf(f)' = "dropped"
              \/ OutcomeOf(f) \in {"ran", "settled"} /\ OutcomeOf(f)' = "forgotten"
          BY <3>4, <3>12 DEF Gone, Active, Unsettled, Stored, OutcomeOf
        <4> QED BY <3>2, <4>1 DEF Promise!Edge
      <3> QED BY <3>1, <3>2, <3>6, <3>7, <3>8, <3>9, <3>10, <3>11, <3>12 DEF RowStep
    <2> QED BY <2>1, FiresAssumption DEF Promise!OutcomeNext
  <1> QED BY <1>1, <1>2, LedgerInvariant, PTL
      DEF LedgerSpec, ImplementsFireOutcome, Promise!OutcomeSpec
=============================================================================
