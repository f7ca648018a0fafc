------------------------ MODULE WakeDelivery_proofs ------------------------
(***************************************************************************)
(* Proofs about WakeDelivery, for any schedules, sessions and bounds: the  *)
(* delivery machinery uses the ledger only through its operations, an      *)
(* exact fire reaches a pane at most once, and a recurrence that was held  *)
(* does not after a newer one was accepted, whatever crashes, sessions,    *)
(* passes and cohorts do.                                                  *)
(***************************************************************************)
EXTENDS WakeDelivery, WakeLedger_proofs, FiniteSetTheorems, WellFoundedInduction

-----------------------------------------------------------------------------
(* The inductive invariant.                                                  *)

\* Who holds the lane at which stage; what the holder knows of the row it works on.
\* No row is deleted while the lane is between a check and the end of its wait, and a
\* row being planned was never pasted.
LaneProgram ==
    /\ lane.at = "free" <=> lane.by = "nobody"
    /\ lane.at = "check" => lane.by = "cohort"
    /\ lane.at \in {"settle", "probe", "park", "plan", "collapse", "deliver"} => lane.by = "replay"
    /\ lane.by = "replay" <=> replay.task = "running"
    /\ lane.at \in {"check", "send", "wait"} => lane.fire \in 1..clock
    /\ lane.at \in {"send", "wait"} => Stored(lane.fire)
    /\ lane.at = "plan" => \A f \in lane.todo : Stored(f) /\ ledger[f].pasted = NoSession

\* The fires that the cohort in the lane has still to check.
Members ==
    IF lane.by # "cohort" THEN {}
    ELSE IF lane.at = "check" THEN lane.todo \cup {lane.fire} ELSE lane.todo

\* Every claimed fire is carried at most once: by the tick, by a waiting cohort task,
\* or by the cohort in the lane.  Only a carrier persists a fire again.
Carriers ==
    /\ tick.claimed \subseteq 1..clock
    /\ \A g \in groups : g.fires \subseteq 1..clock
    /\ Members \subseteq 1..clock
    /\ lane.at = "check" => lane.fire \notin lane.todo
    /\ tick.claimed \cap Members = {}
    /\ \A g \in groups : g.fires \cap tick.claimed = {} /\ g.fires \cap Members = {}
    /\ \A g, h \in groups : g = h \/ g.fires \cap h.fires = {}

InHand(f) == f \in tick.claimed \/ f \in Members \/ \E g \in groups : f \in g.fires

\* An open turn has its row; unless the row is settled and marked, somebody waits for
\* the turn.
TurnsAreOwed ==
    \A f \in Fires : turn[f] # "none" =>
        /\ Stored(f)
        /\ InPane(f) => ledger[f].pasted # NoSession
        /\ Unsettled(f) \/ ledger[f].pasted = NoSession => Waits(f)

OnePane == \A f, g \in Fires : InPane(f) /\ InPane(g) => f = g

\* Why a fire that reached a pane reaches none again: its row carries the marker, or
\* the row is gone and nobody carries the fire any more.
PasteSpent ==
    \A f \in Fires : pastes[f] # 0 =>
        /\ pastes[f] = 1 /\ turn[f] # "marked" /\ f <= clock
        /\ ledger[f].pasted # NoSession \/ (~Stored(f) /\ ~InHand(f))

TurnInv == TurnsAreOwed /\ OnePane /\ PasteSpent /\ WaiterHasTurn

DInv == LInv /\ DeliveryTypeOK /\ LaneProgram /\ Carriers /\ TurnInv

-----------------------------------------------------------------------------
(* Facts about the operators of the model.                                   *)

\* A non-empty set of numbers has the least element that Min picks.
LEMMA MinIsLeast ==
    ASSUME NEW T \in SUBSET Nat, T # {}
    PROVE  Min(T) \in T /\ \A x \in T : Min(T) <= x
  <1> DEFINE R == {p \in Nat \X Nat : p[1] < p[2]}
  <1>1. IsWellFoundedOn(R, Nat)
    BY NatLessThanWellFounded DEF OpToRel
  <1>2. PICK x \in T : \A y \in T : ~(<<y, x>> \in R)
    <2> HIDE DEF R
    <2> QED BY <1>1, WFMin
  <1>3. ASSUME NEW y \in T PROVE x <= y
    <2>1. <<y, x>> \in Nat \X Nat /\ ~(<<y, x>> \in R)
      BY <1>2
    <2>2. ~(y < x)
      BY <2>1
    <2> QED BY <2>2
  <1> QED BY <1>3 DEF Min

\* The least of some fires is one of them.
LEMMA MinIsFire ==
    ASSUME NEW T \in SUBSET Fires, T # {}
    PROVE  Min(T) \in T /\ Min(T) \in Fires
  <1>1. T \in SUBSET Nat
    BY FiresAssumption DEF Fires
  <1> QED BY <1>1, MinIsLeast

\* The lane that nobody holds is a lane.
LEMMA FreeIsLane == Free \in Lane
  BY FiresAssumption DEF Free, Lane, Stage, Fires

\* A cohort goes on with one of the members it has left, or gives up the lane.
LEMMA NextMemberIsLane ==
    ASSUME NEW todo \in SUBSET Fires, NEW l, l = NextMember(todo)
    PROVE  /\ l \in Lane
           /\ \/ l.at = "free" /\ l.by = "nobody"
              \/ /\ l.at = "check" /\ l.by = "cohort"
                 /\ l.fire \in todo /\ l.todo = todo \ {l.fire}
  <1>1. CASE todo = {}
    BY <1>1, FreeIsLane DEF NextMember, Free
  <1>2. CASE todo # {}
    <2> DEFINE m == Min(todo)
    <2>1. m \in todo /\ m \in Fires
      BY <1>2, MinIsFire
    <2>2. l = [Free EXCEPT !.by = "cohort", !.at = "check", !.fire = m, !.todo = todo \ {m}]
      BY <1>2 DEF NextMember
    <2> HIDE DEF m
    <2>3. m \in 0..MaxFires
      BY <2>1, FiresAssumption DEF Fires
    <2>4. l = [by |-> "cohort", at |-> "check", todo |-> todo \ {m}, keep |-> {}, fire |-> m,
               answer |-> "open", any |-> FALSE]
      BY <2>2 DEF Free
    <2> QED BY <2>1, <2>3, <2>4 DEF Lane, Stage
  <1> QED BY <1>1, <1>2

-----------------------------------------------------------------------------
(* What the operations of the ledger do to the rows.                         *)

\* The row is still there or still not there, has the marker it had, and is not owed
\* again if it was settled.
RowKept(f) ==
    /\ Stored(f)' <=> Stored(f)
    /\ ledger'[f].pasted = ledger[f].pasted
    /\ Unsettled(f)' => Unsettled(f)

RowsKept == clock' = clock /\ \A f \in Fires : RowKept(f)

\* The operations that keep every row.
Settling(f) ==
    Park(f) \/ Abandon(f) \/ ReapAbandon(f) \/ DrainPark(f) \/ IncrementAttempts(f) \/ Confirm(f)

LedgerQuiet ==
    \/ UNCHANGED ledgerVars
    \/ ReleaseDrainParked
    \/ \E f \in Fires : Settling(f)
    \/ \E s \in Schedules : Remove(s) \/ \E on \in BOOLEAN : Toggle(s, on)

\* Releasing what is held keeps every row.
LEMMA ReleasedKeeps ==
    ASSUME NEW rows \in [Fires -> Row], ledger \in [Fires -> Row],
           \A f \in Fires : /\ rows[f].stored = ledger[f].stored
                            /\ rows[f].pasted = ledger[f].pasted
                            /\ (rows[f].accepted = ledger[f].accepted
                                /\ rows[f].parked = ledger[f].parked
                                /\ rows[f].abandoned = ledger[f].abandoned) \/ rows[f].accepted = TRUE,
           ledger' = Released(rows), clock' = clock
    PROVE  RowsKept
  <1> SUFFICES ASSUME NEW f \in Fires PROVE RowKept(f)
    BY DEF RowsKept
  <1>1. /\ ledger'[f].stored = rows[f].stored /\ ledger'[f].pasted = rows[f].pasted
        /\ ledger'[f].accepted = rows[f].accepted /\ ledger'[f].parked = rows[f].parked
        /\ ledger'[f].abandoned = rows[f].abandoned
    BY ReleasedRows
  <1> QED BY <1>1 DEF RowKept, Stored, Unsettled

\* Settling one fire changes its row alone, and never reopens it.
LEMMA SettlingKeeps ==
    ASSUME LInv, NEW f \in Fires, Settling(f)
    PROVE  RowsKept
  <1>t. ledger \in [Fires -> Row]
    BY DEF LInv, LedgerTypeOK
  <1>1. CASE Confirm(f)
    <2> DEFINE r == [ledger[f] EXCEPT !.accepted = TRUE, !.parked = FALSE,
                                      !.abandoned = FALSE, !.drain = FALSE]
               rows == [ledger EXCEPT ![f] = r]
    <2>1. r \in Row /\ r.stored = ledger[f].stored /\ r.pasted = ledger[f].pasted /\ r.accepted = TRUE
      BY <1>t DEF Row
    <2>2. ledger' = Released(rows) /\ clock' = clock
      BY <1>1, <1>t DEF Confirm
    <2>3. rows \in [Fires -> Row]
      BY <2>1, <1>t
    <2>4. \A g \in Fires : rows[g] = IF g = f THEN r ELSE ledger[g]
      BY <1>t
    <2> HIDE DEF rows, r
    <2> QED BY <1>t, <2>1, <2>2, <2>3, <2>4, ReleasedKeeps
  <1>2. CASE Park(f) \/ Abandon(f) \/ ReapAbandon(f)
    <2>1. /\ Unsettled(f) /\ clock' = clock
          /\ \/ ledger' = [ledger EXCEPT ![f].parked = TRUE, ![f].drain = FALSE]
             \/ ledger' = [ledger EXCEPT ![f].abandoned = TRUE, ![f].drain = FALSE]
      BY <1>2 DEF Park, Abandon, ReapAbandon
    <2>2. \A g \in Fires : RowKept(g)
      BY <1>t, <2>1 DEF RowKept, Stored, Unsettled, Row
    <2> QED BY <2>1, <2>2 DEF RowsKept
  <1>3. CASE DrainPark(f) \/ IncrementAttempts(f)
    <2>1. /\ Unsettled(f) /\ clock' = clock
          /\ \/ ledger' = [ledger EXCEPT ![f].drain = TRUE, ![f].released = FALSE]
             \/ ledger' = [ledger EXCEPT ![f].attempts = @ + 1]
      BY <1>3 DEF DrainPark, IncrementAttempts, Active
    <2>2. \A g \in Fires : RowKept(g)
      BY <1>t, <2>1 DEF RowKept, Stored, Unsettled, Row
    <2> QED BY <2>1, <2>2 DEF RowsKept
  <1> QED BY <1>1, <1>2, <1>3 DEF Settling

\* A step that is quiet in the ledger keeps its rows and its invariant.
LEMMA QuietKeeps ==
    ASSUME LInv, LedgerQuiet
    PROVE  RowsKept /\ [LedgerNext]_ledgerVars /\ LInv'
  <1>t. ledger \in [Fires -> Row]
    BY DEF LInv, LedgerTypeOK
  <1>1. RowsKept
    <2>1. CASE UNCHANGED ledgerVars
      BY <2>1 DEF ledgerVars, RowsKept, RowKept, Stored, Unsettled
    <2>2. CASE ReleaseDrainParked
      BY <2>2, <1>t, ReleasedKeeps DEF ReleaseDrainParked
    <2>3. CASE \E f \in Fires : Settling(f)
      BY <2>3, SettlingKeeps
    <2>4. CASE \E s \in Schedules : Remove(s) \/ \E on \in BOOLEAN : Toggle(s, on)
      BY <2>4 DEF Remove, Toggle, RowsKept, RowKept, Stored, Unsettled
    <2> QED BY <2>1, <2>2, <2>3, <2>4 DEF LedgerQuiet
  <1>2. [LedgerNext]_ledgerVars
    BY DEF LedgerQuiet, Settling, LedgerNext
  <1> QED BY <1>1, <1>2, LedgerStepInv

\* A stale row is dropped: it alone goes, and it was owed.
LEMMA DeleteKeeps ==
    ASSUME LInv, NEW f \in Fires, DeleteStale(f)
    PROVE  /\ [LedgerNext]_ledgerVars /\ LInv'
           /\ clock' = clock /\ Unsettled(f)
           /\ ~Stored(f)' /\ ledger'[f].pasted = NoSession
           /\ \A g \in Fires : g # f => RowKept(g)
  <1>1. [LedgerNext]_ledgerVars
    BY DEF LedgerNext
  <1>2. ledger \in [Fires -> Row]
    BY DEF LInv, LedgerTypeOK
  <1>3. /\ clock' = clock /\ Unsettled(f) /\ ledger'[f] = Blank(ledger[f].schedule, "no")
        /\ \A g \in Fires : g # f => ledger'[g] = ledger[g]
    BY <1>2 DEF DeleteStale, Active
  <1>4. ~Stored(f)' /\ ledger'[f].pasted = NoSession
    BY <1>3 DEF Blank, Stored
  <1>5. \A g \in Fires : g # f => RowKept(g)
    BY <1>3 DEF RowKept, Stored, Unsettled
  <1> QED BY <1>1, <1>3, <1>4, <1>5, LedgerStepInv

\* A carrier writes the row it finds missing.
LEMMA PersistKeeps ==
    ASSUME LInv, NEW f \in Fires, PersistFire(f)
    PROVE  /\ [LedgerNext]_ledgerVars /\ LInv'
           /\ clock' = clock /\ ~Stored(f) /\ Stored(f)' /\ ledger[f].pasted = NoSession
           /\ \A g \in Fires : g # f => RowKept(g)
  <1>1. [LedgerNext]_ledgerVars
    BY DEF LedgerNext
  <1>2. ledger \in [Fires -> Row] /\ UnstoredUnmarked
    BY DEF LInv, LedgerTypeOK
  <1>3. /\ clock' = clock /\ ledger[f].stored = "no" /\ ledger'[f] = Blank(ledger[f].schedule, "yes")
        /\ \A g \in Fires : g # f => ledger'[g] = ledger[g]
    BY <1>2 DEF PersistFire
  <1>4. ~Stored(f) /\ Stored(f)' /\ ledger[f].pasted = NoSession
    BY <1>2, <1>3 DEF Blank, Stored, UnstoredUnmarked
  <1>5. \A g \in Fires : g # f => RowKept(g)
    BY <1>3 DEF RowKept, Stored, Unsettled
  <1> QED BY <1>1, <1>3, <1>4, <1>5, LedgerStepInv

\* The marker is stored in a row that is owed and was never pasted.
LEMMA MarkKeeps ==
    ASSUME LInv, NEW f \in Fires, NEW g \in Sessions, MarkPasted(f, g)
    PROVE  /\ [LedgerNext]_ledgerVars /\ LInv'
           /\ clock' = clock /\ Stored(f) /\ Stored(f)' /\ Unsettled(f)
           /\ ledger[f].pasted = NoSession /\ ledger'[f].pasted # NoSession
           /\ \A h \in Fires : h # f => RowKept(h)
  <1>1. [LedgerNext]_ledgerVars
    BY DEF LedgerNext
  <1>2. ledger \in [Fires -> Row]
    BY DEF LInv, LedgerTypeOK
  <1>3. /\ clock' = clock /\ Unsettled(f) /\ ledger[f].pasted = NoSession
        /\ ledger'[f] = [ledger[f] EXCEPT !.pasted = g]
        /\ \A h \in Fires : h # f => ledger'[h] = ledger[h]
    BY <1>2 DEF MarkPasted, Active
  <1>4. Stored(f) /\ Stored(f)' /\ ledger'[f].pasted # NoSession
    BY <1>2, <1>3, SessionsAssumption DEF Stored, Unsettled, Row
  <1>5. \A h \in Fires : h # f => RowKept(h)
    BY <1>3 DEF RowKept, Stored, Unsettled
  <1> QED BY <1>1, <1>3, <1>4, <1>5, LedgerStepInv

\* A claim writes the row of a fire nobody had.
LEMMA ClaimKeeps ==
    ASSUME LInv, NEW s \in Schedules, ClaimFire(s, schedule[s].lastRun)
    PROVE  /\ [LedgerNext]_ledgerVars /\ LInv'
           /\ clock \in Nat /\ clock' = clock + 1 /\ clock + 1 \in Fires
           /\ ~Stored(clock + 1)
           /\ \A f \in Fires : f # clock + 1 => RowKept(f)
  <1>1. ledger \in [Fires -> Row] /\ schedule \in [Schedules -> ScheduleRow] /\ clock \in 0..MaxFires
        /\ RowsAreClaimed
    BY DEF LInv, LedgerTypeOK
  <1>2. schedule[s].lastRun \in 0..MaxFires
    BY <1>1 DEF ScheduleRow
  <1>3. [LedgerNext]_ledgerVars
    BY <1>2 DEF LedgerNext
  <1>4. clock \in Nat /\ clock' = clock + 1 /\ clock + 1 \in Fires /\ clock + 1 > clock
    BY <1>1, FiresAssumption DEF ClaimFire, Fires
  <1>5. ~Stored(clock + 1)
    BY <1>1, <1>4 DEF RowsAreClaimed, Stored
  <1>6. \A f \in Fires : f # clock + 1 => ledger'[f] = ledger[f]
    BY <1>1 DEF ClaimFire
  <1>7. \A f \in Fires : f # clock + 1 => RowKept(f)
    BY <1>6 DEF RowKept, Stored, Unsettled
  <1> QED BY <1>3, <1>4, <1>5, <1>7, LedgerStepInv

-----------------------------------------------------------------------------
(* What the parts of the invariant depend on.                                *)

\* The types, in the parts a step disturbs.
TypesRest ==
    /\ age \in [Fires -> 0..2]
    /\ session \in Sessions \cup {NoSession}
    /\ used \subseteq Sessions
    /\ pastes \in [Fires -> Nat]
    /\ faults \in 0..MaxFaults

TickType == tick \in [claimed : SUBSET Fires, disable : Schedules \cup {NoSchedule}]
GroupType == groups \subseteq Group
ReplayType == replay \in [task : {"idle", "due", "running"}, again : BOOLEAN]
TurnType == turn \in [Fires -> Turn]

\* The type invariant, put together again from the parts the steps are proved on.
LEMMA TypesInParts ==
    ASSUME LaneProgram', TypesRest', TickType', GroupType', ReplayType', lane' \in Lane, TurnType'
    PROVE  DeliveryTypeOK'
  <1>1. (lane'.by = "replay") = (replay'.task = "running")
    BY DEF LaneProgram
  <1> QED BY <1>1 DEF DeliveryTypeOK, TypesRest, TickType, GroupType, ReplayType, TurnType

\* Cohort tasks finish waiting, or go away; none comes.
GroupsKept == groups' \subseteq groups \/ groups' = {[g EXCEPT !.ready = TRUE] : g \in groups}

\* Nobody gets a fire that he did not carry.
LEMMA CarriersFrame ==
    ASSUME DInv, clock' = clock, tick.claimed' \subseteq tick.claimed, GroupsKept,
           Members' \subseteq Members, lane'.at = "check" => lane'.fire \notin lane'.todo
    PROVE  /\ Carriers' /\ GroupType'
           /\ \A f \in Fires : InHand(f)' => InHand(f)
  <1> USE DEF DInv
  <1>1. groups \subseteq Group
    BY DEF DeliveryTypeOK
  <1>2. /\ GroupType'
        /\ \A g \in groups' : \E h \in groups : g.fires = h.fires
        /\ Carriers => \A g, h \in groups' : g = h \/ g.fires \cap h.fires = {}
    <2>1. CASE groups' \subseteq groups
      BY <1>1, <2>1 DEF GroupType, Carriers
    <2>2. CASE groups' = {[g EXCEPT !.ready = TRUE] : g \in groups}
      <3>1. \A g \in groups : g = [fires |-> g.fires, ready |-> g.ready] /\ g.fires \in SUBSET Fires
        BY <1>1 DEF Group
      <3>2. \A g \in groups' : \E h \in groups : g = [fires |-> h.fires, ready |-> TRUE]
        BY <2>2, <3>1
      <3>3. \A g \in groups' : g \in Group /\ \E h \in groups : g.fires = h.fires
        <4> SUFFICES ASSUME NEW g \in groups'
                     PROVE  g \in Group /\ \E h \in groups : g.fires = h.fires
          OBVIOUS
        <4>1. PICK h \in groups : g = [fires |-> h.fires, ready |-> TRUE]
          BY <3>2
        <4>2. h.fires \in SUBSET Fires
          BY <3>1
        <4>3. g \in Group
          BY <4>1, <4>2 DEF Group
        <4> QED BY <4>1, <4>3
      <3>4. ASSUME Carriers, NEW g \in groups', NEW h \in groups', g.fires \cap h.fires # {}
            PROVE  g = h
        <4>1. PICK gg \in groups : g = [fires |-> gg.fires, ready |-> TRUE]
          BY <3>2
        <4>2. PICK hh \in groups : h = [fires |-> hh.fires, ready |-> TRUE]
          BY <3>2
        <4>3. gg = hh
          BY <3>4, <4>1, <4>2 DEF Carriers
        <4> QED BY <4>1, <4>2, <4>3
      <3> QED BY <3>3, <3>4 DEF GroupType
    <2> QED BY <2>1, <2>2 DEF GroupsKept
  <1>3. Carriers'
    <2>1. /\ tick'.claimed \subseteq tick.claimed /\ tick'.claimed \subseteq 1..clock'
          /\ Members' \subseteq 1..clock' /\ tick'.claimed \cap Members' = {}
      BY DEF Carriers
    <2>2. \A g \in groups' : /\ g.fires \subseteq 1..clock'
                             /\ g.fires \cap tick'.claimed = {} /\ g.fires \cap Members' = {}
      BY <1>2, <2>1 DEF Carriers
    <2> QED BY <1>2, <2>1, <2>2 DEF Carriers
  <1>4. \A f \in Fires : InHand(f)' => InHand(f)
    BY <1>2 DEF InHand
  <1> QED BY <1>2, <1>3, <1>4

\* A turn stays, ends, or moves on from the pane; a paste is counted when a marked turn
\* moves on; and an open turn keeps who waits for it while its row is owed or unmarked.
TurnsMove ==
    \A f \in Fires :
        \/ turn'[f] = turn[f] \/ turn'[f] = "none"
        \/ InPane(f) /\ turn'[f] \in {"queued", "pasted"}

PastesMove ==
    \A f \in Fires :
        \/ pastes'[f] = pastes[f]
        \/ turn[f] = "marked" /\ turn'[f] # "marked" /\ pastes'[f] = pastes[f] + 1

WaitersKept ==
    \A f \in Fires :
        (turn'[f] # "none" /\ Waits(f) /\ (Unsettled(f)' \/ ledger'[f].pasted = NoSession))
          => Waits(f)'

\* Such a step keeps what is said of turns.
LEMMA TurnsFrame ==
    ASSUME DInv, RowsKept, \A f \in Fires : InHand(f)' => InHand(f),
           TurnType', TurnsMove, PastesMove, WaitersKept, WaiterHasTurn'
    PROVE  TurnInv'
  <1> USE DEF DInv, TurnInv
  <1>1. TurnsAreOwed'
    <2> SUFFICES ASSUME NEW f \in Fires, turn'[f] # "none"
                 PROVE  /\ Stored(f)'
                        /\ InPane(f)' => ledger'[f].pasted # NoSession
                        /\ Unsettled(f)' \/ ledger'[f].pasted = NoSession => Waits(f)'
      BY DEF TurnsAreOwed
    <2>1. turn[f] # "none" /\ (InPane(f)' => InPane(f)) /\ RowKept(f)
      BY DEF RowsKept, TurnsMove, InPane
    <2>2. /\ Stored(f)
          /\ InPane(f) => ledger[f].pasted # NoSession
          /\ Unsettled(f) \/ ledger[f].pasted = NoSession => Waits(f)
      BY <2>1 DEF TurnsAreOwed
    <2>3. Stored(f)' /\ ledger'[f].pasted = ledger[f].pasted /\ (Unsettled(f)' => Unsettled(f))
      BY <2>1, <2>2 DEF RowKept
    <2>4. InPane(f)' => ledger'[f].pasted # NoSession
      BY <2>1, <2>2, <2>3
    <2>5. Unsettled(f)' \/ ledger'[f].pasted = NoSession => Waits(f)
      BY <2>2, <2>3
    <2> QED BY <2>3, <2>4, <2>5 DEF WaitersKept
  <1>2. OnePane'
    <2>1. \A f \in Fires : InPane(f)' => InPane(f)
      BY DEF InPane, TurnsMove
    <2> QED BY <2>1 DEF OnePane
  <1>3. PasteSpent'
    <2> SUFFICES ASSUME NEW f \in Fires, pastes'[f] # 0
                 PROVE  /\ pastes'[f] = 1 /\ turn'[f] # "marked" /\ f <= clock'
                        /\ ledger'[f].pasted # NoSession \/ (~Stored(f)' /\ ~InHand(f)')
      BY DEF PasteSpent
    <2>1. CASE pastes'[f] = pastes[f]
      <3>1. /\ pastes[f] = 1 /\ turn[f] # "marked" /\ f <= clock
            /\ ledger[f].pasted # NoSession \/ (~Stored(f) /\ ~InHand(f))
        BY <2>1 DEF PasteSpent
      <3>2. turn'[f] # "marked"
        BY <3>1 DEF TurnsMove
      <3> QED BY <2>1, <3>1, <3>2 DEF RowsKept, RowKept
    <2>2. CASE turn[f] = "marked" /\ turn'[f] # "marked" /\ pastes'[f] = pastes[f] + 1
      <3>1. pastes[f] = 0
        BY <2>2 DEF PasteSpent
      <3>2. Stored(f) /\ ledger[f].pasted # NoSession
        BY <2>2 DEF TurnsAreOwed, InPane
      <3>3. f <= clock /\ clock' = clock
        BY <3>2, FiresAssumption
           DEF LInv, LedgerTypeOK, RowsAreClaimed, Stored, Fires, RowsKept
      <3> QED BY <2>2, <3>1, <3>2, <3>3 DEF RowsKept, RowKept
    <2> QED BY <2>1, <2>2 DEF PastesMove
  <1> QED BY <1>1, <1>2, <1>3

\* Steps that move turns.
LEMMA TurnStep ==
    ASSUME DInv, LedgerQuiet, TypesRest', TickType', ReplayType', lane' \in Lane, LaneProgram',
           tick.claimed' \subseteq tick.claimed, GroupsKept,
           Members' \subseteq Members, lane'.at = "check" => lane'.fire \notin lane'.todo,
           TurnType', TurnsMove, PastesMove, WaitersKept, WaiterHasTurn'
    PROVE  DInv' /\ [LedgerNext]_ledgerVars
  <1>1. RowsKept /\ [LedgerNext]_ledgerVars /\ LInv'
    BY QuietKeeps DEF DInv
  <1>2. Carriers' /\ GroupType' /\ \A f \in Fires : InHand(f)' => InHand(f)
    BY <1>1, CarriersFrame DEF RowsKept
  <1>5. TurnInv'
    BY <1>1, <1>2, TurnsFrame
  <1>6. DeliveryTypeOK'
    BY <1>2, TypesInParts
  <1> QED BY <1>1, <1>2, <1>5, <1>6 DEF DInv

\* Steps that touch neither the turns nor who waits.
LEMMA QuietStep ==
    ASSUME DInv, LedgerQuiet, TypesRest', TickType', ReplayType', lane' \in Lane, LaneProgram',
           tick.claimed' \subseteq tick.claimed, GroupsKept,
           Members' \subseteq Members, lane'.at = "check" => lane'.fire \notin lane'.todo,
           turn' = turn, pastes' = pastes,
           \A f \in Fires : Waits(f)' <=> Waits(f)
    PROVE  DInv' /\ [LedgerNext]_ledgerVars
  <1>1. TurnType'
    BY DEF TurnType, DInv, DeliveryTypeOK
  <1>2. TurnsMove /\ PastesMove
    BY DEF TurnsMove, PastesMove
  <1>3. WaitersKept
    BY DEF WaitersKept
  <1>4. WaiterHasTurn'
    BY DEF WaiterHasTurn, DInv, TurnInv
  <1> QED BY <1>1, <1>2, <1>3, <1>4, TurnStep

-----------------------------------------------------------------------------
(* The replay pass.                                                          *)

\* Nobody waits for a receipt.
NoWaiter == lane.at # "wait" \/ lane.answer # "open"

\* A step of the pass that keeps every row.
LEMMA PassMoves ==
    ASSUME DInv, LedgerQuiet, UNCHANGED <<age, faults, tick, transport>>,
           lane.by = "replay", NoWaiter, lane' \in Lane, lane'.at # "check", NoWaiter',
           lane'.by # "cohort", ReplayType', GroupsKept, LaneProgram'
    PROVE  DInv' /\ [LedgerNext]_ledgerVars
  <1>1. Members = {} /\ Members' = {}
    BY DEF Members
  <1>2. \A f \in Fires : ~Waits(f) /\ ~Waits(f)'
    BY DEF NoWaiter, Waits
  <1>3. TypesRest' /\ TickType' /\ tick.claimed' \subseteq tick.claimed /\ turn' = turn /\ pastes' = pastes
    BY DEF TypesRest, TickType, DInv, DeliveryTypeOK, transport
  <1> QED BY <1>1, <1>2, <1>3, QuietStep

\* A step of the pass within its stages.
LEMMA PassStays ==
    ASSUME DInv, LedgerQuiet, UNCHANGED <<age, faults, tick, groups, replay, transport>>,
           lane.by = "replay", NoWaiter, lane' \in Lane, lane'.by = "replay",
           lane'.at \in {"settle", "probe", "park", "plan", "collapse", "deliver"},
           lane'.at = "plan" =>
               \A f \in lane'.todo : Stored(f)' /\ ledger'[f].pasted = NoSession
    PROVE  DInv' /\ [LedgerNext]_ledgerVars
  <1>1. LaneProgram'
    BY DEF LaneProgram, DInv
  <1>2. ReplayType' /\ GroupsKept
    BY DEF ReplayType, GroupsKept, DInv, DeliveryTypeOK
  <1>3. lane'.at # "check" /\ lane'.by # "cohort" /\ NoWaiter'
    BY DEF NoWaiter
  <1> QED BY <1>1, <1>2, <1>3, PassMoves

\* The end of a pass, however it ends.
LEMMA PassLeaves ==
    ASSUME DInv, LedgerQuiet, UNCHANGED <<age, tick, transport>>, faults' \in 0..MaxFaults,
           lane.by = "replay", NoWaiter, NEW again \in BOOLEAN, PassDone(again), lane' = Free
    PROVE  DInv' /\ [LedgerNext]_ledgerVars
  <1>1. LaneProgram'
    BY DEF LaneProgram, Free, PassDone
  <1>2. ReplayType' /\ GroupsKept
    BY DEF ReplayType, GroupsKept, PassDone
  <1>3. Members = {} /\ Members' = {}
    BY DEF Members, Free
  <1>4. \A f \in Fires : ~Waits(f) /\ ~Waits(f)'
    BY DEF NoWaiter, Waits, Free
  <1>5. TypesRest' /\ TickType' /\ tick.claimed' \subseteq tick.claimed /\ turn' = turn /\ pastes' = pastes
    BY DEF TypesRest, TickType, DInv, DeliveryTypeOK, transport
  <1>6. lane' \in Lane /\ lane'.at # "check"
    BY FreeIsLane DEF Free
  <1> QED BY <1>1, <1>2, <1>3, <1>4, <1>5, <1>6, QuietStep

\* A pass of the replay ends: the lane is free, and another pass may be owed.
LEMMA EndPassInv ==
    ASSUME DInv, UNCHANGED <<age, faults, tick, transport>>, lane.by = "replay", NoWaiter,
           NEW confirmed \in BOOLEAN, EndPass(confirmed)
    PROVE  DInv' /\ [LedgerNext]_ledgerVars
  <1> DEFINE again == replay.again \/ (confirmed /\ Debt(ledger'))
  <1>1. LedgerQuiet
    BY DEF EndPass, LedgerQuiet
  <1>2. PassDone(again) /\ lane' = Free
    BY DEF EndPass
  <1>3. again \in BOOLEAN
    OBVIOUS
  <1>4. faults' \in 0..MaxFaults
    BY DEF DInv, DeliveryTypeOK
  <1> HIDE DEF again
  <1> QED BY <1>1, <1>2, <1>3, <1>4, PassLeaves

\* What a stage of the pass knows of the lane.
LEMMA PassHolds ==
    ASSUME DInv, lane.at \in {"settle", "probe", "park", "plan", "collapse", "deliver"}
    PROVE  lane.by = "replay" /\ NoWaiter /\ lane \in Lane
  BY DEF DInv, LaneProgram, NoWaiter, DeliveryTypeOK

\* Changes of the lane's fields.
LEMMA LaneTodo ==
    ASSUME lane \in Lane, NEW todo \in SUBSET Fires, NEW l, l = [lane EXCEPT !.todo = todo]
    PROVE  l \in Lane /\ l.by = lane.by /\ l.at = lane.at /\ l.todo = todo
  BY DEF Lane

\* Moving the lane to another stage leaves it a lane of the same holder.
LEMMA LaneAt ==
    ASSUME lane \in Lane, NEW at \in Stage, NEW l, l = [lane EXCEPT !.at = at]
    PROVE  l \in Lane /\ l.by = lane.by /\ l.at = at /\ l.todo = lane.todo
  BY DEF Lane

\* Lost pastes are settled, and other rows passed over.
LEMMA SettleInv ==
    ASSUME DInv, SettleLost \/ SettleSkip
    PROVE  DInv' /\ [LedgerNext]_ledgerVars
  <1>1. lane.at = "settle"
    BY DEF SettleLost, SettleSkip
  <1>2. lane.by = "replay" /\ NoWaiter /\ lane \in Lane /\ lane.todo \in SUBSET Fires
    BY <1>1, PassHolds DEF Lane
  <1>3. UNCHANGED <<age, faults, tick, groups, replay, transport>>
    BY DEF SettleLost, SettleSkip
  <1>4. LedgerQuiet
    BY <1>2 DEF SettleLost, SettleSkip, LedgerQuiet, Settling
  <1>5. lane' \in Lane /\ lane'.by = "replay" /\ lane'.at \in {"settle", "probe"}
    <2>1. \/ \E f \in Fires : lane' = [lane EXCEPT !.todo = lane.todo \ {f}]
          \/ lane' = [lane EXCEPT !.at = "probe"]
      <3>1. CASE SettleLost
        BY <1>2, <3>1 DEF SettleLost
      <3>2. CASE SettleSkip
        BY <1>2, <3>2, MinIsFire DEF SettleSkip
      <3> QED BY <3>1, <3>2
    <2>2. CASE lane' = [lane EXCEPT !.at = "probe"]
      BY <1>2, <2>2, LaneAt DEF Stage
    <2>3. CASE \E f \in Fires : lane' = [lane EXCEPT !.todo = lane.todo \ {f}]
      <3>1. PICK f \in Fires : lane' = [lane EXCEPT !.todo = lane.todo \ {f}]
        BY <2>3
      <3> DEFINE todo == lane.todo \ {f}
      <3>2. todo \in SUBSET Fires
        BY <1>2
      <3> QED BY <1>1, <1>2, <3>1, <3>2, LaneTodo
    <2> QED BY <2>1, <2>2, <2>3
  <1> QED BY <1>2, <1>3, <1>4, <1>5, PassStays

\* The probe of a busy or an idle agent.
LEMMA ProbeInv ==
    ASSUME DInv, ProbeBusy \/ ParkDone \/ ProbeDue \/ ProbeIdle \/ \E f \in Fires : ParkForDrain(f)
    PROVE  DInv' /\ [LedgerNext]_ledgerVars
  <1>1. lane.at \in {"probe", "park"}
    BY DEF ProbeBusy, ParkDone, ProbeDue, ProbeIdle, ParkForDrain
  <1>2. lane.by = "replay" /\ NoWaiter /\ lane \in Lane
    BY <1>1, PassHolds
  <1>3. CASE ProbeBusy \/ ParkDone
    BY <1>2, <1>3, EndPassInv DEF ProbeBusy, ParkDone
  <1>4. CASE ProbeDue \/ ProbeIdle
    <2>1. PICK todo \in SUBSET Fires :
             /\ lane' = [lane EXCEPT !.at = "plan", !.todo = todo]
             /\ \A f \in todo : Listed(f)
      <3>1. CASE ProbeDue
        <4> DEFINE todo == {f \in Fires : Listed(f) /\ age[f] > 0}
        <4>1. todo \in SUBSET Fires /\ \A f \in todo : Listed(f)
          OBVIOUS
        <4>2. lane' = [lane EXCEPT !.at = "plan", !.todo = todo]
          BY <3>1 DEF ProbeDue
        <4> QED BY <4>1, <4>2
      <3>2. CASE ProbeIdle
        <4> DEFINE todo == {f \in Fires : Listed(f)}
        <4>1. todo \in SUBSET Fires /\ \A f \in todo : Listed(f)
          OBVIOUS
        <4>2. lane' = [lane EXCEPT !.at = "plan", !.todo = todo]
          BY <3>2 DEF ProbeIdle
        <4> QED BY <4>1, <4>2
      <3> QED BY <1>4, <3>1, <3>2
    <2>2. LedgerQuiet
      BY <1>4 DEF ProbeDue, ProbeIdle, LedgerQuiet
    <2>3. UNCHANGED <<age, faults, tick, groups, replay, transport>>
      BY <1>4 DEF ProbeDue, ProbeIdle
    <2>4. lane' \in Lane /\ lane'.by = "replay" /\ lane'.at = "plan" /\ lane'.todo = todo
      BY <1>2, <2>1 DEF Lane, Stage
    <2>5. \A f \in lane'.todo : Stored(f)' /\ ledger'[f].pasted = NoSession
      BY <2>1, <2>2, <2>4, QuietKeeps DEF DInv, RowsKept, RowKept, Listed
    <2> QED BY <1>2, <2>2, <2>3, <2>4, <2>5, PassStays
  <1>5. ASSUME NEW f \in Fires, ParkForDrain(f)
        PROVE  DInv' /\ [LedgerNext]_ledgerVars
    <2>1. /\ LedgerQuiet /\ lane' = [lane EXCEPT !.at = "park"]
          /\ UNCHANGED <<age, faults, tick, groups, replay, transport>>
      BY <1>5 DEF ParkForDrain, LedgerQuiet, Settling
    <2>2. lane' \in Lane /\ lane'.by = "replay" /\ lane'.at = "park"
      BY <1>2, <2>1, LaneAt DEF Stage
    <2> QED BY <1>2, <2>1, <2>2, PassStays
  <1> QED BY <1>3, <1>4, <1>5

\* One row is written or dropped while nobody waits and no turn of it is open.
LEMMA RowRewritten ==
    ASSUME DInv, NEW f \in Fires, clock' = clock, \A g \in Fires : g # f => RowKept(g),
           turn' = turn, pastes' = pastes, turn[f] = "none", NoWaiter, NoWaiter',
           \A g \in Fires : InHand(g)' => InHand(g),
           pastes[f] # 0 => ledger'[f].pasted # NoSession \/ (~Stored(f)' /\ ~InHand(f)')
    PROVE  TurnInv'
  <1> USE DEF DInv, TurnInv
  <1>1. TurnsAreOwed'
    <2> SUFFICES ASSUME NEW g \in Fires, turn'[g] # "none"
                 PROVE  /\ Stored(g)'
                        /\ InPane(g)' => ledger'[g].pasted # NoSession
                        /\ Unsettled(g)' \/ ledger'[g].pasted = NoSession => Waits(g)'
      BY DEF TurnsAreOwed
    <2>1. RowKept(g)
      OBVIOUS
    <2>2. /\ Stored(g)
          /\ InPane(g) => ledger[g].pasted # NoSession
          /\ Unsettled(g) \/ ledger[g].pasted = NoSession => Waits(g)
      BY DEF TurnsAreOwed
    <2>3. ~Waits(g)
      BY DEF NoWaiter, Waits
    <2>4. Stored(g)' /\ ledger'[g].pasted = ledger[g].pasted /\ ~Unsettled(g)'
      BY <2>1, <2>2, <2>3 DEF RowKept
    <2>5. InPane(g)' => ledger'[g].pasted # NoSession
      BY <2>2, <2>4 DEF InPane
    <2> QED BY <2>2, <2>3, <2>4, <2>5
  <1>2. OnePane'
    BY DEF OnePane, InPane
  <1>3. PasteSpent'
    <2> SUFFICES ASSUME NEW g \in Fires, pastes'[g] # 0
                 PROVE  /\ pastes'[g] = 1 /\ turn'[g] # "marked" /\ g <= clock'
                        /\ ledger'[g].pasted # NoSession \/ (~Stored(g)' /\ ~InHand(g)')
      BY DEF PasteSpent
    <2>1. /\ pastes[g] = 1 /\ turn[g] # "marked" /\ g <= clock
          /\ ledger[g].pasted # NoSession \/ (~Stored(g) /\ ~InHand(g))
      BY DEF PasteSpent
    <2>2. CASE g = f
      BY <2>1, <2>2
    <2>3. CASE g # f
      BY <2>1, <2>3 DEF RowKept
    <2> QED BY <2>2, <2>3
  <1>4. WaiterHasTurn'
    BY DEF WaiterHasTurn, Waits, NoWaiter
  <1> QED BY <1>1, <1>2, <1>3, <1>4

\* A row of the active outbox has no open turn while nobody waits.
LEMMA OwedHasNoTurn ==
    ASSUME DInv, NoWaiter, NEW f \in Fires, Unsettled(f)
    PROVE  turn[f] = "none"
  BY DEF DInv, TurnInv, TurnsAreOwed, NoWaiter, Waits

\* The pass drops a stale row, which was never pasted.
LEMMA PlanDrops ==
    ASSUME DInv, lane.at = "plan", NEW f \in lane.todo, DeleteStale(f),
           lane' = [lane EXCEPT !.todo = @ \ {f}],
           UNCHANGED <<age, faults, tick, groups, replay, transport>>
    PROVE  DInv' /\ [LedgerNext]_ledgerVars
  <1>1. lane.by = "replay" /\ NoWaiter /\ lane \in Lane
    BY PassHolds
  <1>2. f \in Fires /\ lane.todo \ {f} \in SUBSET Fires
    BY <1>1 DEF Lane
  <1>3. /\ lane' \in Lane /\ lane'.by = "replay" /\ lane'.at = "plan"
        /\ lane'.todo = lane.todo \ {f}
    BY <1>1, <1>2, LaneTodo
  <1>4. /\ [LedgerNext]_ledgerVars /\ LInv' /\ clock' = clock /\ Unsettled(f)
        /\ ~Stored(f)' /\ ledger'[f].pasted = NoSession
        /\ \A g \in Fires : g # f => RowKept(g)
    BY <1>2, DeleteKeeps DEF DInv
  <1>5. \A g \in lane.todo : g \in Fires /\ Stored(g) /\ ledger[g].pasted = NoSession
    BY <1>1 DEF DInv, LaneProgram, Lane
  <1>6. LaneProgram'
    <2>1. \A g \in lane'.todo : Stored(g)' /\ ledger'[g].pasted = NoSession
      BY <1>3, <1>4, <1>5 DEF RowKept
    <2> QED BY <1>1, <1>3, <2>1 DEF DInv, LaneProgram
  <1>7. Members = {} /\ Members' = {} /\ NoWaiter'
    BY <1>1, <1>3 DEF Members, NoWaiter
  <1>8. Carriers' /\ GroupType' /\ \A g \in Fires : InHand(g)' => InHand(g)
    BY <1>3, <1>4, <1>7, CarriersFrame DEF GroupsKept
  <1>9. turn' = turn /\ pastes' = pastes
    BY DEF transport
  <1>10. turn[f] = "none" /\ pastes[f] = 0
    <2>1. Stored(f) /\ ledger[f].pasted = NoSession
      BY <1>5
    <2> QED BY <1>1, <1>2, <1>4, <2>1, OwedHasNoTurn DEF DInv, TurnInv, PasteSpent
  <1>11. TurnInv'
    BY <1>1, <1>2, <1>4, <1>7, <1>8, <1>9, <1>10, RowRewritten
  <1>12. TypesRest' /\ TickType' /\ ReplayType' /\ TurnType'
    BY <1>9 DEF TypesRest, TickType, ReplayType, TurnType, DInv, DeliveryTypeOK, transport
  <1>13. DeliveryTypeOK'
    BY <1>3, <1>6, <1>8, <1>12, TypesInParts
  <1> QED BY <1>4, <1>6, <1>8, <1>11, <1>13 DEF DInv

\* The policy of one row.
LEMMA PlanRowInv ==
    ASSUME DInv, PlanRow
    PROVE  DInv' /\ [LedgerNext]_ledgerVars
  <1> DEFINE f == Min(lane.todo)
  <1>1. lane.at = "plan" /\ lane.todo # {} /\ UNCHANGED <<age, faults, tick, groups, replay, transport>>
    BY DEF PlanRow
  <1>2. lane.by = "replay" /\ NoWaiter /\ lane \in Lane
    BY <1>1, PassHolds
  <1>3. lane.todo \in SUBSET Fires /\ lane.keep \in SUBSET Fires
    BY <1>2 DEF Lane
  <1>4. f \in lane.todo /\ f \in Fires
    BY <1>1, <1>3, MinIsFire
  <1>5. \A g \in lane.todo : Stored(g) /\ ledger[g].pasted = NoSession
    BY <1>1 DEF DInv, LaneProgram
  <1>6. \/ LedgerQuiet /\ lane' = [lane EXCEPT !.todo = @ \ {f}]
        \/ LedgerQuiet /\ lane' = [[lane EXCEPT !.todo = @ \ {f}] EXCEPT !.keep = @ \cup {f}]
        \/ DeleteStale(f) /\ lane' = [lane EXCEPT !.todo = @ \ {f}]
    BY <1>4 DEF PlanRow, LedgerQuiet, Settling
  <1> HIDE DEF f
  <1>7. ASSUME LedgerQuiet, lane' \in Lane, lane'.by = lane.by, lane'.at = lane.at,
               lane'.todo = lane.todo \ {f}
        PROVE  DInv' /\ [LedgerNext]_ledgerVars
    <2>1. \A g \in lane'.todo : Stored(g)' /\ ledger'[g].pasted = NoSession
      BY <1>3, <1>5, <1>7, QuietKeeps DEF DInv, RowsKept, RowKept
    <2> QED BY <1>1, <1>2, <1>7, <2>1, PassStays
  <1>8. CASE LedgerQuiet /\ lane' = [lane EXCEPT !.todo = @ \ {f}]
    <2>1. lane.todo \ {f} \in SUBSET Fires
      BY <1>3
    <2> QED BY <1>2, <1>7, <1>8, <2>1, LaneTodo
  <1>9. CASE LedgerQuiet /\ lane' = [[lane EXCEPT !.todo = @ \ {f}] EXCEPT !.keep = @ \cup {f}]
    <2>1. /\ lane.todo \ {f} \in SUBSET Fires /\ lane.keep \cup {f} \in SUBSET Fires
          /\ lane' = [lane EXCEPT !.todo = lane.todo \ {f}, !.keep = lane.keep \cup {f}]
      BY <1>2, <1>3, <1>4, <1>9 DEF Lane
    <2>2. /\ lane' \in Lane /\ lane'.by = lane.by /\ lane'.at = lane.at
          /\ lane'.todo = lane.todo \ {f}
      BY <1>2, <2>1 DEF Lane
    <2> QED BY <1>7, <1>9, <2>2
  <1>10. CASE DeleteStale(f) /\ lane' = [lane EXCEPT !.todo = @ \ {f}]
    BY <1>1, <1>4, <1>10, PlanDrops
  <1> QED BY <1>6, <1>8, <1>9, <1>10

\* The collapse of recurrences.
LEMMA CollapseInv ==
    ASSUME DInv, PlanDone \/ Collapse \/ CollapseDone
    PROVE  DInv' /\ [LedgerNext]_ledgerVars
  <1>1. lane.at \in {"plan", "collapse"} /\ UNCHANGED <<age, faults, tick, groups, replay, transport>>
    BY DEF PlanDone, Collapse, CollapseDone
  <1>2. lane.by = "replay" /\ NoWaiter /\ lane \in Lane
    BY <1>1, PassHolds
  <1>3. lane.todo \in SUBSET Fires /\ lane.keep \in SUBSET Fires
    BY <1>2 DEF Lane
  <1>4. ASSUME LedgerQuiet, lane' \in Lane, lane'.by = lane.by, lane'.at \in {"collapse", "deliver"}
        PROVE  DInv' /\ [LedgerNext]_ledgerVars
    BY <1>1, <1>2, <1>4, PassStays
  <1>5. CASE PlanDone
    <2>1. LedgerQuiet
      BY <1>5 DEF PlanDone, LedgerQuiet
    <2>2. lane' \in Lane /\ lane'.by = lane.by /\ lane'.at = "collapse"
      BY <1>2, <1>3, <1>5 DEF Lane, Stage, PlanDone
    <2> QED BY <1>4, <2>1, <2>2
  <1>6. CASE CollapseDone
    <2>1. LedgerQuiet
      BY <1>6 DEF CollapseDone, LedgerQuiet
    <2>2. lane' \in Lane /\ lane'.by = lane.by /\ lane'.at = "deliver"
      BY <1>2, <1>3, <1>6 DEF Lane, Stage, CollapseDone
    <2> QED BY <1>4, <2>1, <2>2
  <1>7. CASE Collapse
    <2> DEFINE f == Min(lane.todo)
    <2>1. f \in lane.todo /\ f \in Fires /\ lane.at = "collapse"
      BY <1>3, <1>7, MinIsFire DEF Collapse
    <2>2. /\ LedgerQuiet
          /\ \/ lane' = [lane EXCEPT !.todo = @ \ {f}]
             \/ lane' = [lane EXCEPT !.todo = @ \ {f}, !.keep = @ \ {f}]
      BY <1>7, <2>1 DEF Collapse, LedgerQuiet, Settling
    <2> HIDE DEF f
    <2>3. lane.todo \ {f} \in SUBSET Fires /\ lane.keep \ {f} \in SUBSET Fires
      BY <1>3
    <2>4. lane' \in Lane /\ lane'.by = lane.by /\ lane'.at = lane.at
      BY <1>2, <2>2, <2>3 DEF Lane
    <2> QED BY <1>4, <2>1, <2>2, <2>4
  <1> QED BY <1>5, <1>6, <1>7

\* The delivery loop.
LEMMA DeliverInv ==
    ASSUME DInv, DeliverNext \/ DeliverDone \/ PassFails
    PROVE  DInv' /\ [LedgerNext]_ledgerVars
  <1>1. lane.at = "deliver"
    BY DEF DeliverNext, DeliverDone, PassFails
  <1>2. lane.by = "replay" /\ NoWaiter /\ lane \in Lane
    BY <1>1, PassHolds
  <1>3. lane.todo \in SUBSET Fires /\ lane.any \in BOOLEAN
    BY <1>2 DEF Lane
  <1>4. CASE DeliverDone
    BY <1>2, <1>3, <1>4, EndPassInv DEF DeliverDone
  <1>5. CASE PassFails
    <2>1. faults' \in 0..MaxFaults /\ LedgerQuiet
      BY <1>5, FaultsAssumption DEF PassFails, DInv, DeliveryTypeOK, LedgerQuiet
    <2> QED BY <1>2, <1>5, <2>1, PassLeaves DEF PassFails
  <1>6. CASE DeliverNext
    <2> DEFINE f == Min(lane.todo)
    <2>1. f \in lane.todo /\ f \in Fires /\ UNCHANGED <<age, faults, tick, groups, replay, transport>>
      BY <1>3, <1>6, MinIsFire DEF DeliverNext
    <2>2. \/ LedgerQuiet /\ lane' = [lane EXCEPT !.todo = {}]
          \/ LedgerQuiet /\ lane' = [lane EXCEPT !.todo = @ \ {f}]
          \/ /\ IncrementAttempts(f)
             /\ lane' = [lane EXCEPT !.todo = @ \ {f}, !.at = "send", !.fire = f, !.answer = "open"]
      BY <1>6, <2>1 DEF DeliverNext, LedgerQuiet, Settling
    <2> HIDE DEF f
    <2>3. CASE \/ LedgerQuiet /\ lane' = [lane EXCEPT !.todo = {}]
               \/ LedgerQuiet /\ lane' = [lane EXCEPT !.todo = @ \ {f}]
      <3>1. lane.todo \ {f} \in SUBSET Fires /\ {} \in SUBSET Fires
        BY <1>3
      <3>2. lane' \in Lane /\ lane'.by = lane.by /\ lane'.at = lane.at
        BY <1>2, <2>3, <3>1, LaneTodo
      <3> QED BY <1>1, <1>2, <2>1, <2>3, <3>2, PassStays
    <2>4. CASE /\ IncrementAttempts(f)
               /\ lane' = [lane EXCEPT !.todo = @ \ {f}, !.at = "send", !.fire = f, !.answer = "open"]
      <3>1. LedgerQuiet /\ Stored(f)
        BY <2>1, <2>4 DEF LedgerQuiet, Settling, IncrementAttempts, Active, Unsettled
      <3>2. RowsKept /\ clock \in Nat /\ f \in 1..clock
        <4>1. RowsKept
          BY <3>1, QuietKeeps DEF DInv
        <4>2. clock \in Nat /\ f \in 1..MaxFires /\ ~(f > clock)
          BY <2>1, <3>1, FiresAssumption
             DEF DInv, LInv, LedgerTypeOK, RowsAreClaimed, Stored, Fires
        <4> QED BY <4>1, <4>2
      <3>3. /\ lane' \in Lane /\ lane'.by = "replay" /\ lane'.at = "send" /\ lane'.fire = f
        <4>1. f \in 0..MaxFires /\ lane.todo \ {f} \in SUBSET Fires
          BY <1>3, <2>1 DEF Fires
        <4> QED BY <1>2, <2>4, <4>1 DEF Lane, Stage
      <3>4. LaneProgram'
        BY <1>2, <2>1, <3>1, <3>2, <3>3 DEF LaneProgram, DInv, RowsKept, RowKept
      <3>5. ReplayType' /\ GroupsKept /\ NoWaiter'
        BY <2>1, <3>3 DEF ReplayType, DInv, DeliveryTypeOK, GroupsKept, NoWaiter
      <3> QED BY <1>2, <2>1, <3>1, <3>3, <3>4, <3>5, PassMoves
    <2> QED BY <2>2, <2>3, <2>4
  <1> QED BY <1>4, <1>5, <1>6

\* The pass gets the lock, and what it does with the end of a wait.
LEMMA ReplayTakeInv ==
    ASSUME DInv, ReplayTake
    PROVE  DInv' /\ [LedgerNext]_ledgerVars
  <1>1. /\ lane.by = "nobody" /\ lane.at = "free"
        /\ lane' = [Free EXCEPT !.by = "replay", !.at = "settle", !.todo = 1..clock]
        /\ replay' = [replay EXCEPT !.task = "running"]
        /\ UNCHANGED <<ledgerVars, age, faults, tick, groups, transport>>
    BY DEF ReplayTake, DInv, LaneProgram
  <1>2. LedgerQuiet /\ GroupsKept
    BY <1>1 DEF LedgerQuiet, GroupsKept
  <1>3. lane' \in Lane /\ lane'.by = "replay" /\ lane'.at = "settle"
    <2>1. 1..clock \in SUBSET Fires
      BY FiresAssumption DEF Fires, DInv, LInv, LedgerTypeOK
    <2> QED BY <1>1, <2>1, FreeIsLane DEF Lane, Stage, Free
  <1>4. replay'.task = "running" /\ ReplayType'
    BY <1>1 DEF ReplayType, DInv, DeliveryTypeOK
  <1>5. LaneProgram'
    BY <1>3, <1>4 DEF LaneProgram
  <1>6. Members = {} /\ Members' = {}
    BY <1>1, <1>3 DEF Members
  <1>7. \A f \in Fires : ~Waits(f) /\ ~Waits(f)'
    BY <1>1, <1>3 DEF Waits
  <1>8. TypesRest' /\ TickType' /\ tick.claimed' \subseteq tick.claimed /\ turn' = turn /\ pastes' = pastes
    BY <1>1 DEF TypesRest, TickType, DInv, DeliveryTypeOK, transport
  <1> QED BY <1>2, <1>3, <1>4, <1>5, <1>6, <1>7, <1>8, QuietStep

\* The lane's own fire is a fire.
LEMMA LaneFire ==
    ASSUME DInv, lane.at \in {"check", "send", "wait"}
    PROVE  lane.fire \in Fires /\ lane.fire \in 1..clock /\ clock \in 0..MaxFires
  BY FiresAssumption DEF DInv, LaneProgram, LInv, LedgerTypeOK, Fires

\* The replay learns whether the row it pasted was submitted.
LEMMA ReplayReceiptInv ==
    ASSUME DInv, ReplayConfirmed \/ ReplayUndelivered
    PROVE  DInv' /\ [LedgerNext]_ledgerVars
  <1>1. /\ lane.by = "replay" /\ lane.at = "wait" /\ NoWaiter
        /\ UNCHANGED <<age, faults, tick, groups, replay, transport>>
    BY DEF ReplayConfirmed, ReplayUndelivered, NoWaiter
  <1>2. lane.fire \in Fires
    BY <1>1, LaneFire
  <1>3. LedgerQuiet
    <2>1. CASE ReplayConfirmed
      BY <1>2, <2>1 DEF ReplayConfirmed, LedgerQuiet, Settling
    <2>2. CASE ReplayUndelivered
      BY <1>2, <2>2 DEF ReplayUndelivered, LedgerQuiet, Settling
    <2> QED BY <2>1, <2>2
  <1>4. lane' \in Lane /\ lane'.by = "replay" /\ lane'.at = "deliver"
    <2>1. lane.todo \in SUBSET Fires /\ lane.any \in BOOLEAN
      BY DEF DInv, DeliveryTypeOK, Lane
    <2>2. CASE ReplayConfirmed
      BY <2>1, <2>2, FreeIsLane DEF ReplayConfirmed, Lane, Stage, Free
    <2>3. CASE ReplayUndelivered
      BY <2>1, <2>3, FreeIsLane DEF ReplayUndelivered, StopPass, Lane, Stage, Free
    <2> QED BY <2>2, <2>3
  <1> QED BY <1>1, <1>3, <1>4, PassStays

-----------------------------------------------------------------------------
(* Steps that leave the lane and the turns alone.                            *)

\* The lane is where it was; a request for a pass may have been added.
LEMMA LaneKept ==
    ASSUME DInv, RowsKept, lane' = lane, ReplayType',
           replay'.task = "running" <=> replay.task = "running"
    PROVE  LaneProgram'
  <1>1. \A f \in Fires : RowKept(f)
    BY DEF RowsKept
  <1>2. lane.at \in {"send", "wait"} => lane.fire \in Fires
    BY LaneFire
  <1>3. lane.todo \in SUBSET Fires
    BY DEF DInv, DeliveryTypeOK, Lane
  <1>4. lane.at = "plan" => \A f \in lane.todo : Stored(f)' /\ ledger'[f].pasted = NoSession
    BY <1>1, <1>3 DEF RowKept, DInv, LaneProgram
  <1>5. lane.at \in {"send", "wait"} => Stored(lane.fire)'
    BY <1>1, <1>2 DEF RowKept, DInv, LaneProgram
  <1> QED BY <1>4, <1>5 DEF DInv, LaneProgram, RowsKept

\* Steps beside the lane: the tick claims fewer rows, or time passes.
LEMMA Asides ==
    ASSUME DInv, LedgerQuiet, TypesRest', TickType', tick.claimed' \subseteq tick.claimed,
           UNCHANGED <<groups, replay, lane, turn, pastes>>
    PROVE  DInv' /\ [LedgerNext]_ledgerVars
  <1>1. ReplayType' /\ GroupsKept /\ lane' \in Lane
    BY DEF ReplayType, GroupsKept, DInv, DeliveryTypeOK
  <1>2. LaneProgram'
    BY <1>1, QuietKeeps, LaneKept DEF DInv
  <1>3. Members' = Members /\ (lane'.at = "check" => lane'.fire \notin lane'.todo)
    BY DEF Members, DInv, Carriers
  <1>4. \A f \in Fires : Waits(f)' <=> Waits(f)
    BY DEF Waits
  <1> QED BY <1>1, <1>2, <1>3, <1>4, QuietStep

\* Time, operators, the reaper, a one-shot disabled, a new pane.
LEMMA AsidesInv ==
    ASSUME DInv,
           \/ TickDisable \/ Operator
           \/ \E f \in Fires : GrowOld(f) \/ Reap(f)
           \/ \E g \in Sessions : SessionUp(g)
    PROVE  DInv' /\ [LedgerNext]_ledgerVars
  <1> USE DEF DInv, DeliveryTypeOK
  <1>1. CASE TickDisable
    <2>1. tick.disable \in Schedules
      BY <1>1 DEF TickDisable
    <2>2. LedgerQuiet
      BY <1>1, <2>1 DEF TickDisable, LedgerQuiet
    <2>3. TypesRest' /\ TickType' /\ tick.claimed' \subseteq tick.claimed
      BY <1>1 DEF TickDisable, TypesRest, TickType, transport
    <2> QED BY <1>1, <2>2, <2>3, Asides DEF TickDisable, transport
  <1>2. CASE Operator
    <2>1. LedgerQuiet
      BY <1>2 DEF Operator, LedgerQuiet, Settling
    <2>2. TypesRest' /\ TickType' /\ tick.claimed' \subseteq tick.claimed
      BY <1>2, FaultsAssumption DEF Operator, TypesRest, TickType, tasks, transport
    <2> QED BY <1>2, <2>1, <2>2, Asides DEF Operator, tasks, transport
  <1>3. ASSUME NEW f \in Fires, GrowOld(f)
        PROVE  DInv' /\ [LedgerNext]_ledgerVars
    <2>1. LedgerQuiet
      BY <1>3 DEF GrowOld, LedgerQuiet
    <2>2. age' \in [Fires -> 0..2]
      BY <1>3 DEF GrowOld
    <2>3. TypesRest' /\ TickType' /\ tick.claimed' \subseteq tick.claimed
      BY <1>3, <2>2 DEF GrowOld, TypesRest, TickType, tasks, transport
    <2> QED BY <1>3, <2>1, <2>3, Asides DEF GrowOld, tasks, transport
  <1>4. ASSUME NEW f \in Fires, Reap(f)
        PROVE  DInv' /\ [LedgerNext]_ledgerVars
    <2>1. LedgerQuiet
      BY <1>4 DEF Reap, LedgerQuiet, Settling
    <2>2. TypesRest' /\ TickType' /\ tick.claimed' \subseteq tick.claimed
      BY <1>4 DEF Reap, TypesRest, TickType, tasks, transport
    <2> QED BY <1>4, <2>1, <2>2, Asides DEF Reap, tasks, transport
  <1>5. ASSUME NEW g \in Sessions, SessionUp(g)
        PROVE  DInv' /\ [LedgerNext]_ledgerVars
    <2>1. LedgerQuiet
      BY <1>5 DEF SessionUp, LedgerQuiet
    <2>2. TypesRest' /\ TickType' /\ tick.claimed' \subseteq tick.claimed
      BY <1>5 DEF SessionUp, TypesRest, TickType, tasks, transport
    <2> QED BY <1>5, <2>1, <2>2, Asides DEF SessionUp, tasks, transport
  <1> QED BY <1>1, <1>2, <1>3, <1>4, <1>5

\* A request for a pass does not change who runs.
LEMMA RequestedType ==
    ASSUME ReplayType, replay' = Requested
    PROVE  ReplayType' /\ (replay'.task = "running" <=> replay.task = "running")
  BY DEF ReplayType, Requested

\* A request for a replay starts a task, or asks the running one to go again.
LEMMA TriggerInv ==
    ASSUME DInv, Trigger
    PROVE  DInv' /\ [LedgerNext]_ledgerVars
  <1>1. /\ replay' = Requested
        /\ UNCHANGED <<ledgerVars, age, faults, tick, groups, lane, transport>>
    BY DEF Trigger
  <1>2. LedgerQuiet /\ GroupsKept /\ lane' \in Lane
    BY <1>1 DEF LedgerQuiet, GroupsKept, DInv, DeliveryTypeOK
  <1>3. ReplayType' /\ (replay'.task = "running" <=> replay.task = "running")
    BY <1>1, RequestedType DEF ReplayType, DInv, DeliveryTypeOK
  <1>4. LaneProgram'
    BY <1>1, <1>2, <1>3, QuietKeeps, LaneKept DEF DInv
  <1>5. Members' = Members /\ (lane'.at = "check" => lane'.fire \notin lane'.todo)
    BY <1>1 DEF Members, DInv, Carriers
  <1>6. \A f \in Fires : Waits(f)' <=> Waits(f)
    BY <1>1 DEF Waits
  <1>7. TypesRest' /\ TickType' /\ tick.claimed' \subseteq tick.claimed /\ turn' = turn /\ pastes' = pastes
    BY <1>1 DEF TypesRest, TickType, DInv, DeliveryTypeOK, transport
  <1> QED BY <1>2, <1>3, <1>4, <1>5, <1>6, <1>7, QuietStep

-----------------------------------------------------------------------------
(* The cron tick and the cohorts.                                            *)

\* A claim: the fire is new, so nobody carries it, waits for it or pasted it.
LEMMA TickClaimInv ==
    ASSUME DInv, NEW s \in Schedules, TickClaim(s)
    PROVE  DInv' /\ [LedgerNext]_ledgerVars
  <1> DEFINE n == clock + 1
  <1>1. /\ [LedgerNext]_ledgerVars /\ LInv'
        /\ clock \in Nat /\ clock' = n /\ n \in Fires
        /\ ~Stored(n)
        /\ \A f \in Fires : f # n => RowKept(f)
    BY ClaimKeeps DEF TickClaim, DInv
  <1>2. UNCHANGED <<age, faults, groups, replay, lane, transport>> /\ lane.at # "plan"
    BY DEF TickClaim, Running
  <1>3. tick'.claimed = tick.claimed \cup {n} /\ tick'.disable \in Schedules \cup {NoSchedule}
    BY DEF TickClaim
  <1>4. \A f \in 1..clock : f # n /\ f \in 1..clock'
    BY <1>1
  <1>t. TickType
    BY DEF DInv, DeliveryTypeOK, TickType
  <1>5. LaneProgram'
    <2>1. lane'.at \in {"send", "wait"} => Stored(lane.fire)'
      <3> SUFFICES ASSUME lane.at \in {"send", "wait"} PROVE Stored(lane.fire)'
        BY <1>2
      <3>1. lane.fire \in Fires /\ lane.fire # n
        BY <1>4, LaneFire
      <3>2. Stored(lane.fire) /\ lane' = lane
        BY <1>2 DEF DInv, LaneProgram
      <3> QED BY <1>1, <3>1, <3>2 DEF RowKept, Stored
    <2>2. lane.at \in {"check", "send", "wait"} => lane.fire \in 1..clock'
      BY <1>4, LaneFire
    <2> QED BY <1>2, <2>1, <2>2 DEF DInv, LaneProgram
  <1>6. Members' = Members
    BY <1>2 DEF Members
  <1>7. Carriers'
    <2>1. Carriers
      BY DEF DInv
    <2>2. n \notin 1..clock /\ n \in 1..clock'
      BY <1>1
    <2> HIDE DEF n
    <2>3. tick'.claimed \subseteq 1..clock' /\ Members' \subseteq 1..clock'
      BY <1>3, <1>4, <1>6, <2>1, <2>2 DEF Carriers
    <2>4. tick'.claimed \cap Members' = {}
      BY <1>3, <1>6, <2>1, <2>2 DEF Carriers
    <2>5. \A g \in groups' : /\ g.fires \subseteq 1..clock'
                             /\ g.fires \cap tick'.claimed = {} /\ g.fires \cap Members' = {}
      BY <1>2, <1>3, <1>4, <1>6, <2>1, <2>2 DEF Carriers
    <2> QED BY <1>2, <2>1, <2>3, <2>4, <2>5 DEF Carriers
  <1>8. turn[n] = "none" /\ pastes[n] = 0
    <2>1. turn[n] = "none"
      BY <1>1 DEF DInv, TurnInv, TurnsAreOwed
    <2>2. ~(n <= clock)
      BY <1>1
    <2> QED BY <1>1, <2>1, <2>2 DEF DInv, TurnInv, PasteSpent
  <1>9. TurnInv'
    <2>1. /\ turn' = turn /\ pastes' = pastes /\ lane' = lane /\ groups' = groups
          /\ \A f \in Fires : Waits(f)' <=> Waits(f)
      BY <1>2 DEF transport, Waits
    <2>2. TurnsAreOwed'
      <3> SUFFICES ASSUME NEW g \in Fires, turn'[g] # "none"
                   PROVE  /\ Stored(g)'
                          /\ InPane(g)' => ledger'[g].pasted # NoSession
                          /\ Unsettled(g)' \/ ledger'[g].pasted = NoSession => Waits(g)'
        BY DEF TurnsAreOwed
      <3>1. g # n /\ turn[g] # "none"
        BY <1>8, <2>1
      <3>2. Stored(g)' = Stored(g) /\ ledger'[g].pasted = ledger[g].pasted /\ (Unsettled(g)' => Unsettled(g))
        BY <1>1, <3>1 DEF RowKept, Stored
      <3>3. /\ Stored(g)
            /\ InPane(g) => ledger[g].pasted # NoSession
            /\ Unsettled(g) \/ ledger[g].pasted = NoSession => Waits(g)
        BY <3>1 DEF DInv, TurnInv, TurnsAreOwed
      <3>4. InPane(g)' => InPane(g)
        BY <2>1 DEF InPane
      <3> QED BY <2>1, <3>2, <3>3, <3>4
    <2>3. OnePane'
      BY <2>1 DEF OnePane, InPane, DInv, TurnInv
    <2>4. PasteSpent'
      <3> SUFFICES ASSUME NEW g \in Fires, pastes'[g] # 0
                   PROVE  /\ pastes'[g] = 1 /\ turn'[g] # "marked" /\ g <= clock'
                          /\ ledger'[g].pasted # NoSession \/ (~Stored(g)' /\ ~InHand(g)')
        BY DEF PasteSpent
      <3>1. /\ pastes[g] = 1 /\ turn[g] # "marked" /\ g <= clock
            /\ ledger[g].pasted # NoSession \/ (~Stored(g) /\ ~InHand(g))
        BY <2>1 DEF DInv, TurnInv, PasteSpent
      <3>2. g # n /\ g <= clock' /\ RowKept(g)
        BY <1>1, <1>8, <2>1, <3>1 DEF Fires
      <3>3. InHand(g)' => InHand(g)
        BY <1>2, <1>3, <1>6, <3>2 DEF InHand
      <3> QED BY <2>1, <3>1, <3>2, <3>3 DEF RowKept
    <2>5. WaiterHasTurn'
      BY <2>1 DEF WaiterHasTurn, DInv, TurnInv
    <2> QED BY <2>2, <2>3, <2>4, <2>5 DEF TurnInv
  <1>10. TickType'
    <2>1. tick.claimed \cup {n} \in SUBSET Fires
      BY <1>1, <1>t DEF TickType
    <2>2. tick' = [claimed |-> tick.claimed \cup {n}, disable |-> tick'.disable]
      BY DEF TickClaim
    <2> HIDE DEF n
    <2> QED BY <1>3, <2>1, <2>2 DEF TickType
  <1>11. TypesRest' /\ GroupType' /\ ReplayType' /\ lane' \in Lane /\ TurnType'
    BY <1>2 DEF TypesRest, GroupType, ReplayType, TurnType, DInv, DeliveryTypeOK, transport
  <1>12. DeliveryTypeOK'
    BY <1>5, <1>10, <1>11, TypesInParts
  <1> QED BY <1>1, <1>5, <1>7, <1>9, <1>12 DEF DInv

\* The tick hands its fires to a cohort task.
LEMMA TickEndInv ==
    ASSUME DInv, TickEnd
    PROVE  DInv' /\ [LedgerNext]_ledgerVars
  <1> DEFINE c == [fires |-> tick.claimed, ready |-> replay.task = "idle"]
  <1>1. /\ tick' = NoTick /\ groups' = groups \cup {c} /\ tick.claimed # {}
        /\ UNCHANGED <<ledgerVars, age, faults, replay, lane, transport>>
    BY DEF TickEnd
  <1>2. LedgerQuiet
    BY <1>1 DEF LedgerQuiet
  <1>3. RowsKept /\ [LedgerNext]_ledgerVars /\ LInv'
    BY <1>2, QuietKeeps DEF DInv
  <1>4. c.fires = tick.claimed /\ tick'.claimed = {} /\ Members' = Members /\ clock' = clock
    BY <1>1 DEF NoTick, Members, ledgerVars
  <1>5. c \in Group
    BY DEF Group, DInv, DeliveryTypeOK
  <1> HIDE DEF c
  <1>6. Carriers'
    <2>1. Carriers
      BY DEF DInv
    <2>2. \A g \in groups : g.fires \cap c.fires = {}
      BY <1>4, <2>1 DEF Carriers
    <2>3. \A g \in groups' : g \in groups \/ g = c
      BY <1>1
    <2>4. \A g \in groups' : /\ g.fires \subseteq 1..clock'
                             /\ g.fires \cap tick'.claimed = {} /\ g.fires \cap Members' = {}
      BY <1>4, <2>1, <2>3 DEF Carriers
    <2>5. \A g, h \in groups' : g = h \/ g.fires \cap h.fires = {}
      BY <2>1, <2>2, <2>3 DEF Carriers
    <2> QED BY <1>1, <1>4, <2>1, <2>4, <2>5 DEF Carriers
  <1>7. \A f \in Fires : InHand(f)' => InHand(f)
    BY <1>1, <1>4 DEF InHand
  <1>8. LaneProgram'
    BY <1>1, <1>3, LaneKept DEF ReplayType, DInv, DeliveryTypeOK
  <1>9. TypesRest' /\ TickType' /\ GroupType' /\ ReplayType' /\ lane' \in Lane /\ TurnType'
    BY <1>1, <1>5 DEF TypesRest, TickType, GroupType, ReplayType, TurnType, NoTick,
                      DInv, DeliveryTypeOK, transport
  <1>10. TurnInv'
    <2>1. turn' = turn /\ pastes' = pastes /\ (\A f \in Fires : Waits(f)' <=> Waits(f))
      BY <1>1 DEF transport, Waits
    <2>2. TurnsMove /\ PastesMove /\ WaitersKept
      BY <2>1 DEF TurnsMove, PastesMove, WaitersKept
    <2>3. WaiterHasTurn'
      BY <2>1 DEF WaiterHasTurn, DInv, TurnInv
    <2> QED BY <1>3, <1>7, <1>9, <2>1, <2>2, <2>3, TurnsFrame
  <1>11. DeliveryTypeOK'
    BY <1>8, <1>9, TypesInParts
  <1> QED BY <1>3, <1>6, <1>8, <1>10, <1>11 DEF DInv

\* A cohort that defers, or that moves on to its next member, keeps every row.
LEMMA CohortMoves ==
    ASSUME DInv, LedgerQuiet, UNCHANGED <<age, faults, tick, groups, transport>>,
           lane.by = "cohort", NoWaiter, NEW rest \in SUBSET Fires,
           rest \subseteq Members, lane' = NextMember(rest),
           ReplayType', replay'.task = "running" <=> replay.task = "running"
    PROVE  DInv' /\ [LedgerNext]_ledgerVars
  <1>1. /\ lane' \in Lane
        /\ \/ lane'.at = "free" /\ lane'.by = "nobody"
           \/ /\ lane'.at = "check" /\ lane'.by = "cohort"
              /\ lane'.fire \in rest /\ lane'.todo = rest \ {lane'.fire}
    BY NextMemberIsLane
  <1>2. RowsKept
    BY QuietKeeps DEF DInv
  <1>3. LaneProgram'
    <2>1. rest \subseteq 1..clock'
      BY <1>2 DEF RowsKept, DInv, Carriers
    <2>2. replay'.task # "running"
      BY DEF DInv, LaneProgram
    <2> QED BY <1>1, <2>1, <2>2 DEF LaneProgram
  <1>4. Members' \subseteq Members /\ (lane'.at = "check" => lane'.fire \notin lane'.todo)
    BY <1>1 DEF Members
  <1>5. \A f \in Fires : ~Waits(f) /\ ~Waits(f)'
    BY <1>1 DEF Waits, NoWaiter
  <1>6. TypesRest' /\ TickType' /\ tick.claimed' \subseteq tick.claimed /\ turn' = turn /\ pastes' = pastes
    BY DEF TypesRest, TickType, DInv, DeliveryTypeOK, transport
  <1>7. GroupsKept
    BY DEF GroupsKept
  <1> QED BY <1>1, <1>3, <1>4, <1>5, <1>6, <1>7, QuietStep

\* The end of a cohort's wait.
LEMMA CohortReceiptInv ==
    ASSUME DInv, CohortConfirmed \/ CohortUndelivered
    PROVE  DInv' /\ [LedgerNext]_ledgerVars
  <1>1. /\ lane.by = "cohort" /\ lane.at = "wait" /\ NoWaiter /\ lane' = NextMember(lane.todo)
        /\ UNCHANGED <<age, faults, tick, groups, transport>>
    BY DEF CohortConfirmed, CohortUndelivered, NoWaiter
  <1>2. lane.fire \in Fires /\ lane.todo \in SUBSET Fires
    BY <1>1, LaneFire DEF DInv, DeliveryTypeOK, Lane
  <1>3. lane.todo \subseteq Members
    BY <1>1 DEF Members
  <1>4. LedgerQuiet
    <2>1. CASE CohortConfirmed
      BY <1>2, <2>1 DEF CohortConfirmed, LedgerQuiet, Settling
    <2>2. CASE CohortUndelivered
      BY <2>2 DEF CohortUndelivered, LedgerQuiet
    <2> QED BY <2>1, <2>2
  <1>5. ReplayType' /\ (replay'.task = "running" <=> replay.task = "running")
    <2>1. replay' = replay \/ replay' = Requested
      BY DEF CohortConfirmed, CohortUndelivered
    <2> QED BY <2>1, RequestedType DEF ReplayType, DInv, DeliveryTypeOK
  <1> QED BY <1>1, <1>2, <1>3, <1>4, <1>5, CohortMoves

\* A ready cohort defers, or takes the lock for its members.
LEMMA CohortStartInv ==
    ASSUME DInv, NEW g \in groups, CohortDefer(g) \/ CohortTake(g)
    PROVE  DInv' /\ [LedgerNext]_ledgerVars
  <1>1. /\ (groups' = groups \ {g} /\ lane.at \notin {"send", "wait"}) \/ CohortDefer(g)
        /\ UNCHANGED <<ledgerVars, age, faults, tick, replay, transport>>
    BY DEF CohortDefer, CohortTake, DInv, LaneProgram
  <1>2. groups' = groups \ {g} /\ LedgerQuiet
    BY <1>1 DEF CohortDefer, LedgerQuiet
  <1>3. RowsKept /\ [LedgerNext]_ledgerVars /\ LInv'
    BY <1>2, QuietKeeps DEF DInv
  <1>4. g.fires \in SUBSET Fires /\ clock' = clock
    BY <1>1 DEF DInv, DeliveryTypeOK, Group, ledgerVars
  <1>5. TypesRest' /\ TickType' /\ GroupType' /\ ReplayType' /\ TurnType'
    BY <1>1, <1>2 DEF TypesRest, TickType, GroupType, ReplayType, TurnType,
                      DInv, DeliveryTypeOK, transport
  <1>6. turn' = turn /\ pastes' = pastes /\ tick' = tick
    BY <1>1 DEF transport
  <1>7. CASE CohortDefer(g)
    <2>1. lane' = lane
      BY <1>7 DEF CohortDefer
    <2>2. LaneProgram'
      BY <1>1, <1>3, <1>5, <2>1, LaneKept
    <2>3. Members' = Members /\ (lane'.at = "check" => lane'.fire \notin lane'.todo)
      BY <2>1 DEF Members, DInv, Carriers
    <2>4. (\A f \in Fires : Waits(f)' <=> Waits(f)) /\ GroupsKept /\ lane' \in Lane
      BY <1>2, <2>1 DEF Waits, GroupsKept, DInv, DeliveryTypeOK
    <2> QED BY <1>2, <1>5, <1>6, <2>2, <2>3, <2>4, QuietStep
  <1>8. CASE CohortTake(g)
    <2>1. lane' = NextMember(g.fires) /\ lane.by = "nobody" /\ lane.at = "free"
      BY <1>8 DEF CohortTake, DInv, LaneProgram
    <2>2. /\ lane' \in Lane
          /\ \/ lane'.at = "free" /\ lane'.by = "nobody"
             \/ /\ lane'.at = "check" /\ lane'.by = "cohort"
                /\ lane'.fire \in g.fires /\ lane'.todo = g.fires \ {lane'.fire}
      BY <1>4, <2>1, NextMemberIsLane
    <2>3. Members' \subseteq g.fires
      BY <2>2 DEF Members
    <2>4. LaneProgram'
      <3>1. g.fires \subseteq 1..clock' /\ replay'.task # "running"
        BY <1>1, <1>4, <2>1 DEF DInv, Carriers, LaneProgram
      <3> QED BY <2>2, <3>1 DEF LaneProgram
    <2>5. Carriers'
      <3>1. Carriers
        BY DEF DInv
      <3>2. \A h \in groups' : h \in groups /\ h.fires \cap g.fires = {}
        BY <1>2, <3>1 DEF Carriers
      <3>3. /\ Members' \subseteq 1..clock' /\ tick'.claimed \cap Members' = {}
            /\ tick'.claimed \subseteq 1..clock'
            /\ lane'.at = "check" => lane'.fire \notin lane'.todo
        BY <1>4, <1>6, <2>2, <2>3, <3>1 DEF Carriers
      <3>4. \A h \in groups' : /\ h.fires \subseteq 1..clock'
                               /\ h.fires \cap tick'.claimed = {} /\ h.fires \cap Members' = {}
        BY <1>4, <1>6, <2>3, <3>1, <3>2 DEF Carriers
      <3>5. \A h, i \in groups' : h = i \/ h.fires \cap i.fires = {}
        BY <3>1, <3>2 DEF Carriers
      <3> QED BY <3>3, <3>4, <3>5 DEF Carriers
    <2>6. \A f \in Fires : InHand(f)' => InHand(f)
      BY <1>2, <1>6, <2>3 DEF InHand
    <2>7. \A f \in Fires : ~Waits(f) /\ ~Waits(f)'
      BY <2>1, <2>2 DEF Waits
    <2>8. TurnInv'
      <3>1. TurnsMove /\ PastesMove /\ WaitersKept
        BY <1>6, <2>7 DEF TurnsMove, PastesMove, WaitersKept
      <3>2. WaiterHasTurn'
        BY <2>7 DEF WaiterHasTurn
      <3> QED BY <1>3, <1>5, <1>6, <2>6, <3>1, <3>2, TurnsFrame
    <2>9. DeliveryTypeOK'
      BY <1>5, <2>2, <2>4, TypesInParts
    <2> QED BY <1>3, <2>4, <2>5, <2>8, <2>9 DEF DInv
  <1> QED BY <1>7, <1>8

\* The cohort checks a member: it writes the row that is missing, passes over what is
\* settled, drops what is stale, or goes on to send it.
LEMMA CohortCheckInv ==
    ASSUME DInv, CohortCheck
    PROVE  DInv' /\ [LedgerNext]_ledgerVars
  <1>1. /\ lane.at = "check" /\ lane.by = "cohort" /\ NoWaiter /\ lane \in Lane
        /\ UNCHANGED <<age, faults, tick, groups, replay, transport>>
    BY DEF CohortCheck, DInv, LaneProgram, NoWaiter, DeliveryTypeOK
  <1> PICK f \in Fires : f = lane.fire
    BY <1>1, LaneFire
  <1>2. f \in Fires /\ f \in 1..clock /\ lane.todo \in SUBSET Fires
    BY <1>1, LaneFire DEF Lane
  <1>3. Members = lane.todo \cup {f} /\ f \notin lane.todo
    BY <1>1 DEF Members, DInv, Carriers
  <1>4. turn' = turn /\ pastes' = pastes
    BY <1>1 DEF transport
  <1>5. TypesRest' /\ TickType' /\ ReplayType' /\ TurnType' /\ GroupsKept /\ tick.claimed' \subseteq tick.claimed
        /\ (replay'.task = "running" <=> replay.task = "running")
    BY <1>1 DEF TypesRest, TickType, ReplayType, TurnType, GroupsKept, DInv, DeliveryTypeOK, transport
  <1>6. \/ PersistFire(f) /\ lane' = lane
        \/ LedgerQuiet /\ lane' = NextMember(lane.todo)
        \/ DeleteStale(f) /\ lane' = NextMember(lane.todo)
        \/ Active(f) /\ LedgerQuiet /\ lane' = [lane EXCEPT !.at = "send"]
    BY DEF CohortCheck, LedgerQuiet
  <1>7. CASE LedgerQuiet /\ lane' = NextMember(lane.todo)
    BY <1>1, <1>2, <1>3, <1>5, <1>7, CohortMoves
  <1>8. CASE Active(f) /\ LedgerQuiet /\ lane' = [lane EXCEPT !.at = "send"]
    <2>1. /\ lane' \in Lane /\ lane'.at = "send" /\ lane'.by = "cohort"
          /\ lane'.fire = lane.fire /\ lane'.todo = lane.todo
      BY <1>1, <1>8 DEF Lane, Stage
    <2>2. Stored(f)' /\ clock' = clock
      BY <1>2, <1>8, QuietKeeps DEF DInv, RowsKept, RowKept, Active, Unsettled
    <2>3. LaneProgram'
      BY <1>1, <1>2, <2>1, <2>2 DEF LaneProgram, DInv, Stored
    <2>4. Members' \subseteq Members
      BY <1>3, <2>1 DEF Members
    <2>5. \A g \in Fires : ~Waits(g) /\ ~Waits(g)'
      BY <1>1, <2>1 DEF Waits
    <2> QED BY <1>4, <1>5, <1>8, <2>1, <2>3, <2>4, <2>5, QuietStep
  <1>9. CASE PersistFire(f) /\ lane' = lane
    <2>1. /\ [LedgerNext]_ledgerVars /\ LInv'
          /\ clock' = clock /\ ~Stored(f) /\ Stored(f)' /\ ledger[f].pasted = NoSession
          /\ \A g \in Fires : g # f => RowKept(g)
      BY <1>2, <1>9, PersistKeeps DEF DInv
    <2>2. LaneProgram'
      BY <1>1, <1>9, <2>1 DEF LaneProgram, DInv
    <2>3. Members' = Members /\ (lane'.at = "check" => lane'.fire \notin lane'.todo)
      BY <1>9 DEF Members, DInv, Carriers
    <2>4. Carriers' /\ GroupType' /\ \A g \in Fires : InHand(g)' => InHand(g)
      BY <1>5, <2>1, <2>3, CarriersFrame
    <2>5. turn[f] = "none" /\ pastes[f] = 0
      <3>1. InHand(f)
        BY <1>3 DEF InHand
      <3> QED BY <1>2, <2>1, <3>1 DEF DInv, TurnInv, TurnsAreOwed, PasteSpent
    <2>6. TurnInv'
      BY <1>1, <1>2, <1>4, <1>9, <2>1, <2>4, <2>5, RowRewritten DEF NoWaiter
    <2>7. DeliveryTypeOK'
      BY <1>1, <1>5, <1>9, <2>2, <2>4, TypesInParts
    <2> QED BY <2>1, <2>2, <2>4, <2>6, <2>7 DEF DInv
  <1>10. CASE DeleteStale(f) /\ lane' = NextMember(lane.todo)
    <2>1. /\ [LedgerNext]_ledgerVars /\ LInv' /\ clock' = clock /\ Unsettled(f)
          /\ ~Stored(f)' /\ ledger'[f].pasted = NoSession
          /\ \A g \in Fires : g # f => RowKept(g)
      BY <1>2, <1>10, DeleteKeeps DEF DInv
    <2>2. /\ lane' \in Lane
          /\ \/ lane'.at = "free" /\ lane'.by = "nobody"
             \/ /\ lane'.at = "check" /\ lane'.by = "cohort"
                /\ lane'.fire \in lane.todo /\ lane'.todo = lane.todo \ {lane'.fire}
      BY <1>2, <1>10, NextMemberIsLane
    <2>3. LaneProgram'
      <3>1. lane.todo \subseteq 1..clock' /\ replay'.task # "running"
        BY <1>1, <1>3, <2>1 DEF DInv, Carriers, LaneProgram
      <3> QED BY <2>2, <3>1 DEF LaneProgram
    <2>4. /\ Members' \subseteq lane.todo /\ Members' \subseteq Members
          /\ lane'.at = "check" => lane'.fire \notin lane'.todo
      BY <1>3, <2>2 DEF Members
    <2>5. Carriers' /\ GroupType' /\ \A g \in Fires : InHand(g)' => InHand(g)
      BY <1>5, <2>1, <2>4, CarriersFrame
    <2>6. ~InHand(f)'
      <3>1. f \in Members /\ f \notin Members'
        BY <1>3, <2>4
      <3>2. f \notin tick.claimed /\ \A g \in groups : f \notin g.fires
        BY <3>1 DEF DInv, Carriers
      <3> QED BY <1>1, <3>1, <3>2 DEF InHand
    <2>7. turn[f] = "none" /\ NoWaiter'
      BY <1>1, <1>2, <2>1, <2>2, OwedHasNoTurn DEF NoWaiter
    <2>8. TurnInv'
      BY <1>1, <1>2, <1>4, <2>1, <2>5, <2>6, <2>7, RowRewritten
    <2>9. DeliveryTypeOK'
      BY <1>5, <2>2, <2>3, <2>5, TypesInParts
    <2> QED BY <2>1, <2>3, <2>5, <2>8, <2>9 DEF DInv
  <1> QED BY <1>6, <1>7, <1>8, <1>9, <1>10

-----------------------------------------------------------------------------
(* Turns and receipts.                                                       *)

\* The lane keeps its place; a receipt may have been resolved.
LaneAnswers ==
    \/ lane' = lane
    \/ lane.at = "wait" /\ \E v \in {"true", "false"} : lane' = [lane EXCEPT !.answer = v]

\* An answer to a waiter resolves its receipt and leaves the lane's program alone.
LEMMA AnswerKeepsLane ==
    ASSUME DInv, RowsKept, LaneAnswers, replay'.task = "running" <=> replay.task = "running"
    PROVE  /\ lane' \in Lane /\ LaneProgram' /\ Members' = Members
           /\ lane'.at = "check" => lane'.fire \notin lane'.todo
  <1>1. lane \in Lane
    BY DEF DInv, DeliveryTypeOK
  <1>2. /\ lane' \in Lane /\ lane'.by = lane.by /\ lane'.at = lane.at
        /\ lane'.todo = lane.todo /\ lane'.fire = lane.fire
    BY <1>1 DEF LaneAnswers, Lane
  <1>3. \A f \in Fires : RowKept(f)
    BY DEF RowsKept
  <1>4. lane.todo \in SUBSET Fires
    BY <1>1 DEF Lane
  <1>5. lane.at = "plan" => \A f \in lane.todo : Stored(f)' /\ ledger'[f].pasted = NoSession
    BY <1>3, <1>4 DEF RowKept, DInv, LaneProgram
  <1>6. lane'.at \in {"send", "wait"} => Stored(lane.fire)'
    <2> SUFFICES ASSUME lane.at \in {"send", "wait"} PROVE Stored(lane.fire)'
      BY <1>2
    <2>1. lane.fire \in Fires /\ Stored(lane.fire)
      BY LaneFire DEF DInv, LaneProgram
    <2> QED BY <1>2, <1>3, <2>1 DEF RowKept, Stored
  <1>7. LaneProgram'
    BY <1>2, <1>5, <1>6 DEF DInv, LaneProgram, RowsKept, Stored
  <1>8. Members' = Members /\ (lane'.at = "check" => lane'.fire \notin lane'.todo)
    BY <1>2 DEF Members, DInv, Carriers
  <1> QED BY <1>2, <1>7, <1>8

\* A resolved receipt has no waiter left; the other waits are as they were.
LEMMA ResolvedLane ==
    ASSUME lane \in Lane, NEW f, NEW v \in {"true", "false"}, lane' = Resolved(f, v)
    PROVE  /\ LaneAnswers /\ ~Waits(f)'
           /\ \A g \in Fires : Waits(g)' => Waits(g)
           /\ \A g \in Fires : g # f /\ Waits(g) => Waits(g)'
  BY DEF Resolved, LaneAnswers, Waits, Lane

\* A step of a turn that leaves the lane where it was.
LEMMA AnsweringStep ==
    ASSUME DInv, LedgerQuiet, UNCHANGED <<age, faults, tick, groups, used>>,
           session' \in Sessions \cup {NoSession}, pastes' \in [Fires -> Nat],
           LaneAnswers, ReplayType', replay'.task = "running" <=> replay.task = "running",
           TurnType', TurnsMove, PastesMove, WaitersKept, WaiterHasTurn'
    PROVE  DInv' /\ [LedgerNext]_ledgerVars
  <1>1. RowsKept
    BY QuietKeeps DEF DInv
  <1>2. /\ lane' \in Lane /\ LaneProgram' /\ Members' = Members
        /\ lane'.at = "check" => lane'.fire \notin lane'.todo
    BY <1>1, AnswerKeepsLane
  <1>3. TypesRest' /\ TickType' /\ tick.claimed' \subseteq tick.claimed /\ GroupsKept
    BY DEF TypesRest, TickType, GroupsKept, DInv, DeliveryTypeOK
  <1> QED BY <1>2, <1>3, TurnStep

\* A turn ends, and whoever waits for it is told.
LEMMA TurnEnds ==
    ASSUME DInv, LedgerQuiet, UNCHANGED <<age, faults, tick, groups, session, used>>,
           NEW f \in Fires, turn' = [turn EXCEPT ![f] = "none"],
           NEW v \in {"true", "false"}, lane' = Resolved(f, v),
           pastes' \in [Fires -> Nat], PastesMove,
           ReplayType', replay'.task = "running" <=> replay.task = "running"
    PROVE  DInv' /\ [LedgerNext]_ledgerVars
  <1>1. turn \in [Fires -> Turn] /\ lane \in Lane /\ session' \in Sessions \cup {NoSession}
    BY DEF DInv, DeliveryTypeOK
  <1>2. /\ LaneAnswers /\ ~Waits(f)'
        /\ \A g \in Fires : Waits(g)' => Waits(g)
        /\ \A g \in Fires : g # f /\ Waits(g) => Waits(g)'
    BY <1>1, ResolvedLane
  <1>3. \A g \in Fires : turn'[g] = IF g = f THEN "none" ELSE turn[g]
    BY <1>1
  <1>4. TurnType' /\ TurnsMove
    BY <1>1, <1>3 DEF TurnType, TurnsMove, Turn
  <1>5. WaitersKept
    BY <1>2, <1>3 DEF WaitersKept
  <1>6. WaiterHasTurn'
    BY <1>2, <1>3 DEF WaiterHasTurn, DInv, TurnInv
  <1> QED BY <1>1, <1>2, <1>4, <1>5, <1>6, AnsweringStep

\* The ledger refuses the marker, the pane fails, or the receipt arrives.
LEMMA TurnEndsInv ==
    ASSUME DInv, NEW f \in Fires, MarkRefused(f) \/ PaneFails(f) \/ Accept(f)
    PROVE  DInv' /\ [LedgerNext]_ledgerVars
  <1>1. pastes \in [Fires -> Nat] /\ ReplayType
    BY DEF DInv, DeliveryTypeOK, ReplayType
  <1>2. CASE MarkRefused(f) \/ PaneFails(f)
    <2>1. /\ UNCHANGED <<ledgerVars, age, faults, tick, groups, replay, session, used, pastes>>
          /\ turn' = [turn EXCEPT ![f] = "none"] /\ lane' = Resolved(f, "false")
      BY <1>2 DEF MarkRefused, PaneFails
    <2>2. LedgerQuiet /\ PastesMove /\ pastes' \in [Fires -> Nat] /\ ReplayType'
      BY <1>1, <2>1 DEF LedgerQuiet, PastesMove, ReplayType
    <2> QED BY <2>1, <2>2, TurnEnds
  <1>3. CASE Accept(f)
    <2>1. /\ Confirm(f) /\ turn' = [turn EXCEPT ![f] = "none"] /\ lane' = Resolved(f, "true")
          /\ pastes' = IF turn[f] = "marked" THEN [pastes EXCEPT ![f] = @ + 1] ELSE pastes
          /\ replay' = replay \/ replay' = Requested
          /\ UNCHANGED <<age, faults, tick, groups, session, used>>
      BY <1>3 DEF Accept
    <2>2. LedgerQuiet
      BY <2>1 DEF LedgerQuiet, Settling
    <2>3. pastes' \in [Fires -> Nat]
      BY <1>1, <2>1
    <2>4. PastesMove
      <3>1. turn'[f] = "none"
        BY <2>1 DEF DInv, DeliveryTypeOK
      <3>2. CASE turn[f] = "marked"
        BY <1>1, <2>1, <3>1, <3>2 DEF PastesMove
      <3>3. CASE turn[f] # "marked"
        BY <2>1, <3>3 DEF PastesMove
      <3> QED BY <3>2, <3>3
    <2>5. ReplayType' /\ (replay'.task = "running" <=> replay.task = "running")
      BY <1>1, <2>1, RequestedType DEF ReplayType
    <2> QED BY <2>1, <2>2, <2>3, <2>4, <2>5, TurnEnds
  <1> QED BY <1>2, <1>3

\* A paste returns, and the head of a wedged pane is queued again.
LEMMA PasteInv ==
    ASSUME DInv, NEW f \in Fires, Paste(f)
    PROVE  DInv' /\ [LedgerNext]_ledgerVars
  <1>1. /\ turn[f] = "marked" /\ turn' = [turn EXCEPT ![f] = "pasted"]
        /\ pastes' = [pastes EXCEPT ![f] = @ + 1]
        /\ UNCHANGED <<ledgerVars, age, faults, tick, groups, replay, lane, session, used>>
    BY DEF Paste, tasks
  <1>2. turn \in [Fires -> Turn] /\ pastes \in [Fires -> Nat]
    BY DEF DInv, DeliveryTypeOK
  <1>3. TurnType' /\ TurnsMove /\ \A g \in Fires : turn'[g] # "none" <=> turn[g] # "none"
    BY <1>1, <1>2 DEF TurnType, TurnsMove, Turn, InPane
  <1>4. PastesMove /\ pastes' \in [Fires -> Nat]
    BY <1>1, <1>2 DEF PastesMove
  <1>5. \A g \in Fires : Waits(g)' <=> Waits(g)
    BY <1>1 DEF Waits
  <1>6. WaitersKept
    BY <1>5 DEF WaitersKept
  <1>7. WaiterHasTurn'
    BY <1>3, <1>5 DEF WaiterHasTurn, DInv, TurnInv
  <1>8. LedgerQuiet /\ LaneAnswers /\ ReplayType' /\ session' \in Sessions \cup {NoSession}
    BY <1>1 DEF LedgerQuiet, LaneAnswers, ReplayType, DInv, DeliveryTypeOK
  <1> QED BY <1>1, <1>3, <1>4, <1>6, <1>7, <1>8, AnsweringStep

\* A session that is replaced under a pasted prompt queues the prompt again.
LEMMA RequeueInv ==
    ASSUME DInv, NEW f \in Fires, Requeue(f)
    PROVE  DInv' /\ [LedgerNext]_ledgerVars
  <1>1. /\ turn[f] = "pasted" /\ turn' = [g \in Fires |-> IF g = f THEN "queued" ELSE "none"]
        /\ session' = NoSession
        /\ lane' = IF Waits(f) THEN lane ELSE Resolved(lane.fire, "false")
        /\ UNCHANGED <<ledgerVars, age, faults, tick, groups, replay, used, pastes>>
    BY DEF Requeue
  <1>2. lane \in Lane /\ pastes' \in [Fires -> Nat] /\ ReplayType'
    BY <1>1 DEF DInv, DeliveryTypeOK, ReplayType
  <1>3. TurnType' /\ TurnsMove /\ PastesMove /\ LedgerQuiet
    BY <1>1 DEF TurnType, Turn, TurnsMove, InPane, PastesMove, LedgerQuiet
  <1>4. LaneAnswers /\ (Waits(f) => Waits(f)') /\ \A g \in Fires : g # f => ~Waits(g)'
    <2>1. CASE Waits(f)
      BY <1>1, <2>1 DEF Waits, LaneAnswers
    <2>2. CASE ~Waits(f)
      <3>1. lane' = Resolved(lane.fire, "false")
        BY <1>1, <2>2
      <3>2. LaneAnswers /\ \A g \in Fires : ~Waits(g)'
        BY <1>2, <3>1 DEF Resolved, LaneAnswers, Waits, Lane
      <3> QED BY <2>2, <3>2
    <2> QED BY <2>1, <2>2
  <1>5. WaitersKept
    BY <1>1, <1>4 DEF WaitersKept
  <1>6. WaiterHasTurn'
    BY <1>1, <1>4 DEF WaiterHasTurn
  <1>7. session' \in Sessions \cup {NoSession} /\ (replay'.task = "running" <=> replay.task = "running")
    BY <1>1
  <1> QED BY <1>1, <1>2, <1>3, <1>4, <1>5, <1>6, <1>7, AnsweringStep

\* The session goes: every open receipt is negative.
LEMMA SessionDownInv ==
    ASSUME DInv, SessionDown
    PROVE  DInv' /\ [LedgerNext]_ledgerVars
  <1>1. /\ turn' = [f \in Fires |-> "none"] /\ session' = NoSession
        /\ lane' = Resolved(lane.fire, "false")
        /\ UNCHANGED <<ledgerVars, age, faults, tick, groups, replay, used, pastes>>
    BY DEF SessionDown
  <1>2. lane \in Lane /\ pastes' \in [Fires -> Nat] /\ ReplayType'
    BY <1>1 DEF DInv, DeliveryTypeOK, ReplayType
  <1>3. TurnType' /\ TurnsMove /\ PastesMove /\ LedgerQuiet /\ WaitersKept
    BY <1>1 DEF TurnType, Turn, TurnsMove, PastesMove, LedgerQuiet, WaitersKept
  <1>4. LaneAnswers /\ \A g \in Fires : ~Waits(g)'
    BY <1>1, <1>2 DEF Resolved, LaneAnswers, Waits, Lane
  <1>5. WaiterHasTurn'
    BY <1>4 DEF WaiterHasTurn
  <1>6. session' \in Sessions \cup {NoSession} /\ (replay'.task = "running" <=> replay.task = "running")
    BY <1>1
  <1> QED BY <1>1, <1>2, <1>3, <1>4, <1>5, <1>6, AnsweringStep

\* The daemon dies: the tasks and turns are gone, the ledger and the pastes are not.
LEMMA CrashInv ==
    ASSUME DInv, Crash
    PROVE  DInv' /\ [LedgerNext]_ledgerVars
  <1>1. /\ tick' = NoTick /\ groups' = {} /\ replay' = NoReplay /\ lane' = Free
        /\ session' = NoSession /\ turn' = [f \in Fires |-> "none"]
        /\ faults' = faults + 1 /\ faults < MaxFaults
        /\ UNCHANGED <<ledgerVars, age, used, pastes>>
    BY DEF Crash
  <1>2. LedgerQuiet /\ GroupsKept /\ lane' \in Lane
    BY <1>1, FreeIsLane DEF LedgerQuiet, GroupsKept
  <1>3. TickType' /\ tick'.claimed = {} /\ ReplayType'
    BY <1>1 DEF TickType, NoTick, ReplayType, NoReplay
  <1>4. TypesRest'
    BY <1>1, FaultsAssumption DEF TypesRest, DInv, DeliveryTypeOK
  <1>5. LaneProgram' /\ Members' = {} /\ lane'.at # "check" /\ \A f \in Fires : ~Waits(f)'
    BY <1>1 DEF LaneProgram, Members, Free, NoReplay, Waits
  <1>6. TurnType' /\ TurnsMove /\ PastesMove /\ WaitersKept
    BY <1>1 DEF TurnType, Turn, TurnsMove, PastesMove, WaitersKept
  <1>7. WaiterHasTurn'
    BY <1>5 DEF WaiterHasTurn
  <1>8. tick.claimed' \subseteq tick.claimed
    BY <1>3
  <1> QED BY <1>2, <1>3, <1>4, <1>5, <1>6, <1>7, <1>8, TurnStep

\* The capped end of a wait: a turn in the pane keeps its receipt open, and its row is
\* settled, so that nobody need wait for it.
LEMMA CappedInv ==
    ASSUME DInv, NEW f \in Fires, TimeoutCapped(f)
    PROVE  DInv' /\ [LedgerNext]_ledgerVars
  <1>1. /\ lane.fire = f /\ lane.at \in {"send", "wait"}
        /\ turn' = IF InPane(f) THEN turn ELSE [turn EXCEPT ![f] = "none"]
        /\ IF Unsettled(f) THEN Abandon(f) ELSE UNCHANGED ledgerVars
        /\ lane' = IF lane.by = "replay" THEN StopPass ELSE NextMember(lane.todo)
        /\ UNCHANGED <<age, faults, tick, groups, replay, session, used, pastes>>
    BY DEF TimeoutCapped, Waits
  <1>2. LedgerQuiet
    BY <1>1 DEF LedgerQuiet, Settling
  <1>3. turn \in [Fires -> Turn] /\ lane.todo \in SUBSET Fires /\ lane.any \in BOOLEAN
    BY DEF DInv, DeliveryTypeOK, Lane
  <1>4. /\ lane' \in Lane
        /\ \/ lane'.at = "deliver" /\ lane'.by = "replay" /\ lane.by = "replay"
           \/ lane'.at = "free" /\ lane'.by = "nobody" /\ lane.by = "cohort"
           \/ /\ lane'.at = "check" /\ lane'.by = "cohort" /\ lane.by = "cohort"
              /\ lane'.fire \in lane.todo /\ lane'.todo = lane.todo \ {lane'.fire}
    <2>1. CASE lane.by = "replay"
      BY <1>1, <1>3, <2>1, FreeIsLane DEF StopPass, Lane, Stage, Free
    <2>2. CASE lane.by # "replay"
      <3>1. lane.by = "cohort"
        BY <1>1, <2>2 DEF DInv, LaneProgram, DeliveryTypeOK, Lane
      <3>2. lane' = NextMember(lane.todo)
        BY <1>1, <2>2
      <3> QED BY <1>3, <3>1, <3>2, NextMemberIsLane
    <2> QED BY <2>1, <2>2
  <1>5. RowsKept
    BY <1>2, QuietKeeps DEF DInv
  <1>6. LaneProgram'
    <2>1. lane.by = "cohort" => lane.todo \subseteq 1..clock'
      BY <1>1, <1>5 DEF DInv, Carriers, Members, RowsKept
    <2>2. replay' = replay /\ (lane.by = "replay" <=> replay.task = "running")
      BY <1>1 DEF DInv, LaneProgram
    <2> QED BY <1>4, <2>1, <2>2 DEF LaneProgram
  <1>7. Members' \subseteq Members /\ (lane'.at = "check" => lane'.fire \notin lane'.todo)
    BY <1>1, <1>4 DEF Members
  <1>8. TypesRest' /\ TickType' /\ ReplayType' /\ tick.claimed' \subseteq tick.claimed /\ GroupsKept
    BY <1>1 DEF TypesRest, TickType, ReplayType, GroupsKept, DInv, DeliveryTypeOK
  <1>9. TurnType' /\ TurnsMove /\ PastesMove
    BY <1>1, <1>3 DEF TurnType, TurnsMove, PastesMove, Turn
  <1>10. WaitersKept
    <2> SUFFICES ASSUME NEW g \in Fires, turn'[g] # "none", Waits(g),
                        Unsettled(g)' \/ ledger'[g].pasted = NoSession
                 PROVE  FALSE
      BY DEF WaitersKept
    <2>1. g = f
      BY <1>1 DEF Waits
    <2>2. InPane(f)
      BY <1>1, <1>3, <2>1
    <2>3. ledger'[f].pasted # NoSession
      BY <1>5, <2>2 DEF RowsKept, RowKept, DInv, TurnInv, TurnsAreOwed, InPane
    <2>4. ~Unsettled(f)'
      <3>1. CASE Unsettled(f)
        <4>1. Abandon(f) /\ ledger \in [Fires -> Row]
          BY <1>1, <3>1 DEF DInv, LInv, LedgerTypeOK
        <4>2. ledger'[f].abandoned
          BY <4>1 DEF Abandon, Row
        <4> QED BY <4>2 DEF Unsettled
      <3>2. CASE ~Unsettled(f)
        BY <1>5, <3>2 DEF RowsKept, RowKept
      <3> QED BY <3>1, <3>2
    <2> QED BY <2>1, <2>3, <2>4
  <1>11. WaiterHasTurn'
    BY <1>4 DEF WaiterHasTurn, Waits
  <1> QED BY <1>2, <1>4, <1>6, <1>7, <1>8, <1>9, <1>10, <1>11, TurnStep

\* A wait without a session ends early: its receipt is cancelled.
LEMMA UncappedInv ==
    ASSUME DInv, TimeoutUncapped
    PROVE  DInv' /\ [LedgerNext]_ledgerVars
  <1>1. /\ lane.at \in {"send", "wait"} /\ turn' = [turn EXCEPT ![lane.fire] = "none"]
        /\ lane' = [lane EXCEPT !.at = "wait", !.answer = "false"]
        /\ UNCHANGED <<ledgerVars, age, faults, tick, groups, replay, session, used, pastes>>
    BY DEF TimeoutUncapped, Waits
  <1>2. LedgerQuiet
    BY <1>1 DEF LedgerQuiet
  <1>3. turn \in [Fires -> Turn] /\ lane \in Lane /\ lane.fire \in Fires
    BY <1>1, LaneFire DEF DInv, DeliveryTypeOK
  <1>4. /\ lane' \in Lane /\ lane'.by = lane.by /\ lane'.at = "wait"
        /\ lane'.fire = lane.fire /\ lane'.todo = lane.todo /\ lane'.answer = "false"
    BY <1>1, <1>3 DEF Lane, Stage
  <1>5. RowsKept
    BY <1>2, QuietKeeps DEF DInv
  <1>6. LaneProgram'
    <2>1. Stored(lane.fire) /\ ledger' = ledger /\ lane.fire \in 1..clock /\ clock' = clock
      BY <1>1 DEF DInv, LaneProgram, ledgerVars
    <2>2. lane'.by = "replay" <=> replay'.task = "running"
      BY <1>1, <1>4 DEF DInv, LaneProgram
    <2>3. lane'.by # "nobody"
      BY <1>1, <1>4 DEF DInv, LaneProgram
    <2> QED BY <1>4, <2>1, <2>2, <2>3 DEF LaneProgram, Stored
  <1>7. Members' \subseteq Members /\ lane'.at # "check"
    BY <1>1, <1>4 DEF Members
  <1>8. TypesRest' /\ TickType' /\ ReplayType' /\ tick.claimed' \subseteq tick.claimed /\ GroupsKept
    BY <1>1 DEF TypesRest, TickType, ReplayType, GroupsKept, DInv, DeliveryTypeOK
  <1>9. TurnType' /\ TurnsMove /\ PastesMove
    BY <1>1, <1>3 DEF TurnType, TurnsMove, PastesMove, Turn
  <1>10. WaitersKept
    BY <1>1, <1>3 DEF WaitersKept, Waits
  <1>11. WaiterHasTurn'
    BY <1>4 DEF WaiterHasTurn, Waits
  <1> QED BY <1>2, <1>4, <1>6, <1>7, <1>8, <1>9, <1>10, <1>11, TurnStep

\* The prompt is queued, and from then on the lane waits for it.
LEMMA SendInv ==
    ASSUME DInv, Send
    PROVE  DInv' /\ [LedgerNext]_ledgerVars
  <1> PICK f \in Fires : f = lane.fire
    BY LaneFire DEF Send
  <1>1. /\ lane.at = "send" /\ lane.fire = f
        /\ UNCHANGED <<ledgerVars, age, faults, tick, groups, replay, session, used, pastes>>
        /\ \/ turn' = [turn EXCEPT ![f] = "queued"] /\ lane' = [lane EXCEPT !.at = "wait", !.answer = "open"]
           \/ turn' = turn /\ lane' = [lane EXCEPT !.at = "wait", !.answer = "false"]
    BY DEF Send
  <1>2. turn \in [Fires -> Turn] /\ lane \in Lane
    BY DEF DInv, DeliveryTypeOK
  <1>3. /\ lane' \in Lane /\ lane'.by = lane.by /\ lane'.at = "wait"
        /\ lane'.fire = lane.fire /\ lane'.todo = lane.todo
    BY <1>1, <1>2 DEF Lane, Stage
  <1>4. LedgerQuiet
    BY <1>1 DEF LedgerQuiet
  <1>5. RowsKept /\ [LedgerNext]_ledgerVars /\ LInv'
    BY <1>4, QuietKeeps DEF DInv
  <1>6. Stored(f) /\ ledger' = ledger /\ clock' = clock
    BY <1>1 DEF DInv, LaneProgram, ledgerVars
  <1>7. LaneProgram'
    <2>1. lane.fire \in 1..clock /\ lane'.by # "nobody" /\ (lane'.by = "replay" <=> replay'.task = "running")
      BY <1>1, <1>3 DEF DInv, LaneProgram
    <2> QED BY <1>1, <1>3, <1>6, <2>1 DEF LaneProgram, Stored
  <1>8. Members' \subseteq Members /\ lane'.at # "check" /\ tick.claimed' \subseteq tick.claimed /\ GroupsKept
    BY <1>1, <1>3 DEF Members, GroupsKept
  <1>9. Carriers' /\ GroupType' /\ \A g \in Fires : InHand(g)' => InHand(g)
    BY <1>6, <1>8, CarriersFrame
  <1>10. TypesRest' /\ TickType' /\ ReplayType' /\ TurnType'
    BY <1>1, <1>2 DEF TypesRest, TickType, ReplayType, TurnType, Turn, DInv, DeliveryTypeOK
  <1>11. DeliveryTypeOK'
    BY <1>3, <1>7, <1>9, <1>10, TypesInParts
  <1>12. CASE turn' = turn /\ lane' = [lane EXCEPT !.at = "wait", !.answer = "false"]
    <2>1. \A g \in Fires : ~Waits(g) /\ ~Waits(g)'
      BY <1>1, <1>2, <1>12 DEF Waits, Lane
    <2> QED BY <1>1, <1>3, <1>4, <1>7, <1>8, <1>10, <1>12, <2>1, QuietStep
  <1>13. CASE turn' = [turn EXCEPT ![f] = "queued"] /\ lane' = [lane EXCEPT !.at = "wait", !.answer = "open"]
    <2>1. Waits(f)' /\ (\A g \in Fires : ~Waits(g)) /\ (\A g \in Fires : g # f => ~Waits(g)')
      BY <1>1, <1>2, <1>13 DEF Waits, Lane
    <2>2. turn'[f] = "queued" /\ \A g \in Fires : g # f => turn'[g] = turn[g]
      BY <1>2, <1>13
    <2>3. TurnsAreOwed'
      <3> SUFFICES ASSUME NEW g \in Fires, turn'[g] # "none"
                   PROVE  /\ Stored(g)'
                          /\ InPane(g)' => ledger'[g].pasted # NoSession
                          /\ Unsettled(g)' \/ ledger'[g].pasted = NoSession => Waits(g)'
        BY DEF TurnsAreOwed
      <3>1. CASE g = f
        BY <1>6, <2>1, <2>2, <3>1 DEF Stored, InPane
      <3>2. CASE g # f
        <4>1. /\ Stored(g)
              /\ InPane(g) => ledger[g].pasted # NoSession
              /\ ~(Unsettled(g) \/ ledger[g].pasted = NoSession)
          BY <2>1, <2>2, <3>2 DEF DInv, TurnInv, TurnsAreOwed
        <4> QED BY <1>6, <2>2, <3>2, <4>1 DEF Stored, InPane, Unsettled
      <3> QED BY <3>1, <3>2
    <2>4. OnePane'
      <3>1. \A g \in Fires : InPane(g)' => InPane(g)
        BY <2>2 DEF InPane
      <3> QED BY <3>1 DEF DInv, TurnInv, OnePane
    <2>5. PasteSpent'
      <3> SUFFICES ASSUME NEW g \in Fires, pastes'[g] # 0
                   PROVE  /\ pastes'[g] = 1 /\ turn'[g] # "marked" /\ g <= clock'
                          /\ ledger'[g].pasted # NoSession \/ (~Stored(g)' /\ ~InHand(g)')
        BY DEF PasteSpent
      <3>1. /\ pastes[g] = 1 /\ turn[g] # "marked" /\ g <= clock
            /\ ledger[g].pasted # NoSession \/ (~Stored(g) /\ ~InHand(g))
        BY <1>1 DEF DInv, TurnInv, PasteSpent
      <3>2. turn'[g] # "marked" /\ (Stored(g)' <=> Stored(g))
        BY <1>6, <2>2, <3>1 DEF Stored
      <3> QED BY <1>1, <1>6, <1>9, <3>1, <3>2
    <2>6. WaiterHasTurn'
      BY <2>1, <2>2 DEF WaiterHasTurn
    <2> QED BY <1>5, <1>7, <1>9, <1>11, <2>3, <2>4, <2>5, <2>6 DEF DInv, TurnInv
  <1> QED BY <1>1, <1>12, <1>13

\* The write-ahead marker: the row was owed and unmarked, so the fire was never pasted,
\* and the pane was free.
LEMMA MarkInv ==
    ASSUME DInv, NEW f \in Fires, Mark(f)
    PROVE  DInv' /\ [LedgerNext]_ledgerVars
  <1>1. /\ turn[f] = "queued" /\ (\A g \in Fires : ~InPane(g))
        /\ MarkPasted(f, session) /\ turn' = [turn EXCEPT ![f] = "marked"]
        /\ UNCHANGED <<age, faults, tick, groups, replay, lane, session, used, pastes>>
        /\ lane.at # "plan"
    BY DEF Mark, tasks, Yielded, Running
  <1>2. turn \in [Fires -> Turn] /\ session \in Sessions
    BY DEF Mark, DInv, DeliveryTypeOK
  <1>3. /\ [LedgerNext]_ledgerVars /\ LInv'
        /\ clock' = clock /\ Stored(f) /\ Stored(f)' /\ Unsettled(f)
        /\ ledger[f].pasted = NoSession /\ ledger'[f].pasted # NoSession
        /\ \A h \in Fires : h # f => RowKept(h)
    BY <1>1, <1>2, MarkKeeps DEF DInv
  <1>4. \A g \in Fires : Stored(g)' <=> Stored(g)
    BY <1>3 DEF RowKept
  <1>5. turn'[f] = "marked" /\ \A g \in Fires : g # f => turn'[g] = turn[g]
    BY <1>1, <1>2
  <1>6. LaneProgram'
    <2>1. lane.at \in {"send", "wait"} => Stored(lane.fire)'
      <3> SUFFICES ASSUME lane.at \in {"send", "wait"} PROVE Stored(lane.fire)'
        OBVIOUS
      <3>1. lane.fire \in Fires /\ Stored(lane.fire) /\ lane' = lane
        BY <1>1, LaneFire DEF DInv, LaneProgram
      <3> QED BY <1>4, <3>1 DEF Stored
    <2> QED BY <1>1, <1>3, <2>1 DEF DInv, LaneProgram, Stored
  <1>7. GroupsKept /\ Members' = Members /\ tick.claimed' \subseteq tick.claimed
        /\ (lane'.at = "check" => lane'.fire \notin lane'.todo)
    BY <1>1 DEF GroupsKept, Members, DInv, Carriers
  <1>8. Carriers' /\ GroupType' /\ \A g \in Fires : InHand(g)' => InHand(g)
    BY <1>3, <1>7, CarriersFrame
  <1>9. TypesRest' /\ TickType' /\ ReplayType' /\ TurnType' /\ lane' \in Lane
    BY <1>1, <1>2 DEF TypesRest, TickType, ReplayType, TurnType, Turn, DInv, DeliveryTypeOK
  <1>10. DeliveryTypeOK'
    BY <1>6, <1>8, <1>9, TypesInParts
  <1>11. \A g \in Fires : Waits(g)' <=> Waits(g)
    BY <1>1 DEF Waits
  <1>12. TurnsAreOwed'
    <2> SUFFICES ASSUME NEW g \in Fires, turn'[g] # "none"
                 PROVE  /\ Stored(g)'
                        /\ InPane(g)' => ledger'[g].pasted # NoSession
                        /\ Unsettled(g)' \/ ledger'[g].pasted = NoSession => Waits(g)'
      BY DEF TurnsAreOwed
    <2>1. CASE g = f
      <3>1. Waits(f)
        BY <1>1, <1>3 DEF DInv, TurnInv, TurnsAreOwed
      <3> QED BY <1>3, <1>11, <2>1, <3>1
    <2>2. CASE g # f
      <3>1. /\ Stored(g)
            /\ InPane(g) => ledger[g].pasted # NoSession
            /\ Unsettled(g) \/ ledger[g].pasted = NoSession => Waits(g)
        BY <1>5, <2>2 DEF DInv, TurnInv, TurnsAreOwed
      <3>2. InPane(g)' => InPane(g)
        BY <1>5, <2>2 DEF InPane
      <3> QED BY <1>3, <1>11, <2>2, <3>1, <3>2 DEF RowKept
    <2> QED BY <2>1, <2>2
  <1>13. OnePane'
    <2>1. \A g \in Fires : InPane(g)' => g = f
      BY <1>1, <1>5 DEF InPane
    <2> QED BY <2>1 DEF OnePane
  <1>14. PasteSpent'
    <2> SUFFICES ASSUME NEW g \in Fires, pastes'[g] # 0
                 PROVE  /\ pastes'[g] = 1 /\ turn'[g] # "marked" /\ g <= clock'
                        /\ ledger'[g].pasted # NoSession \/ (~Stored(g)' /\ ~InHand(g)')
      BY DEF PasteSpent
    <2>1. /\ pastes[g] = 1 /\ turn[g] # "marked" /\ g <= clock
          /\ ledger[g].pasted # NoSession \/ (~Stored(g) /\ ~InHand(g))
      BY <1>1 DEF DInv, TurnInv, PasteSpent
    <2>2. g # f
      BY <1>3, <2>1
    <2> QED BY <1>1, <1>3, <1>5, <1>8, <2>1, <2>2 DEF RowKept
  <1>15. WaiterHasTurn'
    BY <1>5, <1>11 DEF WaiterHasTurn, DInv, TurnInv
  <1> QED BY <1>3, <1>6, <1>8, <1>10, <1>12, <1>13, <1>14, <1>15 DEF DInv, TurnInv

-----------------------------------------------------------------------------
(* The theorems.                                                             *)

\* The first state has the invariant.
LEMMA DeliveryInitInv == DeliveryInit => DInv /\ LedgerInit
  <1> SUFFICES ASSUME DeliveryInit PROVE DInv /\ LedgerInit
    OBVIOUS
  <1>1. /\ LedgerInit /\ tick = NoTick /\ age = [f \in Fires |-> 0] /\ groups = {}
        /\ replay = NoReplay /\ lane = Free /\ session = NoSession /\ used = {}
        /\ turn = [f \in Fires |-> "none"] /\ pastes = [f \in Fires |-> 0] /\ faults = 0
    BY DEF DeliveryInit
  <1>2. LInv
    BY <1>1, LedgerInitInv
  <1>3. LaneProgram /\ Carriers
    BY <1>1 DEF LaneProgram, Carriers, Members, Free, NoReplay, NoTick
  <1>4. TurnInv
    BY <1>1 DEF TurnInv, TurnsAreOwed, OnePane, PasteSpent, WaiterHasTurn, InPane, Waits, Free
  <1>5. DeliveryTypeOK
    <2>1. (lane.by = "replay") = (replay.task = "running")
      BY <1>1 DEF Free, NoReplay
    <2>2. lane \in Lane /\ replay \in [task : {"idle", "due", "running"}, again : BOOLEAN]
      BY <1>1, FreeIsLane DEF NoReplay
    <2>3. tick \in [claimed : SUBSET Fires, disable : Schedules \cup {NoSchedule}]
      BY <1>1 DEF NoTick
    <2>4. faults \in 0..MaxFaults
      BY <1>1, FaultsAssumption
    <2>5. /\ age \in [Fires -> 0..2] /\ turn \in [Fires -> Turn] /\ pastes \in [Fires -> Nat]
      BY <1>1 DEF Turn
    <2> QED BY <1>1, <2>1, <2>2, <2>3, <2>4, <2>5 DEF DeliveryTypeOK
  <1> QED BY <1>1, <1>2, <1>3, <1>4, <1>5 DEF DInv

\* Every step of the delivery machinery keeps the invariant, and does to the ledger one
\* operation of the ledger or nothing.
LEMMA DeliveryStep ==
    DInv /\ [DeliveryNext]_deliveryVars => DInv' /\ [LedgerNext]_ledgerVars
  <1> SUFFICES ASSUME DInv, [DeliveryNext]_deliveryVars
               PROVE  DInv' /\ [LedgerNext]_ledgerVars
    OBVIOUS
  <1>1. CASE UNCHANGED deliveryVars
    <2>1. TypesRest' /\ TickType' /\ LedgerQuiet /\ tick.claimed' \subseteq tick.claimed
      BY <1>1 DEF deliveryVars, tasks, transport, TypesRest, TickType, LedgerQuiet,
                  DInv, DeliveryTypeOK
    <2> QED BY <1>1, <2>1, Asides DEF deliveryVars, tasks, transport
  <1>2. ASSUME NEW s \in Schedules, TickClaim(s) PROVE DInv' /\ [LedgerNext]_ledgerVars
    BY <1>2, TickClaimInv
  <1>3. CASE TickStep
    BY <1>3, AsidesInv, TickEndInv DEF TickStep
  <1>4. CASE Trigger \/ ReplayTake
    BY <1>4, TriggerInv, ReplayTakeInv
  <1>5. CASE CohortStep
    BY <1>5, CohortStartInv, CohortCheckInv, CohortReceiptInv DEF CohortStep
  <1>6. CASE PassStep \/ PassFails
    <2>1. CASE SettleLost \/ SettleSkip
      BY <2>1, SettleInv
    <2>2. CASE ProbeBusy \/ ParkDone \/ ProbeDue \/ ProbeIdle \/ \E f \in Fires : ParkForDrain(f)
      BY <2>2, ProbeInv
    <2>3. CASE PlanRow
      BY <2>3, PlanRowInv
    <2>4. CASE PlanDone \/ Collapse \/ CollapseDone
      BY <2>4, CollapseInv
    <2>5. CASE DeliverNext \/ DeliverDone \/ PassFails
      BY <2>5, DeliverInv
    <2>6. CASE ReplayConfirmed \/ ReplayUndelivered
      BY <2>6, ReplayReceiptInv
    <2> QED BY <1>6, <2>1, <2>2, <2>3, <2>4, <2>5, <2>6 DEF PassStep
  <1>7. CASE Send \/ TimeoutUncapped \/ SessionDown \/ Crash
    BY <1>7, SendInv, UncappedInv, SessionDownInv, CrashInv
  <1>8. ASSUME NEW f \in Fires,
               \/ TimeoutCapped(f) \/ Mark(f) \/ MarkRefused(f) \/ Paste(f)
               \/ PaneFails(f) \/ Accept(f) \/ Requeue(f)
        PROVE  DInv' /\ [LedgerNext]_ledgerVars
    BY <1>8, CappedInv, MarkInv, TurnEndsInv, PasteInv, RequeueInv
  <1>9. CASE \/ Operator
             \/ \E f \in Fires : GrowOld(f) \/ Reap(f)
             \/ \E g \in Sessions : SessionUp(g)
    BY <1>9, AsidesInv
  <1> QED BY <1>1, <1>2, <1>3, <1>4, <1>5, <1>6, <1>7, <1>8, <1>9 DEF DeliveryNext

\* The inductive invariant holds in every behaviour.
LEMMA DeliveryInvariant == DeliverySafety => []DInv
  BY DeliveryInitInv, DeliveryStep, PTL DEF DeliverySafety

\* Types, and the replay task that is registered as running is the one in the lane.
THEOREM DeliveryTypeCorrect == DeliverySafety => []DeliveryTypeOK
  <1>1. DInv => DeliveryTypeOK
    BY DEF DInv
  <1> QED BY <1>1, DeliveryInvariant, PTL

\* The tick, the cohorts, the passes, the transport, operators and crashes of the daemon
\* use the ledger only through its operations: the running system is a ledger.
THEOREM DeliveryUsesTheLedger == DeliverySafety => UsesLedger
  BY DeliveryInitInv, DeliveryStep, DeliveryInvariant, PTL DEF DeliverySafety, UsesLedger, LedgerSpec

\* So what is proved of every ledger holds of the running system: a fire keeps
\* FireOutcome's promise, and the markers of its row are final.
THEOREM DeliveryKeepsPromises ==
    DeliverySafety => [](OneMarker /\ HighWaterCovers) /\ MarkerIsFinal
                      /\ ReceiptReleasesDebt /\ ImplementsFireOutcome
  BY DeliveryUsesTheLedger, OutcomesExclude, FloorCoversReceipts, ReceiptsRelease,
     MarkersAreFinal, KeepsThePromise, PTL DEF UsesLedger

\* An exact fire reaches a pane at most once, whatever crashes, replaced sessions,
\* requeued heads, replays and cohorts do.
THEOREM PastedAtMostOnceHolds == DeliverySafety => []PastedAtMostOnce
  <1>1. DInv => PastedAtMostOnce
    BY DEF DInv, DeliveryTypeOK, TurnInv, PasteSpent, PastedAtMostOnce
  <1> QED BY <1>1, DeliveryInvariant, PTL

\* Only one unresolved exact receipt is in the pane.
THEOREM OneOpenPasteHolds == DeliverySafety => []OneOpenPaste
  <1>1. DInv => OneOpenPaste
    <2> SUFFICES ASSUME DInv PROVE OneOpenPaste
      OBVIOUS
    <2> DEFINE S == {f \in Fires : InPane(f)}
    <2>1. \A f, g \in S : f = g
      BY DEF DInv, TurnInv, OnePane
    <2>2. S = {} \/ \E f : S = {f}
      BY <2>1
    <2> HIDE DEF S
    <2>3. CASE S = {}
      BY <2>3, FS_EmptySet DEF OneOpenPaste, S
    <2>4. CASE \E f : S = {f}
      <3>1. Cardinality(S) = 1
        BY <2>4, FS_Singleton
      <3> QED BY <3>1 DEF OneOpenPaste, S
    <2> QED BY <2>2, <2>3, <2>4
  <1> QED BY <1>1, DeliveryInvariant, PTL

\* Nobody waits for a receipt that no turn can resolve any more.
THEOREM WaiterHasTurnHolds == DeliverySafety => []WaiterHasTurn
  <1>1. DInv => WaiterHasTurn
    BY DEF DInv, TurnInv
  <1> QED BY <1>1, DeliveryInvariant, PTL

\* A prompt in the pane keeps the row that its acceptance must confirm, and a queued one
\* that the ledger would still let in has somebody waiting for it.
THEOREM PromptsAreAccountedFor == DeliverySafety => [](PasteHasRow /\ RecallableIsAwaited)
  <1>1. DInv => PasteHasRow /\ RecallableIsAwaited
    BY DEF DInv, TurnInv, TurnsAreOwed, PasteHasRow, RecallableIsAwaited, InPane
  <1> QED BY <1>1, DeliveryInvariant, PTL

-----------------------------------------------------------------------------
(* Supersession: what is held while a newer fire of its schedule is accepted   *)
(* does not enter a pane afterwards.                                           *)

\* A recurrence that has not been pasted, of whose schedule a newer fire was accepted or
\* is in the pane.
Overtaken(f) ==
    \/ f <= schedule[ScheduleOf(f)].highWater
    \/ \E g \in Fires : g > f /\ ScheduleOf(g) = ScheduleOf(f) /\ InPane(g)
Late(f) == Stored(f) /\ ledger[f].pasted = NoSession /\ Recurring(f) /\ Overtaken(f)

Drained(f) == ledger[f].drain \/ ledger[f].released

\* What the cohort in the lane has in hand, and what a pass has planned to send.
InLane == IF lane.by = "cohort" THEN lane.todo \cup {lane.fire} ELSE {}
Planned ==
    IF lane.by # "replay" THEN {}
    ELSE IF lane.at \in {"plan", "collapse"} THEN lane.keep
    ELSE IF lane.at = "deliver" THEN lane.todo
    ELSE IF lane.at \in {"send", "wait"} THEN lane.todo \cup {lane.fire}
    ELSE {}
PassSends == lane.by = "replay" /\ lane.at \notin {"settle", "probe", "park"}

\* A cohort task waits for the pass under way, or goes at once; the tick runs alone.
CohortsWait ==
    /\ \A g \in groups : g.fires # {} /\ (g.ready <=> replay.task = "idle")
    /\ tick # NoTick => lane.at \notin Running /\ \A g \in groups : ~g.ready

\* Fires go through the lane in the order of their claims, cohort by cohort.
Before(S, T) == \A f \in S, g \in T : f < g
InOrder ==
    /\ \A g, h \in groups : g = h \/ Before(g.fires, h.fires) \/ Before(h.fires, g.fires)
    /\ \A g \in groups : Before(InLane, g.fires) /\ Before(g.fires, tick.claimed)
    /\ Before(InLane, tick.claimed)
LaneInOrder == lane.by = "cohort" => \A f \in lane.todo : lane.fire < f

\* No floor is above what was claimed; a receipt ends its turn; who is told of a receipt
\* finds it stored.
ReceiptsEndTurns ==
    /\ \A s \in Schedules : schedule[s].highWater <= clock
    /\ \A f \in Fires : InPane(f) => ~ledger[f].accepted
    /\ lane.at = "wait" /\ lane.answer = "true" => ledger[lane.fire].accepted

\* A pass begins with nothing planned; what collapse has gone through, and what is then
\* delivered, is one fire a recurrence.
Twins(f, g) == Recurring(f) /\ ScheduleOf(f) = ScheduleOf(g)
OnePerRecurrence ==
    /\ lane.at \in {"settle", "probe"} => lane.keep = {}
    /\ lane.at = "collapse" =>
         /\ lane.todo \subseteq lane.keep
         /\ \A f \in lane.keep \ lane.todo, g \in lane.keep : Twins(f, g) => f = g
    /\ lane.by = "replay" /\ lane.at \in {"deliver", "send", "wait"} =>
         \A f, g \in Planned : Twins(f, g) => f = g

\* What is planned was claimed, and is not held, nor released and late.
PlannedInTime ==
    \A f \in Planned : f <= clock /\ ~ledger[f].drain /\ (ledger[f].released => ~Late(f))

\* Nor is anything carried: the tick's fires are new; a cohort that waits has no released
\* fire, and one that is held and late never; nor has the cohort in the lane.
WaitsInTime(g) ==
    \A f \in g.fires :
        /\ ~ledger[f].released
        /\ ledger[f].drain => lane.at = "park" \/ g.ready
        /\ Late(f) => ~ledger[f].drain /\ (g.ready \/ PassSends)
CarriedInTime ==
    /\ \A f \in tick.claimed : ~Drained(f) /\ ~Late(f)
    /\ \A f \in InLane : Drained(f) => ~Late(f)
    /\ \A g \in groups : WaitsInTime(g)

LaneInv ==
    /\ CohortsWait /\ InOrder /\ LaneInOrder
    /\ OnePerRecurrence /\ PlannedInTime /\ CarriedInTime
SInv == LaneInv /\ ReceiptsEndTurns

-----------------------------------------------------------------------------
(* What the operations of the ledger do to the marks of a row.               *)

\* The row belongs to the schedule it belonged to; it is held only if it was, and released
\* only if it was or was held.
RowCalm(f) ==
    /\ ledger'[f].schedule = ledger[f].schedule
    /\ ledger'[f].drain => ledger[f].drain
    /\ ledger'[f].released => ledger[f].released \/ ledger[f].drain
RowsCalm == \A f \in Fires : RowCalm(f)
NoneReleased == \A f \in Fires : ledger'[f].released => ledger[f].released

\* No receipt is added or lost, and no floor moves.
ReceiptsKept == \A f \in Fires : ledger'[f].accepted <=> ledger[f].accepted
FloorsKept == \A s \in Schedules : schedule'[s].highWater = schedule[s].highWater

\* The operations that add no receipt, hold nothing and release nothing.
Calm ==
    \/ UNCHANGED ledgerVars
    \/ \E f \in Fires : Park(f) \/ Abandon(f) \/ ReapAbandon(f) \/ IncrementAttempts(f)
    \/ \E s \in Schedules : Remove(s) \/ \E on \in BOOLEAN : Toggle(s, on)

\* They keep the marks and the floors.
LEMMA CalmKeeps ==
    ASSUME LInv, Calm
    PROVE  LedgerQuiet /\ RowsCalm /\ NoneReleased /\ ReceiptsKept /\ FloorsKept
  <1>t. ledger \in [Fires -> Row] /\ schedule \in [Schedules -> ScheduleRow]
    BY DEF LInv, LedgerTypeOK
  <1>0. LedgerQuiet
    BY DEF Calm, LedgerQuiet, Settling
  <1>1. CASE UNCHANGED ledgerVars
    BY <1>0, <1>1 DEF ledgerVars, RowsCalm, RowCalm, NoneReleased, ReceiptsKept, FloorsKept
  <1>2. ASSUME NEW f \in Fires, Park(f) \/ Abandon(f) \/ ReapAbandon(f) \/ IncrementAttempts(f)
        PROVE  RowsCalm /\ NoneReleased /\ ReceiptsKept /\ FloorsKept
    <2>1. /\ schedule' = schedule
          /\ \/ ledger' = [ledger EXCEPT ![f].parked = TRUE, ![f].drain = FALSE]
             \/ ledger' = [ledger EXCEPT ![f].abandoned = TRUE, ![f].drain = FALSE]
             \/ ledger' = [ledger EXCEPT ![f].attempts = @ + 1]
      BY <1>2 DEF Park, Abandon, ReapAbandon, IncrementAttempts
    <2>2. \A g \in Fires : RowCalm(g)
      BY <1>t, <2>1 DEF RowCalm, Row
    <2>3. NoneReleased /\ ReceiptsKept
      BY <1>t, <2>1 DEF NoneReleased, ReceiptsKept, Row
    <2> QED BY <2>1, <2>2, <2>3 DEF RowsCalm, FloorsKept
  <1>3. ASSUME NEW s \in Schedules, Remove(s) \/ \E on \in BOOLEAN : Toggle(s, on)
        PROVE  RowsCalm /\ NoneReleased /\ ReceiptsKept /\ FloorsKept
    <2>1. ledger' = ledger
      BY <1>3 DEF Remove, Toggle
    <2>2. FloorsKept
      BY <1>t, <1>3 DEF Remove, Toggle, FloorsKept, ScheduleRow
    <2> QED BY <2>1, <2>2 DEF RowsCalm, RowCalm, NoneReleased, ReceiptsKept
  <1> QED BY <1>0, <1>1, <1>2, <1>3 DEF Calm

\* A release moves what is held to what is released.
LEMMA ReleaseKeeps ==
    ASSUME LInv, ReleaseDrainParked
    PROVE  LedgerQuiet /\ RowsCalm /\ ReceiptsKept /\ FloorsKept
  <1>t. ledger \in [Fires -> Row] /\ ledger' = Released(ledger) /\ schedule' = schedule
    BY DEF LInv, LedgerTypeOK, ReleaseDrainParked
  <1>1. \A f \in Fires : RowCalm(f)
    BY <1>t DEF RowCalm, Released, Row
  <1>2. ReceiptsKept
    BY <1>t, ReleasedRows DEF ReceiptsKept
  <1> QED BY <1>t, <1>1, <1>2 DEF RowsCalm, FloorsKept, LedgerQuiet

\* A receipt: its row is neither held nor released by it; the others are released; the floor
\* of its schedule stays or is raised to it.
LEMMA ReceiptKeeps ==
    ASSUME LInv, NEW f \in Fires, Confirm(f)
    PROVE  /\ LedgerQuiet /\ RowsCalm /\ ledger'[f].accepted
           /\ \A g \in Fires : g # f => (ledger'[g].accepted <=> ledger[g].accepted)
           /\ \A s \in Schedules :
                \/ schedule'[s].highWater = schedule[s].highWater
                \/ /\ s = ScheduleOf(f) /\ schedule'[s].highWater = f
                   /\ schedule[s].exists /\ schedule[s].highWater < f
  <1> DEFINE r == [ledger[f] EXCEPT !.accepted = TRUE, !.parked = FALSE,
                                    !.abandoned = FALSE, !.drain = FALSE]
             rows == [ledger EXCEPT ![f] = r]
  <1>t. ledger \in [Fires -> Row] /\ schedule \in [Schedules -> ScheduleRow]
    BY DEF LInv, LedgerTypeOK
  <1>1. /\ r \in Row /\ r.schedule = ledger[f].schedule /\ r.accepted = TRUE
        /\ r.drain = FALSE /\ r.released = ledger[f].released
    <2>1. ledger[f] \in Row
      BY <1>t
    <2> QED BY <2>1 DEF Row
  <1>2. ledger' = Released(rows) /\ schedule' = Raised(ledger[f].schedule, f)
    BY <1>t DEF Confirm
  <1>3. rows \in [Fires -> Row] /\ \A g \in Fires : rows[g] = IF g = f THEN r ELSE ledger[g]
    BY <1>t, <1>1
  <1> HIDE DEF rows, r
  <1>4. /\ ledger'[f].accepted
        /\ \A g \in Fires : g # f => (ledger'[g].accepted <=> ledger[g].accepted)
    BY <1>1, <1>2, <1>3, ReleasedRows
  <1>5. ASSUME NEW g \in Fires PROVE RowCalm(g)
    <2>1. /\ ledger'[g].schedule = rows[g].schedule
          /\ ledger'[g].drain => rows[g].drain
          /\ ledger'[g].released => rows[g].released \/ rows[g].drain
      BY <1>2, <1>3 DEF Released, Row
    <2> QED BY <1>1, <1>3, <2>1 DEF RowCalm
  <1>6. ASSUME NEW s \in Schedules
        PROVE  \/ schedule'[s].highWater = schedule[s].highWater
               \/ /\ s = ScheduleOf(f) /\ schedule'[s].highWater = f
                  /\ schedule[s].exists /\ schedule[s].highWater < f
    BY <1>t, <1>2 DEF Raised, ScheduleRow, ScheduleOf
  <1>7. LedgerQuiet
    BY DEF LedgerQuiet, Settling
  <1> QED BY <1>4, <1>5, <1>6, <1>7 DEF RowsCalm

\* A receipt that is stored already moves no floor.
LEMMA ReceiptAgain ==
    ASSUME LInv, NEW f \in Fires, Confirm(f), ledger[f].accepted
    PROVE  LedgerQuiet /\ RowsCalm /\ ReceiptsKept /\ FloorsKept
  <1>1. /\ LedgerQuiet /\ RowsCalm /\ ledger'[f].accepted
        /\ \A g \in Fires : g # f => (ledger'[g].accepted <=> ledger[g].accepted)
        /\ \A s \in Schedules :
             \/ schedule'[s].highWater = schedule[s].highWater
             \/ s = ScheduleOf(f) /\ schedule[s].exists /\ schedule[s].highWater < f
    BY ReceiptKeeps
  <1>2. Stored(f) /\ ledger[f].schedule \in Schedules
    BY DEF Confirm, Stored, LInv, RowsAreClaimed, LedgerTypeOK, Fires
  <1>3. schedule[ScheduleOf(f)].exists => f <= schedule[ScheduleOf(f)].highWater
    BY <1>2 DEF LInv, HighWaterCovers, ScheduleOf
  <1>4. schedule[ScheduleOf(f)].highWater \in Nat /\ f \in Nat
    BY <1>2, FiresAssumption DEF LInv, LedgerTypeOK, ScheduleRow, ScheduleOf, Fires
  <1>5. FloorsKept
    BY <1>1, <1>3, <1>4 DEF FloorsKept
  <1> QED BY <1>1, <1>5 DEF ReceiptsKept

\* One row is dropped, or written again by who carries it.
LEMMA RewriteKeeps ==
    ASSUME LInv, NEW f \in Fires, DeleteStale(f) \/ PersistFire(f)
    PROVE  /\ RowsCalm /\ NoneReleased /\ FloorsKept /\ clock' = clock
           /\ ~ledger'[f].drain /\ ~ledger'[f].released
           /\ \A g \in Fires : ledger'[g].accepted => ledger[g].accepted
           /\ \A g \in Fires : g # f => ledger'[g] = ledger[g]
  <1>t. ledger \in [Fires -> Row] /\ schedule' = schedule /\ clock' = clock
    BY DEF LInv, LedgerTypeOK, DeleteStale, PersistFire
  <1>1. PICK x \in {"no", "yes"} : ledger' = [ledger EXCEPT ![f] = Blank(@.schedule, x)]
    BY DEF DeleteStale, PersistFire
  <1>2. /\ \A g \in Fires : g # f => ledger'[g] = ledger[g]
        /\ ledger'[f] = Blank(ledger[f].schedule, x)
    BY <1>t, <1>1
  <1>3. /\ ledger'[f].schedule = ledger[f].schedule /\ ~ledger'[f].drain
        /\ ~ledger'[f].released /\ ~ledger'[f].accepted
    BY <1>2 DEF Blank
  <1>4. RowsCalm /\ NoneReleased /\ \A g \in Fires : ledger'[g].accepted => ledger[g].accepted
    BY <1>2, <1>3 DEF RowsCalm, RowCalm, NoneReleased
  <1> QED BY <1>t, <1>2, <1>3, <1>4 DEF FloorsKept

\* A row of the outbox is held.
LEMMA HoldKeeps ==
    ASSUME LInv, NEW f \in Fires, DrainPark(f)
    PROVE  /\ LedgerQuiet /\ NoneReleased /\ ReceiptsKept /\ FloorsKept
           /\ \A g \in Fires : ledger'[g].schedule = ledger[g].schedule
           /\ \A g \in Fires : g # f => ledger'[g] = ledger[g]
           /\ ~ledger'[f].released
  <1>t. /\ ledger \in [Fires -> Row] /\ schedule' = schedule
        /\ ledger' = [ledger EXCEPT ![f].drain = TRUE, ![f].released = FALSE]
    BY DEF LInv, LedgerTypeOK, DrainPark
  <1>1. \A g \in Fires : g # f => ledger'[g] = ledger[g]
    BY <1>t
  <1>2. /\ ledger'[f].schedule = ledger[f].schedule /\ ~ledger'[f].released
        /\ ledger'[f].accepted = ledger[f].accepted
    BY <1>t DEF Row
  <1>3. NoneReleased /\ ReceiptsKept /\ \A g \in Fires : ledger'[g].schedule = ledger[g].schedule
    BY <1>1, <1>2 DEF NoneReleased, ReceiptsKept
  <1> QED BY <1>t, <1>1, <1>2, <1>3 DEF FloorsKept, LedgerQuiet, Settling

-----------------------------------------------------------------------------
(* What the parts of the invariant depend on.                                *)

\* What is carried or planned are fires.
LEMMA CarriedAreFires ==
    ASSUME DInv
    PROVE  /\ tick.claimed \subseteq Fires /\ InLane \subseteq Fires /\ Planned \subseteq Fires
           /\ \A g \in groups : g.fires \subseteq Fires
           /\ lane.todo \subseteq Fires /\ lane.keep \subseteq Fires
           /\ lane.by = "cohort" => lane.at \in {"check", "send", "wait"} /\ lane.fire \in Fires
  <1>1. /\ lane.todo \in SUBSET Fires /\ lane.keep \in SUBSET Fires /\ tick.claimed \in SUBSET Fires
        /\ lane.at \in Stage
    BY DEF DInv, DeliveryTypeOK, Lane
  <1>2. \A g \in groups : g.fires \in SUBSET Fires
    BY DEF DInv, DeliveryTypeOK, Group
  <1>3. lane.by = "cohort" => lane.at \in {"check", "send", "wait"}
    BY <1>1 DEF DInv, LaneProgram, Stage
  <1>4. lane.at \in {"check", "send", "wait"} => lane.fire \in Fires
    BY LaneFire
  <1>5. InLane \subseteq Fires
    BY <1>1, <1>3, <1>4 DEF InLane
  <1>6. Planned \subseteq Fires
    BY <1>1, <1>4 DEF Planned
  <1> QED BY <1>1, <1>2, <1>3, <1>4, <1>5, <1>6

\* No row becomes late.
NoneLater == \A f \in Fires : Late(f)' => Late(f)

\* A row is not late after a step that neither moves its floor nor puts a fire in the pane.
LEMMA LateFrame ==
    ASSUME DInv, NEW f \in Fires, Late(f)', FloorsKept,
           \A g \in Fires : ledger'[g].schedule = ledger[g].schedule,
           \A g \in Fires : InPane(g)' => InPane(g),
           Stored(f), ledger[f].pasted = NoSession
    PROVE  Late(f)
  <1>1. ScheduleOf(f)' = ScheduleOf(f) /\ ScheduleOf(f) \in Schedules /\ Recurring(f)
    BY DEF Late, Recurring, ScheduleOf
  <1>2. schedule'[ScheduleOf(f)].highWater = schedule[ScheduleOf(f)].highWater
    BY <1>1 DEF FloorsKept
  <1>3. CASE f <= schedule'[ScheduleOf(f)'].highWater
    BY <1>1, <1>2, <1>3 DEF Late, Overtaken
  <1>4. CASE \E g \in Fires : g > f /\ ScheduleOf(g)' = ScheduleOf(f)' /\ InPane(g)'
    BY <1>1, <1>4 DEF Late, Overtaken, ScheduleOf
  <1> QED BY <1>3, <1>4 DEF Late, Overtaken

\* Steps that keep every row make none late.
LEMMA QuietNoneLater ==
    ASSUME DInv, RowsKept, RowsCalm, FloorsKept, \A g \in Fires : InPane(g)' => InPane(g)
    PROVE  NoneLater
  <1> SUFFICES ASSUME NEW f \in Fires, Late(f)' PROVE Late(f)
    BY DEF NoneLater
  <1>1. Stored(f) /\ ledger[f].pasted = NoSession
    BY DEF RowsKept, RowKept, Late
  <1>2. \A g \in Fires : ledger'[g].schedule = ledger[g].schedule
    BY DEF RowsCalm, RowCalm
  <1> QED BY <1>1, <1>2, LateFrame

\* Nobody is between two commits of a parking, and no cohort is about to go.
Steady == lane.at # "park" /\ \A g \in groups : ~g.ready

\* Cohorts wait, and what is planned and carried stays in time, when a step adds nothing to
\* it, makes nothing late, and releases nothing but in a steady state.
LEMMA StillInTime ==
    ASSUME DInv, LaneInv, RowsCalm, NoneLater, NoneReleased \/ Steady, clock' = clock,
           tick'.claimed \subseteq tick.claimed, groups' \subseteq groups,
           InLane' \subseteq InLane,
           PassSends => PassSends', lane.at = "park" => lane'.at = "park"
    PROVE  InOrder' /\ CarriedInTime' /\ (Planned' \subseteq Planned => PlannedInTime')
  <1>f. /\ tick.claimed \subseteq Fires /\ InLane \subseteq Fires /\ Planned \subseteq Fires
        /\ \A g \in groups : g.fires \subseteq Fires
    BY CarriedAreFires
  <1>1. InOrder'
    BY DEF LaneInv, InOrder, Before
  <1>2. ASSUME Planned' \subseteq Planned, NEW f \in Planned'
        PROVE  f <= clock' /\ ~ledger'[f].drain /\ (ledger'[f].released => ~Late(f)')
    <2>1. f \in Planned /\ f \in Fires /\ RowCalm(f) /\ (Late(f)' => Late(f))
      BY <1>f, <1>2 DEF RowsCalm, NoneLater
    <2>2. f <= clock /\ ~ledger[f].drain /\ (ledger[f].released => ~Late(f))
      BY <2>1 DEF LaneInv, PlannedInTime
    <2> QED BY <2>1, <2>2 DEF RowCalm
  <1>3. ASSUME NEW f \in Fires, Drained(f)' PROVE Drained(f)
    BY <1>3 DEF Drained, RowsCalm, RowCalm
  <1>4. \A f \in tick'.claimed : ~Drained(f)' /\ ~Late(f)'
    <2> SUFFICES ASSUME NEW f \in tick'.claimed PROVE ~Drained(f)' /\ ~Late(f)'
      OBVIOUS
    <2>1. f \in Fires /\ ~Drained(f) /\ ~Late(f)
      BY <1>f DEF LaneInv, CarriedInTime
    <2> QED BY <1>3, <2>1 DEF NoneLater
  <1>5. \A f \in InLane' : Drained(f)' => ~Late(f)'
    <2> SUFFICES ASSUME NEW f \in InLane', Drained(f)' PROVE ~Late(f)'
      OBVIOUS
    <2>1. f \in Fires /\ (Drained(f) => ~Late(f))
      BY <1>f DEF LaneInv, CarriedInTime
    <2> QED BY <1>3, <2>1 DEF NoneLater
  <1>6. ASSUME NEW g \in groups', NEW f \in g.fires
        PROVE  /\ ~ledger'[f].released
               /\ ledger'[f].drain => lane'.at = "park" \/ g.ready
               /\ Late(f)' => ~ledger'[f].drain /\ (g.ready \/ PassSends')
    <2>1. f \in Fires /\ g \in groups /\ RowCalm(f) /\ (Late(f)' => Late(f))
      BY <1>f, <1>6 DEF RowsCalm, NoneLater
    <2>2. /\ ~ledger[f].released
          /\ ledger[f].drain => lane.at = "park" \/ g.ready
          /\ Late(f) => ~ledger[f].drain /\ (g.ready \/ PassSends)
      BY <1>6, <2>1 DEF LaneInv, CarriedInTime, WaitsInTime
    <2>3. ~ledger'[f].released
      BY <2>1, <2>2 DEF RowCalm, NoneReleased, Steady
    <2> QED BY <2>1, <2>2, <2>3 DEF RowCalm
  <1> QED BY <1>1, <1>2, <1>4, <1>5, <1>6 DEF PlannedInTime, CarriedInTime, WaitsInTime

\* A fire belongs to the schedule it belonged to.
RowsBelong == \A f \in Fires : ledger'[f].schedule = ledger[f].schedule

\* Then twins stay twins, and no others become so.
LEMMA TwinsKept ==
    ASSUME RowsBelong, NEW f \in Fires, NEW g \in Fires
    PROVE  Twins(f, g)' <=> Twins(f, g)
  BY DEF RowsBelong, Twins, Recurring, ScheduleOf

\* The lane is held as it was; a prompt may have been checked, sent, or answered.
LaneHeld ==
    /\ lane'.by = lane.by /\ lane'.todo = lane.todo /\ lane'.keep = lane.keep
    /\ lane'.fire = lane.fire
    /\ \/ lane'.at = lane.at
       \/ lane.at = "send" /\ lane'.at = "wait"
       \/ lane.at = "check" /\ lane'.at = "send"

\* Then it has the same in hand and planned, in the same order.
LEMMA HeldKeeps ==
    ASSUME DInv, LaneInv, LaneHeld, RowsBelong
    PROVE  /\ InLane' = InLane /\ Planned' = Planned /\ (PassSends => PassSends')
           /\ LaneInOrder' /\ OnePerRecurrence'
           /\ lane'.at \in Running => lane.at \in Running
           /\ lane.at = "park" => lane'.at = "park"
  <1>0. lane.keep \in SUBSET Fires /\ lane.todo \in SUBSET Fires /\ Planned \in SUBSET Fires
    BY CarriedAreFires
  <1>1. InLane' = InLane /\ Planned' = Planned /\ (PassSends => PassSends')
    BY DEF LaneHeld, InLane, Planned, PassSends, DInv, LaneProgram
  <1>2. LaneInOrder'
    BY DEF LaneInv, LaneInOrder, LaneHeld
  <1>3. ASSUME lane'.at = "collapse"
        PROVE  /\ lane'.todo \subseteq lane'.keep
               /\ \A f \in lane'.keep \ lane'.todo, g \in lane'.keep : Twins(f, g)' => f = g
    <2>1. /\ lane.todo \subseteq lane.keep
          /\ \A f \in lane.keep \ lane.todo, g \in lane.keep : Twins(f, g) => f = g
      BY <1>3 DEF LaneHeld, LaneInv, OnePerRecurrence
    <2> QED BY <1>0, <2>1, TwinsKept DEF LaneHeld
  <1>4. ASSUME lane'.by = "replay", lane'.at \in {"deliver", "send", "wait"}
        PROVE  \A f, g \in Planned' : Twins(f, g)' => f = g
    <2>1. \A f, g \in Planned : Twins(f, g) => f = g
      BY <1>4 DEF LaneHeld, LaneInv, OnePerRecurrence, DInv, LaneProgram
    <2> QED BY <1>0, <1>1, <2>1, TwinsKept
  <1>5. OnePerRecurrence'
    BY <1>3, <1>4 DEF OnePerRecurrence, LaneHeld, LaneInv
  <1>6. /\ lane'.at \in Running => lane.at \in Running
        /\ lane.at = "park" => lane'.at = "park"
    BY DEF LaneHeld, Running
  <1> QED BY <1>1, <1>2, <1>5, <1>6

\* Steps beside the lane, or that send or answer a prompt.
LEMMA AsideInTime ==
    ASSUME DInv, LaneInv, LaneHeld, RowsCalm, NoneLater, NoneReleased \/ Yielded, clock' = clock,
           tick'.claimed = tick.claimed, tick' # NoTick => tick # NoTick,
           groups' = groups, replay'.task = replay.task \/ groups = {}
    PROVE  LaneInv'
  <1>1. RowsBelong
    BY DEF RowsCalm, RowCalm, RowsBelong
  <1>2. /\ InLane' = InLane /\ Planned' = Planned /\ (PassSends => PassSends')
        /\ LaneInOrder' /\ OnePerRecurrence'
        /\ lane'.at \in Running => lane.at \in Running
        /\ lane.at = "park" => lane'.at = "park"
    BY <1>1, HeldKeeps
  <1>3. Yielded => Steady
    BY DEF Yielded, Steady, Running
  <1>4. InOrder' /\ PlannedInTime' /\ CarriedInTime'
    BY <1>2, <1>3, StillInTime
  <1>5. CohortsWait'
    BY <1>2 DEF LaneInv, CohortsWait
  <1> QED BY <1>2, <1>4, <1>5 DEF LaneInv

\* Receipts, when no turn enters the pane and no receipt is written.
LEMMA ReceiptsFrame ==
    ASSUME ReceiptsEndTurns, LInv, FloorsKept, clock' = clock \/ clock' = clock + 1,
           \A f \in Fires : InPane(f)' => InPane(f) /\ (ledger'[f].accepted => ledger[f].accepted),
           lane'.at = "wait" /\ lane'.answer = "true" =>
             /\ lane.at = "wait" /\ lane.answer = "true" /\ lane'.fire = lane.fire
             /\ ledger[lane.fire].accepted => ledger'[lane.fire].accepted
    PROVE  ReceiptsEndTurns'
  <1>1. ASSUME NEW s \in Schedules PROVE schedule'[s].highWater <= clock'
    <2>1. schedule'[s].highWater = schedule[s].highWater /\ schedule[s].highWater <= clock
      BY DEF FloorsKept, ReceiptsEndTurns
    <2>2. schedule[s].highWater \in Nat /\ clock \in Nat
      BY FiresAssumption DEF LInv, LedgerTypeOK, ScheduleRow
    <2> QED BY <2>1, <2>2
  <1> QED BY <1>1 DEF ReceiptsEndTurns

\* Steps beside the lane, or that send or answer a prompt, with a calm ledger.
LEMMA CalmAside ==
    ASSUME DInv, SInv, Calm, LaneHeld,
           lane'.at = "wait" /\ lane'.answer = "true" => lane.at = "wait" /\ lane.answer = "true",
           \A f \in Fires : InPane(f)' => InPane(f),
           tick'.claimed = tick.claimed, tick' # NoTick => tick # NoTick,
           groups' = groups, replay'.task = replay.task \/ groups = {}
    PROVE  SInv'
  <1>1. LedgerQuiet /\ RowsCalm /\ NoneReleased /\ ReceiptsKept /\ FloorsKept
    BY CalmKeeps DEF DInv
  <1>2. RowsKept
    BY <1>1, QuietKeeps DEF DInv
  <1>3. NoneLater
    BY <1>1, <1>2, QuietNoneLater
  <1>4. LaneInv'
    BY <1>1, <1>2, <1>3, AsideInTime DEF SInv, RowsKept
  <1>5. \A f \in Fires : InPane(f)' => InPane(f) /\ (ledger'[f].accepted => ledger[f].accepted)
    BY <1>1 DEF ReceiptsKept
  <1>6. lane.at = "wait" => lane.fire \in Fires
    BY LaneFire
  <1>7. lane'.at = "wait" /\ lane'.answer = "true" =>
          /\ lane.at = "wait" /\ lane.answer = "true" /\ lane'.fire = lane.fire
          /\ ledger[lane.fire].accepted => ledger'[lane.fire].accepted
    BY <1>1, <1>6 DEF ReceiptsKept, LaneHeld
  <1>8. ReceiptsEndTurns'
    BY <1>1, <1>2, <1>5, <1>7, ReceiptsFrame DEF SInv, DInv, RowsKept
  <1> QED BY <1>4, <1>8 DEF SInv

\* A request for a pass while nothing is under way finds no cohort waiting.
LEMMA RequestFindsNone ==
    ASSUME LaneInv, Yielded, replay' = replay \/ replay' = Requested,
           replay \in [task : {"idle", "due", "running"}, again : BOOLEAN]
    PROVE  replay'.task = replay.task \/ groups = {}
  <1>1. CASE replay.task = "idle"
    BY <1>1 DEF LaneInv, CohortsWait, Yielded
  <1>2. CASE replay.task # "idle"
    BY <1>2 DEF Requested
  <1> QED BY <1>1, <1>2

\* Time, operators, the reaper, a one-shot disabled, a new pane, a request for a pass.
LEMMA SidesInTime ==
    ASSUME DInv, SInv,
           \/ TickDisable \/ Operator \/ Trigger \/ UNCHANGED deliveryVars
           \/ \E f \in Fires : GrowOld(f) \/ Reap(f)
           \/ \E g \in Sessions : SessionUp(g)
    PROVE  SInv'
  <1>1. Calm
    <2>1. CASE TickDisable
      BY <2>1 DEF TickDisable, Calm, DInv, DeliveryTypeOK
    <2>2. CASE Operator \/ \E f \in Fires : Reap(f)
      BY <2>2 DEF Operator, Reap, Calm
    <2> QED BY <2>1, <2>2 DEF Trigger, GrowOld, SessionUp, deliveryVars, Calm
  <1>2. /\ lane' = lane /\ turn' = turn /\ groups' = groups
        /\ tick' = tick \/ TickDisable
        /\ replay' = replay \/ (Yielded /\ replay' = Requested)
    BY DEF TickDisable, Operator, Trigger, GrowOld, Reap, SessionUp, deliveryVars, tasks, transport
  <1>3. tick'.claimed = tick.claimed /\ (tick' # NoTick => tick # NoTick)
    <2>1. \/ tick' = tick
          \/ tick.disable # NoSchedule /\ tick' = [tick EXCEPT !.disable = NoSchedule]
      BY <1>2 DEF TickDisable
    <2>2. tick.disable # NoSchedule => tick # NoTick
      BY DEF NoTick
    <2>3. tick'.claimed = tick.claimed
      BY <2>1 DEF DInv, DeliveryTypeOK
    <2> QED BY <2>1, <2>2, <2>3
  <1>4. replay'.task = replay.task \/ groups = {}
    BY <1>2, RequestFindsNone DEF SInv, DInv, DeliveryTypeOK
  <1>5. LaneHeld /\ \A f \in Fires : InPane(f)' => InPane(f)
    BY <1>2 DEF LaneHeld, InPane
  <1> QED BY <1>1, <1>2, <1>3, <1>4, <1>5, CalmAside

\* Prompts are sent, and end without a receipt.
LEMMA TurnsInTime ==
    ASSUME DInv, SInv,
           \/ Send \/ TimeoutUncapped \/ SessionDown
           \/ \E f \in Fires : MarkRefused(f) \/ Paste(f) \/ PaneFails(f) \/ Requeue(f)
    PROVE  SInv'
  <1>t. lane \in Lane /\ turn \in [Fires -> Turn] /\ (lane.at = "send" => lane.fire \in Fires)
    BY LaneFire DEF DInv, DeliveryTypeOK
  <1>1. UNCHANGED <<ledgerVars, tick, groups, replay>>
    BY DEF Send, TimeoutUncapped, SessionDown, MarkRefused, Paste, PaneFails, Requeue, tasks
  <1>2. Calm
    BY <1>1 DEF Calm
  <1>3. /\ LaneHeld
        /\ lane'.at = "wait" /\ lane'.answer = "true" => lane.at = "wait" /\ lane.answer = "true"
    <2>1. \/ lane' = lane
          \/ lane' = [lane EXCEPT !.answer = "false"]
          \/ lane.at \in {"send", "wait"} /\ \E v \in {"open", "false"} :
               lane' = [lane EXCEPT !.at = "wait", !.answer = v]
      BY DEF Send, TimeoutUncapped, SessionDown, MarkRefused, Paste, PaneFails, Requeue, tasks,
             Resolved, Waits
    <2> QED BY <1>t, <2>1 DEF LaneHeld, Lane
  <1>4. ASSUME NEW g \in Fires, InPane(g)' PROVE InPane(g)
    <2>1. CASE Send \/ TimeoutUncapped \/ SessionDown
      BY <1>t, <1>4, <2>1 DEF Send, TimeoutUncapped, SessionDown, InPane
    <2>2. CASE \E f \in Fires : MarkRefused(f) \/ Paste(f) \/ PaneFails(f) \/ Requeue(f)
      BY <1>t, <1>4, <2>2 DEF MarkRefused, Paste, PaneFails, Requeue, InPane
    <2> QED BY <2>1, <2>2
  <1> QED BY <1>1, <1>2, <1>3, <1>4, CalmAside

\* A receipt raises the floor no further than to a fire in the pane, behind which all others
\* were late before.
LEMMA AcceptInTime ==
    ASSUME DInv, SInv, NEW f \in Fires, Accept(f)
    PROVE  SInv'
  <1>t. lane \in Lane /\ turn \in [Fires -> Turn] /\ ledger \in [Fires -> Row]
    BY DEF DInv, DeliveryTypeOK, LInv, LedgerTypeOK
  <1>1. /\ Yielded /\ InPane(f) /\ Confirm(f) /\ lane' = Resolved(f, "true")
        /\ turn' = [turn EXCEPT ![f] = "none"]
        /\ replay' = replay \/ replay' = Requested
        /\ UNCHANGED <<tick, groups>>
    BY DEF Accept
  <1>2. /\ LedgerQuiet /\ RowsCalm /\ ledger'[f].accepted
        /\ \A g \in Fires : g # f => (ledger'[g].accepted <=> ledger[g].accepted)
        /\ \A s \in Schedules :
             \/ schedule'[s].highWater = schedule[s].highWater
             \/ s = ScheduleOf(f) /\ schedule'[s].highWater = f
    BY <1>1, ReceiptKeeps DEF DInv
  <1>3. RowsKept
    BY <1>2, QuietKeeps DEF DInv
  <1>4. Stored(f) /\ ledger[f].pasted # NoSession
    BY <1>1 DEF DInv, TurnInv, TurnsAreOwed, InPane
  <1>5. \A g \in Fires : turn'[g] = IF g = f THEN "none" ELSE turn[g]
    BY <1>t, <1>1
  <1>6. \A g \in Fires : InPane(g)' => InPane(g) /\ g # f
    BY <1>5 DEF InPane
  <1>7. NoneLater
    <2> SUFFICES ASSUME NEW h \in Fires, Late(h)' PROVE Late(h)
      BY DEF NoneLater
    <2>1. Stored(h) /\ ledger[h].pasted = NoSession
      BY <1>3 DEF RowsKept, RowKept, Late
    <2>2. ScheduleOf(h)' = ScheduleOf(h) /\ ScheduleOf(h) \in Schedules /\ Recurring(h)
      BY <1>2 DEF Late, Recurring, ScheduleOf, RowsCalm, RowCalm
    <2>3. h # f
      BY <1>4, <2>1
    <2>4. CASE h <= schedule'[ScheduleOf(h)].highWater
      <3>1. CASE schedule'[ScheduleOf(h)].highWater = schedule[ScheduleOf(h)].highWater
        BY <2>1, <2>2, <2>4, <3>1 DEF Late, Overtaken
      <3>2. CASE ScheduleOf(h) = ScheduleOf(f) /\ schedule'[ScheduleOf(h)].highWater = f
        <4>1. f > h
          BY <2>3, <2>4, <3>2, FiresAssumption DEF Fires
        <4> QED BY <1>1, <2>1, <2>2, <3>2, <4>1 DEF Late, Overtaken
      <3> QED BY <1>2, <2>2, <3>1, <3>2
    <2>5. CASE \E g \in Fires : g > h /\ ScheduleOf(g)' = ScheduleOf(h)' /\ InPane(g)'
      <3>1. PICK g \in Fires : g > h /\ ScheduleOf(g)' = ScheduleOf(h)' /\ InPane(g)'
        BY <2>5
      <3>2. ScheduleOf(g)' = ScheduleOf(g)
        BY <1>2 DEF RowsCalm, RowCalm, ScheduleOf
      <3> QED BY <1>6, <2>1, <2>2, <3>1, <3>2 DEF Late, Overtaken
    <2> QED BY <2>2, <2>4, <2>5 DEF Late, Overtaken
  <1>8. LaneHeld /\ lane'.fire = lane.fire
    BY <1>t, <1>1 DEF Resolved, LaneHeld, Lane
  <1>9. replay'.task = replay.task \/ groups = {}
    BY <1>1, RequestFindsNone DEF SInv, DInv, DeliveryTypeOK
  <1>10. LaneInv'
    BY <1>1, <1>2, <1>3, <1>7, <1>8, <1>9, AsideInTime DEF SInv, RowsKept
  <1>11. \A s \in Schedules : schedule'[s].highWater <= clock'
    <2> SUFFICES ASSUME NEW s \in Schedules PROVE schedule'[s].highWater <= clock'
      OBVIOUS
    <2>1. f <= clock
      BY <1>4, FiresAssumption DEF DInv, LInv, RowsAreClaimed, LedgerTypeOK, Stored, Fires
    <2>2. clock' = clock /\ schedule[s].highWater <= clock
      BY <1>3 DEF RowsKept, SInv, ReceiptsEndTurns
    <2> QED BY <1>2, <2>1, <2>2
  <1>12. \A g \in Fires : InPane(g)' => ~ledger'[g].accepted
    BY <1>2, <1>6 DEF SInv, ReceiptsEndTurns
  <1>13. ASSUME lane'.at = "wait", lane'.answer = "true" PROVE ledger'[lane'.fire].accepted
    <2>1. CASE Waits(f)
      BY <1>2, <1>8, <2>1 DEF Waits
    <2>2. CASE ~Waits(f)
      <3>1. lane' = lane
        BY <1>1, <2>2 DEF Resolved
      <3>2. ledger[lane.fire].accepted /\ lane.fire \in Fires
        BY <1>13, <3>1, LaneFire DEF SInv, ReceiptsEndTurns
      <3> QED BY <1>2, <3>1, <3>2
    <2> QED BY <2>1, <2>2
  <1>14. ReceiptsEndTurns'
    BY <1>11, <1>12, <1>13 DEF ReceiptsEndTurns
  <1> QED BY <1>10, <1>14 DEF SInv

-----------------------------------------------------------------------------
(* The pass.                                                                 *)

\* What a pass, or a cohort, does to the ledger while no turn moves.
LedgerInTime ==
    /\ RowsCalm /\ FloorsKept /\ clock' = clock /\ NoneLater
    /\ \A f \in Fires : ledger'[f].accepted => ledger[f].accepted

\* No prompt enters the pane.
PaneKept == turn' = turn \/ \A f \in Fires : InPane(f)' => InPane(f)

\* It settles, releases, drops or confirms again.
LEMMA LedgerMoves ==
    ASSUME DInv, PaneKept,
           \/ Calm \/ ReleaseDrainParked
           \/ \E f \in Fires : DeleteStale(f) \/ (Confirm(f) /\ ledger[f].accepted)
    PROVE  /\ LedgerInTime
           /\ Calm \/ (\E f \in Fires : DeleteStale(f)) => NoneReleased
  <1>r. Calm \/ (\E f \in Fires : DeleteStale(f)) => NoneReleased
    BY CalmKeeps, RewriteKeeps DEF DInv
  <1> SUFFICES LedgerInTime
    BY <1>r
  <1>p. \A g \in Fires : InPane(g)' => InPane(g)
    BY DEF PaneKept, InPane
  <1>1. ASSUME LedgerQuiet, RowsCalm, ReceiptsKept, FloorsKept
        PROVE  LedgerInTime
    <2>1. RowsKept
      BY <1>1, QuietKeeps DEF DInv
    <2>2. NoneLater
      BY <1>p, <1>1, <2>1, QuietNoneLater
    <2> QED BY <1>1, <2>1, <2>2 DEF LedgerInTime, RowsKept, ReceiptsKept
  <1>2. CASE Calm
    BY <1>1, <1>2, CalmKeeps DEF DInv
  <1>3. CASE ReleaseDrainParked
    BY <1>1, <1>3, ReleaseKeeps DEF DInv
  <1>4. CASE \E f \in Fires : Confirm(f) /\ ledger[f].accepted
    BY <1>1, <1>4, ReceiptAgain DEF DInv
  <1>5. CASE \E f \in Fires : DeleteStale(f)
    <2>1. PICK f \in Fires : DeleteStale(f)
      BY <1>5
    <2>2. /\ RowsCalm /\ NoneReleased /\ FloorsKept /\ clock' = clock
          /\ \A g \in Fires : ledger'[g].accepted => ledger[g].accepted
          /\ \A g \in Fires : g # f => ledger'[g] = ledger[g]
      BY <2>1, RewriteKeeps DEF DInv
    <2>3. ~Stored(f)'
      BY <2>1, DeleteKeeps DEF DInv
    <2>4. ASSUME NEW h \in Fires, Late(h)' PROVE Late(h)
      <3>1. h # f
        BY <2>3, <2>4 DEF Late
      <3>2. Stored(h) /\ ledger[h].pasted = NoSession
        BY <2>2, <2>4, <3>1 DEF Late, Stored
      <3>3. \A g \in Fires : ledger'[g].schedule = ledger[g].schedule
        BY <2>2 DEF RowsCalm, RowCalm
      <3> QED BY <1>p, <2>2, <2>4, <3>2, <3>3, LateFrame
    <2> QED BY <2>2, <2>4 DEF LedgerInTime, NoneLater
  <1> QED BY <1>2, <1>3, <1>4, <1>5

\* Receipts, while no turn moves and nobody is told of one.
LEMMA ReceiptsQuiet ==
    ASSUME DInv, SInv, LedgerInTime, PaneKept, lane'.at = "wait" => lane'.answer # "true"
    PROVE  ReceiptsEndTurns'
  BY ReceiptsFrame DEF LedgerInTime, SInv, DInv, InPane, PaneKept

\* A step of the pass within its stages, by what it leaves planned.
LEMMA PassInTime ==
    ASSUME DInv, SInv, LedgerInTime, NoneReleased \/ Steady,
           UNCHANGED <<tick, groups, replay>>, PaneKept,
           lane.by = "replay", lane.at \in Running \/ Yielded,
           lane'.by = "replay", lane'.at # "wait",
           Planned' \subseteq Planned \/ PlannedInTime', PassSends => PassSends',
           lane.at = "park" => lane'.at = "park", OnePerRecurrence'
    PROVE  SInv'
  <1>1. InLane = {} /\ InLane' = {}
    BY DEF InLane
  <1>2. InOrder' /\ PlannedInTime' /\ CarriedInTime'
    BY <1>1, StillInTime DEF SInv, LedgerInTime
  <1>3. tick = NoTick
    BY DEF SInv, LaneInv, CohortsWait, Yielded
  <1>4. CohortsWait'
    BY <1>3 DEF SInv, LaneInv, CohortsWait
  <1>5. LaneInOrder'
    BY DEF LaneInOrder
  <1>6. ReceiptsEndTurns'
    BY ReceiptsQuiet
  <1> QED BY <1>2, <1>4, <1>5, <1>6 DEF SInv, LaneInv

\* What the stages of a pass are.
LEMMA PassStages ==
    ASSUME DInv, lane.at \in {"settle", "probe", "park", "plan", "collapse", "deliver"}
    PROVE  /\ lane.by = "replay" /\ lane \in Lane
           /\ lane.at # "probe" => lane.at \in Running
           /\ lane.todo \in SUBSET Fires /\ lane.keep \in SUBSET Fires
  BY PassHolds DEF Running, Lane

\* Lost pastes are settled; then the probe.
LEMMA SettleInTime ==
    ASSUME DInv, SInv, SettleLost \/ SettleSkip
    PROVE  SInv'
  <1>1. lane.at = "settle" /\ UNCHANGED <<tick, groups, replay, turn>>
    BY DEF SettleLost, SettleSkip, transport
  <1>4. lane.by = "replay" /\ lane \in Lane /\ lane.at \in Running /\ lane.todo \in SUBSET Fires
    BY <1>1, PassStages
  <1>2. Calm
    BY <1>4 DEF SettleLost, SettleSkip, Calm
  <1>3. LedgerInTime /\ NoneReleased
    BY <1>1, <1>2, LedgerMoves DEF PaneKept
  <1>5. lane'.by = "replay" /\ lane'.at \in {"settle", "probe"} /\ lane'.keep = lane.keep
    <2>1. \/ lane' = [lane EXCEPT !.at = "probe"]
          \/ \E v : lane' = [lane EXCEPT !.todo = v]
      BY DEF SettleLost, SettleSkip
    <2> QED BY <1>1, <1>4, <2>1 DEF Lane
  <1>6. lane.keep = {}
    BY <1>1 DEF SInv, LaneInv, OnePerRecurrence
  <1>7. Planned' = {} /\ ~PassSends
    BY <1>1, <1>5 DEF Planned, PassSends
  <1>8. OnePerRecurrence'
    BY <1>5, <1>6 DEF OnePerRecurrence
  <1> QED BY <1>1, <1>3, <1>4, <1>5, <1>7, <1>8, PassInTime DEF PaneKept

\* The probe lets the pass go on, maybe with what it releases.
LEMMA ProbeInTime ==
    ASSUME DInv, SInv, ProbeDue \/ ProbeIdle
    PROVE  SInv'
  <1>1. lane.at = "probe" /\ Yielded /\ UNCHANGED <<tick, groups, replay, turn>>
    BY DEF ProbeDue, ProbeIdle, transport
  <1>2. Calm \/ ReleaseDrainParked
    BY DEF ProbeDue, ProbeIdle, Calm
  <1>3. LedgerInTime /\ Steady
    BY <1>1, <1>2, LedgerMoves DEF PaneKept, Yielded, Steady, Running
  <1>4. lane.by = "replay" /\ lane \in Lane
    BY <1>1, PassStages
  <1>5. lane'.by = "replay" /\ lane'.at = "plan" /\ lane'.keep = lane.keep
    <2>1. \E v : lane' = [lane EXCEPT !.at = "plan", !.todo = v]
      BY DEF ProbeDue, ProbeIdle
    <2> QED BY <1>4, <2>1 DEF Lane
  <1>6. lane.keep = {}
    BY <1>1 DEF SInv, LaneInv, OnePerRecurrence
  <1>7. Planned' = {} /\ ~PassSends
    BY <1>1, <1>5, <1>6 DEF Planned, PassSends
  <1>8. OnePerRecurrence'
    BY <1>5 DEF OnePerRecurrence
  <1> QED BY <1>1, <1>3, <1>4, <1>5, <1>7, <1>8, PassInTime DEF PaneKept

\* Rows are parked for the drain: none of them is late, since no fire that waits is late
\* while the pass sends nothing.
LEMMA ParkInTime ==
    ASSUME DInv, SInv, NEW f \in Fires, ParkForDrain(f)
    PROVE  SInv'
  <1>1. /\ lane.at = "park" \/ (Yielded /\ lane.at = "probe")
        /\ DrainPark(f) /\ lane' = [lane EXCEPT !.at = "park"]
        /\ UNCHANGED <<tick, groups, replay, turn>>
    BY DEF ParkForDrain, transport
  <1>2. /\ LedgerQuiet /\ NoneReleased /\ ReceiptsKept /\ FloorsKept
        /\ \A g \in Fires : ledger'[g].schedule = ledger[g].schedule
        /\ \A g \in Fires : g # f => ledger'[g] = ledger[g]
        /\ ~ledger'[f].released
    BY <1>1, HoldKeeps DEF DInv
  <1>3. RowsKept
    BY <1>2, QuietKeeps DEF DInv
  <1>p. \A g \in Fires : InPane(g)' => InPane(g)
    BY <1>1 DEF InPane
  <1>4. NoneLater
    <2> SUFFICES ASSUME NEW h \in Fires, Late(h)' PROVE Late(h)
      BY DEF NoneLater
    <2>1. Stored(h) /\ ledger[h].pasted = NoSession
      BY <1>3 DEF RowsKept, RowKept, Late
    <2> QED BY <1>p, <1>2, <2>1, LateFrame
  <1>5. /\ lane.by = "replay" /\ lane'.by = "replay" /\ lane'.at = "park" /\ tick = NoTick
        /\ \A g \in groups : ~g.ready
    <2>1. lane.by = "replay" /\ lane \in Lane /\ replay.task = "running"
      BY <1>1, PassStages DEF DInv, LaneProgram
    <2>2. tick = NoTick
      BY <1>1 DEF SInv, LaneInv, CohortsWait, Yielded, Running
    <2> QED BY <1>1, <2>1, <2>2 DEF Lane, SInv, LaneInv, CohortsWait
  <1>6. InLane = {} /\ InLane' = {} /\ Planned' = {} /\ tick'.claimed = {} /\ ~PassSends
    BY <1>1, <1>5 DEF InLane, Planned, PassSends, NoTick
  <1>7. \A g \in groups' : WaitsInTime(g)'
    <2> SUFFICES ASSUME NEW g \in groups, NEW h \in g.fires
                 PROVE  /\ ~ledger'[h].released
                        /\ Late(h)' => ~ledger'[h].drain /\ (g.ready \/ PassSends')
      BY <1>1, <1>5 DEF WaitsInTime
    <2>1. /\ h \in Fires /\ ~ledger[h].released
          /\ Late(h) => ~ledger[h].drain /\ (g.ready \/ PassSends)
      BY CarriedAreFires DEF SInv, LaneInv, CarriedInTime, WaitsInTime
    <2>2. ~Late(h)'
      BY <1>4, <1>5, <1>6, <2>1 DEF NoneLater
    <2> QED BY <1>2, <2>1, <2>2 DEF NoneReleased
  <1>8. PlannedInTime' /\ CarriedInTime'
    BY <1>6, <1>7 DEF PlannedInTime, CarriedInTime
  <1>9. InOrder' /\ LaneInOrder' /\ OnePerRecurrence'
    BY <1>1, <1>5, <1>6 DEF InOrder, LaneInOrder, OnePerRecurrence, Before, SInv, LaneInv
  <1>10. CohortsWait'
    BY <1>1, <1>5 DEF CohortsWait, SInv, LaneInv
  <1>11. ReceiptsEndTurns'
    <2>1. \A g \in Fires : InPane(g)' => InPane(g) /\ (ledger'[g].accepted => ledger[g].accepted)
      BY <1>p, <1>2 DEF ReceiptsKept
    <2> QED BY <1>2, <1>3, <1>5, <2>1, ReceiptsFrame DEF SInv, DInv, RowsKept
  <1> QED BY <1>8, <1>9, <1>10, <1>11 DEF SInv, LaneInv

\* What the policy keeps is not late if it was released: the floor has not passed it, and no
\* newer fire of its schedule is in the pane.
LEMMA PlanInTime ==
    ASSUME DInv, SInv, PlanRow
    PROVE  SInv'
  <1>1. /\ lane.at = "plan" /\ lane.todo # {} /\ UNCHANGED <<tick, groups, replay, turn>>
    BY DEF PlanRow, transport
  <1>2. /\ lane.by = "replay" /\ lane \in Lane /\ lane.at \in Running
        /\ lane.todo \in SUBSET Fires /\ lane.keep \in SUBSET Fires
    BY <1>1, PassStages
  <1> DEFINE f == Min(lane.todo)
             next == [lane EXCEPT !.todo = @ \ {f}]
  <1>3. f \in Fires /\ f \in lane.todo
    BY <1>1, <1>2, MinIsFire
  <1>4. Stored(f) /\ ledger[f].pasted = NoSession
    BY <1>1, <1>3 DEF DInv, LaneProgram
  <1>5. next \in Lane /\ next.by = "replay" /\ next.at = "plan" /\ next.keep = lane.keep
    BY <1>1, <1>2 DEF Lane
  <1>6. \/ lane' = next /\ (Calm \/ DeleteStale(f))
        \/ /\ lane' = [next EXCEPT !.keep = lane.keep \cup {f}] /\ UNCHANGED ledgerVars
           /\ ~ledger[f].drain /\ ~Superseded(f) /\ ~Fenced(f)
    BY <1>2, <1>3 DEF PlanRow, Calm
  <1>7. PassSends /\ PassSends' /\ lane'.by = "replay" /\ lane'.at = "plan" /\ OnePerRecurrence'
    BY <1>1, <1>2, <1>5, <1>6 DEF PassSends, OnePerRecurrence, Lane
  <1>8. LedgerInTime /\ NoneReleased
    BY <1>1, <1>3, <1>6, LedgerMoves DEF PaneKept, Calm
  <1>9. Planned = lane.keep
    BY <1>1, <1>2 DEF Planned
  <1>10. CASE lane' = next
    <2>1. Planned' = Planned
      BY <1>5, <1>7, <1>9, <1>10 DEF Planned
    <2> HIDE DEF next
    <2> QED BY <1>1, <1>2, <1>7, <1>8, <2>1, PassInTime DEF PaneKept
  <1>11. CASE /\ lane' = [next EXCEPT !.keep = lane.keep \cup {f}] /\ UNCHANGED ledgerVars
              /\ ~ledger[f].drain /\ ~Superseded(f) /\ ~Fenced(f)
    <2>1. Planned' = lane.keep \cup {f}
      BY <1>5, <1>7, <1>11 DEF Planned, Lane
    <2>2. ~(ledger[f].released /\ Late(f))
      <3> SUFFICES ASSUME ledger[f].released, Late(f) PROVE FALSE
        OBVIOUS
      <3>1. ~(f <= schedule[ScheduleOf(f)].highWater)
        BY <1>11 DEF Superseded, Late
      <3>2. PICK g \in Fires : g > f /\ ScheduleOf(g) = ScheduleOf(f) /\ InPane(g)
        BY <3>1 DEF Late, Overtaken
      <3>3. Stored(g) /\ ledger[g].pasted # NoSession /\ ~ledger[g].accepted
        BY <3>2 DEF DInv, TurnInv, TurnsAreOwed, InPane, SInv, ReceiptsEndTurns
      <3> QED BY <1>11, <3>2, <3>3 DEF Fenced
    <2>3. ledger' = ledger
      BY <1>11 DEF ledgerVars
    <2>c. f <= clock
      BY <1>3, <1>4, FiresAssumption DEF DInv, LInv, RowsAreClaimed, LedgerTypeOK, Stored, Fires
    <2> HIDE DEF f, next
    <2>4. ASSUME NEW h \in Planned'
          PROVE  h <= clock' /\ ~ledger'[h].drain /\ (ledger'[h].released => ~Late(h)')
      <3>1. h \in Fires /\ (Late(h)' => Late(h)) /\ clock' = clock
        BY <1>2, <1>3, <1>8, <2>1, <2>4 DEF LedgerInTime, NoneLater
      <3>2. h <= clock /\ ~ledger[h].drain /\ (ledger[h].released => ~Late(h))
        BY <1>9, <1>11, <2>1, <2>2, <2>c, <2>4 DEF SInv, LaneInv, PlannedInTime
      <3> QED BY <2>3, <3>1, <3>2
    <2>5. PlannedInTime'
      BY <2>4 DEF PlannedInTime
    <2> QED BY <1>1, <1>2, <1>7, <1>8, <2>5, PassInTime DEF PaneKept
  <1> QED BY <1>6, <1>10, <1>11

\* Collapse leaves one fire of each recurrence.
LEMMA CollapseInTime ==
    ASSUME DInv, SInv, PlanDone \/ Collapse \/ CollapseDone
    PROVE  SInv'
  <1>1. /\ lane.at \in {"plan", "collapse"} /\ UNCHANGED <<tick, groups, replay, turn>>
    BY DEF PlanDone, Collapse, CollapseDone, transport
  <1>2. /\ lane.by = "replay" /\ lane \in Lane /\ lane.at \in Running
        /\ lane.todo \in SUBSET Fires /\ lane.keep \in SUBSET Fires
    BY <1>1, PassStages
  <1>3. Calm
    BY <1>2, MinIsFire DEF PlanDone, Collapse, CollapseDone, Calm
  <1>4. LedgerInTime /\ NoneReleased /\ RowsBelong
    BY <1>1, <1>3, LedgerMoves DEF PaneKept, LedgerInTime, RowsCalm, RowCalm, RowsBelong
  <1>5. Planned = lane.keep /\ PassSends
    BY <1>1, <1>2 DEF Planned, PassSends
  <1>6. CASE PlanDone
    <2>1. /\ lane'.by = "replay" /\ lane'.at = "collapse"
          /\ lane'.todo = lane.keep /\ lane'.keep = lane.keep
      BY <1>2, <1>6 DEF PlanDone, Lane
    <2>2. Planned' = Planned /\ PassSends' /\ OnePerRecurrence'
      BY <1>5, <2>1 DEF Planned, PassSends, OnePerRecurrence
    <2> QED BY <1>1, <1>2, <1>4, <2>1, <2>2, PassInTime DEF PaneKept
  <1>7. CASE CollapseDone
    <2>1. /\ lane.at = "collapse" /\ lane.todo = {}
          /\ lane'.by = "replay" /\ lane'.at = "deliver" /\ lane'.todo = lane.keep
      BY <1>2, <1>7 DEF CollapseDone, Lane
    <2>2. Planned' = lane.keep /\ PassSends'
      BY <2>1 DEF Planned, PassSends
    <2>3. \A f, g \in lane.keep : Twins(f, g) => f = g
      BY <2>1 DEF SInv, LaneInv, OnePerRecurrence
    <2>4. \A f, g \in Planned' : Twins(f, g)' => f = g
      BY <1>2, <1>4, <2>2, <2>3, TwinsKept
    <2>5. OnePerRecurrence'
      BY <2>1, <2>4 DEF OnePerRecurrence
    <2> QED BY <1>1, <1>2, <1>4, <1>5, <2>1, <2>2, <2>5, PassInTime DEF PaneKept
  <1>8. CASE Collapse
    <2> DEFINE f == Min(lane.todo)
    <2>1. /\ lane.at = "collapse" /\ lane.todo # {} /\ f \in lane.todo /\ f \in Fires
      BY <1>2, <1>8, MinIsFire DEF Collapse
    <2>2. /\ lane.todo \subseteq lane.keep
          /\ \A x \in lane.keep \ lane.todo, y \in lane.keep : Twins(x, y) => x = y
      BY <2>1 DEF SInv, LaneInv, OnePerRecurrence
    <2>3. /\ lane'.by = "replay" /\ lane'.at = "collapse" /\ lane'.todo = lane.todo \ {f}
          /\ \/ lane'.keep = lane.keep \ {f}
             \/ /\ lane'.keep = lane.keep
                /\ ~(Recurring(f) /\ \E g \in lane.todo \ {f} : ScheduleOf(g) = ScheduleOf(f))
      BY <1>2, <1>8, <2>1 DEF Collapse, Lane
    <2> HIDE DEF f
    <2>4. Planned' \subseteq Planned /\ PassSends'
      BY <1>5, <2>3 DEF Planned, PassSends
    <2>5. ASSUME NEW x \in lane'.keep \ lane'.todo, NEW y \in lane'.keep, Twins(x, y)
          PROVE  x = y
      <3>1. CASE lane'.keep = lane.keep \ {f}
        BY <2>2, <2>3, <2>5, <3>1
      <3>2. CASE /\ lane'.keep = lane.keep
                 /\ ~(Recurring(f) /\ \E g \in lane.todo \ {f} : ScheduleOf(g) = ScheduleOf(f))
        <4>1. CASE x # f
          BY <2>2, <2>3, <2>5, <3>2, <4>1
        <4>2. CASE x = f
          <5>1. Twins(y, x) /\ (y \notin lane.todo \/ y = f)
            BY <2>5, <3>2, <4>2 DEF Twins, Recurring
          <5> QED BY <2>2, <2>3, <2>5, <3>2, <4>2, <5>1
        <4> QED BY <4>1, <4>2
      <3> QED BY <2>3, <3>1, <3>2
    <2>6. \A x \in lane'.keep \ lane'.todo, y \in lane'.keep : Twins(x, y)' => x = y
      <3>1. lane'.keep \subseteq Fires
        BY <1>2, <2>3
      <3> QED BY <1>4, <2>5, <3>1, TwinsKept
    <2>7. OnePerRecurrence'
      BY <2>1, <2>2, <2>3, <2>6 DEF OnePerRecurrence
    <2> QED BY <1>1, <1>2, <1>4, <2>1, <2>3, <2>4, <2>7, PassInTime DEF PaneKept
  <1> QED BY <1>6, <1>7, <1>8

\* The pass delivers what it has planned and plans no more.
LEMMA DeliverInTime ==
    ASSUME DInv, SInv, DeliverNext \/ ReplayConfirmed \/ ReplayUndelivered
    PROVE  SInv'
  <1>1. /\ lane.by = "replay" /\ lane.at \in {"deliver", "wait"}
        /\ UNCHANGED <<tick, groups, replay, turn>>
        /\ lane.at \in Running \/ Yielded
    BY PassStages DEF DeliverNext, ReplayConfirmed, ReplayUndelivered, transport
  <1>2. /\ lane.todo \in SUBSET Fires /\ Planned \in SUBSET Fires /\ lane \in Lane
        /\ lane.at = "wait" => lane.fire \in Fires
    BY CarriedAreFires, LaneFire DEF DInv, DeliveryTypeOK
  <1>3. /\ Calm \/ (Yielded /\ \E f \in Fires : Confirm(f) /\ ledger[f].accepted)
        /\ lane'.by = "replay" /\ lane'.at \in {"deliver", "send"} /\ Planned' \subseteq Planned
    <2>1. CASE DeliverNext
      <3> DEFINE f == Min(lane.todo)
      <3>1. lane.at = "deliver" /\ lane.todo # {} /\ f \in lane.todo /\ f \in Fires
        BY <1>2, <2>1, MinIsFire DEF DeliverNext
      <3>2. Calm
        BY <2>1, <3>1 DEF DeliverNext, Calm
      <3>3. \/ lane' = [lane EXCEPT !.todo = {}]
            \/ lane' = [lane EXCEPT !.todo = @ \ {f}]
            \/ lane' = [lane EXCEPT !.todo = @ \ {f}, !.at = "send", !.fire = f, !.answer = "open"]
        BY <2>1 DEF DeliverNext
      <3> HIDE DEF f
      <3>4. Planned = lane.todo
        BY <1>1, <3>1 DEF Planned
      <3>5. /\ lane'.by = "replay"
            /\ \/ lane'.at = "deliver" /\ lane'.todo \subseteq lane.todo
               \/ lane'.at = "send" /\ lane'.todo \cup {lane'.fire} \subseteq lane.todo
        <4>1. CASE lane' = [lane EXCEPT !.todo = {}]
          BY <1>1, <1>2, <3>1, <4>1 DEF Lane
        <4>2. CASE lane' = [lane EXCEPT !.todo = @ \ {f}]
          BY <1>1, <1>2, <3>1, <4>2 DEF Lane
        <4>3. CASE lane' = [lane EXCEPT !.todo = @ \ {f}, !.at = "send", !.fire = f,
                                        !.answer = "open"]
          BY <1>1, <1>2, <3>1, <4>3 DEF Lane
        <4> QED BY <3>3, <4>1, <4>2, <4>3
      <3> QED BY <3>2, <3>4, <3>5 DEF Planned
    <2>2. CASE ReplayConfirmed
      <3>1. lane.at = "wait" /\ lane.answer = "true" /\ Confirm(lane.fire) /\ Yielded
        BY <2>2 DEF ReplayConfirmed
      <3>2. ledger[lane.fire].accepted
        BY <3>1 DEF SInv, ReceiptsEndTurns
      <3>3. lane'.by = "replay" /\ lane'.at = "deliver" /\ lane'.todo = lane.todo
        BY <2>2 DEF ReplayConfirmed, Free
      <3> QED BY <1>1, <1>2, <3>1, <3>2, <3>3 DEF Planned
    <2>3. CASE ReplayUndelivered
      <3>1. lane.at = "wait" /\ Calm
        BY <1>2, <2>3 DEF ReplayUndelivered, Calm
      <3>2. lane'.by = "replay" /\ lane'.at = "deliver" /\ lane'.todo = {}
        BY <2>3 DEF ReplayUndelivered, StopPass, Free
      <3> QED BY <3>1, <3>2 DEF Planned
    <2> QED BY <2>1, <2>2, <2>3
  <1>4. LedgerInTime /\ (NoneReleased \/ Steady)
    <2>1. LedgerInTime /\ (Calm => NoneReleased)
      BY <1>1, <1>3, LedgerMoves DEF PaneKept
    <2>2. Yielded => Steady
      BY DEF Yielded, Steady, Running
    <2> QED BY <1>3, <2>1, <2>2
  <1>5. RowsBelong
    BY <1>4 DEF LedgerInTime, RowsCalm, RowCalm, RowsBelong
  <1>6. OnePerRecurrence'
    <2>1. \A f, g \in Planned : Twins(f, g) => f = g
      BY <1>1 DEF SInv, LaneInv, OnePerRecurrence
    <2>2. \A f, g \in Planned' : Twins(f, g)' => f = g
      BY <1>2, <1>3, <1>5, <2>1, TwinsKept
    <2> QED BY <1>3, <2>2 DEF OnePerRecurrence
  <1>7. PassSends' /\ lane.at # "park"
    BY <1>1, <1>3 DEF PassSends
  <1> QED BY <1>1, <1>3, <1>4, <1>6, <1>7, PassInTime DEF PaneKept

\* When a pass is over, the cohorts that waited for it go ahead, or go away.
LEMMA PassOverInTime ==
    ASSUME DInv, SInv, LedgerInTime, NoneReleased \/ Steady,
           tick' = tick, PaneKept, lane.by = "replay", lane.at \in Running \/ Yielded,
           NEW again \in BOOLEAN, PassDone(again), lane' = Free
    PROVE  SInv'
  <1>1. tick = NoTick /\ tick'.claimed = {}
    BY DEF SInv, LaneInv, CohortsWait, Yielded, NoTick
  <1>2. \A g \in groups : ~g.ready
    BY DEF SInv, LaneInv, CohortsWait, DInv, DeliveryTypeOK, LaneProgram
  <1>3. ASSUME NEW g \in groups'
        PROVE  /\ ~again /\ g.ready
               /\ \E h \in groups : g = [fires |-> h.fires, ready |-> TRUE]
    <2>1. ~again
      BY <1>2, <1>3 DEF PassDone
    <2>2. PICK h \in groups : g = [h EXCEPT !.ready = TRUE]
      BY <1>3, <2>1 DEF PassDone
    <2>3. h \in [fires : SUBSET Fires, ready : BOOLEAN]
      BY DEF DInv, DeliveryTypeOK, Group
    <2>4. g = [fires |-> h.fires, ready |-> TRUE]
      BY <2>2, <2>3
    <2> QED BY <2>1, <2>4
  <1>4. replay'.task = (IF again THEN "due" ELSE "idle")
    BY DEF PassDone
  <1>5. /\ lane'.by = "nobody" /\ lane'.at = "free"
        /\ InLane' = {} /\ Planned' = {} /\ ~PassSends'
    BY DEF Free, InLane, Planned, PassSends
  <1>6. CohortsWait'
    <2>1. ASSUME NEW g \in groups' PROVE g.fires # {} /\ (g.ready <=> replay'.task = "idle")
      <3>1. PICK h \in groups : g = [fires |-> h.fires, ready |-> TRUE]
        BY <1>3, <2>1
      <3>2. h.fires # {}
        BY DEF SInv, LaneInv, CohortsWait
      <3> QED BY <1>3, <1>4, <2>1, <3>1, <3>2
    <2> QED BY <1>1, <2>1 DEF CohortsWait
  <1>7. InOrder'
    <2>1. ASSUME NEW g \in groups', NEW h \in groups'
          PROVE  g = h \/ Before(g.fires, h.fires) \/ Before(h.fires, g.fires)
      <3>1. PICK gg \in groups : g = [fires |-> gg.fires, ready |-> TRUE]
        BY <1>3, <2>1
      <3>2. PICK hh \in groups : h = [fires |-> hh.fires, ready |-> TRUE]
        BY <1>3, <2>1
      <3>3. gg = hh \/ Before(gg.fires, hh.fires) \/ Before(hh.fires, gg.fires)
        BY DEF SInv, LaneInv, InOrder
      <3> QED BY <3>1, <3>2, <3>3
    <2> QED BY <1>1, <1>5, <2>1 DEF InOrder, Before
  <1>8. ASSUME NEW g \in groups', NEW f \in g.fires
        PROVE  ~ledger'[f].released /\ g.ready /\ (Late(f)' => ~ledger'[f].drain)
    <2>1. PICK h \in groups : g = [fires |-> h.fires, ready |-> TRUE]
      BY <1>3, <1>8
    <2>2. /\ f \in Fires /\ ~ledger[f].released
          /\ ledger[f].drain => lane.at = "park" \/ h.ready
          /\ Late(f) => ~ledger[f].drain
      BY <1>8, <2>1, CarriedAreFires DEF SInv, LaneInv, CarriedInTime, WaitsInTime
    <2>3. RowCalm(f) /\ (Late(f)' => Late(f))
      BY <2>2 DEF LedgerInTime, RowsCalm, NoneLater
    <2>4. ~ledger'[f].released
      BY <2>1, <2>2, <2>3 DEF RowCalm, NoneReleased, Steady
    <2> QED BY <1>3, <1>8, <2>2, <2>3, <2>4 DEF RowCalm
  <1>9. \A g \in groups' : WaitsInTime(g)'
    BY <1>8 DEF WaitsInTime
  <1>10. PlannedInTime' /\ CarriedInTime' /\ LaneInOrder' /\ OnePerRecurrence'
    BY <1>1, <1>5, <1>9 DEF PlannedInTime, CarriedInTime, LaneInOrder, OnePerRecurrence
  <1>11. ReceiptsEndTurns'
    BY <1>5, ReceiptsQuiet
  <1> QED BY <1>6, <1>7, <1>10, <1>11 DEF SInv, LaneInv

\* A pass ends, or raises.
LEMMA PassEndsInTime ==
    ASSUME DInv, SInv, ProbeBusy \/ ParkDone \/ DeliverDone \/ PassFails
    PROVE  SInv'
  <1>1. /\ lane.at \in {"probe", "park", "deliver"} /\ lane' = Free
        /\ tick' = tick /\ turn' = turn
        /\ lane.at = "probe" => Yielded
    BY DEF ProbeBusy, ParkDone, DeliverDone, PassFails, EndPass, transport
  <1>2. lane.by = "replay" /\ (lane.at \in Running \/ Yielded) /\ replay.task = "running"
    BY <1>1, PassStages DEF DInv, LaneProgram
  <1>3. PICK again \in BOOLEAN : PassDone(again)
    <2>1. replay.again \in BOOLEAN /\ lane.any \in BOOLEAN
      BY DEF DInv, DeliveryTypeOK, Lane
    <2>2. \E confirmed \in BOOLEAN :
            \/ PassDone(replay.again \/ (confirmed /\ Debt(ledger')))
            \/ PassDone(FALSE)
      BY <2>1 DEF ProbeBusy, ParkDone, DeliverDone, PassFails, EndPass
    <2>3. \A b : replay.again \/ (b /\ Debt(ledger')) \in BOOLEAN
      OBVIOUS
    <2> QED BY <2>2, <2>3
  <1>4. Calm \/ (lane.at = "deliver" /\ ReleaseDrainParked)
    BY DEF ProbeBusy, ParkDone, DeliverDone, PassFails, EndPass, Calm
  <1>5. \A g \in groups : ~g.ready
    BY <1>2 DEF SInv, LaneInv, CohortsWait
  <1>6. LedgerInTime /\ (NoneReleased \/ Steady)
    BY <1>1, <1>4, <1>5, LedgerMoves DEF PaneKept, Steady
  <1> QED BY <1>1, <1>2, <1>3, <1>6, PassOverInTime DEF PaneKept

-----------------------------------------------------------------------------
(* The cohorts.                                                              *)

\* The next member of a cohort is the oldest of those it has left.
LEMMA NextInLane ==
    ASSUME NEW todo \in SUBSET Fires, lane' = NextMember(todo)
    PROVE  /\ lane'.by # "replay" /\ lane'.at \in {"free", "check"}
           /\ InLane' = todo /\ LaneInOrder' /\ OnePerRecurrence'
           /\ Planned' = {} /\ ~PassSends'
  <1>1. CASE todo = {}
    <2>1. lane'.by = "nobody" /\ lane'.at = "free"
      BY <1>1 DEF NextMember, Free
    <2> QED BY <1>1, <2>1 DEF InLane, LaneInOrder, OnePerRecurrence, Planned, PassSends
  <1>2. CASE todo # {}
    <2> DEFINE m == Min(todo)
    <2>1. todo \in SUBSET Nat
      BY FiresAssumption DEF Fires
    <2>2. m \in todo /\ \A x \in todo : m <= x
      BY <1>2, <2>1, MinIsLeast
    <2>3. lane' = [Free EXCEPT !.by = "cohort", !.at = "check", !.fire = m, !.todo = todo \ {m}]
      BY <1>2 DEF NextMember
    <2> HIDE DEF m
    <2>4. lane'.by = "cohort" /\ lane'.at = "check" /\ lane'.fire = m /\ lane'.todo = todo \ {m}
      BY <2>3 DEF Free
    <2>5. InLane' = todo
      BY <2>2, <2>4 DEF InLane
    <2>6. \A x \in todo \ {m} : m < x
      BY <2>1, <2>2
    <2>7. LaneInOrder'
      BY <2>4, <2>6 DEF LaneInOrder
    <2> QED BY <2>4, <2>5, <2>7 DEF OnePerRecurrence, Planned, PassSends
  <1> QED BY <1>1, <1>2

\* A cohort goes on with its next member.
LEMMA CohortGoesOn ==
    ASSUME DInv, SInv, LedgerInTime, NoneReleased \/ Steady, PaneKept,
           tick' = tick, groups' = groups, replay'.task = replay.task \/ groups = {},
           lane.by = "cohort", lane.at \in Running \/ Yielded,
           lane' = NextMember(lane.todo)
    PROVE  SInv'
  <1>1. lane.todo \in SUBSET Fires /\ lane.at \in {"check", "send", "wait"}
    BY CarriedAreFires
  <1>2. /\ lane'.at \in {"free", "check"} /\ InLane' = lane.todo /\ LaneInOrder'
        /\ OnePerRecurrence' /\ Planned' = {}
    BY <1>1, NextInLane
  <1>3. lane.todo \subseteq InLane /\ ~PassSends
    BY DEF InLane, PassSends
  <1>4. tick = NoTick
    BY DEF SInv, LaneInv, CohortsWait, Yielded
  <1>5. InOrder' /\ PlannedInTime' /\ CarriedInTime'
    BY <1>1, <1>2, <1>3, StillInTime DEF SInv, LedgerInTime
  <1>6. CohortsWait'
    BY <1>4 DEF SInv, LaneInv, CohortsWait
  <1>7. ReceiptsEndTurns'
    BY <1>2, ReceiptsQuiet
  <1> QED BY <1>2, <1>5, <1>6, <1>7 DEF SInv, LaneInv

\* A cohort leaves its rows to the replay.
LEMMA DeferInTime ==
    ASSUME DInv, SInv, NEW g \in groups, CohortDefer(g)
    PROVE  SInv'
  <1>1. /\ tick = NoTick /\ groups' = groups \ {g}
        /\ UNCHANGED <<ledgerVars, tick, replay, lane, turn>>
    BY DEF CohortDefer, transport
  <1>2. LedgerInTime /\ NoneReleased
    BY <1>1, LedgerMoves DEF PaneKept, Calm
  <1>3. InLane' = InLane /\ Planned' = Planned /\ PassSends' = PassSends
    BY <1>1 DEF InLane, Planned, PassSends
  <1>4. InOrder' /\ PlannedInTime' /\ CarriedInTime'
    BY <1>1, <1>2, <1>3, StillInTime DEF SInv, LedgerInTime
  <1>5. CohortsWait'
    BY <1>1 DEF SInv, LaneInv, CohortsWait
  <1>6. LaneInOrder' /\ OnePerRecurrence'
    BY <1>1, <1>3 DEF SInv, LaneInv, LaneInOrder, OnePerRecurrence, Twins, Recurring, ScheduleOf,
                      ledgerVars
  <1>7. ReceiptsEndTurns'
    BY <1>1 DEF SInv, ReceiptsEndTurns, InPane, ledgerVars
  <1> QED BY <1>4, <1>5, <1>6, <1>7 DEF SInv, LaneInv

\* A cohort gets the lane: the oldest of those that are ready, and then all are.
LEMMA TakeInTime ==
    ASSUME DInv, SInv, NEW g \in groups, CohortTake(g)
    PROVE  SInv'
  <1>1. /\ tick = NoTick /\ First(g) /\ lane.by = "nobody" /\ groups' = groups \ {g}
        /\ lane' = NextMember(g.fires)
        /\ UNCHANGED <<ledgerVars, tick, replay, turn>>
    BY DEF CohortTake, transport
  <1>2. LedgerInTime
    BY <1>1, LedgerMoves DEF PaneKept, Calm
  <1>3. \A h \in groups : h.fires \in SUBSET Fires /\ h.fires # {} /\ h.ready
    <2>1. g.ready
      BY <1>1 DEF First
    <2> QED BY <2>1, CarriedAreFires DEF SInv, LaneInv, CohortsWait
  <1>4. /\ lane'.at \in {"free", "check"} /\ InLane' = g.fires /\ LaneInOrder'
        /\ OnePerRecurrence' /\ Planned' = {}
    BY <1>1, <1>3, NextInLane
  <1>5. lane.at # "park" /\ ~PassSends
    BY <1>1 DEF PassSends, DInv, LaneProgram
  <1>6. ASSUME NEW h \in groups, h # g PROVE Before(g.fires, h.fires)
    <2>1. Before(g.fires, h.fires) \/ Before(h.fires, g.fires)
      BY <1>6 DEF SInv, LaneInv, InOrder
    <2>2. Min(g.fires) <= Min(h.fires)
      BY <1>1, <1>3 DEF First
    <2>3. /\ Min(g.fires) \in g.fires /\ Min(h.fires) \in h.fires
          /\ Min(g.fires) \in Nat /\ Min(h.fires) \in Nat
      BY <1>3, MinIsFire, FiresAssumption DEF Fires
    <2>4. ~Before(h.fires, g.fires)
      BY <2>2, <2>3 DEF Before
    <2> QED BY <2>1, <2>4
  <1>7. InOrder'
    <2>1. tick'.claimed = {}
      BY <1>1 DEF NoTick
    <2>2. \A h, k \in groups' : h = k \/ Before(h.fires, k.fires) \/ Before(k.fires, h.fires)
      BY <1>1 DEF SInv, LaneInv, InOrder
    <2> QED BY <1>1, <1>4, <1>6, <2>1, <2>2 DEF InOrder, Before
  <1>8. CohortsWait'
    BY <1>1 DEF SInv, LaneInv, CohortsWait
  <1>9. ledger' = ledger /\ \A f \in Fires : Late(f)' => Late(f)
    BY <1>1, <1>2 DEF LedgerInTime, NoneLater, ledgerVars
  <1>10. ASSUME NEW h \in groups, NEW f \in h.fires
         PROVE  ~ledger'[f].released /\ (Late(f)' => ~ledger'[f].drain)
    <2>1. f \in Fires
      BY <1>3
    <2>2. ~ledger[f].released /\ (Late(f) => ~ledger[f].drain)
      BY DEF SInv, LaneInv, CarriedInTime, WaitsInTime
    <2> QED BY <1>9, <2>1, <2>2
  <1>11. CarriedInTime'
    <2>1. tick'.claimed = {}
      BY <1>1 DEF NoTick
    <2>2. \A f \in InLane' : Drained(f)' => ~Late(f)'
      BY <1>4, <1>10 DEF Drained
    <2>3. \A h \in groups' : WaitsInTime(h)'
      BY <1>1, <1>3, <1>10 DEF WaitsInTime
    <2> QED BY <2>1, <2>2, <2>3 DEF CarriedInTime
  <1>12. ReceiptsEndTurns'
    BY <1>1, <1>2, <1>4, ReceiptsQuiet DEF PaneKept
  <1> QED BY <1>4, <1>7, <1>8, <1>11, <1>12 DEF SInv, LaneInv, PlannedInTime

\* The cohort writes its fire's row again: what it carries is in nobody else's hands.
LEMMA PersistInTime ==
    ASSUME DInv, SInv, lane.at = "check", PersistFire(lane.fire),
           UNCHANGED <<tick, groups, replay, lane, turn>>
    PROVE  SInv'
  <1>0. PICK f \in Fires : f = lane.fire
    BY LaneFire
  <1>1. lane.by = "cohort" /\ f \in Members /\ f \notin lane.todo
    BY <1>0 DEF DInv, LaneProgram, Carriers, Members
  <1>2. /\ RowsCalm /\ NoneReleased /\ FloorsKept /\ clock' = clock
        /\ ~ledger'[f].drain /\ ~ledger'[f].released
        /\ \A g \in Fires : ledger'[g].accepted => ledger[g].accepted
        /\ \A g \in Fires : g # f => ledger'[g] = ledger[g]
    BY <1>0, RewriteKeeps DEF DInv
  <1>3. tick = NoTick /\ tick'.claimed = {}
    BY DEF SInv, LaneInv, CohortsWait, Running, NoTick
  <1>4. RowsBelong
    BY <1>2 DEF RowsCalm, RowCalm, RowsBelong
  <1>5. /\ InLane' = InLane /\ Planned' = Planned /\ (PassSends => PassSends')
        /\ LaneInOrder' /\ OnePerRecurrence'
    BY <1>4, HeldKeeps DEF LaneHeld, SInv
  <1>6. Planned' = {} /\ InLane = lane.todo \cup {f} /\ lane.todo \in SUBSET Fires
    BY <1>0, <1>1, <1>5, CarriedAreFires DEF Planned, InLane
  <1>7. ASSUME NEW h \in Fires, h # f, Late(h)' PROVE Late(h)
    <2>1. Stored(h) /\ ledger[h].pasted = NoSession
      BY <1>2, <1>7 DEF Late, Stored
    <2> QED BY <1>2, <1>4, <1>7, <2>1, LateFrame DEF RowsBelong, InPane
  <1>8. \A h \in InLane' : Drained(h)' => ~Late(h)'
    <2> SUFFICES ASSUME NEW h \in InLane', Drained(h)' PROVE ~Late(h)'
      OBVIOUS
    <2>1. h # f
      BY <1>2 DEF Drained
    <2>2. h \in Fires /\ (Drained(h) => ~Late(h))
      BY <1>5, CarriedAreFires DEF SInv, LaneInv, CarriedInTime
    <2> QED BY <1>2, <1>7, <2>1, <2>2 DEF Drained
  <1>9. ASSUME NEW g \in groups, NEW h \in g.fires
        PROVE  /\ ~ledger'[h].released
               /\ ledger'[h].drain => lane'.at = "park" \/ g.ready
               /\ Late(h)' => ~ledger'[h].drain /\ (g.ready \/ PassSends')
    <2>1. h # f /\ h \in Fires
      BY <1>1, CarriedAreFires DEF DInv, Carriers
    <2>2. /\ ~ledger[h].released
          /\ ledger[h].drain => lane.at = "park" \/ g.ready
          /\ Late(h) => ~ledger[h].drain /\ (g.ready \/ PassSends)
      BY DEF SInv, LaneInv, CarriedInTime, WaitsInTime
    <2> QED BY <1>2, <1>5, <1>7, <2>1, <2>2
  <1>10. CarriedInTime' /\ PlannedInTime'
    BY <1>3, <1>6, <1>8, <1>9 DEF CarriedInTime, WaitsInTime, PlannedInTime
  <1>11. InOrder' /\ CohortsWait'
    BY <1>5 DEF InOrder, CohortsWait, Before, SInv, LaneInv
  <1>12. ReceiptsEndTurns'
    <2>1. \A g \in Fires : InPane(g)' => InPane(g) /\ (ledger'[g].accepted => ledger[g].accepted)
      BY <1>2 DEF InPane
    <2> QED BY <1>2, <2>1, ReceiptsFrame DEF SInv, DInv
  <1> QED BY <1>5, <1>10, <1>11, <1>12 DEF SInv, LaneInv

\* What a cohort does with its member before it sends the prompt.
LEMMA CheckInTime ==
    ASSUME DInv, SInv, CohortCheck
    PROVE  SInv'
  <1>1. /\ lane.at = "check" /\ lane.by = "cohort" /\ lane \in Lane /\ lane.fire \in Fires
        /\ UNCHANGED <<tick, groups, replay, turn>>
    BY LaneFire DEF CohortCheck, DInv, LaneProgram, DeliveryTypeOK, transport
  <1>2. lane.at \in Running
    BY <1>1 DEF Running
  <1>3. CASE PersistFire(lane.fire) /\ lane' = lane
    BY <1>1, <1>3, PersistInTime
  <1>4. CASE lane' = NextMember(lane.todo) /\ (UNCHANGED ledgerVars \/ DeleteStale(lane.fire))
    <2>1. LedgerInTime /\ NoneReleased
      BY <1>1, <1>4, LedgerMoves DEF PaneKept, Calm
    <2> QED BY <1>1, <1>2, <1>4, <2>1, CohortGoesOn DEF PaneKept
  <1>5. CASE lane' = [lane EXCEPT !.at = "send"] /\ UNCHANGED ledgerVars
    <2>1. LaneHeld /\ lane'.at = "send"
      BY <1>1, <1>5 DEF LaneHeld, Lane
    <2>2. Calm /\ \A f \in Fires : InPane(f)' => InPane(f)
      BY <1>1, <1>5 DEF Calm, InPane
    <2> QED BY <1>1, <2>1, <2>2, CalmAside
  <1> QED BY <1>3, <1>4, <1>5 DEF CohortCheck

\* The receipt of a cohort's prompt, or that there is none.
LEMMA CohortToldInTime ==
    ASSUME DInv, SInv, CohortConfirmed \/ CohortUndelivered
    PROVE  SInv'
  <1>1. /\ Yielded /\ lane.by = "cohort" /\ lane.at = "wait" /\ lane' = NextMember(lane.todo)
        /\ UNCHANGED <<tick, groups, turn>> /\ (replay' = replay \/ replay' = Requested)
    BY DEF CohortConfirmed, CohortUndelivered, transport
  <1>2. lane.fire \in Fires
    BY <1>1, LaneFire
  <1>3. Calm \/ \E f \in Fires : Confirm(f) /\ ledger[f].accepted
    <2>1. CASE CohortUndelivered
      BY <2>1 DEF CohortUndelivered, Calm
    <2>2. CASE CohortConfirmed
      <3>1. lane.answer = "true" /\ Confirm(lane.fire)
        BY <2>2 DEF CohortConfirmed
      <3>2. ledger[lane.fire].accepted
        BY <1>1, <3>1 DEF SInv, ReceiptsEndTurns
      <3> QED BY <1>2, <3>1, <3>2
    <2> QED BY <2>1, <2>2
  <1>4. LedgerInTime
    BY <1>1, <1>3, LedgerMoves DEF PaneKept
  <1>5. Steady
    BY <1>1 DEF Yielded, Steady, Running
  <1>6. replay'.task = replay.task \/ groups = {}
    BY <1>1, RequestFindsNone DEF SInv, DInv, DeliveryTypeOK
  <1> QED BY <1>1, <1>4, <1>5, <1>6, CohortGoesOn DEF PaneKept

\* A budget is spent: the cohort goes on, the pass stops.
LEMMA CappedInTime ==
    ASSUME DInv, SInv, NEW f \in Fires, TimeoutCapped(f)
    PROVE  SInv'
  <1>1. /\ Yielded /\ lane.at \in {"send", "wait"}
        /\ turn' = turn \/ turn' = [turn EXCEPT ![f] = "none"]
        /\ UNCHANGED <<tick, groups, replay>>
        /\ lane' = IF lane.by = "replay" THEN StopPass ELSE NextMember(lane.todo)
    BY DEF TimeoutCapped, Waits
  <1>2. turn \in [Fires -> Turn] /\ lane.by \in {"cohort", "replay"}
    BY <1>1 DEF DInv, DeliveryTypeOK, LaneProgram, Lane
  <1>3. Calm
    BY DEF TimeoutCapped, Calm
  <1>4. PaneKept
    BY <1>1, <1>2 DEF PaneKept, InPane
  <1>5. LedgerInTime /\ NoneReleased
    BY <1>3, <1>4, LedgerMoves
  <1>6. CASE lane.by = "cohort"
    BY <1>1, <1>4, <1>5, <1>6, CohortGoesOn
  <1>7. CASE lane.by = "replay"
    <2>1. lane'.by = "replay" /\ lane'.at = "deliver" /\ lane'.todo = {}
      BY <1>1, <1>7 DEF StopPass, Free
    <2>2. Planned' = {} /\ PassSends' /\ OnePerRecurrence'
      BY <2>1 DEF Planned, PassSends, OnePerRecurrence
    <2> QED BY <1>1, <1>4, <1>5, <1>7, <2>1, <2>2, PassInTime
  <1> QED BY <1>2, <1>6, <1>7

-----------------------------------------------------------------------------
(* The tick, the start of a pass, a crash.                                   *)

\* A new fire comes after all that is carried, and is not late.
LEMMA ClaimInTime ==
    ASSUME DInv, SInv, NEW s \in Schedules, TickClaim(s)
    PROVE  SInv'
  <1>n. PICK n \in Fires : n = clock + 1
    BY FiresAssumption DEF TickClaim, ClaimFire, DInv, LInv, LedgerTypeOK, Fires
  <1>1. /\ lane.at \notin Running /\ \A g \in groups : ~g.ready
        /\ ClaimFire(s, schedule[s].lastRun)
        /\ tick'.claimed = tick.claimed \cup {n}
        /\ UNCHANGED <<groups, replay, lane, turn>>
    BY <1>n DEF TickClaim, transport
  <1>t. /\ ledger \in [Fires -> Row] /\ schedule \in [Schedules -> ScheduleRow] /\ clock \in Nat
        /\ clock' = n /\ \A f \in Fires : f \in Nat
    BY <1>n, <1>1, FiresAssumption DEF DInv, LInv, LedgerTypeOK, ClaimFire, Fires
  <1>2. /\ \A f \in Fires : f # n => ledger'[f] = ledger[f]
        /\ ledger'[n] = Blank(s, "yes") /\ FloorsKept
    BY <1>n, <1>1, <1>t DEF ClaimFire, FloorsKept, ScheduleRow
  <1>3. ~ledger'[n].drain /\ ~ledger'[n].released /\ ~ledger'[n].accepted
    BY <1>2 DEF Blank
  <1>4. \A f \in Fires : f # n \/ ~Stored(f)
    BY <1>n, <1>t DEF DInv, LInv, RowsAreClaimed, Stored
  <1>5. \A f \in Fires : InPane(f)' <=> InPane(f)
    BY <1>1 DEF InPane
  <1>6. \A f \in Fires : InPane(f) => Stored(f) /\ f <= clock
    <2> SUFFICES ASSUME NEW f \in Fires, InPane(f) PROVE Stored(f) /\ f <= clock
      OBVIOUS
    <2>1. Stored(f)
      BY DEF DInv, TurnInv, TurnsAreOwed, InPane
    <2> QED BY <1>t, <2>1 DEF DInv, LInv, RowsAreClaimed, Stored
  <1>7. ASSUME NEW f \in Fires, f # n, Late(f)' PROVE Late(f)
    <2>1. /\ Stored(f) /\ ledger[f].pasted = NoSession /\ Recurring(f)
          /\ ScheduleOf(f)' = ScheduleOf(f) /\ ScheduleOf(f) \in Schedules
      BY <1>2, <1>7 DEF Late, Stored, Recurring, ScheduleOf
    <2>2. CASE f <= schedule'[ScheduleOf(f)].highWater
      BY <1>2, <2>1, <2>2 DEF FloorsKept, Late, Overtaken
    <2>3. CASE \E g \in Fires : g > f /\ ScheduleOf(g)' = ScheduleOf(f)' /\ InPane(g)'
      <3>1. PICK g \in Fires : g > f /\ ScheduleOf(g)' = ScheduleOf(f)' /\ InPane(g)'
        BY <2>3
      <3>2. ScheduleOf(g)' = ScheduleOf(g) /\ InPane(g)
        BY <1>2, <1>4, <1>5, <1>6, <3>1 DEF ScheduleOf
      <3> QED BY <2>1, <3>1, <3>2 DEF Late, Overtaken
    <2> QED BY <1>7, <2>1, <2>2, <2>3 DEF Late, Overtaken
  <1>8. ~Late(n)'
    <2> SUFFICES ASSUME Late(n)' PROVE FALSE
      OBVIOUS
    <2>1. ScheduleOf(n)' = s
      BY <1>2 DEF ScheduleOf, Blank
    <2>2. ~(n <= schedule'[s].highWater)
      <3>1. schedule'[s].highWater = schedule[s].highWater /\ schedule[s].highWater <= clock
        BY <1>2 DEF FloorsKept, SInv, ReceiptsEndTurns
      <3>2. schedule[s].highWater \in Nat
        BY <1>t, FiresAssumption DEF ScheduleRow
      <3> QED BY <1>n, <1>t, <3>1, <3>2
    <2>3. \A g \in Fires : InPane(g)' => ~(g > n)
      BY <1>n, <1>5, <1>6, <1>t
    <2> QED BY <2>1, <2>2, <2>3 DEF Late, Overtaken
  <1>9. /\ \A f \in tick.claimed : f \in Fires /\ f < n
        /\ \A f \in InLane : f \in Fires /\ f < n
        /\ \A g \in groups : \A f \in g.fires : f \in Fires /\ f < n
        /\ \A f \in Planned : f \in Fires /\ f < n
    <2>1. /\ tick.claimed \subseteq 1..clock /\ \A g \in groups : g.fires \subseteq 1..clock
          /\ InLane \subseteq 1..clock
      BY DEF DInv, Carriers, Members, InLane, LaneProgram, DeliveryTypeOK, Lane, Stage
    <2>2. \A f \in Planned : f <= clock
      BY DEF SInv, LaneInv, PlannedInTime
    <2>3. \A f \in 1..clock : f < n
      BY <1>n, <1>t
    <2>4. \A f \in Planned : f \in Fires
      BY CarriedAreFires
    <2>5. ASSUME NEW f \in Planned PROVE f < n
      <3>1. f \in Nat /\ f <= clock /\ clock \in Nat
        BY <1>t, <2>2, <2>4
      <3> QED BY <1>n, <3>1
    <2> QED BY <2>1, <2>3, <2>4, <2>5, CarriedAreFires
  <1>10. InLane' = InLane /\ Planned' = Planned /\ PassSends' = PassSends
    BY <1>1 DEF InLane, Planned, PassSends
  <1>11. InOrder'
    <2>1. \A g \in groups' : Before(InLane', g.fires) /\ Before(g.fires, tick'.claimed)
      BY <1>1, <1>9, <1>10 DEF SInv, LaneInv, InOrder, Before
    <2>2. Before(InLane', tick'.claimed)
      BY <1>1, <1>9, <1>10 DEF SInv, LaneInv, InOrder, Before
    <2> QED BY <1>1, <2>1, <2>2 DEF SInv, LaneInv, InOrder
  <1>12. \A f \in tick'.claimed : ~Drained(f)' /\ ~Late(f)'
    <2> SUFFICES ASSUME NEW f \in tick'.claimed PROVE ~Drained(f)' /\ ~Late(f)'
      OBVIOUS
    <2>1. CASE f = n
      BY <1>3, <1>8, <2>1 DEF Drained
    <2>2. CASE f # n
      <3>1. f \in Fires /\ ~Drained(f) /\ ~Late(f)
        BY <1>1, <1>9, <2>2 DEF SInv, LaneInv, CarriedInTime
      <3> QED BY <1>2, <1>7, <2>2, <3>1 DEF Drained
    <2> QED BY <2>1, <2>2
  <1>13. \A f \in InLane' : Drained(f)' => ~Late(f)'
    <2> SUFFICES ASSUME NEW f \in InLane', Drained(f)' PROVE ~Late(f)'
      OBVIOUS
    <2>1. f \in Fires /\ f # n /\ (Drained(f) => ~Late(f))
      BY <1>9, <1>10, <1>t DEF SInv, LaneInv, CarriedInTime
    <2> QED BY <1>2, <1>7, <2>1 DEF Drained
  <1>14. ASSUME NEW g \in groups, NEW h \in g.fires
         PROVE  /\ ~ledger'[h].released
                /\ ledger'[h].drain => lane'.at = "park" \/ g.ready
                /\ Late(h)' => ~ledger'[h].drain /\ (g.ready \/ PassSends')
    <2>1. h # n /\ h \in Fires
      BY <1>9, <1>t
    <2>2. /\ ~ledger[h].released
          /\ ledger[h].drain => lane.at = "park" \/ g.ready
          /\ Late(h) => ~ledger[h].drain /\ (g.ready \/ PassSends)
      BY DEF SInv, LaneInv, CarriedInTime, WaitsInTime
    <2> QED BY <1>1, <1>2, <1>7, <1>10, <2>1, <2>2
  <1>15. CarriedInTime'
    BY <1>1, <1>12, <1>13, <1>14 DEF CarriedInTime, WaitsInTime
  <1>16. PlannedInTime'
    <2> SUFFICES ASSUME NEW f \in Planned
                 PROVE  f <= clock' /\ ~ledger'[f].drain /\ (ledger'[f].released => ~Late(f)')
      BY <1>10 DEF PlannedInTime
    <2>1. f \in Fires /\ f < n
      BY <1>9
    <2>2. ~ledger[f].drain /\ (ledger[f].released => ~Late(f))
      BY DEF SInv, LaneInv, PlannedInTime
    <2> QED BY <1>2, <1>7, <1>t, <2>1, <2>2
  <1>17. OnePerRecurrence'
    <2>1. \A f, g \in Planned : Twins(f, g)' => Twins(f, g)
      BY <1>2, <1>9, <1>t DEF Twins, Recurring, ScheduleOf
    <2> QED BY <1>1, <1>10, <2>1 DEF SInv, LaneInv, OnePerRecurrence, Running
  <1>18. CohortsWait' /\ LaneInOrder'
    BY <1>1 DEF SInv, LaneInv, CohortsWait, LaneInOrder
  <1>19. ReceiptsEndTurns'
    <2>1. \A f \in Fires : InPane(f)' => InPane(f) /\ (ledger'[f].accepted => ledger[f].accepted)
      BY <1>2, <1>3, <1>5
    <2>2. lane.at = "wait" => lane.fire \in Fires /\ Stored(lane.fire)
      BY LaneFire DEF DInv, LaneProgram
    <2>3. lane.at = "wait" => ledger'[lane.fire] = ledger[lane.fire]
      BY <1>2, <1>4, <2>2
    <2> QED BY <1>n, <1>1, <1>2, <1>t, <2>1, <2>3, ReceiptsFrame DEF SInv, DInv
  <1> QED BY <1>11, <1>15, <1>16, <1>17, <1>18, <1>19 DEF SInv, LaneInv

\* The tick hands its fires over to a cohort, the youngest.
LEMMA TickEndInTime ==
    ASSUME DInv, SInv, TickEnd
    PROVE  SInv'
  <1>1. /\ tick.claimed # {} /\ tick' = NoTick /\ tick'.claimed = {}
        /\ UNCHANGED <<ledgerVars, replay, lane, turn>>
    BY DEF TickEnd, NoTick, transport
  <1>2. PICK new : /\ new = [fires |-> tick.claimed, ready |-> replay.task = "idle"]
                   /\ groups' = groups \cup {new}
    BY DEF TickEnd
  <1>3. new.fires = tick.claimed /\ (new.ready <=> replay.task = "idle")
    BY <1>2
  <1>4. InLane' = InLane /\ Planned' = Planned /\ PassSends' = PassSends
    BY <1>1 DEF InLane, Planned, PassSends
  <1>5. CohortsWait'
    BY <1>1, <1>2, <1>3 DEF SInv, LaneInv, CohortsWait
  <1>6. InOrder'
    <2>1. \A g \in groups : Before(g.fires, new.fires)
      BY <1>3 DEF SInv, LaneInv, InOrder
    <2>2. \A g, h \in groups' : g = h \/ Before(g.fires, h.fires) \/ Before(h.fires, g.fires)
      BY <1>2, <2>1 DEF SInv, LaneInv, InOrder
    <2>3. \A g \in groups' : Before(InLane', g.fires) /\ Before(g.fires, tick'.claimed)
      BY <1>1, <1>2, <1>3, <1>4 DEF SInv, LaneInv, InOrder, Before
    <2> QED BY <1>1, <2>2, <2>3 DEF InOrder, Before
  <1>7. LedgerInTime /\ ledger' = ledger
    BY <1>1, LedgerMoves DEF PaneKept, Calm, ledgerVars
  <1>8. \A f \in Fires : Late(f)' => Late(f)
    BY <1>7 DEF LedgerInTime, NoneLater
  <1>9. ASSUME NEW g \in groups', NEW f \in g.fires
        PROVE  /\ ~ledger'[f].released
               /\ ledger'[f].drain => lane'.at = "park" \/ g.ready
               /\ Late(f)' => ~ledger'[f].drain /\ (g.ready \/ PassSends')
    <2>1. CASE g \in groups
      <3>1. f \in Fires
        BY <2>1, CarriedAreFires
      <3>2. /\ ~ledger[f].released
            /\ ledger[f].drain => lane.at = "park" \/ g.ready
            /\ Late(f) => ~ledger[f].drain /\ (g.ready \/ PassSends)
        BY <2>1 DEF SInv, LaneInv, CarriedInTime, WaitsInTime
      <3> QED BY <1>1, <1>4, <1>7, <1>8, <3>1, <3>2
    <2>2. CASE g = new
      <3>1. f \in Fires /\ ~Drained(f) /\ ~Late(f)
        BY <1>3, <1>9, <2>2, CarriedAreFires DEF SInv, LaneInv, CarriedInTime
      <3> QED BY <1>7, <1>8, <3>1 DEF Drained
    <2> QED BY <1>2, <2>1, <2>2
  <1>10. \A f \in InLane' : Drained(f)' => ~Late(f)'
    <2>1. \A f \in InLane : f \in Fires /\ (Drained(f) => ~Late(f))
      BY CarriedAreFires DEF SInv, LaneInv, CarriedInTime
    <2> QED BY <1>4, <1>7, <1>8, <2>1 DEF Drained
  <1>11. CarriedInTime'
    BY <1>1, <1>9, <1>10 DEF CarriedInTime, WaitsInTime
  <1>12. PlannedInTime'
    <2>1. ASSUME NEW f \in Planned
          PROVE  f <= clock' /\ ~ledger'[f].drain /\ (ledger'[f].released => ~Late(f)')
      <3>1. f \in Fires /\ f <= clock /\ ~ledger[f].drain /\ (ledger[f].released => ~Late(f))
        BY CarriedAreFires DEF SInv, LaneInv, PlannedInTime
      <3> QED BY <1>7, <1>8, <3>1 DEF LedgerInTime
    <2> QED BY <1>4, <2>1 DEF PlannedInTime
  <1>13. LaneInOrder' /\ OnePerRecurrence'
    BY <1>1, <1>4, <1>7 DEF SInv, LaneInv, LaneInOrder, OnePerRecurrence, Twins, Recurring,
                            ScheduleOf
  <1>14. ReceiptsEndTurns'
    BY <1>1 DEF SInv, ReceiptsEndTurns, InPane, ledgerVars
  <1> QED BY <1>5, <1>6, <1>11, <1>12, <1>13, <1>14 DEF SInv, LaneInv

\* A pass gets the lane, with nothing planned.
LEMMA ReplayTakeInTime ==
    ASSUME DInv, SInv, ReplayTake
    PROVE  SInv'
  <1>1. /\ Yielded /\ replay.task = "due" /\ lane.by = "nobody" /\ replay'.task = "running"
        /\ lane' = [Free EXCEPT !.by = "replay", !.at = "settle", !.todo = 1..clock]
        /\ UNCHANGED <<ledgerVars, tick, groups, turn>>
    BY DEF ReplayTake, transport, DInv, DeliveryTypeOK
  <1>2. lane'.by = "replay" /\ lane'.at = "settle" /\ lane'.keep = {} /\ lane.at = "free"
    BY <1>1 DEF Free, DInv, LaneProgram
  <1>3. InLane' = {} /\ Planned' = {} /\ ~PassSends
    BY <1>1, <1>2 DEF InLane, Planned, PassSends
  <1>4. LedgerInTime /\ NoneReleased
    BY <1>1, LedgerMoves DEF PaneKept, Calm
  <1>5. InOrder' /\ PlannedInTime' /\ CarriedInTime'
    BY <1>1, <1>2, <1>3, <1>4, StillInTime DEF SInv, LedgerInTime
  <1>6. CohortsWait'
    BY <1>1 DEF SInv, LaneInv, CohortsWait, Yielded
  <1>7. LaneInOrder' /\ OnePerRecurrence'
    BY <1>2 DEF LaneInOrder, OnePerRecurrence
  <1>8. ReceiptsEndTurns'
    BY <1>1, <1>2, <1>4, ReceiptsQuiet DEF PaneKept
  <1> QED BY <1>5, <1>6, <1>7, <1>8 DEF SInv, LaneInv

\* A crash leaves nothing carried and no turn open, and keeps the floors.
LEMMA CrashInTime ==
    ASSUME DInv, SInv, Crash
    PROVE  SInv'
  <1>1. /\ tick' = NoTick /\ groups' = {} /\ lane' = Free /\ turn' = [f \in Fires |-> "none"]
        /\ clock' = clock /\ schedule' = schedule
    BY DEF Crash, ledgerVars
  <1>2. lane'.by = "nobody" /\ lane'.at = "free" /\ tick'.claimed = {}
    BY <1>1 DEF Free, NoTick
  <1>3. InLane' = {} /\ Planned' = {} /\ \A f \in Fires : ~InPane(f)'
    BY <1>1, <1>2 DEF InLane, Planned, InPane
  <1>4. CohortsWait' /\ InOrder' /\ LaneInOrder' /\ OnePerRecurrence'
    BY <1>1, <1>2, <1>3 DEF CohortsWait, InOrder, Before, LaneInOrder, OnePerRecurrence
  <1>5. PlannedInTime' /\ CarriedInTime'
    BY <1>1, <1>2, <1>3 DEF PlannedInTime, CarriedInTime
  <1>6. ReceiptsEndTurns'
    BY <1>1, <1>2, <1>3 DEF SInv, ReceiptsEndTurns
  <1> QED BY <1>4, <1>5, <1>6 DEF SInv, LaneInv

-----------------------------------------------------------------------------
(* The paste.                                                                *)

\* Who is in hand when a prompt enters the pane: its fire goes first, and is the only one
\* of its recurrence in a pass.
LEMMA MarkInTime ==
    ASSUME DInv, SInv, NEW f \in Fires, Mark(f)
    PROVE  SInv'
  <1>1. /\ Yielded /\ turn[f] = "queued" /\ MarkPasted(f, session) /\ session # NoSession
        /\ turn' = [turn EXCEPT ![f] = "marked"]
        /\ UNCHANGED <<tick, groups, replay, lane>>
    BY DEF Mark, tasks
  <1>t. /\ ledger \in [Fires -> Row] /\ turn \in [Fires -> Turn] /\ session \in Sessions
    BY <1>1 DEF DInv, LInv, LedgerTypeOK, DeliveryTypeOK
  <1>2. /\ Active(f) /\ ledger[f].pasted = NoSession /\ clock' = clock /\ schedule' = schedule
        /\ ledger' = [ledger EXCEPT ![f].pasted = session]
    BY <1>1 DEF MarkPasted
  <1>3. /\ \A h \in Fires : h # f => ledger'[h] = ledger[h]
        /\ \A h \in Fires : /\ ledger'[h].schedule = ledger[h].schedule
                            /\ ledger'[h].drain = ledger[h].drain
                            /\ ledger'[h].released = ledger[h].released
                            /\ ledger'[h].accepted = ledger[h].accepted
        /\ ledger'[f].pasted = session
    BY <1>t, <1>2 DEF Row
  <1>4. \A h \in Fires : InPane(h)' <=> h = f \/ InPane(h)
    BY <1>t, <1>1 DEF InPane
  <1>5. RowsBelong /\ LaneHeld
    BY <1>1, <1>3 DEF RowsBelong, LaneHeld
  <1>6. /\ InLane' = InLane /\ Planned' = Planned /\ (PassSends => PassSends')
        /\ LaneInOrder' /\ OnePerRecurrence'
    BY <1>5, HeldKeeps DEF SInv
  <1>7. /\ lane.at = "wait" /\ lane.fire = f /\ lane.by \in {"cohort", "replay"}
        /\ tick = NoTick /\ \A g \in groups : ~g.ready
    <2>1. Waits(f)
      BY <1>1, <1>2 DEF DInv, TurnInv, TurnsAreOwed
    <2> QED BY <1>1, <2>1 DEF Waits, Yielded, DInv, DeliveryTypeOK, LaneProgram, Lane
  <1>8. ASSUME NEW h \in Fires, Late(h)', ~Late(h)
        PROVE  h # f /\ h < f /\ Twins(h, f)
    <2>1. h # f
      BY <1>1, <1>3, <1>8 DEF Late
    <2>2. /\ Stored(h) /\ ledger[h].pasted = NoSession /\ Recurring(h)
          /\ ScheduleOf(h)' = ScheduleOf(h)
      BY <1>3, <1>8, <2>1 DEF Late, Stored, Recurring, ScheduleOf
    <2>3. ~(h <= schedule'[ScheduleOf(h)].highWater)
      BY <1>2, <1>8, <2>2 DEF Late, Overtaken
    <2>4. PICK g \in Fires : g > h /\ ScheduleOf(g)' = ScheduleOf(h)' /\ InPane(g)'
      BY <1>8, <2>2, <2>3 DEF Late, Overtaken
    <2>5. ScheduleOf(g) = ScheduleOf(h) /\ (g = f \/ InPane(g))
      BY <1>3, <1>4, <2>2, <2>4 DEF ScheduleOf
    <2>6. g = f
      BY <1>8, <2>2, <2>4, <2>5 DEF Late, Overtaken
    <2>7. h < f
      BY <2>4, <2>6, FiresAssumption DEF Fires
    <2> QED BY <2>1, <2>2, <2>5, <2>6, <2>7 DEF Twins
  <1>9. /\ CohortsWait' /\ InOrder' /\ tick'.claimed = {}
    BY <1>1, <1>6, <1>7 DEF SInv, LaneInv, CohortsWait, InOrder, NoTick
  <1>10. PlannedInTime'
    <2> SUFFICES ASSUME NEW h \in Planned
                 PROVE  h <= clock' /\ ~ledger'[h].drain /\ (ledger'[h].released => ~Late(h)')
      BY <1>6 DEF PlannedInTime
    <2>1. h \in Fires /\ h <= clock /\ ~ledger[h].drain /\ (ledger[h].released => ~Late(h))
      BY CarriedAreFires DEF SInv, LaneInv, PlannedInTime
    <2>2. ~Twins(h, f) \/ h = f
      <3>1. lane.by = "replay" /\ f \in Planned
        BY <1>7 DEF Planned
      <3> QED BY <1>7, <3>1 DEF SInv, LaneInv, OnePerRecurrence
    <2> QED BY <1>2, <1>3, <1>8, <2>1, <2>2
  <1>11. \A h \in InLane' : Drained(h)' => ~Late(h)'
    <2> SUFFICES ASSUME NEW h \in InLane, Drained(h)' PROVE ~Late(h)'
      BY <1>6
    <2>1. h \in Fires /\ (Drained(h) => ~Late(h))
      BY CarriedAreFires DEF SInv, LaneInv, CarriedInTime
    <2>2. ~(h < f) \/ h = f
      <3>1. h \in lane.todo \/ h = f
        BY <1>7 DEF InLane
      <3>2. h \in lane.todo => f < h
        BY <1>7 DEF SInv, LaneInv, LaneInOrder, InLane
      <3> QED BY <2>1, <3>1, <3>2, FiresAssumption DEF Fires
    <2> QED BY <1>3, <1>8, <2>1, <2>2 DEF Drained
  <1>12. ASSUME NEW g \in groups, NEW h \in g.fires
         PROVE  /\ ~ledger'[h].released
                /\ ledger'[h].drain => lane'.at = "park" \/ g.ready
                /\ Late(h)' => ~ledger'[h].drain /\ (g.ready \/ PassSends')
    <2>1. /\ h \in Fires /\ ~ledger[h].released /\ ~ledger[h].drain
          /\ Late(h) => PassSends
      BY <1>7, CarriedAreFires DEF SInv, LaneInv, CarriedInTime, WaitsInTime
    <2>2. ~ledger'[h].released /\ ~ledger'[h].drain
      BY <1>3, <2>1
    <2>3. CASE lane.by = "replay"
      BY <1>6, <1>7, <2>2, <2>3 DEF PassSends
    <2>4. CASE lane.by = "cohort"
      <3>1. f \in InLane
        BY <1>7, <2>4 DEF InLane
      <3>2. f < h
        BY <3>1 DEF SInv, LaneInv, InOrder, Before
      <3>3. ~(h < f)
        BY <2>1, <3>2, FiresAssumption DEF Fires
      <3>4. Late(h)' => Late(h)
        BY <1>8, <2>1, <3>3
      <3> QED BY <1>6, <2>1, <2>2, <3>4
    <2> QED BY <1>7, <2>3, <2>4
  <1>13. CarriedInTime'
    BY <1>1, <1>9, <1>11, <1>12 DEF CarriedInTime, WaitsInTime
  <1>14. ReceiptsEndTurns'
    <2>1. ~ledger[f].accepted
      BY <1>2 DEF Active, Unsettled
    <2>2. \A h \in Fires : InPane(h)' => ~ledger'[h].accepted
      BY <1>3, <1>4, <2>1 DEF SInv, ReceiptsEndTurns
    <2>3. lane.fire \in Fires
      BY <1>7
    <2> QED BY <1>1, <1>2, <1>3, <2>2, <2>3 DEF SInv, ReceiptsEndTurns
  <1> QED BY <1>6, <1>9, <1>10, <1>13, <1>14 DEF SInv, LaneInv

-----------------------------------------------------------------------------
(* The property.                                                             *)

\* Nothing is carried at first.
LEMMA InitInTime == DeliveryInit => SInv
  <1> SUFFICES ASSUME DeliveryInit PROVE SInv
    OBVIOUS
  <1>1. /\ tick.claimed = {} /\ tick = NoTick /\ groups = {}
        /\ lane.by = "nobody" /\ lane.at = "free"
        /\ \A f \in Fires : ~InPane(f)
    BY DEF DeliveryInit, NoTick, Free, InPane
  <1>2. InLane = {} /\ Planned = {}
    BY <1>1 DEF InLane, Planned
  <1>3. \A s \in Schedules : schedule[s].highWater <= clock
    BY DEF DeliveryInit, LedgerInit
  <1> QED BY <1>1, <1>2, <1>3 DEF SInv, LaneInv, CohortsWait, InOrder, Before, LaneInOrder,
            OnePerRecurrence, PlannedInTime, CarriedInTime, ReceiptsEndTurns

\* Every step keeps it.
LEMMA StepInTime == DInv /\ SInv /\ [DeliveryNext]_deliveryVars => SInv'
  <1> SUFFICES ASSUME DInv, SInv, [DeliveryNext]_deliveryVars PROVE SInv'
    OBVIOUS
  <1>1. CASE \E s \in Schedules : TickClaim(s)
    BY <1>1, ClaimInTime
  <1>2. CASE TickStep
    BY <1>2, TickEndInTime, SidesInTime DEF TickStep
  <1>3. CASE \/ Operator \/ Trigger \/ UNCHANGED deliveryVars
             \/ \E f \in Fires : GrowOld(f) \/ Reap(f)
             \/ \E g \in Sessions : SessionUp(g)
    BY <1>3, SidesInTime
  <1>4. CASE ReplayTake
    BY <1>4, ReplayTakeInTime
  <1>5. CASE CohortStep
    BY <1>5, DeferInTime, TakeInTime, CheckInTime, CohortToldInTime DEF CohortStep
  <1>6. CASE PassStep \/ PassFails
    BY <1>6, SettleInTime, ProbeInTime, ParkInTime, PlanInTime, CollapseInTime, DeliverInTime,
       PassEndsInTime DEF PassStep
  <1>7. CASE \/ Send \/ TimeoutUncapped \/ SessionDown
             \/ \E f \in Fires : MarkRefused(f) \/ Paste(f) \/ PaneFails(f) \/ Requeue(f)
    BY <1>7, TurnsInTime
  <1>8. CASE \E f \in Fires : TimeoutCapped(f) \/ Mark(f) \/ Accept(f)
    BY <1>8, CappedInTime, MarkInTime, AcceptInTime
  <1>9. CASE Crash
    BY <1>9, CrashInTime
  <1> QED BY <1>1, <1>2, <1>3, <1>4, <1>5, <1>6, <1>7, <1>8, <1>9 DEF DeliveryNext

\* Only a mark puts a prompt into the pane.
LEMMA MarkedByMark ==
    ASSUME DInv, [DeliveryNext]_deliveryVars, NEW f \in Fires,
           turn[f] # "marked", turn'[f] = "marked"
    PROVE  Mark(f)
  <1>t. turn \in [Fires -> Turn]
    BY DEF DInv, DeliveryTypeOK
  <1>0. turn' # turn
    OBVIOUS
  <1>1. CASE \/ \E s \in Schedules : TickClaim(s)
             \/ TickStep \/ Trigger \/ ReplayTake \/ CohortStep \/ Operator
             \/ \E g \in Fires : GrowOld(g) \/ Reap(g)
             \/ \E g \in Sessions : SessionUp(g)
             \/ UNCHANGED deliveryVars
    BY <1>0, <1>1 DEF TickClaim, TickStep, TickDisable, TickEnd, Trigger, ReplayTake, CohortStep,
       CohortDefer, CohortTake, CohortCheck, CohortConfirmed, CohortUndelivered, Operator, GrowOld,
       Reap, SessionUp, deliveryVars, transport
  <1>2. CASE PassStep \/ PassFails
    BY <1>0, <1>2 DEF PassStep, PassFails, SettleLost, SettleSkip, ProbeBusy, ParkDone, ProbeDue,
       ProbeIdle, ParkForDrain, PlanRow, PlanDone, Collapse, CollapseDone, DeliverNext, DeliverDone,
       ReplayConfirmed, ReplayUndelivered, transport
  <1>3. CASE Send \/ TimeoutUncapped \/ SessionDown \/ Crash
    BY <1>t, <1>0, <1>3, LaneFire DEF Send, TimeoutUncapped, SessionDown, Crash
  <1>4. CASE \E g \in Fires : TimeoutCapped(g) \/ MarkRefused(g) \/ Paste(g) \/ PaneFails(g)
                              \/ Accept(g) \/ Requeue(g)
    BY <1>t, <1>0, <1>4 DEF TimeoutCapped, MarkRefused, Paste, PaneFails, Accept, Requeue
  <1>5. CASE \E g \in Fires : Mark(g)
    <2>1. PICK g \in Fires : Mark(g)
      BY <1>5
    <2>2. turn' = [turn EXCEPT ![g] = "marked"]
      BY <2>1 DEF Mark
    <2>3. f = g
      BY <1>t, <2>2
    <2> QED BY <2>1, <2>3
  <1> QED BY <1>1, <1>2, <1>3, <1>4, <1>5 DEF DeliveryNext

\* "an older fire must never be delivered after a newer one was accepted": no released
\* recurrence at or below the floor of its schedule enters a pane, whatever passes, cohorts,
\* crashes and late receipts do.
THEOREM SupersededNotPastedHolds == DeliverySafety => SupersededNotPasted
  <1>1. DInv /\ SInv /\ [DeliveryNext]_deliveryVars => SupersededStaysOut
    <2> SUFFICES ASSUME DInv, SInv, [DeliveryNext]_deliveryVars, NEW f \in Fires,
                        turn[f] # "marked", turn'[f] = "marked", Recurring(f), ledger[f].released
                 PROVE  f > schedule[ScheduleOf(f)].highWater
      BY DEF SupersededStaysOut
    <2>1. Mark(f)
      BY MarkedByMark
    <2>2. turn[f] = "queued" /\ Active(f) /\ ledger[f].pasted = NoSession
      BY <2>1 DEF Mark, MarkPasted
    <2>3. Waits(f)
      BY <2>2 DEF DInv, TurnInv, TurnsAreOwed
    <2>4. f \in InLane \/ f \in Planned
      BY <2>3 DEF Waits, InLane, Planned, DInv, DeliveryTypeOK, LaneProgram, Lane
    <2>5. ~Late(f)
      BY <2>4 DEF SInv, LaneInv, CarriedInTime, PlannedInTime, Drained
    <2>6. ~(f <= schedule[ScheduleOf(f)].highWater)
      BY <2>2, <2>5 DEF Late, Overtaken, Active, Unsettled
    <2>7. f \in Nat /\ schedule[ScheduleOf(f)].highWater \in Nat
      <3>1. ScheduleOf(f) \in Schedules
        BY DEF Recurring
      <3> QED BY <3>1, FiresAssumption DEF DInv, LInv, LedgerTypeOK, ScheduleRow, Fires
    <2> QED BY <2>6, <2>7
  <1>2. DeliverySafety => []SInv
    BY DeliveryInvariant, InitInTime, StepInTime, PTL DEF DeliverySafety
  <1> QED BY <1>1, <1>2, DeliveryInvariant, PTL DEF DeliverySafety, SupersededNotPasted

=============================================================================
