--------------------------- MODULE MCWakeDelivery ---------------------------
(* One recurring and one one-shot schedule of an agent, sessions g1 and g2.  *)
EXTENDS WakeDelivery, TLC

CONSTANTS r, o, g1, g2

Both == {r, o}
OnlyRecurring == {r}
OnlyOneShot == {o}
None == {}
TwoSessions == {g1, g2}
OneSession == {g1}

SessionSymmetry == Permutations({g1, g2})

\* Both schedules without a fault, or the recurring one with: the other is deleted before
\* its first fire.
SafetyInit ==
    /\ tick = NoTick /\ groups = {} /\ replay = NoReplay /\ lane = Free
    /\ session = NoSession /\ used = {}
    /\ turn = [f \in Fires |-> "none"] /\ pastes = [f \in Fires |-> 0]
    /\ age = [f \in Fires |-> 0]
    /\ clock = 0 /\ ledger = [f \in Fires |-> Blank(NoSchedule, "no")]
    /\ faults \in {0, MaxFaults}
    /\ schedule = [s \in Schedules |->
           [ exists |-> faults = MaxFaults \/ s \notin OneShot,
             enabled |-> TRUE, lastRun |-> 0, highWater |-> 0 ]]

SafetySpec == SafetyInit /\ [][DeliveryNext]_deliveryVars

\* Two fires without a fault, or one with: after a first that was given up, never pasted
\* and reaped.
LiveInit ==
    /\ tick = NoTick /\ groups = {} /\ replay = NoReplay /\ lane = Free
    /\ session = NoSession /\ used = {}
    /\ turn = [f \in Fires |-> "none"] /\ pastes = [f \in Fires |-> 0]
    /\ \/ LedgerInit /\ age = [f \in Fires |-> 0] /\ faults = MaxFaults
       \/ /\ clock = 1
          /\ schedule = [s \in Schedules |->
                 [exists |-> TRUE, enabled |-> TRUE, lastRun |-> 1, highWater |-> 0]]
          /\ ledger = [f \in Fires |->
                 IF f = 1 THEN Blank(r, "reaped") ELSE Blank(NoSchedule, "no")]
          /\ age = [f \in Fires |-> IF f = 1 THEN 2 ELSE 0] /\ faults = 0

LiveSpec == LiveInit /\ [][DeliveryNext]_deliveryVars /\ Fairness

=============================================================================
