---------------------------- MODULE FireOutcome ----------------------------
(***************************************************************************)
(* What the scheduler's ledger promises about one exact fire, whatever     *)
(* order its writers run in (PendingScheduleWake.ledger_state and the      *)
(* docstrings of its transitions in agent_registry.py):                    *)
(*   - a fire that was settled without a receipt is never owed again: only *)
(*     positive evidence of the turn moves it, to "ran";                   *)
(*   - a fire that ran stays so until its retention ends;                  *)
(*   - a held (drain-parked) fire is still owed work and may be returned.  *)
(***************************************************************************)
CONSTANT Fires

VARIABLE outcome

Outcome == {"unfired", "owed", "held", "settled", "ran", "dropped", "forgotten"}

OutcomeInit == outcome = [f \in Fires |-> "unfired"]

\* The edges a fire may take in one step.
Edge ==
    { <<"unfired", "owed">>,
      <<"owed", "held">>,      <<"held", "owed">>,
      <<"owed", "settled">>,   <<"held", "settled">>,
      <<"owed", "ran">>,       <<"held", "ran">>,      <<"settled", "ran">>,
      <<"owed", "dropped">>,   <<"dropped", "owed">>,
      <<"settled", "forgotten">>, <<"ran", "forgotten">> }

OutcomeNext ==
    /\ outcome' \in [Fires -> Outcome]
    /\ \A f \in Fires : outcome'[f] = outcome[f] \/ <<outcome[f], outcome'[f]>> \in Edge

OutcomeSpec == OutcomeInit /\ [][OutcomeNext]_outcome

=============================================================================
