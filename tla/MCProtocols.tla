----------------------------- MODULE MCProtocols -----------------------------
(* Three protocols that share no state, checked in one run: a behaviour      *)
(* exercises one of them, and the others stay as they begin.                 *)
(*   transport: three coroutines, two transitions of one state machine       *)
(*   ledger: two schedules of one agent, two fires, sessions that come and go *)
(*   deploy: the first release, one that starts and one that does not        *)
EXTENDS TransportRefinement, WakeLedger, DeployGuard

CONSTANTS c1, c2, c3, s1, s2, g1, old, good, bad, u1

VARIABLE running

ThreeCallers == {c1, c2, c3}
TwoSchedules == {s1, s2}
OneSession == {g1}
ThreeRefs == {old, good, bad}
OneBroken == {bad}
OneRequest == {u1}

allVars == <<running, vars, ledgerVars, guardVars>>

ProtocolsInit ==
    /\ running \in {"transport", "ledger", "deploy"}
    /\ Init /\ (running # "transport" => state = "dead")
    /\ LedgerInit /\ DeployInit

ProtocolsNext ==
    \/ /\ running = "transport" /\ Next
       /\ UNCHANGED <<running, ledgerVars, guardVars>>
    \/ /\ running = "ledger" /\ LedgerNext
       /\ UNCHANGED <<running, vars, guardVars>>
    \/ /\ running = "deploy" /\ DeployNext
       /\ UNCHANGED <<running, vars, ledgerVars>>

\* The fairness of FairSpec and DeploySpec, each for its own behaviours.
ProtocolsFairness ==
    /\ \A c \in Callers : WF_vars(running = "transport" /\ OwnerReports(c))
    /\ WF_guardVars(running = "deploy" /\ BeginProcess("service"))
    /\ \A p \in Processes :
           /\ WF_guardVars(running = "deploy" /\ (Contend(p) \/ Decide(p) \/ RollbackStep(p)))
           /\ WF_guardVars(running = "deploy" /\ DeadlineExpires(p))
           /\ WF_guardVars(running = "deploy" /\ Ready(p))
           /\ WF_guardVars(running = "deploy" /\ Settle(p))
           /\ WF_guardVars(running = "deploy" /\ Leave(p))

ProtocolsSpec == ProtocolsInit /\ [][ProtocolsNext]_allVars /\ ProtocolsFairness

=============================================================================
