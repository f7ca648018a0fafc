----------------------------- MODULE MCDirectory -----------------------------
(* The objects of a session, from above and from within, checked in one run: *)
(* a behaviour exercises one of them, and the other stays as it begins.      *)
(*   directory: an agent with two labels, one job at a time                  *)
(*   cancelled: three coroutines of one session, any of which may be         *)
(*              cancelled at any await                                       *)
EXTENDS SessionDirectory, MCSessionLifecycle

VARIABLE running

TwoLabels == {"main", "side"}

everyVar == <<running, directoryVars, allVars>>

\* What is used up of the bounds: nothing; but of the largest instance, codex with the
\* rebuild switch, either the edit or one of the mishaps.
Budgets ==
    IF runtime = "codex_cli" /\ rebuild THEN {<<0, 1>>, <<1, 0>>} ELSE {<<0, 0>>}

TwoLevelsInit ==
    /\ running \in {"directory", "cancelled"}
    /\ NothingStarted /\ (running # "directory" => runtime = "claude_sdk" /\ ~rebuild)
    /\ \E used \in Budgets : mishaps = used[1] /\ edits = used[2]
    /\ LifecycleInit /\ (running # "cancelled" => backend = "tmux" /\ state = "dead")

TwoLevelsNext ==
    \/ running = "directory" /\ DirectoryNext /\ UNCHANGED <<running, allVars>>
    \/ running = "cancelled" /\ LifecycleNext /\ UNCHANGED <<running, directoryVars>>

TwoLevelsSpec == TwoLevelsInit /\ [][TwoLevelsNext]_everyVar

=============================================================================
