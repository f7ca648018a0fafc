------------------------- MODULE MCSessionLifecycle -------------------------
(* Two or three coroutines drive one session.                               *)
EXTENDS SessionLifecycle, TLC

CONSTANTS c1, c2, c3

TwoCallers == {c1, c2}

ThreeCallers == {c1, c2, c3}

TwoSymmetry == Permutations(TwoCallers)

ThreeSymmetry == Permutations(ThreeCallers)

BrokerOnly == {"broker"}

BrokerAndWatchdog == {"broker", "watchdog"}

=============================================================================
