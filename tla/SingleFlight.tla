---------------------------- MODULE SingleFlight ----------------------------
(***************************************************************************)
(* What StateMachine promises its callers, with states, triggers and the   *)
(* matrix left out: one piece of work at a time, any number of callers may *)
(* join it while it runs, and the moment it ends everyone who joined       *)
(* learns its one outcome and nobody else does.                            *)
(***************************************************************************)
EXTENDS Naturals

CONSTANTS Callers, Outcomes

VARIABLES
    started,    \* how many flights were ever started
    flight,     \* the flight under way, 0 when there is none
    joined,     \* the callers who joined it
    told        \* told[c]: the flight c joined last and what it learned of it

sfVars == <<started, flight, joined, told>>

Unheard == "pending"

SFInit ==
    /\ started = 0
    /\ flight = 0
    /\ joined = {}
    /\ told = [c \in Callers |-> [flight |-> 0, outcome |-> "none"]]

Begin ==
    /\ flight = 0
    /\ started' = started + 1
    /\ flight' = started + 1
    /\ UNCHANGED <<joined, told>>

Join(c) ==
    /\ flight # 0
    /\ c \notin joined
    /\ joined' = joined \cup {c}
    /\ told' = [told EXCEPT ![c] = [flight |-> flight, outcome |-> Unheard]]
    /\ UNCHANGED <<started, flight>>

End(outcome) ==
    /\ flight # 0
    /\ flight' = 0
    /\ joined' = {}
    /\ told' = [c \in Callers |->
                  IF c \in joined THEN [flight |-> flight, outcome |-> outcome] ELSE told[c]]
    /\ UNCHANGED started

SFNext ==
    \/ Begin
    \/ \E c \in Callers : Join(c)
    \/ \E outcome \in Outcomes : End(outcome)

SFSpec == SFInit /\ [][SFNext]_sfVars

=============================================================================
