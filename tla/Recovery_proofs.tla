-------------------------- MODULE Recovery_proofs --------------------------
(***************************************************************************)
(* Proofs about what keeps a session at work: StreamingRecovery, for any    *)
(* bound on its retries, requests and failures, SessionWatchdog, for any    *)
(* thresholds, and AutonomyLoop, for any events and interventions.          *)
(***************************************************************************)
EXTENDS StreamingRecovery, SessionWatchdog, AutonomyLoop, FiniteSetTheorems, TLAPS

\* RecoveryTypeOK in four parts.
SessionStates == {"connected", "reconnecting", "idle", "dead"}
ReaderStates == {"off", "reading", "restarts", "joins", "reconnects"}
Phases ==
    {"off", "claimed", "entangled", "quiescing", "closing", "backoff", "handshake", "cleaning",
     "stopping", "setup", "saving", "waiting"}

SessionTypes ==
    /\ sstate \in SessionStates /\ flight \in BOOLEAN
    /\ slot \in Clients \cup {NoClient} /\ live \subseteq Clients /\ dropped \subseteq Clients
    /\ uncertain \in BOOLEAN /\ reader \in ReaderStates
FlagTypes == {inhibited, retired, stale, retiring, gone, fresh} \subseteq BOOLEAN
OperationTypes ==
    /\ phase \in [Operations -> Phases]
    /\ client \in [Operations -> Clients \cup {NoClient}]
    /\ cancelled \subseteq Owners
CounterTypes ==
    retries \in 0..MaxRetries /\ requests \in 0..MaxRequests /\ breaks \in 0..MaxBreaks

\* The phases in which an owner has its hands on the client.
Working == {"closing", "backoff", "handshake", "cleaning", "stopping", "setup"}
AtWork(t) == phase[t] \in Working

\* The program of each operation: which awaits it has.
PhasesByOperation ==
    /\ phase["sleep"] \in {"off", "saving", "waiting", "closing"}
    /\ phase["replace"] \in {"off", "quiescing"} \cup Working
    /\ \A t \in Recoveries : phase[t] \in {"off", "claimed", "entangled"} \cup Working

\* How the owners keep apart: the recoveries never run beside each other; a replacement
\* keeps new ones away for as long as it runs, and works only once the old ones ended.
OwnersExclude ==
    /\ ~(Running("reconnect") /\ Running("restart"))
    /\ Running("replace") => inhibited
    /\ AtWork("replace") => \A t \in Recoveries : ~Running(t)

\* A client that may be running is in the slot, and known to the owner at work, unless the
\* idle sleep emptied the slot over it.
ClientsKnown ==
    /\ live \subseteq {slot} \cup dropped
    /\ \A t \in Owners :
         IF AtWork(t) THEN live \subseteq {client[t]} \cup dropped ELSE client[t] = NoClient
    /\ phase["reconnect"] = "backoff" => live \subseteq dropped

\* A sleep drops one client at most, and has room for it.
DropsBounded ==
    /\ Cardinality(dropped) <= MaxDropped
    /\ Running("sleep") => Cardinality(dropped) < MaxDropped

\* A retirement revokes before it closes, and nothing takes that back once it returned.
RetirementLasts ==
    /\ phase["replace"] = "closing" /\ retiring => retired
    /\ gone => retired /\ live \subseteq dropped /\ \A t \in Owners : ~Running(t)

RecoveryIInv ==
    /\ SessionTypes /\ FlagTypes /\ OperationTypes /\ CounterTypes
    /\ PhasesByOperation /\ OwnersExclude /\ ClientsKnown /\ DropsBounded /\ RetirementLasts

\* Every initial state satisfies the inductive invariant.
LEMMA RecoveryInitIInv == RecoveryInit => RecoveryIInv
  <1> SUFFICES ASSUME RecoveryInit PROVE RecoveryIInv
    OBVIOUS
  <1> USE RecoveryAssumption DEF RecoveryInit, Operations, Owners, Recoveries, NoClient, Clients, AtWork, Working,
              Running, SessionStates, ReaderStates, Phases
  <1>1. SessionTypes
    <2>1. sstate \in SessionStates /\ reader \in ReaderStates
      OBVIOUS
    <2>2. flight \in BOOLEAN /\ uncertain \in BOOLEAN
      OBVIOUS
    <2>3. slot \in Clients /\ live \subseteq Clients /\ dropped \subseteq Clients
      OBVIOUS
    <2> QED BY <2>1, <2>2, <2>3 DEF SessionTypes
  <1>5. OperationTypes
    BY DEF OperationTypes
  <1>2. FlagTypes
    BY DEF FlagTypes
  <1>3. CounterTypes
    BY DEF CounterTypes
  <1>6. DropsBounded
    BY FS_EmptySet DEF DropsBounded
  <1>4. PhasesByOperation /\ OwnersExclude /\ ClientsKnown /\ RetirementLasts
    BY DEF PhasesByOperation, OwnersExclude, ClientsKnown, RetirementLasts
  <1> QED BY <1>1, <1>2, <1>3, <1>4, <1>5, <1>6 DEF RecoveryIInv

USE DEF Operations, Owners, Recoveries, AtWork, Working, Running, NoClient,
        SessionStates, ReaderStates, Phases

\* What was dropped can be counted.
LEMMA FiniteDrops ==
    ASSUME SessionTypes
    PROVE  IsFiniteSet(dropped) /\ Cardinality(dropped) \in Nat
  <1>1. IsFiniteSet(Clients)
    BY RecoveryAssumption, FS_Interval DEF Clients
  <1>2. IsFiniteSet(dropped)
    BY <1>1, FS_Subset DEF SessionTypes
  <1> QED BY <1>2, FS_CardinalityType

\* One more element adds one at most.
LEMMA OneMore ==
    ASSUME NEW S, IsFiniteSet(S), Cardinality(S) \in Nat, NEW x
    PROVE  /\ IsFiniteSet(S \cup {x}) /\ Cardinality(S \cup {x}) \in Nat
           /\ Cardinality(S \cup {x}) <= Cardinality(S) + 1
  <1>1. /\ IsFiniteSet(S \cup {x})
        /\ Cardinality(S \cup {x}) = IF x \in S THEN Cardinality(S) ELSE Cardinality(S) + 1
    BY FS_AddElement
  <1> QED BY <1>1

\* A connect finds a name for its client: beside the dropped ones, three at most are in use,
\* the slot's, the owner's and the sleep's.
LEMMA FreeClient ==
    ASSUME RecoveryIInv, NEW t \in Owners, AtWork(t)
    PROVE  /\ (CHOOSE c \in FreeClients : TRUE) \in Clients
           /\ (CHOOSE c \in FreeClients : TRUE) \notin live
  <1> DEFINE one == dropped \cup {slot}
             two == one \cup {client[t]}
             used == two \cup {client["sleep"]}
  <1>1. Clients \cap (live \cup dropped \cup {slot} \cup {client[u] : u \in Operations})
          \subseteq used
    <2>1. \A u \in Owners \ {t} : client[u] = NoClient
      BY DEF RecoveryIInv, PhasesByOperation, OwnersExclude, ClientsKnown
    <2>2. live \subseteq one
      BY DEF RecoveryIInv, ClientsKnown
    <2>3. NoClient \notin Clients
      BY RecoveryAssumption DEF Clients
    <2> QED BY <2>1, <2>2, <2>3
  <1>2. ~(Clients \subseteq used)
    <2> SUFFICES ASSUME Clients \subseteq used
                 PROVE  FALSE
      OBVIOUS
    <2>1. IsFiniteSet(dropped) /\ Cardinality(dropped) \in Nat
      BY FiniteDrops DEF RecoveryIInv
    <2>2. IsFiniteSet(one) /\ Cardinality(one) \in Nat /\ Cardinality(one) <= Cardinality(dropped) + 1
      BY <2>1, OneMore
    <2>3. IsFiniteSet(two) /\ Cardinality(two) \in Nat /\ Cardinality(two) <= Cardinality(one) + 1
      <3> HIDE DEF one
      <3> QED BY <2>2, OneMore
    <2>4. IsFiniteSet(used) /\ Cardinality(used) \in Nat /\ Cardinality(used) <= Cardinality(two) + 1
      <3> HIDE DEF two
      <3> QED BY <2>3, OneMore
    <2>5. IsFiniteSet(Clients) /\ Cardinality(Clients) = MaxDropped + 4
      BY RecoveryAssumption, FS_Interval DEF Clients
    <2>6. Cardinality(Clients) <= Cardinality(used)
      <3> HIDE DEF used
      <3> QED BY <2>4, FS_Subset
    <2>7. Cardinality(dropped) <= MaxDropped
      BY DEF RecoveryIInv, DropsBounded
    <2> HIDE DEF one, two, used
    <2> QED BY <2>1, <2>2, <2>3, <2>4, <2>5, <2>6, <2>7, RecoveryAssumption
  <1>3. FreeClients # {}
    BY <1>1, <1>2 DEF FreeClients
  <1> QED BY <1>3 DEF FreeClients

\* An owner at work that opens a new client: it is the only one that may run, but for the
\* dropped.
LEMMA Connected ==
    ASSUME RecoveryIInv, NEW t \in Owners, AtWork(t),
           NEW new, new = CHOOSE c \in FreeClients : TRUE,
           slot' = new, live' \subseteq {new} \cup dropped, UNCHANGED dropped,
           phase' = [phase EXCEPT ![t] = "handshake"], client' = [client EXCEPT ![t] = new],
           UNCHANGED flags
    PROVE  /\ slot' \in Clients /\ live' \subseteq Clients
           /\ PhasesByOperation' /\ OwnersExclude' /\ ClientsKnown' /\ RetirementLasts'
           /\ DropsBounded'
           /\ phase' \in [Operations -> Phases] /\ client' \in [Operations -> Clients \cup {NoClient}]
  <1> USE DEF RecoveryIInv, flags
  <1>1. new \in Clients
    BY FreeClient
  <1>2. PhasesByOperation' /\ OwnersExclude' /\ RetirementLasts'
    BY DEF OperationTypes, PhasesByOperation, OwnersExclude, RetirementLasts
  <1>3. ClientsKnown'
    BY DEF OperationTypes, PhasesByOperation, OwnersExclude, ClientsKnown
  <1>4. DropsBounded'
    BY DEF OperationTypes, DropsBounded
  <1>5. live' \subseteq Clients
    BY <1>1 DEF SessionTypes
  <1> QED BY <1>1, <1>2, <1>3, <1>4, <1>5 DEF OperationTypes, Phases

\* An owner at work that goes on with its client disturbs nothing.
LEMMA Advanced ==
    ASSUME RecoveryIInv, NEW t \in Owners, AtWork(t), NEW p \in Working \ {"closing", "backoff"},
           phase' = [phase EXCEPT ![t] = p],
           UNCHANGED <<slot, live, dropped, client, flags>>
    PROVE  /\ PhasesByOperation' /\ OwnersExclude' /\ ClientsKnown' /\ RetirementLasts'
           /\ DropsBounded'
           /\ phase' \in [Operations -> Phases] /\ client' \in [Operations -> Clients \cup {NoClient}]
  <1> USE DEF RecoveryIInv, flags
  <1>1. PhasesByOperation' /\ OwnersExclude' /\ RetirementLasts'
    BY DEF OperationTypes, PhasesByOperation, OwnersExclude, RetirementLasts
  <1>2. ClientsKnown'
    BY DEF OperationTypes, PhasesByOperation, OwnersExclude, ClientsKnown
  <1>3. DropsBounded'
    BY DEF OperationTypes, DropsBounded
  <1> QED BY <1>1, <1>2, <1>3 DEF OperationTypes, Phases

\* What operation t may add to the dropped: nothing, or the sleep what is in the slot.
MayDrop(t) ==
    \/ UNCHANGED dropped
    \/ t = "sleep" /\ Running(t) /\ dropped' = dropped \cup ({slot} \cap live')

\* A sleep that ends leaves nothing running that is not dropped, whether or not what it
\* awaited stopped.
LEMMA SleepLeaves ==
    ASSUME RecoveryIInv, AtWork("sleep"), NEW S, Empties("sleep", S)
    PROVE  /\ live' \subseteq live /\ live' \subseteq dropped' /\ slot' = NoClient
           /\ uncertain' = FALSE /\ MayDrop("sleep")
  BY DEF Empties, MayDrop, RecoveryIInv, ClientsKnown

\* Whoever stops the client of its await leaves none behind but the dropped: an owner knows
\* the only one.
LEMMA NoneLeft ==
    ASSUME RecoveryIInv, NEW t \in Operations, AtWork(t), Stopped(t)
    PROVE  /\ live' \subseteq live /\ live' \subseteq dropped' /\ slot' = NoClient
           /\ uncertain' = FALSE /\ MayDrop(t) /\ (t # "sleep" => UNCHANGED dropped)
  <1>1. CASE t = "sleep"
    BY <1>1, SleepLeaves DEF Stopped
  <1>2. CASE t # "sleep"
    BY <1>2 DEF Stopped, Empties, MayDrop, RecoveryIInv, ClientsKnown
  <1> QED BY <1>1, <1>2

\* An operation that ends, with no client of its own left behind but the dropped, disturbs
\* nothing; only a replacement that succeeded takes the revocation back.
LEMMA Ended ==
    ASSUME RecoveryIInv, NEW t \in Operations, Off(t),
           live' \subseteq live, live' \subseteq {slot'} \cup dropped', MayDrop(t),
           UNCHANGED <<inhibited, retired>> \/ (t = "replace" /\ Running(t)),
           UNCHANGED <<retiring, gone>>
    PROVE  /\ OperationTypes' /\ retries' \in 0..MaxRetries /\ fresh' \in BOOLEAN
           /\ dropped' \subseteq Clients /\ DropsBounded'
           /\ PhasesByOperation' /\ OwnersExclude' /\ ClientsKnown' /\ RetirementLasts'
  <1> USE DEF RecoveryIInv, Off
  <1>1. OperationTypes'
    BY DEF OperationTypes
  <1>2. retries' \in 0..MaxRetries /\ fresh' \in BOOLEAN
    <2>1. retries' \in 0..MaxRetries
      BY RecoveryAssumption DEF CounterTypes
    <2>2. fresh' \in BOOLEAN
      BY DEF FlagTypes
    <2> QED BY <2>1, <2>2
  <1>3. PhasesByOperation' /\ OwnersExclude'
    BY DEF OperationTypes, PhasesByOperation, OwnersExclude
  <1>6. dropped \subseteq dropped' /\ dropped' \subseteq Clients
    BY DEF MayDrop, SessionTypes
  <1>4. ClientsKnown'
    BY <1>6 DEF OperationTypes, PhasesByOperation, OwnersExclude, ClientsKnown
  <1>5. RetirementLasts'
    BY <1>6 DEF OperationTypes, PhasesByOperation, OwnersExclude, RetirementLasts
  <1>7. DropsBounded'
    <2>1. CASE UNCHANGED dropped
      BY <2>1 DEF OperationTypes, DropsBounded
    <2>2. CASE t = "sleep" /\ Running(t) /\ dropped' = dropped \cup ({slot} \cap live')
      <3>1. IsFiniteSet(dropped) /\ Cardinality(dropped) \in Nat
        BY FiniteDrops
      <3>2. Cardinality(dropped) < MaxDropped /\ ~Running("sleep")'
        BY <2>2 DEF OperationTypes, DropsBounded
      <3>3. CASE slot \in live'
        <4>1. dropped' = dropped \cup {slot}
          BY <2>2, <3>3
        <4>2. Cardinality(dropped') <= Cardinality(dropped) + 1 /\ Cardinality(dropped') \in Nat
          BY <3>1, <4>1, OneMore
        <4> QED BY <3>1, <3>2, <4>2, RecoveryAssumption DEF DropsBounded
      <3>4. CASE slot \notin live'
        <4>1. dropped' = dropped
          BY <2>2, <3>4
        <4> QED BY <3>1, <3>2, <4>1 DEF DropsBounded
      <3> QED BY <3>3, <3>4
    <2> QED BY <2>1, <2>2 DEF MayDrop
  <1> QED BY <1>1, <1>2, <1>3, <1>4, <1>5, <1>6, <1>7

\* An owner that fails ends, and leaves the session's state and its reader well-formed.
LEMMA Failed ==
    ASSUME RecoveryIInv, NEW t \in Operations, Fails(t)
    PROVE  /\ Off(t)
           /\ sstate' \in SessionStates /\ flight' \in BOOLEAN /\ reader' \in ReaderStates
  BY DEF Fails, Completes, ReaderAfter, RecoveryIInv, SessionTypes, SessionStates, ReaderStates

\* An operation other than the replacement's success that ends, whatever became of its
\* client, as long as none is left running outside the slot.
LEMMA EndedIInv ==
    ASSUME RecoveryIInv, NEW t \in Operations, Off(t),
           sstate' \in SessionStates, flight' \in BOOLEAN, reader' \in ReaderStates,
           slot' \in {slot, NoClient}, live' \subseteq live,
           live' \subseteq {slot'} \cup dropped', MayDrop(t),
           uncertain' \in BOOLEAN,
           UNCHANGED <<inhibited, retired, stale, retiring, gone>>,
           requests' \in 0..MaxRequests, breaks' \in 0..MaxBreaks
    PROVE  RecoveryIInv'
  <1>2. /\ OperationTypes' /\ retries' \in 0..MaxRetries /\ fresh' \in BOOLEAN
        /\ dropped' \subseteq Clients /\ DropsBounded'
        /\ PhasesByOperation' /\ OwnersExclude' /\ ClientsKnown' /\ RetirementLasts'
    BY Ended
  <1>1. SessionTypes'
    BY <1>2 DEF RecoveryIInv, SessionTypes
  <1>3. FlagTypes'
    BY <1>2 DEF RecoveryIInv, FlagTypes
  <1>4. CounterTypes'
    BY <1>2 DEF CounterTypes
  <1> QED BY <1>1, <1>2, <1>3, <1>4 DEF RecoveryIInv

\* The same of an owner that fails.
LEMMA FailedIInv ==
    ASSUME RecoveryIInv, NEW t \in Operations, Fails(t),
           slot' \in {slot, NoClient}, live' \subseteq live,
           live' \subseteq {slot'} \cup dropped', MayDrop(t),
           uncertain' \in BOOLEAN,
           UNCHANGED <<inhibited, retired, stale, retiring, gone>>,
           requests' \in 0..MaxRequests, breaks' \in 0..MaxBreaks
    PROVE  RecoveryIInv'
  BY Failed, EndedIInv

\* The reader's failure claims at most a reconnect: not beside a restart, and not while a
\* replacement runs.
LEMMA ReaderFailsIInv ==
    ASSUME RecoveryIInv, ReaderFails
    PROVE  RecoveryIInv'
  <1> USE RecoveryAssumption DEF RecoveryIInv, ReaderFails, AttemptReconnect, Recoverable,
        Claimed, bounds, clientVars, attempt, flags, Breaks
  <1>1. SessionTypes'
    BY DEF SessionTypes, OperationTypes
  <1>2. FlagTypes'
    BY DEF FlagTypes
  <1>3. OperationTypes'
    BY DEF OperationTypes, SessionTypes
  <1>4. CounterTypes'
    BY DEF CounterTypes
  <1>5. PhasesByOperation'
    BY DEF OperationTypes, PhasesByOperation
  <1>6. OwnersExclude'
    BY DEF OperationTypes, PhasesByOperation, OwnersExclude
  <1>7. ClientsKnown'
    BY DEF SessionTypes, OperationTypes, PhasesByOperation, OwnersExclude, ClientsKnown
  <1>8. RetirementLasts'
    BY DEF SessionTypes, OperationTypes, PhasesByOperation, OwnersExclude, ClientsKnown,
       RetirementLasts
  <1>9. DropsBounded'
    BY DEF OperationTypes, DropsBounded
  <1> QED BY <1>1, <1>2, <1>3, <1>4, <1>5, <1>6, <1>7, <1>8, <1>9

\* So do the other callers of attempt_reconnect.
LEMMA OthersReconnectIInv ==
    ASSUME RecoveryIInv, OthersReconnect
    PROVE  RecoveryIInv'
  <1> USE RecoveryAssumption DEF RecoveryIInv, OthersReconnect, AttemptReconnect, Recoverable,
        Claimed, bounds, clientVars, attempt, flags, Breaks
  <1>1. SessionTypes'
    BY DEF SessionTypes, OperationTypes
  <1>2. FlagTypes'
    BY DEF FlagTypes
  <1>3. OperationTypes'
    BY DEF OperationTypes, SessionTypes
  <1>4. CounterTypes'
    BY DEF CounterTypes
  <1>5. PhasesByOperation'
    BY DEF OperationTypes, PhasesByOperation
  <1>6. OwnersExclude'
    BY DEF OperationTypes, PhasesByOperation, OwnersExclude
  <1>7. ClientsKnown'
    BY DEF SessionTypes, OperationTypes, PhasesByOperation, OwnersExclude, ClientsKnown
  <1>8. RetirementLasts'
    BY DEF SessionTypes, OperationTypes, PhasesByOperation, OwnersExclude, ClientsKnown,
       RetirementLasts
  <1>9. DropsBounded'
    BY DEF OperationTypes, DropsBounded
  <1> QED BY <1>1, <1>2, <1>3, <1>4, <1>5, <1>6, <1>7, <1>8, <1>9

\* A cancelled caller only puts the cancellation on its way.
LEMMA CallerCancelledIInv ==
    ASSUME RecoveryIInv, CallerCancelled
    PROVE  RecoveryIInv'
  <1> USE RecoveryAssumption DEF RecoveryIInv, CallerCancelled, Entangled, bounds, clientVars,
        attempt, flags, Breaks
  <1>1. SessionTypes'
    BY DEF SessionTypes, OperationTypes
  <1>2. FlagTypes'
    BY DEF FlagTypes
  <1>3. OperationTypes'
    BY DEF OperationTypes, SessionTypes
  <1>4. CounterTypes'
    BY DEF CounterTypes
  <1>5. PhasesByOperation'
    BY DEF OperationTypes, PhasesByOperation
  <1>6. OwnersExclude'
    BY DEF OperationTypes, PhasesByOperation, OwnersExclude
  <1>7. ClientsKnown'
    BY DEF SessionTypes, OperationTypes, PhasesByOperation, OwnersExclude, ClientsKnown
  <1>8. RetirementLasts'
    BY DEF SessionTypes, OperationTypes, PhasesByOperation, OwnersExclude, ClientsKnown,
       RetirementLasts
  <1>9. DropsBounded'
    BY DEF OperationTypes, DropsBounded
  <1> QED BY <1>1, <1>2, <1>3, <1>4, <1>5, <1>6, <1>7, <1>8, <1>9

\* A restart is claimed where no reconnect runs and nothing revoked the recoveries.
LEMMA ForceRestartIInv ==
    ASSUME RecoveryIInv, BeginRestart
    PROVE  RecoveryIInv'
  <1> USE RecoveryAssumption DEF RecoveryIInv, BeginRestart, MayRestart, Recoverable, Claimed,
        bounds, clientVars, attempt, flags, Breaks
  <1>1. SessionTypes'
    BY DEF SessionTypes, OperationTypes
  <1>2. FlagTypes'
    BY DEF FlagTypes
  <1>3. OperationTypes'
    BY DEF OperationTypes, SessionTypes
  <1>4. CounterTypes'
    BY DEF CounterTypes
  <1>5. PhasesByOperation'
    BY DEF OperationTypes, PhasesByOperation
  <1>6. OwnersExclude'
    BY DEF OperationTypes, PhasesByOperation, OwnersExclude
  <1>7. ClientsKnown'
    BY DEF SessionTypes, OperationTypes, PhasesByOperation, OwnersExclude, ClientsKnown
  <1>8. RetirementLasts'
    BY DEF SessionTypes, OperationTypes, PhasesByOperation, OwnersExclude, ClientsKnown,
       RetirementLasts
  <1>9. DropsBounded'
    BY DEF OperationTypes, DropsBounded
  <1> QED BY <1>1, <1>2, <1>3, <1>4, <1>5, <1>6, <1>7, <1>8, <1>9

\* The replacement starts to work once no recovery runs.
LEMMA QuiesceEndsIInv ==
    ASSUME RecoveryIInv, QuiesceEnds
    PROVE  RecoveryIInv'
  <1> USE RecoveryAssumption DEF RecoveryIInv, QuiesceEnds, Disconnects, bounds, clientVars,
        attempt, flags, Breaks
  <1>1. SessionTypes'
    BY DEF SessionTypes, OperationTypes
  <1>2. FlagTypes'
    BY DEF FlagTypes
  <1>3. OperationTypes'
    BY DEF OperationTypes, SessionTypes
  <1>4. CounterTypes'
    BY DEF CounterTypes
  <1>5. PhasesByOperation'
    BY DEF OperationTypes, PhasesByOperation
  <1>6. OwnersExclude'
    BY DEF OperationTypes, PhasesByOperation, OwnersExclude
  <1>7. ClientsKnown'
    BY DEF SessionTypes, OperationTypes, PhasesByOperation, OwnersExclude, ClientsKnown
  <1>8. RetirementLasts'
    BY DEF SessionTypes, OperationTypes, PhasesByOperation, OwnersExclude, ClientsKnown,
       RetirementLasts
  <1>9. DropsBounded'
    BY DEF OperationTypes, DropsBounded
  <1> QED BY <1>1, <1>2, <1>3, <1>4, <1>5, <1>6, <1>7, <1>8, <1>9

\* A replacement that gave up its wait leaves the session inhibited.
LEMMA QuiesceGivesUpIInv ==
    ASSUME RecoveryIInv, QuiesceGivesUp
    PROVE  RecoveryIInv'
  <1> USE RecoveryAssumption DEF RecoveryIInv, QuiesceGivesUp, bounds, clientVars, attempt, flags,
        Breaks
  <1>1. SessionTypes'
    BY DEF SessionTypes, OperationTypes
  <1>2. FlagTypes'
    BY DEF FlagTypes
  <1>3. OperationTypes'
    BY DEF OperationTypes, SessionTypes
  <1>4. CounterTypes'
    BY DEF CounterTypes
  <1>5. PhasesByOperation'
    BY DEF OperationTypes, PhasesByOperation
  <1>6. OwnersExclude'
    BY DEF OperationTypes, PhasesByOperation, OwnersExclude
  <1>7. ClientsKnown'
    BY DEF SessionTypes, OperationTypes, PhasesByOperation, OwnersExclude, ClientsKnown
  <1>8. RetirementLasts'
    BY DEF SessionTypes, OperationTypes, PhasesByOperation, OwnersExclude, ClientsKnown,
       RetirementLasts
  <1>9. DropsBounded'
    BY DEF OperationTypes, DropsBounded
  <1> QED BY <1>1, <1>2, <1>3, <1>4, <1>5, <1>6, <1>7, <1>8, <1>9

\* The reconnect starts to work on what is in the slot, or entangles.
LEMMA ReconnectRunsIInv ==
    ASSUME RecoveryIInv, ReconnectRuns
    PROVE  RecoveryIInv'
  <1> USE RecoveryAssumption DEF RecoveryIInv, ReconnectRuns, Disconnects, bounds, clientVars,
        attempt, flags, Breaks
  <1>1. SessionTypes'
    BY DEF SessionTypes, OperationTypes
  <1>2. FlagTypes'
    BY DEF FlagTypes
  <1>3. OperationTypes'
    BY DEF OperationTypes, SessionTypes
  <1>4. CounterTypes'
    BY DEF CounterTypes
  <1>5. PhasesByOperation'
    BY DEF OperationTypes, PhasesByOperation
  <1>6. OwnersExclude'
    BY DEF OperationTypes, PhasesByOperation, OwnersExclude
  <1>7. ClientsKnown'
    BY DEF SessionTypes, OperationTypes, PhasesByOperation, OwnersExclude, ClientsKnown
  <1>8. RetirementLasts'
    BY DEF SessionTypes, OperationTypes, PhasesByOperation, OwnersExclude, ClientsKnown,
       RetirementLasts
  <1>9. DropsBounded'
    BY DEF OperationTypes, DropsBounded
  <1> QED BY <1>1, <1>2, <1>3, <1>4, <1>5, <1>6, <1>7, <1>8, <1>9

\* The idle sleep touches no owner and, up to its disconnect, no client.
LEMMA SleepBeginsIInv ==
    ASSUME RecoveryIInv, SleepBegins
    PROVE  RecoveryIInv'
  <1> USE RecoveryAssumption DEF RecoveryIInv, SleepBegins, bounds, clientVars, attempt, flags,
        Breaks
  <1>1. SessionTypes'
    BY DEF SessionTypes, OperationTypes
  <1>2. FlagTypes'
    BY DEF FlagTypes
  <1>3. OperationTypes'
    BY DEF OperationTypes, SessionTypes
  <1>4. CounterTypes'
    BY DEF CounterTypes
  <1>5. PhasesByOperation'
    BY DEF OperationTypes, PhasesByOperation
  <1>6. OwnersExclude'
    BY DEF OperationTypes, PhasesByOperation, OwnersExclude
  <1>7. ClientsKnown'
    BY DEF SessionTypes, OperationTypes, PhasesByOperation, OwnersExclude, ClientsKnown
  <1>8. RetirementLasts'
    BY DEF SessionTypes, OperationTypes, PhasesByOperation, OwnersExclude, ClientsKnown,
       RetirementLasts
  <1>9. DropsBounded'
    BY DEF OperationTypes, DropsBounded
  <1> QED BY <1>1, <1>2, <1>3, <1>4, <1>5, <1>6, <1>7, <1>8, <1>9

\* Nor when it is aborted.
LEMMA SleepAbortedIInv ==
    ASSUME RecoveryIInv, SleepAborted
    PROVE  RecoveryIInv'
  <1> USE RecoveryAssumption DEF RecoveryIInv, SleepAborted, Off, bounds, clientVars, attempt,
        flags, Breaks
  <1>1. SessionTypes'
    BY DEF SessionTypes, OperationTypes
  <1>2. FlagTypes'
    BY DEF FlagTypes
  <1>3. OperationTypes'
    BY DEF OperationTypes, SessionTypes
  <1>4. CounterTypes'
    BY DEF CounterTypes
  <1>5. PhasesByOperation'
    BY DEF OperationTypes, PhasesByOperation
  <1>6. OwnersExclude'
    BY DEF OperationTypes, PhasesByOperation, OwnersExclude
  <1>7. ClientsKnown'
    BY DEF SessionTypes, OperationTypes, PhasesByOperation, OwnersExclude, ClientsKnown
  <1>8. RetirementLasts'
    BY DEF SessionTypes, OperationTypes, PhasesByOperation, OwnersExclude, ClientsKnown,
       RetirementLasts
  <1>9. DropsBounded'
    BY DEF OperationTypes, DropsBounded
  <1> QED BY <1>1, <1>2, <1>3, <1>4, <1>5, <1>6, <1>7, <1>8, <1>9

\* Nor when it goes on to its disconnect.
LEMMA SleepResumesIInv ==
    ASSUME RecoveryIInv, SleepResumes
    PROVE  RecoveryIInv'
  <1> USE RecoveryAssumption DEF RecoveryIInv, SleepResumes, Entangled, Disconnects, Off, bounds,
        clientVars, attempt, flags, Breaks
  <1>1. SessionTypes'
    BY DEF SessionTypes, OperationTypes
  <1>2. FlagTypes'
    BY DEF FlagTypes
  <1>3. OperationTypes'
    BY DEF OperationTypes, SessionTypes
  <1>4. CounterTypes'
    BY DEF CounterTypes
  <1>5. PhasesByOperation'
    BY DEF OperationTypes, PhasesByOperation
  <1>6. OwnersExclude'
    BY DEF OperationTypes, PhasesByOperation, OwnersExclude
  <1>7. ClientsKnown'
    BY DEF SessionTypes, OperationTypes, PhasesByOperation, OwnersExclude, ClientsKnown
  <1>8. RetirementLasts'
    BY DEF SessionTypes, OperationTypes, PhasesByOperation, OwnersExclude, ClientsKnown,
       RetirementLasts
  <1>9. DropsBounded'
    BY DEF OperationTypes, DropsBounded
  <1> QED BY <1>1, <1>2, <1>3, <1>4, <1>5, <1>6, <1>7, <1>8, <1>9

\* Nor when it waited for the reconnect it cancelled.
LEMMA SleepGoesOnIInv ==
    ASSUME RecoveryIInv, SleepGoesOn
    PROVE  RecoveryIInv'
  <1> USE RecoveryAssumption DEF RecoveryIInv, SleepGoesOn, bounds, clientVars, attempt, flags,
        Breaks
  <1>1. SessionTypes'
    BY DEF SessionTypes, OperationTypes
  <1>2. FlagTypes'
    BY DEF FlagTypes
  <1>3. OperationTypes'
    BY DEF OperationTypes, SessionTypes
  <1>4. CounterTypes'
    BY DEF CounterTypes
  <1>5. PhasesByOperation'
    BY DEF OperationTypes, PhasesByOperation
  <1>6. OwnersExclude'
    BY DEF OperationTypes, PhasesByOperation, OwnersExclude
  <1>7. ClientsKnown'
    BY DEF SessionTypes, OperationTypes, PhasesByOperation, OwnersExclude, ClientsKnown
  <1>8. RetirementLasts'
    BY DEF SessionTypes, OperationTypes, PhasesByOperation, OwnersExclude, ClientsKnown,
       RetirementLasts
  <1>9. DropsBounded'
    BY DEF OperationTypes, DropsBounded
  <1> QED BY <1>1, <1>2, <1>3, <1>4, <1>5, <1>6, <1>7, <1>8, <1>9

\* The restart starts to work on what is in the slot, or ends where it is not granted.
LEMMA RestartRunsIInv ==
    ASSUME RecoveryIInv, RestartRuns
    PROVE  RecoveryIInv'
  <1> USE DEF RecoveryIInv, RestartRuns, clientVars, attempt, flags, bounds
  <1>1. CASE sstate = "connected" /\ ~flight
    <2> USE <1>1 DEF Disconnects
    <2>1. SessionTypes'
      BY DEF SessionTypes
    <2>2. FlagTypes' /\ CounterTypes'
      BY DEF FlagTypes, CounterTypes
    <2>3. PhasesByOperation' /\ OwnersExclude'
      BY DEF OperationTypes, PhasesByOperation, OwnersExclude
    <2>4. ClientsKnown' /\ RetirementLasts'
      BY DEF OperationTypes, PhasesByOperation, OwnersExclude, ClientsKnown, RetirementLasts
    <2>6. DropsBounded'
      BY DEF OperationTypes, DropsBounded
    <2>5. OperationTypes'
      <3>1. cancelled' \subseteq Owners
        BY DEF OperationTypes
      <3>2. phase' \in [Operations -> Phases]
        BY DEF OperationTypes, Operations, Owners, Recoveries, Phases
      <3>3. client' \in [Operations -> Clients \cup {NoClient}]
        BY DEF SessionTypes, OperationTypes
      <3> QED BY <3>1, <3>2, <3>3 DEF OperationTypes
    <2> QED BY <2>1, <2>2, <2>3, <2>4, <2>5, <2>6
  <1>2. CASE ~(sstate = "connected" /\ ~flight)
    <2>1. SessionTypes'
      BY <1>2 DEF SessionTypes, ReaderAfter
    <2>2. /\ OperationTypes' /\ retries' \in 0..MaxRetries /\ fresh' \in BOOLEAN
          /\ PhasesByOperation' /\ OwnersExclude' /\ ClientsKnown' /\ RetirementLasts'
          /\ DropsBounded'
      BY <1>2, Ended DEF ClientsKnown, MayDrop
    <2>3. FlagTypes' /\ CounterTypes'
      BY <1>2, <2>2 DEF FlagTypes, CounterTypes
    <2> QED BY <2>1, <2>2, <2>3
  <1> QED BY <1>1, <1>2

\* A replacement is the only one: it waits for the recoveries it revoked, or finds none.
LEMMA ReplaceBeginsIInv ==
    ASSUME RecoveryIInv, NEW retire \in BOOLEAN, ReplaceBegins(retire)
    PROVE  RecoveryIInv'
  <1> USE DEF RecoveryIInv, ReplaceBegins, clientVars, bounds
  <1>1. FlagTypes'
    BY DEF FlagTypes, Quiesces
  <1>2. CounterTypes'
    BY RecoveryAssumption DEF CounterTypes
  <1>3. CASE Entangled
    <2>1. UNCHANGED <<sstate, flight, slot, live, dropped, uncertain, reader, phase, client, cancelled,
                      retired, retiring, gone, retries, fresh>>
      BY <1>3
    <2>2. SessionTypes' /\ OperationTypes'
      BY <2>1 DEF SessionTypes, OperationTypes
    <2>3. PhasesByOperation' /\ OwnersExclude'
      BY <2>1 DEF PhasesByOperation, OwnersExclude
    <2>4. ClientsKnown' /\ RetirementLasts'
      BY <2>1 DEF ClientsKnown, RetirementLasts
    <2>5. DropsBounded'
      BY <2>1 DEF DropsBounded
    <2> QED BY <1>1, <1>2, <2>2, <2>3, <2>4, <2>5
  <1>4. CASE ~Entangled /\ \E t \in Recoveries : Running(t)
    <2> USE <1>4 DEF Quiesces
    <2>1. SessionTypes'
      BY DEF SessionTypes
    <2>4. OperationTypes'
      <3>1. cancelled' \subseteq Owners
        <4>1. cancelled' = cancelled \cup {t \in Recoveries : Running(t)}
          OBVIOUS
        <4>2. cancelled \subseteq Owners
          BY DEF OperationTypes
        <4>3. Recoveries \subseteq Owners
          BY DEF Owners
        <4> QED BY <4>1, <4>2, <4>3
      <3>2. phase' \in [Operations -> Phases] /\ UNCHANGED client
        BY DEF OperationTypes
      <3> QED BY <3>1, <3>2 DEF OperationTypes
    <2>2. PhasesByOperation' /\ OwnersExclude'
      BY DEF OperationTypes, PhasesByOperation, OwnersExclude
    <2>3. ClientsKnown' /\ RetirementLasts'
      BY DEF OperationTypes, PhasesByOperation, ClientsKnown, RetirementLasts
    <2>5. DropsBounded'
      BY DEF OperationTypes, DropsBounded
    <2> QED BY <1>1, <1>2, <2>1, <2>2, <2>3, <2>4, <2>5
  <1>5. CASE ~Entangled /\ \A t \in Recoveries : ~Running(t)
    <2> USE <1>5 DEF Quiesces, Disconnects
    <2>1. SessionTypes'
      BY DEF SessionTypes
    <2>4. OperationTypes'
      <3>1. phase' \in [Operations -> Phases]
        BY DEF OperationTypes, Phases
      <3>2. client' \in [Operations -> Clients \cup {NoClient}]
        BY DEF SessionTypes, OperationTypes
      <3>3. cancelled' \subseteq Owners
        BY DEF OperationTypes
      <3> QED BY <3>1, <3>2, <3>3 DEF OperationTypes
    <2>2. PhasesByOperation' /\ OwnersExclude'
      BY DEF OperationTypes, PhasesByOperation, OwnersExclude
    <2>3. ClientsKnown' /\ RetirementLasts'
      BY DEF OperationTypes, PhasesByOperation, ClientsKnown, RetirementLasts
    <2>5. DropsBounded'
      BY DEF OperationTypes, DropsBounded
    <2> QED BY <1>1, <1>2, <2>1, <2>2, <2>3, <2>4, <2>5
  <1> QED BY <1>3, <1>4, <1>5

\* The end of the backoff opens a client where none may be running.
LEMMA BackoffEndsIInv ==
    ASSUME RecoveryIInv, BackoffEnds
    PROVE  RecoveryIInv'
  <1>1. UNCHANGED <<inhibited, retired, stale, retiring, gone, requests, breaks>>
    BY DEF BackoffEnds, flags, bounds
  <1>2. CASE MayStart("reconnect")
    <2>1. live \subseteq dropped /\ UNCHANGED dropped
      BY <1>2 DEF BackoffEnds, Connects, RecoveryIInv, ClientsKnown
    <2> DEFINE new == CHOOSE c \in FreeClients : TRUE
    <2>2. /\ slot' = new /\ live' \subseteq {new} \cup dropped
          /\ phase' = [phase EXCEPT !["reconnect"] = "handshake"]
          /\ client' = [client EXCEPT !["reconnect"] = new]
      BY <1>2, <2>1 DEF BackoffEnds, Connects
    <2>3. UNCHANGED <<sstate, flight, reader, uncertain, cancelled, retries, fresh>>
      BY <1>2 DEF BackoffEnds, attempt
    <2>4. AtWork("reconnect")
      BY DEF BackoffEnds
    <2> HIDE DEF new
    <2>5. /\ slot' \in Clients /\ live' \subseteq Clients
          /\ PhasesByOperation' /\ OwnersExclude' /\ ClientsKnown' /\ RetirementLasts'
          /\ DropsBounded'
          /\ phase' \in [Operations -> Phases] /\ client' \in [Operations -> Clients \cup {NoClient}]
      BY <1>1, <2>1, <2>2, <2>4, Connected DEF new, flags
    <2> QED
      BY <1>1, <2>1, <2>3, <2>5 DEF RecoveryIInv, SessionTypes, FlagTypes, OperationTypes, CounterTypes
  <1>3. CASE ~MayStart("reconnect")
    <2>1. Fails("reconnect") /\ UNCHANGED <<slot, live, dropped, uncertain>>
      BY <1>3 DEF BackoffEnds, clientVars
    <2> QED
      BY <1>1, <2>1, FailedIInv DEF RecoveryIInv, ClientsKnown, SessionTypes, CounterTypes, MayDrop
  <1> QED BY <1>2, <1>3

\* disconnect returned: an owner goes on, opens its client, or is refused and fails; a
\* retirement is over, with nothing left to run.
LEMMA CloseEndsIInv ==
    ASSUME RecoveryIInv, NEW t \in Operations, CloseEnds(t)
    PROVE  RecoveryIInv'
  <1>1. /\ UNCHANGED <<inhibited, retired, stale, retiring, requests, breaks>>
        /\ phase[t] = "closing" /\ AtWork(t)
        /\ sstate \in SessionStates /\ flight \in BOOLEAN /\ reader \in ReaderStates
        /\ requests \in 0..MaxRequests /\ breaks \in 0..MaxBreaks
    BY DEF CloseEnds, bounds, RecoveryIInv, SessionTypes, CounterTypes
  <1>2. ASSUME Stopped(t)
        PROVE  /\ live' \subseteq live /\ live' \subseteq dropped' /\ slot' = NoClient
               /\ uncertain' = FALSE /\ MayDrop(t) /\ (t # "sleep" => UNCHANGED dropped)
    BY <1>1, <1>2, NoneLeft
  <1>3. CASE t = "sleep"
    <2>1. Stopped(t) /\ Off(t) /\ UNCHANGED <<sstate, flight, reader, gone>>
      BY <1>3 DEF CloseEnds
    <2> QED BY <1>1, <1>2, <1>3, <2>1, EndedIInv
  <1>4. CASE t = "replace" /\ retiring
    <2>1. Stopped(t) /\ Off(t) /\ gone' = TRUE /\ UNCHANGED <<sstate, flight, reader>>
      BY <1>4 DEF CloseEnds
    <2>2. SessionTypes' /\ OperationTypes'
      BY <1>2, <1>4, <2>1 DEF RecoveryIInv, SessionTypes, OperationTypes, Off
    <2>3. FlagTypes'
      BY <1>1, <1>4, <2>1 DEF RecoveryIInv, FlagTypes, Off
    <2>4. CounterTypes'
      BY <1>1, <1>4, <2>1 DEF RecoveryIInv, CounterTypes, Off
    <2>5. PhasesByOperation' /\ OwnersExclude' /\ ClientsKnown'
      BY <1>1, <1>2, <1>4, <2>1
      DEF RecoveryIInv, OperationTypes, PhasesByOperation, OwnersExclude, ClientsKnown, Off
    <2>7. DropsBounded'
      BY <1>2, <1>4, <2>1 DEF RecoveryIInv, OperationTypes, DropsBounded, Off
    <2>6. RetirementLasts'
      BY <1>1, <1>2, <1>4, <2>1
      DEF RecoveryIInv, OperationTypes, PhasesByOperation, OwnersExclude, RetirementLasts, Off
    <2> QED BY <2>2, <2>3, <2>4, <2>5, <2>6, <2>7 DEF RecoveryIInv
  <1>5. CASE t = "reconnect"
    <2>1. /\ Stopped(t)
          /\ phase' = [phase EXCEPT ![t] = "backoff"] /\ client' = [client EXCEPT ![t] = NoClient]
          /\ sstate' = "reconnecting" /\ retries' = 1 /\ fresh' = FALSE
          /\ UNCHANGED <<flight, reader, cancelled, gone>>
      BY <1>5 DEF CloseEnds
    <2>2. SessionTypes' /\ OperationTypes'
      BY <1>2, <1>5, <2>1 DEF RecoveryIInv, SessionTypes, OperationTypes
    <2>3. FlagTypes'
      BY <1>1, <2>1 DEF RecoveryIInv, FlagTypes
    <2>4. CounterTypes'
      BY <1>1, <2>1, RecoveryAssumption DEF RecoveryIInv, CounterTypes
    <2>5. PhasesByOperation' /\ OwnersExclude' /\ ClientsKnown' /\ RetirementLasts'
      BY <1>1, <1>2, <1>5, <2>1
      DEF RecoveryIInv, OperationTypes, PhasesByOperation, OwnersExclude, ClientsKnown,
         RetirementLasts
    <2>6. DropsBounded'
      BY <1>2, <1>5, <2>1 DEF RecoveryIInv, OperationTypes, DropsBounded
    <2> QED BY <2>2, <2>3, <2>4, <2>5, <2>6 DEF RecoveryIInv
  <1>6. CASE t = "restart" \/ (t = "replace" /\ ~retiring)
    <2>1. CASE MayStart(t)
      <3> DEFINE new == CHOOSE c \in FreeClients : TRUE
      <3>1. /\ slot' = new /\ live' = (live \ {client[t]}) \cup {new} /\ uncertain' = FALSE
            /\ client' = [client EXCEPT ![t] = new]
            /\ phase' = [phase EXCEPT ![t] = "handshake"]
            /\ sstate' = IF t = "restart" THEN "reconnecting" ELSE sstate
            /\ UNCHANGED <<flight, reader, cancelled, retries, fresh, gone>>
            /\ UNCHANGED dropped
        BY <1>6, <2>1 DEF CloseEnds, Connects
      <3> HIDE DEF new
      <3>2. live' \subseteq {new} \cup dropped
        BY <1>1, <1>6, <3>1 DEF RecoveryIInv, ClientsKnown
      <3>3. /\ slot' \in Clients /\ live' \subseteq Clients
            /\ PhasesByOperation' /\ OwnersExclude' /\ ClientsKnown' /\ RetirementLasts'
            /\ DropsBounded'
            /\ phase' \in [Operations -> Phases] /\ client' \in [Operations -> Clients \cup {NoClient}]
        BY <1>1, <1>6, <3>1, <3>2, Connected DEF new, flags
      <3> QED
        BY <1>1, <3>1, <3>3 DEF RecoveryIInv, SessionTypes, FlagTypes, OperationTypes, CounterTypes
    <2>2. CASE ~MayStart(t)
      <3>1. Stopped(t) /\ Fails(t) /\ UNCHANGED gone
        BY <1>6, <2>2 DEF CloseEnds
      <3> QED BY <1>1, <1>2, <3>1, FailedIInv
    <2> QED BY <2>1, <2>2
  <1> QED BY <1>3, <1>4, <1>5, <1>6 DEF CloseEnds

\* It raised: the client is kept where the next owner finds it, or, in a lenient cleanup of
\* the idle sleep, dropped.
LEMMA CloseFailsIInv ==
    ASSUME RecoveryIInv, NEW t \in Operations, CloseFails(t)
    PROVE  RecoveryIInv'
  <1>1. /\ UNCHANGED <<inhibited, retired, stale, retiring, gone>>
        /\ AtWork(t)
        /\ sstate \in SessionStates /\ flight \in BOOLEAN /\ reader \in ReaderStates
        /\ live \subseteq {slot} \cup dropped
    BY DEF CloseFails, flags, RecoveryIInv, SessionTypes, ClientsKnown
  <1>2. requests' \in 0..MaxRequests /\ breaks' \in 0..MaxBreaks
    BY RecoveryAssumption DEF CloseFails, Breaks, RecoveryIInv, CounterTypes
  <1>3. CASE Strict(t)
    <2>1. uncertain' = TRUE /\ UNCHANGED <<slot, live, dropped>>
      BY <1>3 DEF CloseFails
    <2>2. \/ Off(t) /\ UNCHANGED <<sstate, flight, reader>>
          \/ Fails(t)
      BY <1>3 DEF CloseFails
    <2> QED BY <1>1, <1>2, <2>1, <2>2, EndedIInv, FailedIInv DEF MayDrop
  <1>4. CASE ~Strict(t)
    <2>1. /\ t = "sleep" /\ Empties(t, {}) /\ Off(t)
          /\ UNCHANGED <<sstate, flight, reader>>
      BY <1>4 DEF CloseFails, Strict
    <2>2. /\ live' \subseteq live /\ live' \subseteq dropped' /\ slot' = NoClient
          /\ uncertain' = FALSE /\ MayDrop(t)
      BY <1>1, <2>1, SleepLeaves
    <2> QED BY <1>1, <1>2, <2>1, <2>2, EndedIInv
  <1> QED BY <1>3, <1>4

\* The handshake's end, and what follows it, keep the client.
LEMMA HandshakeIInv ==
    ASSUME RecoveryIInv, NEW t \in Operations, HandshakeSucceeds(t) \/ HandshakeFails(t)
    PROVE  RecoveryIInv'
  <1>1. /\ UNCHANGED <<slot, live, dropped, uncertain, inhibited, retired, stale, retiring, gone>>
        /\ AtWork(t) /\ t \in Owners
        /\ sstate \in SessionStates /\ flight \in BOOLEAN /\ reader \in ReaderStates
        /\ live \subseteq {slot} \cup dropped /\ uncertain \in BOOLEAN
    BY DEF HandshakeSucceeds, HandshakeFails, flags, clientVars, RecoveryIInv, SessionTypes,
       ClientsKnown,
           PhasesByOperation
  <1>2. requests' \in 0..MaxRequests /\ breaks' \in 0..MaxBreaks
    BY RecoveryAssumption
    DEF HandshakeSucceeds, HandshakeFails, bounds, Breaks, RecoveryIInv, CounterTypes
  <1>3. ASSUME NEW p \in {"setup", "cleaning"},
               sstate' \in SessionStates, phase' = [phase EXCEPT ![t] = p],
               UNCHANGED <<flight, reader, client, cancelled, retries, fresh>>
        PROVE  RecoveryIInv'
    <2>1. /\ PhasesByOperation' /\ OwnersExclude' /\ ClientsKnown' /\ RetirementLasts'
          /\ DropsBounded'
          /\ phase' \in [Operations -> Phases] /\ client' \in [Operations -> Clients \cup {NoClient}]
      BY <1>1, <1>3, Advanced DEF flags
    <2> QED BY <1>1, <1>2, <1>3, <2>1
            DEF RecoveryIInv, SessionTypes, FlagTypes, OperationTypes, CounterTypes
  <1>4. CASE HandshakeSucceeds(t) /\ MayStart(t)
    <2>1. /\ sstate' = "connected" /\ phase' = [phase EXCEPT ![t] = "setup"]
          /\ UNCHANGED <<flight, reader, client, cancelled, retries, fresh>>
      BY <1>4 DEF HandshakeSucceeds, attempt
    <2> QED BY <1>3, <2>1
  <1>5. CASE HandshakeSucceeds(t) /\ ~MayStart(t)
    <2>1. Fails(t)
      BY <1>5 DEF HandshakeSucceeds
    <2> QED BY <1>1, <1>2, <2>1, FailedIInv DEF MayDrop
  <1>6. CASE HandshakeFails(t)
    <2>1. /\ phase' = [phase EXCEPT ![t] = "cleaning"]
          /\ UNCHANGED <<sstate, flight, reader, client, cancelled, retries, fresh>>
      BY <1>6 DEF HandshakeFails, attempt
    <2> QED BY <1>1, <1>3, <2>1
  <1> QED BY <1>4, <1>5, <1>6

\* The partial client is stopped before the next is opened, and before the owner backs off
\* or fails.
LEMMA CleaningEndsIInv ==
    ASSUME RecoveryIInv, NEW t \in Operations, CleaningEnds(t)
    PROVE  RecoveryIInv'
  <1>1. /\ UNCHANGED <<inhibited, retired, stale, retiring, gone, requests, breaks>>
        /\ phase[t] = "cleaning" /\ AtWork(t) /\ t \in Owners
        /\ sstate \in SessionStates /\ flight \in BOOLEAN /\ reader \in ReaderStates
        /\ live \subseteq {client[t]} \cup dropped
        /\ requests \in 0..MaxRequests /\ breaks \in 0..MaxBreaks
    BY DEF CleaningEnds, flags, bounds, RecoveryIInv, SessionTypes, CounterTypes, ClientsKnown,
           PhasesByOperation
  <1>2. ASSUME Stopped(t)
        PROVE  /\ live' \subseteq live /\ live' \subseteq dropped' /\ slot' = NoClient
               /\ uncertain' = FALSE /\ MayDrop(t) /\ (t # "sleep" => UNCHANGED dropped)
    BY <1>1, <1>2, NoneLeft
  <1>3. CASE /\ MayStart(t) /\ fresh' = TRUE
             /\ Connects(t) /\ live' = (live \ {client[t]}) \cup {slot'} /\ uncertain' = FALSE
             /\ UNCHANGED <<sstate, flight, reader, cancelled, retries>>
    <2> DEFINE new == CHOOSE c \in FreeClients : TRUE
    <2>1. /\ UNCHANGED dropped /\ slot' = new /\ live' \subseteq {new} \cup dropped
          /\ client' = [client EXCEPT ![t] = new]
          /\ phase' = [phase EXCEPT ![t] = "handshake"]
      BY <1>1, <1>3 DEF Connects
    <2> HIDE DEF new
    <2>3. /\ slot' \in Clients /\ live' \subseteq Clients
          /\ PhasesByOperation' /\ OwnersExclude' /\ ClientsKnown' /\ RetirementLasts'
          /\ DropsBounded'
          /\ phase' \in [Operations -> Phases] /\ client' \in [Operations -> Clients \cup {NoClient}]
      BY <1>1, <2>1, Connected DEF new, flags
    <2> QED
      BY <1>1, <1>3, <2>1, <2>3 DEF RecoveryIInv, SessionTypes, FlagTypes, OperationTypes, CounterTypes
  <1>4. CASE /\ t = "reconnect" /\ retries < MaxRetries
             /\ Stopped(t)
             /\ sstate' = "reconnecting" /\ retries' = retries + 1
             /\ phase' = [phase EXCEPT ![t] = "backoff"]
             /\ client' = [client EXCEPT ![t] = NoClient]
             /\ UNCHANGED <<flight, reader, cancelled, fresh>>
    <2>1. SessionTypes' /\ OperationTypes'
      BY <1>2, <1>4 DEF RecoveryIInv, SessionTypes, OperationTypes
    <2>2. FlagTypes'
      BY <1>1, <1>4 DEF RecoveryIInv, FlagTypes
    <2>3. CounterTypes'
      BY <1>1, <1>4, RecoveryAssumption DEF RecoveryIInv, CounterTypes
    <2>4. PhasesByOperation' /\ OwnersExclude' /\ ClientsKnown' /\ RetirementLasts'
      BY <1>1, <1>2, <1>4
      DEF RecoveryIInv, OperationTypes, PhasesByOperation, OwnersExclude, ClientsKnown,
         RetirementLasts
    <2>5. DropsBounded'
      BY <1>1, <1>2, <1>4 DEF RecoveryIInv, OperationTypes, DropsBounded
    <2> QED BY <2>1, <2>2, <2>3, <2>4, <2>5 DEF RecoveryIInv
  <1>5. CASE Stopped(t) /\ Fails(t)
    BY <1>1, <1>2, <1>5, FailedIInv
  <1> QED BY <1>3, <1>4, <1>5 DEF CleaningEnds

\* A cleanup that failed keeps the client.
LEMMA CleaningFailsIInv ==
    ASSUME RecoveryIInv, NEW t \in Operations, CleaningFails(t)
    PROVE  RecoveryIInv'
  <1>1. /\ UNCHANGED <<slot, live, dropped, inhibited, retired, stale, retiring, gone>>
        /\ Fails(t) /\ MayDrop(t) /\ live \subseteq {slot} \cup dropped /\ uncertain' = TRUE
    BY DEF CleaningFails, flags, RecoveryIInv, ClientsKnown, MayDrop
  <1>2. requests' \in 0..MaxRequests /\ breaks' \in 0..MaxBreaks
    BY RecoveryAssumption DEF CleaningFails, Breaks, RecoveryIInv, CounterTypes
  <1> QED BY <1>1, <1>2, FailedIInv

\* The owner succeeded: its client stays, in the slot, and a replacement allows recoveries
\* again.
LEMMA SetupEndsIInv ==
    ASSUME RecoveryIInv, NEW t \in Operations, SetupEnds(t)
    PROVE  RecoveryIInv'
  <1>1. /\ UNCHANGED <<slot, live, dropped, uncertain, stale, retiring, gone, requests, breaks>>
        /\ Off(t) /\ Running(t) /\ MayDrop(t)
        /\ live \subseteq {slot} \cup dropped /\ reader' = "reading"
    BY DEF SetupEnds, clientVars, bounds, RecoveryIInv, ClientsKnown, MayDrop
  <1>2. IF t = "replace" THEN inhibited' = FALSE /\ retired' = FALSE
        ELSE UNCHANGED <<inhibited, retired>>
    BY DEF SetupEnds
  <1>3. sstate' \in SessionStates /\ flight' \in BOOLEAN
    BY DEF SetupEnds, Completes, RecoveryIInv, SessionTypes
  <1>4. /\ OperationTypes' /\ retries' \in 0..MaxRetries /\ fresh' \in BOOLEAN
        /\ PhasesByOperation' /\ OwnersExclude' /\ ClientsKnown' /\ RetirementLasts'
        /\ DropsBounded'
    BY <1>1, <1>2, Ended
  <1>5. SessionTypes'
    BY <1>1, <1>3 DEF RecoveryIInv, SessionTypes
  <1>6. FlagTypes'
    BY <1>1, <1>2, <1>4 DEF RecoveryIInv, FlagTypes
  <1>7. CounterTypes'
    BY <1>1, <1>4 DEF RecoveryIInv, CounterTypes
  <1> QED BY <1>4, <1>5, <1>6, <1>7 DEF RecoveryIInv

\* A cancelled operation ends with the client where it is, or stops it first.
LEMMA InterruptedIInv ==
    ASSUME RecoveryIInv, NEW t \in Operations, Interrupted(t)
    PROVE  RecoveryIInv'
  <1>1. /\ UNCHANGED <<slot, live, dropped, inhibited, retired, stale, retiring, gone, requests,
                      breaks>>
        /\ MayDrop(t) /\ live \subseteq {slot} \cup dropped /\ uncertain \in BOOLEAN
        /\ sstate \in SessionStates /\ flight \in BOOLEAN /\ reader \in ReaderStates
        /\ requests \in 0..MaxRequests /\ breaks \in 0..MaxBreaks
    BY DEF Interrupted, flags, bounds, RecoveryIInv, ClientsKnown, SessionTypes, CounterTypes,
           MayDrop
  <1>2. CASE /\ phase[t] = "claimed" /\ Off(t) /\ reader' = ReaderAfter(t)
             /\ UNCHANGED <<sstate, flight, uncertain>>
    <2>1. reader' \in ReaderStates
      BY <1>1, <1>2 DEF ReaderAfter
    <2> QED BY <1>1, <1>2, <2>1, EndedIInv
  <1>3. CASE /\ phase[t] = "handshake" /\ phase' = [phase EXCEPT ![t] = "stopping"]
             /\ cancelled' = cancelled \ {t}
             /\ UNCHANGED <<sstate, flight, reader, uncertain, client, retries, fresh>>
    <2>1. t \in Owners /\ AtWork(t)
      BY <1>3 DEF RecoveryIInv, PhasesByOperation
    <2>2. /\ PhasesByOperation' /\ OwnersExclude' /\ ClientsKnown' /\ RetirementLasts'
          /\ DropsBounded'
          /\ phase' \in [Operations -> Phases] /\ client' \in [Operations -> Clients \cup {NoClient}]
      BY <1>1, <1>3, <2>1, Advanced DEF flags
    <2> QED BY <1>1, <1>3, <2>2
            DEF RecoveryIInv, SessionTypes, FlagTypes, OperationTypes, CounterTypes
  <1>4. CASE /\ Fails(t)
             /\ uncertain' = (uncertain \/ phase[t] \in {"closing", "cleaning", "stopping"})
    <2>1. uncertain' \in BOOLEAN
      BY <1>4
    <2> QED BY <1>1, <1>4, <2>1, FailedIInv
  <1> QED BY <1>2, <1>3, <1>4 DEF Interrupted

\* The client of a cancelled handshake is stopped or kept.
LEMMA StoppingEndsIInv ==
    ASSUME RecoveryIInv, NEW t \in Operations, StoppingEnds(t)
    PROVE  RecoveryIInv'
  <1>1. /\ UNCHANGED <<inhibited, retired, stale, retiring, gone>>
        /\ Fails(t) /\ AtWork(t) /\ live \subseteq {slot} \cup dropped
    BY DEF StoppingEnds, flags, RecoveryIInv, ClientsKnown
  <1>2. requests' \in 0..MaxRequests /\ breaks' \in 0..MaxBreaks
    BY RecoveryAssumption DEF StoppingEnds, Breaks, bounds, RecoveryIInv, CounterTypes
  <1>3. \/ Stopped(t)
        \/ uncertain' = TRUE /\ UNCHANGED <<slot, live, dropped>>
    BY DEF StoppingEnds
  <1>4. /\ live' \subseteq live /\ live' \subseteq {slot'} \cup dropped' /\ MayDrop(t)
        /\ slot' \in {slot, NoClient} /\ uncertain' \in BOOLEAN
    BY <1>1, <1>3, NoneLeft DEF MayDrop
  <1> QED BY <1>1, <1>2, <1>4, FailedIInv

\* The inductive step.
LEMMA RecoveryNextIInv == RecoveryIInv /\ [RecoveryNext]_recoveryVars => RecoveryIInv'
  <1> SUFFICES ASSUME RecoveryIInv, [RecoveryNext]_recoveryVars
               PROVE  RecoveryIInv'
    OBVIOUS
  <1>1. CASE ReaderFails \/ OthersReconnect \/ CallerCancelled \/ BeginRestart
    BY <1>1, ReaderFailsIInv, OthersReconnectIInv, CallerCancelledIInv, ForceRestartIInv
  <1>2. ASSUME NEW retire \in BOOLEAN, ReplaceBegins(retire)
        PROVE  RecoveryIInv'
    BY <1>2, ReplaceBeginsIInv
  <1>3. CASE QuiesceEnds \/ QuiesceGivesUp
    BY <1>3, QuiesceEndsIInv, QuiesceGivesUpIInv
  <1>4. CASE ReconnectRuns \/ RestartRuns \/ BackoffEnds
    BY <1>4, ReconnectRunsIInv, RestartRunsIInv, BackoffEndsIInv
  <1>5. ASSUME NEW t \in Operations,
               Advances(t) \/ CloseFails(t) \/ HandshakeFails(t) \/ CleaningFails(t)
        PROVE  RecoveryIInv'
    BY <1>5, CloseEndsIInv, HandshakeIInv, CleaningEndsIInv, SetupEndsIInv, InterruptedIInv,
       StoppingEndsIInv, CloseFailsIInv, CleaningFailsIInv DEF Advances
  <1>6. CASE SleepBegins \/ SleepAborted \/ SleepResumes \/ SleepGoesOn
    BY <1>6, SleepBeginsIInv, SleepAbortedIInv, SleepResumesIInv, SleepGoesOnIInv
  <1>7. CASE UNCHANGED recoveryVars
    BY <1>7 DEF recoveryVars, RecoveryIInv, SessionTypes, FlagTypes, OperationTypes, CounterTypes,
       PhasesByOperation, OwnersExclude, ClientsKnown, DropsBounded, RetirementLasts
  <1> QED BY <1>1, <1>2, <1>3, <1>4, <1>5, <1>6, <1>7 DEF RecoveryNext

\* The inductive invariant holds throughout.
LEMMA RecoveryInvariant == RecoverySpec => []RecoveryIInv
  BY RecoveryInitIInv, RecoveryNextIInv, PTL DEF RecoverySpec

\* Type correctness.
THEOREM RecoveryTypeCorrect == RecoverySpec => []RecoveryTypeOK
  <1>1. RecoveryIInv => RecoveryTypeOK
    BY DEF RecoveryIInv, SessionTypes, FlagTypes, OperationTypes, CounterTypes, RecoveryTypeOK
  <1> QED BY <1>1, RecoveryInvariant, PTL

\* Reconnect, forced restart and replacement never have their hands on the client beside
\* each other (streaming_session.py, the recovery tasks; transport_replacement.py,
\* _quiesce_recovery_owner): the recoveries refuse each other's claims, and a replacement
\* revokes them and works only when none is left.
THEOREM OneRecoveryOwnerHolds == RecoverySpec => []OneRecoveryOwner
  <1>1. RecoveryIInv => OneRecoveryOwner
    <2> SUFFICES ASSUME RecoveryIInv PROVE OneRecoveryOwner
      OBVIOUS
    <2> DEFINE busy == {t \in Owners : phase[t] \notin {"off", "claimed", "quiescing", "entangled"}}
    <2>1. \A t, u \in busy : t = u
      BY DEF RecoveryIInv, PhasesByOperation, OwnersExclude
    <2>2. CASE busy = {}
      BY <2>2, FS_EmptySet DEF OneRecoveryOwner
    <2>3. CASE \E t \in busy : TRUE
      <3> PICK t \in busy : TRUE
        BY <2>3
      <3>1. busy = {t}
        BY <2>1
      <3>2. Cardinality(busy) = 1
        BY <3>1, FS_Singleton
      <3> QED BY <3>2 DEF OneRecoveryOwner
    <2> QED BY <2>2, <2>3
  <1> QED BY <1>1, RecoveryInvariant, PTL

\* The recoveries and the replacement orphan no client: one that may be running is the one
\* in the slot, and behind a retirement that has returned none runs, nor an owner that would
\* start one.  What else may run, the idle sleep took out of the slot without stopping it: it
\* takes part in no ownership and empties the slot under whoever is at work.
THEOREM NoOrphanHolds == RecoverySpec => []NoOrphan
  <1>1. RecoveryIInv => NoOrphan
    BY DEF RecoveryIInv, ClientsKnown, RetirementLasts, NoOrphan
  <1> QED BY <1>1, RecoveryInvariant, PTL

-----------------------------------------------------------------------------
(* SessionWatchdog: the progress tier leaves a recovered session alone.       *)

\* What the watchdog counts as time without progress lies after its last recovery, and a
\* recovery for lack of progress is decided only when that is the whole threshold.
RecoverySpacing ==
    /\ watch.stale <= sinceRecovery
    /\ sweep.at = "recover" => sweep.then
    /\ sweep.at \in {"alert", "recover"} /\ sweep.tier = "progress" /\ sweep.then
         => sinceRecovery >= RecoverAfter

WatchdogInv == WatchdogTypeOK /\ RecoverySpacing

\* The bounds are numbers.
LEMMA WatchdogBounds ==
    /\ WarnAfter \in Nat /\ RecoverAfter \in Nat /\ TransitionWarn \in Nat
    /\ MaxTurns \in Nat /\ MaxTroubles \in Nat
  BY WatchdogAssumption

\* Ages are numbers up to the threshold and grow in order.
LEMMA AgesGrow ==
    /\ RecoverAfter \in Nat /\ 0 \in Ages
    /\ \A age \in Ages : age \in Nat /\ Older(age) \in Ages
    /\ \A a, b \in Ages : a <= b => Older(a) <= Older(b)
  BY WatchdogBounds DEF Ages, Older

\* The invariant holds before the first sweep.
LEMMA WatchdogStarts ==
    ASSUME WatchdogInit PROVE WatchdogInv
  <1>1. 0 \in 0..MaxTurns /\ 0 \in 0..WarnAfter /\ 0 \in 0..TransitionWarn
        /\ 0 \in 0..MaxTroubles /\ 0 \in Ages /\ RecoverAfter \in Ages /\ RecoverAfter \in Nat
    BY WatchdogBounds DEF Ages
  <1>2. NewSession \in Session /\ Unwatched \in Watch /\ Done \in Sweep
    BY <1>1 DEF NewSession, Session, Unwatched, Watch, Done, Sweep
  <1>3. WatchdogTypeOK
    BY <1>1, <1>2 DEF WatchdogInit, WatchdogTypeOK
  <1>4. watch.stale = 0 /\ sweep.at = "done" /\ sinceRecovery \in Nat
    BY <1>1 DEF WatchdogInit, Unwatched, Done
  <1> QED BY <1>3, <1>4 DEF WatchdogInv, RecoverySpacing

\* The records and counters that actions start from are of their types.
LEMMA WatchdogConstants ==
    /\ 0 \in 0..MaxTurns /\ 0 \in 0..WarnAfter /\ 0 \in 0..TransitionWarn /\ WarnAfter \in 0..WarnAfter
    /\ TransitionWarn \in 0..TransitionWarn /\ 0 \in Ages
    /\ NewSession \in Session /\ Unwatched \in Watch /\ Done \in Sweep
  <1>1. 0 \in 0..MaxTurns /\ 0 \in 0..WarnAfter /\ 0 \in 0..TransitionWarn /\ 0 \in Ages
        /\ WarnAfter \in 0..WarnAfter /\ TransitionWarn \in 0..TransitionWarn
    BY WatchdogBounds DEF Ages
  <1> QED
    BY <1>1 DEF NewSession, Session, Unwatched, Watch, Done, Sweep

\* The session's own steps touch nothing the watchdog decides by.
LEMMA SessionMoves ==
    ASSUME WatchdogInv, session' \in Session, troubles' \in 0..MaxTroubles,
           UNCHANGED <<stamps, watch, sweep, sinceRecovery>>
    PROVE  WatchdogInv'
  BY DEF WatchdogInv, WatchdogTypeOK, RecoverySpacing

\* The troubles stay within their bound.
LEMMA TroublesBounded ==
    ASSUME WatchdogInv, Trouble \/ UNCHANGED troubles PROVE troubles' \in 0..MaxTroubles
  BY WatchdogBounds DEF WatchdogInv, WatchdogTypeOK, Trouble

\* A session that enters a state is a session.
LEMMA EntersTyped ==
    ASSUME WatchdogInv, NEW state \in {"connected", "reconnecting", "resting"}
    PROVE  Enters(state) \in Session
  <1>1. PICK age \in Ages : age = IF stamps THEN 0 ELSE session.entered
    BY WatchdogConstants DEF WatchdogInv, WatchdogTypeOK, Session
  <1>2. Enters(state) = [session EXCEPT !.state = state, !.inState = 0, !.idle = 0, !.entered = age]
    BY <1>1 DEF Enters
  <1> QED BY <1>1, <1>2, WatchdogConstants DEF WatchdogInv, WatchdogTypeOK, Session

\* What a session does itself leaves what the watchdog counts alone.
LEMMA SessionSteps ==
    ASSUME WatchdogInv,
           \/ MessageArrives \/ ToolUsed \/ TurnEnds \/ Hangs \/ Drops \/ Reconnects
           \/ RestsOrWakes \/ Unregistered \/ Registered
    PROVE  WatchdogInv'
  <1>t. session \in Session
    BY DEF WatchdogInv, WatchdogTypeOK
  <1>1. UNCHANGED <<stamps, watch, sweep, sinceRecovery>> /\ (Trouble \/ UNCHANGED troubles)
    BY DEF MessageArrives, ToolUsed, TurnEnds, Hangs, Drops, Reconnects, RestsOrWakes,
       Unregistered, Registered
  <1>2. session' \in Session
    <2>1. CASE MessageArrives
      BY <2>1, <1>t, WatchdogConstants DEF MessageArrives, Session
    <2>2. CASE ToolUsed
      BY <2>2, <1>t, WatchdogConstants DEF ToolUsed, Session
    <2>3. CASE TurnEnds
      <3>1. PICK more \in BOOLEAN :
              session' = [session EXCEPT !.turns = @ + 1, !.activity = "", !.pending = more, !.idle = 0]
        BY <2>3 DEF TurnEnds
      <3>2. session.turns + 1 \in 0..MaxTurns
        <4>1. session.turns \in 0..MaxTurns /\ session.turns < MaxTurns
          BY <2>3, <1>t DEF TurnEnds, Session
        <4> QED BY <4>1, WatchdogBounds
      <3> QED BY <3>1, <3>2, <1>t, WatchdogConstants DEF Session
    <2>4. CASE Hangs
      BY <2>4, <1>t DEF Hangs, Session
    <2>5. CASE Drops \/ Reconnects \/ RestsOrWakes
      <3>1. PICK state \in {"connected", "reconnecting", "resting"} : session' = Enters(state)
        BY <2>5 DEF Drops, Reconnects, RestsOrWakes
      <3> QED BY <3>1, EntersTyped
    <2>6. CASE Unregistered \/ Registered
      <3>1. \A flag \in BOOLEAN : /\ [NewSession EXCEPT !.registered = flag] \in Session
                                  /\ [NewSession EXCEPT !.pending = flag] \in Session
        BY WatchdogConstants DEF Session
      <3> QED BY <2>6, <3>1 DEF Unregistered, Registered
    <2> QED BY <2>1, <2>2, <2>3, <2>4, <2>5, <2>6
  <1> QED BY <1>1, <1>2, TroublesBounded, SessionMoves

\* Time without progress and time since the recovery grow alike.
LEMMA TicksSpaced ==
    ASSUME WatchdogInv, Ticks PROVE WatchdogInv'
  <1>t. /\ session \in Session /\ watch \in Watch /\ sinceRecovery \in Ages
        /\ watch.stale \in Ages /\ watch.stale <= sinceRecovery
        /\ watch.grace \in 0..WarnAfter /\ watch.transitionGrace \in 0..TransitionWarn
        /\ WarnAfter \in Nat /\ TransitionWarn \in Nat
    BY WatchdogBounds DEF WatchdogInv, WatchdogTypeOK, RecoverySpacing, Watch
  <1>1. session' \in Session
    <2>1. PICK a \in Ages, b \in Ages, c \in Ages :
            session' = [session EXCEPT !.entered = a, !.inState = b, !.idle = c]
      <3>1. /\ Older(session.entered) \in Ages /\ Older(session.inState) \in Ages
            /\ (IF session.pending /\ session.state = "connected" THEN Older(session.idle) ELSE 0) \in Ages
        BY <1>t, AgesGrow DEF Session
      <3> QED BY <3>1 DEF Ticks
    <2> QED BY <2>1, <1>t DEF Session
  <1>2. watch' \in Watch /\ watch'.stale = Older(watch.stale)
    <2>1. PICK g \in 0..WarnAfter : g = IF watch.grace = 0 THEN 0 ELSE watch.grace - 1
      BY <1>t
    <2>2. PICK t \in 0..TransitionWarn :
            t = IF watch.transitionGrace = 0 THEN 0 ELSE watch.transitionGrace - 1
      BY <1>t
    <2>3. PICK old \in Ages : old = Older(watch.stale)
      BY <1>t, AgesGrow
    <2>4. watch' = [watch EXCEPT !.stale = old, !.grace = g, !.transitionGrace = t]
      BY <2>1, <2>2, <2>3 DEF Ticks
    <2> QED BY <2>3, <2>4, <1>t DEF Watch
  <1>3. sweep' \in Sweep /\ sweep'.at = "due"
    BY DEF Ticks, Done, Sweep
  <1>4. sinceRecovery' \in Ages /\ watch'.stale <= sinceRecovery'
    BY <1>t, <1>2, AgesGrow DEF Ticks
  <1> QED
    BY <1>1, <1>2, <1>3, <1>4 DEF WatchdogInv, WatchdogTypeOK, RecoverySpacing, Ticks

\* What a sweep sees has no more time without progress than passed since the recovery.
LEMMA WatchedTyped ==
    ASSUME WatchdogInv
    PROVE  Watched \in Watch /\ Watched.stale <= sinceRecovery
  <1>1. session \in Session /\ watch \in Watch /\ watch.stale <= sinceRecovery /\ sinceRecovery \in Ages
    BY DEF WatchdogInv, WatchdogTypeOK, RecoverySpacing
  <1>2. CASE watch.known
    BY <1>1, <1>2 DEF Watched
  <1>3. CASE ~watch.known
    <2>1. Watched = [Unwatched EXCEPT !.known = TRUE, !.turns = session.turns, !.activity = session.activity]
      BY <1>3 DEF Watched
    <2>2. /\ [Unwatched EXCEPT !.known = TRUE, !.turns = session.turns, !.activity = session.activity] \in Watch
          /\ [Unwatched EXCEPT !.known = TRUE, !.turns = session.turns, !.activity = session.activity].stale = 0
      BY <1>1, WatchdogConstants DEF Watch, Session, Unwatched
    <2> QED BY <1>1, <2>1, <2>2, AgesGrow
  <1> QED BY <1>2, <1>3

\* A sweep that remembers something of the session, and recovers it for lack of progress
\* only when it is stale.
LEMMA SweepDecides ==
    ASSUME WatchdogInv, watch' \in Watch, watch'.stale <= sinceRecovery,
           NEW tier \in {"progress", "transition"}, NEW alert \in BOOLEAN, NEW recover \in BOOLEAN,
           Decides(tier, alert, recover),
           tier = "progress" /\ recover => sinceRecovery >= RecoverAfter,
           UNCHANGED <<stamps, session, sinceRecovery, troubles>>
    PROVE  WatchdogInv'
  <1>1. CASE ~alert /\ ~recover
    <2>1. sweep' = Done
      BY <1>1 DEF Decides
    <2>2. sweep' \in Sweep /\ sweep'.at = "done"
      BY <2>1, WatchdogConstants DEF Done
    <2> QED BY <2>2 DEF WatchdogInv, WatchdogTypeOK, RecoverySpacing
  <1>2. CASE alert \/ recover
    <2>1. sweep' = [at |-> IF alert THEN "alert" ELSE "recover", tier |-> tier, then |-> recover]
      BY <1>2 DEF Decides
    <2>2. /\ sweep' \in Sweep /\ sweep'.tier = tier /\ sweep'.then = recover
          /\ sweep'.at = IF alert THEN "alert" ELSE "recover"
      BY <2>1 DEF Sweep
    <2> QED BY <1>2, <2>2 DEF WatchdogInv, WatchdogTypeOK, RecoverySpacing
  <1> QED BY <1>1, <1>2

\* A sweep decides on a recovery only when the whole threshold has passed.
LEMMA SweepsSpaced ==
    ASSUME WatchdogInv, Sweeps PROVE WatchdogInv'
  <1>t. /\ session \in Session /\ sinceRecovery \in Ages /\ RecoverAfter \in Nat
        /\ Watched \in Watch /\ Watched.stale <= sinceRecovery /\ sinceRecovery \in Nat
        /\ UNCHANGED <<stamps, session, sinceRecovery, troubles>>
    BY WatchedTyped, AgesGrow
       DEF WatchdogInv, WatchdogTypeOK, Sweeps, SweepsNothing, SweepsTransition, SweepsProgress
  <1>d. Decides("progress", FALSE, FALSE) <=> sweep' = Done
    BY DEF Decides
  <1>1. CASE SweepsNothing
    <2>1. watch' = Unwatched /\ Decides("progress", FALSE, FALSE)
      BY <1>1, <1>d DEF SweepsNothing
    <2>2. watch' \in Watch /\ watch'.stale <= sinceRecovery
      <3>1. Unwatched.stale = 0
        BY DEF Unwatched
      <3> QED BY <2>1, <1>t, <3>1, WatchdogConstants
    <2> QED BY <1>t, <2>1, <2>2, SweepDecides
  <1>2. CASE SweepsTransition
    <2>1. PICK w \in Watch : w = Watched
      BY <1>t
    <2>2. PICK warned \in BOOLEAN : warned = (w.transitionWarned /\ w.inTransition)
      OBVIOUS
    <2>3. PICK alert \in BOOLEAN :
            alert = (w.transitionGrace = 0 /\ ~warned /\ session.entered >= TransitionWarn)
      OBVIOUS
    <2>4. PICK recover \in BOOLEAN :
            recover = (w.transitionGrace = 0 /\ session.entered >= TransitionRecover)
      OBVIOUS
    <2>5. PICK told \in BOOLEAN : told = (warned \/ alert)
      OBVIOUS
    <2>6. /\ watch' = [w EXCEPT !.inTransition = TRUE, !.transitionWarned = told]
          /\ Decides("transition", alert, recover)
      BY <1>2, <2>1, <2>2, <2>3, <2>4, <2>5 DEF SweepsTransition
    <2>7. watch' \in Watch /\ watch'.stale <= sinceRecovery
      BY <2>1, <2>6, <1>t DEF Watch
    <2> QED BY <1>t, <2>6, <2>7, SweepDecides
  <1>3. CASE SweepsProgress
    <2>1. PICK g \in 0..TransitionWarn :
            g = IF Watched.inTransition THEN 0 ELSE Watched.transitionGrace
      BY <1>t, WatchdogConstants DEF Watch
    <2>2. PICK w \in Watch : /\ w = [Watched EXCEPT !.inTransition = FALSE, !.transitionWarned = FALSE,
                                                    !.transitionGrace = g]
                             /\ w.stale = Watched.stale
      <3>1. PICK v \in Watch : v = Watched
        BY <1>t
      <3>2. /\ [v EXCEPT !.inTransition = FALSE, !.transitionWarned = FALSE,
                          !.transitionGrace = g] \in Watch
            /\ [v EXCEPT !.inTransition = FALSE, !.transitionWarned = FALSE,
                          !.transitionGrace = g].stale = v.stale
        BY <2>1 DEF Watch
      <3> QED BY <3>1, <3>2
    <2>3. \/ /\ watch' = [w EXCEPT !.turns = session.turns, !.activity = session.activity,
                                   !.stale = 0, !.warned = FALSE, !.grace = 0]
             /\ sweep' = Done
          \/ watch' = w /\ sweep' = Done
          \/ LET alert == ~w.warned /\ w.stale >= WarnAfter
             IN  /\ watch' = [w EXCEPT !.warned = @ \/ alert]
                 /\ Decides("progress", alert, RecoversNow(w))
      BY <1>3, <2>1, <2>2 DEF SweepsProgress
    <2>4. CASE /\ watch' = [w EXCEPT !.turns = session.turns, !.activity = session.activity,
                                     !.stale = 0, !.warned = FALSE, !.grace = 0]
               /\ sweep' = Done
      <3>1. session.turns \in 0..MaxTurns /\ session.activity \in Activities \cup {""}
        BY <1>t DEF Session
      <3>2. watch' \in Watch /\ watch'.stale = 0
        BY <2>2, <2>4, <3>1, WatchdogConstants DEF Watch
      <3>3. watch'.stale <= sinceRecovery
        BY <3>2, <1>t
      <3>4. Decides("progress", FALSE, FALSE)
        BY <1>d, <2>4
      <3> QED BY <1>t, <3>2, <3>3, <3>4, SweepDecides
    <2>5. CASE watch' = w /\ sweep' = Done
      BY <1>t, <1>d, <2>2, <2>5, SweepDecides
    <2>6. CASE LET alert == ~w.warned /\ w.stale >= WarnAfter
               IN  /\ watch' = [w EXCEPT !.warned = @ \/ alert]
                   /\ Decides("progress", alert, RecoversNow(w))
      <3>1. PICK alert \in BOOLEAN : alert = (~w.warned /\ w.stale >= WarnAfter)
        OBVIOUS
      <3>2. PICK told \in BOOLEAN : told = (w.warned \/ alert)
        OBVIOUS
      <3>3. watch' = [w EXCEPT !.warned = told] /\ Decides("progress", alert, RecoversNow(w))
        BY <2>6, <3>1, <3>2
      <3>4. watch' \in Watch /\ watch'.stale = w.stale
        BY <2>2, <3>3 DEF Watch
      <3>5. RecoversNow(w) \in BOOLEAN /\ (RecoversNow(w) => sinceRecovery >= RecoverAfter)
        <4>1. w.stale \in Nat /\ w.stale <= sinceRecovery
          BY <2>2, <1>t, AgesGrow DEF Watch
        <4> QED BY <4>1, <1>t DEF RecoversNow
      <3> QED BY <1>t, <2>2, <3>3, <3>4, <3>5, SweepDecides
    <2> QED BY <2>3, <2>4, <2>5, <2>6
  <1> QED BY <1>1, <1>2, <1>3 DEF Sweeps

\* A recovery starts both times over.
LEMMA RecoveryEnds ==
    ASSUME WatchdogInv, AlertEnds \/ Recovers PROVE WatchdogInv'
  <1>t. /\ session \in Session /\ watch \in Watch /\ sweep \in Sweep /\ sinceRecovery \in Ages
        /\ watch.stale <= sinceRecovery
    BY DEF WatchdogInv, WatchdogTypeOK, RecoverySpacing
  <1>d. Done \in Sweep /\ Done.at = "done"
    BY WatchdogConstants DEF Done
  <1>1. CASE AlertEnds
    <2>1. CASE sweep.then
      <3>1. sweep' = [sweep EXCEPT !.at = "recover"] /\ sweep.at = "alert"
        BY <1>1, <2>1 DEF AlertEnds
      <3>2. /\ sweep' \in Sweep /\ sweep'.tier = sweep.tier /\ sweep'.then = sweep.then
            /\ sweep'.at = "recover"
        BY <3>1, <1>t DEF Sweep
      <3> QED BY <1>1, <2>1, <3>1, <3>2 DEF AlertEnds, WatchdogInv, WatchdogTypeOK, RecoverySpacing
    <2>2. CASE ~sweep.then
      <3>1. sweep' = Done
        BY <1>1, <2>2 DEF AlertEnds
      <3> QED BY <1>1, <1>d, <3>1 DEF AlertEnds, WatchdogInv, WatchdogTypeOK, RecoverySpacing
    <2> QED BY <2>1, <2>2
  <1>2. CASE Recovers
    <2>1. session' \in Session
      <3>1. \/ UNCHANGED session
            \/ \E kept, waking \in BOOLEAN :
                 session' = [NewSession EXCEPT !.turns = IF kept THEN session.turns ELSE 0,
                                               !.pending = waking]
        BY <1>2 DEF Recovers
      <3>2. ASSUME NEW kept \in BOOLEAN, NEW waking \in BOOLEAN
            PROVE  [NewSession EXCEPT !.turns = IF kept THEN session.turns ELSE 0,
                                      !.pending = waking] \in Session
        <4>1. PICK n \in 0..MaxTurns : n = IF kept THEN session.turns ELSE 0
          BY <1>t, WatchdogConstants DEF Session
        <4> QED BY <4>1, WatchdogConstants DEF Session
      <3> QED BY <1>t, <3>1, <3>2
    <2>2. troubles' \in 0..MaxTroubles
      BY <1>2, TroublesBounded DEF Recovers
    <2>3. sweep' = Done /\ UNCHANGED stamps
      BY <1>2 DEF Recovers
    <2>4. watch' \in Watch /\ sinceRecovery' \in Ages /\ watch'.stale <= sinceRecovery'
      <3>1. CASE sweep.tier = "progress"
        <4>1. watch' = AfterProgressRecovery /\ sinceRecovery' = 0
          BY <1>2, <3>1 DEF Recovers
        <4>2. AfterProgressRecovery \in Watch /\ AfterProgressRecovery.stale = 0
          BY <1>t, WatchdogConstants DEF AfterProgressRecovery, Watch
        <4> QED BY <4>1, <4>2, WatchdogConstants
      <3>2. CASE sweep.tier # "progress"
        <4>1. watch' = AfterTransitionRecovery /\ sinceRecovery' = sinceRecovery
          BY <1>2, <3>2 DEF Recovers
        <4>2. AfterTransitionRecovery \in Watch /\ AfterTransitionRecovery.stale = watch.stale
          BY <1>t, WatchdogConstants DEF AfterTransitionRecovery, Watch
        <4> QED BY <4>1, <4>2, <1>t
      <3> QED BY <3>1, <3>2
    <2> QED
      BY <2>1, <2>2, <2>3, <2>4, <1>d DEF WatchdogInv, WatchdogTypeOK, RecoverySpacing
  <1> QED BY <1>1, <1>2

\* Every step keeps the invariant.
LEMMA WatchdogStep ==
    ASSUME WatchdogInv, [WatchdogNext]_watchdogVars PROVE WatchdogInv'
  <1>1. CASE UNCHANGED watchdogVars
    BY <1>1 DEF watchdogVars, WatchdogInv, WatchdogTypeOK, RecoverySpacing
  <1>2. CASE WatchdogNext
    BY <1>2, SessionSteps, TicksSpaced, SweepsSpaced, RecoveryEnds DEF WatchdogNext
  <1> QED BY <1>1, <1>2

\* The types of the watchdog model.
THEOREM WatchdogTypeCorrect == WatchdogSpec => []WatchdogTypeOK
  <1>1. WatchdogInit => WatchdogInv
    BY WatchdogStarts
  <1>2. WatchdogInv /\ [WatchdogNext]_watchdogVars => WatchdogInv'
    BY WatchdogStep
  <1>3. WatchdogInv => WatchdogTypeOK
    BY DEF WatchdogInv
  <1> QED BY <1>1, <1>2, <1>3, PTL DEF WatchdogSpec

\* RecoveriesSpaced, for any thresholds: between two recoveries for lack of progress the
\* whole threshold passes, whatever sessions come and go under the label, and also if the
\* first one failed.
THEOREM RecoveriesSpacedHolds == WatchdogSpec => RecoveriesSpaced
  <1>1. WatchdogInit => WatchdogInv
    BY WatchdogStarts
  <1>2. WatchdogInv /\ [WatchdogNext]_watchdogVars => WatchdogInv'
    BY WatchdogStep
  <1>3. WatchdogInv => [sweep.at = "recover" /\ sweep.tier = "progress" /\ sweep'.at = "done"
                          => sinceRecovery >= RecoverAfter]_watchdogVars
    BY DEF WatchdogInv, RecoverySpacing
  <1> QED BY <1>1, <1>2, <1>3, PTL DEF WatchdogSpec, RecoveriesSpaced

-----------------------------------------------------------------------------
(* The work loops                                                            *)

Awaits == {"none", "created", "waiting", "expired", "sending", "backoff"}

\* What is registered is a task that runs and nobody has stopped.
RegistrationHolds ==
    /\ registered # NoLoop => registered \in Alive
    /\ registered \notin stopped

\* What both properties need is that the registration names a loop that runs.
AutonomyInv ==
    /\ AutonomyTypeOK /\ queue <= pushed
    /\ RegistrationHolds /\ LoopsAreCounted /\ EventIsHeard

\* Sets of loops are finite, and none is named 0.
LEMMA LoopSets ==
    /\ NoLoop \notin Loops
    /\ IsFiniteSet(Loops) /\ Cardinality(Loops) = MaxInterventions + 2
    /\ \A S \in SUBSET Loops : IsFiniteSet(S) /\ Cardinality(S) \in Nat
  <1>1. NoLoop \notin Loops
    BY AutonomyAssumption DEF NoLoop, Loops
  <1>2. IsFiniteSet(Loops) /\ Cardinality(Loops) = MaxInterventions + 2
    BY AutonomyAssumption, FS_Interval DEF Loops
  <1>3. \A S \in SUBSET Loops : IsFiniteSet(S) /\ Cardinality(S) \in Nat
    BY <1>2, FS_Subset, FS_CardinalityType
  <1> QED BY <1>1, <1>2, <1>3

\* A name is free for one more loop, whoever still runs.
LEMMA NameIsFree ==
    ASSUME AutonomyInv, registered = NoLoop PROVE \E k \in Loops : k \notin Alive
  <1>1. Alive \in SUBSET Loops /\ Alive \ {registered} = Alive
    BY LoopSets DEF Alive, AutonomyInv
  <1>2. Cardinality(Alive) <= interventions /\ interventions <= MaxInterventions
        /\ interventions \in Nat
    BY <1>1, AutonomyAssumption DEF AutonomyInv, LoopsAreCounted, AutonomyTypeOK
  <1>3. Alive # Loops
    BY <1>2, LoopSets, AutonomyAssumption
  <1> QED BY <1>1, <1>3

\* Fewer loops beside the registered one are no more than before.
LEMMA FewerLoops ==
    ASSUME AutonomyInv, Alive' \ {registered'} \subseteq Alive \ {registered},
           interventions' \in Nat, interventions <= interventions'
    PROVE  LoopsAreCounted'
  <1>1. Alive \ {registered} \in SUBSET Loops
    BY DEF Alive
  <1>2. /\ Cardinality(Alive' \ {registered'}) <= Cardinality(Alive \ {registered})
        /\ Alive' \ {registered'} \in SUBSET Loops
    BY <1>1, LoopSets, FS_Subset
  <1>3. Cardinality(Alive \ {registered}) \in Nat /\ Cardinality(Alive' \ {registered'}) \in Nat
    BY <1>1, <1>2, LoopSets
  <1>4. interventions \in Nat
    BY AutonomyAssumption DEF AutonomyInv, AutonomyTypeOK
  <1> QED BY <1>2, <1>3, <1>4 DEF AutonomyInv, LoopsAreCounted

\* The model begins with no loop and nothing queued.
LEMMA AutonomyStarts == ASSUME AutonomyInit PROVE AutonomyInv
  <1>1. Alive = {} /\ Alive \ {registered} = {}
    BY DEF AutonomyInit, Alive
  <1>2. AutonomyTypeOK /\ queue <= pushed
    <2>1. {enabled, left} \subseteq BOOLEAN
      BY DEF AutonomyInit
    <2>2. /\ queue \in 0..MaxEvents /\ pushed \in 0..MaxEvents /\ queue <= pushed
          /\ interventions \in 0..MaxInterventions
      BY AutonomyAssumption DEF AutonomyInit
    <2>3. idle \in [Loops -> 0..(IdleChecks - 1)]
      BY AutonomyAssumption DEF AutonomyInit
    <2>4. registered \in Loops \cup {NoLoop} /\ stopped \subseteq Alive
      BY DEF AutonomyInit
    <2>5. at \in [Loops -> {"none", "created", "waiting", "expired", "sending", "backoff"}]
      BY DEF AutonomyInit
    <2> QED BY <2>1, <2>2, <2>3, <2>4, <2>5 DEF AutonomyTypeOK
  <1>3. RegistrationHolds /\ EventIsHeard
    BY DEF AutonomyInit, RegistrationHolds, EventIsHeard
  <1>4. LoopsAreCounted
    <2>1. interventions = 0 /\ Cardinality({}) = 0
      BY FS_EmptySet DEF AutonomyInit
    <2> QED BY <1>1, <2>1 DEF LoopsAreCounted
  <1> QED BY <1>2, <1>3, <1>4 DEF AutonomyInv

\* A start registers a task that runs, or finds one registered.
LEMMA StartRegisters ==
    ASSUME AutonomyInv, Start, UNCHANGED <<stopped, interventions>>
    PROVE  /\ registered' \in Loops /\ at' \in [Loops -> Awaits]
           /\ Alive \subseteq Alive' /\ registered' \in Alive' /\ registered' \notin stopped
           /\ LoopsAreCounted'
  <1>t. AutonomyTypeOK /\ RegistrationHolds
    BY DEF AutonomyInv
  <1>i. interventions \in Nat /\ interventions' = interventions
    BY <1>t, AutonomyAssumption DEF AutonomyTypeOK
  <1>1. CASE registered # NoLoop
    <2>1. UNCHANGED <<registered, at>> /\ Alive' = Alive
      BY <1>1 DEF Start, Alive
    <2>2. registered \in Alive /\ registered \in Loops
      BY <1>1, <1>t DEF RegistrationHolds, Alive
    <2> QED BY <2>1, <2>2, <1>t, <1>i, FewerLoops DEF AutonomyTypeOK, RegistrationHolds, Awaits
  <1>2. CASE registered = NoLoop
    <2>1. PICK k \in Loops : k \notin Alive /\ registered' = k /\ at' = [at EXCEPT ![k] = "created"]
      BY <1>2, NameIsFree DEF Start
    <2>2. Alive' = Alive \cup {k}
      BY <2>1, <1>t DEF Alive, AutonomyTypeOK
    <2>3. Alive' \ {registered'} \subseteq Alive \ {registered}
      BY <2>1, <2>2, <1>2, LoopSets DEF Alive
    <2>4. k \notin stopped
      BY <2>1, <1>t DEF AutonomyTypeOK
    <2>5. at' \in [Loops -> Awaits]
      BY <2>1, <1>t DEF AutonomyTypeOK, Awaits
    <2> QED BY <2>1, <2>2, <2>3, <2>4, <2>5, <1>i, FewerLoops
  <1> QED BY <1>1, <1>2

\* An event is queued, for the registered loop, for one that is started, or with nobody
\* to take it.
LEMMA PushInv == ASSUME AutonomyInv, PushEvent PROVE AutonomyInv'
  <1>t. AutonomyTypeOK /\ RegistrationHolds /\ EventIsHeard /\ queue <= pushed
    BY DEF AutonomyInv
  <1>1. /\ queue' \in 0..MaxEvents /\ pushed' \in 0..MaxEvents /\ queue' <= pushed'
        /\ UNCHANGED <<enabled, idle, stopped, interventions>>
    BY <1>t, AutonomyAssumption DEF PushEvent, AutonomyTypeOK
  <1>2. CASE enabled
    <2>1. Start /\ UNCHANGED left
      BY <1>2 DEF PushEvent
    <2>2. /\ registered' \in Loops /\ at' \in [Loops -> Awaits]
          /\ Alive \subseteq Alive' /\ registered' \in Alive' /\ registered' \notin stopped
          /\ LoopsAreCounted'
      BY <1>1, <2>1, StartRegisters
    <2>3. AutonomyTypeOK'
      BY <1>t, <1>1, <2>1, <2>2 DEF AutonomyTypeOK, Awaits
    <2> QED
      BY <1>1, <2>2, <2>3 DEF AutonomyInv, RegistrationHolds, EventIsHeard
  <1>3. CASE ~enabled
    <2>1. left' = (left \/ registered = NoLoop) /\ UNCHANGED <<registered, at>> /\ Alive' = Alive
      BY <1>3 DEF PushEvent, Alive
    <2>2. left' \in BOOLEAN
      BY <2>1, <1>t DEF AutonomyTypeOK
    <2>3. AutonomyTypeOK'
      BY <1>t, <1>1, <2>1, <2>2 DEF AutonomyTypeOK
    <2>4. EventIsHeard'
      BY <1>t, <2>1 DEF EventIsHeard, RegistrationHolds
    <2>5. LoopsAreCounted'
      BY <1>1, <2>1 DEF AutonomyInv, LoopsAreCounted
    <2> QED BY <1>t, <1>1, <2>1, <2>3, <2>4, <2>5 DEF AutonomyInv, RegistrationHolds
  <1> QED BY <1>2, <1>3

\* What happens outside the loops: one is started, stopped, or the agent's row changes.
LEMMA OthersInv ==
    ASSUME AutonomyInv, StartAgentLoop \/ StopAgentLoop \/ EnabledChanges PROVE AutonomyInv'
  <1>t. AutonomyTypeOK /\ RegistrationHolds /\ EventIsHeard /\ queue <= pushed
    BY DEF AutonomyInv
  <1>1. CASE StartAgentLoop
    <2>1. Start /\ UNCHANGED <<queue, enabled, idle, stopped, left, pushed, interventions>>
      BY <1>1 DEF StartAgentLoop
    <2>2. /\ registered' \in Loops /\ at' \in [Loops -> Awaits]
          /\ Alive \subseteq Alive' /\ registered' \in Alive' /\ registered' \notin stopped
          /\ LoopsAreCounted'
      BY <2>1, StartRegisters
    <2>3. AutonomyTypeOK'
      BY <1>t, <2>1, <2>2 DEF AutonomyTypeOK, Awaits
    <2> QED BY <1>t, <2>1, <2>2, <2>3 DEF AutonomyInv, RegistrationHolds, EventIsHeard
  <1>2. CASE StopAgentLoop
    <2>1. /\ registered # NoLoop /\ registered' = NoLoop /\ stopped' = stopped \cup {registered}
          /\ UNCHANGED <<queue, enabled, at, idle, left, pushed>> /\ Alive' = Alive
          /\ interventions' = interventions + 1 /\ interventions' \in 0..MaxInterventions
      BY <1>2, <1>t, AutonomyAssumption DEF StopAgentLoop, Intervention, Alive, AutonomyTypeOK
    <2>2. registered \in Alive
      BY <1>t, <2>1 DEF RegistrationHolds
    <2>3. AutonomyTypeOK'
      BY <1>t, <2>1, <2>2 DEF AutonomyTypeOK
    <2>4. RegistrationHolds' /\ EventIsHeard'
      BY <1>t, <2>1, LoopSets DEF RegistrationHolds, EventIsHeard, Alive, AutonomyTypeOK
    <2>5. LoopsAreCounted'
      <3> DEFINE Others == Alive \ {registered}
      <3>1. Others \in SUBSET Loops /\ IsFiniteSet(Others) /\ Cardinality(Others) \in Nat
        BY LoopSets DEF Alive
      <3>2. Alive' \ {registered'} = Others \cup {registered} /\ registered \notin Others
        BY <2>1, <2>2, LoopSets DEF Alive
      <3>3. Cardinality(Others \cup {registered}) = Cardinality(Others) + 1
        BY <3>1, <3>2, FS_AddElement
      <3>4. Cardinality(Others) <= interventions /\ interventions \in Nat
        BY <1>t, AutonomyAssumption DEF AutonomyInv, LoopsAreCounted, AutonomyTypeOK
      <3> HIDE DEF Others
      <3> QED BY <2>1, <3>1, <3>2, <3>3, <3>4 DEF LoopsAreCounted
    <2> QED BY <1>t, <2>1, <2>3, <2>4, <2>5 DEF AutonomyInv
  <1>3. CASE EnabledChanges
    <2>1. /\ UNCHANGED <<queue, registered, at, idle, stopped, left, pushed>> /\ Alive' = Alive
          /\ enabled' \in BOOLEAN
          /\ interventions' = interventions + 1 /\ interventions' \in 0..MaxInterventions
      BY <1>3, <1>t, AutonomyAssumption DEF EnabledChanges, Intervention, Alive, AutonomyTypeOK
    <2>2. AutonomyTypeOK'
      BY <1>t, <2>1 DEF AutonomyTypeOK
    <2>3. LoopsAreCounted'
      <3>1. interventions \in Nat /\ interventions' \in Nat /\ interventions <= interventions'
        BY <1>t, <2>1, AutonomyAssumption DEF AutonomyTypeOK
      <3> QED BY <2>1, <3>1, FewerLoops
    <2> QED
      BY <1>t, <2>1, <2>2, <2>3 DEF AutonomyInv, RegistrationHolds, EventIsHeard
  <1> QED BY <1>1, <1>2, <1>3

\* A loop goes from one await to the next: who is alive, registered and stopped stays.
LEMMA LoopMoves ==
    ASSUME AutonomyInv, NEW l \in Alive, NEW next \in Awaits \ {"none"},
           at' = [at EXCEPT ![l] = next],
           idle' = idle \/ \E n \in 0..(IdleChecks - 1) : idle' = [idle EXCEPT ![l] = n],
           UNCHANGED <<registered, stopped, enabled, pushed, interventions>>,
           UNCHANGED <<queue, left>> \/ (queue' = 0 /\ left' = FALSE)
    PROVE  AutonomyInv'
  <1>t. AutonomyTypeOK /\ RegistrationHolds /\ EventIsHeard /\ queue <= pushed
    BY DEF AutonomyInv
  <1>1. l \in Loops /\ Alive' = Alive /\ at' \in [Loops -> Awaits]
    BY <1>t DEF Alive, AutonomyTypeOK, Awaits
  <1>2. idle' \in [Loops -> 0..(IdleChecks - 1)]
    BY <1>t, <1>1 DEF AutonomyTypeOK
  <1>3. queue' \in 0..MaxEvents /\ left' \in BOOLEAN /\ queue' <= pushed'
    <2>1. /\ queue \in 0..MaxEvents /\ 0 \in 0..MaxEvents /\ pushed \in 0..MaxEvents
          /\ 0 <= pushed /\ pushed' = pushed
      BY <1>t, AutonomyAssumption DEF AutonomyTypeOK
    <2>2. left \in BOOLEAN
      BY <1>t DEF AutonomyTypeOK
    <2> QED BY <1>t, <2>1, <2>2
  <1>4. AutonomyTypeOK'
    BY <1>t, <1>1, <1>2, <1>3 DEF AutonomyTypeOK, Awaits
  <1>5. RegistrationHolds' /\ EventIsHeard'
    BY <1>t, <1>1 DEF RegistrationHolds, EventIsHeard
  <1>6. LoopsAreCounted'
    BY <1>1 DEF AutonomyInv, LoopsAreCounted
  <1> QED BY <1>3, <1>4, <1>5, <1>6 DEF AutonomyInv

\* The top of the loop.
LEMMA ListensInv ==
    ASSUME AutonomyInv, NEW l \in Alive, NEW checks \in 0..(IdleChecks - 1), Listens(l, checks),
           UNCHANGED <<registered, stopped, enabled, pushed, interventions>>
    PROVE  AutonomyInv'
  <1>0. 0 \in 0..(IdleChecks - 1)
    BY AutonomyAssumption
  <1>1. CASE queue > 0
    <2>1. PICK next \in {"sending", "backoff"} : at' = [at EXCEPT ![l] = next]
      BY <1>1 DEF Listens
    <2>2. queue' = 0 /\ left' = FALSE /\ idle' = [idle EXCEPT ![l] = 0]
      BY <1>1 DEF Listens
    <2>3. next \in Awaits \ {"none"}
      BY DEF Awaits
    <2> QED BY <1>0, <2>1, <2>2, <2>3, LoopMoves
  <1>2. CASE ~(queue > 0)
    <2>1. at' = [at EXCEPT ![l] = "waiting"] /\ idle' = [idle EXCEPT ![l] = checks]
          /\ UNCHANGED <<queue, left>>
      BY <1>2 DEF Listens
    <2>2. "waiting" \in Awaits \ {"none"}
      BY DEF Awaits
    <2> QED BY <2>1, <2>2, LoopMoves
  <1> QED BY <1>1, <1>2

\* A loop ends, with the registration or, if it was not the registered one, without.  What
\* is queued at that moment it leaves.
LEMMA EndsInv ==
    ASSUME AutonomyInv, NEW l \in Alive, LoopEnds(l),
           registered' = NoLoop \/ (registered' = registered /\ l # registered),
           UNCHANGED <<enabled, pushed, interventions>>
    PROVE  AutonomyInv'
  <1>t. AutonomyTypeOK /\ RegistrationHolds /\ EventIsHeard /\ queue <= pushed
    BY DEF AutonomyInv
  <1>1. /\ l \in Loops /\ at' = [at EXCEPT ![l] = "none"] /\ idle' = [idle EXCEPT ![l] = 0]
        /\ stopped' = stopped \ {l} /\ left' = (left \/ queue > 0) /\ UNCHANGED queue
    BY DEF LoopEnds, Alive
  <1>2. Alive' = Alive \ {l} /\ at' \in [Loops -> Awaits]
    BY <1>t, <1>1 DEF Alive, AutonomyTypeOK, Awaits
  <1>3. AutonomyTypeOK'
    <2>1. stopped' \subseteq Alive' /\ registered' \in Loops \cup {NoLoop}
      BY <1>t, <1>1, <1>2 DEF AutonomyTypeOK
    <2>2. idle' \in [Loops -> 0..(IdleChecks - 1)]
      BY <1>t, <1>1, AutonomyAssumption DEF AutonomyTypeOK
    <2>3. left' \in BOOLEAN
      BY <1>t, <1>1 DEF AutonomyTypeOK
    <2> QED BY <1>t, <1>1, <1>2, <2>1, <2>2, <2>3 DEF AutonomyTypeOK, Awaits
  <1>4. RegistrationHolds'
    BY <1>t, <1>1, <1>2, LoopSets DEF RegistrationHolds, AutonomyTypeOK, Alive
  <1>5. EventIsHeard'
    BY <1>1 DEF EventIsHeard
  <1>6. LoopsAreCounted'
    <2>1. CASE registered' = registered
      <3>1. Alive' \ {registered'} \subseteq Alive \ {registered}
        BY <1>2, <2>1
      <3>2. interventions' \in Nat /\ interventions <= interventions'
        BY <1>t, AutonomyAssumption DEF AutonomyTypeOK
      <3> QED BY <3>1, <3>2, FewerLoops
    <2>2. CASE registered' = NoLoop /\ l = registered
      <3>1. Alive' \ {registered'} \subseteq Alive \ {registered}
        BY <1>2, <2>2
      <3>2. interventions' \in Nat /\ interventions <= interventions'
        BY <1>t, AutonomyAssumption DEF AutonomyTypeOK
      <3> QED BY <3>1, <3>2, FewerLoops
    <2>3. CASE registered' = NoLoop /\ l # registered /\ registered # NoLoop
      \* The cleanup of one loop takes the registration of another: one ends and one is
      \* unregistered.
      <3> DEFINE Others == Alive \ {registered}
                 Rest == Others \ {l}
      <3>1. Others \in SUBSET Loops /\ IsFiniteSet(Others) /\ Cardinality(Others) \in Nat
        BY LoopSets DEF Alive
      <3>2. l \in Others /\ registered \in Alive
        BY <1>t, <2>3 DEF RegistrationHolds
      <3>3. IsFiniteSet(Rest) /\ Cardinality(Rest) = Cardinality(Others) - 1
        BY <3>1, <3>2, FS_RemoveElement
      <3>4. Alive' \ {registered'} = Rest \cup {registered} /\ registered \notin Rest
        BY <1>2, <2>3, <3>2, LoopSets DEF Alive
      <3>5. Cardinality(Rest \cup {registered}) = Cardinality(Rest) + 1
        BY <3>3, <3>4, FS_AddElement
      <3>6. Cardinality(Others) <= interventions /\ interventions' = interventions
            /\ interventions \in Nat
        BY <1>t, AutonomyAssumption DEF AutonomyInv, LoopsAreCounted, AutonomyTypeOK
      <3>7. Cardinality(Alive' \ {registered'}) = Cardinality(Others)
        <4> HIDE DEF Others, Rest
        <4> QED BY <3>1, <3>3, <3>4, <3>5
      <3> HIDE DEF Others, Rest
      <3> QED BY <3>6, <3>7 DEF LoopsAreCounted
    <2> QED BY <2>1, <2>2, <2>3
  <1> QED BY <1>t, <1>1, <1>3, <1>4, <1>5, <1>6 DEF AutonomyInv

\* A loop's own steps.
LEMMA LoopStepInv == ASSUME AutonomyInv, NEW l \in Loops, LoopStep(l) PROVE AutonomyInv'
  <1>t. AutonomyTypeOK /\ RegistrationHolds
    BY DEF AutonomyInv
  <1>0. UNCHANGED <<enabled, pushed, interventions>> /\ 0 \in 0..(IdleChecks - 1)
    BY AutonomyAssumption DEF LoopStep
  <1>1. CASE LoopBegins(l) \/ EventWakes(l) \/ SendReturns(l) \/ BackoffOver(l)
    <2>1. Listens(l, 0) /\ UNCHANGED <<registered, stopped>> /\ l \in Alive
      BY <1>1 DEF LoopBegins, EventWakes, SendReturns, BackoffOver, Alive
    <2> QED BY <1>0, <2>1, ListensInv
  <1>2. CASE IdleCheck(l)
    <2>1. l \in Alive
      BY <1>2 DEF IdleCheck, Alive
    <2>2. CASE idle[l] + 1 >= IdleChecks
      BY <1>0, <1>2, <2>1, <2>2, EndsInv DEF IdleCheck, CleansUp
    <2>3. CASE ~(idle[l] + 1 >= IdleChecks)
      <3>1. idle[l] + 1 \in 0..(IdleChecks - 1)
        BY <1>t, <2>3, AutonomyAssumption DEF AutonomyTypeOK
      <3>2. Listens(l, idle[l] + 1) /\ UNCHANGED <<registered, stopped>>
        BY <1>2, <2>3 DEF IdleCheck
      <3> QED BY <1>0, <2>1, <3>1, <3>2, ListensInv
    <2> QED BY <2>2, <2>3
  <1>3. CASE LoopCancelled(l)
    <2>1. l \in Alive /\ l # registered
      BY <1>3, <1>t DEF LoopCancelled, AutonomyTypeOK, RegistrationHolds
    <2>2. LoopEnds(l) /\ (registered' = registered \/ registered' = NoLoop)
      BY <1>3 DEF LoopCancelled, CleansUp
    <2> QED BY <1>0, <2>1, <2>2, EndsInv
  <1> QED BY <1>1, <1>2, <1>3 DEF LoopStep

\* The timer of a wait fires.
LEMMA TimerInv ==
    ASSUME AutonomyInv, NEW l \in Loops, TimerFires(l),
           UNCHANGED <<enabled, pushed, interventions>>
    PROVE  AutonomyInv'
  <1>1. l \in Alive /\ "expired" \in Awaits \ {"none"}
    BY DEF TimerFires, Alive, Awaits
  <1>2. at' = [at EXCEPT ![l] = "expired"] /\ UNCHANGED <<queue, registered, idle, stopped, left>>
    BY DEF TimerFires
  <1> QED BY <1>1, <1>2, LoopMoves

\* Every step keeps the invariant.
LEMMA AutonomyStep == ASSUME AutonomyInv, [AutonomyNext]_autonomyVars PROVE AutonomyInv'
  <1>1. CASE AutonomyNext
    BY <1>1, PushInv, OthersInv, LoopStepInv, TimerInv DEF AutonomyNext
  <1>2. CASE UNCHANGED autonomyVars
    <2>1. Alive' = Alive
      BY <1>2 DEF autonomyVars, Alive
    <2>2. AutonomyTypeOK'
      BY <1>2, <2>1 DEF autonomyVars, AutonomyInv, AutonomyTypeOK
    <2>3. LoopsAreCounted'
      BY <1>2, <2>1 DEF autonomyVars, AutonomyInv, LoopsAreCounted
    <2> QED
      BY <1>2, <2>1, <2>2, <2>3 DEF autonomyVars, AutonomyInv, RegistrationHolds, EventIsHeard
  <1> QED BY <1>1, <1>2

\* The types of the autonomy model.
THEOREM AutonomyTypeCorrect == AutonomySpec => []AutonomyTypeOK
  <1>1. AutonomyInit => AutonomyInv
    BY AutonomyStarts
  <1>2. AutonomyInv /\ [AutonomyNext]_autonomyVars => AutonomyInv'
    BY AutonomyStep
  <1>3. AutonomyInv => AutonomyTypeOK
    BY DEF AutonomyInv
  <1> QED BY <1>1, <1>2, <1>3, PTL DEF AutonomySpec

\* LoopsAreCounted, for any number of events and interventions: however starts, stops,
\* cancellations and idle exits interleave, a second loop takes a stop.  It needs that a
\* registered loop runs, or a start would put one beside it.
THEOREM LoopsAreCountedHolds == AutonomySpec => []LoopsAreCounted
  <1>1. AutonomyInit => AutonomyInv
    BY AutonomyStarts
  <1>2. AutonomyInv /\ [AutonomyNext]_autonomyVars => AutonomyInv'
    BY AutonomyStep
  <1>3. AutonomyInv => LoopsAreCounted
    BY DEF AutonomyInv
  <1> QED BY <1>1, <1>2, <1>3, PTL DEF AutonomySpec

\* The safety half of EventsReachBatch: an event that is queued, and beside which no loop
\* ended, has a loop that runs.
THEOREM EventIsHeardHolds == AutonomySpec => []EventIsHeard
  <1>1. AutonomyInit => AutonomyInv
    BY AutonomyStarts
  <1>2. AutonomyInv /\ [AutonomyNext]_autonomyVars => AutonomyInv'
    BY AutonomyStep
  <1>3. AutonomyInv => EventIsHeard
    BY DEF AutonomyInv
  <1> QED BY <1>1, <1>2, <1>3, PTL DEF AutonomySpec

=============================================================================
