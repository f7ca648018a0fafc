------------------------- MODULE Operations_proofs --------------------------
(***************************************************************************)
(* Proofs about the owner's operations on a running daemon: deploying a    *)
(* release (DeployGuard), for any releases, attempts, requests and bounds, *)
(* and restoring a store (StoreRestore), for any number of incidents.      *)
(***************************************************************************)
EXTENDS DeployGuard, StoreRestore, TLAPS

-----------------------------------------------------------------------------
(* DeployGuard: the inductive invariant.                                      *)


\* The phases in which a process carries the record it decided on.
Rolling == {"intent", "checkout", "restore", "giveup"}

Authority(e) == Engaged(e) /\ ~e.bootstrap

\* One process has the authority; and two that are past their decisions, one without it,
\* have met.
Exclusion ==
    \A p \in Processes : \A q \in Others(p) :
        /\ ~(Authority(proc[p]) /\ Authority(proc[q]))
        /\ Engaged(proc[p]) /\ Engaged(proc[q]) => proc[p].met

\* A start that failed in bootstrap goes no further than a rollback.
FailedStart(e) == e.bootstrap => e.phase \notin {"starting", "serving"}

FailedStarts == \A p \in Processes : FailedStart(proc[p])

\* Only the serving process has requests inside.
RequestsServed == (\E u \in Updates : update[u] # Idle) => Serving

\* A process that rolls back carries a record it may act on, with the intent in it from
\* the moment HEAD may move; if it met nobody, the record is the one on disk.  The ids
\* given out are d.
Held(e, r, d) ==
    e.phase \in Rolling =>
        /\ ~e.met => r = e.copy
        /\ e.copy.id <= d
        /\ e.copy.state \in {"armed", "rolling_back"}
        /\ e.phase = "intent" => e.copy.tries < 2
        /\ e.phase # "intent" => e.copy.state = "rolling_back"

RollbackHeld == \A p \in Processes : Held(proc[p], record, deploys)

\* The tries of a rollback are counted from zero.
ArmedIsFresh == record.state = "armed" => record.tries = 0

SwitchTypes ==
    /\ head \in Refs /\ guardOff \in BOOLEAN /\ failures \in 0..MaxFailures
    /\ deploys \in 0..MaxDeploys
RecordTypes == record \in Record /\ ArmedIsFresh /\ record.id <= deploys
AstrayType == astray \in BOOLEAN
ProcessTypes == proc \in [Processes -> Process]
RequestTypes == update \in [Updates -> Request]

GuardInv ==
    /\ SwitchTypes /\ RecordTypes /\ AstrayType /\ ProcessTypes /\ RequestTypes
    /\ Exclusion /\ FailedStarts /\ RequestsServed /\ RollbackHeld

-----------------------------------------------------------------------------
(* Frames: what a step of one process, or of the requests, has to show.       *)

\* What is assumed of the constants.
LEMMA Constants ==
    /\ Processes = {"service", "operator"} /\ First \in Refs
    /\ MaxStartAttempts \in Nat \ {0} /\ MaxDeploys \in Nat /\ MaxFailures \in Nat
    /\ Broken \subseteq Refs
  BY DeployAssumption DEF Processes

\* The records and processes the module starts from are well formed.
LEMMA WellFormed ==
    /\ NoDeploy \in Record /\ Down \in Process /\ Idle \in Request
    /\ ~Engaged(Down) /\ ~Down.bootstrap /\ Down.phase = "down"
  <1>1. NoDeploy \in Record
    BY Constants DEF NoDeploy, Record, RecordState
  <1>2. Down \in Process /\ ~Engaged(Down) /\ ~Down.bootstrap /\ Down.phase = "down"
    BY <1>1, Constants DEF Down, Process, Phase, Engaged
  <1>3. Idle \in Request
    BY Constants DEF Idle, Request
  <1> QED BY <1>1, <1>2, <1>3

\* A process goes on to another phase, maybe with another record in its hands.
LEMMA PhaseMoved ==
    ASSUME NEW e \in Process, NEW x \in Phase, NEW r \in Record
    PROVE  /\ [e EXCEPT !.phase = x] \in Process
           /\ [e EXCEPT !.phase = x, !.copy = r] \in Process
  BY DEF Process

\* A process may become e: one has the authority, two that are past their decisions have met.
MayBecome(p, e) ==
    /\ FailedStart(e)
    /\ \A q \in Others(p) :
           /\ ~(Authority(e) /\ Authority(proc[q]))
           /\ Engaged(e) /\ Engaged(proc[q]) => e.met /\ proc'[q].met

\* The others stay as they are, except that the process may have met them.
OthersStay(p) ==
    \A q \in Others(p) :
        /\ proc'[q].phase = proc[q].phase /\ proc'[q].bootstrap = proc[q].bootstrap
        /\ proc'[q].copy = proc[q].copy
        /\ proc[q].met => proc'[q].met

\* A record that was written is not the one of a rollback that met nobody.
OthersMet(p) == \A q \in Others(p) : Engaged(proc[q]) => proc'[q].met

\* The requests of a process that stops serving are gone.
RequestsFollow(p, e) ==
    \/ update' = update /\ (proc[p].phase = "serving" => e.phase = "serving")
    \/ update' = [u \in Updates |-> Idle]

\* One process becomes e.
LEMMA ProcessStep ==
    ASSUME GuardInv, NEW p \in Processes, NEW e \in Process,
           proc' \in [Processes -> Process], proc'[p] = e, OthersStay(p),
           MayBecome(p, e), RequestsFollow(p, e),
           SwitchTypes', RecordTypes', AstrayType', deploys' = deploys,
           Held(e, record', deploys), record' = record \/ OthersMet(p)
    PROVE  GuardInv'
  <1>t. proc \in [Processes -> Process] /\ update \in [Updates -> Request]
    BY DEF GuardInv, ProcessTypes, RequestTypes
  <1>1. ProcessTypes' /\ FailedStarts'
    BY DEF ProcessTypes, GuardInv, FailedStarts, FailedStart, MayBecome, OthersStay, Others
  <1>2. Exclusion'
    <2> SUFFICES ASSUME NEW a \in Processes, NEW b \in Others(a)
                 PROVE  /\ ~(Authority(proc'[a]) /\ Authority(proc'[b]))
                        /\ Engaged(proc'[a]) /\ Engaged(proc'[b]) => proc'[a].met
      BY DEF Exclusion, Engaged, Authority
    <2>0. b \in Processes /\ a \in Others(b)
      BY DEF Others
    <2>1. CASE a = p
      BY <2>1, <2>0 DEF MayBecome, OthersStay, Authority, Engaged
    <2>2. CASE b = p
      BY <2>2, <2>0 DEF MayBecome, OthersStay, Authority, Engaged
    <2>3. CASE a # p /\ b # p
      <3>1. a \in Others(p) /\ b \in Others(p)
        BY <2>3, <2>0 DEF Others
      <3> QED BY <3>1 DEF OthersStay, Authority, Engaged, GuardInv, Exclusion
    <2> QED BY <2>1, <2>2, <2>3
  <1>3. RequestTypes' /\ RequestsServed'
    <2>1. CASE update' = update /\ (proc[p].phase = "serving" => e.phase = "serving")
      <3>1. Serving => Serving'
        BY <2>1 DEF Serving, Others, OthersStay
      <3> QED BY <3>1, <2>1, <1>t DEF GuardInv, RequestTypes, RequestsServed
    <2>2. CASE update' = [u \in Updates |-> Idle]
      BY <2>2, WellFormed DEF RequestTypes, RequestsServed
    <2> QED BY <2>1, <2>2 DEF RequestsFollow
  <1>4. RollbackHeld'
    <2> SUFFICES ASSUME NEW a \in Processes PROVE Held(proc'[a], record', deploys')
      BY DEF RollbackHeld, Held
    <2>1. CASE a = p
      BY <2>1
    <2>2. CASE a # p
      <3>1. a \in Others(p) /\ Held(proc[a], record, deploys)
        BY <2>2 DEF Others, GuardInv, RollbackHeld
      <3>2. proc[a].phase \in Rolling => Engaged(proc[a])
        BY DEF Rolling, Engaged
      <3> QED BY <3>1, <3>2 DEF OthersStay, OthersMet, Held
    <2> QED BY <2>1, <2>2
  <1> QED BY <1>1, <1>2, <1>3, <1>4 DEF GuardInv

\* Nothing a process decides with changes, and the ids given out do not get fewer.
SamePhases ==
    \A p \in Processes : /\ proc'[p].phase = proc[p].phase
                         /\ proc'[p].copy = proc[p].copy
                         /\ proc'[p].bootstrap = proc[p].bootstrap
                         /\ proc'[p].met = proc[p].met

\* A step of the requests, or of nobody: no process moves.
LEMMA AsideStep ==
    ASSUME GuardInv, SamePhases, ProcessTypes', SwitchTypes', RecordTypes', AstrayType',
           RequestTypes', (\E u \in Updates : update'[u] # Idle) => Serving,
           record' = record \/ Serving, deploys' >= deploys
    PROVE  GuardInv'
  <1>1. Exclusion' /\ FailedStarts' /\ Serving' = Serving
    BY DEF GuardInv, Exclusion, FailedStarts, FailedStart, SamePhases, Engaged, Authority, Others,
           Serving
  <1>2. RollbackHeld'
    <2> SUFFICES ASSUME NEW a \in Processes, proc[a].phase \in Rolling
                 PROVE  Held(proc'[a], record', deploys')
      BY DEF RollbackHeld, Held, SamePhases
    <2>1. Held(proc[a], record, deploys) /\ Engaged(proc[a])
      BY DEF GuardInv, RollbackHeld, Rolling, Engaged
    <2>2. proc[a].copy.id \in Nat /\ deploys \in Nat /\ deploys' \in Nat
      <3>1. proc[a].copy \in Record
        BY DEF GuardInv, ProcessTypes, Process
      <3> QED BY <3>1, Constants DEF Record, GuardInv, SwitchTypes
    <2>3. proc[a].copy.id <= deploys'
      BY <2>1, <2>2 DEF Held
    <2>4. record' = record \/ proc[a].met
      <3>1. CASE Serving
        <4>1. PICK q \in Processes : proc[q].phase = "serving"
          BY <3>1 DEF Serving
        <4>2. q \in Others(a) /\ Engaged(proc[q])
          BY <4>1 DEF Others, Rolling, Engaged
        <4> QED BY <4>2, <2>1 DEF GuardInv, Exclusion
      <3> QED BY <3>1
    <2> QED BY <2>1, <2>3, <2>4 DEF Held, SamePhases
  <1> QED BY <1>1, <1>2 DEF GuardInv, RequestsServed

\* Whoever is past the decision has met all the others that are, and has the authority
\* alone if it has it.
LEMMA EngagedMeet ==
    ASSUME GuardInv, NEW p \in Processes, Engaged(proc[p])
    PROVE  \A q \in Others(p) :
               /\ Engaged(proc[q]) => proc[q].met /\ proc[p].met
               /\ ~(Authority(proc[p]) /\ Authority(proc[q]))
  <1> SUFFICES ASSUME NEW q \in Others(p)
               PROVE  /\ Engaged(proc[q]) => proc[q].met /\ proc[p].met
                      /\ ~(Authority(proc[p]) /\ Authority(proc[q]))
    OBVIOUS
  <1>1. q \in Processes /\ p \in Others(q)
    BY DEF Others
  <1> QED BY <1>1 DEF GuardInv, Exclusion

-----------------------------------------------------------------------------
(* The steps of a process.                                                    *)

\* A process that goes down is out of everybody's way.
LEMMA GoneInv ==
    ASSUME GuardInv, NEW p \in Processes, proc[p].phase # "down", Gone(p),
           SwitchTypes', RecordTypes', AstrayType', deploys' = deploys,
           record' = record \/ Engaged(proc[p])
    PROVE  GuardInv'
  <1>1. proc' \in [Processes -> Process] /\ proc'[p] = Down /\ OthersStay(p)
    BY WellFormed DEF Gone, GuardInv, ProcessTypes, OthersStay, Others
  <1>2. MayBecome(p, Down) /\ Held(Down, record', deploys) /\ RequestsFollow(p, Down)
    BY WellFormed DEF MayBecome, FailedStart, Authority, Held, Rolling, RequestsFollow, Gone
  <1>3. Engaged(proc[p]) => OthersMet(p)
    BY <1>1, EngagedMeet DEF OthersMet, OthersStay
  <1> QED BY <1>1, <1>2, <1>3, WellFormed, ProcessStep

\* The record and the switch are as they were; a failure may have been counted.
LEMMA Quiet ==
    ASSUME GuardInv, UNCHANGED <<head, guardOff, deploys>>,
           UNCHANGED failures \/ Fault
    PROVE  SwitchTypes' /\ (UNCHANGED astray => AstrayType') /\ (record' = record => RecordTypes')
  <1>1. failures' \in 0..MaxFailures
    BY Constants DEF GuardInv, SwitchTypes, Fault
  <1> QED BY <1>1 DEF GuardInv, SwitchTypes, AstrayType, RecordTypes, ArmedIsFresh

\* What a step leaves of HEAD's history is a truth value.
LEMMA WatchIsBoolean == ASSUME Watch PROVE AstrayType'
  BY DEF Watch, AstrayType

\* A process becomes e, and no other changes.
LEMMA Alone ==
    ASSUME GuardInv, NEW p \in Processes, NEW e \in Process, proc' = [proc EXCEPT ![p] = e]
    PROVE  proc' \in [Processes -> Process] /\ proc'[p] = e /\ OthersStay(p)
  BY DEF GuardInv, ProcessTypes, OthersStay, Others

\* A daemon is started, by the service manager or by hand.
LEMMA BeginProcessInv ==
    ASSUME GuardInv, NEW p \in Processes, BeginProcess(p)
    PROVE  GuardInv'
  <1> DEFINE e == [Down EXCEPT !.phase = "begun", !.image = head, !.initial = record.id]
  <1>1. e \in Process /\ e.phase = "begun" /\ ~e.bootstrap
    BY WellFormed DEF GuardInv, SwitchTypes, RecordTypes, Record, Process, Phase
  <1>2. /\ proc' = [proc EXCEPT ![p] = e] /\ proc[p].phase = "down"
        /\ UNCHANGED <<head, record, guardOff, update, astray, deploys>>
        /\ UNCHANGED failures \/ Fault
    BY DEF BeginProcess
  <1> HIDE DEF e
  <1>3. MayBecome(p, e) /\ Held(e, record', deploys) /\ RequestsFollow(p, e)
    BY <1>1, <1>2 DEF MayBecome, FailedStart, Authority, Engaged, Held, Rolling, RequestsFollow
  <1> QED BY <1>1, <1>2, <1>3, Alone, Quiet, ProcessStep

\* It fails in bootstrap, whoever else runs.
LEMMA FailsInBootstrapInv ==
    ASSUME GuardInv, NEW p \in Processes, FailsInBootstrap(p)
    PROVE  GuardInv'
  <1> DEFINE e == [proc[p] EXCEPT !.bootstrap = TRUE]
  <1>1. e \in Process /\ e.phase = "begun"
    BY DEF GuardInv, ProcessTypes, Process, FailsInBootstrap
  <1>2. /\ proc' = [proc EXCEPT ![p] = e] /\ proc[p].phase = "begun"
        /\ UNCHANGED <<head, record, guardOff, update, astray, deploys>>
        /\ UNCHANGED failures \/ Fault
    BY DEF FailsInBootstrap
  <1> HIDE DEF e
  <1>3. MayBecome(p, e) /\ Held(e, record', deploys) /\ RequestsFollow(p, e)
    BY <1>1, <1>2 DEF MayBecome, FailedStart, Authority, Engaged, Held, Rolling, RequestsFollow
  <1> QED BY <1>1, <1>2, <1>3, Alone, Quiet, ProcessStep

\* A process that is past its decision goes on as e.
LEMMA EngagedGoesOn ==
    ASSUME GuardInv, NEW p \in Processes, NEW e \in Process, proc' = [proc EXCEPT ![p] = e],
           Engaged(proc[p]), Engaged(e), e.bootstrap = proc[p].bootstrap, e.met = proc[p].met,
           FailedStart(e), RequestsFollow(p, e),
           SwitchTypes', RecordTypes', AstrayType', deploys' = deploys,
           Held(e, record', deploys)
    PROVE  GuardInv'
  <1>1. proc' \in [Processes -> Process] /\ proc'[p] = e /\ OthersStay(p)
    BY Alone
  <1>2. OthersMet(p) /\ MayBecome(p, e)
    BY <1>1, EngagedMeet DEF OthersMet, OthersStay, MayBecome, Authority
  <1> QED BY <1>1, <1>2, ProcessStep

\* Whom the decision of p meets is marked, and p if it meets anybody.
LEMMA MetMarks ==
    ASSUME GuardInv, NEW p \in Processes
    PROVE  /\ Met(p) \in [Processes -> Process]
           /\ \E m \in BOOLEAN : /\ Met(p)[p] = [proc[p] EXCEPT !.met = m]
                                 /\ \A q \in Others(p) : Engaged(proc[q]) => m
           /\ \A q \in Others(p) :
                  /\ \E m \in BOOLEAN : Met(p)[q] = [proc[q] EXCEPT !.met = m]
                  /\ Engaged(proc[q]) \/ proc[q].met => Met(p)[q].met
  <1>t. \A q \in Processes : proc[q] \in Process
    BY DEF GuardInv, ProcessTypes
  <1>m. PICK meet : meet = {q \in Others(p) : Engaged(proc[q])}
    OBVIOUS
  <1>1. Met(p) = [q \in Processes |->
            [proc[q] EXCEPT !.met = @ \/ q \in meet \/ (q = p /\ meet # {})]]
    BY <1>m DEF Met
  <1>2. \A q \in Processes : \E m \in BOOLEAN :
            /\ Met(p)[q] = [proc[q] EXCEPT !.met = m]
            /\ m = (proc[q].met \/ q \in meet \/ (q = p /\ meet # {}))
    BY <1>1, <1>t DEF Process
  <1>3. \A x \in Process : \A m \in BOOLEAN :
            [x EXCEPT !.met = m] \in Process /\ [x EXCEPT !.met = m].met = m
    BY DEF Process
  <1>4. Met(p) \in [Processes -> Process]
    <2>1. ASSUME NEW q \in Processes PROVE Met(p)[q] \in Process
      <3>1. PICK m \in BOOLEAN : Met(p)[q] = [proc[q] EXCEPT !.met = m]
        BY <1>2
      <3> QED BY <3>1, <1>3, <1>t
    <2>2. Met(p) = [q \in Processes |-> Met(p)[q]]
      BY <1>1
    <2> QED BY <2>1, <2>2
  <1>5. \E m \in BOOLEAN : /\ Met(p)[p] = [proc[p] EXCEPT !.met = m]
                           /\ \A q \in Others(p) : Engaged(proc[q]) => m
    <2>1. PICK m \in BOOLEAN : /\ Met(p)[p] = [proc[p] EXCEPT !.met = m]
                              /\ m = (proc[p].met \/ p \in meet \/ (p = p /\ meet # {}))
      BY <1>2
    <2>2. \A q \in Others(p) : Engaged(proc[q]) => m
      BY <2>1, <1>m
    <2> QED BY <2>1, <2>2
  <1>6. ASSUME NEW q \in Others(p)
        PROVE  /\ \E m \in BOOLEAN : Met(p)[q] = [proc[q] EXCEPT !.met = m]
               /\ Engaged(proc[q]) \/ proc[q].met => Met(p)[q].met
    <2>0. q \in Processes
      BY DEF Others
    <2>1. PICK m \in BOOLEAN : /\ Met(p)[q] = [proc[q] EXCEPT !.met = m]
                              /\ m = (proc[q].met \/ q \in meet \/ (q = p /\ meet # {}))
      BY <2>0, <1>2
    <2>2. Met(p)[q].met = m
      BY <2>0, <2>1, <1>3, <1>t
    <2>3. Engaged(proc[q]) \/ proc[q].met => m
      BY <2>1, <1>m
    <2> QED BY <2>1, <2>2, <2>3
  <1> QED BY <1>4, <1>5, <1>6

\* A decision, and what it marks: the process becomes e, the others have met it.
LEMMA DecidedInv ==
    ASSUME GuardInv, NEW p \in Processes, NEW e \in Process,
           proc' = [Met(p) EXCEPT ![p] = e],
           FailedStart(e), Engaged(e) => e.met = Met(p)[p].met,
           e.bootstrap \/ ~Engaged(e) \/ \A q \in Others(p) : ~Authority(proc[q]),
           RequestsFollow(p, e), SwitchTypes', RecordTypes', AstrayType', deploys' = deploys,
           Held(e, record', deploys)
    PROVE  GuardInv'
  <1>m. PICK m \in BOOLEAN : /\ Met(p)[p] = [proc[p] EXCEPT !.met = m]
                            /\ \A q \in Others(p) : Engaged(proc[q]) => m
    BY MetMarks
  <1>0. Engaged(e) => e.met = m
    BY <1>m DEF GuardInv, ProcessTypes, Process
  <1>1. proc' \in [Processes -> Process] /\ proc'[p] = e
    BY MetMarks
  <1>2. \A q \in Others(p) : proc'[q] = Met(p)[q] /\ proc[q] \in Process
    BY MetMarks DEF Others, GuardInv, ProcessTypes
  <1>3. OthersStay(p) /\ OthersMet(p)
    <2> SUFFICES ASSUME NEW q \in Others(p)
                 PROVE  /\ proc'[q].phase = proc[q].phase /\ proc'[q].bootstrap = proc[q].bootstrap
                        /\ proc'[q].copy = proc[q].copy
                        /\ Engaged(proc[q]) \/ proc[q].met => proc'[q].met
      BY DEF OthersStay, OthersMet
    <2>1. PICK n \in BOOLEAN : Met(p)[q] = [proc[q] EXCEPT !.met = n]
      BY MetMarks
    <2>2. Engaged(proc[q]) \/ proc[q].met => Met(p)[q].met
      BY MetMarks
    <2> QED BY <1>2, <2>1, <2>2 DEF Process
  <1>4. MayBecome(p, e)
    BY <1>0, <1>m, <1>3 DEF MayBecome, OthersMet, Authority
  <1> QED BY <1>1, <1>3, <1>4, ProcessStep

\* The start goes on without a deploy to roll back, or ends if it had failed already.
LEMMA GoesOnInv ==
    ASSUME GuardInv, NEW p \in Processes, NEW w \in 0..MaxDeploys, GoesOn(p, w),
           proc[p].phase \notin {"down", "serving"},
           proc[p].bootstrap \/ \A q \in Others(p) : ~Authority(proc[q]),
           SwitchTypes', RecordTypes', AstrayType', deploys' = deploys
    PROVE  GuardInv'
  <1>m. PICK m \in BOOLEAN : Met(p)[p] = [proc[p] EXCEPT !.met = m]
    BY MetMarks
  <1>p. proc[p] \in Process /\ Met(p) \in [Processes -> Process]
    BY MetMarks DEF GuardInv, ProcessTypes
  <1>b. Met(p)[p].bootstrap = proc[p].bootstrap /\ Met(p)[p] \in Process
    BY <1>m, <1>p DEF Process
  <1>1. CASE proc[p].bootstrap
    <2>1. proc' = [Met(p) EXCEPT ![p] = Down] /\ update' = update
      BY <1>1, <1>b, <1>p DEF GoesOn
    <2>2. RequestsFollow(p, Down) /\ FailedStart(Down) /\ Held(Down, record', deploys)
      BY <2>1, WellFormed DEF RequestsFollow, FailedStart, Held, Rolling
    <2> QED BY <2>1, <2>2, WellFormed, DecidedInv
  <1>2. CASE ~proc[p].bootstrap
    <2>1. PICK e : e = [Met(p)[p] EXCEPT !.phase = "starting", !.watch = w, !.copy = NoDeploy]
      OBVIOUS
    <2>2. /\ e \in Process /\ e.phase = "starting" /\ ~e.bootstrap /\ e.met = Met(p)[p].met
      BY <2>1, <1>2, <1>b, WellFormed DEF Process, Phase
    <2>3. proc' = [Met(p) EXCEPT ![p] = e] /\ update' = update
      BY <1>2, <1>b, <1>p, <2>1 DEF GoesOn
    <2>4. FailedStart(e) /\ Held(e, record', deploys) /\ RequestsFollow(p, e)
      BY <2>2, <2>3 DEF FailedStart, Held, Rolling, RequestsFollow
    <2> QED BY <1>2, <2>2, <2>3, <2>4, DecidedInv
  <1> QED BY <1>1, <1>2

\* Who decides has the authority, or does so without it.
LEMMA DecidingAlone ==
    ASSUME GuardInv, NEW p \in Processes, Deciding(p)
    PROVE  proc[p].bootstrap \/ \A q \in Others(p) : ~Authority(proc[q])
  BY DEF Deciding, AuthorityFree, HasAuthority, Authority, Others

\* The start decision.
LEMMA DecideInv ==
    ASSUME GuardInv, NEW p \in Processes, Decide(p)
    PROVE  GuardInv'
  <1>r. record \in Record /\ ArmedIsFresh /\ record.id <= deploys
    BY DEF GuardInv, RecordTypes
  <1>d. Deciding(p)
    BY DEF Decide, DecideStale, DecideAttempt, DecideRollback, DecideGiveUp, DecideOrdinary
  <1>a. /\ proc[p].phase = "begun" /\ deploys' = deploys
        /\ proc[p].bootstrap \/ \A q \in Others(p) : ~Authority(proc[q])
    BY <1>d, DecidingAlone DEF Deciding, Decide, DecideStale, DecideAttempt, DecideRollback,
       DecideGiveUp, DecideOrdinary
  <1>q. SwitchTypes' /\ AstrayType' /\ (record' = record => RecordTypes')
    <2>1. UNCHANGED <<head, guardOff, deploys>> /\ UNCHANGED astray /\ (UNCHANGED failures \/ Fault)
      BY DEF Decide, DecideStale, DecideAttempt, DecideRollback, DecideGiveUp, DecideOrdinary
    <2> QED BY <2>1, Quiet
  <1>0. 0 \in 0..MaxDeploys /\ record.id \in 0..MaxDeploys
    BY <1>r, Constants DEF Record
  <1>1. CASE DecideStale(p)
    <2>1. RecordTypes' /\ GoesOn(p, 0)
      BY <1>1, <1>r, <1>a DEF DecideStale, RecordTypes, ArmedIsFresh, Record, RecordState
    <2> QED BY <2>1, <1>a, <1>q, <1>0, GoesOnInv
  <1>2. CASE DecideAttempt(p)
    <2>1. record' = [record EXCEPT !.attempts = @ + 1] /\ record.attempts < MaxStartAttempts
      BY <1>2 DEF DecideAttempt
    <2>2. record.attempts + 1 \in 0..MaxStartAttempts
      BY <2>1, <1>r, Constants DEF Record
    <2>3. RecordTypes'
      BY <2>1, <2>2, <1>r, <1>a DEF RecordTypes, ArmedIsFresh, Record
    <2> QED BY <1>2, <2>3, <1>a, <1>q, <1>0, GoesOnInv DEF DecideAttempt
  <1>3. CASE DecideRollback(p) \/ DecideGiveUp(p)
    <2> DEFINE x == IF DecideRollback(p) THEN "intent" ELSE "giveup"
    <2>m. PICK m \in BOOLEAN : Met(p)[p] = [proc[p] EXCEPT !.met = m]
      BY MetMarks
    <2>0. Met(p) \in [Processes -> Process] /\ proc[p] \in Process
      BY MetMarks DEF GuardInv, ProcessTypes
    <2>1. PICK e : e = [Met(p)[p] EXCEPT !.phase = x, !.copy = record]
      OBVIOUS
    <2>2. Met(p)[p] \in Process /\ x \in Phase
      BY <2>0 DEF Phase
    <2>3. /\ e \in Process /\ e.phase = x /\ e.copy = record /\ e.met = Met(p)[p].met
          /\ e.bootstrap = proc[p].bootstrap
      BY <2>m, <2>0, <2>1, <2>2, <1>r, PhaseMoved DEF Process
    <2>4. proc' = [Met(p) EXCEPT ![p] = e] /\ record' = record /\ update' = update
      BY <1>3, <2>0, <2>1 DEF DecideRollback, DecideGiveUp
    <2>5. /\ record.state \in {"armed", "rolling_back"}
          /\ x = "intent" => record.tries < 2
          /\ x # "intent" => record.state = "rolling_back"
      BY <1>3, <1>r DEF DecideRollback, DecideGiveUp, AttemptsUsedUp, ArmedIsFresh
    <2>6. Held(e, record', deploys) /\ FailedStart(e) /\ RequestsFollow(p, e)
      BY <2>3, <2>4, <2>5, <1>a, <1>r DEF Held, FailedStart, RequestsFollow
    <2> QED BY <2>3, <2>4, <2>6, <1>a, <1>q, DecidedInv
  <1>4. CASE DecideOrdinary(p)
    BY <1>4, <1>a, <1>q, <1>0, GoesOnInv DEF DecideOrdinary
  <1> QED BY <1>1, <1>2, <1>3, <1>4 DEF Decide

\* A rollback: the intent is written, HEAD is moved, the result is written.
LEMMA RollbackInv ==
    ASSUME GuardInv, NEW p \in Processes, RollbackStep(p)
    PROVE  GuardInv'
  <1>p. /\ proc[p] \in Process /\ Held(proc[p], record, deploys) /\ proc[p].phase \in Rolling
        /\ deploys' = deploys
    BY DEF GuardInv, ProcessTypes, RollbackHeld, RollbackStep, WriteIntent, CheckOutPrevious,
           CheckOutFails, GiveUp, FinishRollback, Rolling
  <1>c. /\ proc[p].copy \in Record /\ proc[p].copy.previous \in Refs
        /\ proc[p].copy.tries \in 0..2 /\ proc[p].copy.id <= deploys
    BY <1>p DEF Held, Process, Record
  <1>a. Engaged(proc[p]) /\ FailedStart(proc[p])
    BY <1>p DEF Engaged, Rolling, GuardInv, FailedStarts
  <1>h. AstrayType'
    BY WatchIsBoolean DEF GuardInv, AstrayType, RollbackStep, WriteIntent, CheckOutPrevious,
       CheckOutFails, GiveUp, FinishRollback
  <1>1. CASE WriteIntent(p)
    <2>1. PICK i : i = [proc[p].copy EXCEPT !.state = "rolling_back", !.tries = @ + 1]
      OBVIOUS
    <2>2. record' = i /\ proc' = [proc EXCEPT ![p].phase = "checkout", ![p].copy = i]
      BY <1>1, <2>1 DEF WriteIntent
    <2>3. proc[p].copy.tries + 1 \in 0..2
      BY <1>1, <1>p, <1>c DEF WriteIntent, Held, Rolling
    <2>4. i \in Record /\ i.state = "rolling_back" /\ i.id <= deploys
      BY <2>1, <2>3, <1>c DEF Record, RecordState
    <2>5. PICK e : e = [proc[p] EXCEPT !.phase = "checkout", !.copy = i]
      OBVIOUS
    <2>6. /\ e \in Process /\ e.phase = "checkout" /\ e.copy = i
          /\ e.bootstrap = proc[p].bootstrap /\ e.met = proc[p].met
      BY <2>5, <2>4, <1>p DEF Process, Phase
    <2>7. proc' = [proc EXCEPT ![p] = e]
      BY <2>2, <2>5 DEF GuardInv, ProcessTypes
    <2>8. /\ Held(e, record', deploys) /\ Engaged(e) /\ FailedStart(e)
          /\ RequestsFollow(p, e)
      BY <2>2, <2>4, <2>6, <1>1, <1>a DEF Held, Engaged, FailedStart, RequestsFollow, WriteIntent
    <2>9. SwitchTypes' /\ RecordTypes'
      <3>1. UNCHANGED <<head, guardOff, deploys>> /\ UNCHANGED failures
        BY <1>1 DEF WriteIntent
      <3> QED BY <3>1, <2>2, <2>4, Quiet DEF RecordTypes, ArmedIsFresh
    <2> QED BY <2>6, <2>7, <2>8, <2>9, <1>p, <1>a, <1>h, EngagedGoesOn
  <1>2. CASE CheckOutPrevious(p) \/ CheckOutFails(p)
    <2> DEFINE x == IF CheckOutPrevious(p) THEN "restore" ELSE "giveup"
    <2>0. /\ proc[p].phase = "checkout" /\ At(p, x) /\ UNCHANGED <<record, guardOff>>
          /\ head' = proc[p].copy.previous \/ UNCHANGED head
          /\ UNCHANGED failures \/ Fault
      BY <1>2 DEF CheckOutPrevious, CheckOutFails
    <2>1. PICK e : e = [proc[p] EXCEPT !.phase = x]
      OBVIOUS
    <2>2. /\ e \in Process /\ e.phase = x /\ e.copy = proc[p].copy
          /\ e.bootstrap = proc[p].bootstrap /\ e.met = proc[p].met
      BY <2>1, <1>p DEF Process, Phase
    <2>3. proc' = [proc EXCEPT ![p] = e] /\ update' = update
      BY <2>0, <2>1 DEF At, GuardInv, ProcessTypes
    <2>4. /\ Held(e, record', deploys) /\ Engaged(e) /\ FailedStart(e)
          /\ RequestsFollow(p, e)
      BY <2>0, <2>2, <2>3, <1>p DEF Held, Engaged, FailedStart, RequestsFollow, Rolling
    <2>5. SwitchTypes' /\ RecordTypes'
      <3>1. head' \in Refs /\ failures' \in 0..MaxFailures
        BY <2>0, <1>c, Constants DEF GuardInv, SwitchTypes, Fault
      <3> QED BY <3>1, <2>0, <1>p DEF GuardInv, SwitchTypes, RecordTypes, ArmedIsFresh
    <2> QED BY <2>2, <2>3, <2>4, <2>5, <1>p, <1>a, <1>h, EngagedGoesOn
  <1>3. CASE GiveUp(p) \/ FinishRollback(p)
    <2>1. PICK s \in {"rollback_failed", "rolled_back"} :
              record' = [proc[p].copy EXCEPT !.state = s]
      BY <1>3 DEF GiveUp, FinishRollback
    <2>2. RecordTypes'
      BY <2>1, <1>p, <1>c DEF RecordTypes, ArmedIsFresh, Record, RecordState
    <2>3. SwitchTypes'
      BY <1>3, Quiet DEF GiveUp, FinishRollback
    <2>4. CASE GiveUp(p)
      <3>1. proc[p].bootstrap \/ \A q \in Others(p) : ~Authority(proc[q])
        BY <1>a, EngagedMeet DEF Authority
      <3>2. 0 \in 0..MaxDeploys /\ GoesOn(p, 0) /\ proc[p].phase \notin {"down", "serving"}
        BY <2>4, Constants DEF GiveUp
      <3> QED BY <3>1, <3>2, <2>2, <2>3, <1>p, <1>h, GoesOnInv
    <2>5. CASE FinishRollback(p)
      BY <2>5, <2>2, <2>3, <1>p, <1>a, <1>h, GoneInv DEF FinishRollback
    <2> QED BY <1>3, <2>4, <2>5
  <1> QED BY <1>1, <1>2, <1>3 DEF RollbackStep

\* Starts that end, and daemons that die, leave or find the authority taken.
LEMMA EndsInv ==
    ASSUME GuardInv, NEW p \in Processes,
           Contend(p) \/ StartFails(p) \/ DeadlineExpires(p) \/ Leave(p) \/ Dies(p)
    PROVE  GuardInv'
  <1>1. /\ proc[p].phase # "down" /\ Gone(p)
        /\ UNCHANGED <<head, guardOff, deploys>> /\ UNCHANGED <<record, astray>>
        /\ UNCHANGED failures \/ Fault
    BY DEF Contend, StartFails, DeadlineExpires, Leave, Dies
  <1> QED BY <1>1, Quiet, GoneInv

\* The daemon serves.
LEMMA ReadyInv ==
    ASSUME GuardInv, NEW p \in Processes, Ready(p)
    PROVE  GuardInv'
  <1>1. PICK e : e = [proc[p] EXCEPT !.phase = "serving"]
    OBVIOUS
  <1>2. /\ e \in Process /\ e.phase = "serving" /\ e.bootstrap = proc[p].bootstrap
        /\ e.met = proc[p].met
    BY <1>1 DEF GuardInv, ProcessTypes, Process, Phase
  <1>3. proc' = [proc EXCEPT ![p] = e] /\ update' = update
    BY <1>1 DEF Ready, At, GuardInv, ProcessTypes
  <1>4. /\ Held(e, record', deploys) /\ Engaged(e) /\ RequestsFollow(p, e)
    BY <1>2, <1>3 DEF Held, Engaged, RequestsFollow, Rolling
  <1>5. SwitchTypes' /\ RecordTypes' /\ AstrayType' /\ deploys' = deploys
    BY Quiet DEF Ready
  <1>6. Engaged(proc[p]) /\ FailedStart(e)
    BY <1>2 DEF Ready, Engaged, FailedStart, GuardInv, FailedStarts
  <1> QED BY <1>2, <1>3, <1>4, <1>5, <1>6, EngagedGoesOn

\* It settles: its verdict is about the deploy it began under.
LEMMA SettleInv ==
    ASSUME GuardInv, NEW p \in Processes, Settle(p)
    PROVE  GuardInv'
  <1>1. PICK e : e = [proc[p] EXCEPT !.settled = TRUE]
    OBVIOUS
  <1>2. /\ e \in Process /\ e.phase = "serving" /\ e.bootstrap = proc[p].bootstrap
        /\ e.met = proc[p].met
    BY <1>1 DEF GuardInv, ProcessTypes, Process, Settle
  <1>3. proc' = [proc EXCEPT ![p] = e] /\ update' = update
    BY <1>1 DEF Settle, GuardInv, ProcessTypes
  <1>4. Held(e, record', deploys) /\ Engaged(e) /\ RequestsFollow(p, e)
    BY <1>2, <1>3 DEF Held, Engaged, RequestsFollow, Rolling
  <1>5. RecordTypes' /\ deploys' = deploys
    <2>1. record' \in {record, [record EXCEPT !.state = "confirmed"],
                       [record EXCEPT !.state = "reported"]}
      BY DEF Settle, Judged
    <2>2. deploys' = deploys
      BY DEF Settle
    <2> QED BY <2>1, <2>2 DEF GuardInv, RecordTypes, ArmedIsFresh, Record, RecordState
  <1>6. SwitchTypes' /\ AstrayType'
    BY Quiet DEF Settle
  <1>7. Engaged(proc[p]) /\ FailedStart(e)
    BY <1>2 DEF Settle, Engaged, FailedStart, GuardInv, FailedStarts
  <1> QED BY <1>2, <1>3, <1>4, <1>5, <1>6, <1>7, EngagedGoesOn

-----------------------------------------------------------------------------
(* The steps of the requests, and of those outside.                           *)

\* The requests are refused, declined, moved on, armed or undone.
LEMMA RequestInv ==
    ASSUME GuardInv, NEW u \in Updates, UpdateStep(u)
    PROVE  GuardInv'
  <1>t. /\ update \in [Updates -> Request] /\ head \in Refs /\ record \in Record /\ ArmedIsFresh
        /\ deploys \in 0..MaxDeploys /\ record.id <= deploys
        /\ guardOff \in BOOLEAN /\ proc \in [Processes -> Process] /\ failures \in 0..MaxFailures
    BY DEF GuardInv, RequestTypes, SwitchTypes, RecordTypes, ProcessTypes
  <1>u. update[u] \in Request /\ Idle \in Request
    BY <1>t, WellFormed
  <1>s. Serving
    <2>1. Serving \/ update[u].phase \in {"checked", "moved", "undo"}
      BY DEF UpdateStep, UpdateCheck, UpdateDeclined, UpdateCheckout, UpdateArm, UpdateRejected,
             UndoUpdate, UndoFails
    <2>2. Idle.phase = "idle"
      BY DEF Idle
    <2>3. Serving \/ update[u] # Idle
      BY <2>1, <2>2
    <2> QED BY <2>3 DEF GuardInv, RequestsServed
  <1>1. AstrayType'
    BY WatchIsBoolean DEF GuardInv, AstrayType, UpdateStep, UpdateCheck, UpdateDeclined,
       UpdateCheckout, UpdateArm, UpdateRejected, UndoUpdate, UndoFails
  <1>2. RequestTypes'
    <2>1. \E r \in Request : update' = [update EXCEPT ![u] = r]
      <3>1. CASE \E target \in Refs : UpdateCheck(u, target)
        <4>1. PICK target \in Refs : UpdateCheck(u, target)
          BY <3>1
        <4>2. [Idle EXCEPT !.phase = "checked", !.target = target] \in Request
          BY <1>u DEF Request
        <4> QED BY <4>1, <4>2 DEF UpdateCheck
      <3>2. CASE UpdateDeclined(u) \/ UpdateArm(u) \/ UndoUpdate(u) \/ UndoFails(u)
        BY <3>2, <1>u DEF UpdateDeclined, UpdateArm, UndoUpdate, UndoFails
      <3>3. CASE UpdateCheckout(u)
        <4>1. [update[u] EXCEPT !.phase = "moved", !.previous = head] \in Request
          BY <1>u, <1>t DEF Request
        <4> QED BY <3>3, <4>1, <1>t DEF UpdateCheckout
      <3>4. CASE UpdateRejected(u)
        <4>1. [update[u] EXCEPT !.phase = "undo"] \in Request
          BY <1>u DEF Request
        <4> QED BY <3>4, <4>1, <1>t DEF UpdateRejected
      <3> QED BY <3>1, <3>2, <3>3, <3>4 DEF UpdateStep
    <2> QED BY <2>1, <1>t DEF RequestTypes
  <1>n. deploys' \in 0..MaxDeploys /\ deploys' >= deploys
    <2>1. deploys' = deploys \/ (deploys' = deploys + 1 /\ deploys < MaxDeploys)
      BY DEF UpdateStep, UpdateCheck, UpdateDeclined, UpdateCheckout, UpdateArm, UpdateRejected,
             UndoUpdate, UndoFails
    <2> QED BY <2>1, <1>t, Constants
  <1>3. SwitchTypes'
    <2>1. head' \in {head, update[u].target, update[u].previous} /\ UNCHANGED guardOff
      BY DEF UpdateStep, UpdateCheck, UpdateDeclined, UpdateCheckout, UpdateArm, UpdateRejected,
             UndoUpdate, UndoFails
    <2>2. UNCHANGED failures \/ Fault
      BY DEF UpdateStep, UpdateCheck, UpdateDeclined, UpdateCheckout, UpdateArm, UpdateRejected,
             UndoUpdate, UndoFails
    <2>3. failures' \in 0..MaxFailures
      BY <2>2, <1>t, Constants DEF Fault
    <2> QED BY <2>1, <2>3, <1>n, <1>t, <1>u DEF SwitchTypes, Request
  <1>4. CASE UpdateArm(u)
    <2>1. RecordTypes'
      <3>1. CASE guardOff
        BY <1>4, <3>1, <1>t DEF UpdateArm, RecordTypes, ArmedIsFresh
      <3>2. CASE ~guardOff
        <4>1. deploys' = deploys + 1 /\ deploys + 1 \in 0..MaxDeploys
          BY <1>4, <3>2, <1>t, Constants DEF UpdateArm
        <4>2. update[u].previous \in Refs /\ update[u].target \in Refs
          BY <1>u DEF Request
        <4>3. record' = [NoDeploy EXCEPT !.id = deploys + 1, !.state = "armed",
                                         !.previous = update[u].previous,
                                         !.target = update[u].target]
          BY <1>4, <3>2 DEF UpdateArm
        <4>4. record'.tries = 0 /\ record'.id = deploys'
          BY <4>1, <4>3 DEF NoDeploy
        <4>5. record' \in Record
          BY <4>1, <4>2, <4>3, WellFormed DEF Record, RecordState
        <4>6. record'.id <= deploys'
          BY <4>4, <1>n
        <4> QED BY <4>4, <4>5, <4>6 DEF RecordTypes, ArmedIsFresh
      <3> QED BY <3>1, <3>2
    <2>2. ProcessTypes' /\ SamePhases
      <3>1. \A p \in Processes :
                /\ proc'[p] = [proc[p] EXCEPT !.exiting = @ \/ proc[p].phase = "serving"]
                /\ proc[p] \in Process
        BY <1>4, <1>t DEF UpdateArm
      <3>2. \A p \in Processes : proc'[p] \in Process
        <4>1. \A q \in Process, x \in BOOLEAN : [q EXCEPT !.exiting = x] \in Process
          BY DEF Process
        <4>2. \A q \in Process : (q.exiting \/ q.phase = "serving") \in BOOLEAN
          BY DEF Process
        <4>3. ASSUME NEW p \in Processes PROVE proc'[p] \in Process
          <5>1. PICK x : x = (proc[p].exiting \/ proc[p].phase = "serving")
            OBVIOUS
          <5>2. x \in BOOLEAN /\ proc[p] \in Process
            BY <3>1, <4>2, <5>1
          <5>3. proc'[p] = [proc[p] EXCEPT !.exiting = x]
            BY <3>1, <5>1
          <5> QED BY <4>1, <5>2, <5>3
        <4> QED BY <4>3
      <3>3. proc' = [p \in Processes |-> proc'[p]]
        BY <1>4 DEF UpdateArm
      <3>4. SamePhases
        BY <3>1 DEF SamePhases, Process
      <3> QED BY <3>2, <3>3, <3>4 DEF ProcessTypes
    <2> QED BY <2>1, <2>2, <1>s, <1>n, <1>1, <1>2, <1>3, AsideStep
  <1>5. CASE UNCHANGED <<record, proc, deploys>>
    BY <1>5, <1>t, <1>s, <1>n, <1>1, <1>2, <1>3, AsideStep DEF ProcessTypes, SamePhases, RecordTypes, ArmedIsFresh
  <1>6. UpdateArm(u) \/ UNCHANGED <<record, proc, deploys>>
    BY DEF UpdateStep, UpdateCheck, UpdateDeclined, UpdateCheckout, UpdateRejected,
           UndoUpdate, UndoFails
  <1> QED BY <1>4, <1>5, <1>6

\* HEAD is moved from outside, or the guard is switched.
LEMMA OutsideInv ==
    ASSUME GuardInv, (\E ref \in Refs : MovesHead(ref)) \/ TurnSwitch
    PROVE  GuardInv'
  <1>1. Fault /\ UNCHANGED <<record, proc, update, deploys>> /\ head' \in Refs /\ guardOff' \in BOOLEAN
    BY DEF MovesHead, TurnSwitch, GuardInv, SwitchTypes
  <1>2. AstrayType'
    BY WatchIsBoolean DEF MovesHead, TurnSwitch, GuardInv, AstrayType
  <1>3. SwitchTypes'
    BY <1>1, Constants DEF GuardInv, SwitchTypes, Fault
  <1>4. RecordTypes' /\ ProcessTypes' /\ RequestTypes' /\ SamePhases
    BY <1>1 DEF GuardInv, RecordTypes, ArmedIsFresh, ProcessTypes, RequestTypes, SamePhases
  <1>5. (\E u \in Updates : update'[u] # Idle) => Serving
    BY <1>1 DEF GuardInv, RequestsServed
  <1>6. deploys' >= deploys
    BY <1>1, Constants DEF GuardInv, SwitchTypes
  <1> QED BY <1>1, <1>2, <1>3, <1>4, <1>5, <1>6, AsideStep

-----------------------------------------------------------------------------
(* DeployGuard: the theorems.                                                 *)

\* The first state has the invariant.
LEMMA DeployInitInv == DeployInit => GuardInv
  <1> SUFFICES ASSUME DeployInit PROVE GuardInv
    OBVIOUS
  <1>1. /\ head = First /\ record = NoDeploy /\ guardOff = FALSE /\ failures = 0 /\ astray = FALSE
        /\ deploys = 0
        /\ proc = [p \in Processes |-> Down] /\ update = [u \in Updates |-> Idle]
    BY DEF DeployInit
  <1>2. SwitchTypes /\ RecordTypes /\ AstrayType
    <2>1. /\ NoDeploy.state # "armed" /\ NoDeploy.id <= 0
          /\ 0 \in 0..MaxFailures /\ 0 \in 0..MaxDeploys
      BY Constants DEF NoDeploy
    <2> QED BY <2>1, <1>1, WellFormed, Constants DEF SwitchTypes, RecordTypes, AstrayType, ArmedIsFresh
  <1>3. ProcessTypes /\ RequestTypes /\ Exclusion /\ FailedStarts /\ RequestsServed
    BY <1>1, WellFormed DEF ProcessTypes, RequestTypes, Exclusion, Authority, FailedStarts,
       FailedStart, RequestsServed, Others
  <1>4. RollbackHeld
    BY <1>1, WellFormed DEF RollbackHeld, Held, Rolling
  <1> QED BY <1>2, <1>3, <1>4 DEF GuardInv

\* Every step keeps it, those of a start that fails in bootstrap beside a daemon included.
LEMMA DeployStepInv ==
    ASSUME GuardInv, [DeployNext]_guardVars
    PROVE  GuardInv'
  <1>1. CASE UNCHANGED guardVars
    BY <1>1 DEF guardVars, GuardInv, SwitchTypes, RecordTypes, AstrayType, ProcessTypes, RequestTypes,
                ArmedIsFresh, Exclusion, Authority, FailedStarts, FailedStart, RequestsServed,
                Serving, RollbackHeld, Held, Engaged
  <1>2. CASE DeployNext
    <2>1. ASSUME NEW p \in Processes,
                 \/ BeginProcess(p) \/ Contend(p) \/ FailsInBootstrap(p)
                 \/ Decide(p) \/ RollbackStep(p)
                 \/ StartFails(p) \/ DeadlineExpires(p)
                 \/ Ready(p) \/ Settle(p) \/ Leave(p) \/ Dies(p)
          PROVE  GuardInv'
      BY <2>1, BeginProcessInv, FailsInBootstrapInv, DecideInv, RollbackInv, EndsInv, ReadyInv, SettleInv
    <2>2. ASSUME NEW u \in Updates, UpdateStep(u) PROVE GuardInv'
      BY <2>2, RequestInv
    <2>3. CASE (\E ref \in Refs : MovesHead(ref)) \/ TurnSwitch
      BY <2>3, OutsideInv
    <2> QED BY <1>2, <2>1, <2>2, <2>3 DEF DeployNext
  <1> QED BY <1>1, <1>2

\* The inductive invariant holds in every behaviour.
LEMMA DeployInvariant == DeploySpec => []GuardInv
  <1>1. GuardInv /\ [DeployNext]_guardVars => GuardInv'
    BY DeployStepInv
  <1> QED BY <1>1, DeployInitInv, PTL DEF DeploySpec

\* Types; and an armed deploy has no rollback behind it.
THEOREM DeployTypeCorrect == DeploySpec => [](DeployTypeOK /\ ArmedIsFresh)
  <1>1. GuardInv => DeployTypeOK /\ ArmedIsFresh
    BY DEF GuardInv, SwitchTypes, RecordTypes, AstrayType, ProcessTypes, RequestTypes, DeployTypeOK
  <1> QED BY <1>1, DeployInvariant, PTL

\* While a rollback moves HEAD, deploy.json says so: the store authority and the marks of the
\* starts that go without it keep every other writer of the record away from one that met
\* nobody, whatever fails in bootstrap meanwhile.
THEOREM IntentOnDiskHolds == DeploySpec => []IntentOnDisk
  <1>1. GuardInv => IntentOnDisk
    BY DEF GuardInv, RollbackHeld, Held, Rolling, IntentOnDisk
  <1> QED BY <1>1, DeployInvariant, PTL

\* No deploy is judged again and no earlier one comes back: every write of deploy.json, by
\* daemons, update requests and starts that fail in bootstrap beside them, moves its verdict
\* forward, but for those of a rollback that met another process.
THEOREM VerdictIsFinalHolds == DeploySpec => VerdictIsFinal
  <1> DEFINE Forward == /\ record'.id = record.id
                        /\ <<record.state, record'.state>> \in VerdictOrder
             V == record' # record /\ ~LateRollback => Forward \/ record'.id > record.id
  <1>1. ASSUME GuardInv, [DeployNext]_guardVars PROVE V
    <2> SUFFICES ASSUME record' # record, ~LateRollback
                 PROVE  Forward \/ record'.id > record.id
      OBVIOUS
    <2>r. record \in Record /\ record.id <= deploys /\ deploys \in Nat
      BY <1>1, Constants DEF GuardInv, RecordTypes, SwitchTypes
    <2>1. ASSUME NEW p \in Processes, Decide(p)
          PROVE  Forward
      <3>1. \/ record.state = "armed" /\ record' = [record EXCEPT !.state = "stale"]
            \/ record.state = "armed" /\ record' = [record EXCEPT !.attempts = @ + 1]
        BY <2>1 DEF Decide, DecideStale, DecideAttempt, DecideRollback, DecideGiveUp, DecideOrdinary
      <3>2. record.state = "armed" /\ record'.state \in {"stale", "armed"} /\ record'.id = record.id
        BY <3>1, <2>r DEF Record
      <3> QED BY <3>2 DEF VerdictOrder
    <2>2. ASSUME NEW p \in Processes, RollbackStep(p)
          PROVE  Forward
      <3>0. ~proc[p].met
        BY <2>2 DEF LateRollback
      <3>1. /\ Held(proc[p], record, deploys) /\ proc[p].phase \in {"intent", "restore", "giveup"}
            /\ \/ /\ proc[p].phase = "intent"
                  /\ record' = [proc[p].copy EXCEPT !.state = "rolling_back", !.tries = @ + 1]
               \/ /\ proc[p].phase = "restore"
                  /\ record' = [proc[p].copy EXCEPT !.state = "rolled_back"]
               \/ /\ proc[p].phase = "giveup"
                  /\ record' = [proc[p].copy EXCEPT !.state = "rollback_failed"]
        BY <1>1, <2>2 DEF RollbackStep, WriteIntent, CheckOutPrevious, CheckOutFails, GiveUp,
                          FinishRollback, GuardInv, RollbackHeld
      <3>2. /\ record = proc[p].copy
            /\ record.state \in {"armed", "rolling_back"}
            /\ proc[p].phase # "intent" => record.state = "rolling_back"
        BY <3>0, <3>1 DEF Held, Rolling
      <3>3. /\ record'.id = record.id
            /\ \/ record'.state = "rolling_back"
               \/ record.state = "rolling_back" /\ record'.state \in {"rolled_back", "rollback_failed"}
        BY <3>1, <3>2, <2>r DEF Record
      <3> QED BY <3>2, <3>3 DEF VerdictOrder
    <2>3. ASSUME NEW p \in Processes, Settle(p)
          PROVE  Forward
      <3>1. \/ record.state = "armed" /\ record' = [record EXCEPT !.state = "confirmed"]
            \/ /\ record.state \in {"rolled_back", "rollback_failed"}
               /\ record' = [record EXCEPT !.state = "reported"]
        BY <2>3 DEF Settle, Judged
      <3>2. /\ record'.id = record.id
            /\ \/ record.state = "armed" /\ record'.state = "confirmed"
               \/ record.state \in {"rolled_back", "rollback_failed"} /\ record'.state = "reported"
        BY <3>1, <2>r DEF Record
      <3> QED BY <3>2 DEF VerdictOrder
    <2>4. ASSUME NEW u \in Updates, UpdateStep(u) PROVE record'.id > record.id
      <3>1. UpdateArm(u) /\ ~guardOff
        BY <2>4 DEF UpdateStep, UpdateCheck, UpdateDeclined, UpdateCheckout, UpdateArm,
                    UpdateRejected, UndoUpdate, UndoFails
      <3>2. record'.id = deploys + 1 /\ record.id \in Nat
        BY <3>1, <2>r, Constants DEF UpdateArm, NoDeploy, Record
      <3> QED BY <3>2, <2>r
    <2>5. \/ \E p \in Processes : Decide(p) \/ RollbackStep(p) \/ Settle(p)
          \/ \E u \in Updates : UpdateStep(u)
      BY <1>1 DEF DeployNext, guardVars, BeginProcess, Contend, FailsInBootstrap, StartFails,
                  DeadlineExpires, Ready, Leave, Dies, MovesHead, TurnSwitch
    <2> QED BY <2>1, <2>2, <2>3, <2>4, <2>5
  <1>2. GuardInv /\ [DeployNext]_guardVars => [V]_guardVars
    BY <1>1
  <1> QED BY <1>2, DeployInvariant, PTL DEF DeploySpec, VerdictIsFinal

-----------------------------------------------------------------------------
(* StoreRestore: the inductive invariant.                                     *)

\* Both parts of the corrupt store, by what may have become of them.
MainKept == main = "corrupt" \/ <<"corrupt", "main">> \in kept
WalKept == <<"corrupt", "wal">> \in kept \/ begun

\* A daemon serves a sound store, and never beside the tool; between the tool's renames
\* the path is empty.
TheGap ==
    /\ daemon => main \in {"snapshot", "fresh"}
    /\ tool # "idle" => ~daemon
    /\ tool \in {"copied", "scanned"} => main # "absent"
    /\ tool \in {"mainMoved", "sidecarMoved"} => main = "absent"

\* A store that took the corrupt one's place found the WAL put away, or its daemon began
\* anew; and so did a tool that saw no sidecar to move.
WalPutAway ==
    /\ main = "snapshot" \/ tool = "sidecarMoved" => WalKept
    /\ main = "fresh" => begun
    /\ tool # "idle" /\ seen = "none" => WalKept
    /\ tool = "mainMoved" /\ seen # "none" => wal = seen

\* Whoever opened the store before the scan has the one at the path open, and was not
\* there any more when the tool scanned; so that no WAL appears between the renames.
OpenersSeen ==
    ~late =>
        /\ opener \in {"none", main}
        /\ opener # "none" => tool \in {"idle", "copied"}
        /\ tool = "mainMoved" => wal = seen
        /\ tool = "sidecarMoved" => wal = "none"

StoreInv ==
    /\ RestoreTypeOK /\ MainKept /\ (wal = "corrupt" \/ WalKept)
    /\ TheGap /\ WalPutAway /\ OpenersSeen /\ NeverMixed

\* RestoreTypeOK, variable by variable.
PathTypes ==
    /\ main \in Stores \cup {"absent"} /\ wal \in Stores \cup {"none"}
    /\ seen \in Stores \cup {"none"} /\ opener \in Stores \cup {"none"}
    /\ tool \in {"idle", "copied", "scanned", "mainMoved", "sidecarMoved"}
CopyTypes == kept \subseteq Stores \X {"main", "wal"}
HistoryTypes == daemon \in BOOLEAN /\ late \in BOOLEAN /\ begun \in BOOLEAN
CountType == incidents \in 0..MaxIncidents

\* They are the same, now and after a step.
LEMMA TypesByVariable ==
    /\ RestoreTypeOK <=> PathTypes /\ CopyTypes /\ HistoryTypes /\ CountType
    /\ RestoreTypeOK' <=> PathTypes' /\ CopyTypes' /\ HistoryTypes' /\ CountType'
  BY DEF RestoreTypeOK, PathTypes, CopyTypes, HistoryTypes, CountType

-----------------------------------------------------------------------------
(* StoreRestore: every step keeps it.                                         *)

\* The first state has the invariant.
LEMMA RestoreInitInv == RestoreInit => StoreInv
  <1> SUFFICES ASSUME RestoreInit PROVE StoreInv
    OBVIOUS
  <1>1. RestoreTypeOK
    <2>1. CountType
      BY RestoreAssumption DEF RestoreInit, CountType
    <2>2. PathTypes /\ CopyTypes /\ HistoryTypes
      BY DEF RestoreInit, Stores, PathTypes, CopyTypes, HistoryTypes
    <2> QED BY <2>1, <2>2, TypesByVariable
  <1> QED BY <1>1 DEF RestoreInit, StoreInv, MainKept, WalKept, TheGap, WalPutAway, OpenersSeen, NeverMixed

\* What a step does to the types.
LEMMA RestoreTypesKept ==
    ASSUME StoreInv, RestoreNext
    PROVE  RestoreTypeOK'
  <1>t. PathTypes /\ CopyTypes /\ HistoryTypes /\ CountType
    BY TypesByVariable DEF StoreInv
  <1>1. CountType'
    <2>1. UNCHANGED incidents \/ Incident
      BY DEF RestoreNext, Begins, Scans, MovesMain, MovesSidecar, Installs, ToolFails, DaemonStarts,
             DaemonEnds, OtherOpens, OtherWrites, OtherCloses
    <2> QED BY <2>1, <1>t, RestoreAssumption DEF CountType, Incident
  <1>2. PathTypes'
    BY <1>t DEF PathTypes, Stores, RestoreNext, Begins, Scans, MovesMain, MovesSidecar, Installs,
                ToolFails, DaemonStarts, DaemonEnds, OtherOpens, OtherWrites, OtherCloses
  <1>3. CopyTypes'
    <2>1. CASE MovesMain
      <3>1. main \in Stores
        BY <2>1, <1>t DEF MovesMain, StoreInv, TheGap, PathTypes
      <3> QED BY <3>1, <2>1, <1>t DEF MovesMain, CopyTypes
    <2>2. CASE MovesSidecar
      <3>1. seen # "none" => wal \in Stores
        BY <2>2, <1>t DEF MovesSidecar, StoreInv, WalPutAway, PathTypes
      <3> QED BY <3>1, <2>2, <1>t DEF MovesSidecar, CopyTypes
    <2>3. UNCHANGED kept \/ MovesMain \/ MovesSidecar
      BY DEF RestoreNext, Begins, Scans, Installs, ToolFails, DaemonStarts, DaemonEnds, OtherOpens,
             OtherWrites, OtherCloses
    <2> QED BY <2>1, <2>2, <2>3, <1>t DEF CopyTypes
  <1>4. HistoryTypes'
    BY <1>t DEF HistoryTypes, RestoreNext, Begins, Scans, MovesMain, MovesSidecar, Installs,
                ToolFails, DaemonStarts, DaemonEnds, OtherOpens, OtherWrites, OtherCloses
  <1> QED BY <1>1, <1>2, <1>3, <1>4, TypesByVariable

\* The tool's steps keep the invariant.
LEMMA ToolSteps ==
    ASSUME StoreInv, Begins \/ Scans \/ MovesMain \/ MovesSidecar \/ Installs \/ ToolFails,
           RestoreTypeOK'
    PROVE  StoreInv'
  <1>t. PathTypes
    BY TypesByVariable DEF StoreInv
  <1> USE DEF PathTypes, Stores, StoreInv, MainKept, WalKept, TheGap, WalPutAway, OpenersSeen,
              NeverMixed
  <1>1. CASE Begins
    BY <1>1, <1>t DEF Begins
  <1>2. CASE Scans
    BY <1>2, <1>t DEF Scans
  <1>3. CASE MovesMain
    BY <1>3, <1>t DEF MovesMain
  <1>4. CASE MovesSidecar
    BY <1>4, <1>t DEF MovesSidecar
  <1>5. CASE Installs
    BY <1>5, <1>t DEF Installs
  <1>6. CASE ToolFails
    BY <1>6, <1>t DEF ToolFails
  <1> QED BY <1>1, <1>2, <1>3, <1>4, <1>5, <1>6

\* And so do those of daemons and of processes without the lock.
LEMMA OtherSteps ==
    ASSUME StoreInv, DaemonStarts \/ DaemonEnds \/ OtherOpens \/ OtherWrites \/ OtherCloses,
           RestoreTypeOK'
    PROVE  StoreInv'
  <1>t. PathTypes
    BY TypesByVariable DEF StoreInv
  <1> USE DEF PathTypes, Stores, StoreInv, MainKept, WalKept, TheGap, WalPutAway, OpenersSeen,
              NeverMixed
  <1>1. CASE DaemonStarts
    BY <1>1, <1>t DEF DaemonStarts
  <1>2. CASE DaemonEnds
    BY <1>2, <1>t DEF DaemonEnds
  <1>3. CASE OtherOpens
    BY <1>3, <1>t DEF OtherOpens
  <1>4. CASE OtherWrites
    BY <1>4, <1>t DEF OtherWrites
  <1>5. CASE OtherCloses
    BY <1>5, <1>t DEF OtherCloses
  <1> QED BY <1>1, <1>2, <1>3, <1>4, <1>5

\* The inductive invariant holds in every behaviour.
LEMMA RestoreInvariant == RestoreSpec => []StoreInv
  <1>1. StoreInv /\ [RestoreNext]_restoreVars => StoreInv'
    <2> SUFFICES ASSUME StoreInv, [RestoreNext]_restoreVars PROVE StoreInv'
      OBVIOUS
    <2>1. CASE RestoreNext
      BY <2>1, RestoreTypesKept, ToolSteps, OtherSteps DEF RestoreNext
    <2>2. CASE UNCHANGED restoreVars
      BY <2>2 DEF restoreVars, StoreInv, RestoreTypeOK, MainKept, WalKept, TheGap, WalPutAway,
                  OpenersSeen, NeverMixed
    <2> QED BY <2>1, <2>2
  <1> QED BY <1>1, RestoreInitInv, PTL DEF RestoreSpec

\* Types.
THEOREM RestoreTypeCorrect == RestoreSpec => []RestoreTypeOK
  <1>1. StoreInv => RestoreTypeOK
    BY DEF StoreInv
  <1> QED BY <1>1, RestoreInvariant, PTL

\* A restore keeps what it replaces and mixes nothing with it.
THEOREM RestoreKeepsBothHolds == RestoreSpec => []RestoreKeepsBoth
  <1>1. StoreInv => RestoreKeepsBoth
    BY DEF StoreInv, MainKept, WalKept, RestoreKeepsBoth, CorruptKept
  <1> QED BY <1>1, RestoreInvariant, PTL

=============================================================================
