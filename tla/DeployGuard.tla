---------------------------- MODULE DeployGuard ----------------------------
(***************************************************************************)
(* Recovery of failed deployments (deploy_guard.py) with the parts of the  *)
(* daemon that drive it: the update endpoint (api.py admin_update) and the *)
(* entry point (__main__.py).                                              *)
(*                                                                         *)
(* The update endpoint checks a target release out, arms a deploy record   *)
(* and ends its own process; the service manager starts the daemon again.  *)
(* Every start reads the record: it counts an attempt, or, once the        *)
(* attempts are used up, checks the previous release out and exits.  A     *)
(* daemon that kept serving for the settle time confirms or reports.  All  *)
(* of this may be killed between any two writes, and a second daemon may   *)
(* be started by hand beside the service manager's.  The store authority   *)
(* keeps all but one of them away from the record, with one exception that *)
(* the code makes: a start that fails before it takes the authority.       *)
(*                                                                         *)
(* Left out: dependency reinstallation, the start history with its         *)
(* incident alerts and retry delays, the alert route and every message to  *)
(* the owner, records of another repository or schema, state files that    *)
(* cannot be read or written after arming.                                 *)
(***************************************************************************)
EXTENDS Naturals

CONSTANTS
    Refs,         \* commits the checkout may stand on
    First,        \* the one it stands on at the beginning
    Broken,       \* commits whose daemon never becomes ready
    MaxStartAttempts, \* GuardSettings.max_attempts
    Updates,      \* concurrent requests to the update endpoint
    MaxDeploys,   \* bound: records armed
    MaxFailures   \* bound: crashes, failed commands, starts and restarts by
                  \* hand, moves of HEAD from outside, turns of the switch

ASSUME DeployAssumption ==
    /\ First \in Refs
    /\ Broken \subseteq Refs
    /\ MaxStartAttempts \in Nat \ {0}
    /\ MaxDeploys \in Nat
    /\ MaxFailures \in Nat

VARIABLES
    head,      \* the commit checked out in the repository
    record,    \* deploy.json
    deploys,   \* deploy ids given out
    guardOff,  \* guard.off exists or PINKY_DEPLOY_GUARD=0
    proc,      \* the daemon processes
    update,    \* the update requests inside the serving process
    failures,  \* so far
    astray     \* history: HEAD left the deploy of the record, or the record HEAD's deploy

guardVars == <<head, record, deploys, guardOff, proc, update, failures, astray>>

-----------------------------------------------------------------------------
\* The deploy record; deploy ids are fresh, so a count stands for the uuid.
NoDeploy == [id |-> 0, state |-> "none", previous |-> First, target |-> First,
             attempts |-> 0, tries |-> 0]

RecordState == {"none", "armed", "confirmed", "stale", "rolling_back",
                "rolled_back", "rollback_failed", "reported"}

Record == [id : 0..MaxDeploys, state : RecordState, previous : Refs, target : Refs,
           attempts : 0..MaxStartAttempts, tries : 0..2]

\* A daemon process: the commit it was loaded from, the deploy id it read when
\* it began, the deploy its deadline thread watches, and the record a rollback
\* carries from the decision to its last write.  History: it met another process
\* that was past its start decision, one of the two without the authority.
Processes == {"service", "operator"}

Phase == {"down", "begun", "starting", "intent", "checkout", "restore", "giveup", "serving"}

Down == [phase |-> "down", image |-> First, initial |-> 0, watch |-> 0, copy |-> NoDeploy,
         bootstrap |-> FALSE, settled |-> FALSE, exiting |-> FALSE, met |-> FALSE]

Process == [phase : Phase, image : Refs, initial : 0..MaxDeploys, watch : 0..MaxDeploys,
            copy : Record, bootstrap : BOOLEAN, settled : BOOLEAN, exiting : BOOLEAN,
            met : BOOLEAN]

\* An update request: refused while the last deploy is unconfirmed, then the
\* working tree is moved, then the deploy is armed or undone.
Idle == [phase |-> "idle", previous |-> First, target |-> First]

Request == [phase : {"idle", "checked", "moved", "undo"}, previous : Refs, target : Refs]

DeployInit ==
    /\ head = First
    /\ record = NoDeploy
    /\ deploys = 0
    /\ guardOff = FALSE
    /\ proc = [p \in Processes |-> Down]
    /\ update = [u \in Updates |-> Idle]
    /\ failures = 0
    /\ astray = FALSE

-----------------------------------------------------------------------------
Fault == failures < MaxFailures /\ failures' = failures + 1

\* Past the start decision, or acting on it.
Engaged(e) == e.phase \notin {"down", "begun"}

\* store_authority_lock: held from before the start decision to the end.
HasAuthority(p) == Engaged(proc[p]) /\ ~proc[p].bootstrap

AuthorityFree == \A p \in Processes : ~HasAuthority(p)

Others(p) == Processes \ {p}

\* HEAD is off the target while the deploy is armed, or is moved elsewhere than
\* back once it is rolled back: by an updater outside the endpoint, or by an update
\* that ran, and was killed, while the guard was off.  Or a rollback that met another
\* process, and works on a record that is not the one on disk any more, declares HEAD
\* back that is not, or puts its own deploy's record in the place of another one's.
LeavesDeploy ==
    \/ record'.state = "armed" /\ head' # record'.target
    \/ record.state \in {"rolling_back", "rolled_back"} /\ head' \notin {head, record.previous}
    \/ /\ \E p \in Processes : proc[p].met
       /\ \/ record'.state = "rolled_back" /\ head' # record'.previous
          \/ record'.id # record.id /\ record'.state # "armed"

Watch == astray' = (LeavesDeploy \/ (astray /\ record'.id = record.id))

\* A process that is gone takes the requests it was serving with it.
Gone(p) ==
    /\ proc' = [proc EXCEPT ![p] = Down]
    /\ update' = IF proc[p].phase = "serving" THEN [u \in Updates |-> Idle] ELSE update

At(p, phase) == proc' = [proc EXCEPT ![p].phase = phase] /\ UNCHANGED update

-----------------------------------------------------------------------------
\* The service manager restarts the daemon whenever it is down; a second one
\* is started by hand.
BeginProcess(p) ==
    /\ proc[p].phase = "down"
    /\ proc' = [proc EXCEPT ![p] = [Down EXCEPT !.phase = "begun", !.image = head,
                                                !.initial = record.id]]
    /\ IF p = "service" THEN UNCHANGED failures ELSE Fault
    /\ UNCHANGED <<head, record, guardOff, update, astray, deploys>>

\* The store authority is already held: this start leaves no trace.
Contend(p) ==
    /\ proc[p].phase = "begun" /\ ~proc[p].bootstrap
    /\ ~AuthorityFree
    /\ Gone(p)
    /\ UNCHANGED <<head, record, guardOff, failures, astray, deploys>>

\* Environment or arguments fail before the authority is taken; the start
\* decision is made nevertheless, whoever holds the authority, by a process that
\* ends after it.
FailsInBootstrap(p) ==
    /\ proc[p].phase = "begun" /\ ~proc[p].bootstrap
    /\ proc' = [proc EXCEPT ![p].bootstrap = TRUE]
    /\ IF proc[p].image \in Broken THEN UNCHANGED failures ELSE Fault
    /\ UNCHANGED <<head, record, guardOff, update, astray, deploys>>

\* StartGuard.activate: the decision is taken under the guard's file lock.
Deciding(p) ==
    /\ proc[p].phase = "begun"
    /\ proc[p].bootstrap \/ AuthorityFree

\* The processes, those who meet at p's decision marked.
Met(p) ==
    LET meet == {q \in Others(p) : Engaged(proc[q])} IN
    [q \in Processes |->
        [proc[q] EXCEPT !.met = @ \/ q \in meet \/ (q = p /\ meet # {})]]

\* After the decision a normal start goes on, a failed one ends.
GoesOn(p, watched) ==
    /\ proc' = [Met(p) EXCEPT ![p] =
                   IF @.bootstrap
                   THEN Down
                   ELSE [@ EXCEPT !.phase = "starting", !.watch = watched, !.copy = NoDeploy]]
    /\ UNCHANGED update

DecideStale(p) ==
    /\ Deciding(p)
    /\ ~guardOff /\ record.state = "armed" /\ head # record.target
    /\ record' = [record EXCEPT !.state = "stale"]
    /\ GoesOn(p, 0)
    /\ UNCHANGED <<head, guardOff, failures, astray, deploys>>

DecideAttempt(p) ==
    /\ Deciding(p)
    /\ ~guardOff /\ record.state = "armed" /\ head = record.target
    /\ record.attempts < MaxStartAttempts
    /\ record' = [record EXCEPT !.attempts = @ + 1]
    /\ GoesOn(p, record.id)
    /\ UNCHANGED <<head, guardOff, failures, astray, deploys>>

AttemptsUsedUp ==
    record.state = "armed" /\ head = record.target /\ record.attempts >= MaxStartAttempts

\* The record goes with the process, and the lock is released.
DecideRollback(p) ==
    /\ Deciding(p)
    /\ ~guardOff
    /\ AttemptsUsedUp \/ (record.state = "rolling_back" /\ record.tries < 2)
    /\ proc' = [Met(p) EXCEPT ![p].phase = "intent", ![p].copy = record]
    /\ UNCHANGED <<head, record, guardOff, update, failures, astray, deploys>>

DecideGiveUp(p) ==
    /\ Deciding(p)
    /\ ~guardOff /\ record.state = "rolling_back" /\ record.tries >= 2
    /\ proc' = [Met(p) EXCEPT ![p].phase = "giveup", ![p].copy = record]
    /\ UNCHANGED <<head, record, guardOff, update, failures, astray, deploys>>

\* Nothing to judge, or HEAD or the record cannot be read.
DecideOrdinary(p) ==
    /\ Deciding(p)
    /\ IF guardOff \/ record.state \notin {"armed", "rolling_back"}
       THEN UNCHANGED failures
       ELSE Fault
    /\ GoesOn(p, 0)
    /\ UNCHANGED <<head, record, guardOff, astray, deploys>>

-----------------------------------------------------------------------------
\* Mutant: the intent is kept in memory and written with the result.
WriteIntentLater(p) ==
    /\ proc[p].phase = "intent"
    /\ proc' = [proc EXCEPT ![p].phase = "checkout",
                            ![p].copy = [@ EXCEPT !.state = "rolling_back", !.tries = @ + 1]]
    /\ UNCHANGED <<head, record, guardOff, update, failures, astray, deploys>>

\* StartGuard._rollback: the intent is written before HEAD is touched.
WriteIntent(p) ==
    /\ proc[p].phase = "intent"
    /\ LET intent == [proc[p].copy EXCEPT !.state = "rolling_back", !.tries = @ + 1] IN
       /\ record' = intent
       /\ proc' = [proc EXCEPT ![p].phase = "checkout", ![p].copy = intent]
    /\ UNCHANGED <<head, guardOff, update, failures, deploys>>
    /\ Watch

\* Mutant: the target is checked out again.
CheckOutTarget(p) ==
    /\ proc[p].phase = "checkout"
    /\ head' = proc[p].copy.target
    /\ At(p, "restore")
    /\ UNCHANGED <<record, guardOff, failures, deploys>>
    /\ Watch

CheckOutPrevious(p) ==
    /\ proc[p].phase = "checkout"
    /\ head' = proc[p].copy.previous
    /\ At(p, "restore")
    /\ UNCHANGED <<record, guardOff, failures, deploys>>
    /\ Watch

CheckOutFails(p) ==
    /\ proc[p].phase = "checkout"
    /\ Fault
    /\ At(p, "giveup")
    /\ UNCHANGED <<head, record, guardOff, astray, deploys>>

\* StartGuard._rollback_failed: the start goes on with what is checked out.
GiveUp(p) ==
    /\ proc[p].phase = "giveup"
    /\ record' = [proc[p].copy EXCEPT !.state = "rollback_failed"]
    /\ GoesOn(p, 0)
    /\ UNCHANGED <<head, guardOff, failures, astray, deploys>>

\* Dependencies are restored, the result is written, and the process exits
\* with code 75 for the service manager to start the previous release.
FinishRollback(p) ==
    /\ proc[p].phase = "restore"
    /\ record' = [proc[p].copy EXCEPT !.state = "rolled_back"]
    /\ Gone(p)
    /\ UNCHANGED <<head, guardOff, failures, deploys>>
    /\ Watch

-----------------------------------------------------------------------------
\* Application construction raises; one that cannot start may also hang.
StartFails(p) ==
    /\ proc[p].phase = "starting"
    /\ IF proc[p].image \in Broken THEN UNCHANGED failures ELSE Fault
    /\ Gone(p)
    /\ UNCHANGED <<head, record, guardOff, astray, deploys>>

\* The deadline thread ends a start only while the deploy it watches is armed.
Watched(p) == proc[p].watch # 0 /\ record.id = proc[p].watch /\ record.state = "armed"


\* The deadline thread of an armed start.
DeadlineExpires(p) ==
    /\ proc[p].phase = "starting" /\ Watched(p)
    /\ Gone(p)
    /\ UNCHANGED <<head, record, guardOff, failures, astray, deploys>>

\* StartGuard.ready: the listener accepts connections.
Ready(p) ==
    /\ proc[p].phase = "starting"
    /\ proc[p].image \notin Broken
    /\ At(p, "serving")
    /\ UNCHANGED <<head, record, guardOff, failures, astray, deploys>>

\* Mutant: a daemon serving the target confirms it whatever was decided before.
JudgedByHead(p) ==
    IF record.id # proc[p].initial \/ record.id = 0 THEN record
    ELSE IF head = record.target
         THEN [record EXCEPT !.state = "confirmed"]
    ELSE IF record.state \in {"rolled_back", "rollback_failed"}
         THEN [record EXCEPT !.state = "reported"]
    ELSE record

\* The verdict of settle(), on the deploy this process began under.
Judged(p) ==
    IF record.id # proc[p].initial \/ record.id = 0 THEN record
    ELSE IF record.state = "armed" /\ head = record.target
         THEN [record EXCEPT !.state = "confirmed"]
    ELSE IF record.state \in {"rolled_back", "rollback_failed"}
         THEN [record EXCEPT !.state = "reported"]
    ELSE record

Settle(p) ==
    /\ proc[p].phase = "serving" /\ ~proc[p].settled
    /\ record' = Judged(p)
    /\ proc' = [proc EXCEPT ![p].settled = TRUE]
    /\ UNCHANGED <<head, guardOff, update, failures, astray, deploys>>

-----------------------------------------------------------------------------
\* check_update_pending
UpdatePending == ~guardOff /\ record.state = "armed" /\ record.target = head

Serving == \E p \in Processes : proc[p].phase = "serving"

UpdateCheck(u, target) ==
    /\ Serving
    /\ update[u] = Idle
    /\ deploys < MaxDeploys
    /\ ~UpdatePending
    /\ update' = [update EXCEPT ![u] = [Idle EXCEPT !.phase = "checked", !.target = target]]
    /\ UNCHANGED <<head, record, guardOff, proc, failures, astray, deploys>>

\* A fetch, the verification, a preflight or the checkout itself fails; or the
\* release was already checked out and nothing was rebuilt.
UpdateDeclined(u) ==
    /\ \/ update[u].phase = "checked"
       \/ update[u].phase = "moved" /\ update[u].target = update[u].previous
    /\ update' = [update EXCEPT ![u] = Idle]
    /\ UNCHANGED <<head, record, guardOff, proc, failures, astray, deploys>>

UpdateCheckout(u) ==
    /\ update[u].phase = "checked"
    /\ update' = [update EXCEPT ![u].phase = "moved", ![u].previous = head]
    /\ head' = update[u].target
    /\ UNCHANGED <<record, guardOff, proc, failures, deploys>>
    /\ Watch

\* arm_deploy, and the SIGTERM the daemon sends itself a second later.  With
\* the guard off nothing is armed and the daemon restarts all the same.
UpdateArm(u) ==
    /\ update[u].phase = "moved"
    /\ deploys < MaxDeploys
    /\ record' = IF guardOff THEN record
                 ELSE [NoDeploy EXCEPT !.id = deploys + 1, !.state = "armed",
                                       !.previous = update[u].previous,
                                       !.target = update[u].target]
    /\ update' = [update EXCEPT ![u] = Idle]
    /\ deploys' = IF guardOff THEN deploys ELSE deploys + 1
    /\ proc' = [p \in Processes |->
                   [proc[p] EXCEPT !.exiting = @ \/ proc[p].phase = "serving"]]
    /\ UNCHANGED <<head, guardOff, failures>>
    /\ Watch

\* The target fails its startup check, or the record cannot be written.
UpdateRejected(u) ==
    /\ update[u].phase = "moved"
    /\ update' = [update EXCEPT ![u].phase = "undo"]
    /\ UNCHANGED <<head, record, guardOff, proc, failures, astray, deploys>>

UndoUpdate(u) ==
    /\ update[u].phase = "undo"
    /\ head' = update[u].previous
    /\ update' = [update EXCEPT ![u] = Idle]
    /\ UNCHANGED <<record, guardOff, proc, failures, deploys>>
    /\ Watch

UndoFails(u) ==
    /\ update[u].phase = "undo"
    /\ Fault
    /\ update' = [update EXCEPT ![u] = Idle]
    /\ UNCHANGED <<head, record, guardOff, proc, astray, deploys>>

Leave(p) ==
    /\ proc[p].phase = "serving" /\ proc[p].exiting
    /\ Gone(p)
    /\ UNCHANGED <<head, record, guardOff, failures, astray, deploys>>

-----------------------------------------------------------------------------
\* A kill at any point, or a restart asked for by the operator.
Dies(p) ==
    /\ proc[p].phase # "down"
    /\ Fault
    /\ Gone(p)
    /\ UNCHANGED <<head, record, guardOff, astray, deploys>>

\* An updater outside the endpoint moves the checkout.
MovesHead(ref) ==
    /\ head # ref
    /\ Fault
    /\ head' = ref
    /\ UNCHANGED <<record, guardOff, proc, update, deploys>>
    /\ Watch

TurnSwitch ==
    /\ Fault
    /\ guardOff' = ~guardOff
    /\ UNCHANGED <<head, record, proc, update, astray, deploys>>

Decide(p) ==
    \/ DecideStale(p)
    \/ DecideAttempt(p)
    \/ DecideRollback(p)
    \/ DecideGiveUp(p)
    \/ DecideOrdinary(p)

RollbackStep(p) ==
    \/ WriteIntent(p)
    \/ CheckOutPrevious(p)
    \/ CheckOutFails(p)
    \/ GiveUp(p)
    \/ FinishRollback(p)

UpdateStep(u) ==
    \/ \E target \in Refs : UpdateCheck(u, target)
    \/ UpdateDeclined(u)
    \/ UpdateCheckout(u)
    \/ UpdateArm(u)
    \/ UpdateRejected(u)
    \/ UndoUpdate(u)
    \/ UndoFails(u)

DeployNext ==
    \/ \E p \in Processes :
           \/ BeginProcess(p) \/ Contend(p) \/ FailsInBootstrap(p)
           \/ Decide(p) \/ RollbackStep(p)
           \/ StartFails(p) \/ DeadlineExpires(p)
           \/ Ready(p) \/ Settle(p) \/ Leave(p) \/ Dies(p)
    \/ \E u \in Updates : UpdateStep(u)
    \/ \E ref \in Refs : MovesHead(ref)
    \/ TurnSwitch

\* The service manager restarts the daemon (Restart=always, KeepAlive); a
\* process that lives runs its next step: every command of a decision or a
\* rollback has a timeout, the deadline and the settle time elapse, a release
\* that can start does.  Nothing is assumed of requests, operators or failures.
DeployFairness ==
    /\ WF_guardVars(BeginProcess("service"))
    /\ \A p \in Processes :
           /\ WF_guardVars(Contend(p) \/ Decide(p) \/ RollbackStep(p))
           /\ WF_guardVars(DeadlineExpires(p))
           /\ WF_guardVars(Ready(p))
           /\ WF_guardVars(Settle(p))
           /\ WF_guardVars(Leave(p))

DeploySpec == DeployInit /\ [][DeployNext]_guardVars /\ DeployFairness

-----------------------------------------------------------------------------
DeployTypeOK ==
    /\ head \in Refs
    /\ record \in Record
    /\ deploys \in 0..MaxDeploys
    /\ guardOff \in BOOLEAN
    /\ proc \in [Processes -> Process]
    /\ update \in [Updates -> Request]
    /\ failures \in 0..MaxFailures
    /\ astray \in BOOLEAN

\* While a rollback moves HEAD, and until it writes its result, deploy.json
\* says so: no settling daemon, update or other start replaced the intent, so
\* a kill at any of its steps leaves a record that names the release to return
\* to (_rollback; "rollback intent is durable before checkout").  Not so for a
\* rollback that met another process, one of the two without the authority.
IntentOnDisk ==
    \A p \in Processes :
        proc[p].phase \in {"checkout", "restore"} /\ ~proc[p].met => record = proc[p].copy

\* What a deploy's record may become: in particular a confirmed, stale or
\* reported deploy is never judged again, and one that was rolled back is
\* reported at most once, whichever processes share the file; nor does an earlier
\* deploy come back.  Only a rollback that met another process may write a record
\* it did not just read: the decisions of starts that fail in bootstrap, and the
\* settling of a daemon they meet, keep the order.
VerdictOrder ==
    { <<"armed", "armed">>, <<"armed", "confirmed">>, <<"armed", "stale">>,
      <<"armed", "rolling_back">>, <<"rolling_back", "rolling_back">>,
      <<"rolling_back", "rolled_back">>, <<"rolling_back", "rollback_failed">>,
      <<"rolled_back", "reported">>, <<"rollback_failed", "reported">> }

LateRollback == \E p \in Processes : proc[p].met /\ RollbackStep(p)

VerdictIsFinal ==
    [][record' # record /\ ~LateRollback
       => \/ record'.id = record.id /\ <<record.state, record'.state>> \in VerdictOrder
          \/ record'.id > record.id]_guardVars

\* "Contending starts remain neutral until authority is resolved" (begin): a start
\* that does not get to the authority neither moves HEAD nor judges the deploy of
\* the daemon that holds it.  It does both: failed() decides without the authority.
ContendersNeutral ==
    [][(\E p \in Processes : /\ proc[p].bootstrap /\ proc'[p] # proc[p]
                             /\ \E q \in Others(p) : HasAuthority(q))
       => head' = head /\ record'.state = record.state]_guardVars

\* A start that may hang for good, because the guard was switched off or could
\* not read HEAD or its record when the start was decided, or because a start
\* without the authority judged the deploy its deadline is for.
Unguarded ==
    \/ guardOff
    \/ \E p \in Processes :
           proc[p].phase = "starting" /\ ~Watched(p) /\ proc[p].image \in Broken

\* A daemon that began before the record was armed and took the authority
\* after: it confirms nothing (settle compares the deploy id read at the start).
BeganBefore == \E p \in Processes : proc[p].phase = "serving" /\ proc[p].initial # record.id


\* An update to a release that cannot start does not take the daemon down for
\* good: it serves again, if the release it came from can, unless the rollback
\* failed (the owner is told to act) or the guard or HEAD were interfered with.
ServesAgain ==
    record.state \in {"armed", "rolling_back"} /\ record.previous \notin Broken
        ~> \/ Serving
           \/ record.state = "rollback_failed"
           \/ astray
           \/ Unguarded

=============================================================================
