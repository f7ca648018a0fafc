--------------------------- MODULE SessionDirectory ---------------------------
(***************************************************************************)
(* The session objects of one agent and the four maps of the daemon that   *)
(* name them: the broker's registry, the cleanup debts of failed starts,   *)
(* the owners of resume handles, and the handles stored in the agent's     *)
(* rows.  PINKY_RESUME_FAILSAFE is on: whoever changes a map holds the     *)
(* agent's lifecycle lock, so at most one job is under way, and what runs  *)
(* beside it is the sessions themselves, their callbacks and the one edit  *)
(* of the agent's row that takes no lock.  The lock's waiters have no      *)
(* state: what they read before it, they read again.  A step of a job runs *)
(* to its next await; a job that raises or is cancelled there ends.  The   *)
(* agent is enabled, its storage not held, and a daemon does not restart.  *)
(***************************************************************************)
EXTENDS Naturals, FiniteSets

CONSTANTS
    Labels, Main,
    MaxObjects,         \* session objects that matter at a time: one per label, a candidate
    MaxConversations,   \* bound: conversations begun
    MaxMishaps,         \* bound: awaits that fail or are cancelled, sessions that break
    MaxEdits            \* bound: changes of the agent's row

ASSUME DirectoryAssumption ==
    /\ Main \in Labels /\ IsFiniteSet(Labels) /\ Cardinality(Labels) < MaxObjects
    /\ {MaxObjects, MaxConversations, MaxMishaps, MaxEdits} \subseteq Nat

VARIABLES
    runtime,        \* "claude_sdk" persists a handle as it arrives, "codex_cli" after the turn
    rebuild,        \* PINKY_SESSION_CLASS_REBUILD is on, too
    wanted,         \* session class the agent's row asks for
    object,         \* object[s]: session object s
    registered,     \* broker._streaming
    debt,           \* _candidate_cleanup_debts
    owner,          \* _resume_owners
    stored,         \* streaming_session_id of each label: the conversation to resume
    cleared,        \* conversations somebody has asked to leave behind
    conversations,  \* conversations begun so far
    job,            \* what the holder of the lifecycle lock is at
    mishaps, edits

directoryVars ==
    <<runtime, rebuild, wanted, object, registered, debt, owner, stored, cleared,
      conversations, job, mishaps, edits>>

config == <<runtime, rebuild, wanted, edits>>
maps == <<registered, debt, owner>>
handles == <<stored, cleared, conversations>>

Objects == 1..MaxObjects
Nobody == 0
None == 0                       \* no handle
Nowhere == "nowhere"            \* the callback's epoch has passed
Classes == {"a", "b"}

\* A session object. live: its process may be running. conv: the conversation of that
\* process. handle: resume_handle. pending: codex's handle not yet persisted. bound: the
\* label under whose current epoch its callback was made.
Unused ==
    [class |-> "a", state |-> "down", live |-> FALSE, retired |-> FALSE, inhibited |-> FALSE,
     conv |-> None, handle |-> None, pending |-> None, bound |-> Nowhere]

\* outdated: the launch configuration is not the one the candidate was prepared with.
NoJob ==
    [kind |-> "none", at |-> "none", label |-> Main, who |-> Nobody, candidate |-> Nobody,
     todo |-> {}, outdated |-> FALSE]

NothingStarted ==
    /\ runtime \in {"claude_sdk", "codex_cli"} /\ rebuild \in BOOLEAN /\ wanted = "a"
    /\ object = [s \in Objects |-> Unused]
    /\ registered = [l \in Labels |-> Nobody]
    /\ debt = [l \in Labels |-> Nobody]
    /\ owner = [l \in Labels |-> Nobody]
    /\ stored = [l \in Labels |-> None]
    /\ cleared = {} /\ conversations = 0
    /\ job = NoJob

DirectoryInit == NothingStarted /\ mishaps = 0 /\ edits = 0

JobAt(a) == job.at = a
Unlocked == job = NoJob
Mishap == mishaps < MaxMishaps /\ mishaps' = mishaps + 1
Smooth == UNCHANGED mishaps

\* A new session object: any that nothing refers to.
Fresh ==
    CHOOSE s \in Objects :
        /\ ~object[s].live
        /\ \A l \in Labels : s \notin {registered[l], debt[l]}
        /\ s \notin {job.who, job.candidate}

\* A new epoch for label l: callbacks made before it no longer persist anything.
NewEpoch(l, objects) ==
    [s \in Objects |-> IF objects[s].bound = l THEN [objects[s] EXCEPT !.bound = Nowhere]
                       ELSE objects[s]]

\* The conversations that session s of label l leaves behind.
LeftBehind(l, s) == {stored[l], object[s].conv, object[s].handle} \ {None}

-----------------------------------------------------------------------------
(* Resume handles                                                            *)

\* _persist_streaming_resume_handle, under the label the callback was made for.
Persistable(s) ==
    LET l == object[s].bound IN
    /\ l # Nowhere
    /\ owner[l] = s
    /\ registered[l] \in {Nobody, s}

Persist(s, c) ==
    stored' = IF Persistable(s) THEN [stored EXCEPT ![object[s].bound] = c] ELSE stored

Forgets(s) ==
    cleared' = IF Persistable(s) THEN cleared \cup LeftBehind(object[s].bound, s) ELSE cleared

\* The reader of a connected session learns its conversation.
Reports(s) ==
    /\ runtime = "claude_sdk"
    /\ object[s].live /\ object[s].state = "connected"
    /\ object[s].handle # object[s].conv
    /\ Persist(s, object[s].conv)
    /\ object' = [object EXCEPT ![s].handle = object[s].conv]
    /\ UNCHANGED <<config, maps, cleared, conversations, job, mishaps>>

\* codex: thread.started, handled in the middle of a turn.
Hears(s) ==
    /\ runtime = "codex_cli"
    /\ object[s].live /\ object[s].state = "connected"
    /\ object[s].handle # object[s].conv
    /\ object' = [object EXCEPT ![s].handle = object[s].conv, ![s].pending = object[s].conv]
    /\ UNCHANGED <<config, maps, handles, job, mishaps>>

\* codex: the worker persists what is pending after a turn, also after one that failed
\* before its thread started.
PersistsPending(s) ==
    /\ object[s].live /\ object[s].state = "connected" /\ object[s].pending # None
    /\ Persist(s, object[s].pending)
    /\ object' = [object EXCEPT ![s].pending = None]
    /\ UNCHANGED <<config, maps, cleared, conversations, job, mishaps>>

\* A reset frame: the session clears its handle and its process goes on in a new
\* conversation.
Resets(s) ==
    /\ runtime = "claude_sdk"
    /\ object[s].live /\ object[s].state = "connected"
    /\ conversations < MaxConversations /\ conversations' = conversations + 1
    /\ Persist(s, None) /\ Forgets(s)
    /\ object' = [object EXCEPT ![s].handle = None, ![s].conv = conversations + 1]
    /\ UNCHANGED <<config, maps, job, mishaps>>

-----------------------------------------------------------------------------
(* What sessions do by themselves                                            *)

\* disconnect() ends the SDK session's CONNECTED before it awaits, codex's after.
Down(state) == IF runtime = "claude_sdk" THEN "down" ELSE state

Revoked(s) == object[s].inhibited \/ object[s].retired

\* The process died, or the stream broke and the session's own task reconnects.
Breaks(s) ==
    /\ object[s].state = "connected"
    /\ Mishap
    /\ \E live \in BOOLEAN, state \in {"down", "recovering"} :
         /\ state = "recovering" => ~Revoked(s)
         /\ object' = [object EXCEPT ![s].state = state, ![s].live = live]
    /\ UNCHANGED <<config, maps, handles, job>>

IdleSleeps(s) ==
    /\ object[s].state = "connected" /\ ~Revoked(s)
    /\ object' = [object EXCEPT ![s].state = "asleep", ![s].live = FALSE]
    /\ UNCHANGED <<config, maps, handles, job, mishaps>>

\* _heartbeat_resurrect, of a session whose class is still the wanted one.
Resurrects ==
    /\ Unlocked
    /\ LET s == registered[Main] IN
       /\ s # Nobody /\ object[s].state = "down" /\ ~Revoked(s)
       /\ rebuild => object[s].class = wanted
       /\ object' = [object EXCEPT ![s].state = "recovering"]
    /\ UNCHANGED <<config, maps, handles, job, mishaps>>

\* The reconnect's end. Revoked, it brings nothing up; its last client may not be closed.
Reconnects(s) ==
    /\ object[s].state = "recovering"
    /\ \/ /\ ~Revoked(s)
          /\ object' = [object EXCEPT ![s].state = "connected", ![s].live = TRUE]
       \/ object' = [object EXCEPT ![s].state = "down"]
       \/ object' = [object EXCEPT ![s].state = "down", ![s].live = FALSE]
    /\ UNCHANGED <<config, maps, handles, job, mishaps>>

\* The operator changes the runtime or the transport of the agent.
ChangesClass ==
    /\ rebuild /\ Unlocked
    /\ edits < MaxEdits /\ edits' = edits + 1
    /\ \E c \in Classes \ {wanted} : wanted' = c
    /\ UNCHANGED <<runtime, rebuild, object, maps, handles, job, mishaps>>

\* set_agent_effort takes no lock; only a candidate's start compares what it changes.
ChangesEffort ==
    /\ rebuild /\ job.candidate # Nobody
    /\ edits < MaxEdits /\ edits' = edits + 1
    /\ job' = [job EXCEPT !.outdated = TRUE]
    /\ UNCHANGED <<runtime, rebuild, wanted, object, maps, handles, mishaps>>

-----------------------------------------------------------------------------
(* A start: settle the label's debt, connect a candidate, register it        *)

\* Candidate s of label l connects: it owns the label's handle from here.
Launches(l, s, objects) ==
    /\ owner' = [owner EXCEPT ![l] = s]
    /\ object' = [NewEpoch(l, objects) EXCEPT ![s].bound = l]
    /\ job' = [job EXCEPT !.kind = "start", !.at = "launching", !.label = l, !.who = Nobody,
                          !.candidate = s, !.todo = {}]

Prepared(l) == [Unused EXCEPT !.class = wanted, !.handle = stored[l]]

Spawns(l, objects) ==
    LET s == Fresh IN Launches(l, s, [objects EXCEPT ![s] = Prepared(l)])

\* _start_streaming_session
ColdStarts(l) ==
    \/ /\ debt[l] = Nobody
       /\ Spawns(l, object)
       /\ UNCHANGED <<config, registered, debt, handles, mishaps>>
    \/ /\ debt[l] # Nobody
       /\ object' = [object EXCEPT ![debt[l]].retired = TRUE, ![debt[l]].inhibited = TRUE]
       /\ job' = [NoJob EXCEPT !.kind = "start", !.at = "settling", !.label = l]
       /\ UNCHANGED <<config, maps, handles, mishaps>>

\* connect() is through: the session is connected and sends its wake prompt. The runtime
\* may reject the handle it was to resume; the session then goes on without one.
Arrives ==
    /\ job.at \in {"launching", "reviving"}
    /\ LET s == IF JobAt("launching") THEN job.candidate ELSE job.who IN
       /\ ~object[s].retired
       /\ \E rejected \in BOOLEAN :
            LET anew == rejected \/ object[s].handle = None IN
            /\ rejected => runtime = "claude_sdk" /\ object[s].handle # None
            /\ anew => conversations < MaxConversations
            /\ conversations' = IF anew THEN conversations + 1 ELSE conversations
            /\ object' = [object EXCEPT
                 ![s].state = "connected", ![s].live = TRUE,
                 ![s].conv = IF anew THEN conversations + 1 ELSE object[s].handle,
                 ![s].handle = IF rejected THEN None ELSE object[s].handle]
            /\ IF rejected THEN Persist(s, None) /\ Forgets(s) ELSE UNCHANGED <<stored, cleared>>
    /\ job' = [job EXCEPT !.at = IF JobAt("launching") THEN "greeting" ELSE "rejoining"]
    /\ UNCHANGED <<config, maps, mishaps>>

\* With the rebuild switch, a candidate that lost its connection or whose launch
\* configuration has changed meanwhile is not registered.
Superseded(s) == rebuild /\ (object[s].state # "connected" \/ job.outdated)

LaunchEnds ==
    /\ JobAt("greeting") /\ ~Superseded(job.candidate)
    /\ registered' = [registered EXCEPT ![job.label] = job.candidate]
    /\ job' = NoJob
    /\ UNCHANGED <<config, object, debt, owner, handles, mishaps>>

\* Mutant: a candidate that failed is closed, as far as that works, and forgotten.
LaunchFailsUncleaned ==
    /\ job.at \in {"launching", "greeting"} /\ Mishap
    /\ owner' = [owner EXCEPT ![job.label] = Nobody]
    /\ \E live \in BOOLEAN :
         object' = [NewEpoch(job.label, object) EXCEPT ![job.candidate].live = live,
                                                       ![job.candidate].retired = TRUE]
    /\ job' = NoJob
    /\ UNCHANGED <<config, registered, debt, handles>>

\* _connect_prepared_session's except: "Publish ownership of uncertainty BEFORE cleanup can
\* suspend", then try to settle it.
LaunchFails ==
    LET s == job.candidate  l == job.label IN
    /\ job.at \in {"launching", "greeting"}
    /\ IF JobAt("greeting") /\ Superseded(s) THEN Smooth ELSE Mishap
    /\ owner' = [owner EXCEPT ![l] = Nobody]
    /\ debt' = [debt EXCEPT ![l] = s]
    /\ \E live \in (IF JobAt("launching") THEN BOOLEAN ELSE {object[s].live}) :
         object' = [NewEpoch(l, object) EXCEPT ![s].live = live, ![s].retired = TRUE,
                                               ![s].inhibited = TRUE]
    /\ job' = [job EXCEPT !.at = "clearing", !.candidate = Nobody]
    /\ UNCHANGED <<config, registered, handles>>

\* Mutant: a rename leaves the handle's owner and the session's callback as they are.
MovesUnbound(s, m, objects) ==
    LET l == CHOOSE k \in Labels : registered[k] = s IN
    /\ registered' = [registered EXCEPT ![l] = Nobody, ![m] = s]
    /\ stored' = IF stored[l] = None THEN stored
                 ELSE [stored EXCEPT ![m] = stored[l], ![l] = None]
    /\ object' = objects /\ job' = NoJob
    /\ UNCHANGED owner

\* Session s, registered at l, gets the label m.
Moves(s, m, objects) ==
    LET l == CHOOSE k \in Labels : registered[k] = s IN
    /\ registered' = [registered EXCEPT ![l] = Nobody, ![m] = s]
    /\ owner' = [owner EXCEPT ![l] = Nobody, ![m] = s]
    /\ object' = [NewEpoch(m, NewEpoch(l, objects)) EXCEPT ![s].bound = m]
    /\ stored' = IF stored[l] = None THEN stored
                 ELSE [stored EXCEPT ![m] = stored[l], ![l] = None]
    /\ job' = NoJob

\* The debt's process is gone: what needed that goes on, a failed launch raises.
SettleEnds ==
    LET l == job.label  gone == [object EXCEPT ![debt[l]] = Unused] IN
    /\ job.at \in {"settling", "clearing"}
    /\ object[debt[l]].state # "recovering"
    /\ debt' = [debt EXCEPT ![l] = Nobody]
    /\ CASE JobAt("clearing") -> object' = gone /\ job' = NoJob /\ UNCHANGED <<registered, owner, stored>>
         [] JobAt("settling") /\ job.kind = "start" -> Spawns(l, gone) /\ UNCHANGED <<registered, stored>>
         [] OTHER -> Moves(job.who, l, gone)
    /\ UNCHANGED <<config, cleared, conversations, mishaps>>

SettleFails ==
    /\ job.at \in {"settling", "clearing"}
    /\ Mishap
    /\ \E live \in BOOLEAN :
         /\ live => object[debt[job.label]].live
         /\ object' = [object EXCEPT ![debt[job.label]].live = live,
                                     ![debt[job.label]].state = Down(@)]
    /\ job' = NoJob
    /\ UNCHANGED <<config, maps, handles>>

-----------------------------------------------------------------------------
(* A restart or a retirement: quiesce, configure, drop the process, go on    *)

Seated == {l \in Labels : registered[l] # Nobody}

\* _quiesce_recovery_owner of the session at l, for a job of this kind.
Quiesces(kind, l, candidate, todo) ==
    /\ job' = [kind |-> kind, at |-> "quiescing", label |-> l, who |-> registered[l],
               candidate |-> candidate, todo |-> todo, outdated |-> FALSE]
    /\ object' = [s \in Objects |->
                    IF s = registered[l] THEN [object[s] EXCEPT !.inhibited = TRUE]
                    ELSE IF s = candidate THEN [Unused EXCEPT !.class = wanted]
                    ELSE object[s]]
    /\ UNCHANGED <<config, maps, handles, mishaps>>

Outclassed(l) == rebuild /\ object[registered[l]].class # wanted

\* _replace_session_locked: the candidate is prepared before the old session is touched.
Replaces(l) == Quiesces("replace", l, Fresh, {})

\* _bind_retained_resume_owner
Rebinds(l, s, objects) ==
    /\ owner' = [owner EXCEPT ![l] = s]
    /\ object' = [NewEpoch(l, objects) EXCEPT ![s].bound = l]

\* _ensure_streaming_session: a message, a wake, create_streaming_session.
Ensures(l) ==
    /\ Unlocked
    /\ \/ l \notin Seated /\ ColdStarts(l)
       \/ /\ l \in Seated /\ object[registered[l]].state # "recovering"
          /\ Outclassed(l) /\ Replaces(l)
       \/ /\ l \in Seated /\ object[registered[l]].state \in {"down", "asleep"}
          /\ ~Outclassed(l) /\ (rebuild \/ object[registered[l]].inhibited)
          /\ Quiesces("wake", l, Nobody, {})
       \/ /\ l \in Seated /\ object[registered[l]].state \in {"down", "asleep"}
          /\ ~rebuild /\ ~object[registered[l]].inhibited
          /\ Rebinds(l, registered[l], object)
          /\ job' = [NoJob EXCEPT !.kind = "wake", !.at = "reviving", !.label = l,
                                  !.who = registered[l]]
          /\ UNCHANGED <<config, registered, debt, handles, mishaps>>

\* "fresh": the context, model, archive and forced restarts. "recover": the watchdog's.
Restarts(kind, l) ==
    /\ Unlocked /\ l \in Seated
    /\ IF Outclassed(l) THEN Replaces(l) ELSE Quiesces(kind, l, Nobody, {})

Retires(kind, todo) == Quiesces(kind, CHOOSE l \in todo : TRUE, Nobody, todo)

\* _disconnect_streaming_sessions: alone, or before skills are applied.
Stops(kind) ==
    /\ Unlocked /\ Seated # {}
    /\ Retires(kind, Seated)

Deletes(l) ==
    /\ Unlocked /\ l \in Seated \ {Main}
    /\ Retires("delete", {l})

\* The conversation of label l is left behind by the session at it.
Leaves(l) ==
    /\ stored' = [stored EXCEPT ![l] = None]
    /\ cleared' = cleared \cup LeftBehind(l, registered[l])

Disowned(l) == owner' = [owner EXCEPT ![l] = Nobody]

Blank(s, objects) == [objects EXCEPT ![s].handle = None, ![s].pending = None]

\* Recovery owners have stopped: configure, and begin to disconnect.
QuiesceEnds ==
    LET l == job.label  s == job.who
        down == [object EXCEPT ![s].state = Down(@)]
        retired == [down EXCEPT ![s].retired = TRUE]
    IN
    /\ JobAt("quiescing") /\ object[s].state # "recovering"
    /\ CASE job.kind = "wake" ->
              object' = down /\ UNCHANGED <<owner, stored, cleared>>
         [] job.kind = "fresh" ->
              /\ Disowned(l) /\ Leaves(l)
              /\ object' = [NewEpoch(l, down) EXCEPT ![s].handle = None]
         [] job.kind = "recover" /\ rebuild ->
              Disowned(l) /\ Leaves(l) /\ object' = Blank(s, NewEpoch(l, down))
         [] job.kind = "replace" /\ ~job.outdated ->
              Disowned(l) /\ Leaves(l) /\ object' = Blank(s, NewEpoch(l, retired))
         [] job.kind = "replace" /\ job.outdated ->
              /\ object' = [object EXCEPT ![s].retired = TRUE]
              /\ UNCHANGED <<owner, stored, cleared>>
         [] OTHER ->
              object' = retired /\ UNCHANGED <<owner, stored, cleared>>
    /\ job' = IF job.kind = "replace" /\ job.outdated THEN NoJob
              ELSE [job EXCEPT !.at = "dropping"]
    /\ UNCHANGED <<config, registered, debt, conversations, mishaps>>

QuiesceFails ==
    /\ JobAt("quiescing") /\ Mishap
    /\ job' = NoJob
    /\ UNCHANGED <<config, object, maps, handles>>

\* The process is gone. A retained session connects again, a replaced one makes room for
\* its candidate, the watchdog (without the rebuild switch) drops it and pauses.
DropEnds ==
    LET l == job.label  s == job.who
        down == [object EXCEPT ![s].state = "down", ![s].live = FALSE]
        gone == [object EXCEPT ![s] = Unused]
    IN
    /\ JobAt("dropping")
    /\ \/ /\ job.kind \in {"wake", "fresh"} \/ (job.kind = "recover" /\ rebuild)
          /\ Rebinds(l, s, down)
          /\ job' = [job EXCEPT !.at = "reviving"]
          /\ UNCHANGED <<registered, stored, cleared>>
       \/ /\ job.kind = "replace"
          /\ registered' = [registered EXCEPT ![l] = Nobody]
          /\ Launches(l, job.candidate, gone)
          /\ UNCHANGED <<stored, cleared>>
       \/ /\ job.kind = "recover" /\ ~rebuild
          /\ Disowned(l) /\ Leaves(l)
          /\ registered' = [registered EXCEPT ![l] = Nobody]
          /\ object' = NewEpoch(l, gone)
          /\ job' = [NoJob EXCEPT !.kind = "start", !.at = "pausing", !.label = l]
    /\ UNCHANGED <<config, debt, conversations, mishaps>>

\* One label is retired: the next one, or the end of the job.
RetireEnds ==
    LET l == job.label  s == job.who  todo == job.todo \ {l}
        down == NewEpoch(l, [object EXCEPT ![s].state = "down", ![s].live = FALSE])
    IN
    /\ JobAt("dropping") /\ job.kind \in {"stop", "bounce", "delete"}
    /\ Disowned(l)
    /\ cleared' = cleared \cup LeftBehind(l, s)
    /\ IF todo # {}
       THEN LET next == CHOOSE m \in todo : TRUE IN
            /\ stored' = [stored EXCEPT ![l] = None]
            /\ object' = [down EXCEPT ![registered[next]].inhibited = TRUE]
            /\ job' = [job EXCEPT !.at = "quiescing", !.label = next, !.who = registered[next],
                                  !.todo = todo]
            /\ UNCHANGED registered
       ELSE /\ IF job.kind = "delete"
               THEN /\ stored' = [stored EXCEPT ![l] = None]
                    /\ registered' = [registered EXCEPT ![l] = Nobody]
               ELSE /\ stored' = [m \in Labels |-> None]
                    /\ registered' = [m \in Labels |-> Nobody]
            /\ object' = [t \in Objects |->
                            IF \E m \in Labels : registered[m] = t /\ registered'[m] = Nobody
                            THEN Unused ELSE down[t]]
            /\ job' = IF job.kind = "bounce"
                      THEN [NoJob EXCEPT !.kind = "start", !.at = "pausing"] ELSE NoJob
    /\ UNCHANGED <<config, debt, conversations, mishaps>>

\* Strict cleanup raises where it cannot prove that the process is gone.
DropFails ==
    /\ JobAt("dropping") /\ Mishap
    /\ \E live \in BOOLEAN :
         /\ live => object[job.who].live
         /\ object' = [object EXCEPT ![job.who].live = live]
    /\ job' = NoJob
    /\ UNCHANGED <<config, maps, handles>>

\* The retained session is up again, and its recovery no longer inhibited.
ReviveEnds ==
    /\ JobAt("rejoining")
    /\ object' = [object EXCEPT ![job.who].inhibited = FALSE]
    /\ job' = NoJob
    /\ UNCHANGED <<config, maps, handles, mishaps>>

\* A retired session may not start a process again.
ReviveFails ==
    /\ job.at \in {"reviving", "rejoining"}
    /\ IF JobAt("reviving") /\ object[job.who].retired THEN Smooth ELSE Mishap
    /\ IF JobAt("rejoining") THEN UNCHANGED object
       ELSE \E live \in BOOLEAN :
              /\ object[job.who].retired => live = object[job.who].live
              /\ object' = [object EXCEPT ![job.who].state = "down", ![job.who].live = live]
    /\ job' = NoJob
    /\ UNCHANGED <<config, maps, handles>>

\* After the watchdog's pause, and at the end of a bounce.
PauseEnds ==
    /\ JobAt("pausing")
    /\ ColdStarts(job.label)

PauseFails ==
    /\ JobAt("pausing") /\ Mishap
    /\ job' = NoJob
    /\ UNCHANGED <<config, object, maps, handles>>

\* rename_streaming_session
Renames(l, m) ==
    /\ Unlocked
    /\ l \in Seated \ {Main} /\ m \notin Seated
    /\ IF debt[m] = Nobody
       THEN Moves(registered[l], m, object) /\ UNCHANGED debt
       ELSE /\ object' = [object EXCEPT ![debt[m]].retired = TRUE, ![debt[m]].inhibited = TRUE]
            /\ job' = [NoJob EXCEPT !.kind = "rename", !.at = "settling", !.label = m,
                                    !.who = registered[l]]
            /\ UNCHANGED <<registered, debt, owner, stored>>
    /\ UNCHANGED <<config, cleared, conversations, mishaps>>

-----------------------------------------------------------------------------
DirectoryNext ==
    \/ \E s \in Objects :
         Reports(s) \/ Hears(s) \/ PersistsPending(s) \/ Resets(s)
           \/ Breaks(s) \/ IdleSleeps(s) \/ Reconnects(s)
    \/ Resurrects \/ ChangesClass \/ ChangesEffort
    \/ Arrives \/ LaunchEnds \/ LaunchFails \/ SettleEnds \/ SettleFails
    \/ QuiesceEnds \/ QuiesceFails \/ DropEnds \/ RetireEnds \/ DropFails
    \/ ReviveEnds \/ ReviveFails \/ PauseEnds \/ PauseFails
    \/ \E l \in Labels : Ensures(l) \/ Deletes(l) \/ \E m \in Labels : Renames(l, m)
    \/ \E l \in Labels : Restarts("fresh", l) \/ Restarts("recover", l)
    \/ Stops("stop") \/ Stops("bounce")

DirectorySpec == DirectoryInit /\ [][DirectoryNext]_directoryVars

-----------------------------------------------------------------------------
SessionObject ==
    [class : Classes, state : {"down", "connected", "recovering", "asleep"},
     live : BOOLEAN, retired : BOOLEAN, inhibited : BOOLEAN,
     conv : 0..MaxConversations, handle : 0..MaxConversations,
     pending : 0..MaxConversations, bound : Labels \cup {Nowhere}]

JobKinds ==
    {"none", "start", "rename", "replace", "wake", "fresh", "recover", "stop", "bounce", "delete"}

JobStages ==
    {"none", "settling", "launching", "greeting", "clearing", "quiescing", "dropping",
     "reviving", "rejoining", "pausing"}

DirectoryTypeOK ==
    /\ runtime \in {"claude_sdk", "codex_cli"} /\ rebuild \in BOOLEAN /\ wanted \in Classes
    /\ object \in [Objects -> SessionObject]
    /\ registered \in [Labels -> Objects \cup {Nobody}]
    /\ debt \in [Labels -> Objects \cup {Nobody}] /\ owner \in [Labels -> Objects \cup {Nobody}]
    /\ stored \in [Labels -> 0..MaxConversations]
    /\ cleared \subseteq 1..MaxConversations /\ conversations \in 0..MaxConversations
    /\ job \in [kind : JobKinds, at : JobStages, label : Labels, who : Objects \cup {Nobody},
               candidate : Objects \cup {Nobody}, todo : SUBSET Labels, outdated : BOOLEAN]
    /\ mishaps \in 0..MaxMishaps /\ edits \in 0..MaxEdits

Accounted(l) ==
    {registered[l], debt[l]} \cup (IF job.label = l THEN {job.candidate} ELSE {})

\* No process is lost and no label has two: whatever start, restart, replacement, rename
\* or retirement fails, is cancelled or races the sessions' own reconnects, each process
\* that may be running is the registered session's, the label's debt or the candidate's.
LiveIsAccounted ==
    /\ \A s \in Objects : object[s].live => \E l \in Labels : s \in Accounted(l)
    /\ \A l \in Labels : Cardinality({s \in Accounted(l) \ {Nobody} : object[s].live}) <= 1

\* A restart of label l in a new conversation is tearing the old one down.
Leaving(l) ==
    /\ JobAt("dropping") /\ job.label = l
    /\ (job.kind = "fresh" \/ (rebuild /\ job.kind \in {"recover", "replace"}))

\* The stored handle of a label is written by the session seated there, or about to be: no
\* late callback of a session that was replaced, retired, renamed or failed to start changes
\* what is resumed.  It brings back no conversation somebody has left behind, least of all
\* during the restart that leaves it; but a codex session that has been restarted may still
\* have the old one pending.
SeatedPersist ==
    [][\A l \in Labels : stored'[l] \notin {stored[l], None} =>
         \E s \in {registered'[l], job.candidate} \ {Nobody} :
           \/ stored'[l] = object[s].conv /\ stored'[l] \notin cleared
           \/ stored'[l] = object[s].pending /\ (stored'[l] \in cleared => ~Leaving(l))
           \/ \E k \in Labels : registered[k] = s /\ stored'[l] = stored[k]]_directoryVars

=============================================================================
