----------------------- MODULE SessionDirectory_proofs -----------------------
(***************************************************************************)
(* Proofs about SessionDirectory, for any finite set of labels, fewer than *)
(* the session objects, and any bounds.  The inductive invariant has three *)
(* parts.  The account: whose the processes are, given what the job under  *)
(* way is at.  The owners: who may write the stored handle of a label.     *)
(* The traces, of an SDK agent: which conversations a label can resume.    *)
(***************************************************************************)
EXTENDS SessionDirectory, FiniteSetTheorems, TLAPS

\* The values of object, and of job.
ObjType == [Objects -> SessionObject]
JobType ==
    [kind : JobKinds, at : JobStages, label : Labels, who : Objects \cup {Nobody},
     candidate : Objects \cup {Nobody}, todo : SUBSET Labels, outdated : BOOLEAN]

\* What the constants are.
LEMMA DirectoryBounds ==
    /\ Main \in Labels /\ IsFiniteSet(Labels) /\ Cardinality(Labels) \in Nat
    /\ MaxObjects \in Nat /\ MaxConversations \in Nat /\ MaxMishaps \in Nat /\ MaxEdits \in Nat
    /\ Cardinality(Labels) < MaxObjects /\ Nobody \notin Objects /\ Objects \subseteq Nat
    /\ Unused \in SessionObject /\ NoJob \in JobType
  <1>1. /\ MaxObjects \in Nat /\ MaxConversations \in Nat /\ MaxMishaps \in Nat /\ MaxEdits \in Nat
        /\ Main \in Labels /\ IsFiniteSet(Labels) /\ Cardinality(Labels) < MaxObjects
    BY DirectoryAssumption
  <1>2. Cardinality(Labels) \in Nat
    BY <1>1, FS_CardinalityType
  <1>3. Nobody \notin Objects /\ Objects \subseteq Nat
    BY <1>1 DEF Nobody, Objects
  <1>4. Unused \in SessionObject
    BY <1>1 DEF Unused, SessionObject, Classes, None, Nowhere
  <1>5. NoJob \in JobType
    BY <1>1 DEF NoJob, JobType, JobKinds, JobStages
  <1> QED BY <1>1, <1>2, <1>3, <1>4, <1>5

SameTalk(o, n) == n.conv = o.conv /\ n.handle = o.handle /\ n.pending = o.pending
SameState(o, n) == n.state = o.state /\ n.live = o.live
SameFate(o, n) == n.retired = o.retired /\ n.inhibited = o.inhibited
SameButBound(o, n) == SameTalk(o, n) /\ SameState(o, n) /\ SameFate(o, n)
Alike(f, g) == \A t \in Objects : SameButBound(f[t], g[t])
Elsewhere(s) == \A t \in Objects \ {s} : SameButBound(object[t], object'[t])

\* A new epoch of a label ...
LEMMA EpochKeeps ==
    ASSUME NEW l \in Labels, NEW f \in ObjType
    PROVE  NewEpoch(l, f) \in ObjType /\ Alike(f, NewEpoch(l, f))
  BY DEF ObjType, SessionObject, NewEpoch, Alike, SameTalk, SameState, SameFate, SameButBound

\* ... and a callback's label change nothing else of the session objects.
LEMMA BindingKeeps ==
    ASSUME NEW l \in Labels, NEW f \in ObjType, NEW s \in Objects
    PROVE  [f EXCEPT ![s].bound = l] \in ObjType /\ Alike(f, [f EXCEPT ![s].bound = l])
  BY DEF ObjType, SessionObject, Alike, SameTalk, SameState, SameFate, SameButBound

\* Both in turn.
LEMMA RebindingKeeps ==
    ASSUME NEW l \in Labels, NEW f \in ObjType, NEW s \in Objects
    PROVE  /\ [NewEpoch(l, f) EXCEPT ![s].bound = l] \in ObjType
           /\ Alike(f, [NewEpoch(l, f) EXCEPT ![s].bound = l])
  <1>1. NewEpoch(l, f) \in ObjType /\ Alike(f, NewEpoch(l, f))
    BY EpochKeeps
  <1>2. /\ [NewEpoch(l, f) EXCEPT ![s].bound = l] \in ObjType
        /\ Alike(NewEpoch(l, f), [NewEpoch(l, f) EXCEPT ![s].bound = l])
    BY <1>1, BindingKeeps
  <1> QED BY <1>1, <1>2 DEF Alike, SameTalk, SameState, SameFate, SameButBound

\* A session object is like itself.
LEMMA Same ==
    \A o : SameButBound(o, o)
  BY DEF SameTalk, SameState, SameFate, SameButBound

-----------------------------------------------------------------------------
ConfigOK ==
    /\ runtime \in {"claude_sdk", "codex_cli"} /\ rebuild \in BOOLEAN /\ wanted \in Classes
    /\ mishaps \in 0..MaxMishaps /\ edits \in 0..MaxEdits
MapsOK ==
    /\ registered \in [Labels -> Objects \cup {Nobody}]
    /\ debt \in [Labels -> Objects \cup {Nobody}] /\ owner \in [Labels -> Objects \cup {Nobody}]
HandlesOK ==
    /\ stored \in [Labels -> 0..MaxConversations]
    /\ cleared \subseteq 1..MaxConversations /\ conversations \in 0..MaxConversations

\* The type invariant, in parts that change together.
LEMMA TypeParts ==
    DirectoryTypeOK <=> ConfigOK /\ MapsOK /\ HandlesOK /\ object \in ObjType /\ job \in JobType
  BY DEF DirectoryTypeOK, ConfigOK, MapsOK, HandlesOK, ObjType, JobType

\* ... and after a step.
LEMMA TypePartsNext ==
    DirectoryTypeOK' <=>
        ConfigOK' /\ MapsOK' /\ HandlesOK' /\ object' \in ObjType /\ job' \in JobType
  BY DEF DirectoryTypeOK, ConfigOK, MapsOK, HandlesOK, ObjType, JobType

\* The parts that a step leaves alone.
LEMMA PartsStay ==
    ASSUME DirectoryTypeOK
    PROVE  /\ UNCHANGED config /\ mishaps' \in 0..MaxMishaps => ConfigOK'
           /\ UNCHANGED maps => MapsOK'
           /\ UNCHANGED handles => HandlesOK'
           /\ Smooth \/ Mishap => mishaps' \in 0..MaxMishaps
           /\ \A s \in Objects, c \in 0..MaxConversations :
                Persist(s, c) => stored' \in [Labels -> 0..MaxConversations]
           /\ \A l \in Labels, s \in Objects : LeftBehind(l, s) \subseteq 1..MaxConversations
           /\ None \in 0..MaxConversations
  <1>1. UNCHANGED config /\ mishaps' \in 0..MaxMishaps => ConfigOK'
    BY DEF DirectoryTypeOK, ConfigOK, config
  <1>2. UNCHANGED maps => MapsOK'
    BY DEF DirectoryTypeOK, MapsOK, maps
  <1>3. UNCHANGED handles => HandlesOK'
    BY DEF DirectoryTypeOK, HandlesOK, handles
  <1>4. Smooth \/ Mishap => mishaps' \in 0..MaxMishaps
    BY DirectoryBounds DEF DirectoryTypeOK, Smooth, Mishap
  <1>5. ASSUME NEW s \in Objects, NEW c \in 0..MaxConversations, Persist(s, c)
        PROVE  stored' \in [Labels -> 0..MaxConversations]
    BY <1>5 DEF DirectoryTypeOK, Persist
  <1>6. ASSUME NEW l \in Labels, NEW s \in Objects PROVE LeftBehind(l, s) \subseteq 1..MaxConversations
    <2>1. object[s] \in SessionObject
      BY DEF DirectoryTypeOK
    <2>2. {stored[l], object[s].conv, object[s].handle} \subseteq 0..MaxConversations
      BY <2>1 DEF DirectoryTypeOK, SessionObject
    <2> QED BY <2>2, DirectoryBounds DEF LeftBehind, None
  <1>7. None \in 0..MaxConversations
    BY DirectoryBounds DEF None
  <1> QED BY <1>1, <1>2, <1>3, <1>4, <1>5, <1>6, <1>7

-----------------------------------------------------------------------------
(* What the steps of the sessions do.                                        *)

\* A session learns its conversation.
LEMMA ReportsDoes ==
    ASSUME DirectoryTypeOK, NEW s \in Objects, Reports(s)
    PROVE  /\ DirectoryTypeOK' /\ Elsewhere(s)
           /\ SameState(object[s], object'[s]) /\ SameFate(object[s], object'[s])
           /\ object'[s].conv = object[s].conv /\ object'[s].handle = object[s].conv
           /\ object'[s].pending = object[s].pending
  <1>1. object \in ObjType /\ object[s] \in SessionObject
    BY DEF DirectoryTypeOK, ObjType
  <1>2. object[s].conv \in 0..MaxConversations
    BY <1>1 DEF SessionObject
  <1>3. object' = [object EXCEPT ![s].handle = object[s].conv]
    BY DEF Reports
  <1>4. object' \in ObjType /\ Elsewhere(s)
    BY <1>1, <1>2, <1>3, Same DEF ObjType, SessionObject, Elsewhere
  <1>5. /\ SameState(object[s], object'[s]) /\ SameFate(object[s], object'[s])
        /\ object'[s].conv = object[s].conv /\ object'[s].handle = object[s].conv
        /\ object'[s].pending = object[s].pending
    BY <1>1, <1>2, <1>3 DEF ObjType, SessionObject, SameState, SameFate
  <1>6. stored' \in [Labels -> 0..MaxConversations]
    BY <1>2, PartsStay DEF Reports
  <1>7. HandlesOK'
    BY <1>6 DEF Reports, HandlesOK, DirectoryTypeOK
  <1>8. DirectoryTypeOK'
    BY <1>4, <1>7, PartsStay, TypeParts, TypePartsNext DEF Reports, Smooth, config
  <1> QED BY <1>4, <1>5, <1>8

\* A codex session does, in the middle of a turn.
LEMMA HearsDoes ==
    ASSUME DirectoryTypeOK, NEW s \in Objects, Hears(s)
    PROVE  /\ DirectoryTypeOK' /\ Elsewhere(s)
           /\ SameState(object[s], object'[s]) /\ SameFate(object[s], object'[s])
           /\ object'[s].conv = object[s].conv /\ object'[s].handle = object[s].conv
           /\ object'[s].pending = object[s].conv
  <1>1. object \in ObjType /\ object[s] \in SessionObject
    BY DEF DirectoryTypeOK, ObjType
  <1>2. object[s].conv \in 0..MaxConversations
    BY <1>1 DEF SessionObject
  <1>3. object' = [object EXCEPT ![s].handle = object[s].conv, ![s].pending = object[s].conv]
    BY DEF Hears
  <1>4. object' \in ObjType /\ Elsewhere(s)
    BY <1>1, <1>2, <1>3, Same DEF ObjType, SessionObject, Elsewhere
  <1>5. /\ SameState(object[s], object'[s]) /\ SameFate(object[s], object'[s])
        /\ object'[s].conv = object[s].conv /\ object'[s].handle = object[s].conv
        /\ object'[s].pending = object[s].conv
    BY <1>1, <1>2, <1>3 DEF ObjType, SessionObject, SameState, SameFate
  <1>8. DirectoryTypeOK'
    BY <1>4, PartsStay, TypeParts, TypePartsNext DEF Hears, Smooth
  <1> QED BY <1>4, <1>5, <1>8

\* It persists what is pending.
LEMMA PersistsPendingDoes ==
    ASSUME DirectoryTypeOK, NEW s \in Objects, PersistsPending(s)
    PROVE  /\ DirectoryTypeOK' /\ Elsewhere(s)
           /\ SameState(object[s], object'[s]) /\ SameFate(object[s], object'[s])
           /\ object'[s].conv = object[s].conv /\ object'[s].handle = object[s].handle
           /\ object'[s].pending = None
  <1>1. object \in ObjType /\ object[s] \in SessionObject
    BY DEF DirectoryTypeOK, ObjType
  <1>2. object[s].pending \in 0..MaxConversations /\ None \in 0..MaxConversations
    BY <1>1, PartsStay DEF SessionObject
  <1>3. object' = [object EXCEPT ![s].pending = None]
    BY DEF PersistsPending
  <1>4. object' \in ObjType /\ Elsewhere(s)
    BY <1>1, <1>2, <1>3, Same DEF ObjType, SessionObject, Elsewhere
  <1>5. /\ SameState(object[s], object'[s]) /\ SameFate(object[s], object'[s])
        /\ object'[s].conv = object[s].conv /\ object'[s].handle = object[s].handle
        /\ object'[s].pending = None
    BY <1>1, <1>2, <1>3 DEF ObjType, SessionObject, SameState, SameFate
  <1>6. stored' \in [Labels -> 0..MaxConversations]
    BY <1>2, PartsStay DEF PersistsPending
  <1>7. HandlesOK'
    BY <1>6 DEF PersistsPending, HandlesOK, DirectoryTypeOK
  <1>8. DirectoryTypeOK'
    BY <1>4, <1>7, PartsStay, TypeParts, TypePartsNext DEF PersistsPending, Smooth, config
  <1> QED BY <1>4, <1>5, <1>8

\* A session goes on in a new conversation.
LEMMA ResetsDoes ==
    ASSUME DirectoryTypeOK, NEW s \in Objects, Resets(s)
    PROVE  /\ DirectoryTypeOK' /\ Elsewhere(s)
           /\ SameState(object[s], object'[s]) /\ SameFate(object[s], object'[s])
           /\ object'[s].conv = conversations + 1 /\ object'[s].handle = None
           /\ object'[s].pending = object[s].pending
  <1>1. object \in ObjType /\ object[s] \in SessionObject
    BY DEF DirectoryTypeOK, ObjType
  <1>2. conversations + 1 \in 0..MaxConversations /\ None \in 0..MaxConversations
    BY PartsStay, DirectoryBounds DEF DirectoryTypeOK, Resets
  <1>3. PICK c : c = conversations + 1
    OBVIOUS
  <1>4. object' = [object EXCEPT ![s].handle = None, ![s].conv = c]
    BY <1>3 DEF Resets
  <1>5. object' \in ObjType /\ Elsewhere(s)
    BY <1>1, <1>2, <1>3, <1>4, Same DEF ObjType, SessionObject, Elsewhere
  <1>6. /\ SameState(object[s], object'[s]) /\ SameFate(object[s], object'[s])
        /\ object'[s].conv = c /\ object'[s].handle = None
        /\ object'[s].pending = object[s].pending
    BY <1>1, <1>4 DEF ObjType, SessionObject, SameState, SameFate
  <1>7. stored' \in [Labels -> 0..MaxConversations]
    BY <1>2, PartsStay DEF Resets
  <1>8. cleared' \subseteq 1..MaxConversations
    BY PartsStay DEF Resets, Forgets, DirectoryTypeOK, Persistable, SessionObject
  <1>9. HandlesOK'
    BY <1>2, <1>7, <1>8 DEF Resets, HandlesOK
  <1>10. DirectoryTypeOK'
    BY <1>5, <1>9, PartsStay, TypeParts, TypePartsNext DEF Resets, Smooth
  <1> QED BY <1>3, <1>5, <1>6, <1>10

\* It breaks: it is down, or reconnects unless it is revoked.
LEMMA BreaksDoes ==
    ASSUME DirectoryTypeOK, NEW s \in Objects, Breaks(s)
    PROVE  /\ DirectoryTypeOK' /\ Elsewhere(s)
           /\ SameTalk(object[s], object'[s]) /\ SameFate(object[s], object'[s])
           /\ object'[s].state = "down" \/ (object'[s].state = "recovering" /\ ~Revoked(s))
  <1>1. object \in ObjType /\ object[s] \in SessionObject
    BY DEF DirectoryTypeOK, ObjType
  <1>2. PICK live \in BOOLEAN, state \in {"down", "recovering"} :
          /\ state = "recovering" => ~Revoked(s)
          /\ object' = [object EXCEPT ![s].state = state, ![s].live = live]
    BY DEF Breaks
  <1>3. object' \in ObjType /\ Elsewhere(s)
    BY <1>1, <1>2, Same DEF ObjType, SessionObject, Elsewhere
  <1>4. /\ SameTalk(object[s], object'[s]) /\ SameFate(object[s], object'[s])
        /\ object'[s].state = "down" \/ (object'[s].state = "recovering" /\ ~Revoked(s))
    BY <1>1, <1>2 DEF ObjType, SessionObject, SameTalk, SameFate
  <1>5. DirectoryTypeOK'
    BY <1>3, PartsStay, TypeParts, TypePartsNext DEF Breaks
  <1> QED BY <1>3, <1>4, <1>5

\* It sleeps.
LEMMA IdleSleepsDoes ==
    ASSUME DirectoryTypeOK, NEW s \in Objects, IdleSleeps(s)
    PROVE  /\ DirectoryTypeOK' /\ Elsewhere(s)
           /\ SameTalk(object[s], object'[s]) /\ SameFate(object[s], object'[s])
           /\ object'[s].state = "asleep" /\ ~object'[s].live
  <1>1. object \in ObjType /\ object[s] \in SessionObject
    BY DEF DirectoryTypeOK, ObjType
  <1>2. object' \in ObjType /\ Elsewhere(s)
    BY <1>1, Same DEF IdleSleeps, ObjType, SessionObject, Elsewhere
  <1>3. /\ SameTalk(object[s], object'[s]) /\ SameFate(object[s], object'[s])
        /\ object'[s].state = "asleep" /\ ~object'[s].live
    BY <1>1 DEF IdleSleeps, ObjType, SessionObject, SameTalk, SameFate
  <1>4. DirectoryTypeOK'
    BY <1>2, PartsStay, TypeParts, TypePartsNext DEF IdleSleeps, Smooth
  <1> QED BY <1>2, <1>3, <1>4

\* The registered session of the main label starts to reconnect.
LEMMA ResurrectsDoes ==
    ASSUME DirectoryTypeOK, Resurrects
    PROVE  /\ DirectoryTypeOK'
           /\ \E s \in Objects :
                /\ s = registered[Main] /\ ~Revoked(s) /\ Elsewhere(s)
                /\ SameTalk(object[s], object'[s]) /\ SameFate(object[s], object'[s])
                /\ object'[s].state = "recovering" /\ object'[s].live = object[s].live
  <1>1. PICK s : s = registered[Main]
    OBVIOUS
  <1>2. s \in Objects
    BY <1>1, DirectoryBounds DEF DirectoryTypeOK, Resurrects
  <1>3. object \in ObjType /\ object[s] \in SessionObject
    BY <1>2 DEF DirectoryTypeOK, ObjType
  <1>4. object' = [object EXCEPT ![s].state = "recovering"]
    BY <1>1 DEF Resurrects
  <1>5. object' \in ObjType /\ Elsewhere(s)
    BY <1>2, <1>3, <1>4, Same DEF ObjType, SessionObject, Elsewhere
  <1>6. /\ SameTalk(object[s], object'[s]) /\ SameFate(object[s], object'[s])
        /\ object'[s].state = "recovering" /\ object'[s].live = object[s].live
    BY <1>2, <1>3, <1>4 DEF ObjType, SessionObject, SameTalk, SameFate
  <1>7. DirectoryTypeOK'
    BY <1>5, PartsStay, TypeParts, TypePartsNext DEF Resurrects, Smooth
  <1>8. ~Revoked(s)
    BY <1>1 DEF Resurrects
  <1> QED BY <1>1, <1>2, <1>5, <1>6, <1>7, <1>8

\* A reconnect ends.
LEMMA ReconnectsDoes ==
    ASSUME DirectoryTypeOK, NEW s \in Objects, Reconnects(s)
    PROVE  /\ DirectoryTypeOK' /\ Elsewhere(s)
           /\ SameTalk(object[s], object'[s]) /\ SameFate(object[s], object'[s])
           /\ object'[s].state = "down" \/ (object'[s].state = "connected" /\ ~Revoked(s))
  <1>1. object \in ObjType /\ object[s] \in SessionObject
    BY DEF DirectoryTypeOK, ObjType
  <1>2. PICK live \in BOOLEAN, state \in {"down", "connected"} :
          /\ state = "connected" => ~Revoked(s)
          /\ object' = [object EXCEPT ![s].state = state, ![s].live = live]
    <2>1. object[s].live \in BOOLEAN
      BY <1>1 DEF SessionObject
    <2>2. CASE ~Revoked(s) /\ object' = [object EXCEPT ![s].state = "connected", ![s].live = TRUE]
      BY <2>2
    <2>3. CASE object' = [object EXCEPT ![s].state = "down"]
      <3>1. object' = [object EXCEPT ![s].state = "down", ![s].live = object[s].live]
        BY <1>1, <2>3 DEF ObjType, SessionObject
      <3> QED BY <2>1, <3>1
    <2>4. CASE object' = [object EXCEPT ![s].state = "down", ![s].live = FALSE]
      BY <2>4
    <2> QED BY <2>2, <2>3, <2>4 DEF Reconnects
  <1>3. object' \in ObjType /\ Elsewhere(s)
    BY <1>1, <1>2, Same DEF ObjType, SessionObject, Elsewhere
  <1>4. /\ SameTalk(object[s], object'[s]) /\ SameFate(object[s], object'[s])
        /\ object'[s].state = "down" \/ (object'[s].state = "connected" /\ ~Revoked(s))
    BY <1>1, <1>2 DEF ObjType, SessionObject, SameTalk, SameFate
  <1>5. DirectoryTypeOK'
    BY <1>3, PartsStay, TypeParts, TypePartsNext DEF Reconnects, Smooth
  <1> QED BY <1>3, <1>4, <1>5

-----------------------------------------------------------------------------
(* Whose processes they are.                                                 *)

Stage(stages) == job.at \in stages
Starting == {"launching", "greeting"}
TearingDown == {"quiescing", "dropping"}
Rejoining == {"reviving", "rejoining"}

\* A session that is up or may have a process.
Active(o) == o.live \/ o.state \in {"connected", "recovering"}

JobIdle == Stage({"none"}) => job = NoJob

\* A start has a candidate for a label where nobody sits and nothing is owed, ...
JobStarts ==
    Stage(Starting) =>
        /\ job.kind = "start" /\ job.candidate \in Objects /\ job.who = Nobody
        /\ registered[job.label] = Nobody /\ debt[job.label] = Nobody

\* ... what settles a debt has no candidate yet or no longer, ...
JobSettles ==
    Stage({"settling", "clearing"}) =>
        /\ job.candidate = Nobody
        /\ registered[job.label] = Nobody /\ debt[job.label] \in Objects
        /\ job.kind = "start" => job.who = Nobody
        /\ Stage({"settling"}) /\ job.kind # "start" =>
             job.kind = "rename" /\ \E k \in Labels : registered[k] = job.who /\ job.who # Nobody

\* ... a restart or a retirement is about the session seated at its label, a candidate
\* that waits has no process, ...
JobTearsDown ==
    Stage(TearingDown) =>
        /\ job.who \in Objects /\ job.who = registered[job.label]
        /\ job.kind \in {"wake", "fresh", "recover", "replace", "stop", "bounce", "delete"}
        /\ job.candidate # Nobody <=> job.kind = "replace"
        /\ job.kind = "replace" => ~Active(object[job.candidate])
        /\ job.todo \subseteq Seated
        /\ job.kind \in {"stop", "bounce", "delete"} => job.label \in job.todo

JobRejoins ==
    Stage(Rejoining) =>
        job.candidate = Nobody /\ job.who \in Objects /\ job.who = registered[job.label]

\* ... and a pause comes before a start.
JobPauses ==
    Stage({"pausing"}) =>
        job.candidate = Nobody /\ job.who = Nobody /\ registered[job.label] = Nobody

JobFits ==
    JobIdle /\ JobStarts /\ JobSettles /\ JobTearsDown /\ JobRejoins /\ JobPauses

SeatOrDebt == \A l \in Labels : registered[l] = Nobody \/ debt[l] = Nobody

\* A session has one label, and a candidate none yet.
OneSeat ==
    \A l \in Labels : registered[l] # Nobody =>
        registered[l] # job.candidate /\ \A k \in Labels : registered[k] = registered[l] => k = l

ActiveAccounted ==
    \A s \in Objects : Active(object[s]) => \E l \in Labels : s \in Accounted(l)

Accounts == DirectoryTypeOK /\ JobFits /\ SeatOrDebt /\ OneSeat /\ ActiveAccounted

\* Something is left for a new session object: every label refers to at most one.
LEMMA FreshIs ==
    ASSUME Accounts, job.candidate = Nobody,
           job.who = Nobody \/ \E l \in Labels : registered[l] = job.who
    PROVE  /\ Fresh \in Objects /\ ~object[Fresh].live
           /\ \A l \in Labels : Fresh \notin {registered[l], debt[l]}
           /\ Fresh \notin {job.who, job.candidate}
  <1> DEFINE Known(s) == \E l \in Labels : s \in {registered[l], debt[l]}
  <1>1. ASSUME \A s \in Objects : Known(s) PROVE FALSE
    <2>1. PICK f : f = [s \in Objects |-> CHOOSE l \in Labels : s \in {registered[l], debt[l]}]
      OBVIOUS
    <2>2. f \in [Objects -> Labels] /\ \A s \in Objects : s \in {registered[f[s]], debt[f[s]]}
      BY <1>1, <2>1
    <2>3. \A s, t \in Objects : f[s] = f[t] => s = t
      BY <2>2, DirectoryBounds DEF Accounts, SeatOrDebt
    <2>4. Objects = 1..MaxObjects /\ MaxObjects \in Nat
      BY DirectoryBounds DEF Objects
    <2>5. IsFiniteSet(Objects) /\ Cardinality(Objects) = MaxObjects
      BY <2>4, FS_Interval
    <2>6. IsFiniteSet(Labels) /\ Cardinality(Labels) < Cardinality(Objects)
      BY <2>5, DirectoryBounds
    <2>7. \E s, t \in Objects : s # t /\ f[s] = f[t]
      BY <2>2, <2>5, <2>6, FS_PigeonHole
    <2> QED BY <2>3, <2>7
  <1>2. PICK s \in Objects : ~Known(s)
    BY <1>1
  <1>3. ~object[s].live
    BY <1>2, DirectoryBounds DEF Accounts, ActiveAccounted, Active, Accounted
  <1>4. s \notin {job.who, job.candidate}
    BY <1>2, DirectoryBounds
  <1> QED BY <1>2, <1>3, <1>4 DEF Fresh

-----------------------------------------------------------------------------
(* What the steps of the jobs do.                                            *)

\* A candidate connects under a new epoch of its label.
LEMMA LaunchesDoes ==
    ASSUME DirectoryTypeOK, NEW l \in Labels, NEW s \in Objects, NEW f \in ObjType,
           Launches(l, s, f)
    PROVE  /\ object' \in ObjType /\ Alike(f, object')
           /\ owner' \in [Labels -> Objects \cup {Nobody}]
           /\ \A k \in Labels : owner'[k] = IF k = l THEN s ELSE owner[k]
           /\ job' \in JobType
           /\ job'.at = "launching" /\ job'.kind = "start" /\ job'.label = l
           /\ job'.who = Nobody /\ job'.candidate = s
  <1>1. object' \in ObjType /\ Alike(f, object')
    BY RebindingKeeps DEF Launches
  <1>2. /\ owner' \in [Labels -> Objects \cup {Nobody}]
        /\ \A k \in Labels : owner'[k] = IF k = l THEN s ELSE owner[k]
    BY DEF Launches, DirectoryTypeOK
  <1>3. /\ job' \in JobType
        /\ job'.at = "launching" /\ job'.kind = "start" /\ job'.label = l
        /\ job'.who = Nobody /\ job'.candidate = s
    BY DEF Launches, DirectoryTypeOK, JobType, JobKinds, JobStages
  <1> QED BY <1>1, <1>2, <1>3

\* A candidate is a new session object with the stored handle of its label.
LEMMA SpawnsDoes ==
    ASSUME Accounts, NEW l \in Labels, NEW f \in ObjType, Spawns(l, f),
           job.candidate = Nobody, job.who = Nobody
    PROVE  /\ object' \in ObjType
           /\ SameButBound(Prepared(l), object'[Fresh])
           /\ \A t \in Objects \ {Fresh} : SameButBound(f[t], object'[t])
           /\ owner' \in [Labels -> Objects \cup {Nobody}]
           /\ \A k \in Labels : owner'[k] = IF k = l THEN Fresh ELSE owner[k]
           /\ job' \in JobType
           /\ job'.at = "launching" /\ job'.kind = "start" /\ job'.label = l
           /\ job'.who = Nobody /\ job'.candidate = Fresh
  <1>1. Fresh \in Objects
    BY FreshIs
  <1>2. Prepared(l) \in SessionObject
    BY DirectoryBounds DEF Accounts, DirectoryTypeOK, Prepared, SessionObject, Unused
  <1>3. PICK s : s = Fresh
    OBVIOUS
  <1>4. PICK g : g = [f EXCEPT ![s] = Prepared(l)]
    OBVIOUS
  <1>5. g \in ObjType /\ g[s] = Prepared(l) /\ \A t \in Objects \ {s} : g[t] = f[t]
    BY <1>1, <1>2, <1>3, <1>4 DEF ObjType
  <1>6. Launches(l, s, g)
    BY <1>3, <1>4 DEF Spawns
  <1>7. /\ object' \in ObjType /\ Alike(g, object')
        /\ owner' \in [Labels -> Objects \cup {Nobody}]
        /\ \A k \in Labels : owner'[k] = IF k = l THEN s ELSE owner[k]
        /\ job' \in JobType
        /\ job'.at = "launching" /\ job'.kind = "start" /\ job'.label = l
        /\ job'.who = Nobody /\ job'.candidate = s
    BY <1>1, <1>3, <1>5, <1>6, LaunchesDoes DEF Accounts
  <1>8. /\ SameButBound(Prepared(l), object'[s])
        /\ \A t \in Objects \ {s} : SameButBound(f[t], object'[t])
    BY <1>1, <1>3, <1>5, <1>7 DEF Alike
  <1> QED BY <1>3, <1>7, <1>8

\* A session gets another label: so do its handle's owner and the stored handle.
LEMMA MovesDoes ==
    ASSUME DirectoryTypeOK, NEW s \in Objects, NEW k \in Labels, registered[k] = s,
           NEW m \in Labels, NEW f \in ObjType, Moves(s, m, f)
    PROVE  /\ object' \in ObjType /\ Alike(f, object')
           /\ job' = NoJob /\ job' \in JobType
           /\ \E l \in Labels :
                /\ registered[l] = s
                /\ registered' = [registered EXCEPT ![l] = Nobody, ![m] = s]
                /\ owner' = [owner EXCEPT ![l] = Nobody, ![m] = s]
                /\ stored' = IF stored[l] = None THEN stored
                             ELSE [stored EXCEPT ![m] = stored[l], ![l] = None]
  <1>1. PICK l : l = CHOOSE n \in Labels : registered[n] = s
    OBVIOUS
  <1>2. l \in Labels /\ registered[l] = s
    BY <1>1
  <1>3. PICK g : g = NewEpoch(l, f)
    OBVIOUS
  <1>4. g \in ObjType /\ Alike(f, g)
    BY <1>2, <1>3, EpochKeeps
  <1>5. object' = [NewEpoch(m, g) EXCEPT ![s].bound = m]
    BY <1>1, <1>3 DEF Moves
  <1>6. object' \in ObjType /\ Alike(g, object')
    BY <1>4, <1>5, RebindingKeeps
  <1>7. Alike(f, object')
    BY <1>4, <1>6 DEF Alike, SameTalk, SameState, SameFate, SameButBound
  <1>8. /\ registered' = [registered EXCEPT ![l] = Nobody, ![m] = s]
        /\ owner' = [owner EXCEPT ![l] = Nobody, ![m] = s]
        /\ stored' = IF stored[l] = None THEN stored
                     ELSE [stored EXCEPT ![m] = stored[l], ![l] = None]
        /\ job' = NoJob
    BY <1>1 DEF Moves
  <1> QED BY <1>2, <1>6, <1>7, <1>8, DirectoryBounds

\* Nobody seats himself twice.
LEMMA JobParts ==
    ASSUME DirectoryTypeOK
    PROVE  /\ job.kind \in JobKinds /\ job.at \in JobStages /\ job.label \in Labels
           /\ job.who \in Objects \cup {Nobody} /\ job.candidate \in Objects \cup {Nobody}
           /\ job.todo \subseteq Labels /\ job.outdated \in BOOLEAN
           /\ \A l \in Labels : /\ registered[l] \in Objects \cup {Nobody}
                                /\ debt[l] \in Objects \cup {Nobody}
                                /\ owner[l] \in Objects \cup {Nobody}
                                /\ stored[l] \in 0..MaxConversations
           /\ \A s \in Objects : object[s] \in SessionObject
           /\ object \in ObjType /\ job \in JobType
  BY DEF DirectoryTypeOK, ObjType, JobType

\* connect() is through: the session resumes its handle, or begins a conversation.
LEMMA ArrivesDoes ==
    ASSUME Accounts, Arrives
    PROVE  /\ DirectoryTypeOK'
           /\ \E s \in Objects :
                /\ s = IF JobAt("launching") THEN job.candidate ELSE job.who
                /\ ~object[s].retired /\ Elsewhere(s)
                /\ SameFate(object[s], object'[s])
                /\ object'[s].state = "connected" /\ object'[s].pending = object[s].pending
                /\ \/ /\ object[s].handle # None
                      /\ object'[s].conv = object[s].handle /\ object'[s].handle = object[s].handle
                      /\ UNCHANGED handles
                   \/ /\ object[s].handle = None
                      /\ object'[s].conv = conversations + 1 /\ object'[s].handle = None
                      /\ conversations' = conversations + 1 /\ UNCHANGED <<stored, cleared>>
                   \/ /\ object[s].handle # None
                      /\ object'[s].conv = conversations + 1 /\ object'[s].handle = None
                      /\ conversations' = conversations + 1 /\ Persist(s, None) /\ Forgets(s)
  <1>1. PICK s : s = IF JobAt("launching") THEN job.candidate ELSE job.who
    OBVIOUS
  <1>2. s \in Objects
    BY <1>1 DEF Arrives, Accounts, JobFits, JobStarts, JobRejoins, Stage, Starting, Rejoining, JobAt
  <1>3. object[s] \in SessionObject /\ object \in ObjType /\ DirectoryTypeOK
    BY <1>2, JobParts DEF Accounts
  <1>4. PICK rejected \in BOOLEAN, anew \in BOOLEAN :
          /\ anew <=> rejected \/ object[s].handle = None
          /\ rejected => runtime = "claude_sdk" /\ object[s].handle # None
          /\ anew => conversations < MaxConversations
          /\ conversations' = IF anew THEN conversations + 1 ELSE conversations
          /\ object' = [object EXCEPT
                 ![s].state = "connected", ![s].live = TRUE,
                 ![s].conv = IF anew THEN conversations + 1 ELSE object[s].handle,
                 ![s].handle = IF rejected THEN None ELSE object[s].handle]
          /\ IF rejected THEN Persist(s, None) /\ Forgets(s) ELSE UNCHANGED <<stored, cleared>>
    BY <1>1 DEF Arrives
  <1>5. PICK c, h : /\ c = IF anew THEN conversations + 1 ELSE object[s].handle
                    /\ h = IF rejected THEN None ELSE object[s].handle
    OBVIOUS
  <1>6. c \in 0..MaxConversations /\ h \in 0..MaxConversations /\ conversations' \in 0..MaxConversations
    BY <1>3, <1>4, <1>5, DirectoryBounds DEF DirectoryTypeOK, SessionObject, None
  <1>7. object' = [object EXCEPT ![s].state = "connected", ![s].live = TRUE, ![s].conv = c, ![s].handle = h]
    BY <1>4, <1>5
  <1>8. PICK e : e = [object[s] EXCEPT !.state = "connected", !.live = TRUE, !.conv = c, !.handle = h]
    OBVIOUS
  <1>9. /\ e \in SessionObject /\ SameFate(object[s], e) /\ e.state = "connected"
        /\ e.conv = c /\ e.handle = h /\ e.pending = object[s].pending
    BY <1>3, <1>6, <1>8 DEF SessionObject, SameFate
  <1>10. object' = [object EXCEPT ![s] = e]
    BY <1>7, <1>8
  <1>11. object' \in ObjType /\ object'[s] = e /\ Elsewhere(s)
    <2>1. /\ object' \in ObjType /\ object'[s] = e
          /\ \A t \in Objects \ {s} : object'[t] = object[t]
      BY <1>2, <1>3, <1>9, <1>10 DEF ObjType
    <2> QED BY <2>1, Same DEF Elsewhere
  <1>12. stored' \in [Labels -> 0..MaxConversations]
    BY <1>2, <1>3, <1>4, PartsStay DEF DirectoryTypeOK
  <1>13. cleared' \subseteq 1..MaxConversations
    BY <1>2, <1>3, <1>4, PartsStay DEF Forgets, DirectoryTypeOK, Persistable, SessionObject
  <1>14. HandlesOK'
    BY <1>6, <1>12, <1>13 DEF HandlesOK
  <1>15. job' \in JobType
    BY <1>3 DEF Arrives, DirectoryTypeOK, JobType, JobStages
  <1>16. DirectoryTypeOK'
    BY <1>3, <1>11, <1>14, <1>15, PartsStay, TypeParts, TypePartsNext DEF Arrives, Smooth
  <1>17. ~object[s].retired
    BY <1>1 DEF Arrives
  <1> QED BY <1>1, <1>2, <1>4, <1>5, <1>9, <1>11, <1>16, <1>17 DEF handles

\* A launch fails: its candidate, retired, is what the label owes.
LEMMA LaunchFailsDoes ==
    ASSUME Accounts, LaunchFails
    PROVE  /\ DirectoryTypeOK'
           /\ \E s \in Objects :
                /\ s = job.candidate /\ Elsewhere(s)
                /\ SameTalk(object[s], object'[s]) /\ object'[s].state = object[s].state
                /\ object'[s].retired /\ object'[s].inhibited
  <1>1. PICK s, l : s = job.candidate /\ l = job.label
    OBVIOUS
  <1>2. s \in Objects /\ l \in Labels
    BY <1>1, JobParts DEF LaunchFails, Accounts, JobFits, JobStarts, Stage, Starting
  <1>3. object[s] \in SessionObject /\ object \in ObjType /\ DirectoryTypeOK
    BY <1>2, JobParts DEF Accounts
  <1>4. PICK g : g = NewEpoch(l, object)
    OBVIOUS
  <1>5. g \in ObjType /\ Alike(object, g)
    BY <1>2, <1>3, <1>4, EpochKeeps
  <1>6. PICK live \in BOOLEAN :
          object' = [g EXCEPT ![s].live = live, ![s].retired = TRUE, ![s].inhibited = TRUE]
    BY <1>1, <1>3, <1>4 DEF LaunchFails, SessionObject
  <1>7. PICK e : e = [g[s] EXCEPT !.live = live, !.retired = TRUE, !.inhibited = TRUE]
    OBVIOUS
  <1>8. e \in SessionObject /\ SameTalk(g[s], e) /\ e.state = g[s].state /\ e.retired /\ e.inhibited
    BY <1>2, <1>5, <1>7 DEF ObjType, SessionObject, SameTalk
  <1>9. object' = [g EXCEPT ![s] = e]
    BY <1>6, <1>7
  <1>10. object' \in ObjType /\ object'[s] = e /\ \A t \in Objects \ {s} : object'[t] = g[t]
    BY <1>2, <1>5, <1>8, <1>9 DEF ObjType
  <1>11. Elsewhere(s)
    BY <1>5, <1>10 DEF Elsewhere, Alike
  <1>12. SameTalk(object[s], object'[s]) /\ object'[s].state = object[s].state
    BY <1>2, <1>5, <1>8, <1>10 DEF Alike, SameButBound, SameTalk, SameState
  <1>13. job' \in JobType
    BY <1>3 DEF LaunchFails, DirectoryTypeOK, JobType, JobStages
  <1>14. MapsOK'
    BY <1>1, <1>2, <1>3 DEF LaunchFails, DirectoryTypeOK, MapsOK
  <1>15. UNCHANGED handles /\ UNCHANGED config /\ (Smooth \/ Mishap)
    BY DEF LaunchFails
  <1>16. DirectoryTypeOK'
    BY <1>3, <1>10, <1>13, <1>14, <1>15, PartsStay, TypeParts, TypePartsNext
  <1> QED BY <1>1, <1>2, <1>8, <1>10, <1>11, <1>12, <1>16

\* What a label owes is about to be settled.
LEMMA SettlingDoes ==
    ASSUME DirectoryTypeOK, NEW d \in Objects,
           object' = [object EXCEPT ![d].retired = TRUE, ![d].inhibited = TRUE]
    PROVE  /\ object' \in ObjType /\ Elsewhere(d)
           /\ SameTalk(object[d], object'[d]) /\ SameState(object[d], object'[d])
           /\ object'[d].retired /\ object'[d].inhibited
  <1>1. object[d] \in SessionObject /\ object \in ObjType
    BY JobParts
  <1>2. object' \in ObjType /\ Elsewhere(d)
    BY <1>1, Same DEF ObjType, SessionObject, Elsewhere
  <1>3. /\ SameTalk(object[d], object'[d]) /\ SameState(object[d], object'[d])
        /\ object'[d].retired /\ object'[d].inhibited
    BY <1>1 DEF ObjType, SessionObject, SameTalk, SameState
  <1> QED BY <1>2, <1>3

\* It could not be settled: the process may still be there.
LEMMA SettleFailsDoes ==
    ASSUME Accounts, SettleFails
    PROVE  /\ DirectoryTypeOK'
           /\ \E d \in Objects :
                /\ d = debt[job.label] /\ Elsewhere(d)
                /\ SameTalk(object[d], object'[d]) /\ SameFate(object[d], object'[d])
                /\ object'[d].state \in {object[d].state, "down"}
                /\ object'[d].live => object[d].live
  <1>1. PICK d : d = debt[job.label]
    OBVIOUS
  <1>2. d \in Objects
    BY <1>1, JobParts DEF SettleFails, Accounts, JobFits, JobSettles, Stage
  <1>3. object[d] \in SessionObject /\ object \in ObjType /\ DirectoryTypeOK
    BY <1>2, JobParts DEF Accounts
  <1>4. PICK live \in BOOLEAN, st \in {object[d].state, "down"} :
          /\ live => object[d].live
          /\ st = Down(object[d].state)
          /\ object' = [object EXCEPT ![d].live = live, ![d].state = st]
    <2>1. PICK live \in BOOLEAN :
            /\ live => object[d].live
            /\ object' = [object EXCEPT ![d].live = live, ![d].state = Down(@)]
      BY <1>1 DEF SettleFails
    <2>2. PICK st : st = Down(object[d].state)
      OBVIOUS
    <2>3. object' = [object EXCEPT ![d].live = live, ![d].state = st]
      BY <1>2, <1>3, <2>1, <2>2 DEF ObjType, SessionObject
    <2>4. st \in {object[d].state, "down"}
      BY <2>2 DEF Down
    <2> QED BY <2>1, <2>2, <2>3, <2>4
  <1>5. st \in {object[d].state, "down"}
    BY <1>4
  <1>6. object' \in ObjType /\ Elsewhere(d)
    BY <1>2, <1>3, <1>4, <1>5, Same DEF ObjType, SessionObject, Elsewhere
  <1>7. /\ SameTalk(object[d], object'[d]) /\ SameFate(object[d], object'[d])
        /\ object'[d].state \in {object[d].state, "down"}
        /\ object'[d].live => object[d].live
    BY <1>2, <1>3, <1>4, <1>5 DEF ObjType, SessionObject, SameTalk, SameFate
  <1>8. DirectoryTypeOK'
    BY <1>3, <1>6, PartsStay, TypeParts, TypePartsNext, DirectoryBounds DEF SettleFails
  <1> QED BY <1>1, <1>2, <1>6, <1>7, <1>8

\* Recovery of the session at a label is inhibited, and a candidate prepared if need be.
LEMMA QuiescesDoes ==
    ASSUME DirectoryTypeOK, NEW l \in Labels, registered[l] # Nobody,
           NEW kind \in JobKinds, NEW c \in Objects \cup {Nobody}, NEW todo \in SUBSET Labels,
           c # registered[l], Quiesces(kind, l, c, todo)
    PROVE  /\ DirectoryTypeOK'
           /\ \E w \in Objects :
                /\ w = registered[l]
                /\ SameTalk(object[w], object'[w]) /\ SameState(object[w], object'[w])
                /\ object'[w].retired = object[w].retired /\ object'[w].inhibited
                /\ \A t \in Objects \ {w, c} : SameButBound(object[t], object'[t])
           /\ c # Nobody => SameButBound(Unused, object'[c])
  <1>1. PICK w : w = registered[l]
    OBVIOUS
  <1>2. w \in Objects /\ object[w] \in SessionObject /\ wanted \in Classes
    BY <1>1, JobParts DEF DirectoryTypeOK
  <1>3. PICK e, u : e = [object[w] EXCEPT !.inhibited = TRUE] /\ u = [Unused EXCEPT !.class = wanted]
    OBVIOUS
  <1>4. e \in SessionObject /\ u \in SessionObject
    BY <1>2, <1>3, DirectoryBounds DEF SessionObject, Unused
  <1>5. object' = [t \in Objects |-> IF t = w THEN e ELSE IF t = c THEN u ELSE object[t]]
    BY <1>1, <1>3 DEF Quiesces
  <1>6. object' \in ObjType
    BY <1>4, <1>5, JobParts DEF ObjType
  <1>7. object'[w] = e /\ \A t \in Objects \ {w, c} : object'[t] = object[t]
    BY <1>2, <1>5
  <1>8. c # Nobody => object'[c] = u
    BY <1>1, <1>5
  <1>9. SameButBound(Unused, u)
    BY <1>3 DEF Unused, SameTalk, SameState, SameFate, SameButBound
  <1>10. /\ SameTalk(object[w], e) /\ SameState(object[w], e)
         /\ e.retired = object[w].retired /\ e.inhibited
    BY <1>2, <1>3 DEF SessionObject, SameTalk, SameState
  <1>11. job' \in JobType
    BY <1>1, <1>2 DEF Quiesces, JobType, JobStages
  <1>12. DirectoryTypeOK'
    BY <1>6, <1>11, PartsStay, TypeParts, TypePartsNext DEF Quiesces, Smooth
  <1> QED BY <1>1, <1>2, <1>7, <1>8, <1>9, <1>10, <1>12, Same

\* One session, torn down, has stopped, under a new epoch.
LEMMA DownDoes ==
    ASSUME NEW f \in ObjType, NEW s \in Objects, NEW l \in Labels, NEW g,
           g = [NewEpoch(l, [f EXCEPT ![s].state = "down", ![s].live = FALSE]) EXCEPT ![s].bound = l]
    PROVE  /\ g \in ObjType /\ \A t \in Objects \ {s} : SameButBound(f[t], g[t])
           /\ SameTalk(f[s], g[s]) /\ SameFate(f[s], g[s])
           /\ g[s].state = "down" /\ ~g[s].live
  <1>1. PICK d : d = [f EXCEPT ![s].state = "down", ![s].live = FALSE]
    OBVIOUS
  <1>2. d \in ObjType /\ \A t \in Objects \ {s} : d[t] = f[t]
    BY <1>1 DEF ObjType, SessionObject
  <1>3. SameTalk(f[s], d[s]) /\ SameFate(f[s], d[s]) /\ d[s].state = "down" /\ ~d[s].live
    BY <1>1 DEF ObjType, SessionObject, SameTalk, SameFate
  <1>4. g \in ObjType /\ Alike(d, g)
    BY <1>1, <1>2, RebindingKeeps
  <1>5. SameButBound(d[s], g[s]) /\ \A t \in Objects \ {s} : SameButBound(f[t], g[t])
    BY <1>2, <1>4 DEF Alike
  <1> QED BY <1>3, <1>4, <1>5 DEF SameTalk, SameState, SameFate, SameButBound

\* The session's conversation is left behind before its process is gone.
Leaver ==
    \/ job.kind = "fresh"
    \/ job.kind = "recover" /\ rebuild
    \/ job.kind = "replace" /\ ~job.outdated

\* Recovery has stopped: the session is configured for what comes, and goes down.
LEMMA QuiesceEndsDoes ==
    ASSUME Accounts, QuiesceEnds
    PROVE  /\ DirectoryTypeOK'
           /\ \E s \in Objects :
                /\ s = job.who /\ Elsewhere(s)
                /\ object'[s].conv = object[s].conv /\ object'[s].live = object[s].live
                /\ object'[s].inhibited = object[s].inhibited
                /\ object[s].retired \/ job.kind \in {"stop", "bounce", "delete"} => object'[s].retired
                /\ object'[s].state \in {object[s].state, "down"}
                /\ job' # NoJob => object'[s].state = Down(object[s].state)
                /\ object'[s].handle = IF Leaver THEN None ELSE object[s].handle
                /\ object'[s].pending \in {None, object[s].pending}
           /\ IF Leaver THEN Disowned(job.label) /\ Leaves(job.label)
              ELSE UNCHANGED <<owner, stored, cleared>>
  <1>1. PICK s, l, st : s = job.who /\ l = job.label /\ st = Down(object[s].state)
    OBVIOUS
  <1>2. s \in Objects /\ l \in Labels
    BY <1>1, JobParts DEF QuiesceEnds, Accounts, JobFits, JobTearsDown, Stage, TearingDown, JobAt
  <1>3. object[s] \in SessionObject /\ object \in ObjType /\ DirectoryTypeOK
    BY <1>2, JobParts DEF Accounts
  <1>4. st \in {object[s].state, "down"}
    BY <1>1 DEF Down
  <1>5. PICK down : down = [object EXCEPT ![s].state = st]
    OBVIOUS
  <1>6. down = [object EXCEPT ![s].state = Down(@)]
    BY <1>1, <1>2, <1>3, <1>5 DEF ObjType, SessionObject
  <1>7. /\ down \in ObjType /\ \A t \in Objects \ {s} : down[t] = object[t]
        /\ SameTalk(object[s], down[s]) /\ SameFate(object[s], down[s])
        /\ down[s].live = object[s].live /\ down[s].state = st
    BY <1>2, <1>3, <1>4, <1>5 DEF ObjType, SessionObject, SameTalk, SameFate
  <1>8. PICK retired : retired = [down EXCEPT ![s].retired = TRUE]
    OBVIOUS
  <1>9. /\ retired \in ObjType /\ \A t \in Objects \ {s} : retired[t] = object[t]
        /\ SameTalk(object[s], retired[s]) /\ retired[s].inhibited = object[s].inhibited
        /\ retired[s].live = object[s].live /\ retired[s].state = st /\ retired[s].retired
    <2>1. down[s] \in SessionObject
      BY <1>2, <1>7 DEF ObjType
    <2>2. PICK o : o = [down[s] EXCEPT !.retired = TRUE] /\ retired = [down EXCEPT ![s] = o]
      BY <1>8
    <2>3. /\ o \in SessionObject /\ SameTalk(down[s], o) /\ o.inhibited = down[s].inhibited
          /\ o.live = down[s].live /\ o.state = down[s].state /\ o.retired
      BY <2>1, <2>2 DEF SessionObject, SameTalk
    <2>4. retired \in ObjType /\ retired[s] = o /\ \A t \in Objects \ {s} : retired[t] = down[t]
      BY <1>2, <1>7, <2>2, <2>3 DEF ObjType
    <2> QED BY <1>7, <2>3, <2>4 DEF SameTalk, SameFate
  <1> DEFINE
    Said(g) ==
        /\ g \in ObjType /\ \A t \in Objects \ {s} : SameButBound(object[t], g[t])
        /\ g[s].conv = object[s].conv /\ g[s].live = object[s].live
        /\ g[s].inhibited = object[s].inhibited
        /\ object[s].retired \/ job.kind \in {"stop", "bounce", "delete"} => g[s].retired
        /\ g[s].state \in {object[s].state, "down"}
        /\ job' # NoJob => g[s].state = st
        /\ g[s].handle = IF Leaver THEN None ELSE object[s].handle
        /\ g[s].pending \in {None, object[s].pending}
  <1>10. ASSUME NEW f \in {down, retired}
         PROVE  /\ NewEpoch(l, f) \in ObjType
                /\ \A t \in Objects \ {s} : SameButBound(object[t], NewEpoch(l, f)[t])
                /\ SameTalk(object[s], NewEpoch(l, f)[s])
                /\ NewEpoch(l, f)[s].inhibited = object[s].inhibited
                /\ object[s].retired => NewEpoch(l, f)[s].retired
                /\ NewEpoch(l, f)[s].live = object[s].live
                /\ NewEpoch(l, f)[s].state = st
    <2>1. f \in ObjType
      BY <1>7, <1>9
    <2>2. NewEpoch(l, f) \in ObjType /\ Alike(f, NewEpoch(l, f))
      BY <1>2, <2>1, EpochKeeps
    <2>3. SameButBound(f[s], NewEpoch(l, f)[s]) /\ \A t \in Objects \ {s} : SameButBound(f[t], NewEpoch(l, f)[t])
      BY <1>2, <2>2 DEF Alike
    <2>4. \A t \in Objects \ {s} : f[t] = object[t]
      BY <1>7, <1>9
    <2>5. /\ SameTalk(object[s], f[s]) /\ f[s].inhibited = object[s].inhibited
          /\ object[s].retired => f[s].retired
          /\ f[s].live = object[s].live /\ f[s].state = st
      BY <1>7, <1>9 DEF SameFate
    <2>6. \A t \in Objects \ {s} : SameButBound(object[t], NewEpoch(l, f)[t])
      BY <2>3, <2>4
    <2>7. /\ SameTalk(object[s], NewEpoch(l, f)[s])
          /\ NewEpoch(l, f)[s].inhibited = object[s].inhibited
          /\ object[s].retired => NewEpoch(l, f)[s].retired
          /\ NewEpoch(l, f)[s].live = object[s].live
          /\ NewEpoch(l, f)[s].state = st
      BY <2>3, <2>5 DEF SameTalk, SameState, SameFate, SameButBound
    <2> QED BY <2>2, <2>6, <2>7
  <1>11. ASSUME Leaver, NEW f \in {down, retired}, NEW g, NEW h, g = NewEpoch(l, f),
                \/ h = [g EXCEPT ![s].handle = None]
                \/ h = [g EXCEPT ![s].handle = None, ![s].pending = None]
         PROVE  Said(h)
    <2>1. /\ g \in ObjType
          /\ \A t \in Objects \ {s} : SameButBound(object[t], g[t])
          /\ SameTalk(object[s], g[s])
          /\ g[s].inhibited = object[s].inhibited
          /\ object[s].retired => g[s].retired
          /\ g[s].live = object[s].live
          /\ g[s].state = st
      BY <1>10, <1>11
    <2>2. /\ h \in ObjType /\ \A t \in Objects \ {s} : h[t] = g[t]
          /\ h[s].conv = g[s].conv /\ h[s].live = g[s].live /\ h[s].inhibited = g[s].inhibited
          /\ h[s].retired = g[s].retired /\ h[s].state = g[s].state /\ h[s].handle = None
          /\ h[s].pending \in {None, g[s].pending}
      <3>1. None \in 0..MaxConversations
        BY <1>3, PartsStay
      <3>2. g[s] \in SessionObject
        BY <1>2, <2>1 DEF ObjType
      <3>3. PICK o : /\ \/ o = [g[s] EXCEPT !.handle = None]
                        \/ o = [g[s] EXCEPT !.handle = None, !.pending = None]
                     /\ h = [g EXCEPT ![s] = o]
        BY <1>11
      <3>4. /\ o \in SessionObject
            /\ o.conv = g[s].conv /\ o.live = g[s].live /\ o.inhibited = g[s].inhibited
            /\ o.retired = g[s].retired /\ o.state = g[s].state /\ o.handle = None
            /\ o.pending \in {None, g[s].pending}
        BY <3>1, <3>2, <3>3 DEF SessionObject
      <3>5. h \in ObjType /\ h[s] = o /\ \A t \in Objects \ {s} : h[t] = g[t]
        BY <1>2, <2>1, <3>3, <3>4 DEF ObjType
      <3> QED BY <3>4, <3>5
    <2> QED BY <1>4, <1>11, <2>1, <2>2 DEF SameTalk, Leaver
  <1>12. \A t \in Objects \ {s} : SameButBound(object[t], object[t])
    BY Same
  <1>13. /\ Said(object')
         /\ IF Leaver THEN Disowned(l) /\ Leaves(l) ELSE UNCHANGED <<owner, stored, cleared>>
    <2>1. CASE job.kind = "wake"
      <3>1. ~Leaver /\ object' = down /\ UNCHANGED <<owner, stored, cleared>>
        BY <1>1, <1>6, <2>1 DEF QuiesceEnds, Leaver
      <3> QED BY <1>4, <1>7, <1>12, <2>1, <3>1 DEF SameTalk, SameFate
    <2>2. CASE job.kind = "fresh"
      <3>1. /\ Leaver /\ Disowned(l) /\ Leaves(l)
            /\ object' = [NewEpoch(l, down) EXCEPT ![s].handle = None]
        BY <1>1, <1>6, <2>2 DEF QuiesceEnds, Leaver
      <3> HIDE DEF Said
      <3>2. Said(object')
        BY <1>11, <3>1
      <3> QED BY <3>1, <3>2
    <2>3. CASE job.kind = "recover" /\ rebuild
      <3>1. /\ Leaver /\ Disowned(l) /\ Leaves(l)
            /\ object' = [NewEpoch(l, down) EXCEPT ![s].handle = None, ![s].pending = None]
        BY <1>1, <1>6, <2>3 DEF QuiesceEnds, Leaver, Blank
      <3> HIDE DEF Said
      <3>2. Said(object')
        BY <1>11, <3>1
      <3> QED BY <3>1, <3>2
    <2>4. CASE job.kind = "replace" /\ ~job.outdated
      <3>1. /\ Leaver /\ Disowned(l) /\ Leaves(l)
            /\ object' = [NewEpoch(l, retired) EXCEPT ![s].handle = None, ![s].pending = None]
        BY <1>1, <1>6, <1>8, <2>4 DEF QuiesceEnds, Leaver, Blank
      <3> HIDE DEF Said
      <3>2. Said(object')
        BY <1>11, <3>1
      <3> QED BY <3>1, <3>2
    <2>5. CASE job.kind = "replace" /\ job.outdated
      <3>1. /\ ~Leaver /\ UNCHANGED <<owner, stored, cleared>> /\ job' = NoJob
            /\ object' = [object EXCEPT ![s].retired = TRUE]
        BY <1>1, <2>5 DEF QuiesceEnds, Leaver
      <3>2. /\ object' \in ObjType /\ \A t \in Objects \ {s} : object'[t] = object[t]
            /\ SameTalk(object[s], object'[s]) /\ SameState(object[s], object'[s])
            /\ object'[s].retired /\ object'[s].inhibited = object[s].inhibited
        BY <1>2, <1>3, <3>1 DEF ObjType, SessionObject, SameTalk, SameState
      <3> QED BY <1>12, <2>5, <3>1, <3>2 DEF SameTalk, SameState
    <2>6. CASE job.kind \in {"stop", "bounce", "delete"} \/ (job.kind = "recover" /\ ~rebuild)
      <3>1. ~Leaver /\ object' = retired /\ UNCHANGED <<owner, stored, cleared>>
        BY <1>1, <1>6, <1>8, <2>6 DEF QuiesceEnds, Leaver
      <3> QED BY <1>4, <1>9, <1>12, <3>1 DEF SameTalk
    <2>7. job.kind \in {"wake", "fresh", "recover", "replace", "stop", "bounce", "delete"}
      BY DEF QuiesceEnds, Accounts, JobFits, JobTearsDown, Stage, TearingDown, JobAt
    <2> QED BY <2>1, <2>2, <2>3, <2>4, <2>5, <2>6, <2>7
  <1>14. owner' \in [Labels -> Objects \cup {Nobody}] /\ stored' \in [Labels -> 0..MaxConversations]
    BY <1>2, <1>3, <1>13, PartsStay DEF DirectoryTypeOK, Disowned, Leaves
  <1>15. cleared' \subseteq 1..MaxConversations
    <2>1. CASE Leaver
      <3>1. registered[l] \in Objects
        BY <1>1, <1>2 DEF QuiesceEnds, Accounts, JobFits, JobTearsDown, Stage, TearingDown, JobAt
      <3>2. LeftBehind(l, registered[l]) \subseteq 1..MaxConversations
        BY <1>2, <1>3, <3>1, PartsStay
      <3> QED BY <1>3, <1>13, <2>1, <3>2 DEF Leaves, DirectoryTypeOK
    <2>2. CASE ~Leaver
      BY <1>3, <1>13, <2>2 DEF DirectoryTypeOK
    <2> QED BY <2>1, <2>2
  <1>16. HandlesOK' /\ MapsOK'
    BY <1>3, <1>14, <1>15 DEF QuiesceEnds, HandlesOK, MapsOK, DirectoryTypeOK
  <1>17. job' \in JobType
    BY <1>3, DirectoryBounds DEF QuiesceEnds, DirectoryTypeOK, JobType, JobStages
  <1>18. DirectoryTypeOK'
    BY <1>3, <1>13, <1>16, <1>17, PartsStay, TypeParts, TypePartsNext DEF QuiesceEnds, Smooth
  <1>19. Elsewhere(s)
    BY <1>13 DEF Elsewhere
  <1> QED BY <1>1, <1>2, <1>13, <1>18, <1>19

\* The process of a retained session is gone: it may connect again.
LEMMA DropRetainedDoes ==
    ASSUME Accounts, DropEnds, job.kind \in {"wake", "fresh", "recover"}, job.kind = "recover" => rebuild
    PROVE  /\ DirectoryTypeOK'
           /\ \E s \in Objects :
                /\ s = job.who /\ Elsewhere(s)
                /\ SameTalk(object[s], object'[s]) /\ SameFate(object[s], object'[s])
                /\ object'[s].state = "down" /\ ~object'[s].live
           /\ owner' = [owner EXCEPT ![job.label] = job.who]
           /\ job' = [job EXCEPT !.at = "reviving"]
           /\ UNCHANGED <<registered, debt>> /\ UNCHANGED handles
  <1>1. PICK s, l : s = job.who /\ l = job.label
    OBVIOUS
  <1>2. s \in Objects /\ l \in Labels
    BY <1>1, JobParts DEF DropEnds, Accounts, JobFits, JobTearsDown, Stage, TearingDown, JobAt
  <1>3. object[s] \in SessionObject /\ object \in ObjType /\ DirectoryTypeOK
    BY <1>2, JobParts DEF Accounts
  <1>4. /\ Rebinds(l, s, [object EXCEPT ![s].state = "down", ![s].live = FALSE])
        /\ job' = [job EXCEPT !.at = "reviving"]
        /\ UNCHANGED <<registered, stored, cleared>> /\ UNCHANGED <<config, debt, conversations, mishaps>>
    BY <1>1 DEF DropEnds
  <1>5. /\ owner' = [owner EXCEPT ![l] = s]
        /\ object' = [NewEpoch(l, [object EXCEPT ![s].state = "down", ![s].live = FALSE]) EXCEPT ![s].bound = l]
    BY <1>4 DEF Rebinds
  <1>6. /\ object' \in ObjType /\ \A t \in Objects \ {s} : SameButBound(object[t], object'[t])
        /\ SameTalk(object[s], object'[s]) /\ SameFate(object[s], object'[s])
        /\ object'[s].state = "down" /\ ~object'[s].live
    BY <1>2, <1>3, <1>5, DownDoes
  <1>7. MapsOK'
    BY <1>2, <1>3, <1>4, <1>5 DEF MapsOK, DirectoryTypeOK
  <1>8. job' \in JobType
    BY <1>3, <1>4 DEF DirectoryTypeOK, JobType, JobStages
  <1>9. UNCHANGED handles /\ UNCHANGED config /\ (Smooth \/ Mishap)
    BY <1>4 DEF handles, Smooth
  <1>10. DirectoryTypeOK'
    BY <1>3, <1>6, <1>7, <1>8, <1>9, PartsStay, TypeParts, TypePartsNext
  <1> QED BY <1>1, <1>2, <1>4, <1>5, <1>6, <1>9, <1>10 DEF Elsewhere

\* The process of a replaced session is gone: its candidate connects.
LEMMA DropReplacedDoes ==
    ASSUME Accounts, DropEnds, job.kind = "replace"
    PROVE  /\ DirectoryTypeOK'
           /\ job.who \in Objects /\ SameButBound(Unused, object'[job.who])
           /\ Elsewhere(job.who) /\ job.candidate \in Objects
           /\ registered' = [registered EXCEPT ![job.label] = Nobody]
           /\ owner' = [owner EXCEPT ![job.label] = job.candidate]
           /\ job'.at = "launching" /\ job'.kind = "start" /\ job'.label = job.label
           /\ job'.who = Nobody /\ job'.candidate = job.candidate
           /\ UNCHANGED debt /\ UNCHANGED handles
  <1>1. PICK s, l, c : s = job.who /\ l = job.label /\ c = job.candidate
    OBVIOUS
  <1>2. s \in Objects /\ l \in Labels /\ c \in Objects
    BY <1>1, JobParts DEF DropEnds, Accounts, JobFits, JobTearsDown, Stage, TearingDown, JobAt
  <1>3. object[s] \in SessionObject /\ object \in ObjType /\ DirectoryTypeOK
    BY <1>2, JobParts DEF Accounts
  <1>4. /\ registered' = [registered EXCEPT ![l] = Nobody]
        /\ Launches(l, c, [object EXCEPT ![s] = Unused])
        /\ UNCHANGED <<stored, cleared>> /\ UNCHANGED <<config, debt, conversations, mishaps>>
    BY <1>1 DEF DropEnds
  <1>5. PICK gone : gone = [object EXCEPT ![s] = Unused]
    OBVIOUS
  <1>6. gone \in ObjType /\ gone[s] = Unused /\ \A t \in Objects \ {s} : gone[t] = object[t]
    <2>1. object \in ObjType /\ Unused \in SessionObject
      BY <1>3, DirectoryBounds
    <2> QED BY <1>2, <1>5, <2>1 DEF ObjType
  <1>7. /\ object' \in ObjType /\ Alike(gone, object')
        /\ owner' \in [Labels -> Objects \cup {Nobody}] /\ job' \in JobType
        /\ job'.at = "launching" /\ job'.kind = "start" /\ job'.label = l
        /\ job'.who = Nobody /\ job'.candidate = c
    BY <1>2, <1>3, <1>4, <1>5, <1>6, LaunchesDoes
  <1>8. SameButBound(Unused, object'[s]) /\ Elsewhere(s)
    BY <1>2, <1>6, <1>7 DEF Alike, Elsewhere
  <1>9. MapsOK'
    BY <1>2, <1>3, <1>4, <1>7 DEF MapsOK, DirectoryTypeOK, Nobody
  <1>10. UNCHANGED handles /\ UNCHANGED config /\ (Smooth \/ Mishap)
    BY <1>4 DEF handles, Smooth
  <1>11. DirectoryTypeOK'
    BY <1>3, <1>7, <1>9, <1>10, PartsStay, TypeParts, TypePartsNext
  <1>12. owner' = [owner EXCEPT ![l] = c]
    BY <1>4 DEF Launches
  <1> QED BY <1>1, <1>2, <1>4, <1>7, <1>8, <1>10, <1>11, <1>12

\* The watchdog's session is gone, and its conversation left behind: it pauses.
LEMMA DropPausesDoes ==
    ASSUME Accounts, DropEnds, job.kind = "recover", ~rebuild
    PROVE  /\ DirectoryTypeOK'
           /\ job.who \in Objects /\ SameButBound(Unused, object'[job.who])
           /\ Elsewhere(job.who)
           /\ registered' = [registered EXCEPT ![job.label] = Nobody]
           /\ Disowned(job.label) /\ Leaves(job.label)
           /\ job' = [NoJob EXCEPT !.kind = "start", !.at = "pausing", !.label = job.label]
           /\ UNCHANGED debt /\ UNCHANGED conversations
  <1>1. PICK s, l : s = job.who /\ l = job.label
    OBVIOUS
  <1>2. s \in Objects /\ l \in Labels /\ registered[l] = s
    BY <1>1, JobParts DEF DropEnds, Accounts, JobFits, JobTearsDown, Stage, TearingDown, JobAt
  <1>3. object[s] \in SessionObject /\ object \in ObjType /\ DirectoryTypeOK
    BY <1>2, JobParts DEF Accounts
  <1>4. /\ registered' = [registered EXCEPT ![l] = Nobody]
        /\ Disowned(l) /\ Leaves(l)
        /\ object' = NewEpoch(l, [object EXCEPT ![s] = Unused])
        /\ job' = [NoJob EXCEPT !.kind = "start", !.at = "pausing", !.label = l]
        /\ UNCHANGED <<config, debt, conversations, mishaps>>
    BY <1>1 DEF DropEnds
  <1>5. PICK gone : gone = [object EXCEPT ![s] = Unused]
    OBVIOUS
  <1>6. gone \in ObjType /\ gone[s] = Unused /\ \A t \in Objects \ {s} : gone[t] = object[t]
    <2>1. object \in ObjType /\ Unused \in SessionObject
      BY <1>3, DirectoryBounds
    <2> QED BY <1>2, <1>5, <2>1 DEF ObjType
  <1>7. object' \in ObjType /\ Alike(gone, object')
    BY <1>2, <1>4, <1>5, <1>6, EpochKeeps
  <1>8. SameButBound(Unused, object'[s]) /\ Elsewhere(s)
    BY <1>2, <1>6, <1>7 DEF Alike, Elsewhere
  <1>9. MapsOK'
    BY <1>2, <1>3, <1>4 DEF MapsOK, DirectoryTypeOK, Disowned, Nobody
  <1>10. LeftBehind(l, s) \subseteq 1..MaxConversations
    BY <1>2, <1>3, PartsStay
  <1>11. HandlesOK'
    BY <1>2, <1>3, <1>4, <1>10, PartsStay DEF HandlesOK, DirectoryTypeOK, Leaves
  <1>12. job' \in JobType
    BY <1>2, <1>4, DirectoryBounds DEF NoJob, JobType, JobStages, JobKinds
  <1>13. UNCHANGED config /\ (Smooth \/ Mishap)
    BY <1>4 DEF Smooth
  <1>14. DirectoryTypeOK'
    BY <1>3, <1>7, <1>9, <1>11, <1>12, <1>13, PartsStay, TypeParts, TypePartsNext
  <1> QED BY <1>1, <1>2, <1>4, <1>8, <1>14

\* One label is retired, and there are more.
LEMMA RetireOneDoes ==
    ASSUME Accounts, RetireEnds, job.todo \ {job.label} # {}
    PROVE  /\ DirectoryTypeOK'
           /\ \E s, n \in Objects, next \in job.todo \ {job.label} :
                /\ s = job.who /\ n = registered[next] /\ n # s
                /\ \A t \in Objects \ {s, n} : SameButBound(object[t], object'[t])
                /\ SameTalk(object[s], object'[s]) /\ SameFate(object[s], object'[s])
                /\ object'[s].state = "down" /\ ~object'[s].live
                /\ SameTalk(object[n], object'[n]) /\ SameState(object[n], object'[n])
                /\ object'[n].retired = object[n].retired /\ object'[n].inhibited
                /\ job' = [job EXCEPT !.at = "quiescing", !.label = next, !.who = n,
                                      !.todo = job.todo \ {job.label}]
           /\ Disowned(job.label) /\ stored' = [stored EXCEPT ![job.label] = None]
           /\ cleared' = cleared \cup LeftBehind(job.label, job.who)
           /\ UNCHANGED <<registered, debt, conversations>>
  <1>1. PICK s, l, todo : s = job.who /\ l = job.label /\ todo = job.todo \ {job.label}
    OBVIOUS
  <1>2. s \in Objects /\ l \in Labels /\ registered[l] = s /\ todo \subseteq Seated /\ todo \subseteq Labels
    BY <1>1, JobParts DEF RetireEnds, Accounts, JobFits, JobTearsDown, Stage, TearingDown, JobAt
  <1>3. object[s] \in SessionObject /\ object \in ObjType /\ DirectoryTypeOK
    BY <1>2, JobParts DEF Accounts
  <1>4. PICK next, n : next = (CHOOSE m \in todo : TRUE) /\ n = registered[next]
    OBVIOUS
  <1>5. next \in todo
    BY <1>1, <1>4
  <1>6. next \in Labels /\ next # l /\ n \in Objects /\ n # s
    BY <1>1, <1>2, <1>3, <1>4, <1>5, JobParts DEF Seated, Accounts, OneSeat
  <1>7. PICK down : down = NewEpoch(l, [object EXCEPT ![s].state = "down", ![s].live = FALSE])
    OBVIOUS
  <1>8. /\ down \in ObjType /\ \A t \in Objects \ {s} : SameButBound(object[t], down[t])
        /\ SameTalk(object[s], down[s]) /\ SameFate(object[s], down[s])
        /\ down[s].state = "down" /\ ~down[s].live
    <2>1. PICK d : d = [object EXCEPT ![s].state = "down", ![s].live = FALSE]
      OBVIOUS
    <2>2. /\ d \in ObjType /\ \A t \in Objects \ {s} : d[t] = object[t]
          /\ SameTalk(object[s], d[s]) /\ SameFate(object[s], d[s])
          /\ d[s].state = "down" /\ ~d[s].live
      BY <1>2, <1>3, <2>1 DEF ObjType, SessionObject, SameTalk, SameFate
    <2>3. down \in ObjType /\ Alike(d, down)
      BY <1>2, <1>7, <2>1, <2>2, EpochKeeps
    <2>4. SameButBound(d[s], down[s]) /\ \A t \in Objects \ {s} : SameButBound(object[t], down[t])
      BY <1>2, <2>2, <2>3 DEF Alike
    <2> QED BY <2>2, <2>3, <2>4 DEF SameTalk, SameState, SameFate, SameButBound
  <1>9. /\ Disowned(l) /\ cleared' = cleared \cup LeftBehind(l, s)
        /\ stored' = [stored EXCEPT ![l] = None]
        /\ object' = [down EXCEPT ![n].inhibited = TRUE]
        /\ job' = [job EXCEPT !.at = "quiescing", !.label = next, !.who = n, !.todo = todo]
        /\ UNCHANGED registered /\ UNCHANGED <<config, debt, conversations, mishaps>>
    BY <1>1, <1>4, <1>7 DEF RetireEnds
  <1>10. /\ object' \in ObjType /\ \A t \in Objects \ {n} : object'[t] = down[t]
         /\ SameTalk(down[n], object'[n]) /\ SameState(down[n], object'[n])
         /\ object'[n].retired = down[n].retired /\ object'[n].inhibited
    <2>1. down[n] \in SessionObject
      BY <1>6, <1>8 DEF ObjType
    <2>2. PICK o : o = [down[n] EXCEPT !.inhibited = TRUE] /\ object' = [down EXCEPT ![n] = o]
      BY <1>9
    <2>3. /\ o \in SessionObject /\ SameTalk(down[n], o) /\ SameState(down[n], o)
          /\ o.retired = down[n].retired /\ o.inhibited
      BY <2>1, <2>2 DEF SessionObject, SameTalk, SameState
    <2>4. object' \in ObjType /\ object'[n] = o /\ \A t \in Objects \ {n} : object'[t] = down[t]
      BY <1>6, <1>8, <2>2, <2>3 DEF ObjType
    <2> QED BY <2>3, <2>4
  <1>11. SameButBound(object[n], down[n])
    BY <1>6, <1>8
  <1>12. /\ SameTalk(object[n], object'[n]) /\ SameState(object[n], object'[n])
         /\ object'[n].retired = object[n].retired
    BY <1>10, <1>11 DEF SameTalk, SameState, SameFate, SameButBound
  <1>13. MapsOK'
    BY <1>2, <1>3, <1>9 DEF MapsOK, DirectoryTypeOK, Disowned, Nobody
  <1>14. LeftBehind(l, s) \subseteq 1..MaxConversations
    BY <1>2, <1>3, PartsStay
  <1>15. HandlesOK'
    BY <1>2, <1>3, <1>9, <1>14, PartsStay DEF HandlesOK, DirectoryTypeOK
  <1>16. job' \in JobType
    BY <1>2, <1>3, <1>6, <1>9 DEF DirectoryTypeOK, JobType, JobStages
  <1>17. UNCHANGED config /\ (Smooth \/ Mishap)
    BY <1>9 DEF Smooth
  <1>18. DirectoryTypeOK'
    BY <1>3, <1>10, <1>13, <1>15, <1>16, <1>17, PartsStay, TypeParts, TypePartsNext
  <1>19. \A t \in Objects \ {s, n} : SameButBound(object[t], object'[t])
    BY <1>8, <1>10
  <1>20. /\ SameTalk(object[s], object'[s]) /\ SameFate(object[s], object'[s])
         /\ object'[s].state = "down" /\ ~object'[s].live
    BY <1>2, <1>6, <1>8, <1>10
  <1>21. job' = [job EXCEPT !.at = "quiescing", !.label = next, !.who = n,
                            !.todo = job.todo \ {job.label}]
    BY <1>1, <1>9
  <1>22. n = registered[next] /\ next \in job.todo \ {job.label} /\ s = job.who
    BY <1>1, <1>4, <1>5
  <1>23. \E v, w \in Objects, x \in job.todo \ {job.label} :
            /\ v = job.who /\ w = registered[x] /\ w # v
            /\ \A t \in Objects \ {v, w} : SameButBound(object[t], object'[t])
            /\ SameTalk(object[v], object'[v]) /\ SameFate(object[v], object'[v])
            /\ object'[v].state = "down" /\ ~object'[v].live
            /\ SameTalk(object[w], object'[w]) /\ SameState(object[w], object'[w])
            /\ object'[w].retired = object[w].retired /\ object'[w].inhibited
            /\ job' = [job EXCEPT !.at = "quiescing", !.label = x, !.who = w,
                                  !.todo = job.todo \ {job.label}]
    BY <1>2, <1>6, <1>10, <1>12, <1>19, <1>20, <1>21, <1>22
  <1> QED BY <1>1, <1>9, <1>18, <1>23

\* The last label is retired, and the rows of those that were are empty.
LEMMA RetireLastDoes ==
    ASSUME Accounts, RetireEnds, job.todo \ {job.label} = {}
    PROVE  /\ DirectoryTypeOK'
           /\ \E s \in Objects :
                /\ s = job.who
                /\ \A t \in Objects \ {s} :
                     \/ SameButBound(Unused, object'[t])
                     \/ /\ SameButBound(object[t], object'[t])
                        /\ ~\E m \in Labels : registered[m] = t /\ registered'[m] = Nobody
                /\ SameButBound(Unused, object'[s])
           /\ Disowned(job.label)
           /\ stored' = IF job.kind = "delete" THEN [stored EXCEPT ![job.label] = None]
                        ELSE [m \in Labels |-> None]
           /\ registered' = IF job.kind = "delete" THEN [registered EXCEPT ![job.label] = Nobody]
                            ELSE [m \in Labels |-> Nobody]
           /\ cleared' = cleared \cup LeftBehind(job.label, job.who)
           /\ job' \in {NoJob, [NoJob EXCEPT !.kind = "start", !.at = "pausing"]}
           /\ job' # NoJob => job.kind = "bounce"
           /\ UNCHANGED <<debt, conversations>>
  <1>1. PICK s, l : s = job.who /\ l = job.label
    OBVIOUS
  <1>2. s \in Objects /\ l \in Labels /\ registered[l] = s
    BY <1>1, JobParts DEF RetireEnds, Accounts, JobFits, JobTearsDown, Stage, TearingDown, JobAt
  <1>3. object[s] \in SessionObject /\ object \in ObjType /\ DirectoryTypeOK
    BY <1>2, JobParts DEF Accounts
  <1>4. PICK down : down = NewEpoch(l, [object EXCEPT ![s].state = "down", ![s].live = FALSE])
    OBVIOUS
  <1>5. /\ down \in ObjType /\ \A t \in Objects \ {s} : SameButBound(object[t], down[t])
        /\ SameTalk(object[s], down[s]) /\ SameFate(object[s], down[s])
        /\ down[s].state = "down" /\ ~down[s].live
    <2>1. PICK d : d = [object EXCEPT ![s].state = "down", ![s].live = FALSE]
      OBVIOUS
    <2>2. /\ d \in ObjType /\ \A t \in Objects \ {s} : d[t] = object[t]
          /\ SameTalk(object[s], d[s]) /\ SameFate(object[s], d[s])
          /\ d[s].state = "down" /\ ~d[s].live
      BY <1>2, <1>3, <2>1 DEF ObjType, SessionObject, SameTalk, SameFate
    <2>3. down \in ObjType /\ Alike(d, down)
      BY <1>2, <1>4, <2>1, <2>2, EpochKeeps
    <2>4. SameButBound(d[s], down[s]) /\ \A t \in Objects \ {s} : SameButBound(object[t], down[t])
      BY <1>2, <2>2, <2>3 DEF Alike
    <2> QED BY <2>2, <2>3, <2>4 DEF SameTalk, SameState, SameFate, SameButBound
  <1>6. /\ Disowned(l) /\ cleared' = cleared \cup LeftBehind(l, s)
        /\ stored' = IF job.kind = "delete" THEN [stored EXCEPT ![l] = None] ELSE [m \in Labels |-> None]
        /\ registered' = IF job.kind = "delete" THEN [registered EXCEPT ![l] = Nobody]
                         ELSE [m \in Labels |-> Nobody]
        /\ object' = [t \in Objects |->
                            IF \E m \in Labels : registered[m] = t /\ registered'[m] = Nobody
                            THEN Unused ELSE down[t]]
        /\ job' = IF job.kind = "bounce" THEN [NoJob EXCEPT !.kind = "start", !.at = "pausing"] ELSE NoJob
        /\ UNCHANGED <<config, debt, conversations, mishaps>>
    BY <1>1, <1>4 DEF RetireEnds
  <1>7. registered'[l] = Nobody
    BY <1>2, <1>3, <1>6 DEF DirectoryTypeOK
  <1>8. /\ object'[s] = Unused
        /\ \A t \in Objects :
             \/ object'[t] = Unused
             \/ object'[t] = down[t] /\ ~\E m \in Labels : registered[m] = t /\ registered'[m] = Nobody
    BY <1>2, <1>6, <1>7
  <1>9. object' \in ObjType
    BY <1>5, <1>6, DirectoryBounds DEF ObjType
  <1>10. SameButBound(Unused, Unused)
    BY Same
  <1>11. MapsOK'
    BY <1>2, <1>3, <1>6 DEF MapsOK, DirectoryTypeOK, Disowned, Nobody
  <1>12. LeftBehind(l, s) \subseteq 1..MaxConversations
    BY <1>2, <1>3, PartsStay
  <1>13. HandlesOK'
    BY <1>2, <1>3, <1>6, <1>12, PartsStay DEF HandlesOK, DirectoryTypeOK
  <1>14. job' \in JobType
    BY <1>6, DirectoryBounds DEF NoJob, JobType, JobStages, JobKinds
  <1>15. UNCHANGED config /\ (Smooth \/ Mishap)
    BY <1>6 DEF Smooth
  <1>16. DirectoryTypeOK'
    BY <1>3, <1>9, <1>11, <1>13, <1>14, <1>15, PartsStay, TypeParts, TypePartsNext
  <1>17. \A t \in Objects \ {s} :
           \/ SameButBound(Unused, object'[t])
           \/ /\ SameButBound(object[t], object'[t])
              /\ ~\E m \in Labels : registered[m] = t /\ registered'[m] = Nobody
    BY <1>5, <1>8, <1>10
  <1> QED BY <1>1, <1>2, <1>6, <1>8, <1>10, <1>16, <1>17

\* The process could not be proved gone.
LEMMA DropFailsDoes ==
    ASSUME Accounts, DropFails
    PROVE  /\ DirectoryTypeOK'
           /\ \E s \in Objects :
                /\ s = job.who /\ Elsewhere(s)
                /\ SameTalk(object[s], object'[s]) /\ SameFate(object[s], object'[s])
                /\ object'[s].state = object[s].state
                /\ object'[s].live => object[s].live
  <1>1. PICK s : s = job.who
    OBVIOUS
  <1>2. s \in Objects
    BY <1>1, JobParts DEF DropFails, Accounts, JobFits, JobTearsDown, Stage, TearingDown, JobAt
  <1>3. object[s] \in SessionObject /\ object \in ObjType /\ DirectoryTypeOK
    BY <1>2, JobParts DEF Accounts
  <1>4. PICK live \in BOOLEAN : (live => object[s].live) /\ object' = [object EXCEPT ![s].live = live]
    BY <1>1 DEF DropFails
  <1>5. object' \in ObjType /\ Elsewhere(s)
    BY <1>2, <1>3, <1>4, Same DEF ObjType, SessionObject, Elsewhere
  <1>6. /\ SameTalk(object[s], object'[s]) /\ SameFate(object[s], object'[s])
        /\ object'[s].state = object[s].state
        /\ object'[s].live => object[s].live
    BY <1>2, <1>3, <1>4 DEF ObjType, SessionObject, SameTalk, SameFate
  <1>7. DirectoryTypeOK'
    BY <1>3, <1>5, PartsStay, TypeParts, TypePartsNext, DirectoryBounds DEF DropFails
  <1> QED BY <1>1, <1>2, <1>5, <1>6, <1>7

\* The retained session is up again.
LEMMA ReviveEndsDoes ==
    ASSUME Accounts, ReviveEnds
    PROVE  /\ DirectoryTypeOK'
           /\ \E s \in Objects :
                /\ s = job.who /\ Elsewhere(s)
                /\ SameTalk(object[s], object'[s]) /\ SameState(object[s], object'[s])
                /\ object'[s].retired = object[s].retired /\ ~object'[s].inhibited
  <1>1. PICK s : s = job.who
    OBVIOUS
  <1>2. s \in Objects
    BY <1>1, JobParts DEF ReviveEnds, Accounts, JobFits, JobRejoins, Stage, Rejoining, JobAt
  <1>3. object[s] \in SessionObject /\ object \in ObjType /\ DirectoryTypeOK
    BY <1>2, JobParts DEF Accounts
  <1>4. object' = [object EXCEPT ![s].inhibited = FALSE]
    BY <1>1 DEF ReviveEnds
  <1>5. object' \in ObjType /\ Elsewhere(s)
    BY <1>2, <1>3, <1>4, Same DEF ObjType, SessionObject, Elsewhere
  <1>6. /\ SameTalk(object[s], object'[s]) /\ SameState(object[s], object'[s])
        /\ object'[s].retired = object[s].retired /\ ~object'[s].inhibited
    BY <1>2, <1>3, <1>4 DEF ObjType, SessionObject, SameTalk, SameState
  <1>7. DirectoryTypeOK'
    BY <1>3, <1>5, PartsStay, TypeParts, TypePartsNext, DirectoryBounds DEF ReviveEnds, Smooth
  <1> QED BY <1>1, <1>2, <1>5, <1>6, <1>7

\* It is not: it is down, unless it had come up before.
LEMMA ReviveFailsDoes ==
    ASSUME Accounts, ReviveFails
    PROVE  /\ DirectoryTypeOK'
           /\ \E s \in Objects :
                /\ s = job.who /\ Elsewhere(s)
                /\ SameTalk(object[s], object'[s]) /\ SameFate(object[s], object'[s])
                /\ \/ SameState(object[s], object'[s]) /\ JobAt("rejoining")
                   \/ object'[s].state = "down" /\ JobAt("reviving")
  <1>1. PICK s : s = job.who
    OBVIOUS
  <1>2. s \in Objects
    BY <1>1, JobParts DEF ReviveFails, Accounts, JobFits, JobRejoins, Stage, Rejoining, JobAt
  <1>3. object[s] \in SessionObject /\ object \in ObjType /\ DirectoryTypeOK
    BY <1>2, JobParts DEF Accounts
  <1>4. /\ object' \in ObjType /\ Elsewhere(s)
        /\ SameTalk(object[s], object'[s]) /\ SameFate(object[s], object'[s])
        /\ \/ SameState(object[s], object'[s]) /\ JobAt("rejoining")
           \/ object'[s].state = "down" /\ JobAt("reviving")
    <2>1. CASE JobAt("rejoining")
      BY <1>3, <2>1, Same DEF ReviveFails, Elsewhere, SameTalk, SameState, SameFate
    <2>2. CASE ~JobAt("rejoining")
      <3>1. PICK live \in BOOLEAN : object' = [object EXCEPT ![s].state = "down", ![s].live = live]
        BY <1>1, <2>2 DEF ReviveFails
      <3>2. object' \in ObjType /\ Elsewhere(s)
        BY <1>2, <1>3, <3>1, Same DEF ObjType, SessionObject, Elsewhere
      <3>3. SameTalk(object[s], object'[s]) /\ SameFate(object[s], object'[s]) /\ object'[s].state = "down"
        BY <1>2, <1>3, <3>1 DEF ObjType, SessionObject, SameTalk, SameFate
      <3>4. JobAt("reviving")
        BY <2>2 DEF ReviveFails, JobAt
      <3> QED BY <3>2, <3>3, <3>4
    <2> QED BY <2>1, <2>2
  <1>5. DirectoryTypeOK'
    BY <1>3, <1>4, PartsStay, TypeParts, TypePartsNext, DirectoryBounds DEF ReviveFails, Smooth
  <1> QED BY <1>1, <1>2, <1>4, <1>5

-----------------------------------------------------------------------------
(* Every process stays accounted for.                                        *)

\* Steps that leave the maps and the job alone, ...
LEMMA AccountsStay ==
    ASSUME Accounts, DirectoryTypeOK', UNCHANGED <<registered, debt, job>>,
           \A s \in Objects : Active(object'[s]) =>
             Active(object[s]) \/ \E l \in Labels : registered[l] = s
    PROVE  Accounts'
  <1>1. JobIdle' /\ JobStarts' /\ JobSettles' /\ JobRejoins' /\ JobPauses'
    BY DEF Accounts, JobFits, JobIdle, JobStarts, JobSettles, JobRejoins, JobPauses, Stage
  <1>2. JobTearsDown'
    <2>1. job.candidate \in Objects => \A l \in Labels : registered[l] # job.candidate
      BY DirectoryBounds DEF Accounts, OneSeat
    <2>2. Stage(TearingDown) /\ job.kind = "replace" => job.candidate \in Objects
      BY JobParts DEF Accounts, JobFits, JobTearsDown
    <2> QED BY <2>1, <2>2 DEF Accounts, JobFits, JobTearsDown, Stage, Seated
  <1>3. SeatOrDebt' /\ OneSeat'
    BY DEF Accounts, SeatOrDebt, OneSeat
  <1>4. ActiveAccounted'
    BY DEF Accounts, ActiveAccounted, Accounted
  <1> QED BY <1>1, <1>2, <1>3, <1>4 DEF Accounts, JobFits

\* ... steps that end the job, ...
LEMMA AccountsFree ==
    ASSUME Accounts, DirectoryTypeOK', job' = NoJob,
           \A l \in Labels : registered'[l] = Nobody \/ debt'[l] = Nobody,
           \A k, l \in Labels : registered'[k] = registered'[l] => k = l \/ registered'[k] = Nobody,
           \A s \in Objects : Active(object'[s]) => \E l \in Labels : s \in {registered'[l], debt'[l]}
    PROVE  Accounts'
  <1>1. job'.at = "none" /\ job'.candidate = Nobody
    BY DEF NoJob
  <1>2. JobFits'
    BY <1>1 DEF JobFits, JobIdle, JobStarts, JobSettles, JobTearsDown, JobRejoins, JobPauses,
                Stage, Starting, TearingDown, Rejoining
  <1>3. SeatOrDebt' /\ OneSeat' /\ ActiveAccounted'
    BY <1>1 DEF SeatOrDebt, OneSeat, ActiveAccounted, Accounted
  <1> QED BY <1>2, <1>3 DEF Accounts

\* ... and leave the maps alone, ...
LEMMA AccountsLeft ==
    ASSUME Accounts, DirectoryTypeOK', job' = NoJob, UNCHANGED <<registered, debt>>,
           job.candidate # Nobody => ~Active(object[job.candidate]),
           \A s \in Objects : Active(object'[s]) =>
             Active(object[s]) \/ \E l \in Labels : registered[l] = s
    PROVE  Accounts'
  <1>1. \A l \in Labels : registered[l] = Nobody \/ debt[l] = Nobody
    BY DEF Accounts, SeatOrDebt
  <1>2. \A k, l \in Labels : registered[k] = registered[l] => k = l \/ registered[k] = Nobody
    BY DEF Accounts, OneSeat
  <1>3. \A s \in Objects : Active(object'[s]) => \E l \in Labels : s \in {registered[l], debt[l]}
    BY DirectoryBounds DEF Accounts, ActiveAccounted, Accounted
  <1> QED BY <1>1, <1>2, <1>3, AccountsFree

\* ... and steps after which a candidate connects.
LEMMA AccountsLaunched ==
    ASSUME Accounts, DirectoryTypeOK', NEW l \in Labels, NEW s \in Objects,
           job'.at = "launching", job'.kind = "start", job'.label = l, job'.who = Nobody,
           job'.candidate = s, registered'[l] = Nobody, debt'[l] = Nobody,
           \A k \in Labels : registered'[k] \in {registered[k], Nobody} /\ registered[k] # s,
           \A k \in Labels : debt'[k] \in {debt[k], Nobody},
           \A t \in Objects : Active(object'[t]) =>
             t = s \/ \E k \in Labels : t \in {registered'[k], debt'[k]}
    PROVE  Accounts'
  <1>1. JobFits'
    BY DEF JobFits, JobIdle, JobStarts, JobSettles, JobTearsDown, JobRejoins, JobPauses,
           Stage, Starting, TearingDown, Rejoining
  <1>2. SeatOrDebt'
    BY DEF Accounts, SeatOrDebt
  <1>3. OneSeat'
    BY DEF Accounts, OneSeat
  <1>4. ActiveAccounted'
    BY DEF ActiveAccounted, Accounted
  <1> QED BY <1>1, <1>2, <1>3, <1>4 DEF Accounts

\* Whatever a session does by itself, its process stays accounted for.
LEMMA AccountsOfSessions ==
    ASSUME Accounts, NEW s \in Objects,
           \/ Reports(s) \/ Hears(s) \/ PersistsPending(s) \/ Resets(s)
           \/ Breaks(s) \/ IdleSleeps(s) \/ Reconnects(s)
    PROVE  Accounts'
  <1>1. DirectoryTypeOK /\ \A t \in Objects : object[t] \in SessionObject
    BY JobParts DEF Accounts
  <1>2. /\ DirectoryTypeOK' /\ Elsewhere(s)
        /\ SameState(object[s], object'[s]) \/ Active(object[s])
    <2>1. CASE Reports(s)
      BY <1>1, <2>1, ReportsDoes
    <2>2. CASE Hears(s)
      BY <1>1, <2>2, HearsDoes
    <2>3. CASE PersistsPending(s)
      BY <1>1, <2>3, PersistsPendingDoes
    <2>4. CASE Resets(s)
      BY <1>1, <2>4, ResetsDoes
    <2>5. CASE Breaks(s)
      BY <1>1, <2>5, BreaksDoes DEF Breaks, Active
    <2>6. CASE IdleSleeps(s)
      BY <1>1, <2>6, IdleSleepsDoes DEF IdleSleeps, Active
    <2>7. CASE Reconnects(s)
      BY <1>1, <2>7, ReconnectsDoes DEF Reconnects, Active
    <2> QED BY <2>1, <2>2, <2>3, <2>4, <2>5, <2>6, <2>7
  <1>3. \A t \in Objects : Active(object'[t]) => Active(object[t])
    BY <1>2 DEF Elsewhere, SameButBound, SameState, Active
  <1>4. UNCHANGED <<registered, debt, job>>
    BY DEF Reports, Hears, PersistsPending, Resets, Breaks, IdleSleeps, Reconnects, maps
  <1> QED BY <1>2, <1>3, <1>4, AccountsStay

\* The heartbeat lets a registered session reconnect.
LEMMA AccountsOfMain ==
    ASSUME Accounts, Resurrects
    PROVE  Accounts'
  <1>1. PICK s \in Objects :
          s = registered[Main] /\ Elsewhere(s) /\ DirectoryTypeOK'
    BY ResurrectsDoes DEF Accounts
  <1>2. \A t \in Objects : Active(object'[t]) => Active(object[t]) \/ \E l \in Labels : registered[l] = t
    BY <1>1, DirectoryBounds DEF Elsewhere, SameButBound, SameState, Active
  <1>3. UNCHANGED <<registered, debt, job>>
    BY DEF Resurrects, maps
  <1> QED BY <1>1, <1>2, <1>3, AccountsStay

\* An edit of the agent's row touches no session.
LEMMA AccountsOfEdits ==
    ASSUME Accounts, ChangesClass \/ ChangesEffort
    PROVE  Accounts'
  <1>1. DirectoryTypeOK /\ object' = object /\ UNCHANGED <<registered, debt>>
    BY DEF Accounts, ChangesClass, ChangesEffort, maps
  <1>2. CASE ChangesClass
    <2>1. ConfigOK'
      BY <1>1, <1>2, DirectoryBounds DEF ChangesClass, DirectoryTypeOK, ConfigOK
    <2>2. DirectoryTypeOK'
      BY <1>1, <1>2, <2>1, PartsStay, TypeParts, TypePartsNext DEF ChangesClass
    <2> QED BY <1>1, <1>2, <2>2, AccountsStay DEF ChangesClass
  <1>3. CASE ChangesEffort
    <2>1. ConfigOK'
      BY <1>1, <1>3, DirectoryBounds DEF ChangesEffort, DirectoryTypeOK, ConfigOK
    <2>2. job' = [job EXCEPT !.outdated = TRUE] /\ job \in JobType
      BY <1>1, <1>3, JobParts DEF ChangesEffort
    <2>3. /\ job' \in JobType /\ job'.kind = job.kind /\ job'.at = job.at /\ job'.label = job.label
          /\ job'.who = job.who /\ job'.candidate = job.candidate /\ job'.todo = job.todo
      BY <2>2 DEF JobType
    <2>4. DirectoryTypeOK'
      BY <1>1, <1>3, <2>1, <2>3, PartsStay, TypeParts, TypePartsNext DEF ChangesEffort
    <2>5. job.at # "none"
      BY <1>3 DEF ChangesEffort, Accounts, JobFits, JobIdle, Stage, NoJob
    <2>6. JobFits'
      BY <1>1, <2>3, <2>5 DEF Accounts, JobFits, JobIdle, JobStarts, JobSettles, JobTearsDown,
                              JobRejoins, JobPauses, Stage, Seated
    <2>7. SeatOrDebt' /\ OneSeat'
      BY <1>1, <2>3 DEF Accounts, SeatOrDebt, OneSeat
    <2>8. ActiveAccounted'
      BY <1>1, <2>3 DEF Accounts, ActiveAccounted, Accounted
    <2> QED BY <2>4, <2>6, <2>7, <2>8 DEF Accounts
  <1> QED BY <1>2, <1>3

\* Who connects is a candidate or is seated.
LEMMA AccountsOfArrival ==
    ASSUME Accounts, Arrives
    PROVE  Accounts'
  <1>1. PICK s \in Objects :
          s = (IF JobAt("launching") THEN job.candidate ELSE job.who) /\ Elsewhere(s) /\ DirectoryTypeOK'
    BY ArrivesDoes
  <1>2. UNCHANGED <<registered, debt>> /\ job.at \in {"launching", "reviving"} /\ job \in JobType
    BY JobParts DEF Arrives, maps, Accounts
  <1>3. /\ job'.at = IF JobAt("launching") THEN "greeting" ELSE "rejoining"
        /\ job'.kind = job.kind /\ job'.label = job.label /\ job'.who = job.who
        /\ job'.candidate = job.candidate
    BY <1>2 DEF Arrives, JobType
  <1>4. JobFits'
    BY <1>2, <1>3 DEF Accounts, JobFits, JobIdle, JobStarts, JobSettles, JobTearsDown,
           JobRejoins, JobPauses, Stage, Starting, TearingDown, Rejoining, JobAt
  <1>5. SeatOrDebt' /\ OneSeat'
    BY <1>2, <1>3 DEF Accounts, SeatOrDebt, OneSeat
  <1>6. \E l \in Labels : s \in Accounted(l)
    BY <1>1, <1>2, JobParts DEF Accounts, JobFits, JobRejoins, JobStarts, Stage, Rejoining, Starting, JobAt, Accounted
  <1>7. \A t \in Objects \ {s} : Active(object'[t]) => Active(object[t])
    BY <1>1 DEF Elsewhere, SameButBound, SameState, Active
  <1>8. ActiveAccounted'
    BY <1>2, <1>3, <1>6, <1>7 DEF Accounts, ActiveAccounted, Accounted
  <1> QED BY <1>1, <1>4, <1>5, <1>8 DEF Accounts

\* A candidate takes the empty seat of its label.
LEMMA AccountsOfLaunch ==
    ASSUME Accounts, LaunchEnds
    PROVE  Accounts'
  <1>1. PICK s, l : s = job.candidate /\ l = job.label
    OBVIOUS
  <1>2. s \in Objects /\ l \in Labels /\ registered[l] = Nobody /\ debt[l] = Nobody
    BY <1>1, JobParts DEF LaunchEnds, Accounts, JobFits, JobStarts, Stage, Starting, JobAt
  <1>3. registered' = [registered EXCEPT ![l] = s] /\ job' = NoJob /\ UNCHANGED <<object, debt, owner>>
    BY <1>1 DEF LaunchEnds
  <1>4. MapsOK' /\ job' \in JobType
    BY <1>2, <1>3, DirectoryBounds DEF Accounts, DirectoryTypeOK, MapsOK
  <1>5. DirectoryTypeOK'
    BY <1>3, <1>4, PartsStay, TypeParts, TypePartsNext DEF Accounts, LaunchEnds, Smooth
  <1>6. registered'[l] = s /\ \A k \in Labels \ {l} : registered'[k] = registered[k]
    BY <1>2, <1>3 DEF Accounts, DirectoryTypeOK
  <1>7. \A k \in Labels : registered'[k] = Nobody \/ debt'[k] = Nobody
    BY <1>2, <1>3, <1>6 DEF Accounts, SeatOrDebt
  <1>8. \A k, m \in Labels : registered'[k] = registered'[m] => k = m \/ registered'[k] = Nobody
    BY <1>1, <1>2, <1>6, DirectoryBounds DEF Accounts, OneSeat
  <1>9. \A t \in Objects : Active(object'[t]) => \E k \in Labels : t \in {registered'[k], debt'[k]}
    BY <1>1, <1>2, <1>3, <1>6, DirectoryBounds DEF Accounts, ActiveAccounted, Accounted
  <1> QED BY <1>3, <1>5, <1>7, <1>8, <1>9, AccountsFree

\* A candidate that failed becomes the label's debt, where nothing was owed.
LEMMA AccountsOfFailure ==
    ASSUME Accounts, LaunchFails
    PROVE  Accounts'
  <1>1. PICK s \in Objects : s = job.candidate /\ Elsewhere(s) /\ DirectoryTypeOK'
    BY LaunchFailsDoes
  <1>2. PICK l : l = job.label
    OBVIOUS
  <1>3. l \in Labels /\ registered[l] = Nobody /\ debt[l] = Nobody /\ job.kind = "start" /\ job.who = Nobody
    BY <1>2, JobParts DEF LaunchFails, Accounts, JobFits, JobStarts, Stage, Starting
  <1>4. UNCHANGED registered /\ debt' = [debt EXCEPT ![l] = s]
    BY <1>1, <1>2 DEF LaunchFails
  <1>5. debt'[l] = s /\ \A k \in Labels \ {l} : debt'[k] = debt[k]
    BY <1>3, <1>4 DEF Accounts, DirectoryTypeOK
  <1>6. /\ job'.at = "clearing" /\ job'.kind = "start" /\ job'.label = l /\ job'.who = Nobody
        /\ job'.candidate = Nobody
    BY <1>2, <1>3, JobParts DEF LaunchFails, JobType, Accounts
  <1>7. JobFits'
    BY <1>3, <1>4, <1>5, <1>6 DEF JobFits, JobIdle, JobStarts, JobSettles, JobTearsDown,
           JobRejoins, JobPauses, Stage, Starting, TearingDown, Rejoining
  <1>8. SeatOrDebt'
    BY <1>3, <1>4, <1>5 DEF Accounts, SeatOrDebt
  <1>9. OneSeat'
    BY <1>4, <1>6 DEF Accounts, OneSeat
  <1>10. \A t \in Objects \ {s} : Active(object'[t]) => Active(object[t])
    BY <1>1 DEF Elsewhere, SameButBound, SameState, Active
  <1>11. ActiveAccounted'
    <2>1. ASSUME NEW t \in Objects, Active(object'[t]) PROVE \E k \in Labels : t \in {registered'[k], debt'[k]}
      <3>1. CASE t = s
        BY <1>3, <1>5, <3>1
      <3>2. CASE t # s
        <4>1. PICK k \in Labels : t \in Accounted(k)
          BY <1>10, <2>1, <3>2 DEF Accounts, ActiveAccounted
        <4>2. t \in {registered[k], debt[k]}
          BY <1>1, <3>2, <4>1 DEF Accounted
        <4> QED BY <1>3, <1>4, <1>5, <4>2, DirectoryBounds
      <3> QED BY <3>1, <3>2
    <2> QED BY <2>1 DEF ActiveAccounted, Accounted
  <1> QED BY <1>1, <1>7, <1>8, <1>9, <1>11 DEF Accounts

\* Jobs that end where they are.
LEMMA AccountsOfEnds ==
    ASSUME Accounts,
           SettleFails \/ QuiesceFails \/ DropFails \/ ReviveEnds \/ ReviveFails \/ PauseFails
    PROVE  Accounts'
  <1>1. DirectoryTypeOK /\ job' = NoJob /\ UNCHANGED <<registered, debt>> /\ NoJob \in JobType
    BY DirectoryBounds DEF SettleFails, QuiesceFails, DropFails, ReviveEnds, ReviveFails, PauseFails, maps, Accounts
  <1>2. /\ DirectoryTypeOK'
        /\ \A s \in Objects : Active(object'[s]) =>
             Active(object[s]) \/ \E l \in Labels : registered[l] = s
    <2>1. CASE SettleFails
      BY <2>1, SettleFailsDoes DEF Elsewhere, SameButBound, SameState, Active
    <2>2. CASE QuiesceFails \/ PauseFails
      BY <1>1, <2>2, PartsStay, TypeParts, TypePartsNext DEF QuiesceFails, PauseFails
    <2>3. CASE DropFails
      BY <2>3, DropFailsDoes DEF Elsewhere, SameButBound, SameState, Active
    <2>4. CASE ReviveEnds
      BY <2>4, ReviveEndsDoes DEF Elsewhere, SameButBound, SameState, Active
    <2>5. CASE ReviveFails
      <3>1. PICK s \in Objects : s = job.who /\ Elsewhere(s) /\ DirectoryTypeOK'
        BY <2>5, ReviveFailsDoes
      <3>2. \E l \in Labels : registered[l] = s
        BY <2>5, <3>1, JobParts DEF ReviveFails, Accounts, JobFits, JobRejoins, Stage, Rejoining
      <3> QED BY <3>1, <3>2 DEF Elsewhere, SameButBound, SameState, Active
    <2> QED BY <2>1, <2>2, <2>3, <2>4, <2>5
  <1>3. job.candidate # Nobody => ~Active(object[job.candidate])
    <2>1. \/ Stage({"settling", "clearing"}) \/ Stage(TearingDown) \/ Stage(Rejoining) \/ Stage({"pausing"})
      BY DEF SettleFails, QuiesceFails, DropFails, ReviveEnds, ReviveFails, PauseFails, JobAt,
             Stage, TearingDown, Rejoining
    <2> QED BY <2>1 DEF Accounts, JobFits, JobSettles, JobTearsDown, JobRejoins, JobPauses
  <1> QED BY <1>1, <1>2, <1>3, AccountsLeft

\* A start, or a rename, waits for a debt to be settled.
LEMMA AccountsOfSettling ==
    ASSUME Accounts, job.candidate = Nobody, NEW l \in Labels, NEW d \in Objects, d = debt[l],
           object' = [object EXCEPT ![d].retired = TRUE, ![d].inhibited = TRUE],
           \/ job' = [NoJob EXCEPT !.kind = "start", !.at = "settling", !.label = l]
           \/ \E k \in Labels : /\ registered[k] # Nobody
                                /\ job' = [NoJob EXCEPT !.kind = "rename", !.at = "settling",
                                                        !.label = l, !.who = registered[k]],
           UNCHANGED config, UNCHANGED maps, UNCHANGED handles, UNCHANGED mishaps
    PROVE  Accounts'
  <1>1. /\ object' \in ObjType /\ Elsewhere(d) /\ SameState(object[d], object'[d])
    BY SettlingDoes DEF Accounts
  <1>2. /\ job' \in JobType /\ job'.at = "settling" /\ job'.label = l /\ job'.candidate = Nobody
        /\ \/ job'.kind = "start" /\ job'.who = Nobody
           \/ job'.kind = "rename" /\ \E k \in Labels : registered[k] = job'.who /\ job'.who # Nobody
    <2>1. CASE job' = [NoJob EXCEPT !.kind = "start", !.at = "settling", !.label = l]
      BY <2>1, DirectoryBounds DEF NoJob, JobType, JobKinds, JobStages
    <2>2. CASE \E k \in Labels : /\ registered[k] # Nobody
                                 /\ job' = [NoJob EXCEPT !.kind = "rename", !.at = "settling",
                                                         !.label = l, !.who = registered[k]]
      <3>1. PICK k \in Labels : /\ registered[k] # Nobody
                                /\ job' = [NoJob EXCEPT !.kind = "rename", !.at = "settling",
                                                        !.label = l, !.who = registered[k]]
        BY <2>2
      <3>2. registered[k] \in Objects
        BY <3>1, JobParts DEF Accounts
      <3>3. /\ job'.kind = "rename" /\ job'.at = "settling" /\ job'.label = l
            /\ job'.who = registered[k] /\ job'.candidate = Nobody
        BY <3>1 DEF NoJob
      <3>4. job' \in JobType
        BY <3>1, <3>2, DirectoryBounds DEF JobType, JobKinds, JobStages
      <3> QED BY <3>1, <3>3, <3>4
    <2> QED BY <2>1, <2>2
  <1>3. DirectoryTypeOK'
    BY <1>1, <1>2, PartsStay, TypeParts, TypePartsNext DEF Accounts, Smooth
  <1>4. registered[l] = Nobody /\ UNCHANGED <<registered, debt>>
    BY DirectoryBounds DEF Accounts, SeatOrDebt, maps
  <1>5. JobFits'
    BY <1>2, <1>4 DEF JobFits, JobIdle, JobStarts, JobSettles, JobTearsDown,
           JobRejoins, JobPauses, Stage, Starting, TearingDown, Rejoining
  <1>6. SeatOrDebt' /\ OneSeat'
    BY <1>2, <1>4 DEF Accounts, SeatOrDebt, OneSeat
  <1>7. \A t \in Objects : Active(object'[t]) => Active(object[t])
    BY <1>1 DEF Elsewhere, SameButBound, SameState, Active
  <1>8. ActiveAccounted'
    BY <1>4, <1>7, DirectoryBounds DEF Accounts, ActiveAccounted, Accounted
  <1> QED BY <1>3, <1>5, <1>6, <1>8 DEF Accounts

\* A start with nothing to settle, or nothing any longer.
LEMMA AccountsOfSpawn ==
    ASSUME Accounts, NEW l \in Labels, registered[l] = Nobody, job.candidate = Nobody, job.who = Nobody,
           NEW f \in ObjType, Spawns(l, f),
           debt'[l] = Nobody, \A k \in Labels \ {l} : debt'[k] = debt[k],
           debt' \in [Labels -> Objects \cup {Nobody}],
           \A t \in Objects : Active(f[t]) => Active(object[t]) /\ t # debt[l],
           UNCHANGED registered, UNCHANGED handles, UNCHANGED config, UNCHANGED mishaps
    PROVE  Accounts'
  <1>1. PICK s : s = Fresh
    OBVIOUS
  <1>2. s \in Objects /\ \A k \in Labels : s \notin {registered[k], debt[k]}
    BY <1>1, FreshIs
  <1>3. /\ object' \in ObjType
        /\ \A t \in Objects \ {s} : SameButBound(f[t], object'[t])
        /\ owner' \in [Labels -> Objects \cup {Nobody}]
        /\ job' \in JobType
        /\ job'.at = "launching" /\ job'.kind = "start" /\ job'.label = l
        /\ job'.who = Nobody /\ job'.candidate = s
    BY <1>1, SpawnsDoes
  <1>4. MapsOK'
    BY <1>3 DEF Accounts, DirectoryTypeOK, MapsOK
  <1>5. DirectoryTypeOK'
    BY <1>3, <1>4, PartsStay, TypeParts, TypePartsNext DEF Accounts, Smooth
  <1>6. \A t \in Objects \ {s} : Active(object'[t]) => Active(object[t]) /\ t # debt[l]
    BY <1>3 DEF SameButBound, SameState, Active
  <1>7. \A t \in Objects : Active(object'[t]) =>
             t = s \/ \E k \in Labels : t \in {registered'[k], debt'[k]}
    <2>1. ASSUME NEW t \in Objects, Active(object'[t]), t # s
          PROVE  \E k \in Labels : t \in {registered'[k], debt'[k]}
      <3>1. PICK k \in Labels : t \in {registered[k], debt[k]}
        BY <1>6, <2>1, DirectoryBounds DEF Accounts, ActiveAccounted, Accounted
      <3>2. t # debt[l]
        BY <1>6, <2>1
      <3>3. t \in {registered'[k], debt'[k]}
        BY <3>1, <3>2, DirectoryBounds
      <3> QED BY <3>3
    <2> QED BY <2>1
  <1>8. \A k \in Labels : registered'[k] \in {registered[k], Nobody} /\ registered[k] # s
    BY <1>2
  <1>9. \A k \in Labels : debt'[k] \in {debt[k], Nobody}
    OBVIOUS
  <1> QED BY <1>2, <1>3, <1>5, <1>7, <1>8, <1>9, AccountsLaunched

\* A start first settles what the label owes, or makes a candidate.
LEMMA AccountsOfColdStart ==
    ASSUME Accounts, NEW l \in Labels, registered[l] = Nobody, job.candidate = Nobody, job.who = Nobody,
           ColdStarts(l)
    PROVE  Accounts'
  <1>1. CASE debt[l] = Nobody
    <2>1. Spawns(l, object) /\ UNCHANGED <<config, registered, debt, handles, mishaps>>
      BY <1>1 DEF ColdStarts
    <2>2. \A t \in Objects : Active(object[t]) => Active(object[t]) /\ t # debt[l]
      BY <1>1, DirectoryBounds
    <2> QED BY <1>1, <2>1, <2>2, AccountsOfSpawn, JobParts DEF Accounts, DirectoryTypeOK
  <1>2. CASE debt[l] # Nobody
    <2>1. PICK d : d = debt[l]
      OBVIOUS
    <2>2. d \in Objects
      BY <1>2, <2>1, JobParts DEF Accounts
    <2>3. /\ object' = [object EXCEPT ![d].retired = TRUE, ![d].inhibited = TRUE]
          /\ job' = [NoJob EXCEPT !.kind = "start", !.at = "settling", !.label = l]
          /\ UNCHANGED <<config, maps, handles, mishaps>>
      BY <1>2, <2>1 DEF ColdStarts
    <2> QED BY <2>1, <2>2, <2>3, AccountsOfSettling
  <1> QED BY <1>1, <1>2

\* A session gets another label.
LEMMA AccountsOfMove ==
    ASSUME Accounts, NEW k \in Labels, registered[k] # Nobody, NEW m \in Labels, registered[m] = Nobody,
           job.candidate = Nobody,
           NEW f \in ObjType, Moves(registered[k], m, f),
           debt'[m] = Nobody, \A n \in Labels \ {m} : debt'[n] = debt[n],
           debt' \in [Labels -> Objects \cup {Nobody}],
           \A t \in Objects : Active(f[t]) => Active(object[t]) /\ t # debt[m],
           UNCHANGED <<cleared, conversations>>, UNCHANGED config, UNCHANGED mishaps
    PROVE  Accounts'
  <1>1. PICK s : s = registered[k]
    OBVIOUS
  <1>2. s \in Objects /\ DirectoryTypeOK
    BY <1>1, JobParts DEF Accounts
  <1>3. /\ object' \in ObjType /\ Alike(f, object') /\ job' = NoJob /\ job' \in JobType
        /\ \E l \in Labels :
             /\ registered[l] = s
             /\ registered' = [registered EXCEPT ![l] = Nobody, ![m] = s]
             /\ owner' = [owner EXCEPT ![l] = Nobody, ![m] = s]
             /\ stored' = IF stored[l] = None THEN stored
                          ELSE [stored EXCEPT ![m] = stored[l], ![l] = None]
    BY <1>1, <1>2, MovesDoes
  <1>4. PICK l \in Labels :
             /\ registered[l] = s
             /\ registered' = [registered EXCEPT ![l] = Nobody, ![m] = s]
             /\ owner' = [owner EXCEPT ![l] = Nobody, ![m] = s]
             /\ stored' = IF stored[l] = None THEN stored
                          ELSE [stored EXCEPT ![m] = stored[l], ![l] = None]
    BY <1>3
  <1>5. l # m
    BY <1>1, <1>4
  <1>6. registered'[m] = s /\ registered'[l] = Nobody /\ \A n \in Labels \ {l, m} : registered'[n] = registered[n]
    BY <1>2, <1>4, <1>5 DEF DirectoryTypeOK
  <1>7. MapsOK'
    BY <1>2, <1>4 DEF DirectoryTypeOK, MapsOK
  <1>8. HandlesOK'
    BY <1>2, <1>4, PartsStay DEF DirectoryTypeOK, HandlesOK
  <1>9. DirectoryTypeOK'
    BY <1>2, <1>3, <1>7, <1>8, PartsStay, TypeParts, TypePartsNext DEF Smooth
  <1>10. \A n \in Labels : registered'[n] = Nobody \/ debt'[n] = Nobody
    BY <1>6 DEF Accounts, SeatOrDebt
  <1>11. \A n, p \in Labels : registered'[n] = registered'[p] => n = p \/ registered'[n] = Nobody
    <2>1. \A n \in Labels : registered[n] = s => n = l
      BY <1>1, <1>4 DEF Accounts, OneSeat
    <2>2. \A n, p \in Labels \ {l, m} : registered[n] = registered[p] => n = p \/ registered[n] = Nobody
      BY DEF Accounts, OneSeat
    <2>3. \A n \in Labels : registered'[n] = s => n = m
      BY <1>1, <1>5, <1>6, <2>1
    <2>4. ASSUME NEW n \in Labels, NEW p \in Labels, registered'[n] = registered'[p], registered'[n] # Nobody
          PROVE  n = p
      <3>1. n # l /\ p # l
        BY <1>6, <2>4
      <3>2. CASE n = m \/ p = m
        BY <1>6, <2>3, <2>4, <3>2
      <3>3. CASE n # m /\ p # m
        BY <1>6, <2>2, <2>4, <3>1, <3>3
      <3> QED BY <3>2, <3>3
    <2> QED BY <2>4
  <1>12. \A t \in Objects : Active(object'[t]) => Active(object[t]) /\ t # debt[m]
    BY <1>3 DEF Alike, SameButBound, SameState, Active
  <1>13. \A t \in Objects : Active(object'[t]) => \E n \in Labels : t \in {registered'[n], debt'[n]}
    <2>1. ASSUME NEW t \in Objects, Active(object'[t])
          PROVE  \E n \in Labels : t \in {registered'[n], debt'[n]}
      <3>1. PICK n \in Labels : t \in {registered[n], debt[n]}
        BY <1>12, <2>1, DirectoryBounds DEF Accounts, ActiveAccounted, Accounted
      <3>2. CASE t = registered[n]
        BY <1>1, <1>4, <1>6, <2>1, <3>2, DirectoryBounds
      <3>3. CASE t = debt[n]
        BY <1>12, <2>1, <3>3
      <3> QED BY <3>1, <3>2, <3>3
    <2> QED BY <2>1
  <1> QED BY <1>3, <1>9, <1>10, <1>11, <1>13, AccountsFree

\* A debt is settled when its process is gone: the seat or the debt is given on.
LEMMA AccountsOfSettled ==
    ASSUME Accounts, SettleEnds
    PROVE  Accounts'
  <1>1. PICK l, d : l = job.label /\ d = debt[l]
    OBVIOUS
  <1>2. /\ l \in Labels /\ d \in Objects /\ registered[l] = Nobody /\ job.candidate = Nobody
        /\ DirectoryTypeOK
    BY <1>1, JobParts DEF SettleEnds, Accounts, JobFits, JobSettles, Stage
  <1>3. PICK gone : gone = [object EXCEPT ![d] = Unused]
    OBVIOUS
  <1>4. gone \in ObjType /\ gone[d] = Unused /\ \A t \in Objects \ {d} : gone[t] = object[t]
    <2>1. object \in ObjType /\ Unused \in SessionObject
      BY <1>2, JobParts, DirectoryBounds
    <2> QED BY <1>2, <1>3, <2>1 DEF ObjType
  <1>5. \A t \in Objects : Active(gone[t]) => Active(object[t]) /\ t # debt[l]
    BY <1>1, <1>2, <1>4 DEF Active, Unused
  <1>6. /\ debt' = [debt EXCEPT ![l] = Nobody]
        /\ UNCHANGED config /\ UNCHANGED <<cleared, conversations>> /\ UNCHANGED mishaps
    BY <1>1 DEF SettleEnds
  <1>7. /\ debt'[l] = Nobody /\ \A k \in Labels \ {l} : debt'[k] = debt[k]
        /\ debt' \in [Labels -> Objects \cup {Nobody}]
    BY <1>2, <1>6 DEF DirectoryTypeOK
  <1>8. CASE JobAt("clearing")
    <2>1. object' = gone /\ job' = NoJob /\ UNCHANGED <<registered, owner, stored>>
      BY <1>1, <1>3, <1>8 DEF SettleEnds, JobAt
    <2>2. MapsOK' /\ HandlesOK'
      BY <1>2, <1>6, <1>7, <2>1 DEF DirectoryTypeOK, MapsOK, HandlesOK
    <2>3. DirectoryTypeOK'
      BY <1>2, <1>4, <1>6, <2>1, <2>2, DirectoryBounds, PartsStay, TypeParts, TypePartsNext DEF Smooth
    <2>4. \A n \in Labels : registered'[n] = Nobody \/ debt'[n] = Nobody
      BY <1>7, <2>1 DEF Accounts, SeatOrDebt
    <2>5. \A n, p \in Labels : registered'[n] = registered'[p] => n = p \/ registered'[n] = Nobody
      BY <2>1 DEF Accounts, OneSeat
    <2>6. \A t \in Objects : Active(object'[t]) => \E n \in Labels : t \in {registered'[n], debt'[n]}
      BY <1>2, <1>5, <1>7, <2>1, DirectoryBounds DEF Accounts, ActiveAccounted, Accounted
    <2> QED BY <2>1, <2>3, <2>4, <2>5, <2>6, AccountsFree
  <1>9. CASE JobAt("settling") /\ job.kind = "start"
    <2>1. Spawns(l, gone) /\ UNCHANGED <<registered, stored>>
      BY <1>1, <1>3, <1>9 DEF SettleEnds, JobAt
    <2>2. job.who = Nobody
      BY <1>9 DEF Accounts, JobFits, JobSettles, Stage, JobAt
    <2>3. UNCHANGED handles
      BY <1>6, <2>1 DEF handles
    <2> QED BY <1>2, <1>4, <1>5, <1>6, <1>7, <2>1, <2>2, <2>3, AccountsOfSpawn
  <1>10. CASE JobAt("settling") /\ job.kind # "start"
    <2>1. Moves(job.who, l, gone)
      BY <1>1, <1>3, <1>10 DEF SettleEnds, JobAt
    <2>2. PICK k \in Labels : registered[k] = job.who /\ job.who # Nobody
      BY <1>10 DEF Accounts, JobFits, JobSettles, Stage, JobAt
    <2>3. Moves(registered[k], l, gone) /\ registered[k] # Nobody
      BY <2>1, <2>2
    <2> QED BY <1>2, <1>4, <1>5, <1>6, <1>7, <2>3, AccountsOfMove
  <1> QED BY <1>8, <1>9, <1>10 DEF SettleEnds, JobAt

\* A restart or a retirement begins.
LEMMA AccountsOfQuiesce ==
    ASSUME Accounts, Unlocked, NEW l \in Seated, NEW todo \in SUBSET Seated,
           NEW kind \in {"wake", "fresh", "recover", "replace", "stop", "bounce", "delete"},
           NEW c, c = IF kind = "replace" THEN Fresh ELSE Nobody,
           kind \in {"stop", "bounce", "delete"} => l \in todo,
           Quiesces(kind, l, c, todo)
    PROVE  Accounts'
  <1>1. job.candidate = Nobody /\ job.who = Nobody
    BY DEF Unlocked, NoJob
  <1>2. /\ l \in Labels /\ registered[l] # Nobody /\ kind \in JobKinds /\ todo \in SUBSET Labels
        /\ DirectoryTypeOK
    BY DEF Seated, JobKinds, Accounts
  <1>3. Fresh \in Objects /\ \A k \in Labels : Fresh \notin {registered[k], debt[k]}
    BY <1>1, FreshIs
  <1>4. /\ c \in Objects \cup {Nobody} /\ c # Nobody <=> kind = "replace"
        /\ \A k \in Labels : c \in Objects => c \notin {registered[k], debt[k]}
    BY <1>3, DirectoryBounds
  <1>5. c # registered[l]
    BY <1>2, <1>3, <1>4, JobParts
  <1>6. /\ DirectoryTypeOK'
        /\ \E w \in Objects :
             /\ w = registered[l] /\ SameState(object[w], object'[w])
             /\ \A t \in Objects \ {w, c} : SameButBound(object[t], object'[t])
        /\ c # Nobody => SameButBound(Unused, object'[c])
    BY <1>2, <1>4, <1>5, QuiescesDoes
  <1>7. /\ job'.kind = kind /\ job'.at = "quiescing" /\ job'.label = l /\ job'.who = registered[l]
        /\ job'.candidate = c /\ job'.todo = todo /\ UNCHANGED <<registered, debt>>
    BY DEF Quiesces, maps
  <1>8. c # Nobody => ~Active(object'[c])
    BY <1>6 DEF SameButBound, SameState, Active, Unused
  <1>9. \A t \in Objects : Active(object'[t]) => Active(object[t])
    BY <1>6, <1>8, DirectoryBounds DEF SameButBound, SameState, Active
  <1>10. registered[l] \in Objects
    BY <1>2, JobParts
  <1>11. JobTearsDown'
    BY <1>4, <1>7, <1>8, <1>10 DEF JobTearsDown, Seated
  <1>12. JobFits'
    BY <1>7, <1>11 DEF JobFits, JobIdle, JobStarts, JobSettles,
           JobRejoins, JobPauses, Stage, Starting, Rejoining
  <1>13. SeatOrDebt'
    BY <1>7 DEF Accounts, SeatOrDebt
  <1>14. OneSeat'
    BY <1>4, <1>7, JobParts DEF Accounts, OneSeat
  <1>15. ActiveAccounted'
    BY <1>1, <1>7, <1>9, DirectoryBounds DEF Accounts, ActiveAccounted, Accounted
  <1> QED BY <1>6, <1>12, <1>13, <1>14, <1>15 DEF Accounts

\* A message to a label starts, replaces or wakes its session.
LEMMA AccountsOfEnsure ==
    ASSUME Accounts, NEW l \in Labels, Ensures(l)
    PROVE  Accounts'
  <1>1. Unlocked /\ job.candidate = Nobody /\ job.who = Nobody
    BY DEF Ensures, Unlocked, NoJob
  <1>2. CASE l \notin Seated /\ ColdStarts(l)
    BY <1>1, <1>2, AccountsOfColdStart DEF Seated
  <1>3. CASE l \in Seated /\ Replaces(l)
    BY <1>1, <1>3, AccountsOfQuiesce DEF Replaces
  <1>4. CASE l \in Seated /\ Quiesces("wake", l, Nobody, {})
    BY <1>1, <1>4, AccountsOfQuiesce
  <1>5. CASE /\ l \in Seated
             /\ Rebinds(l, registered[l], object)
             /\ job' = [NoJob EXCEPT !.kind = "wake", !.at = "reviving", !.label = l,
                                     !.who = registered[l]]
             /\ UNCHANGED <<config, registered, debt, handles, mishaps>>
    <2>1. PICK s : s = registered[l]
      OBVIOUS
    <2>2. s \in Objects /\ DirectoryTypeOK /\ object \in ObjType
      BY <1>5, <2>1, JobParts DEF Seated, Accounts
    <2>3. object' \in ObjType /\ Alike(object, object')
      BY <1>5, <2>1, <2>2, RebindingKeeps DEF Rebinds
    <2>4. /\ job' \in JobType /\ job'.at = "reviving" /\ job'.label = l /\ job'.who = s
          /\ job'.candidate = Nobody
      BY <1>5, <2>1, <2>2, DirectoryBounds DEF NoJob, JobType, JobKinds, JobStages
    <2>5. MapsOK'
      BY <1>5, <2>1, <2>2 DEF Rebinds, MapsOK, DirectoryTypeOK
    <2>6. DirectoryTypeOK'
      BY <1>5, <2>2, <2>3, <2>4, <2>5, PartsStay, TypeParts, TypePartsNext DEF Smooth
    <2>7. JobFits'
      BY <1>5, <2>1, <2>2, <2>4 DEF JobFits, JobIdle, JobStarts, JobSettles, JobTearsDown,
             JobRejoins, JobPauses, Stage, Starting, TearingDown, Rejoining
    <2>8. SeatOrDebt' /\ OneSeat'
      BY <1>5, <2>4 DEF Accounts, SeatOrDebt, OneSeat
    <2>9. \A t \in Objects : Active(object'[t]) => Active(object[t])
      BY <2>3 DEF Alike, SameButBound, SameState, Active
    <2>10. ActiveAccounted'
      BY <1>1, <1>5, <2>9, DirectoryBounds DEF Accounts, ActiveAccounted, Accounted
    <2> QED BY <2>6, <2>7, <2>8, <2>10 DEF Accounts
  <1> QED BY <1>2, <1>3, <1>4, <1>5 DEF Ensures

\* A restart begins with the session seated at its label.
LEMMA AccountsOfRestart ==
    ASSUME Accounts, NEW l \in Labels, NEW kind \in {"fresh", "recover"}, Restarts(kind, l)
    PROVE  Accounts'
  <1>1. l \in Seated /\ Unlocked
    BY DEF Restarts
  <1>2. CASE Replaces(l)
    BY <1>1, <1>2, AccountsOfQuiesce DEF Replaces
  <1>3. CASE Quiesces(kind, l, Nobody, {})
    BY <1>1, <1>3, AccountsOfQuiesce
  <1> QED BY <1>2, <1>3 DEF Restarts

\* A retirement begins with the first of the seated sessions it is about.
LEMMA AccountsOfRetirement ==
    ASSUME Accounts, Unlocked, NEW kind \in {"stop", "bounce", "delete"},
           NEW todo \in SUBSET Seated, todo # {}, Retires(kind, todo)
    PROVE  Accounts'
  <1>1. PICK l : l = CHOOSE k \in todo : TRUE
    OBVIOUS
  <1>2. l \in todo /\ l \in Seated
    BY <1>1
  <1>3. Quiesces(kind, l, Nobody, todo)
    BY <1>1 DEF Retires
  <1> QED BY <1>2, <1>3, AccountsOfQuiesce

\* All labels are to be retired, ...
LEMMA AccountsOfStops ==
    ASSUME Accounts, NEW kind \in {"stop", "bounce"}, Stops(kind)
    PROVE  Accounts'
  BY AccountsOfRetirement DEF Stops

\* ... or one.
LEMMA AccountsOfDelete ==
    ASSUME Accounts, NEW l \in Labels, Deletes(l)
    PROVE  Accounts'
  <1>1. {l} \in SUBSET Seated /\ {l} # {} /\ Unlocked /\ Retires("delete", {l})
    BY DEF Deletes
  <1> QED BY <1>1, AccountsOfRetirement

\* A rename finds the new label's seat empty.
LEMMA AccountsOfRename ==
    ASSUME Accounts, NEW l \in Labels, NEW m \in Labels, Renames(l, m)
    PROVE  Accounts'
  <1>1. /\ job.candidate = Nobody /\ registered[l] # Nobody /\ registered[m] = Nobody
        /\ UNCHANGED config /\ UNCHANGED <<cleared, conversations>> /\ UNCHANGED mishaps
        /\ object \in ObjType
    BY JobParts DEF Renames, Unlocked, NoJob, Seated, Accounts
  <1>2. CASE debt[m] = Nobody
    <2>1. Moves(registered[l], m, object) /\ UNCHANGED debt
      BY <1>2 DEF Renames
    <2>2. \A t \in Objects : Active(object[t]) => Active(object[t]) /\ t # debt[m]
      BY <1>2, DirectoryBounds
    <2>3. debt' \in [Labels -> Objects \cup {Nobody}]
      BY <2>1 DEF Accounts, DirectoryTypeOK
    <2> QED BY <1>1, <1>2, <2>1, <2>2, <2>3, AccountsOfMove
  <1>3. CASE debt[m] # Nobody
    <2>1. PICK d : d = debt[m]
      OBVIOUS
    <2>2. d \in Objects
      BY <1>3, <2>1, JobParts DEF Accounts
    <2>3. /\ object' = [object EXCEPT ![d].retired = TRUE, ![d].inhibited = TRUE]
          /\ job' = [NoJob EXCEPT !.kind = "rename", !.at = "settling", !.label = m,
                                    !.who = registered[l]]
          /\ UNCHANGED <<registered, debt, owner, stored>>
      BY <1>3, <2>1 DEF Renames
    <2>4. UNCHANGED maps /\ UNCHANGED handles
      BY <1>1, <2>3 DEF maps, handles
    <2> QED BY <1>1, <2>1, <2>2, <2>3, <2>4, AccountsOfSettling
  <1> QED BY <1>2, <1>3

\* The session that is torn down goes down, its process not yet.
LEMMA AccountsOfQuiesced ==
    ASSUME Accounts, QuiesceEnds
    PROVE  Accounts'
  <1>1. PICK s \in Objects :
          /\ s = job.who /\ Elsewhere(s) /\ DirectoryTypeOK'
          /\ object'[s].live = object[s].live
          /\ object'[s].state \in {object[s].state, "down"}
    BY QuiesceEndsDoes
  <1>2. \A t \in Objects : Active(object'[t]) => Active(object[t])
    BY <1>1 DEF Elsewhere, SameButBound, SameState, Active
  <1>3. UNCHANGED <<registered, debt>> /\ JobAt("quiescing") /\ job \in JobType
    BY JobParts DEF QuiesceEnds, Accounts
  <1>4. CASE job' = NoJob
    BY <1>1, <1>2, <1>3, <1>4, AccountsLeft DEF Accounts, JobFits, JobTearsDown, Stage, TearingDown, JobAt
  <1>5. CASE job' # NoJob
    <2>1. job' = [job EXCEPT !.at = "dropping"]
      BY <1>5 DEF QuiesceEnds
    <2>2. /\ job'.at = "dropping" /\ job'.kind = job.kind /\ job'.label = job.label
          /\ job'.who = job.who /\ job'.candidate = job.candidate /\ job'.todo = job.todo
      BY <1>3, <2>1 DEF JobType
    <2>3. job.kind = "replace" => job.candidate \in Objects
      BY <1>3, JobParts DEF Accounts, JobFits, JobTearsDown, Stage, TearingDown, JobAt
    <2>4. JobTearsDown'
      BY <1>2, <1>3, <2>2, <2>3 DEF Accounts, JobFits, JobTearsDown, Stage, TearingDown, JobAt, Seated
    <2>5. JobFits'
      BY <2>2, <2>4 DEF JobFits, JobIdle, JobStarts, JobSettles, JobRejoins, JobPauses, Stage,
                        Starting, Rejoining
    <2>6. SeatOrDebt' /\ OneSeat'
      BY <1>3, <2>2 DEF Accounts, SeatOrDebt, OneSeat
    <2>7. ActiveAccounted'
      BY <1>2, <1>3, <2>2 DEF Accounts, ActiveAccounted, Accounted
    <2> QED BY <1>1, <2>5, <2>6, <2>7 DEF Accounts
  <1> QED BY <1>4, <1>5

\* Its process is gone: it is retained, replaced or dropped.
LEMMA AccountsOfDrop ==
    ASSUME Accounts, DropEnds
    PROVE  Accounts'
  <1>1. /\ job.who \in Objects /\ job.who = registered[job.label] /\ job.label \in Labels
        /\ job \in JobType /\ DirectoryTypeOK
        /\ job.candidate # Nobody => job.kind = "replace" /\ ~Active(object[job.candidate])
    BY JobParts DEF DropEnds, Accounts, JobFits, JobTearsDown, Stage, TearingDown, JobAt
  <1>2. CASE job.kind \in {"wake", "fresh", "recover"} /\ (job.kind = "recover" => rebuild)
    <2>1. PICK s \in Objects :
            /\ s = job.who /\ Elsewhere(s) /\ DirectoryTypeOK'
            /\ object'[s].state = "down" /\ ~object'[s].live
            /\ job' = [job EXCEPT !.at = "reviving"]
            /\ UNCHANGED <<registered, debt>>
      BY <1>2, DropRetainedDoes
    <2>2. /\ job'.at = "reviving" /\ job'.label = job.label
          /\ job'.who = job.who /\ job'.candidate = job.candidate
      BY <1>1, <2>1 DEF JobType
    <2>3. job.candidate = Nobody
      BY <1>1, <1>2
    <2>4. JobFits'
      BY <1>1, <2>1, <2>2, <2>3 DEF JobFits, JobIdle, JobStarts, JobSettles, JobTearsDown, JobRejoins,
             JobPauses, Stage, Starting, TearingDown, Rejoining
    <2>5. SeatOrDebt' /\ OneSeat'
      BY <2>1, <2>2 DEF Accounts, SeatOrDebt, OneSeat
    <2>6. \A t \in Objects : Active(object'[t]) => Active(object[t])
      BY <2>1 DEF Elsewhere, SameButBound, SameState, Active
    <2>7. ActiveAccounted'
      BY <2>1, <2>2, <2>6 DEF Accounts, ActiveAccounted, Accounted
    <2> QED BY <2>1, <2>4, <2>5, <2>7 DEF Accounts
  <1>3. CASE job.kind = "replace"
    <2>1. PICK l, s, c : l = job.label /\ s = job.who /\ c = job.candidate
      OBVIOUS
    <2>2. /\ DirectoryTypeOK' /\ s \in Objects /\ SameButBound(Unused, object'[s])
          /\ Elsewhere(s) /\ c \in Objects /\ UNCHANGED debt
          /\ registered' = [registered EXCEPT ![l] = Nobody]
          /\ job'.at = "launching" /\ job'.kind = "start" /\ job'.label = l
          /\ job'.who = Nobody /\ job'.candidate = c
      BY <1>3, <2>1, DropReplacedDoes
    <2>3. registered'[l] = Nobody /\ \A k \in Labels \ {l} : registered'[k] = registered[k]
      BY <1>1, <2>1, <2>2 DEF DirectoryTypeOK
    <2>4. debt'[l] = Nobody /\ registered[l] = s
      BY <1>1, <2>1, <2>2, DirectoryBounds DEF Accounts, SeatOrDebt
    <2>5. \A k \in Labels : registered'[k] \in {registered[k], Nobody} /\ registered[k] # c
      BY <2>1, <2>2, <2>3, DirectoryBounds DEF Accounts, OneSeat
    <2>6. \A t \in Objects : Active(object'[t]) =>
            t = c \/ \E k \in Labels : t \in {registered'[k], debt'[k]}
      <3>1. ASSUME NEW t \in Objects, Active(object'[t]), t # c
            PROVE  \E k \in Labels : t \in {registered'[k], debt'[k]}
        <4>1. t # s
          BY <2>2, <3>1 DEF SameButBound, SameState, Active, Unused
        <4>2. Active(object[t])
          BY <2>2, <3>1, <4>1 DEF Elsewhere, SameButBound, SameState, Active
        <4>3. PICK k \in Labels : t \in {registered[k], debt[k]}
          BY <2>1, <3>1, <4>2 DEF Accounts, ActiveAccounted, Accounted
        <4> QED BY <2>2, <2>3, <2>4, <4>1, <4>3
      <3> QED BY <3>1
    <2>7. \A k \in Labels : debt'[k] \in {debt[k], Nobody}
      BY <2>2
    <2> QED BY <1>1, <2>1, <2>2, <2>3, <2>4, <2>5, <2>6, <2>7, AccountsLaunched
  <1>4. CASE job.kind = "recover" /\ ~rebuild
    <2>1. PICK l, s : l = job.label /\ s = job.who
      OBVIOUS
    <2>2. /\ DirectoryTypeOK' /\ s \in Objects /\ SameButBound(Unused, object'[s])
          /\ Elsewhere(s) /\ UNCHANGED debt
          /\ registered' = [registered EXCEPT ![l] = Nobody]
          /\ job' = [NoJob EXCEPT !.kind = "start", !.at = "pausing", !.label = l]
      BY <1>4, <2>1, DropPausesDoes
    <2>3. registered'[l] = Nobody /\ \A k \in Labels \ {l} : registered'[k] = registered[k]
      BY <1>1, <2>1, <2>2 DEF DirectoryTypeOK
    <2>4. job'.at = "pausing" /\ job'.label = l /\ job'.who = Nobody /\ job'.candidate = Nobody
      BY <2>2 DEF NoJob
    <2>5. JobFits'
      BY <2>3, <2>4 DEF JobFits, JobIdle, JobStarts, JobSettles, JobTearsDown, JobRejoins,
             JobPauses, Stage, Starting, TearingDown, Rejoining
    <2>6. SeatOrDebt'
      BY <2>2, <2>3 DEF Accounts, SeatOrDebt
    <2>7. OneSeat'
      BY <2>3, <2>4 DEF Accounts, OneSeat
    <2>8. ASSUME NEW t \in Objects, Active(object'[t]) PROVE \E k \in Labels : t \in {registered'[k], debt'[k]}
      <3>1. t # s
        BY <2>2, <2>8 DEF SameButBound, SameState, Active, Unused
      <3>2. Active(object[t])
        BY <2>2, <2>8, <3>1 DEF Elsewhere, SameButBound, SameState, Active
      <3>3. PICK k \in Labels : t \in {registered[k], debt[k]}
        BY <1>1, <1>4, <3>2, DirectoryBounds DEF Accounts, ActiveAccounted, Accounted
      <3> QED BY <1>1, <2>1, <2>2, <2>3, <3>1, <3>3
    <2>9. ActiveAccounted'
      BY <2>8 DEF ActiveAccounted, Accounted
    <2> QED BY <2>2, <2>5, <2>6, <2>7, <2>9 DEF Accounts
  <1> QED BY <1>2, <1>3, <1>4 DEF DropEnds

\* A retirement goes on to the next label or empties the seats it has retired.
LEMMA AccountsOfRetired ==
    ASSUME Accounts, RetireEnds
    PROVE  Accounts'
  <1>1. /\ job.who \in Objects /\ job.who = registered[job.label] /\ job.label \in Labels
        /\ job \in JobType /\ DirectoryTypeOK /\ job.todo \subseteq Seated
        /\ job.candidate = Nobody /\ job.kind \in {"stop", "bounce", "delete"}
    BY JobParts DEF RetireEnds, Accounts, JobFits, JobTearsDown, Stage, TearingDown, JobAt
  <1>2. CASE job.todo \ {job.label} # {}
    <2>1. PICK s, n \in Objects, next \in job.todo \ {job.label} :
                /\ s = job.who /\ n = registered[next]
                /\ \A t \in Objects \ {s, n} : SameButBound(object[t], object'[t])
                /\ object'[s].state = "down" /\ ~object'[s].live
                /\ SameState(object[n], object'[n])
                /\ job' = [job EXCEPT !.at = "quiescing", !.label = next, !.who = n,
                                      !.todo = job.todo \ {job.label}]
                /\ DirectoryTypeOK' /\ UNCHANGED <<registered, debt>>
      BY <1>2, RetireOneDoes
    <2>2. /\ job'.at = "quiescing" /\ job'.kind = job.kind /\ job'.label = next
          /\ job'.who = n /\ job'.candidate = Nobody /\ job'.todo = job.todo \ {job.label}
      BY <1>1, <2>1 DEF JobType
    <2>3. JobTearsDown'
      BY <1>1, <2>1, <2>2 DEF JobTearsDown, Seated
    <2>4. JobFits'
      BY <2>2, <2>3 DEF JobFits, JobIdle, JobStarts, JobSettles, JobRejoins, JobPauses, Stage,
                        Starting, Rejoining
    <2>5. SeatOrDebt' /\ OneSeat'
      BY <1>1, <2>1, <2>2 DEF Accounts, SeatOrDebt, OneSeat
    <2>6. \A t \in Objects : Active(object'[t]) => Active(object[t])
      BY <2>1 DEF SameButBound, SameState, Active
    <2>7. ActiveAccounted'
      BY <1>1, <2>1, <2>6, DirectoryBounds DEF Accounts, ActiveAccounted, Accounted
    <2> QED BY <2>1, <2>4, <2>5, <2>7 DEF Accounts
  <1>3. CASE job.todo \ {job.label} = {}
    <2>1. PICK s \in Objects :
            /\ s = job.who /\ SameButBound(Unused, object'[s])
            /\ \A t \in Objects \ {s} :
                 \/ SameButBound(Unused, object'[t])
                 \/ /\ SameButBound(object[t], object'[t])
                    /\ ~\E m \in Labels : registered[m] = t /\ registered'[m] = Nobody
      BY <1>3, RetireLastDoes
    <2>2. /\ registered' = IF job.kind = "delete" THEN [registered EXCEPT ![job.label] = Nobody]
                           ELSE [m \in Labels |-> Nobody]
          /\ job' \in {NoJob, [NoJob EXCEPT !.kind = "start", !.at = "pausing"]}
          /\ job' # NoJob => job.kind = "bounce"
          /\ DirectoryTypeOK' /\ UNCHANGED debt
      BY <1>3, RetireLastDoes
    <2>3. \A k \in Labels : registered'[k] \in {registered[k], Nobody}
      BY <1>1, <2>2 DEF DirectoryTypeOK
    <2>4. \A k \in Labels : registered'[k] = Nobody \/ debt'[k] = Nobody
      BY <2>2, <2>3 DEF Accounts, SeatOrDebt
    <2>5. \A k, l \in Labels : registered'[k] = registered'[l] => k = l \/ registered'[k] = Nobody
      BY <2>3 DEF Accounts, OneSeat
    <2>6. ASSUME NEW t \in Objects, Active(object'[t])
          PROVE  \E k \in Labels : t \in {registered'[k], debt'[k]}
      <3>1. ~SameButBound(Unused, object'[t])
        BY <2>6 DEF SameButBound, SameState, Active, Unused
      <3>2. t # s /\ Active(object[t])
        BY <2>1, <2>6, <3>1 DEF SameButBound, SameState, Active
      <3>3. PICK k \in Labels : t \in {registered[k], debt[k]}
        BY <1>1, <3>2, DirectoryBounds DEF Accounts, ActiveAccounted, Accounted
      <3>4. CASE t = debt[k]
        BY <2>2, <3>4
      <3>5. CASE t = registered[k]
        <4>1. registered'[k] = t
          <5>1. ~(\E m \in Labels : registered[m] = t /\ registered'[m] = Nobody)
            BY <2>1, <3>1, <3>2
          <5> QED BY <2>3, <3>5, <5>1
        <4> QED BY <4>1
      <3> QED BY <3>3, <3>4, <3>5
    <2>7. CASE job' = NoJob
      BY <2>2, <2>4, <2>5, <2>6, <2>7, AccountsFree
    <2>8. CASE job' # NoJob
      <3>1. job'.at = "pausing" /\ job'.label = Main /\ job'.who = Nobody /\ job'.candidate = Nobody
        BY <2>2, <2>8 DEF NoJob
      <3>2. registered'[Main] = Nobody
        BY <2>2, <2>8, DirectoryBounds
      <3>3. JobFits'
        BY <3>1, <3>2 DEF JobFits, JobIdle, JobStarts, JobSettles, JobTearsDown, JobRejoins,
               JobPauses, Stage, Starting, TearingDown, Rejoining
      <3>4. SeatOrDebt' /\ OneSeat' /\ ActiveAccounted'
        BY <2>4, <2>5, <2>6, <3>1 DEF SeatOrDebt, OneSeat, ActiveAccounted, Accounted
      <3> QED BY <2>2, <3>3, <3>4 DEF Accounts
    <2> QED BY <2>7, <2>8
  <1> QED BY <1>2, <1>3

-----------------------------------------------------------------------------
\* At first there is no process.
LEMMA AccountsAtFirst ==
    ASSUME DirectoryInit
    PROVE  Accounts
  <1>1. object \in ObjType /\ \A s \in Objects : ~Active(object[s])
    BY DirectoryBounds DEF DirectoryInit, NothingStarted, ObjType, Active, Unused
  <1>2. MapsOK
    BY DEF DirectoryInit, NothingStarted, MapsOK
  <1>3. HandlesOK
    BY DirectoryBounds DEF DirectoryInit, NothingStarted, HandlesOK, None
  <1>4. ConfigOK
    BY DirectoryBounds DEF DirectoryInit, NothingStarted, ConfigOK, Classes
  <1>5. DirectoryTypeOK
    BY <1>1, <1>2, <1>3, <1>4, DirectoryBounds, TypeParts DEF DirectoryInit, NothingStarted
  <1>6. JobFits
    BY DEF DirectoryInit, NothingStarted, NoJob, JobFits, JobIdle, JobStarts, JobSettles,
           JobTearsDown, JobRejoins, JobPauses, Stage, Starting, TearingDown, Rejoining
  <1>7. SeatOrDebt /\ OneSeat /\ ActiveAccounted
    BY <1>1 DEF DirectoryInit, NothingStarted, SeatOrDebt, OneSeat, ActiveAccounted
  <1> QED BY <1>5, <1>6, <1>7 DEF Accounts

\* Every step keeps the account.
LEMMA AccountsNext ==
    ASSUME Accounts, [DirectoryNext]_directoryVars
    PROVE  Accounts'
  <1>1. ASSUME NEW s \in Objects,
               \/ Reports(s) \/ Hears(s) \/ PersistsPending(s) \/ Resets(s)
               \/ Breaks(s) \/ IdleSleeps(s) \/ Reconnects(s)
        PROVE  Accounts'
    BY <1>1, AccountsOfSessions
  <1>2. CASE Resurrects
    BY <1>2, AccountsOfMain
  <1>3. CASE ChangesClass \/ ChangesEffort
    BY <1>3, AccountsOfEdits
  <1>4. CASE Arrives
    BY <1>4, AccountsOfArrival
  <1>5. CASE LaunchEnds
    BY <1>5, AccountsOfLaunch
  <1>6. CASE LaunchFails
    BY <1>6, AccountsOfFailure
  <1>7. CASE SettleEnds
    BY <1>7, AccountsOfSettled
  <1>8. CASE SettleFails \/ QuiesceFails \/ DropFails \/ ReviveEnds \/ ReviveFails \/ PauseFails
    BY <1>8, AccountsOfEnds
  <1>9. CASE QuiesceEnds
    BY <1>9, AccountsOfQuiesced
  <1>10. CASE DropEnds
    BY <1>10, AccountsOfDrop
  <1>11. CASE RetireEnds
    BY <1>11, AccountsOfRetired
  <1>12. CASE PauseEnds
    BY <1>12, AccountsOfColdStart, JobParts
       DEF PauseEnds, Accounts, JobFits, JobPauses, Stage, JobAt
  <1>13. ASSUME NEW l \in Labels, Ensures(l) \/ Deletes(l) \/ \E m \in Labels : Renames(l, m)
         PROVE  Accounts'
    BY <1>13, AccountsOfEnsure, AccountsOfDelete, AccountsOfRename
  <1>14. ASSUME NEW l \in Labels, Restarts("fresh", l) \/ Restarts("recover", l)
         PROVE  Accounts'
    BY <1>14, AccountsOfRestart
  <1>15. CASE Stops("stop") \/ Stops("bounce")
    BY <1>15, AccountsOfStops
  <1>16. CASE UNCHANGED directoryVars
    <2>1. DirectoryTypeOK'
      BY <1>16 DEF Accounts, DirectoryTypeOK, directoryVars
    <2>2. UNCHANGED <<registered, debt, job>> /\ object' = object
      BY <1>16 DEF directoryVars
    <2> QED BY <2>1, <2>2, AccountsStay
  <1> QED BY <1>1, <1>2, <1>3, <1>4, <1>5, <1>6, <1>7, <1>8, <1>9, <1>10, <1>11, <1>12, <1>13,
             <1>14, <1>15, <1>16 DEF DirectoryNext

\* The account is an invariant.
LEMMA AccountsAlways ==
    DirectorySpec => []Accounts
  BY AccountsAtFirst, AccountsNext, PTL DEF DirectorySpec

\* The daemon's maps and session objects are of their types.
THEOREM DirectoryTypeCorrect ==
    DirectorySpec => []DirectoryTypeOK
  <1>1. Accounts => DirectoryTypeOK
    BY DEF Accounts
  <1> QED BY <1>1, AccountsAlways, PTL

\* Of the session objects a label accounts for, one has a process.
LEMMA OnePerLabel ==
    ASSUME Accounts, NEW l \in Labels
    PROVE  Cardinality({s \in Accounted(l) \ {Nobody} : object[s].live}) <= 1
  <1> DEFINE Lives == {s \in Accounted(l) \ {Nobody} : object[s].live}
  <1>1. \A s, t \in Lives : s = t
    <2>1. CASE job.label = l /\ job.candidate # Nobody
      <3>1. \/ Stage(Starting)
            \/ Stage(TearingDown) /\ ~object[job.candidate].live
        BY <2>1, JobParts DEF Accounts, JobFits, JobIdle, JobStarts, JobSettles, JobTearsDown, JobRejoins,
               JobPauses, Stage, JobStages, Starting, TearingDown, Rejoining, NoJob, Active
      <3>2. CASE Stage(Starting)
        BY <2>1, <3>2 DEF Accounts, JobFits, JobStarts, Accounted
      <3>3. CASE ~object[job.candidate].live
        BY <3>3 DEF Accounts, SeatOrDebt, Accounted
      <3> QED BY <3>1, <3>2, <3>3
    <2>2. CASE ~(job.label = l /\ job.candidate # Nobody)
      BY <2>2 DEF Accounts, SeatOrDebt, Accounted
    <2> QED BY <2>1, <2>2
  <1>2. CASE Lives = {}
    BY <1>2, FS_EmptySet
  <1>3. CASE Lives # {}
    <2>1. PICK s : s \in Lives
      BY <1>3
    <2>2. Lives = {s}
      BY <1>1, <2>1
    <2>3. Cardinality({s}) = 1
      BY FS_Singleton
    <2> QED BY <2>2, <2>3
  <1> QED BY <1>2, <1>3

\* Each process that may be running is the registered session's, the debt's or the
\* candidate's of one label, and no label has two.
THEOREM LiveIsAccountedHolds ==
    DirectorySpec => []LiveIsAccounted
  <1>1. Accounts => LiveIsAccounted
    BY OnePerLabel DEF Accounts, ActiveAccounted, Active, LiveIsAccounted
  <1> QED BY <1>1, AccountsAlways, PTL

-----------------------------------------------------------------------------
(* Whose handles they are.                                                   *)

\* Session s is seated at label l, or about to be.
Holds(l, s) ==
    /\ s # Nobody
    /\ registered[l] = s \/ (Stage(Starting) /\ job.label = l /\ job.candidate = s)

OwnerHolds == \A l \in Labels : owner[l] # Nobody => Holds(l, owner[l])

LeavingDisowns == \A l \in Labels : Leaving(l) => owner[l] = Nobody

\* What a stop has retired, or never had to, has no owner.
StopDisowns ==
    Stage(TearingDown) /\ job.kind \in {"stop", "bounce"} =>
        \A l \in Labels \ job.todo : owner[l] = Nobody

Owners == OwnerHolds /\ LeavingDisowns /\ StopDisowns

-----------------------------------------------------------------------------
(* Which conversations can still come back.                                  *)

Sdk == runtime = "claude_sdk"

\* The conversations that label l could resume.
Trace(l) ==
    {stored[l]} \cup {object[s].conv : s \in {t \in Objects : Holds(l, t)}}
                \cup {object[s].handle : s \in {t \in Objects : Holds(l, t)}}

\* The session may go on in its conversation without asking for another.
Goes(s) ==
    \/ object[s].state \in {"connected", "recovering"} \/ ~Revoked(s)
    \/ Stage({"rejoining"}) /\ s = job.who

Clear(s) ==
    /\ object[s].retired \/ object[s].handle \notin cleared
    /\ Goes(s) => object[s].conv \notin cleared

TracesBegun == cleared \subseteq 1..conversations /\ \A l \in Labels : Trace(l) \subseteq 0..conversations
TracesApart == \A k, l \in Labels : k # l => Trace(k) \cap Trace(l) \subseteq {None}
NotCleared ==
    \A l \in Labels : stored[l] \notin cleared /\ \A s \in Objects : Holds(l, s) => Clear(s)

NoPending == \A s \in Objects : object[s].pending = None

\* A session torn down was told not to recover, one to be dropped for good is retired, and
\* a candidate that waits has resumed nothing.
Stopped ==
    Stage(TearingDown) =>
        /\ object[job.who].inhibited
        /\ Stage({"dropping"}) /\ job.kind \in {"stop", "bounce", "delete"} => object[job.who].retired
        /\ job.kind = "replace" =>
             object[job.candidate].conv = None /\ object[job.candidate].handle = None

Traces == TracesBegun /\ TracesApart /\ NotCleared

-----------------------------------------------------------------------------
(* A handle's owner is the session seated at its label, or about to be.      *)

\* While nothing is launched, whoever owns a handle is seated at its label.
LEMMA OwnedSeats ==
    ASSUME Accounts, Owners, ~Stage(Starting)
    PROVE  \A k \in Labels : owner[k] # Nobody => registered[k] = owner[k]
  BY DEF Owners, OwnerHolds, Holds

\* Steps that leave the maps and the job's course alone, ...
LEMMA OwnersStay ==
    ASSUME Owners, UNCHANGED <<registered, owner, rebuild>>, job'.kind = job.kind, job'.at = job.at,
           job'.label = job.label, job'.candidate = job.candidate, job'.todo = job.todo
    PROVE  Owners'
  <1>1. OwnerHolds'
    BY DEF Owners, OwnerHolds, Holds, Stage
  <1>2. LeavingDisowns'
    BY DEF Owners, LeavingDisowns, Leaving, JobAt
  <1>3. StopDisowns'
    BY DEF Owners, StopDisowns, Stage
  <1> QED BY <1>1, <1>2, <1>3 DEF Owners

\* ... steps to where nothing is launched or torn down, ...
LEMMA OwnersFree ==
    ASSUME ~Stage(Starting)', ~Stage(TearingDown)',
           \A k \in Labels : owner'[k] # Nobody => registered'[k] = owner'[k]
    PROVE  Owners'
  <1>1. OwnerHolds'
    BY DEF OwnerHolds, Holds
  <1>2. LeavingDisowns'
    BY DEF LeavingDisowns, Leaving, JobAt, Stage, TearingDown
  <1>3. StopDisowns'
    BY DEF StopDisowns
  <1> QED BY <1>1, <1>2, <1>3 DEF Owners

\* ... steps that launch a candidate, ...
LEMMA OwnersLaunched ==
    ASSUME NEW l \in Labels, NEW s \in Objects,
           job'.at = "launching", job'.label = l, job'.candidate = s,
           \A k \in Labels : owner'[k] # Nobody =>
             registered'[k] = owner'[k] \/ (k = l /\ owner'[k] = s)
    PROVE  Owners'
  <1>1. OwnerHolds'
    BY DirectoryBounds DEF OwnerHolds, Holds, Stage, Starting
  <1>2. LeavingDisowns'
    BY DEF LeavingDisowns, Leaving, JobAt
  <1>3. StopDisowns'
    BY DEF StopDisowns, Stage, TearingDown
  <1> QED BY <1>1, <1>2, <1>3 DEF Owners

\* ... and steps that tear sessions down.
LEMMA OwnersTornDown ==
    ASSUME \A k \in Labels : owner'[k] # Nobody => registered'[k] = owner'[k],
           job'.at = "dropping" /\ (job'.kind = "fresh" \/ (rebuild' /\ job'.kind \in {"recover", "replace"}))
             => owner'[job'.label] = Nobody,
           job'.kind \in {"stop", "bounce"} => \A k \in Labels \ job'.todo : owner'[k] = Nobody
    PROVE  Owners'
  <1>1. OwnerHolds'
    BY DEF OwnerHolds, Holds
  <1>2. LeavingDisowns'
    BY DEF LeavingDisowns, Leaving, JobAt
  <1>3. StopDisowns'
    BY DEF StopDisowns
  <1> QED BY <1>1, <1>2, <1>3 DEF Owners

\* A session's own steps change no owner.
LEMMA OwnersOfSessions ==
    ASSUME Owners,
           \/ \E s \in Objects : \/ Reports(s) \/ Hears(s) \/ PersistsPending(s) \/ Resets(s)
                                 \/ Breaks(s) \/ IdleSleeps(s) \/ Reconnects(s)
           \/ Resurrects \/ ChangesClass \/ UNCHANGED directoryVars
    PROVE  Owners'
  <1>1. UNCHANGED <<registered, owner, rebuild, job>>
    BY DEF Reports, Hears, PersistsPending, Resets, Breaks, IdleSleeps, Reconnects, Resurrects,
           ChangesClass, maps, config, directoryVars
  <1> QED BY <1>1, OwnersStay

\* Nor does an edit during a launch.
LEMMA OwnersOfEdit ==
    ASSUME Accounts, Owners, ChangesEffort
    PROVE  Owners'
  <1>1. /\ UNCHANGED <<registered, owner, rebuild>> /\ job' = [job EXCEPT !.outdated = TRUE]
        /\ job \in JobType
    BY JobParts DEF ChangesEffort, maps, Accounts
  <1>2. /\ job'.kind = job.kind /\ job'.at = job.at
        /\ job'.label = job.label /\ job'.candidate = job.candidate /\ job'.todo = job.todo
    BY <1>1 DEF JobType
  <1> QED BY <1>1, <1>2, OwnersStay

\* A candidate that arrives is still about to be seated.
LEMMA OwnersOfArrival ==
    ASSUME Accounts, Owners, Arrives
    PROVE  Owners'
  <1>1. UNCHANGED <<registered, owner, rebuild>> /\ job.at \in {"launching", "reviving"} /\ job \in JobType
    BY JobParts DEF Arrives, maps, config, Accounts
  <1>2. /\ job'.at = IF JobAt("launching") THEN "greeting" ELSE "rejoining"
        /\ job'.kind = job.kind /\ job'.label = job.label /\ job'.candidate = job.candidate
    BY <1>1 DEF Arrives, JobType
  <1>3. CASE JobAt("launching")
    <2>1. OwnerHolds'
      BY <1>1, <1>2, <1>3 DEF Owners, OwnerHolds, Holds, Stage, Starting, JobAt
    <2>2. LeavingDisowns' /\ StopDisowns'
      BY <1>2, <1>3 DEF LeavingDisowns, Leaving, StopDisowns, JobAt, Stage, TearingDown
    <2> QED BY <2>1, <2>2 DEF Owners
  <1>4. CASE ~JobAt("launching")
    <2>1. ~Stage(Starting)
      BY <1>1, <1>4 DEF Stage, Starting, JobAt
    <2>2. \A k \in Labels : owner'[k] # Nobody => registered'[k] = owner'[k]
      BY <1>1, <2>1, OwnedSeats
    <2>3. ~Stage(Starting)' /\ ~Stage(TearingDown)'
      BY <1>2, <1>4 DEF Stage, Starting, TearingDown
    <2> QED BY <2>2, <2>3, OwnersFree
  <1> QED BY <1>3, <1>4

\* A candidate is seated, or no longer the owner.
LEMMA OwnersOfLaunch ==
    ASSUME Accounts, Owners, LaunchEnds \/ LaunchFails
    PROVE  Owners'
  <1>1. PICK s, l : s = job.candidate /\ l = job.label
    OBVIOUS
  <1>2. l \in Labels /\ registered[l] = Nobody /\ DirectoryTypeOK /\ job \in JobType
    BY <1>1, JobParts DEF LaunchEnds, LaunchFails, Accounts, JobFits, JobStarts, Stage, Starting, JobAt
  <1>3. \A k \in Labels : owner[k] # Nobody => registered[k] = owner[k] \/ (k = l /\ owner[k] = s)
    BY <1>1 DEF Owners, OwnerHolds, Holds
  <1>4. CASE LaunchEnds
    <2>1. registered' = [registered EXCEPT ![l] = s] /\ job' = NoJob /\ UNCHANGED owner
      BY <1>1, <1>4 DEF LaunchEnds
    <2>2. \A k \in Labels : owner'[k] # Nobody => registered'[k] = owner'[k]
      BY <1>2, <1>3, <2>1 DEF DirectoryTypeOK
    <2>3. ~Stage(Starting)' /\ ~Stage(TearingDown)'
      BY <2>1 DEF Stage, Starting, TearingDown, NoJob
    <2> QED BY <2>2, <2>3, OwnersFree
  <1>5. CASE LaunchFails
    <2>1. owner' = [owner EXCEPT ![l] = Nobody] /\ UNCHANGED registered /\ job'.at = "clearing"
      BY <1>1, <1>2, <1>5 DEF LaunchFails, JobType
    <2>2. \A k \in Labels : owner'[k] # Nobody => registered'[k] = owner'[k]
      BY <1>2, <1>3, <2>1 DEF DirectoryTypeOK
    <2>3. ~Stage(Starting)' /\ ~Stage(TearingDown)'
      BY <2>1 DEF Stage, Starting, TearingDown
    <2> QED BY <2>2, <2>3, OwnersFree
  <1> QED BY <1>4, <1>5

\* A job that ends or fails leaves the owners it has.
LEMMA OwnersOfEnds ==
    ASSUME Accounts, Owners,
           SettleFails \/ QuiesceFails \/ DropFails \/ ReviveEnds \/ ReviveFails \/ PauseFails
    PROVE  Owners'
  <1>1. /\ job' = NoJob /\ UNCHANGED <<registered, owner>>
        /\ job.at \in {"settling", "clearing", "quiescing", "dropping", "reviving", "rejoining", "pausing"}
    BY DEF SettleFails, QuiesceFails, DropFails, ReviveEnds, ReviveFails, PauseFails, maps, JobAt
  <1>2. ~Stage(Starting)
    BY <1>1 DEF Stage, Starting
  <1>3. ~Stage(Starting)' /\ ~Stage(TearingDown)'
    BY <1>1 DEF Stage, Starting, TearingDown, NoJob
  <1> QED BY <1>1, <1>2, <1>3, OwnedSeats, OwnersFree

\* A candidate owns the handle of the label it is started for.
LEMMA OwnersOfSpawn ==
    ASSUME Accounts, Owners, ~Stage(Starting), NEW l \in Labels, NEW f \in ObjType, Spawns(l, f),
           job.candidate = Nobody, job.who = Nobody, UNCHANGED registered
    PROVE  Owners'
  <1>1. PICK s : s = Fresh
    OBVIOUS
  <1>2. s \in Objects
    BY <1>1, FreshIs
  <1>3. /\ \A k \in Labels : owner'[k] = IF k = l THEN s ELSE owner[k]
        /\ job'.at = "launching" /\ job'.label = l /\ job'.candidate = s
    BY <1>1, SpawnsDoes
  <1>4. \A k \in Labels : owner'[k] # Nobody =>
          registered'[k] = owner'[k] \/ (k = l /\ owner'[k] = s)
    BY <1>3, OwnedSeats
  <1> QED BY <1>2, <1>3, <1>4, OwnersLaunched

\* A start settles a debt first, or launches.
LEMMA OwnersOfColdStart ==
    ASSUME Accounts, Owners, ~Stage(Starting), NEW l \in Labels, job.candidate = Nobody, job.who = Nobody,
           ColdStarts(l)
    PROVE  Owners'
  <1>1. CASE debt[l] = Nobody
    BY <1>1, OwnersOfSpawn, JobParts DEF ColdStarts, Accounts
  <1>2. CASE debt[l] # Nobody
    <2>1. /\ UNCHANGED <<registered, owner>>
          /\ job' = [NoJob EXCEPT !.kind = "start", !.at = "settling", !.label = l]
      BY <1>2 DEF ColdStarts, maps
    <2>2. ~Stage(Starting)' /\ ~Stage(TearingDown)'
      BY <2>1 DEF Stage, Starting, TearingDown, NoJob
    <2> QED BY <2>1, <2>2, OwnedSeats, OwnersFree
  <1> QED BY <1>1, <1>2

\* A renamed session takes the ownership along, the old label has none.
LEMMA OwnersOfMove ==
    ASSUME Accounts, Owners, ~Stage(Starting), NEW k \in Labels, registered[k] # Nobody,
           NEW m \in Labels, registered[m] = Nobody, NEW f \in ObjType, Moves(registered[k], m, f)
    PROVE  Owners'
  <1>1. PICK s : s = registered[k]
    OBVIOUS
  <1>2. s \in Objects /\ DirectoryTypeOK
    BY <1>1, JobParts DEF Accounts
  <1>3. PICK l \in Labels :
             /\ registered[l] = s /\ job' = NoJob
             /\ registered' = [registered EXCEPT ![l] = Nobody, ![m] = s]
             /\ owner' = [owner EXCEPT ![l] = Nobody, ![m] = s]
    BY <1>1, <1>2, MovesDoes
  <1>4. l # m
    BY <1>1, <1>3
  <1>5. /\ owner'[l] = Nobody /\ owner'[m] = s /\ registered'[m] = s
        /\ \A n \in Labels \ {l, m} : owner'[n] = owner[n] /\ registered'[n] = registered[n]
    BY <1>2, <1>3, <1>4 DEF DirectoryTypeOK
  <1>6. \A n \in Labels : owner'[n] # Nobody => registered'[n] = owner'[n]
    BY <1>5, OwnedSeats
  <1>7. ~Stage(Starting)' /\ ~Stage(TearingDown)'
    BY <1>3 DEF Stage, Starting, TearingDown, NoJob
  <1> QED BY <1>6, <1>7, OwnersFree

\* A settled debt owned nothing.
LEMMA OwnersOfSettled ==
    ASSUME Accounts, Owners, SettleEnds
    PROVE  Owners'
  <1>1. PICK l, d : l = job.label /\ d = debt[l]
    OBVIOUS
  <1>2. /\ l \in Labels /\ d \in Objects /\ registered[l] = Nobody /\ job.candidate = Nobody
        /\ DirectoryTypeOK
    BY <1>1, JobParts DEF SettleEnds, Accounts, JobFits, JobSettles, Stage
  <1>3. PICK gone : gone = [object EXCEPT ![d] = Unused]
    OBVIOUS
  <1>4. gone \in ObjType
    <2>1. object \in ObjType /\ Unused \in SessionObject
      BY <1>2, JobParts, DirectoryBounds
    <2> QED BY <1>2, <1>3, <2>1 DEF ObjType
  <1>5. ~Stage(Starting)
    BY DEF SettleEnds, Stage, Starting
  <1>6. CASE JobAt("clearing")
    <2>1. job' = NoJob /\ UNCHANGED <<registered, owner>>
      BY <1>6 DEF SettleEnds, JobAt
    <2>2. ~Stage(Starting)' /\ ~Stage(TearingDown)'
      BY <2>1 DEF Stage, Starting, TearingDown, NoJob
    <2> QED BY <1>5, <2>1, <2>2, OwnedSeats, OwnersFree
  <1>7. CASE JobAt("settling") /\ job.kind = "start"
    <2>1. Spawns(l, gone) /\ UNCHANGED registered
      BY <1>1, <1>3, <1>7 DEF SettleEnds, JobAt
    <2>2. job.who = Nobody
      BY <1>7 DEF Accounts, JobFits, JobSettles, Stage, JobAt
    <2> QED BY <1>2, <1>4, <1>5, <2>1, <2>2, OwnersOfSpawn
  <1>8. CASE JobAt("settling") /\ job.kind # "start"
    <2>1. Moves(job.who, l, gone)
      BY <1>1, <1>3, <1>8 DEF SettleEnds, JobAt
    <2>2. PICK k \in Labels : registered[k] = job.who /\ job.who # Nobody
      BY <1>8 DEF Accounts, JobFits, JobSettles, Stage, JobAt
    <2>3. Moves(registered[k], l, gone) /\ registered[k] # Nobody
      BY <2>1, <2>2
    <2> QED BY <1>2, <1>4, <1>5, <2>3, OwnersOfMove
  <1> QED BY <1>6, <1>7, <1>8 DEF SettleEnds, JobAt

\* A restart or a retirement begins with the owners there are.
LEMMA OwnersOfQuiesce ==
    ASSUME Accounts, Owners, Unlocked, NEW l, NEW kind, NEW c, NEW todo,
           kind \in {"stop", "bounce"} => todo = Seated,
           Quiesces(kind, l, c, todo)
    PROVE  Owners'
  <1>1. ~Stage(Starting)
    BY DEF Unlocked, NoJob, Stage, Starting
  <1>2. /\ UNCHANGED <<registered, owner>>
        /\ job'.kind = kind /\ job'.at = "quiescing" /\ job'.todo = todo
    BY DEF Quiesces, maps
  <1>3. kind \in {"stop", "bounce"} => \A k \in Labels \ todo : owner'[k] = Nobody
    BY <1>1, <1>2, OwnedSeats DEF Seated
  <1> QED BY <1>1, <1>2, <1>3, OwnedSeats, OwnersTornDown

\* Requests to start, restart, retire or rename.
LEMMA OwnersOfRequests ==
    ASSUME Accounts, Owners, NEW l \in Labels,
           \/ Ensures(l) \/ Restarts("fresh", l) \/ Restarts("recover", l) \/ Deletes(l)
           \/ Stops("stop") \/ Stops("bounce") \/ \E m \in Labels : Renames(l, m)
    PROVE  Owners'
  <1>1. Unlocked /\ job.candidate = Nobody /\ job.who = Nobody /\ ~Stage(Starting)
    <2>1. Unlocked
      BY DEF Ensures, Restarts, Deletes, Stops, Renames
    <2> QED BY <2>1 DEF Unlocked, NoJob, Stage, Starting
  <1>2. CASE ColdStarts(l)
    BY <1>1, <1>2, OwnersOfColdStart
  <1>3. CASE \E kind \in {"wake", "fresh", "recover", "replace", "delete"}, c \in {Fresh, Nobody}, todo \in {{}, {l}} :
               \E k \in Labels : Quiesces(kind, k, c, todo)
    BY <1>1, <1>3, OwnersOfQuiesce
  <1>4. CASE \E kind \in {"stop", "bounce"} : Quiesces(kind, CHOOSE k \in Seated : TRUE, Nobody, Seated)
    BY <1>1, <1>4, OwnersOfQuiesce
  <1>5. CASE /\ l \in Seated
             /\ Rebinds(l, registered[l], object)
             /\ job' = [NoJob EXCEPT !.kind = "wake", !.at = "reviving", !.label = l,
                                     !.who = registered[l]]
             /\ UNCHANGED registered
    <2>1. owner' = [owner EXCEPT ![l] = registered[l]]
      BY <1>5 DEF Rebinds
    <2>2. \A k \in Labels : owner'[k] # Nobody => registered'[k] = owner'[k]
      BY <1>1, <1>5, <2>1, OwnedSeats DEF Accounts, DirectoryTypeOK
    <2>3. ~Stage(Starting)' /\ ~Stage(TearingDown)'
      BY <1>5 DEF Stage, Starting, TearingDown, NoJob
    <2> QED BY <2>2, <2>3, OwnersFree
  <1>6. CASE \E m \in Labels : Renames(l, m)
    <2>1. PICK m \in Labels : Renames(l, m)
      BY <1>6
    <2>2. CASE debt[m] = Nobody
      <3>1. /\ Moves(registered[l], m, object) /\ registered[l] # Nobody /\ registered[m] = Nobody
            /\ object \in ObjType
        BY <2>1, <2>2, JobParts DEF Renames, Seated, Accounts
      <3> QED BY <1>1, <3>1, OwnersOfMove
    <2>3. CASE debt[m] # Nobody
      <3>1. /\ UNCHANGED <<registered, owner>>
            /\ job' = [NoJob EXCEPT !.kind = "rename", !.at = "settling", !.label = m,
                                    !.who = registered[l]]
        BY <2>1, <2>3 DEF Renames
      <3>2. ~Stage(Starting)' /\ ~Stage(TearingDown)'
        BY <3>1 DEF Stage, Starting, TearingDown, NoJob
      <3> QED BY <1>1, <3>1, <3>2, OwnedSeats, OwnersFree
    <2> QED BY <2>2, <2>3
  <1>7. CASE Ensures(l)
    BY <1>2, <1>3, <1>5, <1>7 DEF Ensures, Replaces
  <1>8. CASE Restarts("fresh", l) \/ Restarts("recover", l)
    BY <1>3, <1>8 DEF Restarts, Replaces
  <1>9. CASE Deletes(l)
    <2>1. (CHOOSE k \in {l} : TRUE) \in Labels
      OBVIOUS
    <2> QED BY <1>3, <1>9, <2>1 DEF Deletes, Retires
  <1>10. CASE Stops("stop") \/ Stops("bounce")
    BY <1>4, <1>10 DEF Stops, Retires
  <1> QED BY <1>6, <1>7, <1>8, <1>9, <1>10

\* Who leaves a conversation behind gives up the handle before the process goes down.
LEMMA OwnersOfQuiesced ==
    ASSUME Accounts, Owners, QuiesceEnds
    PROVE  Owners'
  <1>1. PICK l : l = job.label
    OBVIOUS
  <1>2. /\ l \in Labels /\ DirectoryTypeOK /\ job \in JobType /\ JobAt("quiescing")
        /\ UNCHANGED <<registered, rebuild>>
    BY <1>1, JobParts DEF QuiesceEnds, Accounts, config
  <1>3. ~Stage(Starting) /\ Stage(TearingDown)
    BY <1>2 DEF Stage, Starting, TearingDown, JobAt
  <1>4. IF Leaver THEN owner' = [owner EXCEPT ![l] = Nobody] ELSE UNCHANGED owner
    BY <1>1, QuiesceEndsDoes DEF Disowned
  <1>5. \A k \in Labels : owner'[k] \in {owner[k], Nobody}
    BY <1>2, <1>4 DEF DirectoryTypeOK
  <1>6. \A k \in Labels : owner'[k] # Nobody => registered'[k] = owner'[k]
    BY <1>2, <1>3, <1>5, OwnedSeats
  <1>7. CASE job' = NoJob
    <2>1. ~Stage(Starting)' /\ ~Stage(TearingDown)'
      BY <1>7 DEF Stage, Starting, TearingDown, NoJob
    <2> QED BY <1>6, <2>1, OwnersFree
  <1>8. CASE job' # NoJob
    <2>1. job' = [job EXCEPT !.at = "dropping"] /\ ~(job.kind = "replace" /\ job.outdated)
      BY <1>8 DEF QuiesceEnds
    <2>2. job'.at = "dropping" /\ job'.kind = job.kind /\ job'.label = l /\ job'.todo = job.todo
      BY <1>1, <1>2, <2>1 DEF JobType
    <2>3. (job.kind = "fresh" \/ (rebuild /\ job.kind \in {"recover", "replace"})) => owner'[l] = Nobody
      BY <1>2, <1>4, <2>1 DEF Leaver, DirectoryTypeOK
    <2>4. job.kind \in {"stop", "bounce"} => \A k \in Labels \ job.todo : owner'[k] = Nobody
      BY <1>3, <1>5 DEF Owners, StopDisowns
    <2> QED BY <1>2, <1>6, <2>2, <2>3, <2>4, OwnersTornDown
  <1> QED BY <1>7, <1>8

\* A retained session, or the candidate that replaces it, takes the handle.
LEMMA OwnersOfDrop ==
    ASSUME Accounts, Owners, DropEnds
    PROVE  Owners'
  <1>1. PICK l, s : l = job.label /\ s = job.who
    OBVIOUS
  <1>2. /\ l \in Labels /\ s \in Objects /\ registered[l] = s
        /\ DirectoryTypeOK /\ job \in JobType /\ ~Stage(Starting)
    BY <1>1, JobParts DEF DropEnds, Accounts, JobFits, JobTearsDown, Stage, TearingDown, Starting, JobAt
  <1>3. \A k \in Labels : owner[k] # Nobody => registered[k] = owner[k]
    BY <1>2, OwnedSeats
  <1>4. CASE job.kind \in {"wake", "fresh", "recover"} /\ (job.kind = "recover" => rebuild)
    <2>1. /\ owner' = [owner EXCEPT ![l] = s] /\ job' = [job EXCEPT !.at = "reviving"]
          /\ UNCHANGED registered
      BY <1>1, <1>4, DropRetainedDoes
    <2>2. ~Stage(Starting)' /\ ~Stage(TearingDown)'
      BY <1>2, <2>1 DEF Stage, Starting, TearingDown, JobType
    <2>3. \A k \in Labels : owner'[k] # Nobody => registered'[k] = owner'[k]
      BY <1>2, <1>3, <2>1 DEF DirectoryTypeOK
    <2> QED BY <2>2, <2>3, OwnersFree
  <1>5. CASE job.kind = "replace"
    <2>1. PICK c : c = job.candidate
      OBVIOUS
    <2>2. /\ c \in Objects
          /\ registered' = [registered EXCEPT ![l] = Nobody] /\ owner' = [owner EXCEPT ![l] = c]
          /\ job'.at = "launching" /\ job'.label = l /\ job'.candidate = c
      BY <1>1, <1>5, <2>1, DropReplacedDoes
    <2>3. \A k \in Labels : owner'[k] # Nobody =>
            registered'[k] = owner'[k] \/ (k = l /\ owner'[k] = c)
      BY <1>2, <1>3, <2>2 DEF DirectoryTypeOK
    <2> QED BY <1>2, <2>2, <2>3, OwnersLaunched
  <1>6. CASE job.kind = "recover" /\ ~rebuild
    <2>1. /\ registered' = [registered EXCEPT ![l] = Nobody]
          /\ owner' = [owner EXCEPT ![l] = Nobody]
          /\ job' = [NoJob EXCEPT !.kind = "start", !.at = "pausing", !.label = l]
      BY <1>1, <1>6, DropPausesDoes DEF Disowned
    <2>2. ~Stage(Starting)' /\ ~Stage(TearingDown)'
      BY <2>1 DEF Stage, Starting, TearingDown, NoJob
    <2>3. \A k \in Labels : owner'[k] # Nobody => registered'[k] = owner'[k]
      BY <1>2, <1>3, <2>1 DEF DirectoryTypeOK
    <2> QED BY <2>2, <2>3, OwnersFree
  <1> QED BY <1>4, <1>5, <1>6 DEF DropEnds

\* A retired label has no owner, long before its seat is emptied.
LEMMA OwnersOfRetired ==
    ASSUME Accounts, Owners, RetireEnds
    PROVE  Owners'
  <1>1. PICK l, s : l = job.label /\ s = job.who
    OBVIOUS
  <1>2. /\ l \in Labels /\ s \in Objects /\ registered[l] = s /\ Stage(TearingDown)
        /\ DirectoryTypeOK /\ job \in JobType /\ ~Stage(Starting) /\ job.kind \in {"stop", "bounce", "delete"}
    BY <1>1, JobParts DEF RetireEnds, Accounts, JobFits, JobTearsDown, Stage, TearingDown, Starting, JobAt
  <1>3. \A k \in Labels : owner[k] # Nobody => registered[k] = owner[k]
    BY <1>2, OwnedSeats
  <1>4. owner' = [owner EXCEPT ![l] = Nobody]
    BY <1>1 DEF RetireEnds, Disowned
  <1>5. owner'[l] = Nobody /\ \A k \in Labels \ {l} : owner'[k] = owner[k]
    BY <1>2, <1>4 DEF DirectoryTypeOK
  <1>6. job.kind \in {"stop", "bounce"} => \A k \in Labels \ (job.todo \ {l}) : owner'[k] = Nobody
    BY <1>2, <1>5 DEF Owners, StopDisowns
  <1>7. CASE job.todo \ {l} # {}
    <2>1. PICK n \in Objects, next \in job.todo \ {l} :
            /\ job' = [job EXCEPT !.at = "quiescing", !.label = next, !.who = n, !.todo = job.todo \ {l}]
            /\ UNCHANGED registered
      BY <1>1, <1>7, RetireOneDoes
    <2>2. job'.at = "quiescing" /\ job'.kind = job.kind /\ job'.todo = job.todo \ {l}
      BY <1>2, <2>1 DEF JobType
    <2>3. \A k \in Labels : owner'[k] # Nobody => registered'[k] = owner'[k]
      BY <1>3, <1>5, <2>1
    <2> QED BY <1>6, <2>2, <2>3, OwnersTornDown
  <1>8. CASE job.todo \ {l} = {}
    <2>1. /\ registered' = IF job.kind = "delete" THEN [registered EXCEPT ![l] = Nobody]
                           ELSE [m \in Labels |-> Nobody]
          /\ job' \in {NoJob, [NoJob EXCEPT !.kind = "start", !.at = "pausing"]}
      BY <1>1, <1>8, RetireLastDoes
    <2>2. ~Stage(Starting)' /\ ~Stage(TearingDown)'
      <3>1. job'.at \in {"none", "pausing"}
        <4>1. CASE job' = NoJob
          BY <4>1 DEF NoJob
        <4>2. CASE job' = [NoJob EXCEPT !.kind = "start", !.at = "pausing"]
          BY <4>2 DEF NoJob
        <4> QED BY <2>1, <4>1, <4>2
      <3> QED BY <3>1 DEF Stage, Starting, TearingDown
    <2>3. CASE job.kind = "delete"
      <3>1. \A k \in Labels \ {l} : registered'[k] = registered[k]
        BY <1>2, <2>1, <2>3 DEF DirectoryTypeOK
      <3>2. \A k \in Labels : owner'[k] # Nobody => registered'[k] = owner'[k]
        BY <1>3, <1>5, <3>1
      <3> QED BY <2>2, <3>2, OwnersFree
    <2>4. CASE job.kind # "delete"
      <3>1. \A k \in Labels : owner'[k] = Nobody
        BY <1>2, <1>6, <1>8, <2>4
      <3> QED BY <2>2, <3>1, OwnersFree
    <2> QED BY <2>3, <2>4
  <1> QED BY <1>1, <1>7, <1>8

\* Every step keeps to the owners.
LEMMA OwnersNext ==
    ASSUME Accounts, Owners, [DirectoryNext]_directoryVars
    PROVE  Owners'
  <1>1. CASE \/ \E s \in Objects : \/ Reports(s) \/ Hears(s) \/ PersistsPending(s) \/ Resets(s)
                                   \/ Breaks(s) \/ IdleSleeps(s) \/ Reconnects(s)
             \/ Resurrects \/ ChangesClass \/ UNCHANGED directoryVars
    BY <1>1, OwnersOfSessions
  <1>2. CASE ChangesEffort
    BY <1>2, OwnersOfEdit
  <1>3. CASE Arrives
    BY <1>3, OwnersOfArrival
  <1>4. CASE LaunchEnds \/ LaunchFails
    BY <1>4, OwnersOfLaunch
  <1>5. CASE SettleEnds
    BY <1>5, OwnersOfSettled
  <1>6. CASE SettleFails \/ QuiesceFails \/ DropFails \/ ReviveEnds \/ ReviveFails \/ PauseFails
    BY <1>6, OwnersOfEnds
  <1>7. CASE QuiesceEnds
    BY <1>7, OwnersOfQuiesced
  <1>8. CASE DropEnds
    BY <1>8, OwnersOfDrop
  <1>9. CASE RetireEnds
    BY <1>9, OwnersOfRetired
  <1>10. CASE PauseEnds
    <2>1. /\ ColdStarts(job.label) /\ job.label \in Labels /\ ~Stage(Starting)
          /\ job.candidate = Nobody /\ job.who = Nobody
      BY <1>10, JobParts DEF PauseEnds, Accounts, JobFits, JobPauses, Stage, Starting, JobAt
    <2> QED BY <2>1, OwnersOfColdStart
  <1>11. ASSUME NEW l \in Labels,
           \/ Ensures(l) \/ Restarts("fresh", l) \/ Restarts("recover", l) \/ Deletes(l)
           \/ \E m \in Labels : Renames(l, m)
         PROVE  Owners'
    BY <1>11, OwnersOfRequests
  <1>12. CASE Stops("stop") \/ Stops("bounce")
    BY <1>12, OwnersOfRequests, DirectoryBounds
  <1> QED BY <1>1, <1>2, <1>3, <1>4, <1>5, <1>6, <1>7, <1>8, <1>9, <1>10, <1>11, <1>12 DEF DirectoryNext

-----------------------------------------------------------------------------
(* No conversation left behind can come back.                                *)

\* A session keeps its conversation and its handle or loses them, and nothing makes it
\* resume what it would not have.
Tame(s) ==
    /\ \/ object'[s].conv = None
       \/ object'[s].conv = object[s].conv /\ (Goes(s)' => Goes(s))
    /\ \/ object'[s].handle = None
       \/ object'[s].handle = object[s].handle /\ (object[s].retired => object'[s].retired)

\* Nobody but who is being revived gets its leave to go on from the job.
Unhelped(s) == Stage({"rejoining"})' /\ s = job'.who => Stage({"rejoining"}) /\ s = job.who

\* A session object that stays as it is, or is no longer used, is tame; ...
LEMMA TameIfAlike ==
    ASSUME NEW s \in Objects, Unhelped(s),
           SameButBound(object[s], object'[s]) \/ SameButBound(Unused, object'[s])
    PROVE  Tame(s)
  <1>1. CASE SameButBound(object[s], object'[s])
    BY <1>1 DEF Tame, Goes, Unhelped, Revoked, SameButBound, SameTalk, SameState, SameFate
  <1>2. CASE SameButBound(Unused, object'[s])
    BY <1>2 DEF Tame, SameButBound, SameTalk, Unused
  <1> QED BY <1>1, <1>2

\* ... so is one that keeps what it could resume and gains no leave to go on.
LEMMA TameIfSame ==
    ASSUME NEW s \in Objects, SameTalk(object[s], object'[s]), Goes(s)' => Goes(s),
           object[s].retired => object'[s].retired
    PROVE  Tame(s)
  BY DEF Tame, SameTalk

\* A session is held by one label, and a label holds one session.
LEMMA HoldsOne ==
    ASSUME Accounts
    PROVE  /\ \A k, l \in Labels, s \in Objects : Holds(k, s) /\ Holds(l, s) => k = l
           /\ \A l \in Labels, s, t \in Objects : Holds(l, s) /\ Holds(l, t) => s = t
  <1>1. \A k, l \in Labels, s \in Objects : Holds(k, s) /\ Holds(l, s) => k = l
    BY DEF Accounts, OneSeat, Holds
  <1>2. \A l \in Labels, s, t \in Objects : Holds(l, s) /\ Holds(l, t) => s = t
    BY DEF Accounts, JobFits, JobStarts, Holds
  <1> QED BY <1>1, <1>2

\* Conversations are numbers.
LEMMA BegunNumbers ==
    ASSUME Accounts
    PROVE  conversations \in Nat /\ None \in Nat
  BY DirectoryBounds DEF Accounts, DirectoryTypeOK, None

\* Steps after which every label has what it had, or less, ...
LEMMA TracesTame ==
    ASSUME Accounts, Traces, UNCHANGED cleared, conversations' \in {conversations, conversations + 1},
           \A k \in Labels : stored'[k] \in {stored[k], None},
           \A k \in Labels, s \in Objects : Holds(k, s)' => Holds(k, s) /\ Tame(s)
    PROVE  Traces'
  <1>1. conversations \in Nat /\ cleared \subseteq 1..conversations /\ None \notin cleared
    BY BegunNumbers DEF Traces, TracesBegun, None
  <1>2. \A k \in Labels : Trace(k)' \subseteq Trace(k) \cup {None}
    BY DEF Trace, Tame
  <1>3. TracesBegun'
    <2>1. 1..conversations \subseteq 1..conversations'
      BY <1>1
    <2>2. 0..conversations \subseteq 0..conversations' /\ None \in 0..conversations'
      BY <1>1 DEF None
    <2> QED BY <1>1, <1>2, <2>1, <2>2 DEF Traces, TracesBegun
  <1>4. TracesApart'
    BY <1>2 DEF Traces, TracesApart
  <1>5. NotCleared'
    <2>1. \A k \in Labels : stored'[k] \notin cleared'
      BY <1>1 DEF Traces, NotCleared
    <2>2. ASSUME NEW k \in Labels, NEW s \in Objects, Holds(k, s)' PROVE Clear(s)'
      <3>1. Clear(s) /\ Tame(s)
        BY <2>2 DEF Traces, NotCleared
      <3> QED BY <1>1, <3>1 DEF Clear, Tame
    <2> QED BY <2>1, <2>2 DEF NotCleared
  <1> QED BY <1>3, <1>4, <1>5 DEF Traces

\* ... and steps of one label: it may leave its conversations behind, and begin one.
LEMMA TracesFocus ==
    ASSUME Accounts, Traces, NEW l \in Labels,
           conversations' \in {conversations, conversations + 1},
           cleared' \subseteq cleared \cup (Trace(l) \ {None}),
           \A c \in Trace(l)' : c \in Trace(l) \cup {None} \/ (c = conversations' /\ c = conversations + 1),
           \A k \in Labels \ {l} : stored'[k] \in {stored[k], None},
           \A k \in Labels \ {l}, s \in Objects : Holds(k, s)' => Holds(k, s) /\ Tame(s),
           stored'[l] \notin cleared', \A s \in Objects : Holds(l, s)' => Clear(s)'
    PROVE  Traces'
  <1>1. /\ conversations \in Nat /\ cleared \subseteq 1..conversations
        /\ \A k \in Labels : Trace(k) \subseteq 0..conversations
    BY BegunNumbers DEF Traces, TracesBegun
  <1>2. \A k \in Labels \ {l} : Trace(k)' \subseteq Trace(k) \cup {None}
    BY DEF Trace, Tame
  <1>3. conversations' \in Nat /\ 0..conversations \subseteq 0..conversations' /\ None \in 0..conversations'
    BY <1>1 DEF None
  <1>4. cleared' \subseteq 1..conversations'
    <2>1. (0..conversations) \ {None} \subseteq 1..conversations'
      BY <1>1 DEF None
    <2>2. 1..conversations \subseteq 1..conversations'
      BY <1>1
    <2> QED BY <1>1, <2>1, <2>2
  <1>5. None \notin cleared'
    BY <1>3, <1>4 DEF None
  <1>6. TracesBegun'
    <2>1. Trace(l)' \subseteq 0..conversations'
      BY <1>1, <1>3
    <2>2. \A k \in Labels \ {l} : Trace(k)' \subseteq 0..conversations'
      BY <1>1, <1>2, <1>3
    <2> QED BY <1>4, <2>1, <2>2 DEF TracesBegun
  <1>7. conversations + 1 \notin 0..conversations
    BY <1>1
  <1>8. TracesApart'
    <2>1. \A k \in Labels \ {l} : Trace(k)' \cap Trace(l)' \subseteq {None}
      <3>1. ASSUME NEW k \in Labels \ {l}, NEW c \in Trace(k)', c \in Trace(l)' PROVE c = None
        <4>1. c \in Trace(k) \cup {None}
          BY <1>2, <3>1
        <4>2. CASE c \in Trace(l) \cup {None}
          BY <4>1, <4>2 DEF Traces, TracesApart
        <4>3. CASE c = conversations + 1
          <5>1. c \notin Trace(k)
            BY <1>1, <1>7, <4>3
          <5> QED BY <4>1, <5>1
        <4> QED BY <3>1, <4>2, <4>3
      <3> QED BY <3>1
    <2>2. \A k, m \in Labels \ {l} : k # m => Trace(k)' \cap Trace(m)' \subseteq {None}
      BY <1>2 DEF Traces, TracesApart
    <2> QED BY <2>1, <2>2 DEF TracesApart
  <1>9. NotCleared'
    <2>1. ASSUME NEW k \in Labels \ {l}, NEW c \in Trace(k), c \notin cleared PROVE c \notin cleared'
      <3>1. c \in Trace(l) => c = None
        BY <2>1 DEF Traces, TracesApart
      <3> QED BY <1>5, <2>1, <3>1
    <2>2. \A k \in Labels \ {l} : stored'[k] \notin cleared'
      <3>1. \A k \in Labels : stored[k] \in Trace(k) /\ stored[k] \notin cleared
        BY DEF Trace, Traces, NotCleared
      <3> QED BY <1>5, <2>1, <3>1
    <2>3. ASSUME NEW k \in Labels \ {l}, NEW s \in Objects, Holds(k, s)' PROVE Clear(s)'
      <3>1. Clear(s) /\ Tame(s) /\ Holds(k, s)
        BY <2>3 DEF Traces, NotCleared
      <3>2. object[s].conv \in Trace(k) /\ object[s].handle \in Trace(k)
        BY <3>1 DEF Trace
      <3>3. /\ object[s].conv \notin cleared => object[s].conv \notin cleared'
            /\ object[s].handle \notin cleared => object[s].handle \notin cleared'
        BY <2>1, <3>2
      <3> QED BY <1>5, <3>1, <3>3 DEF Clear, Tame
    <2> QED BY <2>2, <2>3 DEF NotCleared
  <1> QED BY <1>6, <1>8, <1>9 DEF Traces

\* A callback writes the row of the label that holds its session, or none.
LEMMA PersistsWhereHeld ==
    ASSUME Accounts, Owners, NEW s \in Objects, Persistable(s)
    PROVE  object[s].bound \in Labels /\ Holds(object[s].bound, s)
  <1>1. object[s].bound \in Labels
    BY JobParts DEF Accounts, Persistable, SessionObject
  <1>2. owner[object[s].bound] = s /\ s # Nobody
    BY DirectoryBounds DEF Persistable
  <1> QED BY <1>1, <1>2 DEF Owners, OwnerHolds

\* What a session leaves behind is what its label could have resumed.
LEMMA LeavesItsTrace ==
    ASSUME NEW l \in Labels, NEW s \in Objects, Holds(l, s)
    PROVE  LeftBehind(l, s) \subseteq Trace(l) \ {None}
  BY DEF LeftBehind, Trace

Remembers == Traces /\ NoPending /\ Stopped

\* Steps that tear nothing down.
LEMMA StoppedElse ==
    ASSUME ~Stage(TearingDown)'
    PROVE  Stopped'
  BY DEF Stopped

\* Steps in whose course the job stays.
LEMMA StoppedStay ==
    ASSUME Accounts, Stopped, UNCHANGED job, NEW s \in Objects, Elsewhere(s),
           object[s].inhibited => object'[s].inhibited, object[s].retired => object'[s].retired,
           Active(object[s])
    PROVE  Stopped'
  <1>1. CASE Stage(TearingDown)
    <2>1. /\ job.who \in Objects /\ job.candidate \in Objects \cup {Nobody}
          /\ job.kind = "replace" => job.candidate \in Objects \ {s}
      BY <1>1, JobParts DEF Accounts, JobFits, JobTearsDown
    <2>2. /\ object[job.who].inhibited => object'[job.who].inhibited
          /\ object[job.who].retired => object'[job.who].retired
      BY <2>1 DEF Elsewhere, SameButBound, SameFate
    <2>3. job.kind = "replace" => /\ object'[job.candidate].conv = object[job.candidate].conv
                                  /\ object'[job.candidate].handle = object[job.candidate].handle
      BY <2>1 DEF Elsewhere, SameButBound, SameTalk
    <2> QED BY <2>2, <2>3 DEF Stopped, Stage
  <1>2. CASE ~Stage(TearingDown)
    BY <1>2 DEF Stopped, Stage
  <1> QED BY <1>1, <1>2

\* A session's own step: all others are as they were.
LEMMA OthersTame ==
    ASSUME NEW s \in Objects, Elsewhere(s), \A t \in Objects \ {s} : Unhelped(t)
    PROVE  \A t \in Objects \ {s} : Tame(t)
  BY TameIfAlike DEF Elsewhere

\* Nothing new is pending.
LEMMA PendingLess ==
    ASSUME NoPending, \A t \in Objects :
             \/ object'[t].pending \in {None, object[t].pending}
             \/ SameButBound(object[t], object'[t]) \/ SameButBound(Unused, object'[t])
    PROVE  NoPending'
  <1>1. Unused.pending = None
    BY DEF Unused
  <1> QED BY <1>1 DEF NoPending, SameButBound, SameTalk

\* A session that starts a conversation leaves the row of its label as it is, or empties it
\* and has what it resumed left behind.
LEMMA StartsAnew ==
    ASSUME Accounts, Owners, Traces, NEW s \in Objects, Elsewhere(s),
           conversations' = conversations + 1,
           object'[s].conv = conversations + 1, object'[s].handle = None,
           \/ Persist(s, None) /\ Forgets(s)
           \/ UNCHANGED <<stored, cleared>>,
           \A k \in Labels, t \in Objects : Holds(k, t)' => Holds(k, t),
           \A t \in Objects \ {s} : Unhelped(t)
    PROVE  Traces'
  <1>1. \A t \in Objects \ {s} : Tame(t)
    BY OthersTame
  <1>2. \/ /\ Persistable(s) /\ stored' = [stored EXCEPT ![object[s].bound] = None]
           /\ cleared' = cleared \cup LeftBehind(object[s].bound, s)
        \/ UNCHANGED <<stored, cleared>>
    BY DEF Persist, Forgets
  <1>3. CASE \E l \in Labels : Holds(l, s)
    <2>1. PICK l \in Labels : Holds(l, s)
      BY <1>3
    <2>2. Persistable(s) => object[s].bound = l
      BY <2>1, PersistsWhereHeld, HoldsOne
    <2>3. \/ /\ stored' = [stored EXCEPT ![l] = None]
             /\ cleared' = cleared \cup LeftBehind(l, s)
          \/ UNCHANGED <<stored, cleared>>
      BY <1>2, <2>2
    <2>4. cleared' \subseteq cleared \cup (Trace(l) \ {None})
      BY <2>1, <2>3, LeavesItsTrace
    <2>5. /\ conversations \in Nat /\ cleared \subseteq 1..conversations
          /\ Trace(l) \subseteq 0..conversations /\ stored[l] \notin cleared
      BY BegunNumbers DEF Traces, TracesBegun, NotCleared
    <2>6. cleared' \subseteq 1..conversations
      <3>1. (0..conversations) \ {None} \subseteq 1..conversations
        BY <2>5 DEF None
      <3> QED BY <2>4, <2>5, <3>1
    <2>7. None \notin cleared' /\ conversations + 1 \notin cleared'
      BY <2>5, <2>6 DEF None
    <2>8. \A t \in Objects : Holds(l, t)' => t = s
      BY <2>1, HoldsOne
    <2>9. stored'[l] \in {stored[l], None} /\ \A k \in Labels \ {l} : stored'[k] = stored[k]
      BY <2>3 DEF Accounts, DirectoryTypeOK
    <2>10. \A c \in Trace(l)' : c \in Trace(l) \cup {None} \/ (c = conversations' /\ c = conversations + 1)
      <3>1. \A c \in Trace(l)' : c = stored'[l] \/ c = object'[s].conv \/ c = object'[s].handle
        BY <2>8 DEF Trace
      <3>2. stored[l] \in Trace(l)
        BY DEF Trace
      <3> QED BY <2>9, <3>1, <3>2
    <2>11. \A k \in Labels \ {l}, t \in Objects : Holds(k, t)' => Holds(k, t) /\ Tame(t)
      BY <1>1, <2>1, HoldsOne
    <2>12. stored'[l] \notin cleared'
      BY <2>3, <2>5, <2>7 DEF Accounts, DirectoryTypeOK
    <2>13. \A t \in Objects : Holds(l, t)' => Clear(t)'
      BY <2>7, <2>8 DEF Clear
    <2> QED BY <2>4, <2>9, <2>10, <2>11, <2>12, <2>13, TracesFocus
  <1>4. CASE ~\E l \in Labels : Holds(l, s)
    <2>1. ~Persistable(s)
      BY <1>4, PersistsWhereHeld
    <2>2. UNCHANGED <<stored, cleared>>
      BY <1>2, <2>1
    <2>3. \A k \in Labels, t \in Objects : Holds(k, t)' => Holds(k, t) /\ Tame(t)
      BY <1>1, <1>4
    <2> QED BY <2>2, <2>3, TracesTame
  <1> QED BY <1>3, <1>4

\* A report stores the conversation the session is in, which nobody has left.
LEMMA RemembersReport ==
    ASSUME Accounts, Owners, Remembers, NEW s \in Objects, Reports(s)
    PROVE  Remembers'
  <1>1. /\ Elsewhere(s) /\ SameState(object[s], object'[s]) /\ SameFate(object[s], object'[s])
        /\ object'[s].conv = object[s].conv /\ object'[s].handle = object[s].conv
        /\ object'[s].pending = object[s].pending
    BY ReportsDoes DEF Accounts
  <1>2. UNCHANGED <<registered, cleared, conversations, job>> /\ Persist(s, object[s].conv)
        /\ object[s].state = "connected"
    BY DEF Reports, maps
  <1>3. \A k \in Labels, t \in Objects : Holds(k, t)' <=> Holds(k, t)
    BY <1>2 DEF Holds, Stage
  <1>4. \A t \in Objects \ {s} : Tame(t)
    BY <1>1, <1>2, OthersTame DEF Unhelped, Stage
  <1>5. Traces'
    <2>1. CASE \E l \in Labels : Holds(l, s)
      <3>1. PICK l \in Labels : Holds(l, s)
        BY <2>1
      <3>2. Persistable(s) => object[s].bound = l
        BY <3>1, PersistsWhereHeld, HoldsOne
      <3>3. stored' = stored \/ stored' = [stored EXCEPT ![l] = object[s].conv]
        BY <1>2, <3>2 DEF Persist
      <3>4. stored'[l] \in {stored[l], object[s].conv} /\ \A k \in Labels \ {l} : stored'[k] = stored[k]
        BY <3>3 DEF Accounts, DirectoryTypeOK
      <3>5. object[s].conv \notin cleared /\ stored[l] \notin cleared
        BY <1>2, <3>1 DEF Remembers, Traces, NotCleared, Clear, Goes
      <3>6. \A t \in Objects : Holds(l, t)' => t = s
        BY <1>3, <3>1, HoldsOne
      <3>7. \A c \in Trace(l)' : c \in Trace(l)
        <4>1. \A c \in Trace(l)' : c = stored'[l] \/ c = object'[s].conv \/ c = object'[s].handle
          BY <3>6 DEF Trace
        <4>2. stored[l] \in Trace(l) /\ object[s].conv \in Trace(l)
          BY <3>1 DEF Trace
        <4> QED BY <1>1, <3>4, <4>1, <4>2
      <3>8. \A k \in Labels \ {l}, t \in Objects : Holds(k, t)' => Holds(k, t) /\ Tame(t)
        BY <1>3, <1>4, <3>1, HoldsOne
      <3>9. \A t \in Objects : Holds(l, t)' => Clear(t)'
        BY <1>1, <1>2, <3>5, <3>6 DEF Clear
      <3> QED BY <1>2, <3>4, <3>5, <3>7, <3>8, <3>9, TracesFocus DEF Remembers
    <2>2. CASE ~\E l \in Labels : Holds(l, s)
      <3>1. ~Persistable(s)
        BY <2>2, PersistsWhereHeld
      <3>2. UNCHANGED stored
        BY <1>2, <3>1 DEF Persist
      <3>3. \A k \in Labels, t \in Objects : Holds(k, t)' => Holds(k, t) /\ Tame(t)
        BY <1>3, <1>4, <2>2
      <3> QED BY <1>2, <3>2, <3>3, TracesTame DEF Remembers
    <2> QED BY <2>1, <2>2
  <1>6. NoPending'
    BY <1>1, PendingLess DEF Remembers, Elsewhere
  <1>7. Stopped'
    BY <1>1, <1>2, StoppedStay DEF Remembers, SameFate, Active
  <1> QED BY <1>5, <1>6, <1>7 DEF Remembers

\* A reset leaves the old conversation for a new one.
LEMMA RemembersReset ==
    ASSUME Accounts, Owners, Remembers, NEW s \in Objects, Resets(s)
    PROVE  Remembers'
  <1>1. /\ Elsewhere(s) /\ SameFate(object[s], object'[s])
        /\ object'[s].conv = conversations + 1 /\ object'[s].handle = None
        /\ object'[s].pending = object[s].pending
    BY ResetsDoes DEF Accounts
  <1>2. /\ UNCHANGED <<registered, job>> /\ Persist(s, None) /\ Forgets(s)
        /\ conversations' = conversations + 1 /\ object[s].state = "connected"
    BY DEF Resets, maps
  <1>3. \A k \in Labels, t \in Objects : Holds(k, t)' => Holds(k, t)
    BY <1>2 DEF Holds, Stage
  <1>4. \A t \in Objects \ {s} : Unhelped(t)
    BY <1>2 DEF Unhelped, Stage
  <1>5. Traces'
    BY <1>1, <1>2, <1>3, <1>4, StartsAnew DEF Remembers
  <1>6. NoPending'
    BY <1>1, PendingLess DEF Remembers, Elsewhere
  <1>7. Stopped'
    BY <1>1, <1>2, StoppedStay DEF Remembers, SameFate, Active
  <1> QED BY <1>5, <1>6, <1>7 DEF Remembers

\* A session that breaks, sleeps or reconnects stays in its conversation.
LEMMA RemembersChange ==
    ASSUME Accounts, Owners, Remembers, NEW s \in Objects, Breaks(s) \/ IdleSleeps(s) \/ Reconnects(s)
    PROVE  Remembers'
  <1>1. /\ Elsewhere(s) /\ SameTalk(object[s], object'[s]) /\ SameFate(object[s], object'[s])
    BY BreaksDoes, IdleSleepsDoes, ReconnectsDoes DEF Accounts
  <1>2. UNCHANGED <<registered, job>> /\ UNCHANGED handles /\ object[s].state \in {"connected", "recovering"}
    BY DEF Breaks, IdleSleeps, Reconnects, maps
  <1>3. \A k \in Labels, t \in Objects : Holds(k, t)' => Holds(k, t)
    BY <1>2 DEF Holds, Stage
  <1>4. \A t \in Objects \ {s} : Tame(t)
    BY <1>1, <1>2, OthersTame DEF Unhelped, Stage
  <1>5. Tame(s)
    BY <1>1, <1>2, TameIfSame DEF Goes, SameFate
  <1>6. Traces'
    BY <1>2, <1>3, <1>4, <1>5, TracesTame DEF Remembers, handles
  <1>7. NoPending'
    BY <1>1, PendingLess DEF Remembers, Elsewhere, SameTalk
  <1>8. Stopped'
    BY <1>1, <1>2, StoppedStay DEF Remembers, SameFate, Active
  <1> QED BY <1>6, <1>7, <1>8 DEF Remembers

\* The heartbeat lets only a session go on that was free to.
LEMMA RemembersMain ==
    ASSUME Accounts, Owners, Remembers, Resurrects
    PROVE  Remembers'
  <1>1. PICK s \in Objects :
          /\ ~Revoked(s) /\ Elsewhere(s)
          /\ SameTalk(object[s], object'[s]) /\ SameFate(object[s], object'[s])
    BY ResurrectsDoes DEF Accounts
  <1>2. UNCHANGED <<registered, job>> /\ UNCHANGED handles /\ job = NoJob
    BY DEF Resurrects, maps, Unlocked
  <1>3. \A k \in Labels, t \in Objects : Holds(k, t)' => Holds(k, t)
    BY <1>2 DEF Holds, Stage
  <1>4. \A t \in Objects \ {s} : Tame(t)
    BY <1>1, <1>2, OthersTame DEF Unhelped, Stage
  <1>5. Tame(s)
    BY <1>1, TameIfSame DEF Goes, SameFate
  <1>6. Traces'
    BY <1>2, <1>3, <1>4, <1>5, TracesTame DEF Remembers, handles
  <1>7. NoPending'
    BY <1>1, PendingLess DEF Remembers, Elsewhere, SameTalk
  <1>8. Stopped'
    BY <1>2, StoppedElse DEF Stage, TearingDown, NoJob
  <1> QED BY <1>6, <1>7, <1>8 DEF Remembers

\* Edits and stuttering steps touch no handle.
LEMMA RemembersEdit ==
    ASSUME Accounts, Remembers, ChangesClass \/ ChangesEffort \/ UNCHANGED directoryVars
    PROVE  Remembers'
  <1>1. UNCHANGED <<registered, object>> /\ UNCHANGED handles
    BY DEF ChangesClass, ChangesEffort, directoryVars, maps, handles
  <1>2. /\ job'.at = job.at /\ job'.kind = job.kind /\ job'.label = job.label /\ job'.who = job.who
        /\ job'.candidate = job.candidate
    <2>1. job \in JobType
      BY JobParts DEF Accounts
    <2>2. job' = job \/ job' = [job EXCEPT !.outdated = TRUE]
      BY DEF ChangesClass, ChangesEffort, directoryVars
    <2> QED BY <2>1, <2>2 DEF JobType
  <1>3. \A k \in Labels, t \in Objects : Holds(k, t)' => Holds(k, t)
    BY <1>1, <1>2 DEF Holds, Stage
  <1>4. \A t \in Objects : Tame(t)
    BY <1>1, <1>2, Same, TameIfAlike DEF Unhelped, Stage
  <1>5. Traces'
    BY <1>1, <1>3, <1>4, BegunNumbers, TracesTame DEF Remembers, handles
  <1>6. NoPending' /\ Stopped'
    BY <1>1, <1>2 DEF Remembers, NoPending, Stopped, Stage
  <1> QED BY <1>5, <1>6 DEF Remembers

\* All the steps of a session; one of the SDK has nothing pending.
LEMMA RemembersSessions ==
    ASSUME Accounts, Owners, Sdk, Remembers, NEW s \in Objects,
           \/ Reports(s) \/ Hears(s) \/ PersistsPending(s) \/ Resets(s)
           \/ Breaks(s) \/ IdleSleeps(s) \/ Reconnects(s)
    PROVE  Remembers'
  <1>1. ~Hears(s)
    BY DEF Hears, Sdk
  <1>2. ~PersistsPending(s)
    BY DEF PersistsPending, Remembers, NoPending
  <1> QED BY <1>1, <1>2, RemembersReport, RemembersReset, RemembersChange

\* Who connects resumes its handle or begins a conversation.
LEMMA RemembersArrival ==
    ASSUME Accounts, Owners, Remembers, Arrives
    PROVE  Remembers'
  <1>1. PICK s \in Objects :
          /\ s = IF JobAt("launching") THEN job.candidate ELSE job.who
          /\ ~object[s].retired /\ Elsewhere(s)
          /\ object'[s].pending = object[s].pending
          /\ \/ /\ object[s].handle # None
                /\ object'[s].conv = object[s].handle /\ object'[s].handle = object[s].handle
                /\ UNCHANGED handles
             \/ /\ object'[s].conv = conversations + 1 /\ object'[s].handle = None
                /\ conversations' = conversations + 1
                /\ UNCHANGED <<stored, cleared>> \/ (Persist(s, None) /\ Forgets(s))
    BY ArrivesDoes
  <1>2. UNCHANGED registered /\ job.at \in {"launching", "reviving"} /\ job \in JobType
    BY JobParts DEF Arrives, maps, Accounts
  <1>3. /\ job'.at = IF JobAt("launching") THEN "greeting" ELSE "rejoining"
        /\ job'.label = job.label /\ job'.who = job.who /\ job'.candidate = job.candidate
    BY <1>2 DEF Arrives, JobType
  <1>4. \A k \in Labels, t \in Objects : Holds(k, t)' => Holds(k, t)
    BY <1>2, <1>3 DEF Holds, Stage, Starting, JobAt
  <1>5. \A t \in Objects \ {s} : Unhelped(t)
    BY <1>1, <1>2, <1>3 DEF Unhelped, Stage, JobAt
  <1>6. Traces'
    <2>1. CASE /\ object'[s].conv = conversations + 1 /\ object'[s].handle = None
               /\ conversations' = conversations + 1
               /\ UNCHANGED <<stored, cleared>> \/ (Persist(s, None) /\ Forgets(s))
      BY <1>1, <1>4, <1>5, <2>1, StartsAnew DEF Remembers
    <2>2. CASE /\ object'[s].conv = object[s].handle /\ object'[s].handle = object[s].handle
               /\ UNCHANGED handles
      <3>1. PICK l : l = job.label
        OBVIOUS
      <3>2. l \in Labels /\ Holds(l, s)
        <4>1. l \in Labels /\ s # Nobody
          BY <1>1, <3>1, JobParts, DirectoryBounds DEF Accounts
        <4>2. CASE JobAt("launching")
          BY <1>1, <3>1, <4>1, <4>2 DEF Holds, Stage, Starting, JobAt
        <4>3. CASE JobAt("reviving")
          BY <1>1, <3>1, <4>1, <4>3 DEF Holds, Stage, Rejoining, JobAt, Accounts, JobFits, JobRejoins
        <4> QED BY <1>2, <4>1, <4>2, <4>3 DEF JobAt
      <3>3. \A t \in Objects : Holds(l, t)' => t = s
        BY <1>4, <3>2, HoldsOne
      <3>4. \A c \in Trace(l)' : c \in Trace(l)
        BY <2>2, <3>2, <3>3 DEF Trace, handles
      <3>5. \A k \in Labels \ {l}, t \in Objects : Holds(k, t)' => Holds(k, t) /\ Tame(t)
        BY <1>1, <1>4, <1>5, <3>2, HoldsOne, OthersTame
      <3>6. stored[l] \notin cleared /\ object[s].handle \notin cleared
        BY <1>1, <3>2 DEF Remembers, Traces, NotCleared, Clear
      <3>7. \A t \in Objects : Holds(l, t)' => Clear(t)'
        BY <2>2, <3>3, <3>6 DEF Clear, handles
      <3> QED BY <2>2, <3>2, <3>4, <3>5, <3>6, <3>7, BegunNumbers, TracesFocus DEF Remembers, handles
    <2> QED BY <1>1, <2>1, <2>2
  <1>7. NoPending'
    BY <1>1, PendingLess DEF Remembers, Elsewhere
  <1>8. Stopped'
    BY <1>3, StoppedElse DEF Stage, TearingDown
  <1> QED BY <1>6, <1>7, <1>8 DEF Remembers

\* A candidate that is seated holds its label as before.
LEMMA RemembersLaunch ==
    ASSUME Accounts, Owners, Remembers, LaunchEnds
    PROVE  Remembers'
  <1>1. /\ registered' = [registered EXCEPT ![job.label] = job.candidate] /\ job' = NoJob
        /\ UNCHANGED object /\ UNCHANGED handles /\ JobAt("greeting")
    BY DEF LaunchEnds
  <1>2. \A k \in Labels, t \in Objects : Holds(k, t)' => Holds(k, t)
    BY <1>1 DEF Holds, Stage, Starting, NoJob, JobAt, Accounts, DirectoryTypeOK
  <1>3. \A t \in Objects : Tame(t)
    BY <1>1, Same, TameIfAlike DEF Unhelped, Stage, NoJob
  <1>4. Traces'
    BY <1>1, <1>2, <1>3, BegunNumbers, TracesTame DEF Remembers, handles
  <1>5. NoPending' /\ Stopped'
    BY <1>1, StoppedElse DEF Remembers, NoPending, Stage, TearingDown, NoJob
  <1> QED BY <1>4, <1>5 DEF Remembers

\* A candidate that failed holds its label no longer.
LEMMA RemembersFailure ==
    ASSUME Accounts, Owners, Remembers, LaunchFails
    PROVE  Remembers'
  <1>1. PICK s \in Objects :
          s = job.candidate /\ Elsewhere(s) /\ SameTalk(object[s], object'[s])
    BY LaunchFailsDoes
  <1>2. UNCHANGED registered /\ UNCHANGED handles /\ job'.at = "clearing"
    BY JobParts DEF LaunchFails, Accounts, JobType
  <1>3. \A k \in Labels, t \in Objects : Holds(k, t)' => Holds(k, t) /\ t # s
    BY <1>1, <1>2 DEF Holds, Stage, Starting, Accounts, OneSeat
  <1>4. \A t \in Objects \ {s} : Tame(t)
    BY <1>1, <1>2, OthersTame DEF Unhelped, Stage
  <1>5. Traces'
    BY <1>2, <1>3, <1>4, BegunNumbers, TracesTame DEF Remembers, handles
  <1>6. NoPending'
    BY <1>1, PendingLess DEF Remembers, Elsewhere, SameTalk
  <1>7. Stopped'
    BY <1>2, StoppedElse DEF Stage, TearingDown
  <1> QED BY <1>5, <1>6, <1>7 DEF Remembers

\* A job that ends or fails lets nobody go on but whom it has revived.
LEMMA RemembersEnds ==
    ASSUME Accounts, Owners, Remembers,
           SettleFails \/ QuiesceFails \/ DropFails \/ ReviveEnds \/ ReviveFails \/ PauseFails
    PROVE  Remembers'
  <1>1. /\ job' = NoJob /\ UNCHANGED registered /\ UNCHANGED handles
        /\ job.at \in {"settling", "clearing", "quiescing", "dropping", "reviving", "rejoining", "pausing"}
    BY DEF SettleFails, QuiesceFails, DropFails, ReviveEnds, ReviveFails, PauseFails, maps, JobAt
  <1>2. \A k \in Labels, t \in Objects : Holds(k, t)' => Holds(k, t)
    BY <1>1 DEF Holds, Stage, Starting, NoJob
  <1>3. \A t \in Objects : Unhelped(t) /\ ~(Stage({"rejoining"})')
    BY <1>1 DEF Unhelped, Stage, NoJob
  <1>4. \A t \in Objects : Tame(t) /\ object'[t].pending = object[t].pending
    <2>1. CASE SettleFails
      <3>1. PICK d \in Objects :
              /\ Elsewhere(d) /\ SameTalk(object[d], object'[d]) /\ SameFate(object[d], object'[d])
              /\ object'[d].state \in {object[d].state, "down"}
        BY <2>1, SettleFailsDoes
      <3>2. Goes(d)' => Goes(d)
        BY <1>3, <3>1 DEF Goes, Revoked, SameFate
      <3>3. Tame(d)
        BY <3>1, <3>2, TameIfSame DEF SameFate
      <3> QED BY <1>3, <3>1, <3>3, OthersTame DEF Elsewhere, SameButBound, SameTalk
    <2>2. CASE QuiesceFails \/ PauseFails
      BY <1>3, <2>2, Same, TameIfAlike DEF QuiesceFails, PauseFails
    <2>3. CASE DropFails
      <3>1. PICK d \in Objects :
              /\ Elsewhere(d) /\ SameTalk(object[d], object'[d]) /\ SameFate(object[d], object'[d])
              /\ object'[d].state = object[d].state
        BY <2>3, DropFailsDoes
      <3>2. Goes(d)' => Goes(d)
        BY <1>3, <3>1 DEF Goes, Revoked, SameFate
      <3>3. Tame(d)
        BY <3>1, <3>2, TameIfSame DEF SameFate
      <3> QED BY <1>3, <3>1, <3>3, OthersTame DEF Elsewhere, SameButBound, SameTalk
    <2>4. CASE ReviveEnds
      <3>1. PICK d \in Objects :
              /\ d = job.who /\ Elsewhere(d)
              /\ SameTalk(object[d], object'[d]) /\ object'[d].retired = object[d].retired
        BY <2>4, ReviveEndsDoes
      <3>2. Goes(d)
        BY <2>4, <3>1 DEF Goes, Stage, ReviveEnds, JobAt
      <3>3. Tame(d)
        BY <3>1, <3>2, TameIfSame
      <3> QED BY <1>3, <3>1, <3>3, OthersTame DEF Elsewhere, SameButBound, SameTalk
    <2>5. CASE ReviveFails
      <3>1. PICK d \in Objects :
              /\ Elsewhere(d) /\ SameTalk(object[d], object'[d]) /\ SameFate(object[d], object'[d])
              /\ SameState(object[d], object'[d]) \/ object'[d].state = "down"
        BY <2>5, ReviveFailsDoes
      <3>2. Goes(d)' => Goes(d)
        BY <1>3, <3>1 DEF Goes, Revoked, SameFate, SameState
      <3>3. Tame(d)
        BY <3>1, <3>2, TameIfSame DEF SameFate
      <3> QED BY <1>3, <3>1, <3>3, OthersTame DEF Elsewhere, SameButBound, SameTalk
    <2> QED BY <2>1, <2>2, <2>3, <2>4, <2>5
  <1>5. Traces'
    BY <1>1, <1>2, <1>4, BegunNumbers, TracesTame DEF Remembers, handles
  <1>6. NoPending'
    BY <1>4 DEF Remembers, NoPending
  <1>7. Stopped'
    BY <1>1, StoppedElse DEF Stage, TearingDown, NoJob
  <1> QED BY <1>5, <1>6, <1>7 DEF Remembers

\* A debt is about to be settled.
LEMMA RemembersSettling ==
    ASSUME Accounts, Owners, Remembers, NEW d \in Objects, Unlocked \/ JobAt("pausing"),
           object' = [object EXCEPT ![d].retired = TRUE, ![d].inhibited = TRUE],
           job'.at = "settling", UNCHANGED registered, UNCHANGED handles
    PROVE  Remembers'
  <1>1. /\ Elsewhere(d) /\ SameTalk(object[d], object'[d]) /\ SameState(object[d], object'[d])
        /\ object'[d].retired /\ object'[d].inhibited
    BY SettlingDoes DEF Accounts
  <1>2. \A k \in Labels, t \in Objects : Holds(k, t)' => Holds(k, t)
    BY DEF Holds, Stage, Starting
  <1>3. \A t \in Objects : Unhelped(t) /\ ~(Stage({"rejoining"})')
    BY DEF Unhelped, Stage
  <1>4. Goes(d)' => Goes(d)
    BY <1>1, <1>3 DEF Goes, Revoked, SameState
  <1>5. Tame(d)
    BY <1>1, <1>4, TameIfSame
  <1>6. Traces'
    BY <1>1, <1>2, <1>3, <1>5, OthersTame, BegunNumbers, TracesTame DEF Remembers, handles
  <1>7. NoPending'
    BY <1>1, PendingLess DEF Remembers, Elsewhere, SameTalk
  <1>8. Stopped'
    BY StoppedElse DEF Stage, TearingDown
  <1> QED BY <1>6, <1>7, <1>8 DEF Remembers

\* A candidate has the handle that is stored for its label.
LEMMA RemembersSpawn ==
    ASSUME Accounts, Owners, Remembers, ~Stage(Starting), NEW l \in Labels, registered[l] = Nobody,
           job.candidate = Nobody, job.who = Nobody,
           NEW f \in ObjType, \A t \in Objects : f[t] = object[t] \/ f[t] = Unused,
           Spawns(l, f), UNCHANGED registered, UNCHANGED handles
    PROVE  Remembers'
  <1>1. PICK s : s = Fresh
    OBVIOUS
  <1>2. s \in Objects /\ \A k \in Labels : s # registered[k]
    BY <1>1, FreshIs
  <1>3. /\ SameButBound(Prepared(l), object'[s])
        /\ \A t \in Objects \ {s} : SameButBound(f[t], object'[t])
        /\ job'.at = "launching" /\ job'.label = l /\ job'.candidate = s
    BY <1>1, SpawnsDoes
  <1>4. object'[s].conv = None /\ object'[s].handle = stored[l] /\ object'[s].pending = None
    BY <1>3 DEF SameButBound, SameTalk, Prepared, Unused
  <1>5. \A t \in Objects \ {s} :
          SameButBound(object[t], object'[t]) \/ SameButBound(Unused, object'[t])
    BY <1>3
  <1>6. \A t \in Objects \ {s} : Tame(t)
    BY <1>3, <1>5, TameIfAlike DEF Unhelped, Stage
  <1>7. \A k \in Labels \ {l}, t \in Objects : Holds(k, t)' => Holds(k, t) /\ t # s
    BY <1>2, <1>3 DEF Holds
  <1>8. \A t \in Objects : Holds(l, t)' => t = s
    BY <1>3 DEF Holds
  <1>9. \A c \in Trace(l)' : c \in Trace(l) \cup {None}
    BY <1>4, <1>8 DEF Trace, handles
  <1>10. stored[l] \notin cleared /\ None \notin cleared
    BY BegunNumbers DEF Remembers, Traces, TracesBegun, NotCleared, None
  <1>11. \A t \in Objects : Holds(l, t)' => Clear(t)'
    BY <1>4, <1>8, <1>10 DEF Clear, handles
  <1>12. Traces'
    BY <1>6, <1>7, <1>9, <1>10, <1>11, BegunNumbers, TracesFocus DEF Remembers, handles
  <1>13. NoPending'
    BY <1>4, <1>5, PendingLess DEF Remembers
  <1>14. Stopped'
    BY <1>3, StoppedElse DEF Stage, TearingDown
  <1> QED BY <1>12, <1>13, <1>14 DEF Remembers

\* A start makes a candidate, or first settles what is owed.
LEMMA RemembersColdStart ==
    ASSUME Accounts, Owners, Remembers, Unlocked \/ JobAt("pausing"), NEW l \in Labels,
           registered[l] = Nobody, job.candidate = Nobody, job.who = Nobody, ColdStarts(l)
    PROVE  Remembers'
  <1>1. CASE debt[l] = Nobody
    <2>1. Spawns(l, object) /\ UNCHANGED registered /\ UNCHANGED handles /\ object \in ObjType
      BY <1>1, JobParts DEF ColdStarts, Accounts
    <2>2. ~Stage(Starting)
      BY DEF Unlocked, JobAt, NoJob, Stage, Starting
    <2> QED BY <2>1, <2>2, RemembersSpawn
  <1>2. CASE debt[l] # Nobody
    <2>1. PICK d : d = debt[l]
      OBVIOUS
    <2>2. d \in Objects
      BY <1>2, <2>1, JobParts DEF Accounts
    <2>3. /\ object' = [object EXCEPT ![d].retired = TRUE, ![d].inhibited = TRUE]
          /\ job' = [NoJob EXCEPT !.kind = "start", !.at = "settling", !.label = l]
          /\ UNCHANGED registered /\ UNCHANGED handles
      BY <1>2, <2>1 DEF ColdStarts, maps
    <2>4. job'.at = "settling"
      BY <2>3 DEF NoJob
    <2> QED BY <2>2, <2>3, <2>4, RemembersSettling
  <1> QED BY <1>1, <1>2

\* A session takes its conversations to another label.
LEMMA TracesMove ==
    ASSUME Accounts, Traces, UNCHANGED <<cleared, conversations>>,
           NEW l \in Labels, NEW m \in Labels, l # m, NEW s \in Objects, Holds(l, s),
           stored'[l] = None, stored'[m] \in {stored[l], stored[m]},
           \A k \in Labels \ {l, m} : stored'[k] = stored[k],
           \A t \in Objects : Tame(t),
           \A t \in Objects : ~(Holds(l, t)') /\ (Holds(m, t)' => t = s),
           \A k \in Labels \ {l, m}, t \in Objects : Holds(k, t)' => Holds(k, t)
    PROVE  Traces'
  <1>1. conversations \in Nat /\ cleared \subseteq 1..conversations /\ None \notin cleared
    BY BegunNumbers DEF Traces, TracesBegun, None
  <1>2. Trace(l)' \subseteq {None}
    BY DEF Trace
  <1>3. Trace(m)' \subseteq Trace(l) \cup Trace(m) \cup {None}
    <2>1. \A c \in Trace(m)' : c = stored'[m] \/ c = object'[s].conv \/ c = object'[s].handle
      BY DEF Trace
    <2>2. stored[l] \in Trace(l) /\ stored[m] \in Trace(m) /\ object[s].conv \in Trace(l)
          /\ object[s].handle \in Trace(l)
      BY DEF Trace
    <2>3. object'[s].conv \in {None, object[s].conv} /\ object'[s].handle \in {None, object[s].handle}
      BY DEF Tame
    <2> QED BY <2>1, <2>2, <2>3
  <1>4. \A k \in Labels \ {l, m} : Trace(k)' \subseteq Trace(k) \cup {None}
    BY DEF Trace, Tame
  <1>5. TracesBegun'
    <2>1. None \in 0..conversations
      BY <1>1 DEF None
    <2>2. \A k \in Labels : Trace(k) \subseteq 0..conversations
      BY DEF Traces, TracesBegun
    <2>3. \A k \in Labels : Trace(k)' \subseteq 0..conversations
      BY <1>2, <1>3, <1>4, <2>1, <2>2
    <2> QED BY <1>1, <2>3 DEF TracesBegun
  <1>6. TracesApart'
    <2>1. ASSUME NEW k \in Labels, NEW n \in Labels, k # n, k # l, n # l,
                 NEW c \in Trace(k)', c \in Trace(n)', c # None
          PROVE  FALSE
      <3>1. CASE k # m /\ n # m
        <4>1. c \in Trace(k) /\ c \in Trace(n)
          BY <1>4, <2>1, <3>1
        <4> QED BY <2>1, <4>1 DEF Traces, TracesApart
      <3>2. CASE k = m
        <4>1. n # m /\ c \in Trace(n) /\ c \in Trace(l) \cup Trace(m)
          BY <1>3, <1>4, <2>1, <3>2
        <4> QED BY <2>1, <4>1 DEF Traces, TracesApart
      <3>3. CASE n = m
        <4>1. k # m /\ c \in Trace(k) /\ c \in Trace(l) \cup Trace(m)
          BY <1>3, <1>4, <2>1, <3>3
        <4> QED BY <2>1, <4>1 DEF Traces, TracesApart
      <3> QED BY <3>1, <3>2, <3>3
    <2>2. ASSUME NEW k \in Labels, NEW n \in Labels, k # n PROVE Trace(k)' \cap Trace(n)' \subseteq {None}
      BY <1>2, <2>1, <2>2
    <2> QED BY <2>2 DEF TracesApart
  <1>7. NotCleared'
    <2>1. \A k \in Labels : stored[k] \notin cleared
      BY DEF Traces, NotCleared
    <2>2. ASSUME NEW k \in Labels PROVE stored'[k] \notin cleared'
      BY <1>1, <2>1
    <2>3. ASSUME NEW k \in Labels, NEW t \in Objects, Holds(k, t)' PROVE Clear(t)'
      <3>1. Clear(t) /\ Tame(t)
        BY <2>3 DEF Traces, NotCleared
      <3> QED BY <1>1, <3>1 DEF Clear, Tame
    <2> QED BY <2>2, <2>3 DEF NotCleared
  <1> QED BY <1>5, <1>6, <1>7 DEF Traces

\* A rename takes the stored handle along.
LEMMA RemembersMove ==
    ASSUME Accounts, Owners, Remembers, ~Stage(Starting), NEW k \in Labels, registered[k] # Nobody,
           NEW m \in Labels, registered[m] = Nobody, NEW f \in ObjType,
           \A t \in Objects : f[t] = object[t] \/ f[t] = Unused,
           Moves(registered[k], m, f), UNCHANGED <<cleared, conversations>>
    PROVE  Remembers'
  <1>1. PICK s : s = registered[k]
    OBVIOUS
  <1>2. s \in Objects /\ DirectoryTypeOK
    BY <1>1, JobParts DEF Accounts
  <1>3. /\ object' \in ObjType /\ Alike(f, object')
        /\ \E l \in Labels :
             /\ registered[l] = s /\ job' = NoJob
             /\ registered' = [registered EXCEPT ![l] = Nobody, ![m] = s]
             /\ stored' = IF stored[l] = None THEN stored
                          ELSE [stored EXCEPT ![m] = stored[l], ![l] = None]
    BY <1>1, <1>2, MovesDoes
  <1>4. PICK l \in Labels :
          /\ registered[l] = s /\ job' = NoJob
          /\ registered' = [registered EXCEPT ![l] = Nobody, ![m] = s]
          /\ stored' = IF stored[l] = None THEN stored
                       ELSE [stored EXCEPT ![m] = stored[l], ![l] = None]
    BY <1>3
  <1>5. l # m /\ Holds(l, s)
    BY <1>2, <1>4, DirectoryBounds DEF Holds
  <1>6. /\ stored'[l] = None /\ stored'[m] \in {stored[l], stored[m]}
        /\ \A n \in Labels \ {l, m} : stored'[n] = stored[n]
    <2>1. CASE stored[l] = None
      BY <1>4, <2>1
    <2>2. CASE stored[l] # None
      BY <1>2, <1>4, <1>5, <2>2 DEF DirectoryTypeOK
    <2> QED BY <2>1, <2>2
  <1>7. /\ registered'[l] = Nobody /\ registered'[m] = s
        /\ \A n \in Labels \ {l, m} : registered'[n] = registered[n]
    BY <1>2, <1>4, <1>5 DEF DirectoryTypeOK
  <1>8. ~(Stage(Starting)') /\ ~(Stage({"rejoining"})') /\ ~(Stage(TearingDown)')
    BY <1>4 DEF Stage, Starting, TearingDown, NoJob
  <1>9. /\ \A t \in Objects : ~(Holds(l, t)') /\ (Holds(m, t)' => t = s)
        /\ \A n \in Labels \ {l, m}, t \in Objects : Holds(n, t)' => Holds(n, t)
    BY <1>7, <1>8, DirectoryBounds DEF Holds
  <1>10. \A t \in Objects :
           SameButBound(object[t], object'[t]) \/ SameButBound(Unused, object'[t])
    BY <1>3 DEF Alike
  <1>11. \A t \in Objects : Tame(t)
    BY <1>8, <1>10, TameIfAlike DEF Unhelped
  <1>12. Traces'
    BY <1>2, <1>5, <1>6, <1>9, <1>11, TracesMove DEF Remembers
  <1>13. NoPending'
    BY <1>10, PendingLess DEF Remembers
  <1>14. Stopped'
    BY <1>8, StoppedElse
  <1> QED BY <1>12, <1>13, <1>14 DEF Remembers

\* A debt is settled: a launch has failed, or a start or a rename goes on.
LEMMA RemembersSettled ==
    ASSUME Accounts, Owners, Remembers, SettleEnds
    PROVE  Remembers'
  <1>1. PICK l, d : l = job.label /\ d = debt[l]
    OBVIOUS
  <1>2. /\ l \in Labels /\ d \in Objects /\ registered[l] = Nobody /\ job.candidate = Nobody
        /\ DirectoryTypeOK
    BY <1>1, JobParts DEF SettleEnds, Accounts, JobFits, JobSettles, Stage
  <1>3. PICK gone : gone = [object EXCEPT ![d] = Unused]
    OBVIOUS
  <1>4. gone \in ObjType /\ \A t \in Objects : gone[t] = object[t] \/ gone[t] = Unused
    <2>1. object \in ObjType /\ Unused \in SessionObject
      BY <1>2, JobParts, DirectoryBounds
    <2> QED BY <1>2, <1>3, <2>1 DEF ObjType
  <1>5. ~Stage(Starting) /\ UNCHANGED <<cleared, conversations>>
    BY DEF SettleEnds, Stage, Starting
  <1>6. CASE JobAt("clearing")
    <2>1. job' = NoJob /\ UNCHANGED <<registered, stored>> /\ object' = gone
      BY <1>1, <1>3, <1>6 DEF SettleEnds, JobAt
    <2>2. ~(Stage(Starting)') /\ ~(Stage({"rejoining"})') /\ ~(Stage(TearingDown)')
      BY <2>1 DEF Stage, Starting, TearingDown, NoJob
    <2>3. \A n \in Labels, t \in Objects : Holds(n, t)' => Holds(n, t)
      BY <2>1, <2>2 DEF Holds
    <2>4. \A t \in Objects :
            SameButBound(object[t], object'[t]) \/ SameButBound(Unused, object'[t])
      BY <1>4, <2>1, Same
    <2>5. \A t \in Objects : Tame(t)
      BY <2>2, <2>4, TameIfAlike DEF Unhelped
    <2>6. Traces'
      BY <1>5, <2>1, <2>3, <2>5, BegunNumbers, TracesTame DEF Remembers
    <2>7. NoPending' /\ Stopped'
      BY <2>2, <2>4, PendingLess, StoppedElse DEF Remembers
    <2> QED BY <2>6, <2>7 DEF Remembers
  <1>7. CASE JobAt("settling") /\ job.kind = "start"
    <2>1. Spawns(l, gone) /\ UNCHANGED registered /\ UNCHANGED handles
      BY <1>1, <1>3, <1>5, <1>7 DEF SettleEnds, JobAt, handles
    <2>2. job.who = Nobody
      BY <1>7 DEF Accounts, JobFits, JobSettles, Stage, JobAt
    <2> QED BY <1>2, <1>4, <1>5, <2>1, <2>2, RemembersSpawn
  <1>8. CASE JobAt("settling") /\ job.kind # "start"
    <2>1. Moves(job.who, l, gone)
      BY <1>1, <1>3, <1>8 DEF SettleEnds, JobAt
    <2>2. PICK k \in Labels : registered[k] = job.who /\ job.who # Nobody
      BY <1>8 DEF Accounts, JobFits, JobSettles, Stage, JobAt
    <2>3. Moves(registered[k], l, gone) /\ registered[k] # Nobody
      BY <2>1, <2>2
    <2> QED BY <1>2, <1>4, <1>5, <2>3, RemembersMove
  <1> QED BY <1>6, <1>7, <1>8 DEF SettleEnds, JobAt

\* A restart or a retirement begins: nothing is written yet.
LEMMA RemembersQuiesce ==
    ASSUME Accounts, Owners, Remembers, Unlocked, NEW l \in Labels, registered[l] # Nobody,
           NEW kind \in JobKinds, NEW c \in Objects \cup {Nobody}, NEW todo \in SUBSET Labels,
           c # registered[l], kind = "replace" => c # Nobody, Quiesces(kind, l, c, todo)
    PROVE  Remembers'
  <1>1. PICK w \in Objects :
          /\ w = registered[l]
          /\ SameTalk(object[w], object'[w]) /\ SameState(object[w], object'[w])
          /\ object'[w].retired = object[w].retired /\ object'[w].inhibited
          /\ \A t \in Objects \ {w, c} : SameButBound(object[t], object'[t])
    BY QuiescesDoes DEF Accounts
  <1>2. c # Nobody => c \in Objects /\ SameButBound(Unused, object'[c])
    BY QuiescesDoes, DirectoryBounds DEF Accounts
  <1>3. /\ UNCHANGED registered /\ UNCHANGED handles
        /\ job'.at = "quiescing" /\ job'.kind = kind /\ job'.who = w /\ job'.candidate = c
    BY <1>1 DEF Quiesces, maps
  <1>4. \A k \in Labels, t \in Objects : Holds(k, t)' => Holds(k, t)
    BY <1>3 DEF Holds, Stage, Starting
  <1>5. ~(Stage({"rejoining"})')
    BY <1>3 DEF Stage
  <1>6. \A t \in Objects \ {w} :
          SameButBound(object[t], object'[t]) \/ SameButBound(Unused, object'[t])
    BY <1>1, <1>2, DirectoryBounds
  <1>7. \A t \in Objects \ {w} : Tame(t)
    BY <1>5, <1>6, TameIfAlike DEF Unhelped
  <1>8. Goes(w)' => Goes(w)
    BY <1>1, <1>5 DEF Goes, Revoked, SameState
  <1>9. Tame(w)
    BY <1>1, <1>8, TameIfSame
  <1>10. Traces'
    BY <1>3, <1>4, <1>7, <1>9, BegunNumbers, TracesTame DEF Remembers, handles
  <1>11. NoPending'
    BY <1>1, <1>6, PendingLess DEF Remembers, SameTalk
  <1>12. Stopped'
    <2>1. kind = "replace" => object'[c].conv = None /\ object'[c].handle = None
      BY <1>2 DEF SameButBound, SameTalk, Unused
    <2> QED BY <1>1, <1>3, <2>1 DEF Stopped, Stage
  <1> QED BY <1>10, <1>11, <1>12 DEF Remembers

\* Requests to start, restart, retire or rename.
LEMMA RemembersRequests ==
    ASSUME Accounts, Owners, Remembers, NEW l \in Labels,
           \/ Ensures(l) \/ Restarts("fresh", l) \/ Restarts("recover", l) \/ Deletes(l)
           \/ Stops("stop") \/ Stops("bounce") \/ \E m \in Labels : Renames(l, m)
    PROVE  Remembers'
  <1>1. Unlocked /\ job.candidate = Nobody /\ job.who = Nobody /\ ~Stage(Starting)
    <2>1. Unlocked
      BY DEF Ensures, Restarts, Deletes, Stops, Renames
    <2> QED BY <2>1 DEF Unlocked, NoJob, Stage, Starting
  <1>2. Fresh \in Objects /\ \A k \in Labels : Fresh # registered[k]
    BY <1>1, FreshIs
  <1>3. CASE l \notin Seated /\ ColdStarts(l)
    BY <1>1, <1>3, RemembersColdStart DEF Seated
  <1>4. ASSUME NEW k \in Seated, NEW kind \in JobKinds, NEW c \in {Fresh, Nobody},
               NEW todo \in SUBSET Labels, kind = "replace" => c # Nobody, Quiesces(kind, k, c, todo)
        PROVE  Remembers'
    <2>1. k \in Labels /\ registered[k] # Nobody
      BY DEF Seated
    <2>2. c \in Objects \cup {Nobody} /\ c # registered[k]
      BY <1>2, <2>1
    <2> QED BY <1>1, <1>4, <2>1, <2>2, RemembersQuiesce
  <1>5. ASSUME NEW k \in Seated, Replaces(k) PROVE Remembers'
    <2>1. Fresh # Nobody /\ "replace" \in JobKinds /\ {} \in SUBSET Labels
      BY <1>2, DirectoryBounds DEF JobKinds
    <2> QED BY <1>4, <1>5, <2>1 DEF Replaces
  <1>6. CASE /\ l \in Seated
             /\ Rebinds(l, registered[l], object)
             /\ job' = [NoJob EXCEPT !.kind = "wake", !.at = "reviving", !.label = l,
                                     !.who = registered[l]]
             /\ UNCHANGED registered /\ UNCHANGED handles
    <2>1. PICK s : s = registered[l]
      OBVIOUS
    <2>2. s \in Objects /\ object \in ObjType
      BY <1>6, <2>1, JobParts DEF Seated, Accounts
    <2>3. object' = [NewEpoch(l, object) EXCEPT ![s].bound = l]
      BY <1>6, <2>1 DEF Rebinds
    <2>4. Alike(object, object')
      BY <2>2, <2>3, RebindingKeeps
    <2>5. job'.at = "reviving"
      BY <1>6 DEF NoJob
    <2>6. \A k \in Labels, t \in Objects : Holds(k, t)' => Holds(k, t)
      BY <1>6, <2>5 DEF Holds, Stage, Starting
    <2>7. \A t \in Objects : Tame(t)
      BY <2>4, <2>5, TameIfAlike DEF Alike, Unhelped, Stage
    <2>8. Traces'
      BY <1>6, <2>6, <2>7, BegunNumbers, TracesTame DEF Remembers, handles
    <2>9. NoPending'
      BY <2>4, PendingLess DEF Remembers, Alike
    <2>10. Stopped'
      BY <2>5, StoppedElse DEF Stage, TearingDown
    <2> QED BY <2>8, <2>9, <2>10 DEF Remembers
  <1>7. CASE Ensures(l)
    <2>1. CASE l \in Seated /\ Quiesces("wake", l, Nobody, {})
      <3>1. "wake" \in JobKinds /\ "wake" # "replace" /\ {} \in SUBSET Labels
        BY DEF JobKinds
      <3> QED BY <1>4, <2>1, <3>1
    <2>2. CASE l \in Seated /\ Replaces(l)
      BY <1>5, <2>2
    <2> QED BY <1>3, <1>6, <1>7, <2>1, <2>2 DEF Ensures
  <1>8. ASSUME NEW kind \in {"fresh", "recover"}, Restarts(kind, l) PROVE Remembers'
    <2>1. kind \in JobKinds /\ kind # "replace" /\ {} \in SUBSET Labels
      BY DEF JobKinds
    <2> QED BY <1>4, <1>5, <1>8, <2>1 DEF Restarts
  <1>9. ASSUME NEW kind \in {"stop", "bounce", "delete"}, NEW todo \in SUBSET Seated, todo # {},
               Retires(kind, todo)
        PROVE  Remembers'
    <2>1. PICK k : k = CHOOSE m \in todo : TRUE
      OBVIOUS
    <2>2. k \in Seated
      BY <1>9, <2>1
    <2>3. kind \in JobKinds /\ kind # "replace" /\ todo \in SUBSET Labels
      BY DEF JobKinds, Seated
    <2>4. Quiesces(kind, k, Nobody, todo)
      BY <1>9, <2>1 DEF Retires
    <2> QED BY <1>4, <2>2, <2>3, <2>4
  <1>10. CASE Deletes(l)
    BY <1>9, <1>10 DEF Deletes
  <1>11. CASE Stops("stop") \/ Stops("bounce")
    BY <1>9, <1>11 DEF Stops
  <1>12. CASE \E m \in Labels : Renames(l, m)
    <2>1. PICK m \in Labels : Renames(l, m)
      BY <1>12
    <2>2. /\ registered[l] # Nobody /\ registered[m] = Nobody /\ object \in ObjType
          /\ UNCHANGED <<cleared, conversations>>
      BY <2>1, JobParts DEF Renames, Seated, Accounts
    <2>3. CASE debt[m] = Nobody
      <3>1. Moves(registered[l], m, object)
        BY <2>1, <2>3 DEF Renames
      <3> QED BY <1>1, <2>2, <3>1, RemembersMove
    <2>4. CASE debt[m] # Nobody
      <3>1. PICK d : d = debt[m]
        OBVIOUS
      <3>2. d \in Objects
        BY <2>4, <3>1, JobParts DEF Accounts
      <3>3. /\ object' = [object EXCEPT ![d].retired = TRUE, ![d].inhibited = TRUE]
            /\ job' = [NoJob EXCEPT !.kind = "rename", !.at = "settling", !.label = m,
                                    !.who = registered[l]]
            /\ UNCHANGED <<registered, stored>>
        BY <2>1, <2>4, <3>1 DEF Renames
      <3>4. job'.at = "settling" /\ UNCHANGED handles
        BY <2>2, <3>3 DEF NoJob, handles
      <3> QED BY <1>1, <3>2, <3>3, <3>4, RemembersSettling
    <2> QED BY <2>3, <2>4
  <1> QED BY <1>7, <1>8, <1>10, <1>11, <1>12

\* The old conversation is left behind while its session goes down.
LEMMA RemembersQuiesced ==
    ASSUME Accounts, Owners, Sdk, Remembers, QuiesceEnds
    PROVE  Remembers'
  <1>1. PICK l : l = job.label
    OBVIOUS
  <1>2. PICK s \in Objects :
          /\ s = job.who /\ Elsewhere(s)
          /\ object'[s].conv = object[s].conv
          /\ object'[s].inhibited = object[s].inhibited
          /\ object[s].retired \/ job.kind \in {"stop", "bounce", "delete"} => object'[s].retired
          /\ object'[s].state \in {object[s].state, "down"}
          /\ job' # NoJob => object'[s].state = Down(object[s].state)
          /\ object'[s].handle = IF Leaver THEN None ELSE object[s].handle
          /\ object'[s].pending \in {None, object[s].pending}
    BY QuiesceEndsDoes
  <1>3. IF Leaver THEN Disowned(l) /\ Leaves(l) ELSE UNCHANGED <<owner, stored, cleared>>
    BY <1>1, QuiesceEndsDoes
  <1>4. /\ l \in Labels /\ registered[l] = s /\ DirectoryTypeOK /\ job \in JobType
        /\ Stage({"quiescing"}) /\ UNCHANGED <<registered, conversations>>
        /\ job.kind = "replace" => job.candidate \in Objects \ {s}
    BY <1>1, <1>2, JobParts DEF QuiesceEnds, Accounts, JobFits, JobTearsDown, OneSeat, Stage, TearingDown, JobAt
  <1>5. object[s].inhibited
    BY <1>2, <1>4 DEF Remembers, Stopped, Stage, TearingDown
  <1>6. \/ job' = NoJob /\ ~Leaver
        \/ /\ job'.at = "dropping" /\ job'.kind = job.kind /\ job'.who = s
           /\ job'.candidate = job.candidate /\ job' # NoJob
    <2>1. CASE job.kind = "replace" /\ job.outdated
      BY <2>1 DEF QuiesceEnds, Leaver
    <2>2. CASE ~(job.kind = "replace" /\ job.outdated)
      <3>1. job' = [job EXCEPT !.at = "dropping"]
        BY <2>2 DEF QuiesceEnds
      <3>2. /\ job'.at = "dropping" /\ job'.kind = job.kind /\ job'.who = s
            /\ job'.candidate = job.candidate
        BY <1>2, <1>4, <3>1 DEF JobType
      <3> QED BY <3>2 DEF NoJob
    <2> QED BY <2>1, <2>2
  <1>7. job'.at \in {"none", "dropping"}
    BY <1>6 DEF NoJob
  <1>8. \A k \in Labels, t \in Objects : Holds(k, t)' => Holds(k, t)
    BY <1>4, <1>7 DEF Holds, Stage, Starting
  <1>9. \A t \in Objects \ {s} : Tame(t)
    BY <1>2, <1>7, OthersTame DEF Unhelped, Stage
  <1>10. Goes(s)' => Goes(s)
    BY <1>2, <1>5, <1>7 DEF Goes, Revoked, Stage
  <1>11. Traces'
    <2>1. CASE ~Leaver
      <3>1. UNCHANGED <<stored, cleared>> /\ Tame(s)
        BY <1>2, <1>3, <1>10, <2>1 DEF Tame
      <3> QED BY <1>4, <1>8, <1>9, <3>1, BegunNumbers, TracesTame DEF Remembers
    <2>2. CASE Leaver
      <3>1. /\ cleared' = cleared \cup LeftBehind(l, s)
            /\ stored'[l] = None /\ \A k \in Labels \ {l} : stored'[k] = stored[k]
        BY <1>3, <1>4, <2>2 DEF Leaves, DirectoryTypeOK
      <3>2. Holds(l, s)
        BY <1>4, DirectoryBounds DEF Holds
      <3>3. cleared' \subseteq cleared \cup (Trace(l) \ {None})
        BY <1>4, <3>1, <3>2, LeavesItsTrace
      <3>4. None \notin cleared'
        <4>1. None \notin cleared
          BY BegunNumbers DEF Remembers, Traces, TracesBegun, None
        <4> QED BY <3>3, <4>1
      <3>5. \A t \in Objects : Holds(l, t)' => t = s
        BY <1>4, <1>8, <3>2, HoldsOne
      <3>6. \A c \in Trace(l)' : c \in Trace(l) \cup {None}
        <4>1. \A c \in Trace(l)' : c = stored'[l] \/ c = object'[s].conv \/ c = object'[s].handle
          BY <3>5 DEF Trace
        <4>2. object[s].conv \in Trace(l)
          BY <3>2 DEF Trace
        <4> QED BY <1>2, <2>2, <3>1, <4>1, <4>2
      <3>7. \A k \in Labels \ {l}, t \in Objects : Holds(k, t)' => Holds(k, t) /\ Tame(t)
        BY <1>4, <1>8, <1>9, <3>2, HoldsOne
      <3>8. object'[s].state = "down"
        BY <1>2, <1>6, <2>2 DEF Down, Sdk
      <3>9. ~(Goes(s)')
        BY <1>2, <1>5, <1>7, <3>8 DEF Goes, Revoked, Stage
      <3>10. \A t \in Objects : Holds(l, t)' => Clear(t)'
        BY <1>2, <2>2, <3>4, <3>5, <3>9 DEF Clear
      <3> QED BY <1>4, <3>1, <3>3, <3>4, <3>6, <3>7, <3>10, TracesFocus DEF Remembers
    <2> QED BY <2>1, <2>2
  <1>12. NoPending'
    BY <1>2, PendingLess DEF Remembers, Elsewhere
  <1>13. Stopped'
    <2>1. CASE job' = NoJob
      BY <2>1, StoppedElse DEF Stage, TearingDown, NoJob
    <2>2. CASE job' # NoJob
      <3>1. /\ job'.at = "dropping" /\ job'.kind = job.kind /\ job'.who = s
            /\ job'.candidate = job.candidate
        BY <1>6, <2>2
      <3>2. job.kind = "replace" =>
              object'[job.candidate].conv = None /\ object'[job.candidate].handle = None
        <4>1. job.kind = "replace" =>
                object[job.candidate].conv = None /\ object[job.candidate].handle = None
          BY <1>4 DEF Remembers, Stopped, Stage, TearingDown
        <4> QED BY <1>2, <1>4, <4>1 DEF Elsewhere, SameButBound, SameTalk
      <3> QED BY <1>2, <1>5, <3>1, <3>2 DEF Stopped, Stage
    <2> QED BY <2>1, <2>2
  <1> QED BY <1>11, <1>12, <1>13 DEF Remembers

\* The process of a session that was torn down is gone.
LEMMA RemembersDrop ==
    ASSUME Accounts, Owners, Remembers, DropEnds
    PROVE  Remembers'
  <1>1. PICK l, s : l = job.label /\ s = job.who
    OBVIOUS
  <1>2. /\ l \in Labels /\ s \in Objects /\ registered[l] = s /\ Holds(l, s)
        /\ DirectoryTypeOK /\ job \in JobType /\ Stage({"dropping"})
    BY <1>1, JobParts, DirectoryBounds
       DEF DropEnds, Accounts, JobFits, JobTearsDown, Stage, TearingDown, Holds, JobAt
  <1>3. None \notin cleared /\ stored[l] \notin cleared
    BY <1>2, BegunNumbers DEF Remembers, Traces, TracesBegun, NotCleared, None
  <1>4. CASE job.kind \in {"wake", "fresh", "recover"} /\ (job.kind = "recover" => rebuild)
    <2>1. /\ Elsewhere(s) /\ SameTalk(object[s], object'[s]) /\ SameFate(object[s], object'[s])
          /\ object'[s].state = "down" /\ job' = [job EXCEPT !.at = "reviving"]
          /\ UNCHANGED registered /\ UNCHANGED handles
      BY <1>1, <1>4, DropRetainedDoes
    <2>2. job'.at = "reviving"
      BY <1>2, <2>1 DEF JobType
    <2>3. \A k \in Labels, t \in Objects : Holds(k, t)' => Holds(k, t)
      BY <2>1, <2>2 DEF Holds, Stage, Starting
    <2>4. \A t \in Objects \ {s} : Tame(t)
      BY <1>2, <2>1, <2>2, OthersTame DEF Unhelped, Stage
    <2>5. Goes(s)' => Goes(s)
      BY <2>1, <2>2 DEF Goes, Revoked, SameFate, Stage
    <2>6. Tame(s)
      BY <1>2, <2>1, <2>5, TameIfSame DEF SameFate
    <2>7. Traces'
      BY <2>1, <2>3, <2>4, <2>6, BegunNumbers, TracesTame DEF Remembers, handles
    <2>8. NoPending'
      BY <2>1, PendingLess DEF Remembers, Elsewhere, SameTalk
    <2>9. Stopped'
      BY <2>2, StoppedElse DEF Stage, TearingDown
    <2> QED BY <2>7, <2>8, <2>9 DEF Remembers
  <1>5. CASE job.kind = "replace"
    <2>1. PICK c : c = job.candidate
      OBVIOUS
    <2>2. /\ c \in Objects /\ SameButBound(Unused, object'[s]) /\ Elsewhere(s)
          /\ registered' = [registered EXCEPT ![l] = Nobody]
          /\ job'.at = "launching" /\ job'.label = l /\ job'.candidate = c
          /\ UNCHANGED handles
      BY <1>1, <1>5, <2>1, DropReplacedDoes
    <2>3. registered'[l] = Nobody /\ \A k \in Labels \ {l} : registered'[k] = registered[k]
      BY <1>2, <2>2 DEF DirectoryTypeOK
    <2>4. c # s /\ object[c].conv = None /\ object[c].handle = None
      BY <1>2, <1>5, <2>1, DirectoryBounds
         DEF Remembers, Stopped, Stage, TearingDown, Accounts, OneSeat
    <2>5. object'[c].conv = None /\ object'[c].handle = None
      BY <2>2, <2>4 DEF Elsewhere, SameButBound, SameTalk
    <2>6. \A k \in Labels \ {l}, t \in Objects : Holds(k, t)' => Holds(k, t)
      BY <2>2, <2>3 DEF Holds
    <2>7. \A t \in Objects : Holds(l, t)' => t = c
      BY <2>2, <2>3, DirectoryBounds DEF Holds
    <2>8. \A t \in Objects :
            SameButBound(object[t], object'[t]) \/ SameButBound(Unused, object'[t])
      BY <2>2 DEF Elsewhere
    <2>9. \A t \in Objects : Tame(t)
      BY <2>2, <2>8, TameIfAlike DEF Unhelped, Stage
    <2>10. \A x \in Trace(l)' : x \in Trace(l) \cup {None}
      BY <2>2, <2>5, <2>7 DEF Trace, handles
    <2>11. \A t \in Objects : Holds(l, t)' => Clear(t)'
      BY <1>3, <2>2, <2>5, <2>7 DEF Clear, handles
    <2>12. /\ conversations' = conversations /\ cleared' = cleared
           /\ \A k \in Labels : stored'[k] = stored[k]
      BY <2>2 DEF handles
    <2>13. Traces'
      BY <1>2, <1>3, <2>6, <2>9, <2>10, <2>11, <2>12, BegunNumbers, TracesFocus DEF Remembers
    <2>14. NoPending'
      BY <2>8, PendingLess DEF Remembers
    <2>15. Stopped'
      BY <2>2, StoppedElse DEF Stage, TearingDown
    <2> QED BY <2>13, <2>14, <2>15 DEF Remembers
  <1>6. CASE job.kind = "recover" /\ ~rebuild
    <2>1. /\ SameButBound(Unused, object'[s]) /\ Elsewhere(s)
          /\ registered' = [registered EXCEPT ![l] = Nobody]
          /\ Leaves(l) /\ UNCHANGED conversations
          /\ job' = [NoJob EXCEPT !.kind = "start", !.at = "pausing", !.label = l]
      BY <1>1, <1>6, DropPausesDoes
    <2>2. job'.at = "pausing"
      BY <2>1 DEF NoJob
    <2>3. registered'[l] = Nobody /\ \A k \in Labels \ {l} : registered'[k] = registered[k]
      BY <1>2, <2>1 DEF DirectoryTypeOK
    <2>4. /\ \A t \in Objects : ~(Holds(l, t)')
          /\ \A k \in Labels \ {l}, t \in Objects : Holds(k, t)' => Holds(k, t)
      BY <2>2, <2>3, DirectoryBounds DEF Holds, Stage, Starting
    <2>5. /\ cleared' = cleared \cup LeftBehind(l, s)
          /\ stored'[l] = None /\ \A k \in Labels \ {l} : stored'[k] = stored[k]
      BY <1>2, <2>1 DEF Leaves, DirectoryTypeOK
    <2>6. cleared' \subseteq cleared \cup (Trace(l) \ {None}) /\ None \notin cleared'
      BY <1>2, <1>3, <2>5, LeavesItsTrace
    <2>7. \A t \in Objects :
            SameButBound(object[t], object'[t]) \/ SameButBound(Unused, object'[t])
      BY <2>1 DEF Elsewhere
    <2>8. \A t \in Objects : Tame(t)
      BY <2>2, <2>7, TameIfAlike DEF Unhelped, Stage
    <2>9. \A x \in Trace(l)' : x \in Trace(l) \cup {None}
      BY <2>4, <2>5 DEF Trace
    <2>10. Traces'
      BY <1>2, <2>1, <2>4, <2>5, <2>6, <2>8, <2>9, TracesFocus DEF Remembers
    <2>11. NoPending'
      BY <2>7, PendingLess DEF Remembers
    <2>12. Stopped'
      BY <2>2, StoppedElse DEF Stage, TearingDown
    <2> QED BY <2>10, <2>11, <2>12 DEF Remembers
  <1> QED BY <1>4, <1>5, <1>6 DEF DropEnds

\* A label is retired: its session, seated to the end of the job, may not go on.
LEMMA RemembersRetired ==
    ASSUME Accounts, Owners, Remembers, RetireEnds
    PROVE  Remembers'
  <1>1. PICK l, s : l = job.label /\ s = job.who
    OBVIOUS
  <1>2. /\ l \in Labels /\ s \in Objects /\ registered[l] = s /\ Holds(l, s)
        /\ DirectoryTypeOK /\ job \in JobType /\ Stage({"dropping"})
        /\ job.kind \in {"stop", "bounce", "delete"}
    BY <1>1, JobParts, DirectoryBounds
       DEF RetireEnds, Accounts, JobFits, JobTearsDown, Stage, TearingDown, Holds, JobAt
  <1>3. object[s].inhibited /\ object[s].retired
    BY <1>1, <1>2 DEF Remembers, Stopped, Stage, TearingDown
  <1>4. cleared' = cleared \cup LeftBehind(l, s) /\ UNCHANGED conversations
    BY <1>1 DEF RetireEnds
  <1>5. cleared' \subseteq cleared \cup (Trace(l) \ {None}) /\ None \notin cleared'
    <2>1. None \notin cleared
      BY BegunNumbers DEF Remembers, Traces, TracesBegun, None
    <2> QED BY <1>2, <1>4, <2>1, LeavesItsTrace
  <1>6. CASE job.todo \ {l} # {}
    <2>1. PICK n \in Objects, next \in job.todo \ {l} :
            /\ n # s
            /\ \A t \in Objects \ {s, n} : SameButBound(object[t], object'[t])
            /\ SameTalk(object[s], object'[s]) /\ SameFate(object[s], object'[s])
            /\ object'[s].state = "down"
            /\ SameTalk(object[n], object'[n]) /\ SameState(object[n], object'[n])
            /\ object'[n].retired = object[n].retired /\ object'[n].inhibited
            /\ job' = [job EXCEPT !.at = "quiescing", !.label = next, !.who = n,
                                  !.todo = job.todo \ {l}]
            /\ stored' = [stored EXCEPT ![l] = None] /\ UNCHANGED registered
      BY <1>1, <1>6, RetireOneDoes
    <2>2. job'.at = "quiescing" /\ job'.who = n /\ job'.kind = job.kind
      BY <1>2, <2>1 DEF JobType
    <2>3. \A k \in Labels, t \in Objects : Holds(k, t)' => Holds(k, t)
      BY <2>1, <2>2 DEF Holds, Stage, Starting
    <2>4. ~(Stage({"rejoining"})')
      BY <2>2 DEF Stage
    <2>5. \A t \in Objects \ {s, n} : Tame(t)
      BY <2>1, <2>4, TameIfAlike DEF Unhelped
    <2>6. Tame(n)
      <3>1. Goes(n)' => Goes(n)
        BY <2>1, <2>4 DEF Goes, Revoked, SameState
      <3> QED BY <2>1, <3>1, TameIfSame
    <2>7. stored'[l] = None /\ \A k \in Labels \ {l} : stored'[k] = stored[k]
      BY <1>2, <2>1 DEF DirectoryTypeOK
    <2>8. \A t \in Objects : Holds(l, t)' => t = s
      BY <1>2, <2>3, HoldsOne
    <2>9. \A x \in Trace(l)' : x \in Trace(l) \cup {None}
      <3>1. \A x \in Trace(l)' : x = stored'[l] \/ x = object'[s].conv \/ x = object'[s].handle
        BY <2>8 DEF Trace
      <3>2. object[s].conv \in Trace(l) /\ object[s].handle \in Trace(l)
        BY <1>2 DEF Trace
      <3> QED BY <2>1, <2>7, <3>1, <3>2 DEF SameTalk
    <2>10. \A k \in Labels \ {l}, t \in Objects : Holds(k, t)' => Holds(k, t) /\ Tame(t)
      BY <1>2, <2>3, <2>5, <2>6, HoldsOne
    <2>11. object'[s].retired /\ ~(Goes(s)')
      BY <1>3, <2>1, <2>4 DEF Goes, Revoked, SameFate
    <2>12. \A t \in Objects : Holds(l, t)' => Clear(t)'
      BY <2>8, <2>11 DEF Clear
    <2>13. Traces'
      BY <1>2, <1>4, <1>5, <2>7, <2>9, <2>10, <2>12, TracesFocus DEF Remembers
    <2>14. NoPending'
      BY <2>1, PendingLess DEF Remembers, SameTalk
    <2>15. Stopped'
      BY <1>2, <2>1, <2>2 DEF Stopped, Stage
    <2> QED BY <2>13, <2>14, <2>15 DEF Remembers
  <1>7. CASE job.todo \ {l} = {}
    <2>1. /\ \A t \in Objects :
               SameButBound(object[t], object'[t]) \/ SameButBound(Unused, object'[t])
          /\ stored' = IF job.kind = "delete" THEN [stored EXCEPT ![l] = None]
                       ELSE [m \in Labels |-> None]
          /\ registered' = IF job.kind = "delete" THEN [registered EXCEPT ![l] = Nobody]
                           ELSE [m \in Labels |-> Nobody]
          /\ job' \in {NoJob, [NoJob EXCEPT !.kind = "start", !.at = "pausing"]}
      BY <1>1, <1>7, RetireLastDoes
    <2>2. job'.at \in {"none", "pausing"}
      <3>1. CASE job' = NoJob
        BY <3>1 DEF NoJob
      <3>2. CASE job' = [NoJob EXCEPT !.kind = "start", !.at = "pausing"]
        BY <3>2 DEF NoJob
      <3> QED BY <2>1, <3>1, <3>2
    <2>3. \A k \in Labels : registered'[k] \in {registered[k], Nobody} /\ stored'[k] \in {stored[k], None}
      BY <1>2, <2>1 DEF DirectoryTypeOK
    <2>4. registered'[l] = Nobody /\ stored'[l] = None
      BY <1>2, <2>1 DEF DirectoryTypeOK
    <2>5. /\ \A t \in Objects : ~(Holds(l, t)')
          /\ \A k \in Labels, t \in Objects : Holds(k, t)' => Holds(k, t)
      BY <2>2, <2>3, <2>4, DirectoryBounds DEF Holds, Stage, Starting
    <2>6. \A t \in Objects : Tame(t)
      BY <2>1, <2>2, TameIfAlike DEF Unhelped, Stage
    <2>7. \A x \in Trace(l)' : x \in Trace(l) \cup {None}
      BY <2>4, <2>5 DEF Trace
    <2>8. Traces'
      BY <1>2, <1>4, <1>5, <2>3, <2>4, <2>5, <2>6, <2>7, TracesFocus DEF Remembers
    <2>9. NoPending'
      BY <2>1, PendingLess DEF Remembers
    <2>10. Stopped'
      BY <2>2, StoppedElse DEF Stage, TearingDown
    <2> QED BY <2>8, <2>9, <2>10 DEF Remembers
  <1> QED BY <1>1, <1>6, <1>7

\* The runtime of an agent stays.
LEMMA SdkStays ==
    ASSUME [DirectoryNext]_directoryVars
    PROVE  Sdk' <=> Sdk
  <1>1. UNCHANGED runtime
    BY DEF DirectoryNext, directoryVars, config, Reports, Hears, PersistsPending, Resets, Breaks,
           IdleSleeps, Reconnects, Resurrects, ChangesClass, ChangesEffort, Arrives, LaunchEnds,
           LaunchFails, SettleEnds, SettleFails, QuiesceEnds, QuiesceFails, DropEnds, RetireEnds,
           DropFails, ReviveEnds, ReviveFails, PauseEnds, PauseFails, Ensures, Deletes, Renames,
           Restarts, Stops, Retires, Replaces, Quiesces, ColdStarts
  <1> QED BY <1>1 DEF Sdk

\* No step of an SDK agent brings back what was left behind.
LEMMA RemembersNext ==
    ASSUME Accounts, Owners, Sdk, Remembers, [DirectoryNext]_directoryVars
    PROVE  Remembers'
  <1>1. ASSUME NEW s \in Objects,
               \/ Reports(s) \/ Hears(s) \/ PersistsPending(s) \/ Resets(s)
               \/ Breaks(s) \/ IdleSleeps(s) \/ Reconnects(s)
        PROVE  Remembers'
    BY <1>1, RemembersSessions
  <1>2. CASE Resurrects
    BY <1>2, RemembersMain
  <1>3. CASE ChangesClass \/ ChangesEffort \/ UNCHANGED directoryVars
    BY <1>3, RemembersEdit
  <1>4. CASE Arrives
    BY <1>4, RemembersArrival
  <1>5. CASE LaunchEnds
    BY <1>5, RemembersLaunch
  <1>6. CASE LaunchFails
    BY <1>6, RemembersFailure
  <1>7. CASE SettleEnds
    BY <1>7, RemembersSettled
  <1>8. CASE SettleFails \/ QuiesceFails \/ DropFails \/ ReviveEnds \/ ReviveFails \/ PauseFails
    BY <1>8, RemembersEnds
  <1>9. CASE QuiesceEnds
    BY <1>9, RemembersQuiesced
  <1>10. CASE DropEnds
    BY <1>10, RemembersDrop
  <1>11. CASE RetireEnds
    BY <1>11, RemembersRetired
  <1>12. CASE PauseEnds
    <2>1. /\ ColdStarts(job.label) /\ job.label \in Labels /\ registered[job.label] = Nobody
          /\ JobAt("pausing") /\ job.candidate = Nobody /\ job.who = Nobody
      BY <1>12, JobParts DEF PauseEnds, Accounts, JobFits, JobPauses, Stage, JobAt
    <2> QED BY <2>1, RemembersColdStart
  <1>13. ASSUME NEW l \in Labels,
           \/ Ensures(l) \/ Restarts("fresh", l) \/ Restarts("recover", l) \/ Deletes(l)
           \/ \E m \in Labels : Renames(l, m)
         PROVE  Remembers'
    BY <1>13, RemembersRequests
  <1>14. CASE Stops("stop") \/ Stops("bounce")
    BY <1>14, RemembersRequests, DirectoryBounds
  <1> QED BY <1>1, <1>2, <1>3, <1>4, <1>5, <1>6, <1>7, <1>8, <1>9, <1>10, <1>11, <1>12, <1>13,
             <1>14 DEF DirectoryNext

\* The inductive invariant.
DirectoryInv == Accounts /\ Owners /\ (Sdk => Remembers)

\* It holds at first ...
LEMMA DirectoryAtFirst ==
    ASSUME DirectoryInit
    PROVE  DirectoryInv
  <1>1. /\ \A l \in Labels : registered[l] = Nobody /\ owner[l] = Nobody /\ stored[l] = None
        /\ cleared = {} /\ conversations = 0 /\ job.at = "none" /\ job.kind = "none"
        /\ \A s \in Objects : object[s].pending = None
    BY DEF DirectoryInit, NothingStarted, NoJob, Unused
  <1>2. \A l \in Labels, s \in Objects : ~Holds(l, s)
    BY <1>1 DEF Holds, Stage, Starting
  <1>3. Owners
    BY <1>1 DEF Owners, OwnerHolds, LeavingDisowns, Leaving, StopDisowns, Stage, TearingDown, JobAt
  <1>4. \A l \in Labels : Trace(l) = {None}
    BY <1>1, <1>2 DEF Trace
  <1>5. TracesBegun
    BY <1>1, <1>4 DEF TracesBegun, None
  <1>6. TracesApart /\ NotCleared
    BY <1>1, <1>2, <1>4 DEF TracesApart, NotCleared
  <1>7. NoPending /\ Stopped
    BY <1>1 DEF NoPending, Stopped, Stage, TearingDown
  <1> QED BY <1>3, <1>5, <1>6, <1>7, AccountsAtFirst DEF DirectoryInv, Remembers, Traces

\* ... and always.
LEMMA DirectoryAlways ==
    DirectorySpec => []DirectoryInv
  <1>1. DirectoryInv /\ [DirectoryNext]_directoryVars => DirectoryInv'
    BY AccountsNext, OwnersNext, SdkStays, RemembersNext DEF DirectoryInv
  <1> QED BY <1>1, DirectoryAtFirst, PTL DEF DirectorySpec

-----------------------------------------------------------------------------
(* Who writes the stored handle of a label.                                  *)

\* A callback with nothing to persist empties the row, at most.
LEMMA PersistsNothing ==
    ASSUME DirectoryTypeOK, NEW s \in Objects, Persist(s, None), NEW l \in Labels
    PROVE  stored'[l] \in {stored[l], None}
  BY DEF Persist, DirectoryTypeOK

\* A handle that was not there comes from a callback or with a session's new label.
LEMMA Writers ==
    ASSUME Accounts, DirectoryNext, NEW l \in Labels, stored'[l] \notin {stored[l], None}
    PROVE  \/ \E s \in Objects : Reports(s) \/ PersistsPending(s)
           \/ SettleEnds \/ \E k, m \in Labels : Renames(k, m)
  <1>1. DirectoryTypeOK
    BY DEF Accounts
  <1>2. ASSUME NEW s \in Objects, Hears(s) \/ Breaks(s) \/ IdleSleeps(s) \/ Reconnects(s) PROVE FALSE
    BY <1>2 DEF Hears, Breaks, IdleSleeps, Reconnects, handles
  <1>3. ASSUME NEW s \in Objects, Resets(s) PROVE FALSE
    BY <1>1, <1>3, PersistsNothing DEF Resets
  <1>4. ~(Resurrects \/ ChangesClass \/ ChangesEffort \/ LaunchEnds \/ LaunchFails \/ SettleFails
            \/ QuiesceFails \/ DropFails \/ ReviveEnds \/ ReviveFails \/ PauseFails)
    BY DEF Resurrects, ChangesClass, ChangesEffort, LaunchEnds, LaunchFails, SettleFails, QuiesceFails,
           DropFails, ReviveEnds, ReviveFails, PauseFails, handles
  <1>5. ~Arrives
    BY <1>1, ArrivesDoes, PersistsNothing, JobParts DEF handles
  <1>6. ~QuiesceEnds
    BY <1>1, QuiesceEndsDoes, JobParts DEF Leaves, DirectoryTypeOK
  <1>7. ~DropEnds
    BY <1>1, JobParts DEF DropEnds, Leaves, DirectoryTypeOK
  <1>8. ~RetireEnds
    <2>1. ASSUME RetireEnds PROVE FALSE
      <3>1. CASE job.todo \ {job.label} # {}
        <4>1. stored' = [stored EXCEPT ![job.label] = None]
          BY <2>1, <3>1, RetireOneDoes
        <4> QED BY <1>1, <4>1 DEF DirectoryTypeOK
      <3>2. CASE job.todo \ {job.label} = {}
        <4>1. \/ stored' = [stored EXCEPT ![job.label] = None]
              \/ stored' = [m \in Labels |-> None]
          BY <2>1, <3>2, RetireLastDoes
        <4> QED BY <1>1, <4>1 DEF DirectoryTypeOK
      <3> QED BY <3>1, <3>2
    <2> QED BY <2>1
  <1>9. \A k \in Labels : ~ColdStarts(k)
    BY DEF ColdStarts, handles
  <1>10. ~PauseEnds
    BY <1>1, <1>9, JobParts DEF PauseEnds
  <1>11. \A k, c, kind, todo : ~Quiesces(kind, k, c, todo)
    BY DEF Quiesces, handles
  <1>12. \A k \in Labels : ~Ensures(k) /\ ~Deletes(k) /\ ~Restarts("fresh", k) /\ ~Restarts("recover", k)
    <2>1. \A k \in Labels : ~Ensures(k)
      BY <1>9, <1>11 DEF Ensures, Replaces, handles
    <2> QED BY <1>11, <2>1 DEF Deletes, Restarts, Replaces, Retires
  <1>13. ~Stops("stop") /\ ~Stops("bounce")
    BY <1>11 DEF Stops, Retires
  <1> QED BY <1>2, <1>3, <1>4, <1>5, <1>6, <1>7, <1>8, <1>10, <1>12, <1>13 DEF DirectoryNext

\* What a step may write to the row of label l.
Seatwise(l) ==
    \E s \in {registered'[l], job.candidate} \ {Nobody} :
      \/ stored'[l] = object[s].conv /\ stored'[l] \notin cleared
      \/ stored'[l] = object[s].pending /\ (stored'[l] \in cleared => ~Leaving(l))
      \/ \E k \in Labels : registered[k] = s /\ stored'[l] = stored[k]

\* A report writes the row of the label that holds the session.
LEMMA ReportsSeatwise ==
    ASSUME DirectoryInv, NEW l \in Labels, stored'[l] # stored[l], NEW s \in Objects, Reports(s)
    PROVE  Seatwise(l)
  <1>1. /\ UNCHANGED registered /\ Persist(s, object[s].conv) /\ object[s].state = "connected" /\ Sdk
    BY DEF Reports, maps, Sdk
  <1>2. Persistable(s) /\ stored' = [stored EXCEPT ![object[s].bound] = object[s].conv]
    BY <1>1 DEF Persist
  <1>3. object[s].bound = l /\ stored'[l] = object[s].conv
    BY <1>2 DEF DirectoryInv, Accounts, DirectoryTypeOK
  <1>4. Holds(l, s)
    BY <1>2, <1>3, PersistsWhereHeld DEF DirectoryInv
  <1>5. object[s].conv \notin cleared
    BY <1>1, <1>4 DEF DirectoryInv, Remembers, Traces, NotCleared, Clear, Goes
  <1>6. s \in {registered'[l], job.candidate} \ {Nobody}
    BY <1>1, <1>4 DEF Holds
  <1> QED BY <1>3, <1>5, <1>6 DEF Seatwise

\* So does a pending handle, and not while the label's session is torn down for good.
LEMMA PendingSeatwise ==
    ASSUME DirectoryInv, NEW l \in Labels, stored'[l] # stored[l], NEW s \in Objects, PersistsPending(s)
    PROVE  Seatwise(l)
  <1>1. UNCHANGED registered /\ Persist(s, object[s].pending)
    BY DEF PersistsPending, maps
  <1>2. Persistable(s) /\ stored' = [stored EXCEPT ![object[s].bound] = object[s].pending]
    BY <1>1 DEF Persist
  <1>3. object[s].bound = l /\ stored'[l] = object[s].pending
    BY <1>2 DEF DirectoryInv, Accounts, DirectoryTypeOK
  <1>4. Holds(l, s) /\ owner[l] = s
    BY <1>2, <1>3, PersistsWhereHeld DEF DirectoryInv, Persistable
  <1>5. ~Leaving(l)
    BY <1>4 DEF DirectoryInv, Owners, LeavingDisowns, Holds
  <1>6. s \in {registered'[l], job.candidate} \ {Nobody}
    BY <1>1, <1>4 DEF Holds
  <1> QED BY <1>3, <1>5, <1>6 DEF Seatwise

\* A rename writes what was stored for the session under its old label.
LEMMA MovesSeatwise ==
    ASSUME DirectoryInv, NEW l \in Labels, stored'[l] \notin {stored[l], None},
           NEW k \in Labels, registered[k] # Nobody, NEW m \in Labels, registered[m] = Nobody,
           NEW f \in ObjType, Moves(registered[k], m, f)
    PROVE  Seatwise(l)
  <1>1. PICK s : s = registered[k]
    OBVIOUS
  <1>2. s \in Objects /\ DirectoryTypeOK
    BY <1>1, JobParts DEF DirectoryInv, Accounts
  <1>3. PICK n \in Labels :
          /\ registered[n] = s
          /\ registered' = [registered EXCEPT ![n] = Nobody, ![m] = s]
          /\ stored' = IF stored[n] = None THEN stored
                       ELSE [stored EXCEPT ![m] = stored[n], ![n] = None]
    BY <1>1, <1>2, MovesDoes
  <1>4. l = m /\ stored'[l] = stored[n] /\ registered'[l] = s
    BY <1>1, <1>2, <1>3 DEF DirectoryTypeOK
  <1>5. s # Nobody
    BY <1>1
  <1> QED BY <1>3, <1>4, <1>5 DEF Seatwise

\* The stored handle of a label is written by the session seated there, or about to be, and
\* brings back no conversation left behind.
THEOREM SeatedPersistHolds ==
    DirectorySpec => SeatedPersist
  <1>1. ASSUME DirectoryInv, DirectoryNext, NEW l \in Labels, stored'[l] \notin {stored[l], None}
        PROVE  Seatwise(l)
    <2>1. Accounts
      BY <1>1 DEF DirectoryInv
    <2>2. ASSUME NEW s \in Objects, Reports(s) \/ PersistsPending(s) PROVE Seatwise(l)
      BY <1>1, <2>2, ReportsSeatwise, PendingSeatwise
    <2>3. CASE SettleEnds
      <3>1. PICK d, f : d = debt[job.label] /\ f = [object EXCEPT ![d] = Unused]
        OBVIOUS
      <3>2. /\ job.label \in Labels /\ d \in Objects /\ registered[job.label] = Nobody
            /\ DirectoryTypeOK
        BY <2>1, <2>3, <3>1, JobParts DEF SettleEnds, Accounts, JobFits, JobSettles, Stage
      <3>3. f \in ObjType
        <4>1. object \in ObjType /\ Unused \in SessionObject
          BY <3>2, JobParts, DirectoryBounds
        <4> QED BY <3>1, <3>2, <4>1 DEF ObjType
      <3>4. JobAt("settling") /\ job.kind # "start" /\ Moves(job.who, job.label, f)
        BY <1>1, <2>3, <3>1 DEF SettleEnds, JobAt
      <3>5. PICK k \in Labels : registered[k] = job.who /\ job.who # Nobody
        BY <2>1, <3>4 DEF Accounts, JobFits, JobSettles, Stage, JobAt
      <3>6. Moves(registered[k], job.label, f) /\ registered[k] # Nobody
        BY <3>4, <3>5
      <3> QED BY <1>1, <3>2, <3>3, <3>6, MovesSeatwise
    <2>4. ASSUME NEW k \in Labels, NEW m \in Labels, Renames(k, m) PROVE Seatwise(l)
      <3>1. /\ registered[k] # Nobody /\ registered[m] = Nobody /\ object \in ObjType
        BY <2>1, <2>4, JobParts DEF Renames, Seated, Accounts
      <3>2. Moves(registered[k], m, object)
        BY <1>1, <2>4 DEF Renames
      <3> QED BY <1>1, <3>1, <3>2, MovesSeatwise
    <2> QED BY <1>1, <2>1, <2>2, <2>3, <2>4, Writers
  <1>2. DirectoryInv /\ [DirectoryNext]_directoryVars =>
          [\A l \in Labels : stored'[l] \notin {stored[l], None} =>
             \E s \in {registered'[l], job.candidate} \ {Nobody} :
               \/ stored'[l] = object[s].conv /\ stored'[l] \notin cleared
               \/ stored'[l] = object[s].pending /\ (stored'[l] \in cleared => ~Leaving(l))
               \/ \E k \in Labels : registered[k] = s /\ stored'[l] = stored[k]]_directoryVars
    BY <1>1 DEF Seatwise
  <1> QED BY <1>2, DirectoryAlways, PTL DEF DirectorySpec, SeatedPersist

=============================================================================
