---------------------------- MODULE StoreRestore ----------------------------
(***************************************************************************)
(* The attended restore of one SQLite store (store_restore.py): under the  *)
(* lock that the daemon holds while it runs, the tool moves the store and  *)
(* its sidecar aside and moves a verified copy of the snapshot in.  It may *)
(* fail or be killed between any two renames, and undoes nothing.  Some    *)
(* other process may open the store without the lock.                      *)
(* Files are told apart by their content; the sidecars are one, the WAL.   *)
(***************************************************************************)
EXTENDS Naturals

CONSTANT MaxIncidents   \* bound: tools and daemons that fail, openings by others

ASSUME RestoreAssumption == MaxIncidents \in Nat

VARIABLES
    main,           \* what the manifest's path holds
    wal,            \* the store that the WAL beside it belongs to
    kept,           \* <<content, part>> of the corrupt-... copies
    tool,           \* what the tool has done
    seen,           \* the sidecar among target_identities
    daemon,         \* whether a daemon serves the store
    opener,         \* the store that another process has open
    late,           \* history: it opened the store after the tool's scan
    begun,          \* history: a daemon began a store of its own in the gap of a failed tool
    incidents

restoreVars == <<main, wal, kept, tool, seen, daemon, opener, late, begun, incidents>>

Stores == {"corrupt", "snapshot", "fresh"}

RestoreInit ==
    /\ main = "corrupt" /\ wal = "corrupt"
    /\ kept = {} /\ tool = "idle" /\ seen = "none"
    /\ daemon = FALSE /\ opener = "none"
    /\ late = FALSE /\ begun = FALSE /\ incidents = 0

Incident == incidents < MaxIncidents /\ incidents' = incidents + 1

-----------------------------------------------------------------------------
(* restore_store                                                             *)

\* The lock, the target and its sidecar, and the verified temporary copy.  Without a
\* target the tool refuses.
Begins ==
    /\ tool = "idle" /\ ~daemon
    /\ main # "absent"
    /\ tool' = "copied" /\ seen' = wal
    /\ UNCHANGED <<main, wal, kept, daemon, opener, late, begun, incidents>>

\* assert_no_open_store_descriptors: of the target and the sidecar.
Scans ==
    /\ tool = "copied"
    /\ tool' = IF opener # "none" /\ opener \in {main, wal} THEN "idle" ELSE "scanned"
    /\ UNCHANGED <<main, wal, kept, seen, daemon, opener, late, begun, incidents>>

\* Mutant: the copy replaces the target before the sidecar is moved.
MovesMainIn ==
    /\ tool = "scanned"
    /\ IF wal = seen
       THEN main' = "snapshot" /\ kept' = kept \cup {<<main, "main">>} /\ tool' = "mainMoved"
       ELSE UNCHANGED <<main, kept>> /\ tool' = "idle"
    /\ UNCHANGED <<wal, seen, daemon, opener, late, begun, incidents>>

\* _assert_unchanged, and the rename of the target.
MovesMain ==
    /\ tool = "scanned"
    /\ IF wal = seen
       THEN main' = "absent" /\ kept' = kept \cup {<<main, "main">>} /\ tool' = "mainMoved"
       ELSE UNCHANGED <<main, kept>> /\ tool' = "idle"
    /\ UNCHANGED <<wal, seen, daemon, opener, late, begun, incidents>>

\* A sidecar that was not there at the beginning stays.
MovesSidecar ==
    /\ tool = "mainMoved"
    /\ tool' = "sidecarMoved"
    /\ IF seen = "none" THEN UNCHANGED <<wal, kept>>
       ELSE wal' = "none" /\ kept' = kept \cup {<<wal, "wal">>}
    /\ UNCHANGED <<main, seen, daemon, opener, late, begun, incidents>>

\* The copy is moved in and verified.
Installs ==
    /\ tool = "sidecarMoved"
    /\ main' = "snapshot" /\ tool' = "idle"
    /\ UNCHANGED <<wal, kept, seen, daemon, opener, late, begun, incidents>>

\* A rename raises, or the tool is killed; the lock goes with it.
ToolFails ==
    /\ tool # "idle"
    /\ Incident
    /\ tool' = "idle"
    /\ UNCHANGED <<main, wal, kept, seen, daemon, opener, late, begun>>

-----------------------------------------------------------------------------
(* The daemon, and a process without the lock                                *)

\* preflight_integrity refuses a corrupt store and leaves a missing one to its
\* constructor, which truncates the WAL it finds beside it.
DaemonStarts ==
    /\ tool = "idle" /\ ~daemon /\ main # "corrupt"
    /\ daemon' = TRUE
    /\ main' = IF main = "absent" THEN "fresh" ELSE main
    /\ wal' = main'
    /\ begun' = (begun \/ main = "absent")
    /\ UNCHANGED <<kept, tool, seen, opener, late, incidents>>

\* A clean shutdown folds the WAL into the store, a crash leaves it.
DaemonEnds ==
    /\ daemon /\ daemon' = FALSE
    /\ \/ wal' = "none" /\ UNCHANGED incidents
       \/ Incident /\ UNCHANGED wal
    /\ UNCHANGED <<main, kept, tool, seen, opener, late, begun>>

OtherOpens ==
    /\ opener = "none" /\ main # "absent"
    /\ Incident
    /\ opener' = main
    /\ late' = (late \/ tool = "scanned")
    /\ UNCHANGED <<main, wal, kept, tool, seen, daemon, begun>>

\* It creates its WAL by the store's path, wherever the store has been moved.
OtherWrites ==
    /\ opener # "none" /\ wal = "none"
    /\ wal' = opener
    /\ UNCHANGED <<main, kept, tool, seen, daemon, opener, late, begun, incidents>>

OtherCloses ==
    /\ opener # "none" /\ opener' = "none"
    /\ UNCHANGED <<main, wal, kept, tool, seen, daemon, late, begun, incidents>>

RestoreNext ==
    \/ Begins \/ Scans \/ MovesMain \/ MovesSidecar \/ Installs \/ ToolFails
    \/ DaemonStarts \/ DaemonEnds
    \/ OtherOpens \/ OtherWrites \/ OtherCloses

RestoreSpec == RestoreInit /\ [][RestoreNext]_restoreVars

-----------------------------------------------------------------------------

RestoreTypeOK ==
    /\ main \in Stores \cup {"absent"} /\ {wal, seen, opener} \subseteq Stores \cup {"none"}
    /\ kept \subseteq Stores \X {"main", "wal"}
    /\ tool \in {"idle", "copied", "scanned", "mainMoved", "sidecarMoved"}
    /\ {daemon, late, begun} \subseteq BOOLEAN /\ incidents \in 0..MaxIncidents

\* The corrupt store is where it was or in a copy, and so is its WAL, however often the
\* tool fails and is run again; unless a daemon began a new store between the renames of
\* a tool that failed, over the WAL that was still beside the target.
CorruptKept ==
    /\ main = "corrupt" \/ <<"corrupt", "main">> \in kept
    /\ wal = "corrupt" \/ <<"corrupt", "wal">> \in kept \/ begun

\* No store stands beside the WAL of another, which SQLite would apply to it; unless a
\* process without the lock opened the target after the scan.
NeverMixed == main \in {"snapshot", "fresh"} /\ ~late => wal \in {"none", main}

\* A restore keeps what it replaces and mixes nothing with it.
RestoreKeepsBoth == CorruptKept /\ NeverMixed

=============================================================================
