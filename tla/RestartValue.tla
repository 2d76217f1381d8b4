----------------------------- MODULE RestartValue ----------------------------
(***************************************************************************)
(* RestartValueSerializer (src/src/drive/DriveParams.h): one named value a *)
(* drive keeps over restarts.  saveRestartData writes the file             *)
(* "<name>.tmp", removes "<name>" and renames the first to the second;     *)
(* loadRestartData reads "<name>" and falls back to "<name>.tmp".  All     *)
(* saves and loads run on the background thread, one at a time, and the    *)
(* process may die between any two file operations.                        *)
(***************************************************************************)
EXTENDS Naturals

CONSTANTS
    Values,     \* the serialised values
    None,       \* no such file, or a load that found nothing
    Torn,       \* a file whose writing was cut short: deserialisation fails
    MaxDeaths   \* bound on the number of times the process dies

ASSUME RestartAssumption ==
    /\ None \notin Values
    /\ Torn \notin Values
    /\ Torn # None
    /\ MaxDeaths \in Nat

VARIABLES
    main,       \* contents of "<name>"
    tmp,        \* contents of "<name>.tmp"
    pc,         \* the next file operation of the background thread
    arg,        \* the value being saved, None if no save is in progress
    loaded,     \* what the current or last process loaded when it started
    deaths      \* how often the process died

serializerVars == <<main, tmp, pc, arg, loaded, deaths>>

\* A mutant: a load that never looks at "<name>.tmp".
LoadRestartValueMainOnly == main

\* The value loadRestartValue yields: "<name>" wins over "<name>.tmp", and an
\* archive that does not deserialise counts as nothing loaded.
LoadRestartValue ==
    LET data == IF main # None THEN main ELSE tmp
    IN  IF data = Torn THEN None ELSE data

SerializerInit ==
    /\ main = None
    /\ tmp = None
    /\ pc = "idle"
    /\ arg = None
    /\ loaded = None
    /\ deaths = 0

\* saveRestartData opens "<name>.tmp" for writing, which truncates it.
OpenTmp(v) ==
    /\ pc = "idle"
    /\ tmp' = Torn
    /\ arg' = v
    /\ pc' = "write"
    /\ UNCHANGED <<main, loaded, deaths>>

\* The stream is flushed and closed.
WriteTmp ==
    /\ pc = "write"
    /\ tmp' = arg
    /\ pc' = "remove"
    /\ UNCHANGED <<main, arg, loaded, deaths>>

\* fs::remove( outputFile )
RemoveMain ==
    /\ pc = "remove"
    /\ main' = None
    /\ pc' = "rename"
    /\ UNCHANGED <<tmp, arg, loaded, deaths>>

\* fs::rename( outputFile + ".tmp", outputFile )
RenameTmp ==
    /\ pc = "rename"
    /\ main' = tmp
    /\ tmp' = None
    /\ pc' = "idle"
    /\ arg' = None
    /\ UNCHANGED <<loaded, deaths>>

\* The process dies; the files stay as they are.
ProcessDies ==
    /\ pc # "down"
    /\ deaths < MaxDeaths
    /\ pc' = "down"
    /\ arg' = None
    /\ deaths' = deaths + 1
    /\ UNCHANGED <<main, tmp, loaded>>

\* The next process loads the value (ModifyOpinionController::initialize,
\* InitializeDriveTask); nothing on disk changes.
ProcessStarts ==
    /\ pc = "down"
    /\ pc' = "idle"
    /\ loaded' = LoadRestartValue
    /\ UNCHANGED <<main, tmp, arg, deaths>>

SerializerNext ==
    \/ \E v \in Values : OpenTmp(v)
    \/ WriteTmp
    \/ RemoveMain
    \/ RenameTmp
    \/ ProcessDies
    \/ ProcessStarts

SerializerSpec == SerializerInit /\ [][SerializerNext]_serializerVars

------------------------------------------------------------------------------
\* Every file holds what a save can leave in it, and the argument of the save
\* is there exactly while saveRestartData runs.
SerializerTypeOK ==
    /\ main \in Values \cup {None}
    /\ tmp \in Values \cup {None, Torn}
    /\ pc \in {"idle", "write", "remove", "rename", "down"}
    /\ arg \in Values \cup {None}
    /\ (arg # None) <=> pc \in {"write", "remove", "rename"}
    /\ loaded \in Values \cup {None}
    /\ deaths \in 0..MaxDeaths

\* The value the two files stand for.  While both are unusable (a save runs
\* although the last crash left no "<name>") it is only in memory.
Stored == IF main # None THEN main
          ELSE IF tmp \in Values THEN tmp
          ELSE IF pc = "down" THEN None ELSE loaded

\* There is no "<name>", and "<name>.tmp" is the file the next save truncates.
Exposed == main = None /\ pc \in {"idle", "write", "down"}

Atomic == INSTANCE AtomicValue
            WITH stored <- Stored, exposed <- Exposed, saving <- arg, up <- pc # "down"

\* The two files implement one atomic value: no crash inside saveRestartData
\* brings back an older one or yields anything but the old or the new value at
\* the next start, and a value is only lost by two crashes in two saves that
\* follow each other, the first of them between remove and rename.
ImplementsAtomicValue == Atomic!AtomicSpec

==============================================================================
