----------------------------- MODULE AtomicValue -----------------------------
(***************************************************************************)
(* What the users of RestartValueSerializer get: a named value that        *)
(* survives restarts.  A save takes effect at some moment after it is      *)
(* requested, or never if the process dies first; a stored value is only   *)
(* ever replaced by the value of the save in progress, and every new       *)
(* process loads the stored value.                                         *)
(*                                                                         *)
(* There is one way to lose it.  If the process dies in the middle of a    *)
(* save that took effect, the value is exposed: it is loaded as usual, but *)
(* if the process dies again in the very next save, nothing is left.       *)
(***************************************************************************)
CONSTANTS
    Values,     \* the values that can be saved
    None        \* nothing is stored

VARIABLES
    stored,     \* the value kept over restarts
    exposed,    \* is it lost if the process dies in the next save?
    saving,     \* the argument of the save in progress, None if there is none
    loaded,     \* what the current or last process loaded when it started
    up          \* is the process running?

AtomicVars == <<stored, exposed, saving, loaded, up>>

\* Where nothing is stored, nothing can be lost.
AtomicInit ==
    /\ stored = None
    /\ exposed = TRUE
    /\ saving = None
    /\ loaded = None
    /\ up = TRUE

\* A save is requested.
Request ==
    /\ up /\ saving = None
    /\ saving' \in Values
    /\ UNCHANGED <<stored, exposed, loaded, up>>

\* The save takes effect.
Commit ==
    /\ saving # None
    /\ stored' = saving
    /\ exposed' = FALSE
    /\ UNCHANGED <<saving, loaded, up>>

\* The save returns, after it took effect.
Return ==
    /\ saving # None
    /\ stored = saving
    /\ saving' = None
    /\ UNCHANGED <<stored, exposed, loaded, up>>

\* The process dies, and with it the save.
Die ==
    /\ up
    /\ up' = FALSE
    /\ saving' = None
    /\ \/ UNCHANGED <<stored, exposed>>
       \/ saving # None /\ stored = saving /\ exposed' = TRUE /\ UNCHANGED stored
       \/ saving # None /\ exposed /\ stored' = None /\ UNCHANGED exposed
    /\ UNCHANGED loaded

\* A new process loads the stored value.
Start ==
    /\ ~up
    /\ up' = TRUE
    /\ loaded' = stored
    /\ UNCHANGED <<stored, exposed, saving>>

AtomicNext == Request \/ Commit \/ Return \/ Die \/ Start

AtomicSpec == AtomicInit /\ [][AtomicNext]_AtomicVars

==============================================================================
