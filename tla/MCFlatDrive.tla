------------------------------ MODULE MCFlatDrive ----------------------------
(***************************************************************************)
(* Instances of FlatDrive for TLC.                                         *)
(***************************************************************************)
EXTENDS FlatDrive

\* Powers of two: no sum of sizes equals another one.
MCSize == [m \in Mods |-> 2 ^ (m - 1)]

\* The second modification fails for want of space.
MCOutcome == [m \in Mods |-> IF m = 2 THEN "space" ELSE "ok"]

\* Only the last modification fails: the trees of the others all differ.
MCOutcomeFailing == [m \in Mods |-> IF m = MaxMods THEN "files" ELSE "ok"]

\* The action list of the first modification cannot be downloaded, the second
\* one fails for want of space.
MCOutcomeNoList == [m \in Mods |-> IF m = 1 THEN "list" ELSE "space"]

==============================================================================
