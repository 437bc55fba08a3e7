---------------------------- MODULE MCBuildCache ----------------------------
(* BuildCache with two terminals, two texts and two states of the imports,  *)
(* where saves and signals come a few times only.                           *)
EXTENDS BuildCache, TLC

CONSTANTS p1, p2, t1, t2, i1, i2
CONSTANTS MaxSaves, MaxKills   \* bounds

VARIABLES saves, kills   \* how many there were

Alike == Permutations({p1, p2}) \cup Permutations({t1, t2}) \cup Permutations({i1, i2})

MCInit == Init /\ saves = 0 /\ kills = 0

MCNext ==
  \/ (Commands \/ Tick) /\ UNCHANGED <<saves, kills>>
  \/ Saves /\ saves < MaxSaves /\ saves' = saves + 1 /\ kills' = kills
  \/ Kills /\ kills < MaxKills /\ kills' = kills + 1 /\ saves' = saves

MCSpec == MCInit /\ [][MCNext]_<<vars, saves, kills>>

\* Nothing is saved while a command runs.
QuietNext == MCNext /\ (Running # {} => UNCHANGED <<source, imports>>)

QuietSpec == MCInit /\ [][QuietNext]_<<vars, saves, kills>>
=============================================================================
