--------------------------- MODULE MCKillmailLoad ---------------------------
(* KillmailLoad for one pilot of two: labels the SDE lacks and one the     *)
(* code lacks, bands that fold, more classes than are named, a shattered   *)
(* wormhole, a pod and a kill of the next day.                             *)
EXTENDS KillmailLoad, TLC

CONSTANTS moe, ann

OnePilot == {moe}
Windows == [w \in {"30", "90"} |-> IF w = "30" THEN 2 ELSE 3]
Buckets == {"Combat ships", "Haulers", "Other"}
Pods == {670}

\* hulls: 1 a frigate, 2 a bomber, 5 a cruiser, 8 one with a label of its own,
\* 9 one the SDE does not know
Tables ==
  [type |-> 1 :> "Rifter" @@ 2 :> "Manticore" @@ 5 :> "Caracal",
   abucket |-> 1 :> "Frigates" @@ 2 :> "Bombers",
   vbucket |-> 1 :> "Combat ships" @@ 5 :> "Combat ships" @@ 8 :> "Fighters",
   stealth |-> 2 :> 2,
   region |-> 10 :> "The Forge" @@ 11 :> "Pochven",
   const |-> 20 :> "Kimotoro" @@ 21 :> "Otela",
   system |-> 30 :> "Jita" @@ 31 :> "Nani" @@ 33 :> "J105443",
   whclass |-> 33 :> 5, shattered |-> 33 :> 33]
Classes_ == 5 :> "C5" @@ 13 :> "C13"
Contested == 31 :> 500001

Place(space, region, const, system) ==
  [space_type |-> space, region |-> region, const |-> const, system |-> system]
Jita == Place(0, 10, 20, 30)
Nani == Place(1, 10, 21, 31)
Senda == Place(4, 11, 22, 32)
Hole == Place(3, 12, 23, 33)

Kill(id, char, day, ship, victim, gang) ==
  [id |-> id, char |-> char, d |-> day, ship |-> ship, victim |-> victim, gang |-> gang]
KillsOfRun ==
  <<Kill(1, moe, 2, 1, 5, 1) @@ Jita, Kill(2, moe, 3, 9, 9, 2) @@ Senda,
   Kill(3, moe, 4, 2, 8, 1) @@ Nani, Kill(4, moe, 1, 2, 5, 3) @@ Hole,
   Kill(5, moe, 3, 1, 670, 1) @@ Jita, Kill(6, ann, 3, 0, 1, 1) @@ Nani>>
AtFirst == {1, 2, 4, 5, 6}
LossesOfRun == 7 :> ([id |-> 7, char |-> moe, d |-> 3, victim |-> 1] @@ Nani)
=============================================================================
