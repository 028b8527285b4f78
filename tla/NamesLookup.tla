---------------------------- MODULE NamesLookup ----------------------------
(***************************************************************************)
(* What esi.names() promises of the cache it keeps, whichever worker       *)
(* writes: an id is cached as a name only when ESI knows it, as a miss     *)
(* only when ESI refused it alone, one id at a time, and an entry is never *)
(* dropped before it expires.  NamesBatch implements this.                 *)
(***************************************************************************)
CONSTANTS Ids, Flaky

VARIABLES
  live,   \* the ids ESI can name
  cache   \* cache[i]: what Redis holds for id i

Init ==
  /\ live \in SUBSET Ids
  /\ cache = [i \in Ids |-> "none"]

Learn(S) ==
  /\ S \subseteq live
  /\ cache' = [i \in Ids |-> IF i \in S THEN "name" ELSE cache[i]]
  /\ UNCHANGED live

Miss(i) ==
  /\ i \in live => Flaky
  /\ cache' = [cache EXCEPT ![i] = "miss"]
  /\ UNCHANGED live

Expire(i) ==
  /\ cache[i] # "none"
  /\ cache' = [cache EXCEPT ![i] = "none"]
  /\ UNCHANGED live

Next ==
  \/ \E S \in SUBSET Ids : Learn(S)
  \/ \E i \in Ids : Miss(i) \/ Expire(i)

Spec == Init /\ [][Next]_<<live, cache>>
=============================================================================
