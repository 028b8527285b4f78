------------------------------ MODULE SdeTable ------------------------------
(***************************************************************************)
(* What sde_cache promises those who look things up: a process serves one  *)
(* version of a table for as long as it lives, a version that was read     *)
(* from Postgres and has been about ever since; once nobody has it about,  *)
(* it never comes back.  SdeCache implements this.                         *)
(***************************************************************************)
EXTENDS Naturals

CONSTANTS
  Workers,  \* the processes that look things up
  Kinds,    \* the tables
  None      \* no table

VARIABLES
  db,     \* db[k]: the version of table k in Postgres
  about,  \* about[k]: the versions of k somebody may still take
  held    \* held[w][k]: the version of k process w serves

Init ==
  /\ db = [k \in Kinds |-> 1]
  /\ about = [k \in Kinds |-> {}]
  /\ held = [w \in Workers |-> [k \in Kinds |-> None]]

\* A patch day.
Update(k) ==
  /\ db' = [db EXCEPT ![k] = db[k] + 1]
  /\ UNCHANGED <<about, held>>

Takes(w) ==
  \A k \in Kinds : held'[w][k] = held[w][k] \/ (held[w][k] = None /\ held'[w][k] \in about[k])
Restarts(w) == \A k \in Kinds : held'[w][k] = None

\* Versions come to be about from Postgres only, and processes take what is about.
Serve ==
  /\ \A k \in Kinds : about'[k] \subseteq about[k] \cup {db[k]}
  /\ \A w \in Workers : Takes(w) \/ Restarts(w)
  /\ UNCHANGED db

Next == Serve \/ \E k \in Kinds : Update(k)

Spec == Init /\ [][Next]_<<db, about, held>>
=============================================================================
