------------------------------ MODULE SdeCache ------------------------------
(***************************************************************************)
(* src/intel/sde_cache.py and what docker-entrypoint.sh does with it: the  *)
(* reference tables of Postgres, one Redis blob a table, and a copy in     *)
(* each gunicorn worker.  The container runs warm before gunicorn starts,  *)
(* and goes on if it fails; warm may also be run by hand later.            *)
(*                                                                         *)
(* A table stands for its version.  Postgres and Redis are external, and   *)
(* either may fail at any call.                                            *)
(***************************************************************************)
EXTENDS Integers, Sequences

CONSTANTS
  Workers,    \* the gunicorn workers: each serves one request at a time
  SOURCES,    \* _SOURCES: the kinds of table, in the order warm takes them
  None,       \* no table: nothing memoised, no blob, nothing read
  MaxVersion  \* bound on the versions of a table

Kinds == {SOURCES[n] : n \in DOMAIN SOURCES}

ASSUME SourcesAssumption ==
  /\ SOURCES \in Seq(Kinds) /\ SOURCES # <<>>
  /\ \A m, n \in DOMAIN SOURCES : SOURCES[m] = SOURCES[n] => m = n
ASSUME VersionAssumption == MaxVersion \in Nat \ {0} /\ None \notin Nat /\ None \notin Kinds

VARIABLES
  db,       \* db[k]: the version of table k in Postgres
  blob,     \* blob[k]: what Redis holds under sde:table:<k>
  serving,  \* whether gunicorn runs
  local,    \* local[w][k]: _local of worker w
  job,      \* job[w]: the kind a cold lookup of worker w is about, and the rows it has read
  warm,     \* the warm that runs: the position it is at (0: none runs), the rows it has read,
            \* and (history) the version Postgres had then
  boot,     \* history: boot[k], the version Postgres had for the warm of this container's start
  warmed,   \* history: warmed[k], the version Postgres had for the last warm to write k;
            \* either is 1, the oldest version, if there was no such warm
  behind,   \* history: workers that hold the rows of a kind, read before the last warm wrote it
  late      \* history: kinds whose blob was written by such a worker since

vars == <<db, blob, serving, local, job, warm, boot, warmed, behind, late>>
history == <<boot, warmed, behind, late>>

Versions == 1 .. MaxVersion
NoJob == [kind |-> None, rows |-> None]
WarmAt(n) == [at |-> n, rows |-> None, current |-> None]
NoWarm == WarmAt(0)
Nothing == [k \in Kinds |-> None]
Oldest == [k \in Kinds |-> 1]

\* The container starts: the entrypoint runs warm first.
StartContainer ==
  /\ serving' = FALSE
  /\ local' = [w \in Workers |-> Nothing]
  /\ job' = [w \in Workers |-> NoJob]
  /\ warm' = WarmAt(1)
  /\ boot' = Oldest
  /\ behind' = {}

Init ==
  /\ db = Oldest
  /\ blob = Nothing
  /\ serving = FALSE
  /\ local = [w \in Workers |-> Nothing]
  /\ job = [w \in Workers |-> NoJob]
  /\ warm = WarmAt(1)
  /\ boot = Oldest
  /\ warmed = Oldest
  /\ behind = {}
  /\ late = {}

(***************************************************************************)
(* lookup and _table, in a worker.  A lookup that finds its table in       *)
(* _local reads nothing and changes nothing.                               *)
(***************************************************************************)
Idle(w) == serving /\ job[w] = NoJob

\* Mutant: the memo is not looked at.
LookupBlobAlways(w, k) ==
  /\ Idle(w)
  /\ blob[k] # None
  /\ local' = [local EXCEPT ![w][k] = blob[k]]
  /\ UNCHANGED <<db, blob, serving, job, warm, history>>

\* cache.get finds the blob.
LookupBlob(w, k) ==
  /\ Idle(w)
  /\ local[w][k] = None
  /\ blob[k] # None
  /\ local' = [local EXCEPT ![w][k] = blob[k]]
  /\ UNCHANGED <<db, blob, serving, job, warm, history>>

\* cache.get finds none.
LookupCold(w, k) ==
  /\ Idle(w)
  /\ local[w][k] = None
  /\ blob[k] = None
  /\ job' = [job EXCEPT ![w] = [kind |-> k, rows |-> None]]
  /\ UNCHANGED <<db, blob, serving, local, warm, history>>

\* _fetch
Fetch(w) ==
  /\ job[w].kind # None
  /\ job[w].rows = None
  /\ job' = [job EXCEPT ![w].rows = db[job[w].kind]]
  /\ UNCHANGED <<db, blob, serving, local, warm, history>>

\* cache.set overwrites whatever is there by now.
SetBlob(w) ==
  LET k == job[w].kind IN
  /\ job[w].rows # None
  /\ blob' = [blob EXCEPT ![k] = job[w].rows]
  /\ job' = [job EXCEPT ![w] = NoJob]
  /\ late' = IF w \in behind THEN late \cup {k} ELSE late
  /\ behind' = behind \ {w}
  /\ UNCHANGED <<db, serving, warm, boot, warmed>>

\* The rows are memoised once Redis has them.
Store(w) ==
  /\ SetBlob(w)
  /\ local' = [local EXCEPT ![w][job[w].kind] = job[w].rows]

\* Redis has set the blob, and the call raises all the same: nothing is memoised.
StoreRaises(w) == SetBlob(w) /\ UNCHANGED local

\* Postgres or Redis raises, to no effect: the request is a 500 and nothing is memoised.
LookupRaises(w) ==
  /\ job[w] # NoJob
  /\ job' = [job EXCEPT ![w] = NoJob]
  /\ behind' = behind \ {w}
  /\ UNCHANGED <<db, blob, serving, local, warm, boot, warmed, late>>

(***************************************************************************)
(* warm                                                                    *)
(***************************************************************************)
WarmKind == SOURCES[warm.at]

\* Mutant: the rows come from the blob if there is one, as a lookup's do.
WarmFetchBlob ==
  /\ warm.at # 0
  /\ warm.rows = None
  /\ warm' = [warm EXCEPT !.current = db[WarmKind],
       !.rows = IF blob[WarmKind] # None THEN blob[WarmKind] ELSE db[WarmKind]]
  /\ UNCHANGED <<db, blob, serving, local, job, history>>

\* _fetch, whether there is a blob or not.
WarmFetch ==
  /\ warm.at # 0
  /\ warm.rows = None
  /\ warm' = [warm EXCEPT !.rows = db[WarmKind], !.current = db[WarmKind]]
  /\ UNCHANGED <<db, blob, serving, local, job, history>>

\* Mutant: cache.add for cache.set.
WarmStoreAbsent ==
  LET k == WarmKind
      last == warm.at = Len(SOURCES)
  IN
  /\ warm.rows # None
  /\ blob' = [blob EXCEPT ![k] = IF blob[k] = None THEN warm.rows ELSE blob[k]]
  /\ warm' = IF last THEN NoWarm ELSE WarmAt(warm.at + 1)
  /\ serving' = (serving \/ last)
  /\ boot' = IF serving THEN boot ELSE [boot EXCEPT ![k] = warm.current]
  /\ warmed' = [warmed EXCEPT ![k] = warm.current]
  /\ behind' = behind \cup {w \in Workers : job[w].kind = k /\ job[w].rows # None}
  /\ late' = late \ {k}
  /\ UNCHANGED <<db, local, job>>

\* cache.set, and on to the next kind; after the last one the command ends.
WarmStore ==
  LET k == WarmKind
      last == warm.at = Len(SOURCES)
  IN
  /\ warm.rows # None
  /\ blob' = [blob EXCEPT ![k] = warm.rows]
  /\ warm' = IF last THEN NoWarm ELSE WarmAt(warm.at + 1)
  /\ serving' = (serving \/ last)
  /\ boot' = IF serving THEN boot ELSE [boot EXCEPT ![k] = warm.current]
  /\ warmed' = [warmed EXCEPT ![k] = warm.current]
  /\ behind' = behind \cup {w \in Workers : job[w].kind = k /\ job[w].rows # None}
  /\ late' = late \ {k}
  /\ UNCHANGED <<db, local, job>>

\* Mutant: the entrypoint stops where the command fails (set -e).
WarmRaisesExits ==
  /\ warm.at # 0
  /\ warm' = NoWarm
  /\ UNCHANGED <<db, blob, serving, local, job, history>>

\* A call of the command raises, the last write perhaps done: what it has written stays, and
\* the entrypoint starts gunicorn all the same.
WarmRaises ==
  /\ warm.at # 0
  /\ warm' = NoWarm
  /\ serving' = TRUE
  /\ blob' \in {blob} \cup IF warm.rows = None THEN {} ELSE {[blob EXCEPT ![WarmKind] = warm.rows]}
  /\ UNCHANGED <<db, local, job, history>>

\* manage.py warm_sde_cache, by hand.
WarmByHand ==
  /\ serving
  /\ warm = NoWarm
  /\ warm' = WarmAt(1)
  /\ UNCHANGED <<db, blob, serving, local, job, history>>

(***************************************************************************)
(* gunicorn, the container, Postgres and Redis                             *)
(***************************************************************************)
\* gunicorn starts a worker afresh; no warm runs.
RestartWorker(w) ==
  /\ serving
  /\ local' = [local EXCEPT ![w] = Nothing]
  /\ job' = [job EXCEPT ![w] = NoJob]
  /\ behind' = behind \ {w}
  /\ UNCHANGED <<db, blob, serving, warm, boot, warmed, late>>

\* Redis outlives the container.
RestartContainer ==
  /\ StartContainer
  /\ UNCHANGED <<db, blob, warmed, late>>

Update(k) ==
  /\ db[k] < MaxVersion
  /\ db' = [db EXCEPT ![k] = db[k] + 1]
  /\ UNCHANGED <<blob, serving, local, job, warm, history>>

\* The TTL of 30 days, or an eviction.
Expire(k) ==
  /\ blob[k] # None
  /\ blob' = [blob EXCEPT ![k] = None]
  /\ UNCHANGED <<db, serving, local, job, warm, history>>

Next ==
  \/ \E w \in Workers :
       \/ \E k \in Kinds : LookupBlob(w, k) \/ LookupCold(w, k)
       \/ Fetch(w) \/ Store(w) \/ StoreRaises(w) \/ LookupRaises(w)
       \/ RestartWorker(w)
  \/ WarmFetch \/ WarmStore \/ WarmRaises \/ WarmByHand
  \/ RestartContainer
  \/ \E k \in Kinds : Update(k) \/ Expire(k)

Spec == Init /\ [][Next]_vars

-----------------------------------------------------------------------------
OrNone(S) == S \cup {None}

\* Every variable stays in its type; gunicorn runs unless the container's own warm does.
TypeOK ==
  /\ db \in [Kinds -> Versions]
  /\ blob \in [Kinds -> OrNone(Versions)]
  /\ serving \in BOOLEAN
  /\ local \in [Workers -> [Kinds -> OrNone(Versions)]]
  /\ job \in [Workers -> [kind : OrNone(Kinds), rows : OrNone(Versions)]]
  /\ warm \in [at : 0 .. Len(SOURCES), rows : OrNone(Versions), current : OrNone(Versions)]
  /\ boot \in [Kinds -> Versions]
  /\ warmed \in [Kinds -> Versions]
  /\ behind \subseteq Workers
  /\ late \subseteq Kinds
  /\ ~serving => warm.at # 0 /\ \A w \in Workers : local[w] = Nothing /\ job[w] = NoJob

AtLeast(version, floor) == version # None => version >= floor

\* "warm_sde_cache runs at start, so a restart is the refresh": a worker never serves a table
\* older than the one in Postgres when the warm of its container's start refreshed it, whatever
\* came in between: warms by hand, expiries, restarts and reads of other workers.
RestartIsRefresh == \A w \in Workers, k \in Kinds : AtLeast(local[w][k], boot[k])

\* A warm leaves what Postgres had, and is undone only by a worker that had read the table
\* before the warm wrote it and has written it since.
WarmIsFresh == \A k \in Kinds \ late : AtLeast(blob[k], warmed[k])

\* The versions of a table that may yet be taken: the blob, and what is about to become it.
About ==
  [k \in Kinds |->
     ({blob[k]} \cup {job[w].rows : w \in {v \in Workers : job[v].kind = k}}
      \cup {warm.rows : n \in {m \in DOMAIN SOURCES : m = warm.at /\ SOURCES[m] = k}}) \ {None}]

\* Readers see the table of SdeTable.
Table == INSTANCE SdeTable WITH about <- About, held <- local
TableSpec == Table!Spec

=============================================================================
