---------------------------- MODULE DetailFanOut ----------------------------
(***************************************************************************)
(* The identity data ESI serves one entity at a time: _character_details   *)
(* and each half of _tickers in src/intel/esi.py, over _split_cached,      *)
(* _parallel and _cache_hits_and_misses.  Each gunicorn worker runs one    *)
(* such load at a time, with a thread pool of its own; all of them share   *)
(* the Redis entries.                                                      *)
(*                                                                         *)
(* Executor.map (external) submits every id at once, yields the results in *)
(* the order of the ids, and when it raises cancels what no thread has     *)
(* taken; leaving the pool waits for the threads that run.                 *)
(***************************************************************************)
EXTENDS Integers, Sequences, FiniteSets, Functions

CONSTANTS
  Workers,      \* the gunicorn workers
  Ids,          \* the pilots or organisations
  MaxParallel,  \* ESI_MAX_PARALLEL
  TtlHit,       \* TTL_CHARACTER and TTL_ORG, in ticks
  TtlMiss,      \* TTL_MISS, in ticks
  Deadline,     \* ticks after which gunicorn kills a worker that is still at one request
  Expires       \* ticks for which ESI says its answer is fresh

ASSUME WorkersAssumption == IsFiniteSet(Workers) /\ IsFiniteSet(Ids)
ASSUME MaxParallelAssumption == MaxParallel \in Nat \ {0}
ASSUME TtlAssumption ==
  /\ TtlHit \in Nat \ {0}
  /\ TtlMiss \in 1 .. TtlHit
  /\ Deadline \in Nat \ {0}
  /\ Expires \in 0 .. TtlHit

VARIABLES
  cache,    \* Redis: cache[i] = [kind, ttl, age], age being how long ago ESI said so
  phase,    \* phase[w]: where the load of worker w is, or how it ended
  wanted,   \* wanted[w]: the ids the load was called with
  missing,  \* missing[w]: those it did not find in the cache, in order
  hits,     \* hits[w]: the ids it has a value for
  task,     \* task[w][i]: the future of id i
  seen,     \* seen[w]: how many results the load has taken from map()
  spent,    \* spent[w]: ticks since the load began
  said,     \* said[w][i]: ticks since ESI answered this load about i
  fresh,    \* history: fresh[i], ticks until ESI's last value for i expires
  dropped,  \* history: ids whose fresh value was thrown away
  during    \* history: during[i], the workers at work on a load when i was cached as a hit

vars == <<cache, phase, wanted, missing, hits, task, seen, spent, said, fresh, dropped, during>>
load == <<wanted, missing, hits>>
history == <<fresh, dropped, during>>

Active == {"running", "failing", "storing"}
Phases == Active \cup {"idle", "done", "raised", "killed"}
Answered == {"hit", "miss", "error"}
Tasks == Answered \cup {"none", "queued", "running", "cancelled"}

NoEntry == [kind |-> "none", ttl |-> 0, age |-> 0]
CachedAs(kind) == {i \in Ids : cache[i].kind = kind}
With(w, state) == {i \in Ids : task[w][i] = state}
NoTasks == [i \in Ids |-> "none"]
NoAges == [i \in Ids |-> 0]

Init ==
  /\ cache = [i \in Ids |-> NoEntry]
  /\ phase = [w \in Workers |-> "idle"]
  /\ wanted = [w \in Workers |-> {}]
  /\ missing = [w \in Workers |-> <<>>]
  /\ hits = [w \in Workers |-> {}]
  /\ task = [w \in Workers |-> NoTasks]
  /\ seen = [w \in Workers |-> 0]
  /\ spent = [w \in Workers |-> 0]
  /\ said = [w \in Workers |-> NoAges]
  /\ fresh = NoAges
  /\ dropped = {}
  /\ during = [i \in Ids |-> {}]

(***************************************************************************)
(* A load                                                                  *)
(***************************************************************************)
BeginWith(w, ids, unknown) ==
  /\ phase[w] \notin Active
  /\ phase' = [phase EXCEPT ![w] = "running"]
  /\ wanted' = [wanted EXCEPT ![w] = ids]
  /\ \E order \in Bijection(1 .. Cardinality(unknown), unknown) :
       missing' = [missing EXCEPT ![w] = order]
  /\ hits' = [hits EXCEPT ![w] = ids \cap CachedAs("hit")]
  /\ task' = [task EXCEPT ![w] = [i \in Ids |-> IF i \in unknown THEN "queued" ELSE "none"]]
  /\ seen' = [seen EXCEPT ![w] = 0]
  /\ spent' = [spent EXCEPT ![w] = 0]
  /\ said' = [said EXCEPT ![w] = NoAges]
  /\ during' = [i \in Ids |-> during[i] \ {w}]
  /\ UNCHANGED <<cache, fresh, dropped>>

\* Mutant: only the misses are looked up in the cache.
BeginAsksHits(w, ids) == BeginWith(w, ids, ids \ CachedAs("miss"))

\* _split_cached, and the submission of what is not in the cache.
Begin(w, ids) == BeginWith(w, ids, ids \cap CachedAs("none"))

\* A free thread of the pool takes the first id in the queue and sends its request.
Start(w, k) ==
  /\ k \in DOMAIN missing[w]
  /\ task[w][missing[w][k]] = "queued"
  /\ \A j \in 1 .. k - 1 : task[w][missing[w][j]] # "queued"
  /\ Cardinality(With(w, "running")) < MaxParallel
  /\ task' = [task EXCEPT ![w][missing[w][k]] = "running"]
  /\ UNCHANGED <<cache, phase, load, seen, spent, said, history>>

\* ESI describes the entity.
AnswerHit(w, i) ==
  /\ task[w][i] = "running"
  /\ task' = [task EXCEPT ![w][i] = "hit"]
  /\ fresh' = [fresh EXCEPT ![i] = Expires]
  /\ dropped' = dropped \ {i}
  /\ UNCHANGED <<cache, phase, load, seen, spent, said, during>>

\* A 4xx, perhaps a transient one (None); or _request raises.
AnswerNothing(w, i, result) ==
  /\ task[w][i] = "running"
  /\ task' = [task EXCEPT ![w][i] = result]
  /\ UNCHANGED <<cache, phase, load, seen, spent, said, history>>

Answer(w, i) == AnswerHit(w, i) \/ AnswerNothing(w, i, "miss") \/ AnswerNothing(w, i, "error")

\* The futures nobody has started are cancelled when map() raises.
Cancel(w) == [i \in Ids |-> IF task[w][i] = "queued" THEN "cancelled" ELSE task[w][i]]

\* Mutant: a miss takes the result after it along.
CollectSkipping(w) ==
  /\ phase[w] = "running"
  /\ seen[w] < Len(missing[w])
  /\ LET result == task[w][missing[w][seen[w] + 1]] IN
     /\ result \in {"hit", "miss"}
     /\ seen' = [seen EXCEPT ![w] = IF result = "miss" THEN seen[w] + 2 ELSE seen[w] + 1]
  /\ UNCHANGED <<cache, phase, load, task, spent, said, history>>

\* zip() asks for the next result, which must have come.
Collect(w) ==
  /\ phase[w] = "running"
  /\ seen[w] < Len(missing[w])
  /\ LET result == task[w][missing[w][seen[w] + 1]] IN
     \/ /\ result \in {"hit", "miss"}
        /\ seen' = [seen EXCEPT ![w] = seen[w] + 1]
        /\ UNCHANGED <<phase, task>>
     \/ /\ result = "error"
        /\ phase' = [phase EXCEPT ![w] = "failing"]
        /\ task' = [task EXCEPT ![w] = Cancel(w)]
        /\ UNCHANGED seen
  /\ UNCHANGED <<cache, load, spent, said, history>>

\* The pool is left once its threads are idle, and the exception ends the load.
GiveUp(w) ==
  /\ phase[w] = "failing"
  /\ With(w, "running") = {}
  /\ phase' = [phase EXCEPT ![w] = "raised"]
  /\ dropped' = dropped \cup {i \in With(w, "hit") : fresh[i] > 0}
  /\ task' = [task EXCEPT ![w] = NoTasks]
  /\ said' = [said EXCEPT ![w] = NoAges]
  /\ UNCHANGED <<cache, load, seen, spent, fresh, during>>

(***************************************************************************)
(* _cache_hits_and_misses                                                  *)
(***************************************************************************)
\* Mutant: everything fetched is a hit to the cache.
TtlSame(kind) == TtlHit

TtlOf(kind) == IF kind = "hit" THEN TtlHit ELSE TtlMiss

Stored(w, kind) ==
  [i \in Ids |-> IF task[w][i] = kind
                 THEN [kind |-> kind, ttl |-> TtlOf(kind), age |-> said[w][i]]
                 ELSE cache[i]]

\* Mutant: the results are stored when all but the last have been taken.
CollectedButOne(w) == seen[w] + 1 >= Len(missing[w])

Collected(w) == seen[w] = Len(missing[w])

\* Mutant: the values are cached only if nothing was a miss (elif).
StoreHitsUnlessMiss(w) ==
  /\ phase[w] = "running"
  /\ Collected(w)
  /\ phase' = [phase EXCEPT ![w] = "storing"]
  /\ cache' = IF With(w, "miss") = {} THEN Stored(w, "hit") ELSE cache
  /\ hits' = [hits EXCEPT ![w] = hits[w] \cup With(w, "hit")]
  /\ UNCHANGED <<wanted, missing, task, seen, spent, said, history>>

StoreHits(w) ==
  /\ phase[w] = "running"
  /\ Collected(w)
  /\ phase' = [phase EXCEPT ![w] = "storing"]
  /\ cache' = Stored(w, "hit")
  /\ hits' = [hits EXCEPT ![w] = hits[w] \cup With(w, "hit")]
  /\ during' = [i \in Ids |->
       IF i \in With(w, "hit") THEN {v \in Workers : phase[v] \in Active} ELSE during[i]]
  /\ UNCHANGED <<wanted, missing, task, seen, spent, said, fresh, dropped>>

StoreMisses(w) ==
  /\ phase[w] = "storing"
  /\ phase' = [phase EXCEPT ![w] = "done"]
  /\ cache' = Stored(w, "miss")
  /\ dropped' = dropped \cup {i \in With(w, "miss") : fresh[i] > 0}
  /\ said' = [said EXCEPT ![w] = NoAges]
  /\ UNCHANGED <<load, task, seen, spent, fresh, during>>

(***************************************************************************)
(* gunicorn, Redis and time                                                *)
(***************************************************************************)
\* gunicorn kills the worker, its threads with it; another takes its place.
Kill(w) ==
  /\ phase[w] \in Active
  /\ phase' = [phase EXCEPT ![w] = "killed"]
  /\ dropped' = dropped \cup
       {i \in With(w, "hit") : fresh[i] > 0 /\ phase[w] # "storing"}
  /\ task' = [task EXCEPT ![w] = NoTasks]
  /\ said' = [said EXCEPT ![w] = NoAges]
  /\ UNCHANGED <<cache, load, seen, spent, fresh, during>>

Older(entry) ==
  IF entry.ttl <= 1 THEN NoEntry
  ELSE [kind |-> entry.kind, ttl |-> entry.ttl - 1, age |-> entry.age + 1]

\* One tick: entries age and expire.  No load gets past its deadline.
Tick ==
  /\ \A w \in Workers : phase[w] \in Active => spent[w] < Deadline
  /\ cache' = [i \in Ids |-> Older(cache[i])]
  /\ spent' = [w \in Workers |-> IF phase[w] \in Active THEN spent[w] + 1 ELSE spent[w]]
  /\ said' = [w \in Workers |->
       [i \in Ids |->
         IF phase[w] \in Active /\ task[w][i] \in Answered THEN said[w][i] + 1 ELSE said[w][i]]]
  /\ fresh' = [i \in Ids |-> IF fresh[i] = 0 THEN 0 ELSE fresh[i] - 1]
  /\ dropped' = {i \in dropped : fresh[i] > 1}
  /\ UNCHANGED <<phase, load, task, seen, during>>

Threads(w) == (\E k \in DOMAIN missing[w] : Start(w, k)) \/ (\E i \in Ids : Answer(w, i))
Proceed(w) == Collect(w) \/ GiveUp(w) \/ StoreHits(w) \/ StoreMisses(w)

Next ==
  \/ \E w \in Workers :
       \/ \E ids \in SUBSET Ids \ {{}} : Begin(w, ids)
       \/ Threads(w)
       \/ Proceed(w)
       \/ Kill(w)
  \/ Tick

Spec == Init /\ [][Next]_vars

-----------------------------------------------------------------------------
\* Every variable stays in its type, and nothing outlives its TTL or its worker.
TypeOK ==
  /\ cache \in [Ids -> [kind : {"none", "hit", "miss"}, ttl : 0 .. TtlHit, age : Nat]]
  /\ phase \in [Workers -> Phases]
  /\ wanted \in [Workers -> SUBSET Ids]
  /\ missing \in [Workers -> Seq(Ids)]
  /\ hits \in [Workers -> SUBSET Ids]
  /\ task \in [Workers -> [Ids -> Tasks]]
  /\ \A w \in Workers : seen[w] \in 0 .. Len(missing[w])
  /\ spent \in [Workers -> 0 .. Deadline]
  /\ said \in [Workers -> [Ids -> 0 .. Deadline]]
  /\ fresh \in [Ids -> 0 .. Expires]
  /\ dropped \subseteq Ids
  /\ during \in [Ids -> SUBSET Workers]

\* A load that ends normally has a value for every id it was asked for, unless ESI has told
\* it, or the cache when it began, that there is none.
EveryoneAnswered ==
  \A w \in Workers : phase[w] = "done" =>
    \A k \in DOMAIN missing[w] : \/ missing[w][k] \in hits[w]
                                 \/ task[w][missing[w][k]] = "miss"

\* "A miss is not knowledge": what a 4xx blanks is blank for the short TTL, counted from
\* the answer, however long the answer waited for its siblings.
MissIsBrief == \A i \in CachedAs("miss") : cache[i].age + cache[i].ttl <= TtlMiss + Deadline

\* A value ESI has given and that has not expired is in the cache, or with the load that
\* will cache it, unless that load failed or another worker's miss replaced it.
AnswersKept ==
  \A i \in Ids : fresh[i] > 0 =>
    \/ cache[i].kind = "hit"
    \/ \E w \in Workers : phase[w] \in Active /\ task[w][i] = "hit"
    \/ i \in dropped

\* A cached value is replaced by a miss only by a worker whose load was under way when the
\* value was cached: a scan that finds a pilot cached never blanks it.
MissNeedsOverlap ==
  [][\A i \in Ids : cache[i].kind = "hit" /\ cache'[i].kind = "miss" =>
       \E w \in during[i] : phase[w] = "storing" /\ task[w][i] = "miss"]_vars
=============================================================================
