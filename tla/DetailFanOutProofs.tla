-------------------------- MODULE DetailFanOutProofs --------------------------
(***************************************************************************)
(* What holds of the loads of identity data for any number of workers,     *)
(* ids, threads and ticks.                                                 *)
(***************************************************************************)
EXTENDS DetailFanOut, FiniteSetTheorems, TLAPS

(***************************************************************************)
(* The inductive invariant                                                 *)
(***************************************************************************)
\* ESI answered a load after the load began.
SaidSinceBegun ==
  \A w \in Workers : phase[w] \in Active => \A i \in Ids : said[w][i] <= spent[w]

\* TypeOK with what makes it inductive.
TypeInv == TypeOK /\ SaidSinceBegun /\ seen \in [Workers -> Nat]

\* Futures are of ids the load did not find in the cache.
TasksAreMissing(w) ==
  \A i \in Ids : task[w][i] # "none" => \E k \in DOMAIN missing[w] : missing[w][k] = i

\* Only a load whose pool is open has futures that may still change.
OpenTasksHavePool(w) ==
  \A i \in Ids : task[w][i] \in {"queued", "running"} => phase[w] \in {"running", "failing"}

\* What map() has yielded is a value or a miss.
SeenAreAnswers(w) ==
  phase[w] \in {"running", "storing", "done"} =>
    \A k \in 1 .. seen[w] : task[w][missing[w][k]] \in {"hit", "miss"}

\* A load stores when it has taken every result, and by then its values are in its hits.
StoringIsComplete(w) ==
  phase[w] \in {"storing", "done"} =>
    seen[w] = Len(missing[w]) /\ \A i \in Ids : task[w][i] = "hit" => i \in hits[w]

LoadOK(w) ==
  TasksAreMissing(w) /\ OpenTasksHavePool(w) /\ SeenAreAnswers(w) /\ StoringIsComplete(w)
LoadInv == \A w \in Workers : LoadOK(w)

\* A value that is still fresh is cached for as long as it is, or is with a load that has
\* still to store it, or was thrown away.
FreshIsKept ==
  \A i \in Ids : fresh[i] > 0 =>
    \/ cache[i].kind = "hit" /\ cache[i].ttl >= fresh[i]
    \/ \E w \in Workers : phase[w] \in {"running", "failing"} /\ task[w][i] = "hit"
    \/ i \in dropped

\* A load that asks for what is cached as a hit was under way when it was cached.
AskersOverlap ==
  \A w \in Workers, i \in Ids :
    cache[i].kind = "hit" /\ phase[w] \in Active /\ task[w][i] # "none" => w \in during[i]

(***************************************************************************)
(* Types                                                                   *)
(***************************************************************************)
\* Ids in an order are a sequence that has each of them.
LEMMA OrderOfIds ==
  ASSUME NEW unknown \in SUBSET Ids, NEW order \in Bijection(1 .. Cardinality(unknown), unknown)
  PROVE  /\ order \in Seq(Ids)
         /\ \A i \in unknown : \E k \in DOMAIN order : order[k] = i
<1>1. Cardinality(unknown) \in Nat
  BY WorkersAssumption, FS_Subset, FS_CardinalityType
<1>2. order \in [1 .. Cardinality(unknown) -> unknown]
  BY DEF Bijection, Injection
<1>3. \A i \in unknown : \E k \in 1 .. Cardinality(unknown) : order[k] = i
  BY DEF Bijection, Surjection
<1> QED
  BY <1>1, <1>2, <1>3

\* What a load changes when it begins.
LEMMA BeginChanges ==
  ASSUME TypeInv, NEW w \in Workers, NEW ids \in SUBSET Ids, Begin(w, ids)
  PROVE  /\ phase[w] \notin Active
         /\ phase' = [phase EXCEPT ![w] = "running"]
         /\ missing' \in [Workers -> Seq(Ids)]
         /\ \A v \in Workers \ {w} : missing'[v] = missing[v]
         /\ \A i \in Ids : task'[w][i] = IF cache[i].kind = "none" /\ i \in ids
                                         THEN "queued" ELSE "none"
         /\ \A i \in Ids : task'[w][i] # "none" => \E k \in DOMAIN missing'[w] : missing'[w][k] = i
         /\ task' \in [Workers -> [Ids -> Tasks]]
         /\ \A v \in Workers \ {w} : task'[v] = task[v]
<1> DEFINE unknown == ids \cap CachedAs("none")
<1>1. PICK order \in Bijection(1 .. Cardinality(unknown), unknown) :
        missing' = [missing EXCEPT ![w] = order]
  BY DEF Begin, BeginWith
<1>2. unknown \in SUBSET Ids /\ \A i \in Ids : i \in unknown <=> cache[i].kind = "none" /\ i \in ids
  BY DEF CachedAs
<1>3. task' = [task EXCEPT ![w] = [i \in Ids |-> IF i \in unknown THEN "queued" ELSE "none"]]
      /\ phase[w] \notin Active /\ phase' = [phase EXCEPT ![w] = "running"]
  BY DEF Begin, BeginWith
<1> HIDE DEF unknown
<1>4. order \in Seq(Ids) /\ \A i \in unknown : \E k \in DOMAIN order : order[k] = i
  BY <1>2, OrderOfIds
<1>5. missing' \in [Workers -> Seq(Ids)] /\ missing'[w] = order
      /\ \A v \in Workers \ {w} : missing'[v] = missing[v]
  BY <1>1, <1>4 DEF TypeInv, TypeOK
<1>6. \A i \in Ids : task'[w][i] = IF i \in unknown THEN "queued" ELSE "none"
  BY <1>3 DEF TypeInv, TypeOK
<1>7. task' \in [Workers -> [Ids -> Tasks]] /\ \A v \in Workers \ {w} : task'[v] = task[v]
  BY <1>3 DEF TypeInv, TypeOK, Tasks
<1> QED
  BY <1>2, <1>3, <1>4, <1>5, <1>6, <1>7

\* Init is well typed.
LEMMA TypeInit ==
  Init => TypeInv
<1> SUFFICES ASSUME Init PROVE TypeInv
  OBVIOUS
<1>1. <<>> \in Seq(Ids) /\ Len(<<>>) = 0
  OBVIOUS
<1>2. TypeOK
  BY <1>1, TtlAssumption
  DEF Init, TypeOK, NoEntry, NoTasks, NoAges, Phases, Tasks
<1> QED
  BY <1>2, TtlAssumption DEF Init, TypeInv, SaidSinceBegun, Active

\* Older entries are entries.
LEMMA OlderTyped ==
  ASSUME NEW e \in [kind : {"none", "hit", "miss"}, ttl : 0 .. TtlHit, age : Nat]
  PROVE  Older(e) \in [kind : {"none", "hit", "miss"}, ttl : 0 .. TtlHit, age : Nat]
BY TtlAssumption DEF Older, NoEntry

\* So is what a load stores.
LEMMA StoredTyped ==
  ASSUME TypeInv, NEW w \in Workers, NEW kind \in {"hit", "miss"}
  PROVE  Stored(w, kind) \in [Ids -> [kind : {"none", "hit", "miss"}, ttl : 0 .. TtlHit, age : Nat]]
BY TtlAssumption DEF Stored, TtlOf, TypeInv, TypeOK

\* The record of one future changes, of one load.
LEMMA TaskChanges ==
  ASSUME TypeInv, NEW w \in Workers, NEW i \in Ids, NEW t \in Tasks,
         task' = [task EXCEPT ![w][i] = t]
  PROVE  /\ task' \in [Workers -> [Ids -> Tasks]]
         /\ task'[w][i] = t
         /\ \A j \in Ids \ {i} : task'[w][j] = task[w][j]
         /\ \A v \in Workers \ {w} : task'[v] = task[v]
BY DEF TypeInv, TypeOK

\* No step leaves the types; one step of the proof an action.
LEMMA TypeStep ==
  ASSUME TypeInv, [Next]_vars
  PROVE  TypeInv'
<1> USE TtlAssumption DEF TypeInv, TypeOK, SaidSinceBegun, load, history
<1>1. ASSUME NEW w \in Workers, NEW ids \in SUBSET Ids, Begin(w, ids) PROVE TypeInv'
  <2>1. /\ phase' = [phase EXCEPT ![w] = "running"]
        /\ wanted' = [wanted EXCEPT ![w] = ids]
        /\ hits' = [hits EXCEPT ![w] = ids \cap CachedAs("hit")]
        /\ seen' = [seen EXCEPT ![w] = 0]
        /\ spent' = [spent EXCEPT ![w] = 0]
        /\ said' = [said EXCEPT ![w] = NoAges]
        /\ during' = [i \in Ids |-> during[i] \ {w}]
        /\ UNCHANGED <<cache, fresh, dropped>>
    BY <1>1 DEF Begin, BeginWith
  <2>2. missing' \in [Workers -> Seq(Ids)] /\ task' \in [Workers -> [Ids -> Tasks]]
        /\ \A v \in Workers \ {w} : missing'[v] = missing[v]
    BY <1>1, BeginChanges
  <2>3. seen' \in [Workers -> Nat] /\ \A v \in Workers : seen'[v] \in 0 .. Len(missing'[v])
    BY <2>1, <2>2
  <2>4. NoAges \in [Ids -> 0 .. Deadline] /\ \A i \in Ids : NoAges[i] = 0
    BY DEF NoAges
  <2>5. said' \in [Workers -> [Ids -> 0 .. Deadline]] /\ spent' \in [Workers -> 0 .. Deadline]
    BY <2>1, <2>4
  <2>6. SaidSinceBegun'
    BY <2>1, <2>4, <2>5
  <2>7. phase' \in [Workers -> Phases] /\ wanted' \in [Workers -> SUBSET Ids]
        /\ hits' \in [Workers -> SUBSET Ids] /\ during' \in [Ids -> SUBSET Workers]
    BY <2>1 DEF Phases, Active, CachedAs
  <2> QED
    BY <2>1, <2>2, <2>3, <2>5, <2>6, <2>7
<1>2. ASSUME NEW w \in Workers, NEW k \in DOMAIN missing[w], Start(w, k) PROVE TypeInv'
  <2>1. task' \in [Workers -> [Ids -> Tasks]]
    BY <1>2, TaskChanges DEF Start, Tasks
  <2> QED
    BY <1>2, <2>1 DEF Start
<1>3. ASSUME NEW w \in Workers, NEW i \in Ids, Answer(w, i) PROVE TypeInv'
  <2>1. task' \in [Workers -> [Ids -> Tasks]]
    BY <1>3, TaskChanges DEF Answer, AnswerHit, AnswerNothing, Tasks, Answered
  <2>2. UNCHANGED <<cache, phase, wanted, missing, hits, seen, spent, said, during>>
    BY <1>3 DEF Answer, AnswerHit, AnswerNothing
  <2>3. \/ fresh' = [fresh EXCEPT ![i] = Expires] /\ dropped' = dropped \ {i}
        \/ UNCHANGED <<fresh, dropped>>
    BY <1>3 DEF Answer, AnswerHit, AnswerNothing
  <2>4. fresh' \in [Ids -> 0 .. Expires] /\ dropped' \subseteq Ids
    BY <2>3
  <2> QED
    BY <2>1, <2>2, <2>4
<1>4. ASSUME NEW w \in Workers, Collect(w) PROVE TypeInv'
  <2>1. /\ phase[w] = "running" /\ seen[w] < Len(missing[w])
        /\ \/ seen' = [seen EXCEPT ![w] = seen[w] + 1] /\ UNCHANGED <<phase, task>>
           \/ /\ phase' = [phase EXCEPT ![w] = "failing"]
              /\ task' = [task EXCEPT ![w] = Cancel(w)]
              /\ UNCHANGED seen
        /\ UNCHANGED <<cache, wanted, missing, hits, spent, said, fresh, dropped, during>>
    BY <1>4 DEF Collect
  <2>2. Cancel(w) \in [Ids -> Tasks]
    BY DEF Cancel, Tasks
  <2>3. task' \in [Workers -> [Ids -> Tasks]]
    BY <2>1, <2>2
  <2>4. phase' \in [Workers -> Phases]
        /\ \A v \in Workers : phase'[v] \in Active => phase[v] \in Active
    BY <2>1 DEF Phases, Active
  <2>5. seen' \in [Workers -> Nat] /\ \A v \in Workers : seen'[v] \in 0 .. Len(missing[v])
    <3>1. Len(missing[w]) \in Nat
      OBVIOUS
    <3>2. seen \in [Workers -> Nat] /\ \A v \in Workers : seen[v] \in 0 .. Len(missing[v])
      OBVIOUS
    <3>3. /\ seen[w] < Len(missing[w])
          /\ seen' = [seen EXCEPT ![w] = seen[w] + 1] \/ seen' = seen
      BY <2>1
    <3> HIDE DEF TypeOK
    <3>4. seen' \in [Workers -> Nat] /\ \A v \in Workers \ {w} : seen'[v] = seen[v]
      BY <3>2, <3>3
    <3>5. seen'[w] \in 0 .. Len(missing[w])
      BY <3>1, <3>2, <3>3
    <3> QED
      BY <3>2, <3>4, <3>5
  <2> QED
    BY <2>1, <2>3, <2>4, <2>5
<1>5. ASSUME NEW w \in Workers, GiveUp(w) \/ Kill(w) PROVE TypeInv'
  <2>1. NoAges \in [Ids -> 0 .. Deadline] /\ NoTasks \in [Ids -> Tasks]
        /\ \A i \in Ids : NoAges[i] = 0
    BY DEF NoAges, NoTasks, Tasks
  <2>2. UNCHANGED <<cache, wanted, missing, hits, seen, spent, fresh, during>>
    BY <1>5 DEF GiveUp, Kill
  <2>3. phase' \in [Workers -> Phases]
        /\ \A v \in Workers : phase'[v] \in Active => phase[v] \in Active
    BY <1>5 DEF GiveUp, Kill, Phases, Active
  <2>4. task' \in [Workers -> [Ids -> Tasks]]
    BY <1>5, <2>1 DEF GiveUp, Kill
  <2>5. said' = [said EXCEPT ![w] = NoAges]
    BY <1>5 DEF GiveUp, Kill
  <2>6. dropped' \subseteq Ids
    BY <1>5 DEF GiveUp, Kill, With
  <2> QED
    BY <2>1, <2>2, <2>3, <2>4, <2>5, <2>6
<1>6. ASSUME NEW w \in Workers, StoreHits(w) PROVE TypeInv'
  <2>1. cache' \in [Ids -> [kind : {"none", "hit", "miss"}, ttl : 0 .. TtlHit, age : Nat]]
    BY <1>6, StoredTyped DEF StoreHits
  <2>2. phase' \in [Workers -> Phases]
        /\ \A v \in Workers : phase'[v] \in Active => phase[v] \in Active
    BY <1>6 DEF StoreHits, Phases, Active
  <2>3. hits' \in [Workers -> SUBSET Ids] /\ during' \in [Ids -> SUBSET Workers]
    BY <1>6 DEF StoreHits, With
  <2> QED
    BY <1>6, <2>1, <2>2, <2>3 DEF StoreHits
<1>7. ASSUME NEW w \in Workers, StoreMisses(w) PROVE TypeInv'
  <2>1. cache' \in [Ids -> [kind : {"none", "hit", "miss"}, ttl : 0 .. TtlHit, age : Nat]]
    BY <1>7, StoredTyped DEF StoreMisses
  <2>2. phase' \in [Workers -> Phases]
        /\ \A v \in Workers : phase'[v] \in Active => phase[v] \in Active
    BY <1>7 DEF StoreMisses, Phases, Active
  <2>3. NoAges \in [Ids -> 0 .. Deadline] /\ \A i \in Ids : NoAges[i] = 0
    BY DEF NoAges
  <2>4. said' = [said EXCEPT ![w] = NoAges] /\ dropped' \subseteq Ids
    BY <1>7 DEF StoreMisses, With
  <2> QED
    BY <1>7, <2>1, <2>2, <2>3, <2>4 DEF StoreMisses
<1>8. ASSUME Tick PROVE TypeInv'
  <2>1. cache' \in [Ids -> [kind : {"none", "hit", "miss"}, ttl : 0 .. TtlHit, age : Nat]]
    BY <1>8, OlderTyped DEF Tick
  <2>2. spent' \in [Workers -> 0 .. Deadline]
    BY <1>8 DEF Tick
  <2>3. \A w \in Workers, i \in Ids :
          said'[w][i] = IF phase[w] \in Active /\ task[w][i] \in Answered
                        THEN said[w][i] + 1 ELSE said[w][i]
    BY <1>8 DEF Tick
  <2>4. \A w \in Workers : spent'[w] = IF phase[w] \in Active THEN spent[w] + 1 ELSE spent[w]
    BY <1>8 DEF Tick
  <2>5. SaidSinceBegun'
    BY <1>8, <2>3, <2>4 DEF Tick
  <2>6. \A w \in Workers, i \in Ids : said'[w][i] \in 0 .. Deadline
    BY <1>8, <2>3 DEF Tick
  <2>7. said' \in [Workers -> [Ids -> 0 .. Deadline]]
    BY <1>8, <2>6 DEF Tick
  <2>8. fresh' \in [Ids -> 0 .. Expires] /\ dropped' \subseteq Ids
    BY <1>8 DEF Tick
  <2> QED
    BY <1>8, <2>1, <2>2, <2>5, <2>7, <2>8 DEF Tick
<1>9. CASE UNCHANGED vars
  BY <1>9 DEF vars
<1> QED
  BY <1>1, <1>2, <1>3, <1>4, <1>5, <1>6, <1>7, <1>8, <1>9 DEF Next, Threads, Proceed

\* Every reachable state is well typed.
LEMMA TypeInvariant ==
  Spec => []TypeInv
<1>1. TypeInv /\ [Next]_vars => TypeInv'
  BY TypeStep
<1> QED
  BY <1>1, TypeInit, PTL DEF Spec

\* Every variable stays in its type: no entry outlives its TTL, and no load its deadline.
THEOREM LoadsAreTyped ==
  Spec => []TypeOK
<1>1. TypeInv => TypeOK
  BY DEF TypeInv
<1> QED
  BY <1>1, TypeInvariant, PTL

(***************************************************************************)
(* A load that ends normally                                               *)
(***************************************************************************)
\* A load that a step leaves alone is as it was.
LEMMA LoadFrame ==
  ASSUME NEW v \in Workers, LoadOK(v),
         phase'[v] = phase[v], task'[v] = task[v], missing'[v] = missing[v],
         seen'[v] = seen[v], hits'[v] = hits[v]
  PROVE  LoadOK(v)'
BY DEF LoadOK, TasksAreMissing, OpenTasksHavePool, SeenAreAnswers, StoringIsComplete

\* A load whose futures are all gone is in order.
LEMMA LoadEnded ==
  ASSUME NEW w \in Workers, \A i \in Ids : task'[w][i] = "none",
         phase'[w] \in {"raised", "killed"}
  PROVE  LoadOK(w)'
BY DEF LoadOK, TasksAreMissing, OpenTasksHavePool, SeenAreAnswers, StoringIsComplete

\* An order's places are where its elements are.
LEMMA MissingTyped ==
  ASSUME TypeInv, NEW w \in Workers
  PROVE  /\ DOMAIN missing[w] = 1 .. Len(missing[w])
         /\ Len(missing[w]) \in Nat /\ seen[w] \in 0 .. Len(missing[w])
         /\ \A k \in 1 .. Len(missing[w]) : missing[w][k] \in Ids
<1>1. missing[w] \in Seq(Ids) /\ seen[w] \in 0 .. Len(missing[w])
  BY DEF TypeInv, TypeOK
<1> QED
  BY <1>1

\* Loads are in order at first.
LEMMA LoadInit ==
  Init => LoadInv
BY DEF Init, LoadInv, LoadOK, TasksAreMissing, OpenTasksHavePool, SeenAreAnswers,
       StoringIsComplete, NoTasks

\* Every step keeps loads in order.
LEMMA LoadStep ==
  ASSUME TypeInv, TypeInv', LoadInv, [Next]_vars
  PROVE  LoadInv'
<1> USE DEF load, history
<1>0. ASSUME NEW w \in Workers, LoadOK(w)',
             \A v \in Workers \ {w} :
               /\ phase'[v] = phase[v] /\ task'[v] = task[v] /\ missing'[v] = missing[v]
               /\ seen'[v] = seen[v] /\ hits'[v] = hits[v]
      PROVE  LoadInv'
  BY <1>0, LoadFrame DEF LoadInv
<1>c. /\ phase \in [Workers -> Phases] /\ task \in [Workers -> [Ids -> Tasks]]
      /\ seen \in [Workers -> Nat] /\ hits \in [Workers -> SUBSET Ids]
  BY DEF TypeInv, TypeOK
<1>1. ASSUME NEW w \in Workers, NEW ids \in SUBSET Ids, Begin(w, ids) PROVE LoadInv'
  <2>1. /\ phase'[w] = "running" /\ seen'[w] = 0
        /\ \A i \in Ids : task'[w][i] # "none" => \E k \in DOMAIN missing'[w] : missing'[w][k] = i
        /\ \A v \in Workers \ {w} : missing'[v] = missing[v] /\ task'[v] = task[v]
    BY <1>1, <1>c, BeginChanges DEF Begin, BeginWith
  <2>2. \A v \in Workers \ {w} : phase'[v] = phase[v] /\ seen'[v] = seen[v] /\ hits'[v] = hits[v]
    BY <1>1, <1>c DEF Begin, BeginWith
  <2>3. LoadOK(w)'
    BY <2>1 DEF LoadOK, TasksAreMissing, OpenTasksHavePool, SeenAreAnswers, StoringIsComplete
  <2> QED
    BY <1>0, <2>1, <2>2, <2>3
<1>2. ASSUME NEW w \in Workers, NEW i \in Ids, NEW t \in Tasks \ {"none", "queued"},
             task[w][i] \in {"queued", "running"}, task' = [task EXCEPT ![w][i] = t],
             UNCHANGED <<phase, missing, seen, hits>>
      PROVE  LoadInv'
  <2>1. /\ task'[w][i] = t /\ \A j \in Ids \ {i} : task'[w][j] = task[w][j]
        /\ \A v \in Workers \ {w} : task'[v] = task[v]
    BY <1>2, TaskChanges
  <2>2. TasksAreMissing(w)' /\ OpenTasksHavePool(w)'
    BY <1>2, <2>1 DEF LoadInv, LoadOK, TasksAreMissing, OpenTasksHavePool
  <2>3. phase[w] \in {"running", "failing"}
    BY <1>2 DEF LoadInv, LoadOK, OpenTasksHavePool
  <2>4. SeenAreAnswers(w)'
    BY <1>2, <2>1, MissingTyped DEF LoadInv, LoadOK, SeenAreAnswers
  <2>5. StoringIsComplete(w)'
    BY <1>2, <2>3 DEF StoringIsComplete
  <2> QED
    BY <1>0, <1>2, <2>1, <2>2, <2>4, <2>5 DEF LoadOK
<1>3. ASSUME NEW w \in Workers, NEW k \in DOMAIN missing[w], Start(w, k) PROVE LoadInv'
  BY <1>2, <1>3, MissingTyped DEF Start, Tasks
<1>4. ASSUME NEW w \in Workers, NEW i \in Ids, Answer(w, i) PROVE LoadInv'
  BY <1>2, <1>4 DEF Answer, AnswerHit, AnswerNothing, Tasks, Answered
<1>5. ASSUME NEW w \in Workers, Collect(w) PROVE LoadInv'
  <2>1. CASE /\ task[w][missing[w][seen[w] + 1]] \in {"hit", "miss"}
             /\ seen' = [seen EXCEPT ![w] = seen[w] + 1]
             /\ UNCHANGED <<phase, task>>
    <3>1. /\ phase[w] = "running" /\ seen'[w] = seen[w] + 1 /\ seen[w] \in Nat
          /\ UNCHANGED <<phase, task, missing, hits>>
          /\ \A v \in Workers \ {w} : seen'[v] = seen[v]
      BY <1>5, <1>c, <2>1 DEF Collect
    <3>2. SeenAreAnswers(w)'
      BY <2>1, <3>1 DEF LoadInv, LoadOK, SeenAreAnswers
    <3>3. LoadOK(w)'
      BY <3>1, <3>2 DEF LoadInv, LoadOK, TasksAreMissing, OpenTasksHavePool, StoringIsComplete
    <3> QED
      BY <1>0, <3>1, <3>3
  <2>2. CASE phase' = [phase EXCEPT ![w] = "failing"] /\ task' = [task EXCEPT ![w] = Cancel(w)]
             /\ UNCHANGED seen
    <3>1. /\ phase'[w] = "failing" /\ UNCHANGED <<missing, hits>> /\ phase[w] = "running"
          /\ \A i \in Ids : task'[w][i] = IF task[w][i] = "queued" THEN "cancelled" ELSE task[w][i]
          /\ \A v \in Workers \ {w} : task'[v] = task[v] /\ phase'[v] = phase[v]
      BY <1>5, <1>c, <2>2 DEF Collect, Cancel
    <3>2. TasksAreMissing(w)' /\ OpenTasksHavePool(w)'
      BY <3>1 DEF LoadInv, LoadOK, TasksAreMissing, OpenTasksHavePool
    <3>3. SeenAreAnswers(w)' /\ StoringIsComplete(w)'
      BY <3>1 DEF SeenAreAnswers, StoringIsComplete
    <3> QED
      BY <1>0, <2>2, <3>1, <3>2, <3>3 DEF LoadOK
  <2> QED
    BY <1>5, <2>1, <2>2 DEF Collect
<1>6. ASSUME NEW w \in Workers, GiveUp(w) \/ Kill(w) PROVE LoadInv'
  <2>1. /\ phase'[w] \in {"raised", "killed"} /\ \A i \in Ids : task'[w][i] = "none"
        /\ UNCHANGED <<missing, hits, seen>>
        /\ \A v \in Workers \ {w} : task'[v] = task[v] /\ phase'[v] = phase[v]
    BY <1>6, <1>c DEF GiveUp, Kill, NoTasks
  <2> QED
    BY <1>0, <2>1, LoadEnded
<1>7. ASSUME NEW w \in Workers, StoreHits(w) PROVE LoadInv'
  <2>1. /\ phase[w] = "running" /\ seen[w] = Len(missing[w]) /\ phase'[w] = "storing"
        /\ hits'[w] = hits[w] \cup With(w, "hit")
        /\ UNCHANGED <<missing, task, seen>>
        /\ \A v \in Workers \ {w} : phase'[v] = phase[v] /\ hits'[v] = hits[v]
    BY <1>7, <1>c DEF StoreHits, Collected
  <2>2. \A i \in Ids : task[w][i] # "none" => task[w][i] \in {"hit", "miss"}
    BY <2>1, MissingTyped DEF LoadInv, LoadOK, TasksAreMissing, SeenAreAnswers
  <2>3. TasksAreMissing(w)' /\ SeenAreAnswers(w)'
    BY <2>1 DEF LoadInv, LoadOK, TasksAreMissing, SeenAreAnswers
  <2>4. OpenTasksHavePool(w)' /\ StoringIsComplete(w)'
    BY <2>1, <2>2 DEF OpenTasksHavePool, StoringIsComplete, With
  <2> QED
    BY <1>0, <2>1, <2>3, <2>4 DEF LoadOK
<1>8. ASSUME NEW w \in Workers, StoreMisses(w) PROVE LoadInv'
  <2>1. /\ phase[w] = "storing" /\ phase'[w] = "done"
        /\ UNCHANGED <<missing, task, seen, hits>>
        /\ \A v \in Workers \ {w} : phase'[v] = phase[v]
    BY <1>8, <1>c DEF StoreMisses
  <2>2. LoadOK(w)'
    BY <2>1 DEF LoadInv, LoadOK, TasksAreMissing, OpenTasksHavePool, SeenAreAnswers,
                StoringIsComplete
  <2> QED
    BY <1>0, <2>1, <2>2
<1>9. CASE Tick \/ UNCHANGED vars
  <2>1. UNCHANGED <<phase, task, missing, seen, hits>>
    BY <1>9 DEF Tick, vars
  <2> QED
    BY <2>1, LoadFrame DEF LoadInv
<1> QED
  BY <1>1, <1>3, <1>4, <1>5, <1>6, <1>7, <1>8, <1>9 DEF Next, Threads, Proceed

\* In every reachable state loads are in order.
LEMMA LoadInvariant ==
  Spec => []LoadInv
<1>1. TypeInv /\ TypeInv' /\ LoadInv /\ [Next]_vars => LoadInv'
  BY LoadStep
<1> QED
  BY <1>1, LoadInit, TypeInvariant, PTL DEF Spec

\* A load that ends normally has a value for every id it asked ESI about, or knows that
\* there is none.
THEOREM EveryoneIsAnswered ==
  Spec => []EveryoneAnswered
<1>1. TypeInv /\ LoadInv => EveryoneAnswered
  BY MissingTyped DEF LoadInv, LoadOK, SeenAreAnswers, StoringIsComplete, EveryoneAnswered
<1> QED
  BY <1>1, LoadInvariant, TypeInvariant, PTL

(***************************************************************************)
(* What is cached, and for how long                                        *)
(***************************************************************************)
\* Entries change in three ways only: they age, and a load stores its values or its misses.
LEMMA CacheChanges ==
  ASSUME TypeInv, [Next]_vars
  PROVE  \/ \E w \in Workers : StoreHits(w)
         \/ \E w \in Workers : StoreMisses(w)
         \/ Tick
         \/ cache' = cache
BY DEF Next, Threads, Proceed, Begin, BeginWith, Start, Answer, AnswerHit, AnswerNothing,
       Collect, GiveUp, Kill, vars

\* What a load stores it has an answer for, and the other entries stay.
LEMMA StoredEntry ==
  ASSUME NEW w \in Workers, NEW kind \in {"hit", "miss"}, cache' = Stored(w, kind), NEW i \in Ids
  PROVE  /\ task[w][i] # kind => cache'[i] = cache[i]
         /\ task[w][i] = kind => /\ cache'[i].kind = kind /\ cache'[i].age = said[w][i]
                                 /\ cache'[i].ttl = IF kind = "hit" THEN TtlHit ELSE TtlMiss
BY DEF Stored, TtlOf

\* An older entry is the same entry with a tick less to live, or no entry.
LEMMA OlderEntry ==
  ASSUME TypeInv, NEW i \in Ids
  PROVE  \/ Older(cache[i]).kind = "none" /\ cache[i].ttl <= 1
         \/ /\ Older(cache[i]).kind = cache[i].kind
            /\ cache[i].ttl \in Nat /\ cache[i].ttl > 1 /\ cache[i].age \in Nat
            /\ Older(cache[i]).ttl = cache[i].ttl - 1
            /\ Older(cache[i]).age = cache[i].age + 1
<1>1. cache[i].ttl \in 0 .. TtlHit /\ cache[i].age \in Nat
  BY DEF TypeInv, TypeOK
<1> QED
  BY <1>1, TtlAssumption DEF Older, NoEntry

\* A miss goes on blanking an id for at most the short TTL after it was stored, and it is
\* stored within the deadline of the load: no 4xx is remembered as long as a value is.
THEOREM MissesAreBrief ==
  Spec => []MissIsBrief
<1>1. Init => MissIsBrief
  BY DEF Init, MissIsBrief, CachedAs, NoEntry
<1>2. TypeInv /\ MissIsBrief /\ [Next]_vars => MissIsBrief'
  <2> SUFFICES ASSUME TypeInv, MissIsBrief, [Next]_vars, NEW i \in Ids, cache'[i].kind = "miss"
               PROVE  cache'[i].age + cache'[i].ttl <= TtlMiss + Deadline
    BY DEF MissIsBrief, CachedAs
  <2>0. cache[i].kind = "miss" => cache[i].age + cache[i].ttl <= TtlMiss + Deadline
    BY DEF MissIsBrief, CachedAs
  <2>1. ASSUME NEW w \in Workers, StoreHits(w) PROVE cache'[i] = cache[i]
    BY <2>1, StoredEntry DEF StoreHits
  <2>2. ASSUME NEW w \in Workers, StoreMisses(w)
        PROVE  \/ cache'[i] = cache[i]
               \/ cache'[i].age = said[w][i] /\ cache'[i].ttl = TtlMiss
    <3>1. cache' = Stored(w, "miss")
      BY <2>2 DEF StoreMisses
    <3>2. task[w][i] = "miss" => cache'[i].age = said[w][i] /\ cache'[i].ttl = TtlMiss
      BY <3>1, StoredEntry
    <3>3. task[w][i] # "miss" => cache'[i] = cache[i]
      BY <3>1, StoredEntry
    <3> QED
      BY <3>2, <3>3
  <2>3. \A w \in Workers : said[w][i] \in 0 .. Deadline
    BY DEF TypeInv, TypeOK
  <2>4. ASSUME Tick
        PROVE  cache[i].kind = "miss" /\ cache'[i].age + cache'[i].ttl = cache[i].age + cache[i].ttl
    <3>1. cache'[i] = Older(cache[i])
      BY <2>4 DEF Tick
    <3> QED
      BY <3>1, OlderEntry
  <2> QED
    BY <2>0, <2>1, <2>2, <2>3, <2>4, CacheChanges, TtlAssumption
<1> QED
  BY <1>1, <1>2, TypeInvariant, PTL DEF Spec

\* Every step leaves each fresh value cached long enough, with a load, or thrown away.
LEMMA FreshStep ==
  ASSUME TypeInv, LoadInv, FreshIsKept, [Next]_vars
  PROVE  FreshIsKept'
<1> DEFINE Cached(i) == cache[i].kind = "hit" /\ cache[i].ttl >= fresh[i]
           Carried(i) ==
             \E w \in Workers : phase[w] \in {"running", "failing"} /\ task[w][i] = "hit"
           Kept(i) == fresh[i] > 0 => Cached(i) \/ Carried(i) \/ i \in dropped
<1>a. FreshIsKept <=> \A i \in Ids : Kept(i)
  BY DEF FreshIsKept
<1>b. FreshIsKept' <=> \A i \in Ids : Kept(i)'
  BY DEF FreshIsKept
<1> USE DEF load, history
<1>c. /\ phase \in [Workers -> Phases] /\ task \in [Workers -> [Ids -> Tasks]]
      /\ fresh \in [Ids -> 0 .. Expires] /\ dropped \subseteq Ids
  BY DEF TypeInv, TypeOK
<1>1. ASSUME NEW w \in Workers, NEW ids \in SUBSET Ids, Begin(w, ids) PROVE FreshIsKept'
  <2>1. UNCHANGED <<cache, fresh, dropped>>
        /\ \A v \in Workers, i \in Ids :
             phase[v] \in {"running", "failing"} /\ task[v][i] = "hit" =>
               phase'[v] \in {"running", "failing"} /\ task'[v][i] = "hit"
    BY <1>1, <1>c, BeginChanges DEF Begin, BeginWith, Active
  <2> QED
    BY <1>a, <1>b, <2>1
<1>2. ASSUME NEW w \in Workers, NEW i \in Ids, NEW t \in Tasks, task[w][i] # "hit",
             task' = [task EXCEPT ![w][i] = t], UNCHANGED <<phase, cache, fresh, dropped>>
      PROVE  FreshIsKept'
  <2>1. \A v \in Workers, j \in Ids : task[v][j] = "hit" => task'[v][j] = "hit"
    BY <1>2, TaskChanges
  <2> QED
    BY <1>a, <1>b, <1>2, <2>1
<1>3. ASSUME NEW w \in Workers, NEW k \in DOMAIN missing[w], Start(w, k) PROVE FreshIsKept'
  BY <1>2, <1>3, MissingTyped DEF Start, Tasks
<1>4. ASSUME NEW w \in Workers, NEW i \in Ids, AnswerHit(w, i) PROVE FreshIsKept'
  <2>1. /\ task'[w][i] = "hit"
        /\ \A v \in Workers, j \in Ids : task[v][j] = "hit" => task'[v][j] = "hit"
        /\ UNCHANGED <<phase, cache>>
        /\ \A j \in Ids \ {i} : fresh'[j] = fresh[j] /\ (j \in dropped => j \in dropped')
    BY <1>4, <1>c, TaskChanges DEF AnswerHit, Tasks, Answered
  <2>2. phase[w] \in {"running", "failing"}
    BY <1>4 DEF AnswerHit, LoadInv, LoadOK, OpenTasksHavePool
  <2>3. Kept(i)'
    BY <2>1, <2>2
  <2>4. \A j \in Ids \ {i} : Kept(j)'
    BY <1>a, <2>1
  <2> QED
    BY <1>b, <2>3, <2>4
<1>5. ASSUME NEW w \in Workers, NEW i \in Ids, NEW r \in {"miss", "error"}, AnswerNothing(w, i, r)
      PROVE  FreshIsKept'
  BY <1>2, <1>5 DEF AnswerNothing, Tasks, Answered
<1>6. ASSUME NEW w \in Workers, Collect(w) PROVE FreshIsKept'
  <2>1. UNCHANGED <<cache, fresh, dropped>>
        /\ \A v \in Workers, i \in Ids :
             phase[v] \in {"running", "failing"} /\ task[v][i] = "hit" =>
               phase'[v] \in {"running", "failing"} /\ task'[v][i] = "hit"
    BY <1>6, <1>c DEF Collect, Cancel
  <2> QED
    BY <1>a, <1>b, <2>1
<1>7. ASSUME NEW w \in Workers, GiveUp(w) \/ Kill(w) PROVE FreshIsKept'
  <2>1. /\ UNCHANGED <<cache, fresh>> /\ dropped \subseteq dropped'
        /\ \A v \in Workers \ {w} : phase'[v] = phase[v] /\ task'[v] = task[v]
        /\ \A i \in Ids :
             fresh[i] > 0 /\ phase[w] \in {"running", "failing"} /\ task[w][i] = "hit" => i \in dropped'
    BY <1>7, <1>c DEF GiveUp, Kill, With
  <2> SUFFICES ASSUME NEW i \in Ids, fresh[i] > 0 PROVE Kept(i)'
    BY <1>b, <2>1
  <2>2. Carried(i) => Carried(i)' \/ i \in dropped'
    <3>1. ASSUME NEW v \in Workers \ {w}, phase[v] \in {"running", "failing"}, task[v][i] = "hit"
          PROVE  phase'[v] \in {"running", "failing"} /\ task'[v][i] = "hit"
      BY <2>1, <3>1
    <3> QED
      BY <2>1, <3>1
  <2> QED
    BY <1>a, <2>1, <2>2
<1>8. ASSUME NEW w \in Workers, StoreHits(w) PROVE FreshIsKept'
  <2>1. UNCHANGED <<fresh, task, dropped>> /\ \A v \in Workers \ {w} : phase'[v] = phase[v]
    BY <1>8, <1>c DEF StoreHits
  <2>2. \A i \in Ids : task[w][i] # "hit" => cache'[i] = cache[i]
    BY <1>8, StoredEntry DEF StoreHits
  <2>3. \A i \in Ids : task[w][i] = "hit" => cache'[i].kind = "hit" /\ cache'[i].ttl = TtlHit
    BY <1>8, StoredEntry DEF StoreHits
  <2>4. \A i \in Ids : task[w][i] = "hit" => Kept(i)'
    BY <1>c, <2>1, <2>3, TtlAssumption
  <2>5. \A i \in Ids : task[w][i] # "hit" => Kept(i)'
    BY <1>a, <2>1, <2>2
  <2> QED
    BY <1>b, <2>4, <2>5
<1>9. ASSUME NEW w \in Workers, StoreMisses(w) PROVE FreshIsKept'
  <2>1. /\ UNCHANGED <<fresh, task>>
        /\ \A v \in Workers \ {w} : phase'[v] = phase[v]
        /\ phase[w] = "storing" /\ dropped \subseteq dropped'
        /\ \A i \in Ids : task[w][i] = "miss" /\ fresh[i] > 0 => i \in dropped'
    BY <1>9, <1>c DEF StoreMisses, With
  <2>2. \A i \in Ids : task[w][i] # "miss" => cache'[i] = cache[i]
    BY <1>9, StoredEntry DEF StoreMisses
  <2> SUFFICES ASSUME NEW i \in Ids, fresh[i] > 0 PROVE Kept(i)'
    BY <1>b, <2>1
  <2>3. Carried(i) => Carried(i)'
    <3>1. ASSUME NEW v \in Workers, phase[v] \in {"running", "failing"}, task[v][i] = "hit"
          PROVE  phase'[v] \in {"running", "failing"} /\ task'[v][i] = "hit"
      BY <2>1, <3>1
    <3> QED
      BY <3>1
  <2>4. Cached(i) => Cached(i)' \/ i \in dropped'
    BY <2>1, <2>2
  <2> QED
    BY <1>a, <2>1, <2>3, <2>4
<1>10. ASSUME Tick PROVE FreshIsKept'
  <2> SUFFICES ASSUME NEW i \in Ids, fresh'[i] > 0 PROVE Kept(i)'
    BY <1>b
  <2>1. fresh[i] > 1 /\ fresh'[i] = fresh[i] - 1 /\ fresh[i] \in Nat
    BY <1>10, <1>c, TtlAssumption DEF Tick
  <2>2. Cached(i) => Cached(i)'
    <3>1. cache'[i] = Older(cache[i])
      BY <1>10 DEF Tick
    <3>2. cache[i].ttl \in Nat
      BY TtlAssumption DEF TypeInv, TypeOK
    <3> QED
      BY <2>1, <3>1, <3>2, OlderEntry
  <2>3. Carried(i) => Carried(i)'
    BY <1>10 DEF Tick
  <2>4. i \in dropped => i \in dropped'
    BY <1>10, <2>1 DEF Tick
  <2> QED
    BY <1>a, <2>1, <2>2, <2>3, <2>4
<1>11. CASE UNCHANGED vars
  BY <1>11, <1>a, <1>b DEF vars
<1> QED
  BY <1>1, <1>3, <1>4, <1>5, <1>6, <1>7, <1>8, <1>9, <1>10, <1>11
  DEF Next, Threads, Proceed, Answer

\* A value ESI has given and that is still fresh is never lost without a reason: it is
\* cached, or with the load that will cache it, or that load failed or a miss replaced it.
THEOREM AnswersAreKept ==
  Spec => []AnswersKept
<1>1. Init => FreshIsKept
  BY DEF Init, FreshIsKept, NoAges
<1>2. TypeInv /\ LoadInv /\ FreshIsKept /\ [Next]_vars => FreshIsKept'
  BY FreshStep
<1>3. FreshIsKept => AnswersKept
  BY DEF FreshIsKept, AnswersKept, Active
<1> QED
  BY <1>1, <1>2, <1>3, TypeInvariant, LoadInvariant, PTL DEF Spec

(***************************************************************************)
(* Two loads at once                                                       *)
(***************************************************************************)
\* Every step keeps the loads that ask for a cached value among those it overlapped.
LEMMA OverlapStep ==
  ASSUME TypeInv, LoadInv, AskersOverlap, [Next]_vars
  PROVE  AskersOverlap'
<1> USE DEF load, history
<1>c. /\ phase \in [Workers -> Phases] /\ task \in [Workers -> [Ids -> Tasks]]
      /\ during \in [Ids -> SUBSET Workers]
  BY DEF TypeInv, TypeOK
<1>0. ASSUME during' = during,
             \A i \in Ids : cache'[i].kind = "hit" => cache[i].kind = "hit",
             \A v \in Workers : phase'[v] \in Active => phase[v] \in Active,
             \A v \in Workers, i \in Ids : phase'[v] \in Active /\ task'[v][i] # "none" =>
               task[v][i] # "none"
      PROVE  AskersOverlap'
  BY <1>0 DEF AskersOverlap
<1>1. ASSUME NEW w \in Workers, NEW ids \in SUBSET Ids, Begin(w, ids) PROVE AskersOverlap'
  <2>1. cache' = cache /\ \A i \in Ids : during'[i] = during[i] \ {w}
    BY <1>1 DEF Begin, BeginWith
  <2>2. phase' = [phase EXCEPT ![w] = "running"] /\ \A v \in Workers \ {w} : task'[v] = task[v]
    BY <1>1, BeginChanges
  <2>3. \A v \in Workers \ {w} : phase'[v] = phase[v]
    BY <1>c, <2>2
  <2>4. \A i \in Ids : task'[w][i] = IF cache[i].kind = "none" /\ i \in ids
                                     THEN "queued" ELSE "none"
    BY <1>1, BeginChanges
  <2>5. \A i \in Ids : task'[w][i] # "none" => cache[i].kind = "none"
    BY <2>4
  <2> QED
    BY <2>1, <2>2, <2>3, <2>5 DEF AskersOverlap
<1>2. ASSUME NEW w \in Workers, NEW i \in Ids, NEW t \in Tasks, task[w][i] # "none",
             task' = [task EXCEPT ![w][i] = t], UNCHANGED <<phase, cache, during>>
      PROVE  AskersOverlap'
  BY <1>0, <1>2, TaskChanges
<1>3. ASSUME NEW w \in Workers, NEW k \in DOMAIN missing[w], Start(w, k) PROVE AskersOverlap'
  BY <1>2, <1>3, MissingTyped DEF Start, Tasks
<1>4. ASSUME NEW w \in Workers, NEW i \in Ids, Answer(w, i) PROVE AskersOverlap'
  BY <1>2, <1>4 DEF Answer, AnswerHit, AnswerNothing, Tasks, Answered
<1>5. ASSUME NEW w \in Workers, Collect(w) \/ GiveUp(w) \/ Kill(w) PROVE AskersOverlap'
  <2>1. cache' = cache /\ during' = during
    BY <1>5 DEF Collect, GiveUp, Kill
  <2>2. \A v \in Workers : phase'[v] \in Active => phase[v] \in Active
    BY <1>5, <1>c DEF Collect, GiveUp, Kill, Active
  <2>3. \A v \in Workers, i \in Ids : phase'[v] \in Active /\ task'[v][i] # "none" =>
          task[v][i] # "none"
    BY <1>5, <1>c DEF Collect, GiveUp, Kill, Cancel, Active, NoTasks
  <2> QED
    BY <1>0, <2>1, <2>2, <2>3
<1>6. ASSUME NEW w \in Workers, StoreHits(w) PROVE AskersOverlap'
  <2>1. task' = task /\ \A v \in Workers : phase'[v] \in Active => phase[v] \in Active
    BY <1>6, <1>c DEF StoreHits, Active
  <2>2. \A i \in Ids : task[w][i] # "hit" => cache'[i] = cache[i] /\ during'[i] = during[i]
    BY <1>6, StoredEntry DEF StoreHits, With
  <2>3. \A i \in Ids : task[w][i] = "hit" => during'[i] = {v \in Workers : phase[v] \in Active}
    BY <1>6 DEF StoreHits, With
  <2> QED
    BY <2>1, <2>2, <2>3 DEF AskersOverlap
<1>7. ASSUME NEW w \in Workers, StoreMisses(w) PROVE AskersOverlap'
  <2>1. task' = task /\ during' = during
        /\ \A v \in Workers : phase'[v] \in Active => phase[v] \in Active
    BY <1>7, <1>c DEF StoreMisses, Active
  <2>2. \A i \in Ids : cache'[i] = cache[i] \/ cache'[i].kind = "miss"
    BY <1>7, StoredEntry DEF StoreMisses
  <2> QED
    BY <1>0, <2>1, <2>2
<1>8. CASE Tick
  <2>1. UNCHANGED <<phase, task, during>> /\ \A i \in Ids : cache'[i] = Older(cache[i])
    BY <1>8 DEF Tick
  <2>2. \A i \in Ids : cache'[i].kind = "hit" => cache[i].kind = "hit"
    BY <2>1, OlderEntry
  <2> QED
    BY <1>0, <2>1, <2>2
<1>9. CASE UNCHANGED vars
  BY <1>0, <1>9 DEF vars
<1> QED
  BY <1>1, <1>3, <1>4, <1>5, <1>6, <1>7, <1>8, <1>9 DEF Next, Threads, Proceed

\* A cached value turns into a miss only by a load that was under way when it was cached:
\* what a scan finds in the cache no later scan can blank.
THEOREM MissesNeedOverlap ==
  Spec => MissNeedsOverlap
<1>1. Init => AskersOverlap
  BY DEF Init, AskersOverlap, NoEntry
<1>2. TypeInv /\ LoadInv /\ AskersOverlap /\ [Next]_vars => AskersOverlap'
  BY OverlapStep
<1>3. ASSUME TypeInv, AskersOverlap, [Next]_vars
      PROVE  [\A i \in Ids : cache[i].kind = "hit" /\ cache'[i].kind = "miss" =>
                \E w \in during[i] : phase[w] = "storing" /\ task[w][i] = "miss"]_vars
  <2> SUFFICES ASSUME NEW i \in Ids, cache[i].kind = "hit", cache'[i].kind = "miss"
               PROVE  \E w \in during[i] : phase[w] = "storing" /\ task[w][i] = "miss"
    OBVIOUS
  <2>1. ASSUME NEW w \in Workers, StoreHits(w) PROVE FALSE
    BY <2>1, StoredEntry DEF StoreHits
  <2>2. ASSUME Tick PROVE FALSE
    <3>1. cache'[i] = Older(cache[i])
      BY <2>2 DEF Tick
    <3> QED
      BY <1>3, <3>1, OlderEntry
  <2>3. PICK w \in Workers : StoreMisses(w)
    BY <2>1, <2>2, <1>3, CacheChanges
  <2>4. phase[w] = "storing" /\ task[w][i] = "miss"
    BY <2>3, StoredEntry DEF StoreMisses
  <2>5. w \in during[i]
    BY <1>3, <2>4 DEF AskersOverlap, Active
  <2> QED
    BY <2>4, <2>5
<1> QED
  BY <1>1, <1>2, <1>3, TypeInvariant, LoadInvariant, PTL DEF Spec, MissNeedsOverlap
===============================================================================
