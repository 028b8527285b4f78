--------------------------- MODULE SdeCacheProofs ---------------------------
(***************************************************************************)
(* What holds of the SDE cache for any number of workers, tables and       *)
(* versions: types, that a restart is the refresh, what can undo a warm,   *)
(* and that readers see the table of SdeTable.                             *)
(***************************************************************************)
EXTENDS SdeCache, TLAPS

\* There is a first kind, and every position of _SOURCES is one of a kind.
LEMMA SourcesTyped ==
  /\ Len(SOURCES) \in Nat /\ Len(SOURCES) > 0
  /\ DOMAIN SOURCES = 1 .. Len(SOURCES)
  /\ \A n \in 1 .. Len(SOURCES) : SOURCES[n] \in Kinds
  BY SourcesAssumption

\* No table is none of the versions, and none of the kinds.
LEMMA NoneIsNothing ==
  /\ None \notin Nat /\ None \notin Versions /\ None \notin Kinds /\ 1 \in Versions /\ Versions \subseteq Nat
  BY VersionAssumption DEF Versions

(***************************************************************************)
(* Types                                                                   *)
(***************************************************************************)
\* A warm that holds rows is at a kind, and they are a version.
WarmTyped == warm.rows # None => warm.at # 0 /\ warm.current \in Versions /\ warm.rows \in Versions

\* A lookup under way is about a kind, and a kind its worker has not memoised.
JobTyped ==
  \A w \in Workers :
    /\ job[w].rows # None => job[w].kind \in Kinds
    /\ job[w].kind # None => local[w][job[w].kind] = None

\* TypeOK with what makes it inductive.
TypeInv == TypeOK /\ WarmTyped /\ JobTyped

\* A container that starts for the first time is well typed.
LEMMA TypeInit ==
  Init => TypeInv
<1> SUFFICES ASSUME Init PROVE TypeInv
  OBVIOUS
<1> USE SourcesTyped, NoneIsNothing
<1>1. db \in [Kinds -> Versions] /\ boot \in [Kinds -> Versions] /\ warmed \in [Kinds -> Versions]
  BY DEF Init, Oldest
<1>2. blob \in [Kinds -> OrNone(Versions)] /\ local \in [Workers -> [Kinds -> OrNone(Versions)]]
  BY DEF Init, Nothing, OrNone
<1>3. job \in [Workers -> [kind : OrNone(Kinds), rows : OrNone(Versions)]]
  BY DEF Init, NoJob, OrNone
<1>4. warm \in [at : 0 .. Len(SOURCES), rows : OrNone(Versions), current : OrNone(Versions)]
  BY DEF Init, WarmAt, OrNone
<1>5. WarmTyped /\ JobTyped
  BY DEF Init, WarmAt, NoJob, WarmTyped, JobTyped
<1>6. warm.at # 0 /\ \A w \in Workers : local[w] = Nothing /\ job[w] = NoJob
  BY DEF Init, WarmAt
<1> QED
  BY <1>1, <1>2, <1>3, <1>4, <1>5, <1>6 DEF Init, TypeInv, TypeOK

\* No step leaves the types; one step of the proof an action.
LEMMA TypeStep ==
  ASSUME TypeInv, [Next]_vars
  PROVE  TypeInv'
<1> USE SourcesTyped, NoneIsNothing DEF TypeInv, TypeOK, WarmTyped, JobTyped, OrNone
<1>1. ASSUME NEW w \in Workers, NEW k \in Kinds, LookupBlob(w, k) PROVE TypeInv'
  <2>1. local' \in [Workers -> [Kinds -> OrNone(Versions)]] /\ serving
    BY <1>1 DEF LookupBlob, Idle
  <2>2. \A v \in Workers : v # w => local'[v] = local[v]
    BY <1>1 DEF LookupBlob
  <2>3. job[w].kind = None /\ job' = job
    BY <1>1 DEF LookupBlob, Idle, NoJob, history
  <2> QED
    BY <1>1, <2>1, <2>2, <2>3 DEF LookupBlob, history
<1>2. ASSUME NEW w \in Workers, NEW k \in Kinds, LookupCold(w, k) PROVE TypeInv'
  BY <1>2 DEF LookupCold, Idle, history
<1>3. ASSUME NEW w \in Workers, Fetch(w) PROVE TypeInv'
  <2>1. job[w].kind \in Kinds /\ serving
    BY <1>3 DEF Fetch, NoJob
  <2>2. job' = [job EXCEPT ![w].rows = db[job[w].kind]] /\ db[job[w].kind] \in Versions
    BY <1>3, <2>1 DEF Fetch
  <2>3. job' \in [Workers -> [kind : OrNone(Kinds), rows : OrNone(Versions)]]
    BY <2>2
  <2>4. \A v \in Workers : job'[v].rows # None => job'[v].kind \in Kinds
    BY <2>1, <2>2
  <2> QED
    BY <1>3, <2>1, <2>3, <2>4 DEF Fetch, history
<1>4. ASSUME NEW w \in Workers, Store(w) PROVE TypeInv'
  BY <1>4 DEF Store, SetBlob, NoJob
<1>5. ASSUME NEW w \in Workers, StoreRaises(w) PROVE TypeInv'
  BY <1>5 DEF StoreRaises, SetBlob, NoJob
<1>6. ASSUME NEW w \in Workers, LookupRaises(w) PROVE TypeInv'
  BY <1>6 DEF LookupRaises, NoJob
<1>7. ASSUME NEW w \in Workers, RestartWorker(w) PROVE TypeInv'
  BY <1>7 DEF RestartWorker, NoJob, Nothing
<1>8. ASSUME WarmFetch PROVE TypeInv'
  <2>1. WarmKind \in Kinds
    BY <1>8 DEF WarmFetch, WarmKind
  <2>2. db[WarmKind] \in Versions
    BY <2>1
  <2>3. warm' = [at |-> warm.at, rows |-> db[WarmKind], current |-> db[WarmKind]]
    BY <1>8 DEF WarmFetch
  <2>4. warm' \in [at : 0 .. Len(SOURCES), rows : OrNone(Versions), current : OrNone(Versions)]
    BY <2>2, <2>3
  <2> QED
    BY <1>8, <2>2, <2>3, <2>4 DEF WarmFetch, history
<1>9. ASSUME WarmStore PROVE TypeInv'
  <2>1. WarmKind \in Kinds /\ warm.rows \in Versions /\ warm.current \in Versions
    BY <1>9 DEF WarmStore, WarmKind
  <2>2. blob' \in [Kinds -> OrNone(Versions)]
    BY <1>9, <2>1 DEF WarmStore
  <2>3. boot' \in [Kinds -> Versions] /\ warmed' \in [Kinds -> Versions]
    BY <1>9, <2>1 DEF WarmStore
  <2>4. \E n \in 0 .. Len(SOURCES) :
          warm' = WarmAt(n) /\ (n = 0 => warm.at = Len(SOURCES))
    <3>1. CASE warm.at = Len(SOURCES)
      BY <1>9, <3>1 DEF WarmStore, NoWarm
    <3>2. CASE warm.at # Len(SOURCES)
      BY <1>9, <3>2 DEF WarmStore
    <3> QED
      BY <3>1, <3>2
  <2>5. /\ warm' \in [at : 0 .. Len(SOURCES), rows : OrNone(Versions), current : OrNone(Versions)]
        /\ warm'.rows = None
        /\ warm'.at = 0 => warm.at = Len(SOURCES)
    BY <2>4 DEF WarmAt
  <2>6. behind' \subseteq Workers /\ late' \subseteq Kinds
    BY <1>9, <2>1 DEF WarmStore
  <2>7. serving' = (serving \/ warm.at = Len(SOURCES)) /\ UNCHANGED <<db, local, job>>
    BY <1>9 DEF WarmStore
  <2> QED
    BY <2>2, <2>3, <2>5, <2>6, <2>7
<1>10. ASSUME WarmRaises PROVE TypeInv'
  BY <1>10 DEF WarmRaises, WarmKind, NoWarm, WarmAt, history
<1>11. ASSUME WarmByHand PROVE TypeInv'
  BY <1>11 DEF WarmByHand, WarmAt, history
<1>12. ASSUME RestartContainer PROVE TypeInv'
  <2>1. local' = [w \in Workers |-> Nothing] /\ local' \in [Workers -> [Kinds -> OrNone(Versions)]]
    BY <1>12 DEF RestartContainer, StartContainer, Nothing
  <2>2. /\ job' = [w \in Workers |-> NoJob]
        /\ job' \in [Workers -> [kind : OrNone(Kinds), rows : OrNone(Versions)]]
    BY <1>12 DEF RestartContainer, StartContainer, NoJob
  <2>3. \A w \in Workers : job'[w].rows = None /\ job'[w].kind = None
    BY <2>2 DEF NoJob
  <2>4. /\ warm' \in [at : 0 .. Len(SOURCES), rows : OrNone(Versions), current : OrNone(Versions)]
        /\ warm'.at # 0 /\ warm'.rows = None
    BY <1>12 DEF RestartContainer, StartContainer, WarmAt
  <2>5. boot' \in [Kinds -> Versions]
    BY <1>12 DEF RestartContainer, StartContainer, Oldest
  <2> QED
    BY <1>12, <2>1, <2>2, <2>3, <2>4, <2>5 DEF RestartContainer, StartContainer
<1>13. ASSUME NEW k \in Kinds, Update(k) PROVE TypeInv'
  BY <1>13, VersionAssumption DEF Update, Versions, history
<1>14. ASSUME NEW k \in Kinds, Expire(k) PROVE TypeInv'
  BY <1>14 DEF Expire, history
<1>15. CASE UNCHANGED vars
  BY <1>15 DEF vars
<1> QED
  BY <1>1, <1>2, <1>3, <1>4, <1>5, <1>6, <1>7, <1>8, <1>9, <1>10, <1>11, <1>12, <1>13, <1>14, <1>15 DEF Next

\* Every variable stays in its type, whatever the workers, the warms and the restarts do.
THEOREM SdeTyped == Spec => []TypeOK
  <1>1. TypeInv => TypeOK
    BY DEF TypeInv
  <1> QED
    BY <1>1, TypeInit, TypeStep, PTL DEF Spec

(***************************************************************************)
(* A restart is the refresh                                                *)
(***************************************************************************)
\* The warm holds what Postgres had when it read, and Postgres only moves forward.
WarmInv ==
  warm.rows # None => warm.rows = warm.current /\ warm.rows <= db[WarmKind]

\* No version in any hand is older than the one of this container's warm: what is held, what is
\* in Redis, what a lookup or the warm has read and not yet written.
BootInv ==
  /\ warm.rows # None => warm.rows >= boot[WarmKind]
  /\ \A k \in Kinds :
       /\ boot[k] <= db[k]
       /\ AtLeast(blob[k], boot[k])
       /\ \A w \in Workers : AtLeast(local[w][k], boot[k])
       /\ \A w \in Workers : job[w].kind = k => AtLeast(job[w].rows, boot[k])

RestartInv == WarmInv /\ BootInv

\* Nothing is in anybody's hands before the first warm.
LEMMA RestartInit ==
  Init => RestartInv
<1> USE NoneIsNothing
<1> SUFFICES ASSUME Init PROVE RestartInv
  OBVIOUS
<1>1. warm.rows = None
  BY DEF Init, WarmAt
<1>2. \A k \in Kinds : boot[k] <= db[k] /\ blob[k] = None /\ \A w \in Workers : local[w][k] = None
  BY DEF Init, Oldest, Nothing
<1>3. \A w \in Workers : job[w].rows = None
  BY DEF Init, NoJob
<1> QED
  BY <1>1, <1>2, <1>3 DEF RestartInv, WarmInv, BootInv, AtLeast

\* boot moves only when the warm of the container's start writes, and then nobody serves yet.
LEMMA RestartStep ==
  ASSUME TypeInv, RestartInv, [Next]_vars
  PROVE  RestartInv'
<1> USE SourcesTyped, NoneIsNothing
    DEF RestartInv, WarmInv, BootInv, AtLeast, TypeInv, TypeOK, WarmTyped, JobTyped, OrNone
<1>1. ASSUME NEW w \in Workers, NEW k \in Kinds, LookupBlob(w, k) PROVE RestartInv'
  BY <1>1 DEF LookupBlob, WarmKind, history
<1>2. ASSUME NEW w \in Workers, NEW k \in Kinds, LookupCold(w, k) PROVE RestartInv'
  BY <1>2 DEF LookupCold, WarmKind, history
<1>3. ASSUME NEW w \in Workers, Fetch(w) PROVE RestartInv'
  BY <1>3 DEF Fetch, WarmKind, history
<1>4. ASSUME NEW w \in Workers, Store(w) PROVE RestartInv'
  BY <1>4 DEF Store, SetBlob, NoJob, WarmKind
<1>5. ASSUME NEW w \in Workers, StoreRaises(w) PROVE RestartInv'
  BY <1>5 DEF StoreRaises, SetBlob, NoJob, WarmKind
<1>6. ASSUME NEW w \in Workers, LookupRaises(w) PROVE RestartInv'
  BY <1>6 DEF LookupRaises, NoJob, WarmKind
<1>7. ASSUME NEW w \in Workers, RestartWorker(w) PROVE RestartInv'
  BY <1>7 DEF RestartWorker, NoJob, Nothing, WarmKind
<1>8. ASSUME WarmFetch PROVE RestartInv'
  BY <1>8 DEF WarmFetch, WarmKind, history
<1>9. ASSUME WarmStore PROVE RestartInv'
  <2>1. warm'.rows = None
    BY <1>9 DEF WarmStore, NoWarm, WarmAt
  <2>2. /\ WarmKind \in Kinds /\ warm.rows \in Versions /\ warm.rows = warm.current
        /\ boot[WarmKind] <= warm.rows /\ warm.rows <= db[WarmKind]
    BY <1>9 DEF WarmStore, WarmKind
  <2>3. UNCHANGED <<db, local, job>>
    BY <1>9 DEF WarmStore
  <2>4. \A k \in Kinds : blob'[k] = IF k = WarmKind THEN warm.rows ELSE blob[k]
    BY <1>9 DEF WarmStore
  <2>5. CASE serving
    <3>1. boot' = boot
      BY <1>9, <2>5 DEF WarmStore
    <3> QED
      BY <2>1, <2>2, <2>3, <2>4, <3>1
  <2>6. CASE ~serving
    <3>1. \A k \in Kinds : boot'[k] = IF k = WarmKind THEN warm.rows ELSE boot[k]
      BY <1>9, <2>2, <2>6 DEF WarmStore
    <3>2. \A w \in Workers : job[w].rows = None /\ \A k \in Kinds : local[w][k] = None
      BY <2>6 DEF Nothing, NoJob
    <3>3. ASSUME NEW k \in Kinds PROVE boot'[k] <= db'[k] /\ AtLeast(blob'[k], boot'[k])
      <4>1. CASE k = WarmKind
        <5>1. boot'[k] = warm.rows /\ blob'[k] = warm.rows /\ db'[k] = db[WarmKind]
          BY <2>3, <2>4, <3>1, <4>1
        <5>2. warm.rows \in Nat /\ warm.rows <= db[WarmKind]
          BY <2>2
        <5> QED
          BY <5>1, <5>2
      <4>2. CASE k # WarmKind
        BY <2>3, <2>4, <3>1, <4>2
      <4> QED
        BY <4>1, <4>2
    <3>4. ASSUME NEW k \in Kinds, NEW w \in Workers
          PROVE  local'[w][k] = None /\ job'[w].rows = None
      BY <2>3, <3>2
    <3> QED
      BY <2>1, <3>3, <3>4
  <2> QED
    BY <2>5, <2>6
<1>10. ASSUME WarmRaises PROVE RestartInv'
  BY <1>10 DEF WarmRaises, WarmKind, NoWarm, WarmAt, history
<1>11. ASSUME WarmByHand PROVE RestartInv'
  BY <1>11 DEF WarmByHand, WarmAt, WarmKind, history
<1>12. ASSUME RestartContainer PROVE RestartInv'
  <2>1. warm'.rows = None
    BY <1>12 DEF RestartContainer, StartContainer, WarmAt
  <2>2. \A w \in Workers : job'[w].rows = None /\ \A k \in Kinds : local'[w][k] = None
    BY <1>12 DEF RestartContainer, StartContainer, Nothing, NoJob
  <2>3. \A k \in Kinds : boot'[k] = 1
    BY <1>12 DEF RestartContainer, StartContainer, Oldest
  <2>4. \A k \in Kinds : db[k] >= 1 /\ (blob[k] # None => blob[k] >= 1)
    BY DEF Versions
  <2>5. UNCHANGED <<db, blob>>
    BY <1>12 DEF RestartContainer
  <2> QED
    BY <2>1, <2>2, <2>3, <2>4, <2>5
<1>13. ASSUME NEW k \in Kinds, Update(k) PROVE RestartInv'
  BY <1>13 DEF Update, Versions, WarmKind, history
<1>14. ASSUME NEW k \in Kinds, Expire(k) PROVE RestartInv'
  BY <1>14 DEF Expire, WarmKind, history
<1>15. CASE UNCHANGED vars
  BY <1>15 DEF vars, WarmKind
<1> QED
  BY <1>1, <1>2, <1>3, <1>4, <1>5, <1>6, <1>7, <1>8, <1>9, <1>10, <1>11, <1>12, <1>13, <1>14, <1>15 DEF Next

\* RestartIsRefresh, for any number of workers, tables and versions.
THEOREM RestartRefreshes == Spec => []RestartIsRefresh
  <1>1. TypeInv /\ RestartInv => RestartIsRefresh
    BY DEF RestartInv, BootInv, RestartIsRefresh
  <1> QED
    BY <1>1, TypeInit, TypeStep, RestartInit, RestartStep, PTL DEF Spec

(***************************************************************************)
(* What undoes a warm                                                      *)
(***************************************************************************)
\* No version that may yet be written is older than the one of the last warm, but for the rows
\* of those who are behind it.
FreshInv ==
  /\ warm.rows # None => warm.rows >= warmed[WarmKind]
  /\ \A k \in Kinds :
       /\ warmed[k] <= db[k]
       /\ k \notin late => AtLeast(blob[k], warmed[k])
       /\ \A w \in Workers \ behind : job[w].kind = k => AtLeast(job[w].rows, warmed[k])

\* Nothing is in anybody's hands before the first warm.
LEMMA FreshInit ==
  Init => FreshInv
<1> USE NoneIsNothing
<1> SUFFICES ASSUME Init PROVE FreshInv
  OBVIOUS
<1>1. warm.rows = None
  BY DEF Init, WarmAt
<1>2. \A k \in Kinds : warmed[k] <= db[k] /\ blob[k] = None
  BY DEF Init, Oldest, Nothing
<1>3. \A w \in Workers : job[w].rows = None
  BY DEF Init, NoJob
<1> QED
  BY <1>1, <1>2, <1>3 DEF FreshInv, AtLeast

\* warmed moves only when a warm writes, and whoever holds rows of that kind is then behind.
LEMMA FreshStep ==
  ASSUME TypeInv, WarmInv, FreshInv, [Next]_vars
  PROVE  FreshInv'
<1> USE SourcesTyped, NoneIsNothing
    DEF FreshInv, WarmInv, AtLeast, TypeInv, TypeOK, WarmTyped, JobTyped, OrNone
<1>1. ASSUME NEW w \in Workers, NEW k \in Kinds, LookupBlob(w, k) PROVE FreshInv'
  BY <1>1 DEF LookupBlob, WarmKind, history
<1>2. ASSUME NEW w \in Workers, NEW k \in Kinds, LookupCold(w, k) PROVE FreshInv'
  BY <1>2 DEF LookupCold, WarmKind, history
<1>3. ASSUME NEW w \in Workers, Fetch(w) PROVE FreshInv'
  BY <1>3 DEF Fetch, WarmKind, history
<1>4. ASSUME NEW w \in Workers, SetBlob(w) PROVE FreshInv'
  BY <1>4 DEF SetBlob, NoJob, WarmKind
<1>6. ASSUME NEW w \in Workers, LookupRaises(w) PROVE FreshInv'
  BY <1>6 DEF LookupRaises, NoJob, WarmKind
<1>7. ASSUME NEW w \in Workers, RestartWorker(w) PROVE FreshInv'
  BY <1>7 DEF RestartWorker, NoJob, WarmKind
<1>8. ASSUME WarmFetch PROVE FreshInv'
  BY <1>8 DEF WarmFetch, WarmKind, history
<1>9. ASSUME WarmStore PROVE FreshInv'
  <2>1. warm'.rows = None
    BY <1>9 DEF WarmStore, NoWarm, WarmAt
  <2>2. WarmKind \in Kinds /\ warm.rows \in Versions /\ warm.rows = warm.current /\ warm.rows <= db[WarmKind]
    BY <1>9 DEF WarmStore, WarmKind
  <2>3. \A k \in Kinds : /\ blob'[k] = IF k = WarmKind THEN warm.rows ELSE blob[k]
                         /\ warmed'[k] = IF k = WarmKind THEN warm.rows ELSE warmed[k]
    BY <1>9, <2>2 DEF WarmStore
  <2>4. late' = late \ {WarmKind} /\ UNCHANGED <<db, job>>
    BY <1>9 DEF WarmStore
  <2>5. behind' = behind \cup {w \in Workers : job[w].kind = WarmKind /\ job[w].rows # None}
    BY <1>9 DEF WarmStore
  <2>6. \A w \in Workers \ behind' : w \notin behind /\ (job[w].kind = WarmKind => job[w].rows = None)
    BY <2>5
  <2>7. ASSUME NEW k \in Kinds
        PROVE  warmed'[k] <= db'[k] /\ (k \notin late' => AtLeast(blob'[k], warmed'[k]))
    <3>1. CASE k = WarmKind
      <4>1. warmed'[k] = warm.rows /\ blob'[k] = warm.rows /\ db'[k] = db[WarmKind]
        BY <2>3, <2>4, <3>1
      <4>2. warm.rows \in Nat /\ warm.rows <= db[WarmKind]
        BY <2>2
      <4> QED
        BY <4>1, <4>2
    <3>2. CASE k # WarmKind
      <4>1. blob'[k] = blob[k] /\ warmed'[k] = warmed[k] /\ db'[k] = db[k] /\ (k \in late' <=> k \in late)
        BY <2>3, <2>4, <3>2
      <4> QED
        BY <4>1
    <3> QED
      BY <3>1, <3>2
  <2>8. ASSUME NEW k \in Kinds, NEW w \in Workers \ behind', job'[w].kind = k
        PROVE  AtLeast(job'[w].rows, warmed'[k])
    <3>1. job'[w] = job[w] /\ w \in Workers \ behind
      BY <2>4, <2>6, <2>8
    <3>2. CASE k = WarmKind
      BY <2>6, <2>8, <3>1, <3>2
    <3>3. CASE k # WarmKind
      BY <2>3, <2>8, <3>1, <3>3
    <3> QED
      BY <3>2, <3>3
  <2> QED
    BY <2>1, <2>7, <2>8
<1>10. ASSUME WarmRaises PROVE FreshInv'
  BY <1>10 DEF WarmRaises, WarmKind, NoWarm, WarmAt, history
<1>11. ASSUME WarmByHand PROVE FreshInv'
  BY <1>11 DEF WarmByHand, WarmAt, WarmKind, history
<1>12. ASSUME RestartContainer PROVE FreshInv'
  BY <1>12 DEF RestartContainer, StartContainer, NoJob, WarmAt
<1>13. ASSUME NEW k \in Kinds, Update(k) PROVE FreshInv'
  BY <1>13 DEF Update, Versions, WarmKind, history
<1>14. ASSUME NEW k \in Kinds, Expire(k) PROVE FreshInv'
  BY <1>14 DEF Expire, WarmKind, history
<1>15. CASE UNCHANGED vars
  BY <1>15 DEF vars, WarmKind
<1> QED
  BY <1>1, <1>2, <1>3, <1>4, <1>6, <1>7, <1>8, <1>9, <1>10, <1>11, <1>12, <1>13, <1>14, <1>15
     DEF Next, Store, StoreRaises

\* WarmIsFresh, for any number of workers, tables and versions.
THEOREM WarmStaysFresh == Spec => []WarmIsFresh
  <1>1. FreshInv => WarmIsFresh
    BY DEF FreshInv, WarmIsFresh, TypeInv, TypeOK
  <1>2. RestartInv => WarmInv
    BY DEF RestartInv
  <1> QED
    BY <1>1, <1>2, TypeInit, TypeStep, RestartInit, RestartStep, FreshInit, FreshStep, PTL DEF Spec

(***************************************************************************)
(* SdeCache implements SdeTable                                            *)
(***************************************************************************)
Shown == <<db, About, local>>

\* A version of k that is there to be taken, or that Postgres has.
Known(k, version) == version \in About[k] \/ version = db[k]

\* Whatever is in Redis, in a lookup or in the warm is about.
LEMMA AboutHas ==
  ASSUME TypeInv
  PROVE  /\ \A k \in Kinds : blob[k] # None => blob[k] \in About[k]
         /\ \A w \in Workers : job[w].rows # None => job[w].rows \in About[job[w].kind]
         /\ warm.rows # None => warm.rows \in About[WarmKind]
<1> USE SourcesTyped DEF TypeInv, TypeOK, WarmTyped, JobTyped
<1>1. ASSUME NEW k \in Kinds, blob[k] # None PROVE blob[k] \in About[k]
  BY <1>1 DEF About
<1>2. ASSUME NEW w \in Workers, job[w].rows # None PROVE job[w].rows \in About[job[w].kind]
  BY <1>2 DEF About
<1>3. ASSUME warm.rows # None PROVE warm.rows \in About[WarmKind]
  <2>1. warm.at \in DOMAIN SOURCES /\ WarmKind \in Kinds
    BY <1>3 DEF WarmKind
  <2> QED
    BY <1>3, <2>1 DEF About, WarmKind
<1> QED
  BY <1>1, <1>2, <1>3

\* A step after which nothing is about but what was known, and no worker holds anything else.
LEMMA ServeStep ==
  ASSUME UNCHANGED db,
         \A k \in Kinds : blob'[k] # None => Known(k, blob'[k]),
         \A w \in Workers : job'[w].rows # None => Known(job'[w].kind, job'[w].rows),
         warm'.rows # None => Known(WarmKind', warm'.rows),
         \A w \in Workers : Table!Takes(w) \/ Table!Restarts(w)
  PROVE  Table!Next
<1>1. ASSUME NEW k \in Kinds, NEW x, x \in About'[k] PROVE Known(k, x)
  <2>1. /\ x # None
        /\ \/ x = blob'[k]
           \/ \E w \in Workers : job'[w].kind = k /\ x = job'[w].rows
           \/ WarmKind' = k /\ x = warm'.rows
    BY <1>1 DEF About, WarmKind
  <2> QED
    BY <2>1
<1>2. \A k \in Kinds : About'[k] \subseteq About[k] \cup {db[k]}
  BY <1>1 DEF Known
<1> QED
  BY <1>2 DEF Table!Next, Table!Serve

\* Nothing is about, and nothing held, before the first warm.
LEMMA TableInit ==
  Init => Table!Init
<1> SUFFICES ASSUME Init PROVE Table!Init
  OBVIOUS
<1>1. \A k \in Kinds : blob[k] = None
  BY DEF Init, Nothing
<1>2. \A w \in Workers : job[w].rows = None
  BY DEF Init, NoJob
<1>3. warm.rows = None
  BY DEF Init, WarmAt
<1>4. About = [k \in Kinds |-> {}]
  BY <1>1, <1>2, <1>3 DEF About
<1> QED
  BY <1>4 DEF Init, Table!Init, Oldest, Nothing

\* An update is one of SdeTable, and every other step serves what is about.
LEMMA TableStep ==
  ASSUME TypeInv, [Next]_vars
  PROVE  [Table!Next]_Shown
<1> DEFINE Blobs == \A k \in Kinds : blob'[k] # None => Known(k, blob'[k])
<1> DEFINE Jobs == \A w \in Workers : job'[w].rows # None => Known(job'[w].kind, job'[w].rows)
<1> DEFINE Warms == warm'.rows # None => Known(WarmKind', warm'.rows)
<1> DEFINE Held == \A w \in Workers : Table!Takes(w) \/ Table!Restarts(w)
<1>0. ASSUME UNCHANGED db, Blobs, Jobs, Warms, Held PROVE Table!Next
  BY <1>0, ServeStep
<1>a. UNCHANGED blob => Blobs
  BY AboutHas DEF Known
<1>b. UNCHANGED job => Jobs
  BY AboutHas DEF Known
<1>c. UNCHANGED warm => Warms
  BY AboutHas DEF Known, WarmKind
<1>d. UNCHANGED local => Held
  BY DEF Table!Takes
<1>e. ASSUME NEW w \in Workers, job' = [job EXCEPT ![w] = NoJob] PROVE Jobs
  BY <1>e, AboutHas DEF Known, NoJob, TypeInv, TypeOK
<1> HIDE DEF Blobs, Jobs, Warms, Held
<1> USE SourcesTyped, NoneIsNothing, AboutHas DEF TypeInv, TypeOK, WarmTyped, JobTyped, OrNone
<1>1. ASSUME NEW w \in Workers, NEW k \in Kinds, LookupBlob(w, k) PROVE Table!Next
  <2>1. Held
    BY <1>1 DEF LookupBlob, Table!Takes, Held
  <2> QED
    BY <1>0, <1>1, <2>1, <1>a, <1>c, <1>b DEF LookupBlob, history
<1>2. ASSUME NEW w \in Workers, NEW k \in Kinds, LookupCold(w, k) PROVE Table!Next
  <2>1. Jobs
    BY <1>2 DEF LookupCold, Jobs, Known
  <2> QED
    BY <1>0, <1>2, <2>1, <1>a, <1>c, <1>d DEF LookupCold, history
<1>3. ASSUME NEW w \in Workers, Fetch(w) PROVE Table!Next
  <2>1. Jobs
    BY <1>3 DEF Fetch, Jobs, Known
  <2> QED
    BY <1>0, <1>3, <2>1, <1>a, <1>c, <1>d DEF Fetch, history
<1>4. ASSUME NEW w \in Workers, Store(w) PROVE Table!Next
  <2>1. Blobs
    BY <1>4 DEF Store, SetBlob, Blobs, Known
  <2>2. Held
    <3>1. job[w].kind \in Kinds /\ job[w].rows \in About[job[w].kind]
      BY <1>4 DEF Store, SetBlob
    <3>2. local' = [local EXCEPT ![w][job[w].kind] = job[w].rows]
      BY <1>4 DEF Store
    <3>3. local[w][job[w].kind] = None
      BY <3>1
    <3> QED
      BY <3>1, <3>2, <3>3 DEF Table!Takes, Held
  <2> QED
    BY <1>0, <1>4, <2>1, <2>2, <1>c, <1>e DEF Store, SetBlob
<1>5. ASSUME NEW w \in Workers, StoreRaises(w) PROVE Table!Next
  <2>1. Blobs
    BY <1>5 DEF StoreRaises, SetBlob, Blobs, Known
  <2> QED
    BY <1>0, <1>5, <2>1, <1>c, <1>d, <1>e DEF StoreRaises, SetBlob
<1>6. ASSUME NEW w \in Workers, LookupRaises(w) PROVE Table!Next
  <2> QED
    BY <1>0, <1>6, <1>a, <1>c, <1>d, <1>e DEF LookupRaises
<1>7. ASSUME NEW w \in Workers, RestartWorker(w) PROVE Table!Next
  <2>1. Held
    BY <1>7 DEF RestartWorker, Nothing, Table!Takes, Table!Restarts, Held
  <2> QED
    BY <1>0, <1>7, <2>1, <1>a, <1>c, <1>e DEF RestartWorker
<1>8. ASSUME WarmFetch PROVE Table!Next
  <2>1. Warms
    BY <1>8 DEF WarmFetch, WarmKind, Warms, Known
  <2> QED
    BY <1>0, <1>8, <2>1, <1>a, <1>d, <1>b DEF WarmFetch, history
<1>9. ASSUME WarmStore PROVE Table!Next
  <2>1. Blobs
    BY <1>9 DEF WarmStore, Blobs, Known
  <2>2. Warms
    BY <1>9 DEF WarmStore, NoWarm, WarmAt, Warms
  <2> QED
    BY <1>0, <1>9, <2>1, <2>2, <1>d, <1>b DEF WarmStore
<1>10. ASSUME WarmRaises PROVE Table!Next
  <2>1. Blobs
    BY <1>10 DEF WarmRaises, Blobs, Known
  <2>2. Warms
    BY <1>10 DEF WarmRaises, NoWarm, WarmAt, Warms
  <2> QED
    BY <1>0, <1>10, <2>1, <2>2, <1>d, <1>b DEF WarmRaises, history
<1>11. ASSUME WarmByHand PROVE Table!Next
  <2>1. Warms
    BY <1>11 DEF WarmByHand, WarmAt, Warms
  <2> QED
    BY <1>0, <1>11, <2>1, <1>a, <1>d, <1>b DEF WarmByHand, history
<1>12. ASSUME RestartContainer PROVE Table!Next
  <2>1. Jobs
    BY <1>12 DEF RestartContainer, StartContainer, NoJob, Jobs
  <2>2. Warms
    BY <1>12 DEF RestartContainer, StartContainer, WarmAt, Warms
  <2>3. Held
    BY <1>12 DEF RestartContainer, StartContainer, Nothing, Table!Takes, Table!Restarts, Held
  <2> QED
    BY <1>0, <1>12, <2>1, <2>2, <2>3, <1>a DEF RestartContainer, StartContainer
<1>13. ASSUME NEW k \in Kinds, Update(k) PROVE Table!Next
  <2>1. About' = About
    BY <1>13 DEF Update, About
  <2> QED
    BY <1>13, <2>1 DEF Update, Table!Next, Table!Update
<1>14. ASSUME NEW k \in Kinds, Expire(k) PROVE Table!Next
  <2>1. Blobs
    BY <1>14 DEF Expire, Blobs, Known
  <2> QED
    BY <1>0, <1>14, <2>1, <1>b, <1>c, <1>d DEF Expire, history
<1>15. CASE UNCHANGED vars
  <2>1. About' = About
    BY <1>15 DEF vars, About
  <2> QED
    BY <1>15, <2>1 DEF vars, Shown
<1> QED
  BY <1>1, <1>2, <1>3, <1>4, <1>5, <1>6, <1>7, <1>8, <1>9, <1>10, <1>11, <1>12, <1>13, <1>14, <1>15 DEF Next

\* SdeTable, implemented: what a process serves came from Postgres and has been about since.
THEOREM SdeCacheImplementsTable == Spec => TableSpec
  BY TypeInit, TypeStep, TableInit, TableStep, PTL DEF Spec, TableSpec, Table!Spec, Shown
=============================================================================
