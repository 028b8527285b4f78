-------------------------- MODULE NameLookupProofs --------------------------
(***************************************************************************)
(* What holds of name lookups for any names, links and TTLs: types, how    *)
(* long an entry can be stale, what parse_names and scan_path make of a    *)
(* link, and where a page and its canonical lead.                          *)
(***************************************************************************)
EXTENDS NameLookup, FiniteSetTheorems, SequenceTheorems, TLAPS

(***************************************************************************)
(* Types                                                                   *)
(***************************************************************************)
\* A request is a record: the fields a step does not name it keeps.
IsRequest(r) ==
  r = [pc |-> r.pc, link |-> r.link, url |-> r.url, hops |-> r.hops,
       todo |-> r.todo, found |-> r.found, labelled |-> r.labelled]

\* TypeOK with what makes it inductive.
TypeInv == TypeOK /\ IsRequest(req)

\* Ids and folds are what they are named for.
LEMMA Basics ==
  /\ 0 \in Ids /\ Nobody \in Ids /\ Ids \subseteq Nat
  /\ NoneFound \in [Names -> Ids]
  /\ \A n \in Names : Fold[n] \in Folds
  BY ChangeAssumption DEF Ids, Nobody, NoneFound, Folds

\* Who has a name is an id, or nobody.
LEMMA HolderTyped ==
  ASSUME NEW f \in Folds, esi \in [Folds -> Ids]
  PROVE  Holder(f) \in Ids
  BY Basics DEF Holder

\* A request that has not asked yet is well typed.
LEMMA FollowingTyped ==
  ASSUME NEW link, NEW url, NEW hops
  PROVE  LET r == Following(link, url, hops) IN
         /\ IsRequest(r) /\ r.pc = "get" /\ r.todo = {} /\ r.labelled = {}
         /\ r.found = NoneFound
  BY DEF Following, IsRequest

\* So is no request at all.
LEMMA GoneTyped ==
  /\ IsRequest(Gone) /\ Gone.pc = "gone" /\ Gone.todo = {} /\ Gone.labelled = {}
  /\ Gone.found = NoneFound
  BY DEF Gone, Following, IsRequest

\* At first nothing is cached, and every name is somebody's or nobody's.
LEMMA TypeInit ==
  Init => TypeInv
<1> SUFFICES ASSUME Init PROVE TypeInv
  OBVIOUS
<1>1. esi \in [Folds -> Ids] /\ since \in [Folds -> 0 .. TtlHit]
  BY ChangeAssumption, TtlAssumption DEF Init, Ids
<1>2. cache \in [Folds -> [id : Ids, left : 0 .. TtlHit]]
  BY Basics, TtlAssumption DEF Init, NoEntry
<1> QED
  BY <1>1, <1>2, GoneTyped, Basics DEF Init, TypeInv, TypeOK

\* No step leaves the types; one step of the proof an action.
LEMMA TypeStep ==
  ASSUME TypeInv, [Next]_vars
  PROVE  TypeInv'
<1> USE Basics DEF TypeInv, TypeOK
<1>0. ASSUME UNCHANGED <<esi, since, cache>>, IsRequest(req'), req'.todo = {}, req'.labelled = {},
             req'.pc \in {"get", "gone"}, req'.found = NoneFound
      PROVE  TypeInv'
  BY <1>0
<1>1. ASSUME NEW link \in Links, Open(link) PROVE TypeInv'
  BY <1>0, <1>1, FollowingTyped DEF Open
<1>2. CASE FollowRedirect
  <2>1. PICK url \in Redirects(req.url) : req' = Following(req.link, url, req.hops + 1)
    BY <1>2 DEF FollowRedirect
  <2> QED
    BY <1>0, <1>2, <2>1, FollowingTyped DEF FollowRedirect
<1>3. CASE NoScan \/ AskRaised \/ RenderFails
  BY <1>0, <1>3, GoneTyped DEF NoScan, AskRaised, RenderFails
<1>4. CASE ReadCache
  <2>1. /\ req' = [req EXCEPT !.pc = IF Missing(req) = {} THEN "resolved" ELSE "ask",
                              !.todo = Missing(req), !.found = Hits(req)]
        /\ UNCHANGED <<esi, since, cache>>
    BY <1>4 DEF ReadCache
  <2>2. IsRequest(req') /\ req'.url = req.url /\ req'.labelled = req.labelled
        /\ req'.todo = Missing(req) /\ req'.found = Hits(req)
        /\ req'.pc = IF Missing(req) = {} THEN "resolved" ELSE "ask"
    BY <2>1 DEF IsRequest
  <2>3. Missing(req) \subseteq OnPage(req)
    BY DEF Missing
  <2>4. OnPage(req') = OnPage(req)
    BY <2>2 DEF OnPage, PageNames
  <2>5. Hits(req) \in [Names -> Ids]
    BY DEF Hits
  <2>6. req'.pc \in {"ask", "resolved"} /\ (req'.pc = "ask" => req'.todo # {})
    BY <2>2
  <2>7. req'.todo \subseteq OnPage(req') /\ req'.found \in [Names -> Ids] /\ req'.labelled \subseteq Folds
    BY <2>2, <2>3, <2>4, <2>5
  <2> QED
    BY <2>1, <2>2, <2>6, <2>7
<1>5. CASE AskAnswered
  <2>1. /\ req.pc = "ask"
        /\ req' = [req EXCEPT !.pc = "write",
             !.found = [n \in Names |-> IF n \in req.todo THEN AnswerFor(n) ELSE req.found[n]]]
        /\ UNCHANGED <<esi, since, cache>>
    BY <1>5 DEF AskAnswered
  <2>2. IsRequest(req') /\ req'.url = req.url /\ req'.labelled = req.labelled
        /\ req'.todo = req.todo /\ req'.pc = "write"
        /\ req'.found = [n \in Names |-> IF n \in req.todo THEN AnswerFor(n) ELSE req.found[n]]
    BY <2>1 DEF IsRequest
  <2>3. OnPage(req') = OnPage(req)
    BY <2>2 DEF OnPage, PageNames
  <2>4. \A n \in Names : AnswerFor(n) \in Ids
    BY HolderTyped DEF AnswerFor
  <2>5. req'.found \in [Names -> Ids]
    BY <2>2, <2>4
  <2> QED
    BY <2>1, <2>2, <2>3, <2>5
<1>6. CASE AskRefused
  <2>1. /\ IsRequest(req') /\ req' = [req EXCEPT !.pc = "resolved"]
        /\ UNCHANGED <<esi, since, cache>>
    BY <1>6 DEF AskRefused, IsRequest
  <2>2. OnPage(req') = OnPage(req)
    BY <2>1 DEF OnPage, PageNames, IsRequest
  <2> QED
    BY <2>1, <2>2 DEF IsRequest
<1>7. CASE Store
  <2>1. /\ IsRequest(req') /\ req' = [req EXCEPT !.pc = "resolved"]
        /\ UNCHANGED <<esi, since>>
    BY <1>7 DEF Store, IsRequest
  <2>2. OnPage(req') = OnPage(req)
    BY <2>1 DEF OnPage, PageNames, IsRequest
  <2>3. \A f \in Folds : (\E n \in Writes(req) : Fold[n] = f) =>
          req.found[CHOOSE n \in Writes(req) : Fold[n] = f] \in Ids
    BY DEF Writes, OnPage
  <2>4. cache' \in [Folds -> [id : Ids, left : 0 .. TtlHit]]
    BY <1>7, <2>3, TtlAssumption DEF Store
  <2> QED
    BY <2>1, <2>2, <2>4 DEF IsRequest
<1>8. ASSUME NEW f \in Elsewhere, ResolveElsewhere(f) PROVE TypeInv'
  <2>1. f \in Folds
    BY LabelAssumption
  <2>2. cache' = [cache EXCEPT ![f] = [id |-> Holder(f), left |-> TtlHit]]
    BY <1>8 DEF ResolveElsewhere
  <2>3. [id |-> Holder(f), left |-> TtlHit] \in [id : Ids, left : 0 .. TtlHit]
    BY <2>1, HolderTyped, TtlAssumption
  <2>4. cache' \in [Folds -> [id : Ids, left : 0 .. TtlHit]]
    BY <2>2, <2>3
  <2> QED
    BY <1>8, <2>4 DEF ResolveElsewhere, OnPage, PageNames
<1>9. CASE Render
  <2>1. PICK labelled \in SUBSET Found(req) :
          req' = [req EXCEPT !.pc = "done", !.todo = {}, !.labelled = labelled]
    BY <1>9 DEF Render
  <2>2. /\ IsRequest(req') /\ req'.pc = "done" /\ req'.todo = {} /\ req'.labelled = labelled
        /\ req'.found = req.found
    BY <2>1 DEF IsRequest
  <2>3. Found(req) \subseteq Folds
    BY DEF Found, OnPage
  <2> QED
    BY <1>9, <2>1, <2>2, <2>3 DEF Render
<1>10. ASSUME NEW f \in Taken, ChangeHands(f) PROVE TypeInv'
  <2>1. f \in Folds
    BY LabelAssumption
  <2>2. esi' \in [Folds -> Ids]
    BY <1>10, <2>1, ChangeAssumption DEF ChangeHands, Ids
  <2>3. since' \in [Folds -> 0 .. TtlHit]
    BY <1>10, <2>1, TtlAssumption DEF ChangeHands
  <2> QED
    BY <1>10, <2>2, <2>3 DEF ChangeHands, OnPage, PageNames
<1>11. CASE Tick
  <2>1. since' \in [Folds -> 0 .. TtlHit]
    BY <1>11, TtlAssumption DEF Tick
  <2>2. cache' \in [Folds -> [id : Ids, left : 0 .. TtlHit]]
    <3>1. ASSUME NEW f \in Folds
          PROVE  (IF cache[f].left <= 1 THEN NoEntry ELSE [cache[f] EXCEPT !.left = @ - 1])
                   \in [id : Ids, left : 0 .. TtlHit]
      BY TtlAssumption DEF NoEntry
    <3> QED
      BY <1>11, <3>1 DEF Tick
  <2> QED
    BY <1>11, <2>1, <2>2 DEF Tick, OnPage, PageNames
<1>12. CASE UNCHANGED vars
  BY <1>12 DEF vars, OnPage, PageNames
<1> QED
  BY <1>1, <1>2, <1>3, <1>4, <1>5, <1>6, <1>7, <1>8, <1>9, <1>10, <1>11, <1>12 DEF Next, Resolve

\* Every variable stays in its type, and ESI is asked about somebody, for any links and names.
THEOREM NamesAreTyped == Spec => []TypeOK
  <1>1. TypeInv => TypeOK
    BY DEF TypeInv
  <1> QED
    BY <1>1, TypeInit, TypeStep, PTL DEF Spec

(***************************************************************************)
(* How stale an entry can be                                               *)
(***************************************************************************)
\* An answer that is wrong before it is written has become so since the last tick.
AnswerInv ==
  req.pc = "write" =>
    \A n \in req.todo : req.found[n] # Holder(Fold[n]) => since[Fold[n]] = 0

StaleInv == StaleIsBounded /\ AnswerInv

\* Nothing is cached, and nothing answered.
LEMMA StaleInit ==
  Init => StaleInv
  BY GoneTyped DEF Init, StaleInv, StaleIsBounded, AnswerInv, Cached, NoEntry

\* An entry becomes wrong at since = 0, and then both clocks move together.
LEMMA StaleStep ==
  ASSUME TypeInv, StaleInv, [Next]_vars
  PROVE  StaleInv'
<1> USE Basics, TtlAssumption DEF StaleInv
<1>1. TypeOK /\ IsRequest(req)
  BY DEF TypeInv
<1>2. UNCHANGED <<esi, since, cache>> => StaleIsBounded'
  BY DEF StaleIsBounded, Cached, Holder
<1>3. UNCHANGED <<esi, since, req>> => AnswerInv'
  BY DEF AnswerInv, Holder
<1>4. req'.pc # "write" => AnswerInv'
  BY DEF AnswerInv
<1>5. ASSUME NEW link \in Links, Open(link) PROVE StaleInv'
  BY <1>2, <1>4, <1>5, FollowingTyped DEF Open
<1>6. CASE FollowRedirect
  <2>1. PICK url \in Redirects(req.url) : req' = Following(req.link, url, req.hops + 1)
    BY <1>6 DEF FollowRedirect
  <2> QED
    BY <1>2, <1>4, <1>6, <2>1, FollowingTyped DEF FollowRedirect
<1>7. CASE NoScan \/ AskRaised \/ RenderFails
  BY <1>2, <1>4, <1>7, GoneTyped DEF NoScan, AskRaised, RenderFails
<1>8. CASE ReadCache \/ AskRefused
  <2>1. req'.pc \in {"resolved", "ask"} /\ UNCHANGED <<esi, since, cache>>
    BY <1>1, <1>8 DEF ReadCache, AskRefused, IsRequest
  <2> QED
    BY <1>2, <1>4, <2>1
<1>9. CASE AskAnswered
  <2>1. /\ req'.todo = req.todo
        /\ req'.found = [n \in Names |-> IF n \in req.todo THEN AnswerFor(n) ELSE req.found[n]]
        /\ UNCHANGED <<esi, since, cache>>
    BY <1>1, <1>9 DEF AskAnswered, IsRequest
  <2>2. req.todo \subseteq Names
    BY <1>1 DEF TypeOK, OnPage
  <2>3. \A n \in req'.todo : req'.found[n] = Holder(Fold[n])
    BY <2>1, <2>2 DEF AnswerFor
  <2>4. AnswerInv'
    BY <2>1, <2>3 DEF AnswerInv, Holder
  <2> QED
    BY <1>2, <2>1, <2>4
<1>10. CASE Store
  <2>1. req.pc = "write" /\ req'.pc # "write" /\ UNCHANGED <<esi, since>>
    BY <1>1, <1>10 DEF Store, IsRequest
  <2>2. ASSUME NEW f \in Folds, Cached(f)', cache'[f].id # Holder(f)'
        PROVE  since'[f] + cache'[f].left <= TtlHit
    <3>1. Holder(f)' = Holder(f) /\ since'[f] = since[f]
      BY <2>1 DEF Holder
    <3>2. CASE \E n \in Writes(req) : Fold[n] = f
      <4>1. PICK n \in req.todo : Fold[n] = f /\ cache'[f] = [id |-> req.found[n], left |-> TtlHit]
        BY <1>10, <3>2 DEF Store, Writes
      <4>2. since[f] = 0
        BY <2>1, <2>2, <3>1, <4>1 DEF AnswerInv
      <4> QED
        BY <3>1, <4>1, <4>2
    <3>3. CASE ~\E n \in Writes(req) : Fold[n] = f
      <4>1. cache'[f] = cache[f]
        BY <1>10, <3>3 DEF Store
      <4> QED
        BY <2>2, <3>1, <4>1 DEF StaleIsBounded, Cached
    <3> QED
      BY <3>2, <3>3
  <2> QED
    BY <1>4, <2>1, <2>2 DEF StaleIsBounded
<1>11. ASSUME NEW g \in Elsewhere, ResolveElsewhere(g) PROVE StaleInv'
  <2>1. UNCHANGED <<esi, since, req>> /\ g \in Folds
    BY <1>11, LabelAssumption DEF ResolveElsewhere
  <2>2. ASSUME NEW f \in Folds, Cached(f)', cache'[f].id # Holder(f)'
        PROVE  since'[f] + cache'[f].left <= TtlHit
    <3>1. Holder(f)' = Holder(f) /\ since'[f] = since[f]
      BY <2>1 DEF Holder
    <3>2. f # g
      BY <1>1, <1>11, <2>1, <2>2, <3>1 DEF ResolveElsewhere, TypeOK
    <3>3. cache'[f] = cache[f]
      BY <1>1, <1>11, <3>2 DEF ResolveElsewhere, TypeOK
    <3> QED
      BY <2>2, <3>1, <3>3 DEF StaleIsBounded, Cached
  <2> QED
    BY <1>3, <2>1, <2>2 DEF StaleIsBounded
<1>12. CASE Render
  <2>1. req'.pc = "done" /\ UNCHANGED <<esi, since, cache>>
    BY <1>1, <1>12 DEF Render, IsRequest
  <2> QED
    BY <1>2, <1>4, <2>1
<1>13. ASSUME NEW g \in Taken, ChangeHands(g) PROVE StaleInv'
  <2>1. UNCHANGED <<cache, req>> /\ g \in Folds
    BY <1>13, LabelAssumption DEF ChangeHands
  <2>2. ASSUME NEW f \in Folds, since'[f] # 0
        PROVE  since'[f] = since[f] /\ esi'[f] = esi[f]
    <3>1. /\ since' = [since EXCEPT ![g] = 0] /\ since \in [Folds -> 0 .. TtlHit]
          /\ esi' = [esi EXCEPT ![g] = esi[g] + 1] /\ esi \in [Folds -> Ids]
      BY <1>1, <1>13 DEF ChangeHands, TypeOK
    <3>2. f # g
      BY <2>1, <2>2, <3>1
    <3> QED
      BY <3>1, <3>2
  <2>3. StaleIsBounded'
    BY <1>1, <2>1, <2>2 DEF StaleIsBounded, Cached, Holder, TypeOK
  <2>4. req.todo \subseteq Names
    BY <1>1 DEF TypeOK, OnPage
  <2>5. AnswerInv'
    BY <2>1, <2>2, <2>4 DEF AnswerInv, Holder
  <2> QED
    BY <2>3, <2>5
<1>14. CASE Tick
  <2>1. req'.pc # "write" /\ UNCHANGED esi
    BY <1>14 DEF Tick
  <2>2. ASSUME NEW f \in Folds, Cached(f)', cache'[f].id # Holder(f)'
        PROVE  since'[f] + cache'[f].left <= TtlHit
    <3>1. cache[f].left > 1 /\ cache'[f].left = cache[f].left - 1 /\ cache'[f].id = cache[f].id
      BY <1>1, <1>14, <2>2 DEF Tick, Cached, NoEntry, TypeOK
    <3>2. since'[f] <= since[f] + 1 /\ since'[f] \in Nat /\ since[f] \in Nat
      BY <1>1, <1>14 DEF Tick, TypeOK
    <3>3. Holder(f)' = Holder(f)
      BY <2>1 DEF Holder
    <3>4. cache[f].left \in Nat
      BY <1>1 DEF TypeOK
    <3>5. since[f] + cache[f].left <= TtlHit
      BY <2>2, <3>1, <3>3, <3>4 DEF StaleIsBounded, Cached
    <3> QED
      BY <3>1, <3>2, <3>4, <3>5
  <2> QED
    BY <1>4, <2>1, <2>2 DEF StaleIsBounded
<1>15. CASE UNCHANGED vars
  BY <1>2, <1>3, <1>15 DEF vars
<1> QED
  BY <1>5, <1>6, <1>7, <1>8, <1>9, <1>10, <1>11, <1>12, <1>13, <1>14, <1>15 DEF Next, Resolve

\* StaleIsBounded, for any names, spellings, links and TTLs, however often they are scanned.
THEOREM StalenessIsBounded == Spec => []StaleIsBounded
  <1>1. StaleInv => StaleIsBounded
    BY DEF StaleInv
  <1> QED
    BY <1>1, TypeInit, TypeStep, StaleInit, StaleStep, PTL DEF Spec

(***************************************************************************)
(* parse_names                                                             *)
(***************************************************************************)
\* A set of naturals has a least element: the segments below its elements are finite sets.
LEMMA LeastElement ==
  ASSUME NEW S \in SUBSET Nat, S # {}
  PROVE  \E n \in S : \A m \in S : n <= m
<1>1. PICK top \in S : TRUE
  OBVIOUS
<1> DEFINE D == 0 .. top
           Segments == {s \in SUBSET D : \E m \in S : s = 0 .. m}
<1>2. IsFiniteSet(D)
  BY <1>1, FS_Interval
<1>3. IsWellFoundedOn(StrictSubsetOrdering(D), SUBSET D)
  <2> HIDE DEF D
  <2>1. SUBSET D = FiniteSubsetsOf(D)
    BY <1>2, FS_FiniteSubsetsOfFinite
  <2> QED BY <2>1, FS_StrictSubsetOrderingWellFounded
<1>4. Segments \subseteq SUBSET D /\ D \in Segments
  OBVIOUS
<1>5. PICK s \in Segments : \A t \in Segments : <<t, s>> \notin StrictSubsetOrdering(D)
  <2> HIDE DEF D, Segments
  <2> QED BY <1>3, <1>4, WFMin
<1>6. PICK n \in S : s = 0 .. n
  BY <1>5
<1>7. ASSUME NEW m \in S, m < n PROVE FALSE
  <2>1. 0 .. m \subseteq 0 .. n /\ 0 .. m # 0 .. n
    BY <1>7, n \in 0 .. n, n \notin 0 .. m
  <2>2. 0 .. m \in Segments
    BY <1>5, <1>6, <2>1
  <2> HIDE DEF D
  <2>3. <<0 .. m, s>> \in StrictSubsetOrdering(D)
    BY <1>5, <1>6, <2>1 DEF StrictSubsetOrdering
  <2> QED BY <1>5, <2>2, <2>3
<1> QED BY <1>7

\* The fold that parse_names is, over the positions of a segment.
Highest(u) == CHOOSE x \in u : \A y \in u : x >= y
Seen(names, p) ==
  IF Read[p] \in ToSet(names) \cup {Nothing} THEN names ELSE Append(names, Read[p])
Parses(g, s, positions) ==
  g = [u \in SUBSET positions |->
         IF u = {} THEN <<>> ELSE Seen(g[u \ {Highest(u)}], s[Highest(u)])]

\* parse_names folds over the positions of its segment, the last one first.
LEMMA ParseIsFold ==
  ASSUME NEW s
  PROVE  ParseNames(s) = (CHOOSE g : Parses(g, s, DOMAIN s))[DOMAIN s]
BY DEF ParseNames, FoldLeft, MapThenFoldSet, Parses, Seen, Highest, Max

\* A set of positions has the highest of them.
LEMMA HighestIs ==
  ASSUME NEW m \in Nat, NEW u \in SUBSET (1 .. m), m \in u
  PROVE  Highest(u) = m
<1>1. \A y \in u : m >= y
  OBVIOUS
<1>2. ASSUME NEW x \in u, \A y \in u : x >= y PROVE x = m
  BY <1>1, <1>2
<1> QED BY <1>1, <1>2 DEF Highest

\* The fold has a solution for a segment of any length.
LEMMA FoldExists ==
  ASSUME NEW s
  PROVE  \A m \in Nat : \E g : Parses(g, s, 1 .. m)
<1> DEFINE Bad == {m \in Nat : ~ \E g : Parses(g, s, 1 .. m)}
<1>1. ASSUME Bad # {} PROVE FALSE
  <2>1. PICK m \in Bad : \A i \in Bad : m <= i
    <3>1. Bad \in SUBSET Nat
      OBVIOUS
    <3> HIDE DEF Bad
    <3> QED BY <3>1, <1>1, LeastElement
  <2>2. CASE m = 0
    <3> DEFINE g == [u \in SUBSET (1 .. 0) |-> <<>>]
    <3>1. \A u \in SUBSET (1 .. 0) : u = {}
      OBVIOUS
    <3>2. g = [u \in SUBSET (1 .. 0) |->
                 IF u = {} THEN <<>> ELSE Seen(g[u \ {Highest(u)}], s[Highest(u)])]
      BY <3>1
    <3>3. Parses(g, s, 1 .. 0)
      <4> HIDE DEF g
      <4> QED BY <3>2 DEF Parses
    <3> QED BY <2>2, <3>3
  <2>3. CASE m > 0
    <3>1. m \in Nat /\ m - 1 \in Nat /\ m - 1 \notin Bad
      BY <2>1, <2>3
    <3>2. PICK g : Parses(g, s, 1 .. m - 1)
      BY <3>1
    <3> DEFINE h == [u \in SUBSET (1 .. m) |-> IF m \in u THEN Seen(g[u \ {m}], s[m]) ELSE g[u]]
    <3>3. ASSUME NEW u \in SUBSET (1 .. m)
          PROVE  h[u] = IF u = {} THEN <<>> ELSE Seen(h[u \ {Highest(u)}], s[Highest(u)])
      <4> DEFINE v == u \ {Highest(u)}
      <4>1. v \in SUBSET (1 .. m)
        OBVIOUS
      <4>2. CASE m \in u
        <5>1. Highest(u) = m
          BY <3>1, <4>2, HighestIs
        <5>2. h[u] = Seen(g[u \ {m}], s[m])
          BY <4>2
        <5>3. h[u \ {m}] = g[u \ {m}]
          OBVIOUS
        <5> HIDE DEF h
        <5> QED BY <4>2, <5>1, <5>2, <5>3
      <4>3. CASE m \notin u
        <5>1. u \in SUBSET (1 .. m - 1) /\ v \in SUBSET (1 .. m - 1) /\ m \notin v
          <6>1. \A x \in 1 .. m : x # m => x \in 1 .. m - 1
            BY <3>1
          <6>2. u \in SUBSET (1 .. m - 1)
            BY <4>3, <6>1
          <6> QED BY <4>3, <6>2
        <5>2. h[u] = g[u] /\ h[v] = g[v]
          BY <4>1, <4>3, <5>1
        <5>3. g[u] = IF u = {} THEN <<>> ELSE Seen(g[v], s[Highest(u)])
          BY <3>2, <5>1 DEF Parses
        <5> HIDE DEF h
        <5> QED BY <5>2, <5>3
      <4> QED BY <4>2, <4>3
    <3>4. Parses(h, s, 1 .. m)
      <4>1. h = [u \in SUBSET (1 .. m) |-> h[u]]
        OBVIOUS
      <4> HIDE DEF h
      <4> QED BY <3>3, <4>1 DEF Parses
    <3> QED BY <3>4
  <2> QED BY <2>1, <2>2, <2>3
<1> QED BY <1>1

\* parse_names goes through its segment from left to right.
LEMMA ParseGoesRight ==
  ASSUME NEW S, NEW s \in Seq(S)
  PROVE  \E f : /\ f[0] = <<>> /\ f[Len(s)] = ParseNames(s)
                /\ \A k \in 1 .. Len(s) : f[k] = Seen(f[k - 1], s[k])
<1> DEFINE n == Len(s)
           g == CHOOSE g : Parses(g, s, 1 .. n)
           f == [k \in 0 .. n |-> g[1 .. k]]
<1>1. n \in Nat /\ DOMAIN s = 1 .. n
  BY LenProperties
<1>2. Parses(g, s, 1 .. n)
  <2> HIDE DEF n
  <2>1. \E h : Parses(h, s, 1 .. n)
    BY <1>1, FoldExists
  <2> QED BY <2>1
<1>3. ParseNames(s) = g[1 .. n]
  <2> HIDE DEF n
  <2> QED BY <1>1, ParseIsFold
<1> HIDE DEF g, n
<1>4. f[0] = <<>>
  <2>1. 1 .. 0 = {} /\ 1 .. 0 \in SUBSET (1 .. n)
    OBVIOUS
  <2>2. g[{}] = <<>>
    BY <1>2, <2>1 DEF Parses
  <2> QED BY <1>1, <2>1, <2>2
<1>5. f[n] = ParseNames(s)
  BY <1>1, <1>3
<1>6. ASSUME NEW k \in 1 .. n PROVE f[k] = Seen(f[k - 1], s[k])
  <2>1. 1 .. k \in SUBSET (1 .. n) /\ 1 .. k # {} /\ k \in 1 .. k /\ k \in Nat
    BY <1>1
  <2>2. Highest(1 .. k) = k
    BY <2>1, HighestIs
  <2>3. (1 .. k) \ {k} = 1 .. k - 1
    BY <1>1
  <2>4. g[1 .. k] = Seen(g[1 .. k - 1], s[k])
    BY <1>2, <2>1, <2>2, <2>3 DEF Parses
  <2> QED BY <1>1, <2>4
<1> HIDE DEF f
<1> QED BY <1>4, <1>5, <1>6 DEF n

Distinct(q) == \A i, j \in 1 .. Len(q) : q[i] = q[j] => i = j

\* parse_names has each name of the segment once, and nothing else.
LEMMA ParsedNames ==
  ASSUME NEW s \in Seq(Parts)
  PROVE  /\ ParseNames(s) \in Seq(Names) /\ Len(ParseNames(s)) <= Len(s)
         /\ Distinct(ParseNames(s))
         /\ ToSet(ParseNames(s)) = {Read[s[k]] : k \in 1 .. Len(s)} \ {Nothing}
<1> DEFINE n == Len(s)
           Upto(k) == {Read[s[i]] : i \in 1 .. k} \ {Nothing}
<1>1. n \in Nat /\ \A k \in 1 .. n : s[k] \in Parts
  BY LenProperties, ElementOfSeq
<1>2. PICK f : /\ f[0] = <<>> /\ f[n] = ParseNames(s)
               /\ \A k \in 1 .. n : f[k] = Seen(f[k - 1], s[k])
  BY ParseGoesRight
<1> HIDE DEF n
<1> DEFINE Good(k) == /\ f[k] \in Seq(Names) /\ Len(f[k]) <= k /\ Distinct(f[k])
                      /\ ToSet(f[k]) = Upto(k)
           Bad == {k \in 0 .. n : ~Good(k)}
<1>3. ASSUME Bad # {} PROVE FALSE
  <2>1. PICK k \in Bad : \A i \in Bad : k <= i
    <3>1. Bad \in SUBSET Nat
      BY <1>1
    <3> HIDE DEF Bad
    <3> QED BY <3>1, <1>3, LeastElement
  <2>2. Good(0)
    <3>1. Upto(0) = {}
      OBVIOUS
    <3> QED BY <1>2, <3>1 DEF Distinct, ToSet
  <2>3. CASE k > 0
    <3> DEFINE q == f[k - 1]
               x == Read[s[k]]
    <3>1. k \in 1 .. n /\ k - 1 \in 0 .. n /\ k - 1 \notin Bad
      <4>1. k \in 0 .. n
        BY <2>1
      <4>2. k \in 1 .. n /\ k - 1 \in 0 .. n /\ k - 1 < k
        BY <1>1, <2>3, <4>1
      <4> HIDE DEF Bad
      <4> QED BY <2>1, <4>1, <4>2
    <3>2. Good(k - 1)
      BY <3>1
    <3>3. f[k] = IF x \in ToSet(q) \cup {Nothing} THEN q ELSE Append(q, x)
      BY <1>2, <3>1 DEF Seen
    <3>4. Upto(k) = Upto(k - 1) \cup ({x} \ {Nothing})
      <4>1. 1 .. k = (1 .. k - 1) \cup {k}
        BY <1>1, <3>1
      <4> QED BY <4>1
    <3>5. x \in Names \cup {Nothing}
      BY <1>1, <3>1, PartsAssumption
    <3>6. q \in Seq(Names) /\ Len(q) <= k - 1 /\ Distinct(q) /\ ToSet(q) = Upto(k - 1)
      BY <3>2
    <3> HIDE DEF q, x, Upto
    <3>7. CASE x \in ToSet(q) \cup {Nothing}
      <4>1. f[k] = q /\ Upto(k) = Upto(k - 1)
        <5>1. x = Nothing \/ x \in Upto(k - 1)
          BY <3>6, <3>7
        <5> QED BY <3>3, <3>4, <3>7, <5>1
      <4>2. Len(q) <= k
        BY <1>1, <3>1, <3>6, LenProperties
      <4> QED BY <3>6, <4>1, <4>2, <2>1
    <3>8. CASE x \notin ToSet(q) \cup {Nothing}
      <4>1. x \in Names /\ f[k] = Append(q, x) /\ Len(q) \in Nat
        BY <3>3, <3>5, <3>6, <3>8, LenProperties
      <4>2. /\ Append(q, x) \in Seq(Names) /\ Len(Append(q, x)) = Len(q) + 1
            /\ \A i \in 1 .. Len(q) : Append(q, x)[i] = q[i]
            /\ Append(q, x)[Len(q) + 1] = x
        BY <3>6, <4>1, AppendProperties
      <4>3. ToSet(q) = {q[i] : i \in 1 .. Len(q)}
        BY <3>6 DEF ToSet
      <4>4. ToSet(Append(q, x)) = {Append(q, x)[i] : i \in 1 .. Len(q) + 1}
        BY <4>2 DEF ToSet
      <4> DEFINE r == Append(q, x)
      <4> HIDE DEF r
      <4>5. r \in Seq(Names) /\ Len(r) = Len(q) + 1 /\ r[Len(q) + 1] = x
            /\ (\A i \in 1 .. Len(q) : r[i] = q[i]) /\ f[k] = r
            /\ ToSet(r) = {r[i] : i \in 1 .. Len(q) + 1}
        BY <4>1, <4>2, <4>4 DEF r
      <4>6. ToSet(r) = ToSet(q) \cup {x}
        BY <4>1, <4>3, <4>5
      <4>7. Distinct(r)
        <5> SUFFICES ASSUME NEW i \in 1 .. Len(r), NEW j \in 1 .. Len(r), r[i] = r[j] PROVE i = j
          BY DEF Distinct
        <5>1. CASE i \in 1 .. Len(q) /\ j \in 1 .. Len(q)
          BY <3>6, <4>5, <5>1 DEF Distinct
        <5>2. CASE i = Len(q) + 1 /\ j \in 1 .. Len(q)
          BY <3>8, <4>3, <4>5, <5>2
        <5>3. CASE j = Len(q) + 1 /\ i \in 1 .. Len(q)
          BY <3>8, <4>3, <4>5, <5>3
        <5> QED BY <4>1, <4>5, <5>1, <5>2, <5>3
      <4>8. Len(r) <= k
        BY <1>1, <3>1, <3>6, <4>1, <4>5
      <4>9. ToSet(r) = Upto(k)
        BY <3>4, <3>6, <3>8, <4>6
      <4> QED BY <4>5, <4>7, <4>8, <4>9, <2>1
    <3> QED BY <3>7, <3>8
  <2> QED BY <1>1, <2>1, <2>2, <2>3
<1>4. Good(n)
  <2>1. Bad = {}
    <3> HIDE DEF Bad
    <3> QED BY <1>3
  <2>2. \A k \in 0 .. n : Good(k)
    <3> HIDE DEF Good
    <3> QED BY <2>1
  <2>3. n \in 0 .. n
    BY <1>1
  <2> HIDE DEF Good
  <2> QED BY <2>2, <2>3
<1> QED BY <1>2, <1>4 DEF n

\* The parts written for distinct names read as these names.
LEMMA WrittenNamesParse ==
  ASSUME NEW q \in Seq(Names), Distinct(q), NEW s, s = [k \in DOMAIN q |-> Write[q[k]]]
  PROVE  s \in Seq(Parts) /\ Len(s) = Len(q) /\ ParseNames(s) = q
<1> DEFINE n == Len(q)
<1>1. n \in Nat /\ DOMAIN q = 1 .. n /\ \A k \in 1 .. n : q[k] \in Names
  BY LenProperties, ElementOfSeq
<1>2. s \in Seq(Parts) /\ Len(s) = n
  <2>1. \A k \in 1 .. n : Write[q[k]] \in Parts
    BY <1>1, PartsAssumption
  <2> HIDE DEF n
  <2> QED BY <1>1, <2>1
<1>3. \A k \in 1 .. n : Read[s[k]] = q[k] /\ q[k] # Nothing
  BY <1>1, PartsAssumption
<1>4. PICK f : /\ f[0] = <<>> /\ f[n] = ParseNames(s)
               /\ \A k \in 1 .. n : f[k] = Seen(f[k - 1], s[k])
  <2> HIDE DEF n
  <2>1. s \in Seq(Parts)
    BY <1>2
  <2>2. \E f : /\ f[0] = <<>> /\ f[Len(s)] = ParseNames(s)
                /\ \A k \in 1 .. Len(s) : f[k] = Seen(f[k - 1], s[k])
    BY <2>1, ParseGoesRight
  <2> QED BY <1>2, <2>2
<1> HIDE DEF n
<1> DEFINE Good(k) == /\ f[k] \in Seq(Names) /\ Len(f[k]) = k
                      /\ \A i \in 1 .. k : f[k][i] = q[i]
           Bad == {k \in 0 .. n : ~Good(k)}
<1>5. ASSUME Bad # {} PROVE FALSE
  <2>1. PICK k \in Bad : \A i \in Bad : k <= i
    <3>1. Bad \in SUBSET Nat
      BY <1>1
    <3> HIDE DEF Bad
    <3> QED BY <3>1, <1>5, LeastElement
  <2>2. Good(0)
    BY <1>4
  <2>3. CASE k > 0
    <3> DEFINE r == f[k - 1]
               x == q[k]
    <3>1. k \in 1 .. n /\ k - 1 \in 0 .. n /\ k - 1 \notin Bad
      <4>1. k \in 0 .. n
        BY <2>1
      <4>2. k \in 1 .. n /\ k - 1 \in 0 .. n /\ k - 1 < k
        BY <1>1, <2>3, <4>1
      <4> HIDE DEF Bad
      <4> QED BY <2>1, <4>1, <4>2
    <3>2. r \in Seq(Names) /\ Len(r) = k - 1 /\ \A i \in 1 .. k - 1 : r[i] = q[i]
      BY <3>1
    <3>3. x \in Names /\ x # Nothing
      BY <1>1, <1>3, <3>1
    <3>4. f[k] = IF x \in ToSet(r) \cup {Nothing} THEN r ELSE Append(r, x)
      BY <1>3, <1>4, <3>1 DEF Seen
    <3>5. x \notin ToSet(r)
      <4>1. ToSet(r) = {r[i] : i \in 1 .. k - 1}
        BY <3>2 DEF ToSet
      <4>2. \A i \in 1 .. k - 1 : q[i] # q[k]
        BY <1>1, <3>1 DEF Distinct, n
      <4> QED BY <3>2, <4>1, <4>2
    <3>6. f[k] = Append(r, x)
      BY <3>3, <3>4, <3>5
    <3>7. /\ Append(r, x) \in Seq(Names) /\ Len(Append(r, x)) = Len(r) + 1
          /\ \A i \in 1 .. Len(r) : Append(r, x)[i] = r[i]
          /\ Append(r, x)[Len(r) + 1] = x
      BY <3>2, <3>3, AppendProperties
    <3> HIDE DEF r
    <3>8. Good(k)
      <4>1. f[k] \in Seq(Names) /\ Len(f[k]) = k
        BY <1>1, <3>1, <3>2, <3>6, <3>7
      <4>2. ASSUME NEW i \in 1 .. k PROVE f[k][i] = q[i]
        <5>1. CASE i = k
          BY <1>1, <3>1, <3>2, <3>6, <3>7, <5>1
        <5>2. CASE i \in 1 .. k - 1
          BY <1>1, <3>1, <3>2, <3>6, <3>7, <5>2
        <5> QED BY <1>1, <3>1, <5>1, <5>2
      <4> QED BY <4>1, <4>2
    <3> QED BY <3>8, <2>1
  <2> QED BY <1>1, <2>1, <2>2, <2>3
<1>6. Good(n)
  <2>1. Bad = {}
    <3> HIDE DEF Bad
    <3> QED BY <1>5
  <2>2. \A k \in 0 .. n : Good(k)
    <3> HIDE DEF Good
    <3> QED BY <2>1
  <2>3. n \in 0 .. n
    BY <1>1
  <2> HIDE DEF Good
  <2> QED BY <2>2, <2>3
<1>7. ParseNames(s) = q
  <2>1. f[n] \in Seq(Names) /\ q \in Seq(Names) /\ Len(f[n]) = Len(q)
        /\ \A i \in 1 .. Len(q) : f[n][i] = q[i]
    BY <1>6 DEF n
  <2>2. f[n] = q
    BY <2>1, SeqEqual
  <2> QED BY <1>4, <2>2
<1> QED BY <1>2, <1>7 DEF n

\* The page's names: a prefix of the parsed ones, as long as the cap allows.
LEMMA PastedNames ==
  ASSUME NEW s \in Seq(Parts)
  PROVE  /\ Pasted(s) \in Seq(Names) /\ Distinct(Pasted(s))
         /\ Len(Pasted(s)) = Capped(Len(ParseNames(s)))
         /\ Len(Pasted(s)) <= MaxCharacters /\ Len(Pasted(s)) <= Len(ParseNames(s))
         /\ IsPrefix(Pasted(s), ParseNames(s))
         /\ \A k \in 1 .. Len(Pasted(s)) : Pasted(s)[k] = ParseNames(s)[k]
<1> DEFINE t == ParseNames(s)
           c == Capped(Len(t))
           q == SubSeq(t, 1, c)
<1>1. t \in Seq(Names) /\ Distinct(t)
  BY ParsedNames
<1> HIDE DEF t
<1>2. Len(t) \in Nat /\ \A k \in 1 .. Len(t) : t[k] \in Names
  BY <1>1, LenProperties, ElementOfSeq
<1>3. c \in Nat /\ c <= Len(t) /\ c <= MaxCharacters
  BY <1>2, MaxCharactersAssumption DEF Capped
<1> HIDE DEF c
<1>4. /\ q \in Seq(Names) /\ Len(q) = IF 1 <= c THEN c - 1 + 1 ELSE 0
      /\ \A k \in 1 .. c - 1 + 1 : q[k] = t[1 + k - 1]
  <2>1. \A k \in 1 .. c : t[k] \in Names
    BY <1>2, <1>3
  <2> QED BY <1>3, <2>1, SubSeqProperties
<1> HIDE DEF q
<1>5. Len(q) = c /\ \A k \in 1 .. c : q[k] = t[k]
  <2>1. Len(q) = c
    BY <1>3, <1>4
  <2>2. ASSUME NEW k \in 1 .. c PROVE q[k] = t[k]
    <3>1. k \in 1 .. c - 1 + 1 /\ 1 + k - 1 = k
      BY <1>3
    <3> QED BY <1>4, <3>1
  <2> QED BY <2>1, <2>2
<1>6. Distinct(q)
  BY <1>1, <1>2, <1>3, <1>5 DEF Distinct
<1>7. IsPrefix(q, t)
  <2>1. SubSeq(q, 1, c) = q
    <3>1. /\ SubSeq(q, 1, c) \in Seq(Names) /\ Len(SubSeq(q, 1, c)) = IF 1 <= c THEN c - 1 + 1 ELSE 0
          /\ \A k \in 1 .. c - 1 + 1 : SubSeq(q, 1, c)[k] = q[1 + k - 1]
      <4>1. \A k \in 1 .. c : q[k] \in Names
        BY <1>4, <1>5, ElementOfSeq
      <4> QED BY <1>3, <4>1, SubSeqProperties
    <3> DEFINE r == SubSeq(q, 1, c)
    <3> HIDE DEF r
    <3>2. r \in Seq(Names) /\ Len(r) = c
      BY <1>3, <3>1 DEF r
    <3>3. ASSUME NEW k \in 1 .. c PROVE r[k] = q[k]
      <4>1. k \in 1 .. c - 1 + 1 /\ 1 + k - 1 = k
        BY <1>3
      <4> QED BY <3>1, <4>1 DEF r
    <3>4. r = q
      BY <1>4, <1>5, <3>2, <3>3, SeqEqual
    <3> QED BY <3>4 DEF r
  <2>2. SubSeq(t, 1, c) = q
    BY DEF q
  <2> QED BY <1>3, <1>5, <2>1, <2>2 DEF IsPrefix
<1>8. Pasted(s) = q
  BY DEF Pasted, q, c, t
<1> QED BY <1>3, <1>4, <1>5, <1>6, <1>7, <1>8 DEF c, t

\* A list no longer than the cap is pasted whole.
LEMMA ShortIsPastedWhole ==
  ASSUME NEW s \in Seq(Parts), Len(ParseNames(s)) <= MaxCharacters
  PROVE  Pasted(s) = ParseNames(s)
<1>1. ParseNames(s) \in Seq(Names) /\ Pasted(s) \in Seq(Names)
  BY ParsedNames, PastedNames
<1>2. Len(ParseNames(s)) \in Nat
  BY <1>1, LenProperties
<1>3. Len(Pasted(s)) = Len(ParseNames(s))
  BY <1>2, PastedNames, MaxCharactersAssumption DEF Capped
<1>4. \A k \in 1 .. Len(Pasted(s)) : Pasted(s)[k] = ParseNames(s)[k]
  BY PastedNames
<1> QED BY <1>1, <1>3, <1>4, SeqEqual

\* An empty segment names nobody.
LEMMA NobodyIsPasted ==
  /\ <<>> \in Seq(Parts) /\ ParseNames(<<>>) = <<>> /\ Pasted(<<>>) = <<>>
  /\ Dropped(<<>>) = 0
<1>1. <<>> \in Seq(Parts) /\ Len(<<>>) = 0
  BY EmptySeq
<1>2. ParseNames(<<>>) \in Seq(Names) /\ Len(ParseNames(<<>>)) <= 0
  BY <1>1, ParsedNames
<1>3. Len(ParseNames(<<>>)) \in Nat
  BY <1>2, LenProperties
<1>4. ParseNames(<<>>) = <<>>
  BY <1>2, <1>3, EmptySeq
<1>5. Pasted(<<>>) = <<>>
  <2>1. Len(ParseNames(<<>>)) <= MaxCharacters
    BY <1>1, <1>4, MaxCharactersAssumption
  <2> QED BY <1>1, <1>4, <2>1, ShortIsPastedWhole
<1> QED BY <1>1, <1>4, <1>5 DEF Dropped

\* scan_path writes a list that is distinct and no longer than the cap so that the page is
\* about this list.
LEMMA ScanPathKeepsNames ==
  ASSUME NEW q \in Seq(Names), Distinct(q), Len(q) <= MaxCharacters, NEW window, NEW filters
  PROVE  LET url == ScanPath(q, window, filters) IN
         /\ url.segment \in Seq(Parts) /\ Len(url.segment) = Len(q)
         /\ ParseNames(url.segment) = q /\ Pasted(url.segment) = q /\ Dropped(url.segment) = 0
<1> DEFINE url == ScanPath(q, window, filters)
<1>0. Len(q) \in Nat
  BY LenProperties
<1>1. CASE q = <<>>
  <2>1. url.segment = <<>>
    BY <1>1 DEF ScanPath, Url
  <2> QED BY <1>1, <2>1, NobodyIsPasted
<1>2. CASE q # <<>>
  <2>1. url.segment = [k \in DOMAIN q |-> Write[q[k]]]
    BY <1>2 DEF ScanPath, Url
  <2>2. url.segment \in Seq(Parts) /\ Len(url.segment) = Len(q) /\ ParseNames(url.segment) = q
    <3> HIDE DEF url
    <3> QED BY <2>1, WrittenNamesParse
  <2> HIDE DEF url
  <2>3. Pasted(url.segment) = q
    BY <2>2, ShortIsPastedWhole
  <2>4. Dropped(url.segment) = 0
    BY <1>0, <2>2, <2>3 DEF Dropped
  <2> QED BY <2>2, <2>3, <2>4 DEF url
<1> QED BY <1>1, <1>2

\* What scan_path and the slash redirect lead to is not redirected again.
LEMMA UrlIsFinal ==
  ASSUME NEW segment, NEW window, NEW filters
  PROVE  Redirects(Url(segment, window, filters)) = {}
BY DEF Redirects, RouteOf, IsLegacy, Url

\* So for scan_path, the target of the legacy redirect.
LEMMA ScanPathIsFinal ==
  ASSUME NEW names, NEW window, NEW filters
  PROVE  Redirects(ScanPath(names, window, filters)) = {}
BY UrlIsFinal DEF ScanPath

(***************************************************************************)
(* What becomes of a link                                                  *)
(***************************************************************************)
\* The URL a link has led to is the link itself or where it is redirected to, once.
LedTo(r) ==
  \/ r.hops = 0 /\ r.url = r.link
  \/ r.hops = 1 /\ RouteOf(r.link) = "slash" /\ r.url = SlashTarget(r.link)
  \/ /\ r.hops = 1 /\ RouteOf(r.link) = "scan" /\ IsLegacy(r.link)
     /\ r.url = LegacyTarget(r.link)

LinkOf(r) ==
  /\ r.pc # "gone" => r.link \in Links /\ LedTo(r)
  /\ r.pc \notin {"get", "gone"} => RouteOf(r.url) = "scan" /\ Redirects(r.url) = {}

LinkInv == LinkOf(req)

\* The names the legacy redirect moves are a list of parts, whoever is asked for.
LegacyNames(link) == IF link.asked \in {Absent, <<>>} THEN link.segment ELSE link.asked

\* A link names its pilots by a list of parts, in either scheme.
LEMMA LegacyNamesTyped ==
  ASSUME NEW link \in Links
  PROVE  link.segment \in Seq(Parts) /\ LegacyNames(link) \in Seq(Parts)
BY LinksAssumption DEF LegacyNames

\* The segment that a link leads to is a list of parts.
LEMMA SegmentTyped ==
  ASSUME NEW r, r.link \in Links, LedTo(r)
  PROVE  r.url.segment \in Seq(Parts)
<1> DEFINE link == r.link
<1>1. link.segment \in Seq(Parts) /\ LegacyNames(link) \in Seq(Parts)
  BY LegacyNamesTyped
<1>2. SlashTarget(link).segment = link.segment
  BY DEF SlashTarget, Url
<1>3. LegacyTarget(link).segment \in Seq(Parts)
  <2> DEFINE q == Pasted(LegacyNames(link))
  <2>1. q \in Seq(Names) /\ Distinct(q) /\ Len(q) <= MaxCharacters
    BY <1>1, PastedNames
  <2> HIDE DEF q
  <2>2. LegacyTarget(link) = ScanPath(q,
          IF link.askedWindow \in Windows THEN link.askedWindow ELSE DefaultWindow, link.filters)
    BY DEF LegacyTarget, LegacyNames, q
  <2> QED BY <2>1, <2>2, ScanPathKeepsNames
<1> QED BY <1>1, <1>2, <1>3 DEF LedTo

\* No link is followed at first.
LEMMA LinkInit ==
  Init => LinkInv
BY GoneTyped DEF Init, LinkInv, LinkOf

\* A step follows a link to where it is redirected, or leaves the URL as it is.
LEMMA LinkStep ==
  ASSUME TypeInv, LinkInv, [Next]_vars
  PROVE  LinkInv'
<1>1. IsRequest(req)
  BY DEF TypeInv
<1>2. req' = req => LinkInv'
  BY DEF LinkInv
<1>3. req'.pc = "gone" => LinkInv'
  BY DEF LinkInv, LinkOf
<1>4. /\ req.pc \notin {"get", "gone"} /\ req'.link = req.link /\ req'.url = req.url
      /\ req'.hops = req.hops
      => LinkInv'
  BY DEF LinkInv, LinkOf, LedTo
<1>5. ASSUME NEW link \in Links, Open(link) PROVE LinkInv'
  <2>1. req'.pc = "get" /\ req'.link = link /\ req'.url = link /\ req'.hops = 0
    BY <1>5 DEF Open, Following
  <2> QED BY <2>1 DEF LinkInv, LinkOf, LedTo
<1>6. CASE FollowRedirect
  <2>1. PICK url \in Redirects(req.url) : req' = Following(req.link, url, req.hops + 1)
    BY <1>6 DEF FollowRedirect
  <2>2. req'.pc = "get" /\ req'.link = req.link /\ req'.url = url /\ req'.hops = req.hops + 1
    BY <2>1 DEF Following
  <2>3. req.pc = "get" /\ req.link \in Links /\ LedTo(req)
    BY <1>6 DEF FollowRedirect, LinkInv, LinkOf
  <2>4. Redirects(SlashTarget(req.link)) = {} /\ Redirects(LegacyTarget(req.link)) = {}
    BY UrlIsFinal, ScanPathIsFinal DEF SlashTarget, LegacyTarget
  <2>5. req.hops = 0 /\ req.url = req.link
    BY <2>1, <2>3, <2>4 DEF LedTo
  <2>6. \/ RouteOf(req.link) = "slash" /\ url = SlashTarget(req.link)
        \/ RouteOf(req.link) = "scan" /\ IsLegacy(req.link) /\ url = LegacyTarget(req.link)
    BY <2>1, <2>5 DEF Redirects
  <2> QED BY <2>2, <2>3, <2>5, <2>6 DEF LinkInv, LinkOf, LedTo
<1>7. CASE NoScan \/ AskRaised \/ RenderFails
  BY <1>3, <1>7, GoneTyped DEF NoScan, AskRaised, RenderFails
<1>8. CASE ReadCache
  <2>1. /\ req.pc = "get" /\ RouteOf(req.url) = "scan" /\ Redirects(req.url) = {}
        /\ req' = [req EXCEPT !.pc = IF Missing(req) = {} THEN "resolved" ELSE "ask",
                              !.todo = Missing(req), !.found = Hits(req)]
    BY <1>8 DEF ReadCache
  <2>2. req'.link = req.link /\ req'.url = req.url /\ req'.hops = req.hops
    BY <1>1, <2>1 DEF IsRequest
  <2> QED BY <2>1, <2>2 DEF LinkInv, LinkOf, LedTo
<1>9. CASE AskAnswered
  <2>1. req'.link = req.link /\ req'.url = req.url /\ req'.hops = req.hops
    BY <1>1, <1>9 DEF AskAnswered, IsRequest
  <2> QED BY <1>4, <1>9, <2>1 DEF AskAnswered
<1>10. CASE AskRefused
  <2>1. req'.link = req.link /\ req'.url = req.url /\ req'.hops = req.hops
    BY <1>1, <1>10 DEF AskRefused, IsRequest
  <2> QED BY <1>4, <1>10, <2>1 DEF AskRefused
<1>11. CASE Store
  <2>1. req'.link = req.link /\ req'.url = req.url /\ req'.hops = req.hops
    BY <1>1, <1>11 DEF Store, IsRequest
  <2> QED BY <1>4, <1>11, <2>1 DEF Store
<1>12. CASE Render
  <2>1. req'.link = req.link /\ req'.url = req.url /\ req'.hops = req.hops
    BY <1>1, <1>12 DEF Render, IsRequest
  <2> QED BY <1>4, <1>12, <2>1 DEF Render
<1>13. ASSUME \/ \E f \in Elsewhere : ResolveElsewhere(f)
              \/ \E f \in Taken : ChangeHands(f)
              \/ Tick \/ UNCHANGED vars
       PROVE  LinkInv'
  BY <1>2, <1>13 DEF ResolveElsewhere, ChangeHands, Tick, vars
<1> QED
  BY <1>5, <1>6, <1>7, <1>8, <1>9, <1>10, <1>11, <1>12, <1>13 DEF Next, Resolve

\* A route to a page of pilots checks the window.
LEMMA WindowOfScan ==
  ASSUME NEW url, RouteOf(url) = "scan", url.segment # <<>>
  PROVE  ToSet(url.segment) \subseteq Legal /\ url.window \in Windows \cup {Absent} /\ ~url.slash
BY DEF RouteOf, MatchesNames

\* What a link says is on its page, for each of the three ways there.
LEMMA LinkIsKept ==
  LinkInv => LinkKeepsScan
<1> DEFINE link == req.link
           legacy == IsLegacy(link)
           asked == IF legacy THEN link.asked ELSE link.segment
           names == ParseNames(asked)
           window == IF legacy THEN link.askedWindow ELSE link.window
           Kept == /\ req.hops <= 1
                   /\ IsPrefix(PageNames(req), names)
                   /\ Len(PageNames(req)) = Capped(Len(names))
                   /\ ~legacy => Len(PageNames(req)) + Dropped(req.url.segment) = Len(names)
                   /\ names # <<>> =>
                        WindowOf(req.url) = IF window \in Windows THEN window ELSE DefaultWindow
                   /\ req.url.filters = IF link.slash THEN {} ELSE link.filters
<1>1. SUFFICES ASSUME LinkInv, req.pc = "done",
                      legacy => link.segment = <<>> /\ link.asked \notin {Absent, <<>>}
               PROVE  Kept
  BY DEF LinkKeepsScan
<1>2. /\ link \in Links /\ LedTo(req) /\ RouteOf(req.url) = "scan" /\ Redirects(req.url) = {}
  BY <1>1 DEF LinkInv, LinkOf
<1>3. /\ link.segment \in Seq(Parts) /\ link.slash \in BOOLEAN
      /\ link.slash => link.segment # <<>>
      /\ link.asked # Absent => link.asked \in Seq(Parts)
  BY <1>2, LinksAssumption
<1>4. asked \in Seq(Parts)
  BY <1>1, <1>3
<1>5. /\ IsPrefix(Pasted(asked), names) /\ Len(Pasted(asked)) = Capped(Len(names))
      /\ Len(Pasted(asked)) <= MaxCharacters /\ Distinct(Pasted(asked))
      /\ Pasted(asked) \in Seq(Names) /\ names \in Seq(Names)
  BY <1>4, PastedNames, ParsedNames
<1>6. Len(Pasted(asked)) \in Nat /\ Len(names) \in Nat
  BY <1>5, LenProperties
<1>7. Len(Pasted(asked)) + Dropped(asked) = Len(names)
  BY <1>6 DEF Dropped
<1>8. asked = <<>> => names = <<>>
  BY NobodyIsPasted
<1>9. CASE req.hops = 0 /\ req.url = link
  <2>1. ~legacy /\ asked = link.segment /\ window = link.window
    BY <1>2, <1>9 DEF Redirects
  <2>2. ~link.slash
    BY <1>2, <1>3, <1>9, WindowOfScan
  <2>3. names # <<>> => link.window \in Windows \cup {Absent}
    BY <1>2, <1>8, <1>9, <2>1, WindowOfScan
  <2>4. PageNames(req) = Pasted(asked) /\ Dropped(req.url.segment) = Dropped(asked)
    BY <1>9, <2>1 DEF PageNames
  <2> HIDE DEF names, asked, legacy, window
  <2>5. names # <<>> => WindowOf(req.url) = IF window \in Windows THEN window ELSE DefaultWindow
    BY <1>9, <2>1, <2>3, WindowsAssumption DEF WindowOf
  <2> QED BY <1>5, <1>7, <1>9, <2>1, <2>2, <2>4, <2>5
<1>10. CASE req.hops = 1 /\ RouteOf(link) = "slash" /\ req.url = SlashTarget(link)
  <2>1. link.segment # <<>> /\ link.slash /\ link.window \in Windows \cup {Absent}
    BY <1>10 DEF RouteOf, MatchesNames
  <2>2. ~legacy /\ asked = link.segment /\ window = link.window
    BY <1>1, <2>1
  <2>3. req.url.segment = asked /\ req.url.window = window /\ req.url.filters = {}
    BY <1>10, <2>2 DEF SlashTarget, Url
  <2>4. PageNames(req) = Pasted(asked) /\ Dropped(req.url.segment) = Dropped(asked)
    BY <2>3 DEF PageNames
  <2> HIDE DEF names, asked, legacy, window
  <2>5. WindowOf(req.url) = IF window \in Windows THEN window ELSE DefaultWindow
    BY <2>1, <2>2, <2>3, WindowsAssumption DEF WindowOf
  <2> QED BY <1>5, <1>7, <1>10, <2>1, <2>2, <2>3, <2>4, <2>5
<1>11. CASE req.hops = 1 /\ legacy /\ req.url = LegacyTarget(link)
  <2> DEFINE q == Pasted(asked)
             moved == IF link.askedWindow \in Windows THEN link.askedWindow ELSE DefaultWindow
  <2>1. /\ link.segment = <<>> /\ link.asked \notin {Absent, <<>>} /\ asked = link.asked
        /\ window = link.askedWindow /\ ~link.slash
    BY <1>1, <1>3, <1>11
  <2>2. req.url = ScanPath(q, moved, link.filters)
    BY <1>11, <2>1 DEF LegacyTarget
  <2> HIDE DEF q
  <2>3. q \in Seq(Names) /\ Distinct(q) /\ Len(q) <= MaxCharacters
    BY <1>5 DEF q
  <2>4. PageNames(req) = q
    BY <2>2, <2>3, ScanPathKeepsNames DEF PageNames
  <2>5. req.url.filters = link.filters
    BY <2>2 DEF ScanPath, Url
  <2>6. ASSUME names # <<>> PROVE q # <<>>
    <3>1. Len(names) > 0
      BY <1>5, <2>6, EmptySeq
    <3>2. Len(q) > 0
      BY <1>5, <1>6, <3>1, MaxCharactersAssumption DEF Capped, q
    <3> QED BY <3>2, EmptySeq
  <2>7. q # <<>> => WindowOf(req.url) = moved
    BY <2>2, WindowsAssumption DEF WindowOf, ScanPath, Url
  <2>8. moved = IF window \in Windows THEN window ELSE DefaultWindow
    BY <2>1
  <2> HIDE DEF names, asked, window, moved
  <2> QED BY <1>5, <1>11, <2>1, <2>4, <2>5, <2>6, <2>7, <2>8 DEF q
<1> QED BY <1>2, <1>9, <1>10, <1>11 DEF LedTo

\* LinkKeepsScan, for any links, names and cap: whatever a link is redirected through, the
\* page is about the pilots and the window the link names.
THEOREM LinksKeepTheirScan == Spec => []LinkKeepsScan
<1> QED BY TypeInit, TypeStep, LinkInit, LinkStep, LinkIsKept, PTL DEF Spec

(***************************************************************************)
(* Where canonicals lead                                                   *)
(***************************************************************************)
\* Nobody has a name that is not taken, and no entry says so.
TakenInv ==
  \A f \in Folds \ Taken : Holder(f) = Nobody /\ (Cached(f) => cache[f].id = Nobody)

\* Who is found has a name that some pilot has, and spellings of one name are found alike.
FoundOf(r) ==
  /\ \A n \in Names : r.found[n] # Nobody => Fold[n] \in Taken
  /\ \A n, m \in OnPage(r) : Fold[n] = Fold[m] =>
       /\ n \in r.todo <=> m \in r.todo
       /\ r.found[n] = r.found[m]

FoundInv == TakenInv /\ FoundOf(req)

\* A request that has asked for nothing has found nobody.
LEMMA NothingFound ==
  ASSUME NEW r, r.todo = {}, r.found = NoneFound
  PROVE  FoundOf(r)
BY DEF FoundOf, NoneFound, OnPage

\* Nothing is cached at first, and nobody has a name that is not taken.
LEMMA FoundInit ==
  Init => FoundInv
<1> SUFFICES ASSUME Init PROVE FoundInv
  OBVIOUS
<1>1. TakenInv
  BY DEF Init, TakenInv, Holder, Nobody, Cached, NoEntry
<1>2. FoundOf(req)
  BY NothingFound, GoneTyped DEF Init
<1> QED BY <1>1, <1>2 DEF FoundInv

\* Entries and answers go by the fold of a name, and only a name that is taken has one.
LEMMA FoundStep ==
  ASSUME TypeInv, FoundInv, [Next]_vars
  PROVE  FoundInv'
<1>1. TypeOK /\ IsRequest(req) /\ TakenInv /\ FoundOf(req)
  BY DEF TypeInv, FoundInv
<1>2. UNCHANGED <<esi, cache>> => TakenInv'
  BY <1>1 DEF TakenInv, Holder, Cached
<1>3. req' = req => FoundOf(req')
  BY <1>1
<1>4. req'.todo = {} /\ req'.found = NoneFound => FoundOf(req')
  BY NothingFound
<1>5. ASSUME NEW link \in Links, Open(link) PROVE FoundInv'
  BY <1>2, <1>4, <1>5, FollowingTyped DEF Open, FoundInv
<1>6. CASE FollowRedirect
  <2>1. PICK url \in Redirects(req.url) : req' = Following(req.link, url, req.hops + 1)
    BY <1>6 DEF FollowRedirect
  <2> QED
    BY <1>2, <1>4, <1>6, <2>1, FollowingTyped DEF FollowRedirect, FoundInv
<1>7. CASE NoScan \/ AskRaised \/ RenderFails
  BY <1>2, <1>4, <1>7, GoneTyped DEF NoScan, AskRaised, RenderFails, FoundInv
<1>8. CASE ReadCache
  <2>1. /\ req' = [req EXCEPT !.pc = IF Missing(req) = {} THEN "resolved" ELSE "ask",
                              !.todo = Missing(req), !.found = Hits(req)]
        /\ UNCHANGED <<esi, since, cache>>
    BY <1>8 DEF ReadCache
  <2>2. req'.url = req.url /\ req'.todo = Missing(req) /\ req'.found = Hits(req)
    BY <1>1, <2>1 DEF IsRequest
  <2>3. OnPage(req') = OnPage(req) /\ OnPage(req) \subseteq Names
    BY <2>2 DEF OnPage, PageNames
  <2>4. ASSUME NEW n \in Names, Hits(req)[n] # Nobody PROVE Fold[n] \in Taken
    <3>1. Cached(Fold[n]) /\ cache[Fold[n]].id # Nobody
      BY <2>4 DEF Hits, Missing
    <3> QED BY <1>1, <3>1, Basics DEF TakenInv
  <2>5. ASSUME NEW n \in OnPage(req), NEW m \in OnPage(req), Fold[n] = Fold[m]
        PROVE  (n \in Missing(req) <=> m \in Missing(req)) /\ Hits(req)[n] = Hits(req)[m]
    BY <2>3, <2>5 DEF Hits, Missing
  <2>6. FoundOf(req')
    BY <2>2, <2>3, <2>4, <2>5 DEF FoundOf
  <2> QED BY <1>2, <2>1, <2>6 DEF FoundInv
<1>9. CASE AskAnswered
  <2>1. /\ req'.url = req.url /\ req'.todo = req.todo /\ UNCHANGED <<esi, since, cache>>
        /\ req'.found = [n \in Names |-> IF n \in req.todo THEN AnswerFor(n) ELSE req.found[n]]
    BY <1>1, <1>9 DEF AskAnswered, IsRequest
  <2>2. OnPage(req') = OnPage(req) /\ OnPage(req) \subseteq Names
    BY <2>1 DEF OnPage, PageNames
  <2>3. ASSUME NEW n \in Names, AnswerFor(n) # Nobody PROVE Fold[n] \in Taken
    BY <1>1, <2>3, Basics DEF TakenInv, AnswerFor
  <2>4. ASSUME NEW n \in Names, req'.found[n] # Nobody PROVE Fold[n] \in Taken
    BY <1>1, <2>1, <2>3, <2>4 DEF FoundOf
  <2>5. ASSUME NEW n \in OnPage(req), NEW m \in OnPage(req), Fold[n] = Fold[m]
        PROVE  (n \in req.todo <=> m \in req.todo) /\ req'.found[n] = req'.found[m]
    BY <1>1, <2>1, <2>2, <2>5 DEF FoundOf, AnswerFor
  <2>6. FoundOf(req')
    BY <2>1, <2>2, <2>4, <2>5 DEF FoundOf
  <2> QED BY <1>2, <2>1, <2>6 DEF FoundInv
<1>10. CASE AskRefused
  <2>1. /\ req'.url = req.url /\ req'.todo = req.todo /\ req'.found = req.found
        /\ UNCHANGED <<esi, since, cache>>
    BY <1>1, <1>10 DEF AskRefused, IsRequest
  <2>2. FoundOf(req')
    BY <1>1, <2>1 DEF FoundOf, OnPage, PageNames
  <2> QED BY <1>2, <2>1, <2>2 DEF FoundInv
<1>11. CASE Store
  <2>1. /\ req'.url = req.url /\ req'.todo = req.todo /\ req'.found = req.found
        /\ UNCHANGED <<esi, since>>
    BY <1>1, <1>11 DEF Store, IsRequest
  <2>2. FoundOf(req')
    BY <1>1, <2>1 DEF FoundOf, OnPage, PageNames
  <2>3. ASSUME NEW f \in Folds \ Taken, Cached(f)' PROVE cache'[f].id = Nobody
    <3>1. CASE \E n \in Writes(req) : Fold[n] = f
      <4>1. PICK n \in req.todo : Fold[n] = f /\ cache'[f] = [id |-> req.found[n], left |-> TtlHit]
        BY <1>11, <3>1 DEF Store, Writes
      <4>2. n \in Names
        BY <1>1 DEF TypeOK, OnPage
      <4> QED BY <1>1, <4>1, <4>2 DEF FoundOf
    <3>2. CASE ~\E n \in Writes(req) : Fold[n] = f
      <4>1. cache'[f] = cache[f]
        BY <1>11, <3>2 DEF Store
      <4> QED BY <1>1, <2>3, <4>1 DEF TakenInv, Cached
    <3> QED BY <3>1, <3>2
  <2>4. TakenInv'
    BY <1>1, <2>1, <2>3 DEF TakenInv, Holder
  <2> QED BY <2>2, <2>4 DEF FoundInv
<1>12. CASE Render
  <2>1. /\ req'.url = req.url /\ req'.todo = {} /\ req'.found = req.found
        /\ UNCHANGED <<esi, since, cache>>
    BY <1>1, <1>12 DEF Render, IsRequest
  <2>2. FoundOf(req')
    BY <1>1, <2>1 DEF FoundOf, OnPage, PageNames
  <2> QED BY <1>2, <2>1, <2>2 DEF FoundInv
<1>13. ASSUME NEW g \in Elsewhere, ResolveElsewhere(g) PROVE FoundInv'
  <2>1. UNCHANGED <<esi, since, req>> /\ g \in Taken
    BY <1>13, LabelAssumption DEF ResolveElsewhere
  <2>2. ASSUME NEW f \in Folds \ Taken PROVE cache'[f] = cache[f]
    BY <1>1, <1>13, <2>1, <2>2 DEF ResolveElsewhere, TypeOK
  <2>3. TakenInv'
    BY <1>1, <2>1, <2>2 DEF TakenInv, Holder, Cached
  <2> QED BY <1>3, <2>1, <2>3 DEF FoundInv
<1>14. ASSUME NEW g \in Taken, ChangeHands(g) PROVE FoundInv'
  <2>1. UNCHANGED <<cache, req>>
    BY <1>14 DEF ChangeHands
  <2>2. ASSUME NEW f \in Folds \ Taken PROVE esi'[f] = esi[f]
    BY <1>1, <1>14, <2>2 DEF ChangeHands, TypeOK
  <2>3. TakenInv'
    BY <1>1, <2>1, <2>2 DEF TakenInv, Holder, Cached
  <2> QED BY <1>3, <2>1, <2>3 DEF FoundInv
<1>15. CASE Tick
  <2>1. UNCHANGED <<esi, req>>
    BY <1>15 DEF Tick
  <2>2. ASSUME NEW f \in Folds \ Taken, Cached(f)' PROVE Cached(f) /\ cache'[f].id = cache[f].id
    BY <1>1, <1>15, <2>2 DEF Tick, Cached, NoEntry, TypeOK
  <2>3. TakenInv'
    BY <1>1, <2>1, <2>2 DEF TakenInv, Holder
  <2> QED BY <1>3, <2>1, <2>3 DEF FoundInv
<1>16. CASE UNCHANGED vars
  BY <1>2, <1>3, <1>16 DEF vars, FoundInv
<1> QED
  BY <1>5, <1>6, <1>7, <1>8, <1>9, <1>10, <1>11, <1>12, <1>13, <1>14, <1>15, <1>16
  DEF Next, Resolve

\* The names that a list of names is respelled to are as many.
LEMMA Respelled ==
  ASSUME NEW q \in Seq(Names), NEW spelled \in [Names -> Names]
  PROVE  LET s == [k \in DOMAIN q |-> spelled[q[k]]] IN
         /\ s \in Seq(Names) /\ Len(s) = Len(q)
         /\ \A k \in 1 .. Len(q) : q[k] \in Names /\ s[k] = spelled[q[k]]
<1> DEFINE n == Len(q)
<1>1. n \in Nat /\ DOMAIN q = 1 .. n /\ \A k \in 1 .. n : q[k] \in Names
  BY LenProperties, ElementOfSeq
<1> HIDE DEF n
<1> QED BY <1>1 DEF n

\* The elements of a list of names, by their places.
LEMMA NamesByPlace ==
  ASSUME NEW q \in Seq(Names)
  PROVE  ToSet(q) = {q[k] : k \in 1 .. Len(q)}
BY LenProperties DEF ToSet

\* The canonical of a page, and the canonical of the page it leads to: q are the names of the
\* page, s the same as they are spelled, p those of the first canonical, and t = p those of
\* the second.
LEMMA CanonicalsAgree ==
  TypeInv /\ LinkInv /\ FoundInv => CanonicalSettles
<1> DEFINE q == PageNames(req)
           window == WindowOf(req.url)
           s == [k \in DOMAIN q |-> Spelled[q[k]]]
           again == [n \in Names |-> IF Fold[n] \in Found(req) THEN Label[Fold[n]] ELSE n]
           first == Canonical(q, window, Spelled)
           p == Pasted(first.segment)
           t == [k \in DOMAIN p |-> again[p[k]]]
           second == Canonical(p, WindowOf(first), again)
           folds(names) == {Fold[n] : n \in ToSet(names)}
           Settles == /\ Redirects(first) = {}
                      /\ \/ RouteOf(first) = "scan"
                         \/ first.segment \in Fixed
                         \/ SegmentSize(first.segment) \notin SegmentSizes
                      /\ folds(p) = folds(q)
                      /\ q # <<>> => WindowOf(first) = window
                      /\ Pasted(second.segment) = p /\ second.window = first.window
<1>1. SUFFICES ASSUME TypeInv, LinkInv, FoundInv, req.pc = "done", req.labelled = Found(req)
               PROVE  Settles
  BY DEF CanonicalSettles
<1>2. /\ req.url.segment \in Seq(Parts) /\ RouteOf(req.url) = "scan"
      /\ FoundOf(req) /\ req.found \in [Names -> Ids]
  BY <1>1, SegmentTyped DEF LinkInv, LinkOf, FoundInv, TypeInv, TypeOK
<1>3. q \in Seq(Names) /\ Distinct(q) /\ Len(q) <= MaxCharacters /\ Len(q) \in Nat
  BY <1>2, PastedNames, LenProperties DEF PageNames
<1>4. q # <<>> => ToSet(req.url.segment) \subseteq Legal /\ req.url.window \in Windows \cup {Absent}
  <2>1. req.url.segment = <<>> => q = <<>>
    BY NobodyIsPasted DEF PageNames
  <2> QED BY <1>2, <2>1, WindowOfScan
<1>5. ASSUME NEW k \in 1 .. Len(q) PROVE q[k] \in OnPage(req) /\ Write[q[k]] \in Legal
  <2> DEFINE segment == req.url.segment
  <2>1. q[k] \in Names /\ q # <<>>
    BY <1>3, ElementOfSeq, EmptySeq
  <2>2. q[k] \in OnPage(req)
    BY <1>3, <2>1, NamesByPlace DEF OnPage
  <2>3. q[k] \in ToSet(ParseNames(segment))
    <3>1. /\ q[k] = ParseNames(segment)[k] /\ Len(q) <= Len(ParseNames(segment))
          /\ ParseNames(segment) \in Seq(Names)
      BY <1>2, PastedNames, ParsedNames DEF PageNames
    <3>2. Len(ParseNames(segment)) \in Nat
      BY <3>1, LenProperties
    <3>3. ToSet(ParseNames(segment)) = {ParseNames(segment)[i] : i \in 1 .. Len(ParseNames(segment))}
      BY <3>1, NamesByPlace
    <3>4. k \in 1 .. Len(ParseNames(segment))
      BY <1>3, <3>1, <3>2
    <3> QED BY <3>1, <3>3, <3>4
  <2>4. PICK i \in 1 .. Len(segment) : q[k] = Read[segment[i]]
    BY <1>2, <2>3, ParsedNames
  <2>5. segment[i] \in Legal
    <3>1. segment[i] \in ToSet(segment)
      BY <1>2, <2>4, LenProperties DEF ToSet
    <3> QED BY <1>4, <2>1, <3>1
  <2> QED BY <2>1, <2>2, <2>4, <2>5, PartsAssumption
<1>6. Spelled = [n \in Names |-> IF n \in OnPage(req) /\ req.found[n] # Nobody
                                 THEN Label[Fold[n]] ELSE n]
  BY <1>1 DEF Spelled, Found, OnPage
<1>7. Spelled \in [Names -> Names] /\ again \in [Names -> Names]
  BY <1>6, LabelAssumption, Basics
<1>8. \A n \in Names : Fold[Spelled[n]] = Fold[n]
  BY <1>6, LabelAssumption, Basics
<1>9. ASSUME NEW n \in OnPage(req) PROVE again[Spelled[n]] = Spelled[n]
  <2>1. n \in Names /\ Spelled[n] \in Names /\ Fold[Spelled[n]] = Fold[n]
    BY <1>7, <1>8 DEF OnPage
  <2>2. CASE req.found[n] # Nobody
    <3>1. Spelled[n] = Label[Fold[n]]
      BY <1>6, <2>1, <2>2
    <3> QED BY <2>1, <3>1
  <2>3. CASE req.found[n] = Nobody
    <3>1. Fold[n] \notin Found(req)
      BY <1>2, <2>3 DEF FoundOf, Found
    <3> QED BY <2>1, <3>1
  <2> QED BY <2>2, <2>3
<1>10. ASSUME NEW n \in OnPage(req), Write[n] \in Legal PROVE Write[Spelled[n]] \in Legal
  <2>1. n \in Names
    BY DEF OnPage
  <2>2. req.found[n] # Nobody => Fold[n] \in Taken
    BY <1>2, <2>1 DEF FoundOf
  <2> QED BY <1>6, <1>10, <2>1, <2>2, CharactersAssumption
<1> HIDE DEF q, window, s, p, t, again
<1>11. /\ s \in Seq(Names) /\ Len(s) = Len(q)
       /\ \A k \in 1 .. Len(q) : q[k] \in Names /\ s[k] = Spelled[q[k]]
  BY <1>3, <1>7, Respelled DEF s
<1>12. q = <<>> <=> s = <<>>
  BY <1>3, <1>11, EmptySeq
<1>13. first = ScanPath(s, window, {})
  BY DEF Canonical, s
<1>14. Redirects(first) = {}
  BY <1>13, ScanPathIsFinal
<1>15. q = <<>> => first.segment = <<>> /\ first.window = Absent
  BY <1>12, <1>13 DEF ScanPath, Url
<1>16. ASSUME q # <<>>
       PROVE  /\ first.segment = [k \in DOMAIN s |-> Write[s[k]]] /\ ~first.slash
              /\ first.window = IF window = DefaultWindow THEN Absent ELSE window
              /\ window \in Windows /\ WindowOf(first) = window
  <2>1. window \in Windows
    BY <1>4, <1>16, WindowsAssumption DEF WindowOf, window
  <2> QED BY <1>12, <1>13, <1>16, <2>1, WindowsAssumption DEF ScanPath, Url, WindowOf
<1>17. first.segment \in Seq(Parts) /\ Len(first.segment) = Len(q)
       /\ \A k \in 1 .. Len(q) : first.segment[k] = Write[s[k]]
  <2>1. CASE q = <<>>
    <3>1. first.segment = <<>>
      BY <1>15, <2>1
    <3>2. <<>> \in Seq(Parts) /\ Len(<<>>) = 0 /\ Len(q) = 0
      BY <2>1, EmptySeq
    <3> HIDE DEF first
    <3> QED BY <3>1, <3>2
  <2>2. CASE q # <<>>
    <3>1. DOMAIN s = 1 .. Len(q) /\ \A k \in 1 .. Len(q) : s[k] \in Names
      BY <1>11, LenProperties, ElementOfSeq
    <3>2. \A k \in 1 .. Len(q) : Write[s[k]] \in Parts
      BY <3>1, PartsAssumption
    <3> HIDE DEF first
    <3> QED BY <1>3, <1>16, <2>2, <3>1, <3>2
  <2> QED BY <2>1, <2>2
<1>18. \/ RouteOf(first) = "scan"
       \/ first.segment \in Fixed
       \/ SegmentSize(first.segment) \notin SegmentSizes
  <2>1. CASE q = <<>>
    BY <1>15, <2>1 DEF RouteOf
  <2>2. CASE q # <<>>
    <3>1. ToSet(first.segment) \subseteq Legal
      <4>1. \A k \in 1 .. Len(q) : first.segment[k] \in Legal
        BY <1>5, <1>10, <1>11, <1>17
      <4>2. DOMAIN first.segment = 1 .. Len(q)
        BY <1>17, LenProperties
      <4> HIDE DEF first
      <4> QED BY <4>1, <4>2 DEF ToSet
    <3>2. first.window \in Windows \cup {Absent} /\ ~first.slash
      BY <1>16, <2>2
    <3> HIDE DEF first
    <3> QED BY <3>1, <3>2 DEF RouteOf, MatchesNames
  <2> QED BY <2>1, <2>2
<1> HIDE DEF first
<1>19. /\ p \in Seq(Names) /\ Distinct(p) /\ Len(p) <= MaxCharacters
       /\ ToSet(p) = {s[k] : k \in 1 .. Len(q)}
  <2>1. Len(ParseNames(first.segment)) \in Nat /\ Len(ParseNames(first.segment)) <= Len(q)
    BY <1>17, ParsedNames, LenProperties
  <2>2. Len(ParseNames(first.segment)) <= MaxCharacters
    BY <1>3, <2>1, MaxCharactersAssumption
  <2>3. p = ParseNames(first.segment)
    BY <1>17, <2>2, ShortIsPastedWhole DEF p
  <2>4. \A k \in 1 .. Len(q) : Read[first.segment[k]] = s[k] /\ s[k] # Nothing
    <3>1. \A k \in 1 .. Len(q) : s[k] \in Names
      BY <1>11, ElementOfSeq
    <3> QED BY <1>17, <3>1, PartsAssumption
  <2>5. ToSet(p) = {Read[first.segment[k]] : k \in 1 .. Len(q)} \ {Nothing}
    BY <1>17, <2>3, ParsedNames
  <2>6. {Read[first.segment[k]] : k \in 1 .. Len(q)} \ {Nothing} = {s[k] : k \in 1 .. Len(q)}
    BY <2>4
  <2> QED BY <1>17, <2>2, <2>3, <2>5, <2>6, ParsedNames
<1>20. folds(p) = folds(q)
  <2>1. ToSet(q) = {q[k] : k \in 1 .. Len(q)}
    BY <1>3, NamesByPlace
  <2>2. \A k \in 1 .. Len(q) : Fold[s[k]] = Fold[q[k]]
    BY <1>8, <1>11
  <2> QED BY <1>19, <2>1, <2>2
<1>21. /\ t \in Seq(Names) /\ Len(t) = Len(p)
       /\ \A k \in 1 .. Len(p) : p[k] \in Names /\ t[k] = again[p[k]]
  BY <1>7, <1>19, Respelled DEF t
<1>22. t = p
  <2>1. ASSUME NEW k \in 1 .. Len(t) PROVE t[k] = p[k]
    <3>1. p[k] \in ToSet(p)
      BY <1>19, <1>21, <2>1, NamesByPlace
    <3>2. PICK i \in 1 .. Len(q) : p[k] = s[i]
      BY <1>19, <3>1
    <3>3. p[k] = Spelled[q[i]] /\ q[i] \in OnPage(req)
      BY <1>5, <1>11, <3>2
    <3> QED BY <1>9, <1>21, <2>1, <3>3
  <2> QED BY <1>19, <1>21, <2>1, SeqEqual
<1>23. second = ScanPath(p, WindowOf(first), {})
  BY <1>22 DEF Canonical, t
<1>24. Pasted(second.segment) = p
  BY <1>19, <1>23, ScanPathKeepsNames
<1>25. p = <<>> <=> q = <<>>
  <2>1. Len(p) \in Nat /\ ToSet(p) = {p[k] : k \in 1 .. Len(p)}
    BY <1>19, LenProperties, NamesByPlace
  <2>2. Len(p) = 0 => Len(q) = 0
    <3>1. ASSUME Len(p) = 0, Len(q) # 0 PROVE FALSE
      <4>1. 1 \in 1 .. Len(q) /\ 1 .. Len(p) = {}
        BY <1>3, <3>1
      <4>2. s[1] \in ToSet(p)
        BY <1>19, <4>1
      <4> QED BY <2>1, <4>1, <4>2
    <3> QED BY <3>1
  <2>3. Len(q) = 0 => Len(p) = 0
    <3>1. ASSUME Len(q) = 0, Len(p) # 0 PROVE FALSE
      <4>1. 1 \in 1 .. Len(p) /\ 1 .. Len(q) = {}
        BY <2>1, <3>1
      <4>2. p[1] \in ToSet(p)
        BY <2>1, <4>1
      <4> QED BY <1>19, <4>1, <4>2
    <3> QED BY <3>1
  <2> QED BY <1>3, <1>19, <2>2, <2>3, EmptySeq
<1>26. second.window = first.window
  <2>1. CASE q = <<>>
    BY <1>15, <1>23, <1>25, <2>1 DEF ScanPath, Url
  <2>2. CASE q # <<>>
    <3>1. second.window = IF window = DefaultWindow THEN Absent ELSE window
      BY <1>16, <1>23, <1>25, <2>2 DEF ScanPath, Url
    <3> QED BY <1>16, <2>2, <3>1
  <2> QED BY <2>1, <2>2
<1> HIDE DEF second
<1> QED BY <1>14, <1>16, <1>18, <1>20, <1>24, <1>26

\* CanonicalSettles, for any names, spellings and cap: a canonical leads to the page it is
\* the canonical of, and the canonical of that page to itself.
THEOREM CanonicalsSettle == Spec => []CanonicalSettles
<1> QED
  BY TypeInit, TypeStep, LinkInit, LinkStep, FoundInit, FoundStep, CanonicalsAgree, PTL DEF Spec
=============================================================================
