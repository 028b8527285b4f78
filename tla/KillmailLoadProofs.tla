------------------------- MODULE KillmailLoadProofs -------------------------
(***************************************************************************)
(* Theorems of KillmailLoad, for any store, any clicks and any order of    *)
(* the queries and of what the collector writes.                           *)
(*                                                                         *)
(* A total is a fold over a counter.  The sums of a profile rest on the    *)
(* closed form of that fold (TotalOfCounts): it solves the recursion, and  *)
(* over a finite domain the recursion has one solution.                    *)
(***************************************************************************)
EXTENDS KillmailLoad, FiniteSetTheorems, TLAPS

-----------------------------------------------------------------------------
(* Totals.                                                                 *)

Pick(s) == CHOOSE x \in s : TRUE
Folds(g, f) ==
  g = [s \in SUBSET DOMAIN f |-> IF s = {} THEN 0 ELSE f[Pick(s)] + g[s \ {Pick(s)}]]

\* A total is a fold, and a fold over a finite domain has one solution.
LEMMA FoldIsUnique ==
  ASSUME NEW f, IsFiniteSet(DOMAIN f), NEW g, NEW h, Folds(g, f), Folds(h, f)
  PROVE  g[DOMAIN f] = h[DOMAIN f]
<1> DEFINE D == DOMAIN f
           Bad == {s \in SUBSET D : g[s] # h[s]}
<1>1. SUBSET D = FiniteSubsetsOf(D)
  BY FS_FiniteSubsetsOfFinite
<1>2. IsWellFoundedOn(StrictSubsetOrdering(D), SUBSET D)
  BY <1>1, FS_StrictSubsetOrderingWellFounded
<1>3. ASSUME Bad # {} PROVE FALSE
  <2>1. PICK s \in Bad : \A t \in Bad : <<t, s>> \notin StrictSubsetOrdering(D)
    <3>1. Bad \subseteq SUBSET D
      OBVIOUS
    <3> HIDE DEF Bad, D
    <3> QED BY <3>1, <1>2, <1>3, WFMin
  <2>2. s \in SUBSET D /\ g[s] # h[s]
    OBVIOUS
  <2>3. CASE s = {}
    BY <2>2, <2>3 DEF Folds
  <2>4. CASE s # {}
    <3> DEFINE t == s \ {Pick(s)}
    <3>1. Pick(s) \in s
      BY <2>4 DEF Pick
    <3>2. t \in SUBSET D /\ t # s
      BY <3>1, <2>2
    <3>3. g[s] = f[Pick(s)] + g[t] /\ h[s] = f[Pick(s)] + h[t]
      <4> HIDE DEF t
      <4> QED BY <2>2, <2>4, <3>2 DEF Folds, t
    <3>4. g[t] # h[t]
      <4> HIDE DEF t
      <4> QED BY <2>2, <3>3
    <3>5. <<t, s>> \in StrictSubsetOrdering(D)
      <4> HIDE DEF D
      <4> QED BY <3>2, <2>2 DEF StrictSubsetOrdering
    <3> QED BY <3>2, <3>4, <3>5, <2>1
  <2> QED BY <2>3, <2>4
<1> QED BY <1>3

(* The closed form of the fold: how many rows have one of the labels.      *)
Having(rows, lab, s) == {r \in rows : lab[r] \in s}

\* The counts of the labels of a finite set of rows add up to the number of rows that have
\* one of the labels counted.
LEMMA TotalOfCounts ==
  ASSUME NEW rows, IsFiniteSet(rows), NEW lab, NEW f, IsFiniteSet(DOMAIN f),
         \A v \in DOMAIN f : f[v] = Cardinality({r \in rows : lab[r] = v})
  PROVE  Total(f) = Cardinality(Having(rows, lab, DOMAIN f))
<1> DEFINE h == [s \in SUBSET DOMAIN f |-> Cardinality(Having(rows, lab, s))]
<1>1. ASSUME NEW s \in SUBSET DOMAIN f, s # {}
      PROVE  h[s] = f[Pick(s)] + h[s \ {Pick(s)}]
  <2> DEFINE one == {r \in rows : lab[r] = Pick(s)}
             rest == Having(rows, lab, s \ {Pick(s)})
  <2>1. Pick(s) \in s
    BY <1>1 DEF Pick
  <2>2. Having(rows, lab, s) = one \cup rest /\ one \cap rest = {}
    BY <2>1 DEF Having
  <2>3. IsFiniteSet(one) /\ IsFiniteSet(rest)
    BY FS_Subset DEF Having
  <2>4. Cardinality(one \cup rest) = Cardinality(one) + Cardinality(rest)
    <3>1. Cardinality(one) \in Nat /\ Cardinality(rest) \in Nat
      BY <2>3, FS_CardinalityType
    <3>2. Cardinality(one \cup rest) = Cardinality(one) + Cardinality(rest) - Cardinality({})
      <4> HIDE DEF one, rest
      <4> QED BY <2>2, <2>3, FS_Union
    <3> HIDE DEF one, rest
    <3> QED BY <3>1, <3>2, FS_EmptySet
  <2>5. f[Pick(s)] = Cardinality(one)
    BY <2>1
  <2> QED BY <2>2, <2>4, <2>5
<1>2. h[{}] = 0
  <2>1. Having(rows, lab, {}) = {}
    BY DEF Having
  <2> QED BY <2>1, FS_EmptySet
<1>3. Folds(h, f)
  <2> HIDE DEF h
  <2>1. h = [s \in SUBSET DOMAIN f |-> h[s]]
    BY DEF h
  <2> QED BY <2>1, <1>1, <1>2 DEF Folds
<1>4. Total(f) = (CHOOSE g : Folds(g, f))[DOMAIN f]
  BY DEF Total, FoldFunction, FoldFunctionOnSet, MapThenFoldSet, Folds, Pick
<1>5. Folds(CHOOSE g : Folds(g, f), f)
  <2> HIDE DEF h
  <2> QED BY <1>3
<1>6. (CHOOSE g : Folds(g, f))[DOMAIN f] = h[DOMAIN f]
  <2> HIDE DEF h
  <2> QED BY <1>3, <1>5, FoldIsUnique
<1> QED BY <1>4, <1>6

\* The values of a function with a finite domain are finitely many, no more than its arguments.
LEMMA ImageIsFinite ==
  ASSUME NEW f, IsFiniteSet(DOMAIN f)
  PROVE  /\ IsFiniteSet({f[x] : x \in DOMAIN f})
         /\ Cardinality({f[x] : x \in DOMAIN f}) =< Cardinality(DOMAIN f)
<1> DEFINE S == DOMAIN f
           T == {f[x] : x \in DOMAIN f}
           g == [x \in S |-> f[x]]
<1>1. g \in Surjection(S, T)
  BY DEF Surjection
<1> HIDE DEF S, T, g
<1>2. IsFiniteSet(S)
  BY DEF S
<1>3. IsFiniteSet(T) /\ Cardinality(T) =< Cardinality(S)
  BY <1>1, <1>2, FS_Surjection
<1> QED BY <1>3 DEF S, T

\* The labels that a finite set of rows has under a key are finitely many.
LEMMA LabelsAreFinite ==
  ASSUME NEW rows, IsFiniteSet(rows), NEW key
  PROVE  IsFiniteSet({r[key] : r \in rows})
<1> DEFINE f == [r \in rows |-> r[key]]
<1>1. IsFiniteSet({f[r] : r \in DOMAIN f})
  <2>1. DOMAIN f = rows
    OBVIOUS
  <2> HIDE DEF f
  <2> QED BY <2>1, ImageIsFinite
<1>2. {f[r] : r \in DOMAIN f} = {r[key] : r \in rows}
  OBVIOUS
<1> QED BY <1>1, <1>2

\* A counter of a finite set of rows adds up to the number of rows.
LEMMA TotalOfCounter ==
  ASSUME NEW rows, IsFiniteSet(rows), NEW key
  PROVE  Total(Counter(rows, key)) = Cardinality(rows)
<1> DEFINE f == Counter(rows, key)
           lab == [r \in rows |-> r[key]]
<1>1. DOMAIN f = {r[key] : r \in rows}
  BY DEF Counter
<1>2. IsFiniteSet(DOMAIN f)
  BY <1>1, LabelsAreFinite
<1>3. ASSUME NEW v \in DOMAIN f
      PROVE  f[v] = Cardinality({r \in rows : lab[r] = v})
  <2>1. f[v] = Cardinality({r \in rows : r[key] = v})
    BY <1>1 DEF Counter
  <2>2. {r \in rows : r[key] = v} = {r \in rows : lab[r] = v}
    OBVIOUS
  <2> QED BY <2>1, <2>2
<1>4. Having(rows, lab, DOMAIN f) = rows
  BY <1>1 DEF Having
<1> HIDE DEF f, lab
<1>5. Total(f) = Cardinality(Having(rows, lab, DOMAIN f))
  BY <1>2, <1>3, TotalOfCounts
<1> QED BY <1>4, <1>5 DEF f

\* Two sets of rows that cover a finite set and share none have as many rows together.
LEMMA TwoParts ==
  ASSUME NEW rows, IsFiniteSet(rows), NEW one, NEW other,
         one \cup other = rows, one \cap other = {}
  PROVE  /\ Cardinality(one) \in Nat /\ Cardinality(other) \in Nat
         /\ Cardinality(one) + Cardinality(other) = Cardinality(rows)
<1>1. IsFiniteSet(one) /\ IsFiniteSet(other)
  BY FS_Subset
<1>2. Cardinality(one) \in Nat /\ Cardinality(other) \in Nat
  BY <1>1, FS_CardinalityType
<1>3. Cardinality(rows) = Cardinality(one) + Cardinality(other) - Cardinality({})
  BY <1>1, FS_Union
<1> QED BY <1>2, <1>3, FS_EmptySet

\* Counts of some of the labels lack no rows but those with another label: if these are among
\* the values of a function, they lack no more than it has arguments.
LEMMA CountsLack ==
  ASSUME NEW rows, IsFiniteSet(rows), NEW lab, NEW f, IsFiniteSet(DOMAIN f),
         \A v \in DOMAIN f : f[v] = Cardinality({r \in rows : lab[r] = v}),
         NEW g, IsFiniteSet(DOMAIN g),
         \A r \in rows : lab[r] \in DOMAIN f \/ \E i \in DOMAIN g : r = g[i]
  PROVE  /\ Total(f) =< Cardinality(rows)
         /\ Cardinality(rows) - Total(f) =< Cardinality(DOMAIN g)
<1> DEFINE on == Having(rows, lab, DOMAIN f)
           off == rows \ on
           image == {g[i] : i \in DOMAIN g}
<1>1. Total(f) = Cardinality(on)
  BY TotalOfCounts
<1>2. on \cup off = rows /\ on \cap off = {}
  BY DEF Having
<1>3. off \subseteq image
  BY DEF Having
<1>4. IsFiniteSet(image) /\ Cardinality(image) =< Cardinality(DOMAIN g)
  BY ImageIsFinite
<1> HIDE DEF on, off, image
<1>5. /\ Cardinality(on) \in Nat /\ Cardinality(off) \in Nat
      /\ Cardinality(on) + Cardinality(off) = Cardinality(rows)
  BY <1>2, TwoParts
<1>6. Cardinality(off) =< Cardinality(image)
  BY <1>3, <1>4, FS_Subset
<1>7. Cardinality(image) \in Nat /\ Cardinality(DOMAIN g) \in Nat
  BY <1>4, FS_CardinalityType
<1> QED BY <1>1, <1>4, <1>5, <1>6, <1>7

-----------------------------------------------------------------------------
(* Profiles.                                                               *)

\* The rows of the store a set of kills can have.
AllKills == {Kills[i] : i \in DOMAIN KillTable}

\* What the row of a kill says of it.
LEMMA KillRows ==
  ASSUME NEW k \in AllKills
  PROVE  /\ k.d \in Int
         /\ \A j \in AllKills : j.ship = k.ship => (j.stealth <=> k.stealth)
<1>1. \A i \in DOMAIN KillTable :
        /\ Kills[i].d = KillTable[i].d
        /\ Kills[i].ship = Hull(KillTable[i].ship)
        /\ Kills[i].stealth = IsStealth(KillTable[i].ship)
  BY DEF Kills, KillRow
<1> QED BY <1>1, StoreAssumption, HullAssumption DEF AllKills

\* The bands of some kills add up to their number, the labels in a band to the kills of it.
LEMMA BandsAddUp ==
  ASSUME NEW fk, IsFiniteSet(fk)
  PROVE  /\ Total([s \in SPACE_ORDER |-> Space(fk)[s].n]) = Cardinality(fk)
         /\ \A s \in SPACE_ORDER, key \in LocationKeys :
              Total(Space(fk)[s].loc[key]) = Space(fk)[s].n
<1> DEFINE lab == [k \in fk |-> SpaceCat(k.space)]
           f == [s \in SPACE_ORDER |-> Space(fk)[s].n]
<1>1. ASSUME NEW s \in SPACE_ORDER
      PROVE  /\ Space(fk)[s].n = Cardinality(Band(fk, s))
             /\ \A key \in LocationKeys : Space(fk)[s].loc[key] = Counter(Band(fk, s), key)
  BY DEF Space
<1>2. ASSUME NEW s \in DOMAIN f PROVE f[s] = Cardinality({k \in fk : lab[k] = s})
  <2>1. {k \in fk : lab[k] = s} = Band(fk, s)
    BY DEF Band
  <2> QED BY <1>1, <2>1
<1>3. Having(fk, lab, SPACE_ORDER) = fk
  BY DEF Having, SpaceCat, SPACE_ORDER
<1>4. DOMAIN f = SPACE_ORDER
  OBVIOUS
<1>5. IsFiniteSet(SPACE_ORDER)
  <2>1. SPACE_ORDER = {"High sec"} \cup ({"Low sec"} \cup ({"Null sec"} \cup ({"Wormhole"} \cup {"Others"})))
    BY DEF SPACE_ORDER, KnownSpaces
  <2> QED BY <2>1, FS_Singleton, FS_Union
<1>6. Total(f) = Cardinality(fk)
  <2> HIDE DEF f, lab
  <2>1. Total(f) = Cardinality(Having(fk, lab, DOMAIN f))
    BY <1>2, <1>4, <1>5, TotalOfCounts
  <2> QED BY <1>3, <1>4, <2>1
<1>7. ASSUME NEW s \in SPACE_ORDER, NEW key \in LocationKeys
      PROVE  Total(Space(fk)[s].loc[key]) = Space(fk)[s].n
  <2>1. IsFiniteSet(Band(fk, s))
    BY FS_Subset DEF Band
  <2>2. Total(Counter(Band(fk, s), key)) = Cardinality(Band(fk, s))
    BY <2>1, TotalOfCounter
  <2> QED BY <1>1, <2>2
<1> QED BY <1>6, <1>7

\* So do the kills of the hulls flown, and those of the stealth hulls to the stealth kills.
LEMMA HullsAddUp ==
  ASSUME NEW fk, IsFiniteSet(fk), fk \subseteq AllKills, NEW last \in Representatives(fk)
  PROVE  LET hulls == Hulls(fk, last)
             covert == {h \in DOMAIN hulls : hulls[h].is_stealth}
         IN  /\ KillsOf(hulls) = Cardinality(fk)
             /\ KillsOf([h \in covert |-> hulls[h]]) = Cardinality({k \in fk : k.stealth})
<1> DEFINE hulls == Hulls(fk, last)
           names == {k.ship : k \in fk}
           covert == {h \in DOMAIN hulls : hulls[h].is_stealth}
           lab == [k \in fk |-> k.ship]
           f == [h \in covert |-> hulls[h].kills]
<1>1. /\ DOMAIN hulls = names
      /\ \A h \in names : /\ hulls[h].kills = Cardinality({k \in fk : k.ship = h})
                          /\ hulls[h].is_stealth = last[h].stealth
  BY DEF Hulls
<1>2. KillsOf(hulls) = Cardinality(fk)
  <2>1. [h \in DOMAIN hulls |-> hulls[h].kills] = Counter(fk, "ship")
    <3> HIDE DEF hulls
    <3> QED BY <1>1 DEF Counter
  <2>2. KillsOf(hulls) = Total(Counter(fk, "ship"))
    BY <2>1 DEF KillsOf
  <2> QED BY <2>2, TotalOfCounter
<1>3. ASSUME NEW k \in fk PROVE k.ship \in covert <=> k.stealth
  <2>1. k.ship \in names /\ last[k.ship] \in fk /\ last[k.ship].ship = k.ship
    BY DEF Representatives
  <2>2. last[k.ship].stealth <=> k.stealth
    BY <2>1, KillRows
  <2> HIDE DEF hulls, names
  <2> QED BY <1>1, <2>1, <2>2
<1>4. Having(fk, lab, covert) = {k \in fk : k.stealth}
  <2> HIDE DEF covert
  <2> QED BY <1>3 DEF Having
<1>5. IsFiniteSet(covert)
  <2>1. IsFiniteSet(names)
    <3>1. IsFiniteSet({k["ship"] : k \in fk})
      BY LabelsAreFinite
    <3> QED BY <3>1
  <2> HIDE DEF hulls, names
  <2>2. covert \subseteq names
    BY <1>1
  <2> QED BY <2>1, <2>2, FS_Subset
<1>6. ASSUME NEW h \in covert PROVE f[h] = Cardinality({k \in fk : lab[k] = h})
  <2>1. {k \in fk : lab[k] = h} = {k \in fk : k.ship = h}
    OBVIOUS
  <2> HIDE DEF hulls, names
  <2> QED BY <1>1, <2>1
<1>7. KillsOf([h \in covert |-> hulls[h]]) = Total(f)
  <2> HIDE DEF hulls, covert
  <2>1. [h \in DOMAIN [x \in covert |-> hulls[x]] |-> [x \in covert |-> hulls[x]][h].kills] = f
    OBVIOUS
  <2> QED BY <2>1 DEF KillsOf
<1>8. DOMAIN f = covert
  OBVIOUS
<1>9. Total(f) = Cardinality({k \in fk : k.stealth})
  <2> HIDE DEF f, covert, lab
  <2>1. Total(f) = Cardinality(Having(fk, lab, DOMAIN f))
    BY <1>5, <1>6, <1>8, TotalOfCounts
  <2> QED BY <1>4, <1>8, <2>1
<1> QED BY <1>2, <1>7, <1>9

\* The kills of the classes named are kills, and all of them if there was room for more.
LEMMA ClassesAddUp ==
  ASSUME NEW fk, IsFiniteSet(fk), NEW named \in MostCommon(Counter(fk, "group"), TOP_SHIPS)
  PROVE  LET classes == Classes(fk, named)
         IN  /\ KillsOf(classes) =< Cardinality(fk)
             /\ Cardinality(DOMAIN classes) < TOP_SHIPS => KillsOf(classes) = Cardinality(fk)
<1> DEFINE classes == Classes(fk, named)
           groups == {k["group"] : k \in fk}
           f == [c \in named |-> classes[c].kills]
           lab == [k \in fk |-> k.group]
           having == Having(fk, lab, named)
<1>1. /\ DOMAIN classes = named
      /\ \A c \in named : classes[c].kills = Cardinality({k \in fk : k.group = c})
  BY DEF Classes
<1>2. /\ named \subseteq groups
      /\ Cardinality(named) = IF Cardinality(groups) < TOP_SHIPS THEN Cardinality(groups) ELSE TOP_SHIPS
  <2> DEFINE counter == Counter(fk, "group")
  <2>1. DOMAIN counter = groups
    BY DEF Counter
  <2>2. named \in MostCommon(counter, TOP_SHIPS)
    OBVIOUS
  <2> HIDE DEF counter, groups
  <2> QED BY <2>1, <2>2 DEF MostCommon
<1>3. IsFiniteSet(groups)
  BY LabelsAreFinite
<1>4. IsFiniteSet(named) /\ (Cardinality(groups) = Cardinality(named) => named = groups)
  <2> HIDE DEF groups
  <2> QED BY <1>2, <1>3, FS_Subset
<1>5. KillsOf(classes) = Total(f)
  <2> HIDE DEF classes
  <2> QED BY <1>1 DEF KillsOf
<1>6. Total(f) = Cardinality(having)
  <2>1. \A c \in named : {k \in fk : lab[k] = c} = {k \in fk : k.group = c}
    OBVIOUS
  <2>2. DOMAIN f = named /\ \A c \in named : f[c] = classes[c].kills
    OBVIOUS
  <2> HIDE DEF f, lab, classes, groups, having
  <2>3. \A c \in DOMAIN f : f[c] = Cardinality({k \in fk : lab[k] = c})
    BY <1>1, <2>1, <2>2
  <2>4. Total(f) = Cardinality(Having(fk, lab, DOMAIN f))
    BY <1>4, <2>2, <2>3, TotalOfCounts
  <2> QED BY <2>2, <2>4 DEF having
<1>7. Cardinality(having) =< Cardinality(fk)
  <2>1. having \subseteq fk
    BY DEF Having
  <2> HIDE DEF having
  <2> QED BY <2>1, FS_Subset
<1>8. named = groups => having = fk
  BY DEF Having
<1>9. Cardinality(named) < TOP_SHIPS => named = groups
  <2>1. Cardinality(groups) \in Nat /\ TOP_SHIPS \in Nat
    BY <1>3, FS_CardinalityType, TopAssumption
  <2> HIDE DEF groups
  <2> QED BY <1>2, <1>4, <2>1
<1> HIDE DEF classes, groups, f, having
<1>10. /\ KillsOf(classes) =< Cardinality(fk)
       /\ Cardinality(DOMAIN classes) < TOP_SHIPS => KillsOf(classes) = Cardinality(fk)
  BY <1>1, <1>5, <1>6, <1>7, <1>8, <1>9
<1> QED BY <1>10 DEF classes

\* The rows a view of pilot p was built from, and what of them a window and filters leave.
EntryAt(p, built) ==
  [kills |-> {Kills[i] : i \in RowsOf(p, built)},
   losses |-> {Losses[i] : i \in {l \in built.losses : LossTable[l].char = p}}]
KillsAt(p, built, w, fs) == FilteredKills(EntryAt(p, built), w, fs, built.today)
LossesAt(p, built, fs) == {m \in EntryAt(p, built).losses : MatchLoss(m, fs)}

\* What a history of a view can be: rows of the store, no loss of them before the window.
Builds == [kills : SUBSET DOMAIN KillTable, losses : SUBSET DOMAIN LossTable, today : Int, late : Nat]
IsBuilt(built, w) ==
  /\ built \in Builds
  /\ \A i \in built.losses : LossTable[i].d >= FirstDay(w, built.today)

\* A profile of pilot p, in whatever order the rows came.
IsProfile(profile, p, built, w, fs) ==
  \E order \in Orders(KillsAt(p, built, w, fs)) :
    profile = BuildProfile(EntryAt(p, built), w, fs, built.today, order)

\* The kills a view shows are finitely many rows of the store, none before the window.
LEMMA KillsAtProperties ==
  ASSUME NEW p, NEW w, NEW built, IsBuilt(built, w), NEW fs
  PROVE  /\ IsFiniteSet(KillsAt(p, built, w, fs))
         /\ KillsAt(p, built, w, fs) \subseteq AllKills
         /\ \A k \in KillsAt(p, built, w, fs) :
              /\ k.d >= FirstDay(w, built.today)
              /\ \E i \in built.kills : k = Kills[i] /\ k.d = KillTable[i].d
<1> DEFINE f == [i \in RowsOf(p, built) |-> Kills[i]]
           all == {Kills[i] : i \in RowsOf(p, built)}
<1>1. RowsOf(p, built) \subseteq built.kills /\ built.kills \subseteq DOMAIN KillTable
  BY DEF RowsOf, IsBuilt, Builds
<1>2. IsFiniteSet(all)
  <2>1. IsFiniteSet(RowsOf(p, built))
    BY <1>1, StoreAssumption, FS_Subset
  <2>2. IsFiniteSet(DOMAIN f)
    BY <2>1
  <2>3. all = {f[i] : i \in DOMAIN f}
    OBVIOUS
  <2> HIDE DEF f, all
  <2> QED BY <2>2, <2>3, ImageIsFinite
<1>3. KillsAt(p, built, w, fs) \subseteq all
  BY DEF KillsAt, FilteredKills, Within, EntryAt
<1>4. IsFiniteSet(KillsAt(p, built, w, fs))
  <2> HIDE DEF all
  <2> QED BY <1>2, <1>3, FS_Subset
<1>5. KillsAt(p, built, w, fs) \subseteq AllKills
  BY <1>1, <1>3 DEF AllKills
<1>6. \A k \in KillsAt(p, built, w, fs) : k.d >= FirstDay(w, built.today)
  BY DEF KillsAt, FilteredKills, Within
<1>7. \A i \in DOMAIN KillTable : Kills[i].d = KillTable[i].d
  BY DEF Kills, KillRow
<1> QED BY <1>1, <1>3, <1>4, <1>5, <1>6, <1>7

\* Some rows of the store are finitely many.
LEMMA SomeRows ==
  ASSUME NEW rows, rows \subseteq DOMAIN KillTable
  PROVE  IsFiniteSet(rows) /\ DOMAIN [i \in rows |-> Kills[i]] = rows
<1>1. IsFiniteSet(rows)
  BY StoreAssumption, FS_Subset
<1> QED BY <1>1

\* The bars of the chart lack the kills of later days and no other.
LEMMA ChartLacksTomorrow ==
  ASSUME NEW p, NEW w \in DOMAIN WindowDays, NEW built, IsBuilt(built, w), NEW fs
  PROVE  LET fk == KillsAt(p, built, w, fs)
             drawn == Total(Chart(fk, w, built.today))
         IN  /\ drawn =< Cardinality(fk)
             /\ Cardinality(fk) - drawn =< Cardinality(NotDrawn(built))
<1> DEFINE fk == KillsAt(p, built, w, fs)
           days == FirstDay(w, built.today) .. built.today
           f == Chart(fk, w, built.today)
           lab == [k \in fk |-> k.d]
           g == [i \in NotDrawn(built) |-> Kills[i]]
<1>1. built.today \in Int /\ FirstDay(w, built.today) \in Int
  BY WindowAssumption DEF IsBuilt, Builds, FirstDay
<1>2. IsFiniteSet(fk) /\ fk \subseteq AllKills
  BY KillsAtProperties
<1>3. \A k \in fk : /\ k.d \in Int /\ k.d >= FirstDay(w, built.today)
                    /\ \E i \in built.kills : k = Kills[i] /\ k.d = KillTable[i].d
  <2>1. \A k \in fk : /\ k.d >= FirstDay(w, built.today)
                      /\ \E i \in built.kills : k = Kills[i] /\ k.d = KillTable[i].d
    BY KillsAtProperties
  <2> HIDE DEF fk
  <2> QED BY <2>1, <1>2, KillRows
<1>4. IsFiniteSet(NotDrawn(built)) /\ DOMAIN g = NotDrawn(built)
  <2>1. NotDrawn(built) \subseteq DOMAIN KillTable
    BY DEF NotDrawn, IsBuilt, Builds
  <2> QED BY <2>1, SomeRows
<1>5. DOMAIN f = days /\ IsFiniteSet(days)
  BY <1>1, FS_Interval DEF Chart
<1>6. ASSUME NEW d \in days PROVE f[d] = Cardinality({k \in fk : lab[k] = d})
  <2>1. {k \in fk : lab[k] = d} = {k \in fk : k.d = d}
    OBVIOUS
  <2> HIDE DEF fk, lab
  <2> QED BY <2>1 DEF Chart
<1>7. ASSUME NEW k \in fk PROVE lab[k] \in days \/ \E i \in NotDrawn(built) : k = g[i]
  <2>1. lab[k] = k.d
    OBVIOUS
  <2>2. \A i \in NotDrawn(built) : g[i] = Kills[i]
    OBVIOUS
  <2> HIDE DEF fk, lab, g
  <2>3. k.d > built.today => \E i \in NotDrawn(built) : k = Kills[i]
    BY <1>3 DEF NotDrawn
  <2> QED BY <1>1, <1>3, <2>1, <2>2, <2>3
<1> HIDE DEF fk, days, f, lab, g
<1>8. Total(f) =< Cardinality(fk) /\ Cardinality(fk) - Total(f) =< Cardinality(NotDrawn(built))
  BY <1>2, <1>4, <1>5, <1>6, <1>7, CountsLack
<1> QED BY <1>8 DEF fk, f

\* The target rows lack the kills whose label is not listed and no other.
LEMMA TargetsLackUnlisted ==
  ASSUME NEW p, NEW w, NEW built, IsBuilt(built, w), NEW fs
  PROVE  LET fk == KillsAt(p, built, w, fs)
             listed == Total(Targets(fk))
         IN  /\ listed =< Cardinality(fk)
             /\ Cardinality(fk) - listed =< Cardinality(NotListed(built))
<1> DEFINE fk == KillsAt(p, built, w, fs)
           f == Targets(fk)
           lab == [k \in fk |-> k.bucket]
           g == [i \in NotListed(built) |-> Kills[i]]
<1>1. IsFiniteSet(fk) /\ \A k \in fk : \E i \in built.kills : k = Kills[i]
  BY KillsAtProperties
<1>2. built.kills \subseteq DOMAIN KillTable
  BY DEF IsBuilt, Builds
<1>3. IsFiniteSet(NotListed(built)) /\ DOMAIN g = NotListed(built)
  <2>1. NotListed(built) \subseteq DOMAIN KillTable
    BY <1>2 DEF NotListed
  <2> QED BY <2>1, SomeRows
<1>4. DOMAIN f = BUCKET_ORDER /\ IsFiniteSet(BUCKET_ORDER)
  BY BucketAssumption DEF Targets
<1>5. ASSUME NEW b \in BUCKET_ORDER PROVE f[b] = Cardinality({k \in fk : lab[k] = b})
  <2>1. {k \in fk : lab[k] = b} = {k \in fk : k.bucket = b}
    OBVIOUS
  <2> HIDE DEF fk, lab
  <2> QED BY <2>1 DEF Targets
<1>6. ASSUME NEW i \in built.kills, Kills[i].bucket \notin BUCKET_ORDER PROVE i \in NotListed(built)
  <2>1. Kills[i].bucket = VictimBucket(KillTable[i].victim)
    BY <1>2 DEF Kills, KillRow
  <2> QED BY <1>6, <2>1, BucketAssumption DEF VictimBucket, Lookup, NotListed
<1>7. ASSUME NEW k \in fk PROVE lab[k] \in BUCKET_ORDER \/ \E i \in NotListed(built) : k = g[i]
  <2>1. lab[k] = k.bucket
    OBVIOUS
  <2>2. \A i \in NotListed(built) : g[i] = Kills[i]
    OBVIOUS
  <2> HIDE DEF fk, lab, g
  <2> QED BY <1>1, <1>6, <2>1, <2>2
<1> HIDE DEF fk, f, lab, g
<1>8. Total(f) =< Cardinality(fk) /\ Cardinality(fk) - Total(f) =< Cardinality(NotListed(built))
  BY <1>1, <1>3, <1>4, <1>5, <1>7, CountsLack
<1> QED BY <1>8 DEF fk, f

\* Every profile is consistent.
LEMMA ProfilesAreConsistent ==
  ASSUME NEW p, NEW w \in DOMAIN WindowDays, NEW built, IsBuilt(built, w), NEW fs,
         NEW profile, IsProfile(profile, p, built, w, fs)
  PROVE  Consistent(profile, built)
<1> DEFINE fk == KillsAt(p, built, w, fs)
<1>1. PICK order \in Orders(fk) :
        profile = BuildProfile(EntryAt(p, built), w, fs, built.today, order)
  BY DEF IsProfile
<1>11. /\ order.last \in Representatives(fk)
       /\ order.named \in MostCommon(Counter(fk, "group"), TOP_SHIPS)
  BY DEF Orders
<1>2. /\ profile.kills = Cardinality(fk)
      /\ profile.solo = Cardinality({k \in fk : k.solo})
      /\ profile.gang = Cardinality({k \in fk : ~ k.solo})
      /\ profile.stealth = Cardinality({k \in fk : k.stealth})
      /\ profile.targets = Targets(fk) /\ profile.space = Space(fk)
      /\ profile.ships_flown = Hulls(fk, order.last)
      /\ profile.ships_by_class = Classes(fk, order.named)
      /\ profile.chart = Chart(fk, w, built.today)
  BY <1>1 DEF BuildProfile, KillsAt
<1>3. IsFiniteSet(fk) /\ fk \subseteq AllKills
  BY KillsAtProperties
<1>4. /\ Total(Chart(fk, w, built.today)) =< Cardinality(fk)
      /\ Cardinality(fk) - Total(Chart(fk, w, built.today)) =< Cardinality(NotDrawn(built))
  BY ChartLacksTomorrow
<1>12. /\ Total(Targets(fk)) =< Cardinality(fk)
       /\ Cardinality(fk) - Total(Targets(fk)) =< Cardinality(NotListed(built))
  BY TargetsLackUnlisted
<1> HIDE DEF fk
<1>5. /\ Total(profile.targets) =< profile.kills
      /\ profile.kills - Total(profile.targets) =< Cardinality(NotListed(built))
  BY <1>2, <1>12
<1>6. /\ Total([s \in SPACE_ORDER |-> profile.space[s].n]) = profile.kills
      /\ \A s \in SPACE_ORDER, key \in LocationKeys :
           Total(profile.space[s].loc[key]) = profile.space[s].n
  BY <1>2, <1>3, BandsAddUp
<1>7. LET covert == {h \in DOMAIN profile.ships_flown : profile.ships_flown[h].is_stealth}
      IN  /\ KillsOf(profile.ships_flown) = profile.kills
          /\ KillsOf([h \in covert |-> profile.ships_flown[h]]) = profile.stealth
  BY <1>2, <1>3, <1>11, HullsAddUp
<1>8. /\ KillsOf(profile.ships_by_class) =< profile.kills
      /\ Cardinality(DOMAIN profile.ships_by_class) < TOP_SHIPS
           => KillsOf(profile.ships_by_class) = profile.kills
  BY <1>2, <1>3, <1>11, ClassesAddUp
<1>9. profile.solo + profile.gang = profile.kills
  <2> DEFINE one == {k \in fk : k.solo}
             other == {k \in fk : ~ k.solo}
  <2>1. one \cup other = fk /\ one \cap other = {}
    OBVIOUS
  <2> HIDE DEF one, other
  <2>2. Cardinality(one) + Cardinality(other) = Cardinality(fk)
    BY <1>3, <2>1, TwoParts
  <2> QED BY <1>2, <2>2 DEF one, other
<1>10. Total(profile.chart) =< profile.kills
       /\ profile.kills - Total(profile.chart) =< Cardinality(NotDrawn(built))
  BY <1>2, <1>4
<1> QED BY <1>5, <1>6, <1>7, <1>8, <1>9, <1>10 DEF Consistent

-----------------------------------------------------------------------------
(* The inductive invariant.                                                *)

IsRequest(a) ==
  a = [step |-> a.step, mode |-> a.mode, who |-> a.who, bucket |-> a.bucket,
       window |-> a.window, filters |-> a.filters, today |-> a.today]

\* A request asks for what the page asks for.  A card of the rows to come is not open, nor
\* the card or the hulls a fragment is to show.
ForRows == asked.mode = "blocks" /\ asked.who = Pilots /\ card = NoCard /\ drill = NoDrill
ForCard ==
  /\ asked.mode = "detail" /\ page.status = "shown" /\ card = NoCard
  /\ \E p \in Pilots : asked.who = {p}
ForHulls ==
  /\ asked.mode = "targets" /\ card # NoCard /\ drill = NoDrill
  /\ asked.who = {card.pilot} /\ asked.bucket \in BUCKET_ORDER

Asked ==
  /\ IsRequest(asked)
  /\ asked.step \in {"count", "kills", "losses"}
  /\ asked.window = window /\ asked.filters = filters /\ asked.today \in FirstToday .. LastToday
  /\ ForRows \/ ForCard \/ ForHulls

TypeInv ==
  /\ kills \subseteq DOMAIN KillTable /\ losses \subseteq DOMAIN LossTable
  /\ late \in Nat /\ late =< Cardinality(kills) + Cardinality(losses)
  /\ today \in FirstToday .. LastToday
  /\ window \in DOMAIN WindowDays
  /\ DOMAIN filters \subseteq FILTER_KEYS
  /\ asked = Idle \/ Asked
  /\ fetched \subseteq kills
  /\ page.status \in {"none", "shown", "refused"}
  /\ card = NoCard \/ (card.status = "shown" /\ page.status = "shown" /\ card.pilot \in Pilots)
  /\ drill = NoDrill \/ (drill.status = "shown" /\ card # NoCard /\ drill.bucket \in BUCKET_ORDER)

\* What was counted is within the budget, with what has been added since.
BudgetInv ==
  /\ asked.step = "kills"
       => Cardinality(KillsFrom) + Cardinality(LossesFrom) =< MAX_SCAN_ROWS + late
  /\ asked.step = "losses"
       => Cardinality(fetched) + Cardinality(LossesFrom) =< MAX_SCAN_ROWS + late

\* A view shows what the page asks for; the rows do until others are asked for.
Current == asked = Idle \/ asked.mode # "blocks"
HullsAt(p, built, w, fs, bucket) ==
  Counter({k \in KillsAt(p, built, w, fs) : k.bucket = bucket}, "victim_ship")
ViewInv ==
  /\ page.status = "shown" /\ Current
       => /\ IsBuilt(page.built, window)
          /\ \A p \in Pilots : IsProfile(page.profiles[p], p, page.built, window, filters)
  /\ card # NoCard
       => /\ IsBuilt(card.built, window)
          /\ IsProfile(card.profile, card.pilot, card.built, window, filters)
  /\ drill # NoDrill
       => /\ IsBuilt(drill.built, window)
          /\ drill.hulls = HullsAt(card.pilot, drill.built, window, filters, drill.bucket)

(* What a click points at.                                                 *)
Has(k, key, value) ==
  /\ key \in LocationKeys \cup {"ship"} => k[key] = value
  /\ key = "space" => SpaceCat(k.space) = value
  /\ key = "prey" => k.victim_ship = value
  /\ key = "target" => k.bucket = value
InRow(k, row) ==
  /\ row \in SPACE_ORDER => SpaceCat(k.space) = row
  /\ row \in BUCKET_ORDER => k.bucket = row
With(fs, key, value) ==
  [k \in DOMAIN fs \cup {key} |-> IF k = key THEN value ELSE fs[k]]
Counts(item, fk) == Cardinality({k \in fk : Has(k, item.key, item.value) /\ InRow(k, item.row)})

\* The filters of the request are those of the view clicked with the item's added.
PointedAt(c, w, fs) ==
  /\ c.pilot \in Pilots /\ c.item.key \in FILTER_KEYS
  /\ c.built \in Builds
  /\ \E old : /\ fs = With(old, c.item.key, c.item.value)
              /\ c.added <=> c.item.key \notin DOMAIN old
              /\ c.lost = Cardinality(LossesAt(c.pilot, c.built, old))
              /\ c.item.n = Counts(c.item, KillsAt(c.pilot, c.built, w, old))
ClickInv ==
  clicked # NoClick => asked # Idle /\ asked.mode = "blocks" /\ PointedAt(clicked, window, filters)

Inv == TypeInv /\ BudgetInv /\ RowsWithinBudget /\ ViewsAgree /\ ViewInv /\ ClickInv

-----------------------------------------------------------------------------
(* Clicks.                                                                 *)

\* The fields of a profile that clicks and drill-downs read.
LEMMA ProfileFields ==
  ASSUME NEW p, NEW w, NEW built, IsBuilt(built, w), NEW fs,
         NEW profile, IsProfile(profile, p, built, w, fs)
  PROVE  LET fk == KillsAt(p, built, w, fs)
         IN  /\ profile.kills = Cardinality(fk)
             /\ profile.losses = Cardinality(LossesAt(p, built, fs))
             /\ profile.targets = Targets(fk) /\ profile.space = Space(fk)
             /\ DOMAIN profile.ships_flown = {k.ship : k \in fk}
             /\ \A h \in DOMAIN profile.ships_flown :
                  profile.ships_flown[h].kills = Cardinality({k \in fk : k.ship = h})
<1> DEFINE fk == KillsAt(p, built, w, fs)
           E == EntryAt(p, built)
<1>1. PICK order \in Orders(fk) : profile = BuildProfile(E, w, fs, built.today, order)
  BY DEF IsProfile
<1>2. /\ profile.kills = Cardinality(fk)
      /\ profile.losses = Cardinality({m \in Within(E.losses, w, built.today) : MatchLoss(m, fs)})
      /\ profile.targets = Targets(fk) /\ profile.space = Space(fk)
      /\ profile.ships_flown = Hulls(fk, order.last)
  <2> HIDE DEF E
  <2> QED BY <1>1 DEF BuildProfile, KillsAt, E
<1>3. Within(E.losses, w, built.today) = E.losses
  <2>1. \A i \in DOMAIN LossTable : Losses[i].d = LossTable[i].d
    BY DEF Losses, LossRow
  <2> QED BY <2>1 DEF EntryAt, Within, IsBuilt, Builds
<1>4. profile.losses = Cardinality(LossesAt(p, built, fs))
  BY <1>2, <1>3 DEF LossesAt
<1>5. /\ DOMAIN profile.ships_flown = {k.ship : k \in fk}
      /\ \A h \in DOMAIN profile.ships_flown :
           profile.ships_flown[h].kills = Cardinality({k \in fk : k.ship = h})
  <2> HIDE DEF fk
  <2> QED BY <1>2 DEF Hulls
<1> QED BY <1>2, <1>4, <1>5

\* What can be clicked in a profile counts the kills that have its value, in the row it is in.
LEMMA ItemsCount ==
  ASSUME NEW p, NEW w, NEW built, IsBuilt(built, w), NEW fs,
         NEW profile, IsProfile(profile, p, built, w, fs),
         NEW item \in CardItems(profile)
  PROVE  item.key \in FILTER_KEYS /\ item.n = Counts(item, KillsAt(p, built, w, fs))
<1> DEFINE fk == KillsAt(p, built, w, fs)
<1>1. /\ profile.targets = Targets(fk) /\ profile.space = Space(fk)
      /\ \A h \in DOMAIN profile.ships_flown :
           profile.ships_flown[h].kills = Cardinality({k \in fk : k.ship = h})
  BY ProfileFields
<1> HIDE DEF fk
<1> SUFFICES item.key \in FILTER_KEYS /\ item.n = Counts(item, fk)
  BY DEF fk
<1>2. \A row \in SPACE_ORDER \cup {"all"} : row \notin BUCKET_ORDER
  BY BucketAssumption
<1>3. "all" \notin SPACE_ORDER
  BY DEF SPACE_ORDER, KnownSpaces
<1>4. ASSUME NEW s \in SPACE_ORDER, item = Item("space", s, s, profile.space[s].n)
      PROVE  item.key \in FILTER_KEYS /\ item.n = Counts(item, fk)
  <2>1. item.key = "space" /\ item.value = s /\ item.row = s /\ item.n = profile.space[s].n
    BY <1>4 DEF Item
  <2>2. item.n = Cardinality(Band(fk, s))
    BY <2>1, <1>1 DEF Space
  <2>3. {k \in fk : Has(k, item.key, item.value) /\ InRow(k, item.row)} = Band(fk, s)
    BY <2>1, <1>2 DEF Has, InRow, Band, LocationKeys
  <2> QED BY <2>1, <2>2, <2>3 DEF Counts, FILTER_KEYS
<1>5. ASSUME NEW b \in BUCKET_ORDER, item = Item("target", b, b, profile.targets[b])
      PROVE  item.key \in FILTER_KEYS /\ item.n = Counts(item, fk)
  <2>1. item.key = "target" /\ item.value = b /\ item.row = b /\ item.n = profile.targets[b]
    BY <1>5 DEF Item
  <2>2. item.n = Cardinality({k \in fk : k.bucket = b})
    BY <2>1, <1>1 DEF Targets
  <2>3. {k \in fk : Has(k, item.key, item.value) /\ InRow(k, item.row)} = {k \in fk : k.bucket = b}
    BY <2>1, <1>2 DEF Has, InRow, LocationKeys
  <2> QED BY <2>1, <2>2, <2>3 DEF Counts, FILTER_KEYS
<1>6. ASSUME NEW h \in DOMAIN profile.ships_flown,
             item = Item("ship", h, "all", profile.ships_flown[h].kills)
      PROVE  item.key \in FILTER_KEYS /\ item.n = Counts(item, fk)
  <2>1. /\ item.key = "ship" /\ item.value = h /\ item.row = "all"
        /\ item.n = profile.ships_flown[h].kills
    BY <1>6 DEF Item
  <2>2. item.n = Cardinality({k \in fk : k.ship = h})
    BY <2>1, <1>1
  <2>3. {k \in fk : Has(k, item.key, item.value) /\ InRow(k, item.row)} = {k \in fk : k.ship = h}
    BY <2>1, <1>2, <1>3 DEF Has, InRow, LocationKeys
  <2> QED BY <2>1, <2>2, <2>3 DEF Counts, FILTER_KEYS
<1>7. ASSUME NEW s \in SPACE_ORDER, NEW key \in LocationKeys, item \in PlaceItems(profile, s, key)
      PROVE  item.key \in FILTER_KEYS /\ item.n = Counts(item, fk)
  <2> DEFINE counter == Counter(Band(fk, s), key)
  <2>1. profile.space[s].loc[key] = counter
    BY <1>1 DEF Space
  <2>2. PICK v \in UNION MostCommon(counter, TOP_LOCS) : item = Item(key, v, s, counter[v])
    BY <1>7, <2>1 DEF PlaceItems
  <2>3. v \in DOMAIN counter
    BY <2>2 DEF MostCommon
  <2>4. item.key = key /\ item.value = v /\ item.row = s /\ item.n = counter[v]
    BY <2>2 DEF Item
  <2>5. item.n = Cardinality({r \in Band(fk, s) : r[key] = v})
    BY <2>3, <2>4 DEF Counter
  <2>6. {k \in fk : Has(k, item.key, item.value) /\ InRow(k, item.row)}
          = {r \in Band(fk, s) : r[key] = v}
    BY <2>4, <1>2 DEF Has, InRow, LocationKeys, Band
  <2> QED BY <2>4, <2>5, <2>6 DEF Counts, FILTER_KEYS, LocationKeys
<1> QED BY <1>4, <1>5, <1>6, <1>7 DEF CardItems, RowItems

\* So do the hulls behind a target row.
LEMMA HullItemsCount ==
  ASSUME NEW fk, NEW b \in BUCKET_ORDER, NEW hulls,
         hulls = Counter({k \in fk : k.bucket = b}, "victim_ship"),
         NEW h \in DOMAIN hulls, NEW item, item = Item("prey", h, b, hulls[h])
  PROVE  item.key \in FILTER_KEYS /\ item.n = Counts(item, fk)
<1>1. item.key = "prey" /\ item.value = h /\ item.row = b /\ item.n = hulls[h]
  BY DEF Item
<1>2. hulls[h] = Cardinality({r \in {k \in fk : k.bucket = b} : r.victim_ship = h})
  BY DEF Counter
<1>3. {k \in fk : Has(k, item.key, item.value) /\ InRow(k, item.row)}
        = {r \in {k \in fk : k.bucket = b} : r.victim_ship = h}
  BY <1>1, BucketAssumption DEF Has, InRow, LocationKeys
<1> QED BY <1>1, <1>2, <1>3 DEF Counts, FILTER_KEYS

\* A filter that is added keeps, of the kills, those that have its value.
LEMMA AddedFilter ==
  ASSUME NEW k, NEW fs, NEW key \in FILTER_KEYS, key \notin DOMAIN fs, NEW value
  PROVE  Match(k, With(fs, key, value)) <=> Match(k, fs) /\ Has(k, key, value)
<1> DEFINE new == With(fs, key, value)
<1>1. /\ DOMAIN new = DOMAIN fs \cup {key} /\ new[key] = value
      /\ \A x \in DOMAIN fs : new[x] = fs[x]
  BY DEF With
<1> HIDE DEF new
<1>2. ASSUME NEW x, NEW v PROVE Keeps(new, x, v) <=> Keeps(fs, x, v) /\ (x = key => v = value)
  BY <1>1 DEF Keeps
<1>3. Match(k, new) <=> Match(k, fs) /\ Has(k, key, value)
  BY <1>2 DEF Match, MatchPlace, Has, FILTER_KEYS, LocationKeys
<1> QED BY <1>3 DEF new

\* A loss matches no other filters by one that only a kill can match, nor more by one added.
LEMMA LossFilter ==
  ASSUME NEW m, NEW fs, NEW key, NEW value
  PROVE  /\ key \in {"target", "prey"} => (MatchLoss(m, With(fs, key, value)) <=> MatchLoss(m, fs))
         /\ key \notin DOMAIN fs /\ MatchLoss(m, With(fs, key, value)) => MatchLoss(m, fs)
<1> DEFINE new == With(fs, key, value)
<1>1. /\ DOMAIN new = DOMAIN fs \cup {key}
      /\ \A x \in DOMAIN fs : x # key => new[x] = fs[x]
  BY DEF With
<1> HIDE DEF new
<1>2. \A x, v : x # key => (Keeps(new, x, v) <=> Keeps(fs, x, v))
  BY <1>1 DEF Keeps
<1>3. \A x, v : key \notin DOMAIN fs /\ Keeps(new, x, v) => Keeps(fs, x, v)
  BY <1>1 DEF Keeps
<1>4. key \in {"target", "prey"} => (MatchLoss(m, new) <=> MatchLoss(m, fs))
  BY <1>2 DEF MatchLoss, MatchPlace, LocationKeys
<1>5. key \notin DOMAIN fs /\ MatchLoss(m, new) => MatchLoss(m, fs)
  BY <1>3 DEF MatchLoss, MatchPlace
<1> QED BY <1>4, <1>5 DEF new

\* The losses of a view are finitely many.
LEMMA LossesAreFinite ==
  ASSUME NEW p, NEW built \in Builds, NEW fs
  PROVE  IsFiniteSet(LossesAt(p, built, fs))
<1> DEFINE ids == {l \in built.losses : LossTable[l].char = p}
           f == [i \in ids |-> Losses[i]]
<1>1. ids \subseteq DOMAIN LossTable
  BY DEF Builds
<1>2. IsFiniteSet(ids)
  <2> HIDE DEF ids
  <2> QED BY <1>1, StoreAssumption, FS_Subset
<1>3. DOMAIN f = ids /\ EntryAt(p, built).losses = {f[i] : i \in DOMAIN f}
  BY DEF EntryAt
<1>4. IsFiniteSet(EntryAt(p, built).losses)
  <2> HIDE DEF f, ids
  <2> QED BY <1>2, <1>3, ImageIsFinite
<1> QED BY <1>4, FS_Subset DEF LossesAt

\* Views of one moment show the same kills.
LEMMA OneMoment ==
  ASSUME NEW p, NEW one, NEW other, SameMoment(p, one, other), NEW w, NEW fs
  PROVE  KillsAt(p, one, w, fs) = KillsAt(p, other, w, fs)
BY DEF SameMoment, KillsAt, FilteredKills, Within, EntryAt

\* Of a set of kills, the row of a band, of a category or the total shows those in it.
LEMMA RowShows ==
  ASSUME NEW fk, NEW profile, profile.kills = Cardinality(fk),
         profile.targets = Targets(fk), profile.space = Space(fk), NEW item
  PROVE  ShownIn(profile, item) = Cardinality({k \in fk : InRow(k, item.row)})
<1>1. CASE item.row \in SPACE_ORDER
  <2>1. {k \in fk : InRow(k, item.row)} = Band(fk, item.row)
    <3>1. item.row \notin BUCKET_ORDER
      BY <1>1, BucketAssumption
    <3> QED BY <1>1, <3>1 DEF InRow, Band
  <2>2. Space(fk)[item.row].n = Cardinality(Band(fk, item.row))
    BY <1>1 DEF Space
  <2> QED BY <1>1, <2>1, <2>2 DEF ShownIn
<1>2. CASE item.row \in BUCKET_ORDER
  <2>1. item.row \notin SPACE_ORDER
    BY <1>2, BucketAssumption
  <2>2. {k \in fk : InRow(k, item.row)} = {k \in fk : k.bucket = item.row}
    BY <1>2, <2>1 DEF InRow
  <2> QED BY <1>2, <2>1, <2>2 DEF ShownIn, Targets
<1>3. CASE item.row \notin SPACE_ORDER /\ item.row \notin BUCKET_ORDER
  <2>1. {k \in fk : InRow(k, item.row)} = fk
    BY <1>3 DEF InRow
  <2> QED BY <1>3, <2>1 DEF ShownIn
<1> QED BY <1>1, <1>2, <1>3

\* The profile a click asks for keeps the kills it pointed at, if the store has not moved.
LEMMA TheRowIsKept ==
  ASSUME NEW w, NEW fs, NEW c, PointedAt(c, w, fs),
         NEW built, IsBuilt(built, w), NEW profile, IsProfile(profile, c.pilot, built, w, fs),
         SameMoment(c.pilot, built, c.built), built.losses = c.built.losses
  PROVE  /\ c.added => ShownIn(profile, c.item) = c.item.n
         /\ c.item.key \in {"target", "prey"} => profile.losses = c.lost
         /\ c.added => profile.losses =< c.lost
<1> DEFINE key == c.item.key
           value == c.item.value
           fk == KillsAt(c.pilot, built, w, fs)
<1>1. PICK old : /\ fs = With(old, key, value)
                 /\ c.added <=> key \notin DOMAIN old
                 /\ c.lost = Cardinality(LossesAt(c.pilot, c.built, old))
                 /\ c.item.n = Counts(c.item, KillsAt(c.pilot, c.built, w, old))
  BY DEF PointedAt
<1> DEFINE before == KillsAt(c.pilot, c.built, w, old)
           lossesNow == LossesAt(c.pilot, built, fs)
           lossesThen == LossesAt(c.pilot, c.built, old)
<1>2. /\ profile.kills = Cardinality(fk) /\ profile.losses = Cardinality(lossesNow)
      /\ profile.targets = Targets(fk) /\ profile.space = Space(fk)
  BY ProfileFields
<1>3. ASSUME c.added PROVE ShownIn(profile, c.item) = c.item.n
  <2>1. key \in FILTER_KEYS
    BY DEF PointedAt
  <2>2. fk = KillsAt(c.pilot, c.built, w, fs)
    BY OneMoment
  <2>3. fk = {k \in before : Has(k, key, value)}
    <3>1. \A k : Match(k, fs) <=> Match(k, old) /\ Has(k, key, value)
      <4> HIDE DEF key, value
      <4> QED BY <1>1, <1>3, <2>1, AddedFilter
    <3> HIDE DEF key, value
    <3> QED BY <2>2, <3>1 DEF KillsAt, FilteredKills
  <2>4. ShownIn(profile, c.item) = Cardinality({k \in fk : InRow(k, c.item.row)})
    <3> HIDE DEF fk
    <3> QED BY <1>2, RowShows
  <2>5. {k \in fk : InRow(k, c.item.row)}
          = {k \in before : Has(k, key, value) /\ InRow(k, c.item.row)}
    <3> HIDE DEF fk, before
    <3> QED BY <2>3
  <2> QED BY <1>1, <2>4, <2>5 DEF Counts
<1>4. EntryAt(c.pilot, built).losses = EntryAt(c.pilot, c.built).losses
  BY DEF EntryAt
<1>5. ASSUME key \in {"target", "prey"} PROVE profile.losses = c.lost
  <2>1. \A m : MatchLoss(m, fs) <=> MatchLoss(m, old)
    <3> HIDE DEF key, value
    <3> QED BY <1>1, <1>5, LossFilter
  <2>2. lossesNow = lossesThen
    BY <1>4, <2>1 DEF LossesAt
  <2> QED BY <1>1, <1>2, <2>2
<1>6. ASSUME c.added PROVE profile.losses =< c.lost
  <2>1. \A m : MatchLoss(m, fs) => MatchLoss(m, old)
    <3> HIDE DEF key, value
    <3> QED BY <1>1, <1>6, LossFilter
  <2>2. lossesNow \subseteq lossesThen
    BY <1>4, <2>1 DEF LossesAt
  <2>3. IsFiniteSet(lossesThen)
    BY LossesAreFinite DEF PointedAt, IsBuilt
  <2>4. Cardinality(lossesNow) =< Cardinality(lossesThen)
    <3> HIDE DEF lossesNow, lossesThen
    <3> QED BY <2>2, <2>3, FS_Subset
  <2> QED BY <1>1, <1>2, <2>4
<1> QED BY <1>3, <1>5, <1>6

-----------------------------------------------------------------------------
(* One load.                                                               *)

\* What is fetched makes the history of the view that is built from it.
LEMMA LoadIsBuilt ==
  ASSUME TypeInv, Asked
  PROVE  /\ IsBuilt(Built, window)
         /\ \A p : EntryOf(p) = EntryAt(p, Built) /\ KillsShown(p) = KillsAt(p, Built, window, filters)
<1>1. /\ fetched \subseteq DOMAIN KillTable /\ LossesFrom \subseteq DOMAIN LossTable
      /\ asked.today \in Int /\ late \in Nat
  BY DateAssumption DEF TypeInv, Asked, LossesFrom
<1>2. Built \in Builds
  BY <1>1 DEF Built, Builds
<1>3. \A i \in LossesFrom : LossTable[i].d >= FirstDay(asked.window, asked.today)
  BY DEF LossesFrom, OfLoad
<1>4. IsBuilt(Built, window)
  BY <1>2, <1>3 DEF IsBuilt, Built, Asked
<1>5. ASSUME NEW p PROVE EntryOf(p) = EntryAt(p, Built)
  BY DEF EntryOf, EntryAt, RowsOf, Built
<1>6. ASSUME NEW p PROVE KillsShown(p) = KillsAt(p, Built, window, filters)
  BY <1>5 DEF KillsShown, KillsAt, Asked, Built
<1> QED BY <1>4, <1>5, <1>6

\* A profile that is built from it is one of what the page asks for.
LEMMA LoadedProfile ==
  ASSUME TypeInv, Asked, NEW who, NEW order \in OrdersOf(who), NEW p \in who
  PROVE  IsProfile(Profile(p, order), p, Built, window, filters)
<1>1. order[p] \in Orders(KillsShown(p))
  BY DEF OrdersOf
<1>2. Profile(p, order) = BuildProfile(EntryAt(p, Built), window, filters, Built.today, order[p])
  BY LoadIsBuilt DEF Profile, Asked, Built
<1> QED BY <1>1, <1>2, LoadIsBuilt DEF IsProfile

\* The next query of a request is of the same request.
LEMMA NextQuery ==
  ASSUME NEW a, IsRequest(a), NEW s
  PROVE  LET b == [a EXCEPT !.step = s]
         IN  /\ IsRequest(b) /\ b.step = s
             /\ b.mode = a.mode /\ b.who = a.who /\ b.bucket = a.bucket
             /\ b.window = a.window /\ b.filters = a.filters /\ b.today = a.today
BY DEF IsRequest

-----------------------------------------------------------------------------
(* The invariant holds at first, and each step keeps it.                   *)

\* The store is finite, and so are the halves of it a load is about.
LEMMA StoreIsFinite ==
  ASSUME TypeInv
  PROVE  /\ IsFiniteSet(kills) /\ IsFiniteSet(losses)
         /\ Cardinality(kills) \in Nat /\ Cardinality(losses) \in Nat
         /\ IsFiniteSet(KillsFrom) /\ IsFiniteSet(LossesFrom) /\ IsFiniteSet(fetched)
         /\ Cardinality(KillsFrom) \in Nat /\ Cardinality(LossesFrom) \in Nat
         /\ Cardinality(fetched) \in Nat
<1>1. IsFiniteSet(kills) /\ IsFiniteSet(losses)
  BY StoreAssumption, FS_Subset DEF TypeInv
<1>2. KillsFrom \subseteq kills /\ LossesFrom \subseteq losses /\ fetched \subseteq kills
  BY DEF KillsFrom, LossesFrom, TypeInv
<1>3. IsFiniteSet(KillsFrom) /\ IsFiniteSet(LossesFrom) /\ IsFiniteSet(fetched)
  BY <1>1, <1>2, FS_Subset
<1> QED BY <1>1, <1>3, FS_CardinalityType

\* Nothing is shown or asked at first.
LEMMA InvInit == Init => Inv
<1> SUFFICES ASSUME Init PROVE Inv
  OBVIOUS
<1> USE DEF Init
<1>1. /\ page.status = "none" /\ card.status = "none" /\ drill.status = "none"
      /\ asked.step = "idle"
  BY DEF NoPage, NoCard, NoDrill, Idle
<1>2. TypeInv
  <2>1. IsFiniteSet(kills) /\ IsFiniteSet(losses)
    BY StoreAssumption, FS_Subset
  <2>2. Cardinality(kills) \in Nat /\ Cardinality(losses) \in Nat
    BY <2>1, FS_CardinalityType
  <2>3. late \in Nat /\ late =< Cardinality(kills) + Cardinality(losses)
    BY <2>2
  <2>4. today \in FirstToday .. LastToday
    BY DateAssumption
  <2>5. DOMAIN filters \subseteq FILTER_KEYS
    BY DEF NoFilters
  <2> QED BY <2>3, <2>4, <2>5, <1>1 DEF TypeInv
<1>3. BudgetInv
  BY <1>1 DEF BudgetInv
<1>4. RowsWithinBudget
  BY <1>1 DEF RowsWithinBudget
<1>5. ViewsAgree /\ ViewInv
  BY <1>1 DEF ViewsAgree, ViewInv
<1>6. ClickInv
  BY DEF ClickInv
<1> QED BY <1>2, <1>3, <1>4, <1>5, <1>6 DEF Inv

\* What is not open is not shown, and what is not asked is not under way.
LEMMA NothingShown ==
  NoCard.status = "none" /\ NoDrill.status = "none" /\ NoPage.status = "none" /\ Idle.step = "idle"
BY DEF NoCard, NoDrill, NoPage, Idle

\* Asking for rows leaves those on display as they are, without card and drill-down.
LEMMA AskKeeps ==
  ASSUME Inv, NEW w \in DOMAIN WindowDays, NEW fs, DOMAIN fs \subseteq FILTER_KEYS, NEW from,
         Ask(w, fs, from), from = NoClick \/ PointedAt(from, w, fs)
  PROVE  Inv'
<1>1. asked' = [step |-> "count", mode |-> "blocks", who |-> Pilots, bucket |-> "none",
                window |-> window', filters |-> filters', today |-> today]
  BY DEF Ask, Request
<1>2. /\ IsRequest(asked)' /\ asked'.step = "count" /\ asked'.mode = "blocks" /\ asked'.who = Pilots
      /\ asked'.window = window' /\ asked'.filters = filters' /\ asked'.today = today
  BY <1>1 DEF IsRequest
<1>3. /\ window' = w /\ filters' = fs /\ card' = NoCard /\ drill' = NoDrill /\ clicked' = from
      /\ UNCHANGED <<kills, losses, today, fetched, page, late>>
  BY DEF Ask
<1>4. TypeInv'
  <2>1. Asked'
    BY <1>2, <1>3 DEF Asked, ForRows, Inv, TypeInv
  <2> QED BY <1>3, <2>1 DEF Inv, TypeInv
<1>5. BudgetInv'
  BY <1>2 DEF BudgetInv
<1>6. RowsWithinBudget'
  BY <1>3, NothingShown DEF Inv, RowsWithinBudget
<1>7. ViewsAgree'
  BY <1>3 DEF Inv, ViewsAgree
<1>8. ViewInv'
  <2>1. ~ Current'
    BY <1>2, NothingShown DEF Current
  <2> QED BY <2>1, <1>3 DEF ViewInv
<1>9. ClickInv'
  BY <1>2, <1>3, NothingShown DEF ClickInv
<1> QED BY <1>4, <1>5, <1>6, <1>7, <1>8, <1>9 DEF Inv

\* Asking for a card or the hulls behind a row changes no view.
LEMMA FragmentKeeps ==
  ASSUME Inv, NEW mode, NEW p \in Pilots, NEW bucket, Fragment(mode, p, bucket),
         \/ mode = "detail" /\ page.status = "shown" /\ card = NoCard
         \/ /\ mode = "targets" /\ card # NoCard /\ drill = NoDrill
            /\ p = card.pilot /\ bucket \in BUCKET_ORDER
  PROVE  Inv'
<1>1. UNCHANGED <<kills, losses, late, today, window, filters, fetched, page, card, drill, clicked>>
  BY DEF Fragment, view
<1>2. asked' = [step |-> "count", mode |-> mode, who |-> {p}, bucket |-> bucket,
                window |-> window', filters |-> filters', today |-> today]
  BY DEF Fragment, Request
<1>3. /\ IsRequest(asked)' /\ asked'.step = "count" /\ asked'.mode = mode /\ asked'.who = {p}
      /\ asked'.window = window' /\ asked'.filters = filters' /\ asked'.today = today
      /\ asked'.bucket = bucket
  BY <1>2 DEF IsRequest
<1>4. asked = Idle
  BY DEF Fragment
<1>5. TypeInv'
  <2>1. (ForCard \/ ForHulls)'
    BY <1>1, <1>3 DEF ForCard, ForHulls
  <2>2. Asked'
    BY <1>1, <1>3, <2>1 DEF Asked, Inv, TypeInv
  <2> QED BY <1>1, <2>2 DEF Inv, TypeInv
<1>6. BudgetInv'
  BY <1>3 DEF BudgetInv
<1>7. RowsWithinBudget' /\ ViewsAgree'
  BY <1>1 DEF Inv, RowsWithinBudget, ViewsAgree
<1>8. ViewInv'
  BY <1>1, <1>4 DEF Inv, ViewInv, Current
<1>9. ClickInv'
  <2>1. clicked = NoClick
    BY <1>4 DEF Inv, ClickInv
  <2> QED BY <2>1, <1>1 DEF ClickInv
<1> QED BY <1>5, <1>6, <1>7, <1>8, <1>9 DEF Inv

\* A click points at what the view it is in counts.
LEMMA ClickPoints ==
  ASSUME NEW p \in Pilots, NEW w, NEW fs, NEW item, item.key \in FILTER_KEYS,
         NEW built \in Builds, item.n = Counts(item, KillsAt(p, built, w, fs)),
         NEW lost, lost = Cardinality(LossesAt(p, built, fs))
  PROVE  PointedAt([item |-> item, pilot |-> p, built |-> built,
                    added |-> item.key \notin DOMAIN fs, lost |-> lost],
                   w, With(fs, item.key, item.value))
<1> DEFINE c == [item |-> item, pilot |-> p, built |-> built,
                 added |-> item.key \notin DOMAIN fs, lost |-> lost]
<1>1. /\ c.item = item /\ c.pilot = p /\ c.built = built /\ c.lost = lost
      /\ c.added <=> item.key \notin DOMAIN fs
  OBVIOUS
<1> HIDE DEF c
<1>2. PointedAt(c, w, With(fs, item.key, item.value))
  BY <1>1 DEF PointedAt
<1> QED BY <1>2 DEF c

\* So a click asks for rows the way any change of the filters does.
LEMMA ClickKeeps ==
  ASSUME Inv, NEW p \in Pilots, NEW item, item.key \in FILTER_KEYS,
         NEW built \in Builds, NEW profile,
         item.n = Counts(item, KillsAt(p, built, window, filters)),
         profile.losses = Cardinality(LossesAt(p, built, filters)),
         Click(item, p, built, profile)
  PROVE  Inv'
<1> DEFINE from == [item |-> item, pilot |-> p, built |-> built,
                    added |-> item.key \notin DOMAIN filters, lost |-> profile.losses]
           fs == With(filters, item.key, item.value)
<1>1. Ask(window, fs, from)
  BY DEF Click, With
<1>2. PointedAt(from, window, fs)
  BY ClickPoints
<1>3. DOMAIN fs \subseteq FILTER_KEYS /\ window \in DOMAIN WindowDays
  BY DEF With, Inv, TypeInv
<1> HIDE DEF from, fs
<1> QED BY <1>1, <1>2, <1>3, AskKeeps

\* Whatever the reader clicks keeps the invariant.
LEMMA ReaderKeeps ==
  ASSUME Inv,
         \/ OpenScan \/ ClearFilters \/ ClickCard \/ ClickHull
         \/ \E w \in DOMAIN WindowDays : PickWindow(w)
         \/ \E key \in FILTER_KEYS : DropChip(key)
         \/ \E p \in Pilots : ClickRow(p) \/ OpenCard(p)
         \/ \E b \in BUCKET_ORDER : OpenDrill(b)
  PROVE  Inv'
<1> DEFINE Fine(fs) == DOMAIN fs \subseteq FILTER_KEYS
<1>1. /\ window \in DOMAIN WindowDays /\ Fine(filters) /\ Fine(NoFilters)
      /\ card # NoCard => card.pilot \in Pilots /\ card.status = "shown"
      /\ drill # NoDrill => card # NoCard /\ drill.bucket \in BUCKET_ORDER
  BY DEF Inv, TypeInv, NoFilters
<1>2. ASSUME OpenScan PROVE Inv'
  BY <1>1, <1>2, AskKeeps DEF OpenScan
<1>3. ASSUME ClearFilters PROVE Inv'
  BY <1>1, <1>3, AskKeeps DEF ClearFilters
<1>4. ASSUME NEW w \in DOMAIN WindowDays, PickWindow(w) PROVE Inv'
  BY <1>1, <1>4, AskKeeps DEF PickWindow
<1>5. ASSUME NEW key \in FILTER_KEYS, DropChip(key) PROVE Inv'
  <2> DEFINE fs == [k \in DOMAIN filters \ {key} |-> filters[k]]
  <2>1. Fine(fs) /\ Ask(window, fs, NoClick)
    BY <1>1, <1>5 DEF DropChip
  <2> HIDE DEF fs
  <2> QED BY <1>1, <2>1, AskKeeps
<1>6. ASSUME NEW p \in Pilots, ClickRow(p) PROVE Inv'
  <2>1. PICK item \in RowItems(page.profiles[p]) : Click(item, p, page.built, page.profiles[p])
    BY <1>6 DEF ClickRow
  <2>2. page.status = "shown" /\ asked = Idle
    BY <1>6, <2>1 DEF ClickRow, Click, Ask
  <2>3. /\ IsBuilt(page.built, window)
        /\ IsProfile(page.profiles[p], p, page.built, window, filters)
    BY <2>2 DEF Inv, ViewInv, Current
  <2>4. item \in CardItems(page.profiles[p])
    BY <2>1 DEF CardItems
  <2>5. /\ item.key \in FILTER_KEYS
        /\ item.n = Counts(item, KillsAt(p, page.built, window, filters))
    BY <2>3, <2>4, ItemsCount
  <2> DEFINE profile == page.profiles[p]
  <2> HIDE DEF profile
  <2>6. profile.losses = Cardinality(LossesAt(p, page.built, filters))
    <3>1. IsProfile(profile, p, page.built, window, filters)
      BY <2>3 DEF profile
    <3> QED BY <3>1, <2>3, ProfileFields
  <2>7. page.built \in Builds
    BY <2>3 DEF IsBuilt
  <2>8. Click(item, p, page.built, profile)
    BY <2>1 DEF profile
  <2> QED BY <2>5, <2>6, <2>7, <2>8, ClickKeeps
<1>7. ASSUME ClickCard PROVE Inv'
  <2>1. PICK item \in CardItems(card.profile) : Click(item, card.pilot, card.built, card.profile)
    BY <1>7 DEF ClickCard
  <2>2. card.pilot \in Pilots
    BY <1>1, <1>7 DEF ClickCard
  <2>3. /\ IsBuilt(card.built, window)
        /\ IsProfile(card.profile, card.pilot, card.built, window, filters)
    BY <1>7 DEF ClickCard, Inv, ViewInv
  <2>4. /\ item.key \in FILTER_KEYS
        /\ item.n = Counts(item, KillsAt(card.pilot, card.built, window, filters))
    BY <2>1, <2>3, ItemsCount
  <2>5. card.profile.losses = Cardinality(LossesAt(card.pilot, card.built, filters))
    BY <2>3, ProfileFields
  <2>6. card.built \in Builds
    BY <2>3 DEF IsBuilt
  <2> QED BY <2>1, <2>2, <2>4, <2>5, <2>6, ClickKeeps
<1>8. ASSUME ClickHull PROVE Inv'
  <2> DEFINE built == [drill.built EXCEPT !.losses = card.built.losses]
             p == card.pilot
             profile == card.profile
  <2>1. PICK item \in DrillItems : Click(item, p, built, profile)
    BY <1>8 DEF ClickHull
  <2>2. drill # NoDrill /\ p \in Pilots /\ drill.bucket \in BUCKET_ORDER
    BY <1>1, <1>8 DEF ClickHull
  <2>3. /\ IsBuilt(drill.built, window) /\ IsBuilt(card.built, window)
        /\ drill.hulls = HullsAt(p, drill.built, window, filters, drill.bucket)
        /\ IsProfile(profile, p, card.built, window, filters)
    BY <1>1, <2>2 DEF Inv, ViewInv
  <2>4. /\ built \in Builds
        /\ built.kills = drill.built.kills /\ built.today = drill.built.today
        /\ built.losses = card.built.losses
    <3>1. drill.built \in Builds /\ card.built \in Builds
      BY <2>3 DEF IsBuilt
    <3> QED BY <3>1 DEF Builds
  <2> HIDE DEF built, p, profile
  <2>5. KillsAt(p, built, window, filters) = KillsAt(p, drill.built, window, filters)
    BY <2>4, OneMoment DEF SameMoment, RowsOf
  <2>6. /\ item.key \in FILTER_KEYS
        /\ item.n = Counts(item, KillsAt(p, built, window, filters))
    <3>1. PICK h \in DOMAIN drill.hulls : item = Item("prey", h, drill.bucket, drill.hulls[h])
      BY <2>1 DEF DrillItems
    <3> QED BY <2>2, <2>3, <2>5, <3>1, HullItemsCount DEF HullsAt
  <2>7. profile.losses = Cardinality(LossesAt(p, built, filters))
    <3>1. profile.losses = Cardinality(LossesAt(p, card.built, filters))
      <4>1. IsBuilt(card.built, window) /\ IsProfile(profile, p, card.built, window, filters)
        BY <2>3
      <4> QED BY <4>1, ProfileFields
    <3>2. LossesAt(p, built, filters) = LossesAt(p, card.built, filters)
      BY <2>4 DEF LossesAt, EntryAt
    <3> QED BY <3>1, <3>2
  <2> QED BY <2>1, <2>2, <2>4, <2>6, <2>7, ClickKeeps
<1>9. ASSUME NEW p \in Pilots, OpenCard(p) PROVE Inv'
  BY <1>9, FragmentKeeps DEF OpenCard
<1>10. ASSUME NEW b \in BUCKET_ORDER, OpenDrill(b) PROVE Inv'
  BY <1>1, <1>10, FragmentKeeps DEF OpenDrill
<1> QED BY <1>2, <1>3, <1>4, <1>5, <1>6, <1>7, <1>8, <1>9, <1>10

\* The first two queries go on with the same request and leave every view as it is.
LEMMA QueryKeeps ==
  ASSUME Inv, Count \/ FetchKills
  PROVE  Inv'
<1>1. /\ UNCHANGED <<kills, losses, late, today, window, filters, page, card, drill, clicked>>
      /\ fetched' = fetched \/ fetched' = KillsFrom
  BY DEF Count, FetchKills, store, view
<1>2. asked # Idle /\ Asked /\ IsRequest(asked)
  BY NothingShown DEF Inv, TypeInv, Count, FetchKills, Asked
<1>3. PICK s \in {"kills", "losses"} : asked' = [asked EXCEPT !.step = s]
  BY DEF Count, FetchKills
<1>4. /\ IsRequest(asked)' /\ asked'.step = s
      /\ asked'.mode = asked.mode /\ asked'.who = asked.who /\ asked'.bucket = asked.bucket
      /\ asked'.window = asked.window /\ asked'.filters = asked.filters
      /\ asked'.today = asked.today
  <2> DEFINE b == [asked EXCEPT !.step = s]
  <2>1. /\ IsRequest(b) /\ b.step = s
        /\ b.mode = asked.mode /\ b.who = asked.who /\ b.bucket = asked.bucket
        /\ b.window = asked.window /\ b.filters = asked.filters /\ b.today = asked.today
    BY <1>2, NextQuery
  <2>2. asked' = b
    BY <1>3
  <2> HIDE DEF b
  <2> QED BY <2>1, <2>2 DEF IsRequest
<1>5. KillsFrom' = KillsFrom /\ LossesFrom' = LossesFrom
  BY <1>1, <1>4 DEF KillsFrom, LossesFrom, OfLoad
<1>6. TypeInv'
  <2>1. (ForRows \/ ForCard \/ ForHulls)'
    BY <1>1, <1>2, <1>4 DEF Asked, ForRows, ForCard, ForHulls
  <2>2. Asked'
    BY <1>1, <1>2, <1>4, <2>1 DEF Asked
  <2>3. fetched' \subseteq kills'
    BY <1>1 DEF Inv, TypeInv, KillsFrom
  <2> QED BY <1>1, <2>2, <2>3 DEF Inv, TypeInv
<1>7. BudgetInv'
  <2>1. CASE Count
    <3>1. Cardinality(KillsFrom) + Cardinality(LossesFrom) =< MAX_SCAN_ROWS
      BY <2>1, StoreIsFinite, BudgetAssumption DEF Count, ScanTooLarge, Inv
    <3>2. asked'.step = "kills"
      BY <2>1, <1>2 DEF Count, IsRequest
    <3>3. late \in Nat
      BY DEF Inv, TypeInv
    <3> QED BY <1>1, <1>5, <3>1, <3>2, <3>3, StoreIsFinite, BudgetAssumption DEF BudgetInv, Inv
  <2>2. CASE FetchKills
    <3>1. asked.step = "kills" /\ asked'.step = "losses" /\ fetched' = KillsFrom
      BY <2>2, <1>2 DEF FetchKills, IsRequest
    <3> QED BY <1>1, <1>5, <3>1 DEF BudgetInv, Inv
  <2> QED BY <2>1, <2>2
<1>8. RowsWithinBudget' /\ ViewsAgree'
  BY <1>1 DEF Inv, RowsWithinBudget, ViewsAgree
<1>9. ViewInv'
  BY <1>1, <1>2, <1>4, NothingShown DEF Inv, ViewInv, Current
<1>10. ClickInv'
  BY <1>1, <1>4, NothingShown DEF Inv, ClickInv
<1> QED BY <1>6, <1>7, <1>8, <1>9, <1>10 DEF Inv

\* A refusal takes the place of the rows; a card or the hulls of a row are not opened.
LEMMA RefuseKeeps ==
  ASSUME Inv, Refuse
  PROVE  Inv'
<1>1. /\ UNCHANGED <<kills, losses, late, today, window, filters, fetched, card, drill>>
      /\ asked' = Idle /\ clicked' = NoClick
      /\ page' = IF asked.mode = "blocks" THEN [status |-> "refused"] ELSE page
  BY DEF Refuse, store
<1>2. asked # Idle /\ Asked
  BY NothingShown DEF Inv, TypeInv, Refuse
<1>3. CASE asked.mode = "blocks"
  <2>1. page'.status = "refused" /\ card' = NoCard /\ drill' = NoDrill
    BY <1>1, <1>2, <1>3 DEF Asked, ForRows, ForCard, ForHulls
  <2>2. TypeInv'
    BY <1>1, <2>1 DEF Inv, TypeInv
  <2>3. BudgetInv'
    BY <1>1, NothingShown DEF BudgetInv
  <2>4. RowsWithinBudget' /\ ViewsAgree' /\ ViewInv'
    BY <2>1, NothingShown DEF RowsWithinBudget, ViewsAgree, ViewInv
  <2> QED BY <1>1, <2>2, <2>3, <2>4 DEF Inv, ClickInv
<1>4. CASE asked.mode # "blocks"
  <2>1. page' = page
    BY <1>1, <1>4
  <2>2. TypeInv'
    BY <1>1, <2>1 DEF Inv, TypeInv
  <2>3. BudgetInv'
    BY <1>1, NothingShown DEF BudgetInv
  <2>4. RowsWithinBudget' /\ ViewsAgree'
    BY <1>1, <2>1 DEF Inv, RowsWithinBudget, ViewsAgree
  <2>5. ViewInv'
    BY <1>1, <1>4, <2>1 DEF Inv, ViewInv, Current
  <2> QED BY <1>1, <2>2, <2>3, <2>4, <2>5 DEF Inv, ClickInv
<1> QED BY <1>3, <1>4

\* The last query makes a view of what was fetched, which the budget bounds.
LEMMA BuiltWithinBudget ==
  ASSUME Inv, asked.step = "losses"
  PROVE  Cardinality(Built.kills) + Cardinality(Built.losses) =< MAX_SCAN_ROWS + Built.late
BY DEF Inv, BudgetInv, Built

\* What the last query leaves alone, whichever view it makes.
LEMMA LoadEnds ==
  ASSUME Inv, FetchLosses
  PROVE  /\ Asked /\ asked # Idle /\ asked.step = "losses" /\ IsBuilt(Built, window)
         /\ asked' = Idle /\ fetched' = {} /\ clicked' = NoClick /\ late' = 0
         /\ UNCHANGED <<kills, losses, today, window, filters>>
         /\ BudgetInv' /\ ClickInv'
<1>1. asked.step = "losses"
  BY DEF FetchLosses
<1>2. Asked /\ asked # Idle
  BY <1>1, NothingShown DEF Inv, TypeInv
<1>3. IsBuilt(Built, window)
  BY <1>2, LoadIsBuilt DEF Inv
<1>4. /\ asked' = Idle /\ fetched' = {} /\ clicked' = NoClick /\ late' = 0
      /\ UNCHANGED <<kills, losses, today, window, filters>>
  BY DEF FetchLosses
<1>5. BudgetInv' /\ ClickInv'
  BY <1>4, NothingShown DEF BudgetInv, ClickInv
<1> QED BY <1>1, <1>2, <1>3, <1>4, <1>5

\* The types hold after the last query if they do of the views.
LEMMA LoadEndsTyped ==
  ASSUME Inv, FetchLosses,
         page'.status \in {"none", "shown", "refused"},
         card' = NoCard \/ (card'.status = "shown" /\ page'.status = "shown" /\ card'.pilot \in Pilots),
         drill' = NoDrill
           \/ (drill'.status = "shown" /\ card' # NoCard /\ drill'.bucket \in BUCKET_ORDER)
  PROVE  TypeInv'
<1>1. Cardinality(kills) \in Nat /\ Cardinality(losses) \in Nat
  BY StoreIsFinite DEF Inv
<1>2. 0 \in Nat /\ 0 =< Cardinality(kills) + Cardinality(losses)
  BY <1>1
<1> QED BY <1>2, LoadEnds DEF TypeInv, Inv

\* The rows that answer a request are of what the page asks for.
LEMMA RowsKeep ==
  ASSUME Inv, FetchLosses, ShowRows
  PROVE  /\ Inv'
         /\ page'.status = "shown" /\ page'.built = Built
         /\ \A p \in Pilots : IsProfile(page'.profiles[p], p, page'.built, window, filters)
<1>1. PICK order \in OrdersOf(Pilots) :
        page' = [status |-> "shown", built |-> Built, profiles |-> [p \in Pilots |-> Profile(p, order)]]
  BY DEF ShowRows
<1>2. /\ page'.status = "shown" /\ page'.built = Built
      /\ \A p \in Pilots : page'.profiles[p] = Profile(p, order)
  BY <1>1
<1>3. card = NoCard /\ drill = NoDrill /\ UNCHANGED <<card, drill>>
  BY LoadEnds DEF ShowRows, Asked, ForRows, ForCard, ForHulls
<1>4. ASSUME NEW p \in Pilots PROVE IsProfile(page'.profiles[p], p, Built, window, filters)
  BY <1>2, LoadEnds, LoadedProfile DEF Inv
<1>5. TypeInv'
  BY <1>2, <1>3, LoadEndsTyped
<1>6. RowsWithinBudget'
  BY <1>2, <1>3, LoadEnds, BuiltWithinBudget, NothingShown DEF RowsWithinBudget
<1>7. window \in DOMAIN WindowDays
  BY DEF Inv, TypeInv
<1>8. ViewsAgree'
  <2>1. ASSUME NEW p \in Pilots PROVE Consistent(page'.profiles[p], page'.built)
    BY <1>2, <1>4, <1>7, LoadEnds, ProfilesAreConsistent
  <2>2. card' = NoCard
    BY <1>3
  <2> QED BY <2>1, <2>2 DEF ViewsAgree, Consistent, KillsOf, NotDrawn, NotListed
<1>9. ViewInv'
  <2>1. /\ page'.status = "shown"
        /\ IsBuilt(page'.built, window')
        /\ \A p \in Pilots : IsProfile(page'.profiles[p], p, page'.built, window', filters')
    BY <1>2, <1>4, LoadEnds
  <2>2. card' = NoCard /\ drill' = NoDrill
    BY <1>3
  <2> QED BY <2>1, <2>2 DEF ViewInv
<1>10. Inv'
  BY <1>5, <1>6, <1>8, <1>9, LoadEnds DEF Inv
<1> QED BY <1>2, <1>4, <1>10

\* So is the card that does.
LEMMA CardKeeps ==
  ASSUME Inv, FetchLosses, NEW p \in asked.who, ShowCard(p)
  PROVE  Inv'
<1>1. PICK order \in OrdersOf({p}) :
        card' = [status |-> "shown", pilot |-> p, built |-> Built, profile |-> Profile(p, order)]
  BY DEF ShowCard
<1>2. /\ card'.status = "shown" /\ card'.pilot = p /\ card'.built = Built
      /\ card'.profile = Profile(p, order)
  BY <1>1
<1>3. card' # NoCard
  BY <1>2, NothingShown
<1>4. asked.mode = "detail" /\ UNCHANGED <<page, drill>>
  BY DEF ShowCard
<1>5. /\ ForCard /\ p \in Pilots /\ page.status = "shown" /\ card = NoCard /\ drill = NoDrill
  <2>1. ForCard /\ p \in Pilots
    BY <1>4, LoadEnds DEF Asked, ForRows, ForCard, ForHulls
  <2> QED BY <2>1 DEF ForCard, Inv, TypeInv
<1>6. IsProfile(card'.profile, p, Built, window, filters)
  BY <1>2, LoadEnds, LoadedProfile DEF Inv
<1>7. TypeInv'
  BY <1>2, <1>4, <1>5, LoadEndsTyped
<1>8. RowsWithinBudget'
  BY <1>2, <1>4, <1>5, LoadEnds, BuiltWithinBudget, NothingShown DEF RowsWithinBudget, Inv
<1>9. ViewsAgree'
  <2>1. Consistent(card'.profile, card'.built)
    BY <1>2, <1>6, LoadEnds, ProfilesAreConsistent DEF Inv, TypeInv
  <2> QED BY <1>4, <2>1 DEF ViewsAgree, Inv
<1>10. ViewInv'
  <2>1. Current
    BY <1>4 DEF Current
  <2>2. /\ IsBuilt(page.built, window)
        /\ \A q \in Pilots : IsProfile(page.profiles[q], q, page.built, window, filters)
    BY <1>5, <2>1 DEF Inv, ViewInv
  <2>3. drill' = NoDrill
    BY <1>4, <1>5
  <2> QED BY <1>2, <1>4, <1>6, <2>2, <2>3, LoadEnds DEF ViewInv
<1> QED BY <1>7, <1>8, <1>9, <1>10, LoadEnds DEF Inv

\* And the hulls behind a row of the open card.
LEMMA HullsKeep ==
  ASSUME Inv, FetchLosses, NEW p \in asked.who, ShowDrill(p)
  PROVE  Inv'
<1>1. /\ drill'.status = "shown" /\ drill'.bucket = asked.bucket /\ drill'.built = Built
      /\ drill'.hulls = BuildTargetHulls(EntryOf(p), asked.window, asked.filters, asked.today, asked.bucket)
      /\ asked.mode = "targets" /\ UNCHANGED <<page, card>>
  BY DEF ShowDrill
<1>2. card # NoCard /\ p = card.pilot /\ asked.bucket \in BUCKET_ORDER /\ drill = NoDrill
  BY <1>1, LoadEnds DEF Asked, ForRows, ForCard, ForHulls
<1>3. drill'.hulls = HullsAt(card.pilot, Built, window, filters, asked.bucket)
  <2>1. EntryOf(p) = EntryAt(p, Built)
    BY LoadEnds, LoadIsBuilt DEF Inv
  <2>2. /\ asked.window = window /\ asked.filters = filters /\ asked.today = Built.today
    BY LoadEnds DEF Asked, Built
  <2> QED BY <1>1, <1>2, <2>1, <2>2 DEF BuildTargetHulls, HullsAt, KillsAt
<1>4. TypeInv'
  BY <1>1, <1>2, LoadEndsTyped DEF Inv, TypeInv
<1>5. RowsWithinBudget'
  BY <1>1, LoadEnds, BuiltWithinBudget DEF RowsWithinBudget, Inv
<1>6. ViewsAgree'
  BY <1>1 DEF ViewsAgree, Inv
<1>7. ViewInv'
  <2>1. Current
    BY <1>1 DEF Current
  <2> QED BY <1>1, <1>2, <1>3, <2>1, LoadEnds DEF ViewInv, Inv
<1> QED BY <1>4, <1>5, <1>6, <1>7, LoadEnds DEF Inv

\* A set that has at most one element more is at most one larger.
LEMMA OneMore ==
  ASSUME NEW S, IsFiniteSet(S), NEW x, NEW T, T \subseteq S \cup {x}
  PROVE  /\ IsFiniteSet(T) /\ Cardinality(T) \in Nat /\ Cardinality(T) =< Cardinality(S) + 1
         /\ x \notin S => Cardinality(S \cup {x}) = Cardinality(S) + 1
<1>1. IsFiniteSet(S \cup {x})
      /\ Cardinality(S \cup {x}) = IF x \in S THEN Cardinality(S) ELSE Cardinality(S) + 1
  BY FS_AddElement
<1>2. IsFiniteSet(T) /\ Cardinality(T) =< Cardinality(S \cup {x})
  BY <1>1, FS_Subset
<1>3. Cardinality(S) \in Nat /\ Cardinality(T) \in Nat
  BY <1>2, FS_CardinalityType
<1> QED BY <1>1, <1>2, <1>3

\* A row the collector adds is one more, in the store and at most in what a load is about.
LEMMA OneRow ==
  ASSUME Inv,
         \/ \E i \in DOMAIN KillTable : CollectKill(i)
         \/ \E i \in DOMAIN LossTable : CollectLoss(i)
  PROVE  /\ kills \subseteq kills' /\ kills' \subseteq DOMAIN KillTable
         /\ losses' \subseteq DOMAIN LossTable
         /\ Cardinality(kills') + Cardinality(losses') = Cardinality(kills) + Cardinality(losses) + 1
         /\ Cardinality(KillsFrom') + Cardinality(LossesFrom')
              =< Cardinality(KillsFrom) + Cardinality(LossesFrom) + 1
         /\ Cardinality(LossesFrom') =< Cardinality(LossesFrom) + 1
         /\ Cardinality(KillsFrom') \in Nat /\ Cardinality(LossesFrom') \in Nat
<1>1. /\ IsFiniteSet(kills) /\ IsFiniteSet(losses)
      /\ Cardinality(kills) \in Nat /\ Cardinality(losses) \in Nat
      /\ IsFiniteSet(KillsFrom) /\ IsFiniteSet(LossesFrom)
      /\ Cardinality(KillsFrom) \in Nat /\ Cardinality(LossesFrom) \in Nat
  BY StoreIsFinite DEF Inv
<1>2. kills \subseteq DOMAIN KillTable /\ losses \subseteq DOMAIN LossTable
  BY DEF Inv, TypeInv
<1>3. CASE \E i \in DOMAIN KillTable : CollectKill(i)
  <2>1. PICK i \in DOMAIN KillTable : CollectKill(i)
    BY <1>3
  <2>2. i \notin kills /\ kills' = kills \cup {i} /\ losses' = losses /\ asked' = asked
    BY <2>1 DEF CollectKill
  <2>3. KillsFrom' \subseteq KillsFrom \cup {i} /\ LossesFrom' = LossesFrom
    BY <2>2 DEF KillsFrom, LossesFrom, OfLoad
  <2>4. /\ Cardinality(kills') = Cardinality(kills) + 1
        /\ Cardinality(KillsFrom') \in Nat
        /\ Cardinality(KillsFrom') =< Cardinality(KillsFrom) + 1
    BY <1>1, <2>2, <2>3, OneMore
  <2> QED BY <1>1, <1>2, <2>2, <2>3, <2>4
<1>4. CASE \E i \in DOMAIN LossTable : CollectLoss(i)
  <2>1. PICK i \in DOMAIN LossTable : CollectLoss(i)
    BY <1>4
  <2>2. i \notin losses /\ losses' = losses \cup {i} /\ kills' = kills /\ asked' = asked
    BY <2>1 DEF CollectLoss
  <2>3. LossesFrom' \subseteq LossesFrom \cup {i} /\ KillsFrom' = KillsFrom
    BY <2>2 DEF KillsFrom, LossesFrom, OfLoad
  <2>4. /\ Cardinality(losses') = Cardinality(losses) + 1
        /\ Cardinality(LossesFrom') \in Nat
        /\ Cardinality(LossesFrom') =< Cardinality(LossesFrom) + 1
    BY <1>1, <2>2, <2>3, OneMore
  <2> QED BY <1>1, <1>2, <2>2, <2>3, <2>4
<1> QED BY <1>3, <1>4

\* A row that the collector adds is counted as late by the load under way.
LEMMA CollectorKeeps ==
  ASSUME Inv,
         \/ \E i \in DOMAIN KillTable : CollectKill(i)
         \/ \E i \in DOMAIN LossTable : CollectLoss(i)
  PROVE  Inv'
<1>1. /\ UNCHANGED <<today, window, filters, asked, fetched, page, card, drill, clicked>>
      /\ late' = IF asked.step \in {"kills", "losses"} THEN late + 1 ELSE 0
  BY DEF CollectKill, CollectLoss, view
<1>2. /\ late \in Nat /\ late =< Cardinality(kills) + Cardinality(losses)
      /\ Cardinality(kills) \in Nat /\ Cardinality(losses) \in Nat
      /\ Cardinality(KillsFrom) \in Nat /\ Cardinality(LossesFrom) \in Nat
      /\ Cardinality(fetched) \in Nat
  BY StoreIsFinite DEF Inv, TypeInv
<1>3. /\ late' \in Nat /\ late' =< late + 1
      /\ asked.step \in {"kills", "losses"} => late' = late + 1
  BY <1>1, <1>2
<1>4. TypeInv'
  <2>1. Asked => Asked'
    BY <1>1 DEF Asked, ForRows, ForCard, ForHulls
  <2>2. late' =< Cardinality(kills') + Cardinality(losses')
    BY <1>2, <1>3, OneRow
  <2>3. /\ kills \subseteq kills' /\ kills' \subseteq DOMAIN KillTable
        /\ losses' \subseteq DOMAIN LossTable
    BY OneRow
  <2> QED BY <1>1, <1>3, <2>1, <2>2, <2>3 DEF Inv, TypeInv
<1>5. BudgetInv'
  <2>1. asked' = asked /\ fetched' = fetched
    BY <1>1
  <2>2. ASSUME asked.step = "kills"
        PROVE  Cardinality(KillsFrom') + Cardinality(LossesFrom') =< MAX_SCAN_ROWS + late'
    <3>1. Cardinality(KillsFrom) + Cardinality(LossesFrom) =< MAX_SCAN_ROWS + late
      BY <2>2 DEF Inv, BudgetInv
    <3>2. late' = late + 1
      BY <1>3, <2>2
    <3> QED BY <1>2, <3>1, <3>2, OneRow, BudgetAssumption
  <2>3. ASSUME asked.step = "losses"
        PROVE  Cardinality(fetched) + Cardinality(LossesFrom') =< MAX_SCAN_ROWS + late'
    <3>1. Cardinality(fetched) + Cardinality(LossesFrom) =< MAX_SCAN_ROWS + late
      BY <2>3 DEF Inv, BudgetInv
    <3>2. late' = late + 1
      BY <1>3, <2>3
    <3> QED BY <1>2, <3>1, <3>2, OneRow, BudgetAssumption
  <2> QED BY <2>1, <2>2, <2>3 DEF BudgetInv
<1>6. RowsWithinBudget' /\ ViewsAgree'
  BY <1>1 DEF Inv, RowsWithinBudget, ViewsAgree
<1>7. ViewInv' /\ ClickInv'
  BY <1>1 DEF Inv, ViewInv, Current, ClickInv
<1> QED BY <1>4, <1>5, <1>6, <1>7 DEF Inv

\* The day of a request is that of its first moment.
LEMMA MidnightKeeps ==
  ASSUME Inv, Midnight
  PROVE  Inv'
<1>1. /\ UNCHANGED <<kills, losses, late, window, filters, asked, fetched, page, card, drill, clicked>>
      /\ today < LastToday /\ today' = today + 1
  BY DEF Midnight, store, view
<1>2. TypeInv'
  <2>1. today' \in FirstToday .. LastToday
    BY <1>1, DateAssumption DEF Inv, TypeInv
  <2>2. Asked => Asked'
    BY <1>1 DEF Asked, ForRows, ForCard, ForHulls
  <2> QED BY <1>1, <2>1, <2>2 DEF Inv, TypeInv
<1>3. BudgetInv'
  BY <1>1 DEF Inv, BudgetInv, KillsFrom, LossesFrom, OfLoad
<1>4. RowsWithinBudget' /\ ViewsAgree' /\ ViewInv' /\ ClickInv'
  BY <1>1 DEF Inv, RowsWithinBudget, ViewsAgree, ViewInv, Current, ClickInv
<1> QED BY <1>2, <1>3, <1>4 DEF Inv

\* Each step keeps the invariant.
LEMMA InvStep == Inv /\ [Next]_vars => Inv'
<1> SUFFICES ASSUME Inv, [Next]_vars PROVE Inv'
  OBVIOUS
<1>1. CASE Count \/ FetchKills
  BY <1>1, QueryKeeps
<1>2. CASE Refuse
  BY <1>2, RefuseKeeps
<1>3. CASE FetchLosses
  <2>1. ShowRows \/ \E p \in asked.who : ShowCard(p) \/ ShowDrill(p)
    BY <1>3 DEF FetchLosses
  <2> QED BY <1>3, <2>1, RowsKeep, CardKeeps, HullsKeep
<1>4. CASE \/ \E i \in DOMAIN KillTable : CollectKill(i)
           \/ \E i \in DOMAIN LossTable : CollectLoss(i)
  BY <1>4, CollectorKeeps
<1>5. CASE Midnight
  BY <1>5, MidnightKeeps
<1>6. CASE \/ OpenScan \/ ClearFilters \/ ClickCard \/ ClickHull
           \/ \E w \in DOMAIN WindowDays : PickWindow(w)
           \/ \E key \in FILTER_KEYS : DropChip(key)
           \/ \E p \in Pilots : ClickRow(p) \/ OpenCard(p)
           \/ \E b \in BUCKET_ORDER : OpenDrill(b)
  BY <1>6, ReaderKeeps
<1>7. CASE UNCHANGED vars
  <2>1. /\ UNCHANGED <<kills, losses, late, today, window, filters, asked, fetched>>
        /\ UNCHANGED <<page, card, drill, clicked>>
    BY <1>7 DEF vars
  <2>2. TypeInv'
    BY <2>1 DEF Inv, TypeInv, Asked, ForRows, ForCard, ForHulls
  <2>3. BudgetInv'
    BY <2>1 DEF Inv, BudgetInv, KillsFrom, LossesFrom, OfLoad
  <2>4. RowsWithinBudget' /\ ViewsAgree' /\ ViewInv' /\ ClickInv'
    BY <2>1 DEF Inv, RowsWithinBudget, ViewsAgree, ViewInv, Current, ClickInv
  <2> QED BY <2>2, <2>3, <2>4 DEF Inv
<1> QED BY <1>1, <1>2, <1>3, <1>4, <1>5, <1>6, <1>7 DEF Next

\* Rows are displayed by the last query of a request for them and by nothing else.
LEMMA PageMoves ==
  ASSUME [Next]_vars, page' # page, page'.status = "shown"
  PROVE  FetchLosses /\ ShowRows
<1>1. ASSUME NEW w, NEW fs, NEW from, Ask(w, fs, from) PROVE FALSE
  BY <1>1 DEF Ask
<1>2. ASSUME NEW mode, NEW p, NEW bucket, Fragment(mode, p, bucket) PROVE FALSE
  BY <1>2 DEF Fragment, view
<1>3. ASSUME NEW p, ClickRow(p) \/ ClickCard \/ ClickHull PROVE FALSE
  BY <1>1, <1>3 DEF ClickRow, ClickCard, ClickHull, Click
<1>4. ~ OpenScan /\ ~ ClearFilters
      /\ (\A w \in DOMAIN WindowDays : ~ PickWindow(w)) /\ \A key \in FILTER_KEYS : ~ DropChip(key)
  BY <1>1 DEF OpenScan, ClearFilters, PickWindow, DropChip
<1>5. (\A p \in Pilots : ~ OpenCard(p)) /\ \A b \in BUCKET_ORDER : ~ OpenDrill(b)
  BY <1>2 DEF OpenCard, OpenDrill
<1>6. ~ Count /\ ~ FetchKills /\ ~ Midnight
  BY DEF Count, FetchKills, Midnight, view
<1>7. ~ Refuse
  BY DEF Refuse
<1>8. (\A i \in DOMAIN KillTable : ~ CollectKill(i)) /\ \A i \in DOMAIN LossTable : ~ CollectLoss(i)
  BY DEF CollectKill, CollectLoss, view
<1>9. ~ UNCHANGED vars
  BY DEF vars
<1>10. FetchLosses
  BY <1>3, <1>4, <1>5, <1>6, <1>7, <1>8, <1>9 DEF Next
<1>11. ShowRows
  <2>1. ~ \E p \in asked.who : ShowCard(p) \/ ShowDrill(p)
    BY DEF ShowCard, ShowDrill
  <2> QED BY <1>10, <2>1 DEF FetchLosses
<1> QED BY <1>10, <1>11

-----------------------------------------------------------------------------
(* Theorems.                                                               *)

\* The invariant holds of every state of a behaviour of KillmailLoad.
LEMMA Invariance == Spec => []Inv
BY InvInit, InvStep, PTL DEF Spec

\* The variables have the types the code gives them.  In particular a card is open only while
\* rows are shown, and hulls only behind an open card.
THEOREM LoadsAreTyped == Spec => []TypeOK
<1>1. Inv => TypeOK
  BY NothingShown DEF Inv, TypeInv, TypeOK, Asked
<1> QED BY <1>1, Invariance, PTL

\* No view is built from more rows than the budget of load_entries, but for those that the
\* collector added after they were counted.
THEOREM LoadsAreWithinBudget == Spec => []RowsWithinBudget
<1>1. Inv => RowsWithinBudget
  BY DEF Inv
<1> QED BY <1>1, Invariance, PTL

\* The parts of every profile on display are views of one set of kills: bands, hulls, classes
\* and the stealth hulls add up to the total and to their chip; the target rows lack no more
\* kills than have a label the code does not, the chart no more than came after its last day.
THEOREM ProfilesAgree == Spec => []ViewsAgree
<1>1. Inv => ViewsAgree
  BY DEF Inv
<1> QED BY <1>1, Invariance, PTL

\* The hulls behind a row of the targets add up to that row if the store and the day are the
\* same for both.
THEOREM DrillDownsAgree == Spec => []DrillAgrees
<1>1. Inv => DrillAgrees
  <2> SUFFICES ASSUME Inv, drill # NoDrill, SameMoment(card.pilot, drill.built, card.built)
               PROVE  Total(drill.hulls) = card.profile.targets[drill.bucket]
    BY DEF DrillAgrees
  <2> DEFINE fk == KillsAt(card.pilot, card.built, window, filters)
             rows == {k \in fk : k.bucket = drill.bucket}
  <2>1. card # NoCard /\ drill.bucket \in BUCKET_ORDER
    BY DEF Inv, TypeInv
  <2>2. /\ IsBuilt(card.built, window)
        /\ IsProfile(card.profile, card.pilot, card.built, window, filters)
        /\ drill.hulls = HullsAt(card.pilot, drill.built, window, filters, drill.bucket)
    BY <2>1 DEF Inv, ViewInv
  <2>3. KillsAt(card.pilot, drill.built, window, filters) = fk
    BY OneMoment
  <2>4. drill.hulls = Counter(rows, "victim_ship")
    BY <2>2, <2>3 DEF HullsAt
  <2>5. IsFiniteSet(rows)
    <3>1. IsFiniteSet(fk)
      BY <2>2, KillsAtProperties
    <3> QED BY <3>1, FS_Subset
  <2>6. Total(drill.hulls) = Cardinality(rows)
    <3> HIDE DEF rows
    <3> QED BY <2>4, <2>5, TotalOfCounter
  <2>7. card.profile.targets = Targets(fk)
    <3> DEFINE profile == card.profile
    <3>1. IsProfile(profile, card.pilot, card.built, window, filters)
      BY <2>2
    <3> HIDE DEF profile
    <3>2. profile.targets = Targets(fk)
      BY <2>2, <3>1, ProfileFields
    <3> QED BY <3>2 DEF profile
  <2> QED BY <2>1, <2>6, <2>7 DEF Targets
<1> QED BY <1>1, Invariance, PTL

\* A click keeps the kills it pointed at, whatever stands for what in the labels, and the
\* losses but for those that its filter excludes, if nothing was stored and no day turned.
THEOREM ClicksKeepTheirKills == Spec => ClickKeepsTheRow
<1>1. Inv /\ [Next]_vars =>
        [page' # page /\ page'.status = "shown" /\ clicked # NoClick
           /\ SameMoment(clicked.pilot, page'.built, clicked.built)
           /\ page'.built.losses = clicked.built.losses
         => LET profile == page'.profiles[clicked.pilot]
            IN  /\ clicked.added => ShownIn(profile, clicked.item) = clicked.item.n
                /\ clicked.item.key \in {"target", "prey"} => profile.losses = clicked.lost
                /\ clicked.added => profile.losses =< clicked.lost]_vars
  <2> SUFFICES ASSUME Inv, [Next]_vars,
                      page' # page, page'.status = "shown", clicked # NoClick,
                      SameMoment(clicked.pilot, page'.built, clicked.built),
                      page'.built.losses = clicked.built.losses
               PROVE  LET profile == page'.profiles[clicked.pilot]
                      IN  /\ clicked.added => ShownIn(profile, clicked.item) = clicked.item.n
                          /\ clicked.item.key \in {"target", "prey"} => profile.losses = clicked.lost
                          /\ clicked.added => profile.losses =< clicked.lost
    OBVIOUS
  <2> DEFINE profile == page'.profiles[clicked.pilot]
             built == page'.built
  <2>1. FetchLosses /\ ShowRows
    BY PageMoves
  <2>2. PointedAt(clicked, window, filters)
    BY DEF Inv, ClickInv
  <2>3. clicked.pilot \in Pilots
    BY <2>2 DEF PointedAt
  <2>4. IsBuilt(built, window) /\ IsProfile(profile, clicked.pilot, built, window, filters)
    BY <2>1, <2>3, RowsKeep, LoadEnds
  <2> HIDE DEF profile, built
  <2>5. SameMoment(clicked.pilot, built, clicked.built) /\ built.losses = clicked.built.losses
    BY DEF built
  <2>6. /\ clicked.added => ShownIn(profile, clicked.item) = clicked.item.n
        /\ clicked.item.key \in {"target", "prey"} => profile.losses = clicked.lost
        /\ clicked.added => profile.losses =< clicked.lost
    BY <2>2, <2>4, <2>5, TheRowIsKept
  <2> QED BY <2>6 DEF profile
<1> QED BY <1>1, Invariance, PTL DEF ClickKeepsTheRow, Spec
=============================================================================
