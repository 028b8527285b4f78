--------------------------- MODULE ProfileService ---------------------------
(***************************************************************************)
(* The aggregation of src/intel/profile_service.py: one pilot's killmails, *)
(* a window and the filters make a threat profile.  Pure operators: the    *)
(* killmails of an entry are a set of records with the keys the code's     *)
(* dictionaries have.                                                      *)
(*                                                                         *)
(* A share is a function of a count and of the total, so a profile keeps   *)
(* the counts.  Icons, colours and labels of bars are left out.            *)
(***************************************************************************)
EXTENDS Integers, FiniteSets, Functions

CONSTANTS
  WindowDays,   \* WindowDays[w]: the span of window w, in days
  BUCKET_ORDER, \* the labels of the target rows
  TOP_SHIPS,    \* how many classes the collapsed row names
  TOP_LOCS      \* how many regions, constellations and systems a band names

ASSUME WindowAssumption == \A w \in DOMAIN WindowDays : WindowDays[w] \in Nat \ {0}
ASSUME TopAssumption == TOP_SHIPS \in Nat \ {0} /\ TOP_LOCS \in Nat \ {0}

FILTER_KEYS == {"region", "const", "system", "ship", "space", "target", "prey"}
LocationKeys == {"region", "const", "system"}
KnownSpaces == {"High sec", "Low sec", "Null sec", "Wormhole"}
SPACE_ORDER == KnownSpaces \cup {"Others"}

\* the band a kill is displayed in
SpaceCat(raw) == IF raw \in KnownSpaces THEN raw ELSE "Others"

(* Filters are a dictionary: a function whose domain is the active keys. *)
NoFilters == [key \in {} |-> ""]
Keeps(filters, key, value) == key \in DOMAIN filters => filters[key] = value

\* Mutant: the band is matched by the name the store gives the space.
MatchRawSpace(km, filters) ==
  \A key \in LocationKeys \cup {"ship", "space"} : Keeps(filters, key, km[key])

MatchPlace(km, filters) ==
  /\ \A key \in LocationKeys \cup {"ship"} : Keeps(filters, key, km[key])
  /\ Keeps(filters, "space", SpaceCat(km.space))

Match(km, filters) ==
  /\ MatchPlace(km, filters)
  /\ Keeps(filters, "prey", km.victim_ship)
  /\ Keeps(filters, "target", km.bucket)

(* a loss has neither a victim bucket nor a victim hull: those two filters *)
(* are left out of the ones it must match                                  *)
MatchLoss(loss, filters) == MatchPlace(loss, filters)

FirstDay(window, today) == today - (WindowDays[window] - 1)
Within(rows, window, today) == {r \in rows : r.d >= FirstDay(window, today)}

FilteredKills(entry, window, filters, today) ==
  {k \in Within(entry.kills, window, today) : Match(k, filters)}

(* Counters: how many of the rows carry each label. *)
Counter(rows, key) ==
  [v \in {r[key] : r \in rows} |-> Cardinality({r \in rows : r[key] = v})]
Total(counter) == FoldFunction(+, 0, counter)

(* Rows come back in no order and most_common breaks ties by the order it  *)
(* met the labels in: any set of the highest counts may be what it keeps.  *)
MostCommon(counter, top) ==
  {kept \in SUBSET DOMAIN counter :
     /\ Cardinality(kept) = IF Cardinality(DOMAIN counter) < top THEN Cardinality(DOMAIN counter) ELSE top
     /\ \A v \in kept, u \in DOMAIN counter \ kept : counter[v] >= counter[u]}

Targets(fk) == [b \in BUCKET_ORDER |-> Cardinality({k \in fk : k.bucket = b})]

Band(fk, s) == {k \in fk : SpaceCat(k.space) = s}
Space(fk) ==
  [s \in SPACE_ORDER |->
     [n |-> Cardinality(Band(fk, s)), loc |-> [key \in LocationKeys |-> Counter(Band(fk, s), key)]]]

(* One row a hull: what it says of the hull is that of the last kill with  *)
(* that name, whichever it is.                                             *)
Representatives(fk) ==
  {last \in [{k.ship : k \in fk} -> fk] : \A name \in DOMAIN last : last[name].ship = name}
Hulls(fk, last) ==
  [name \in {k.ship : k \in fk} |->
     [group |-> last[name].group, is_stealth |-> last[name].stealth,
      kills |-> Cardinality({k \in fk : k.ship = name})]]

(* The collapsed row names the classes with the most kills; one counts as  *)
(* stealth only if every one of its kills was a stealth hull.              *)
Classes(fk, named) ==
  [grp \in named |->
     [is_stealth |-> \A k \in fk : k.group = grp => k.stealth,
      kills |-> Cardinality({k \in fk : k.group = grp})]]

(* What the order of the rows decides: the last kill of every hull, and    *)
(* which of the classes tied for the last place are named.                 *)
Orders(fk) ==
  [last : Representatives(fk), named : MostCommon(Counter(fk, "group"), TOP_SHIPS)]

Chart(fk, window, today) ==
  [d \in FirstDay(window, today) .. today |-> Cardinality({k \in fk : k.d = d})]

BuildProfile(entry, window, filters, today, order) ==
  LET fk == FilteredKills(entry, window, filters, today)
  IN  [kills |-> Cardinality(fk),
       losses |-> Cardinality({m \in Within(entry.losses, window, today) : MatchLoss(m, filters)}),
       solo |-> Cardinality({k \in fk : k.solo}),
       gang |-> Cardinality({k \in fk : ~ k.solo}),
       stealth |-> Cardinality({k \in fk : k.stealth}),
       warzone |-> Cardinality({k \in fk : k.warzone # 0}),
       targets |-> Targets(fk), space |-> Space(fk),
       ships_flown |-> Hulls(fk, order.last), ships_by_class |-> Classes(fk, order.named),
       chart |-> Chart(fk, window, today)]

\* Mutant: the drill-down leaves the filters out.
BuildTargetHullsUnfiltered(entry, window, filters, today, bucket) ==
  Counter({k \in Within(entry.kills, window, today) : k.bucket = bucket}, "victim_ship")

BuildTargetHulls(entry, window, filters, today, bucket) ==
  Counter({k \in FilteredKills(entry, window, filters, today) : k.bucket = bucket}, "victim_ship")
=============================================================================
