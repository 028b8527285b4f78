---------------------------- MODULE KillmailLoad ----------------------------
(***************************************************************************)
(* How a request gets from the killmail store to a threat profile:         *)
(* load_entries of src/intel/killmail_store.py, one query at a time, with  *)
(* the conversion of its rows, and build_profile or build_target_hulls     *)
(* over what it returned; a reader clicks what the profile shows.          *)
(*                                                                         *)
(* The collector (external: the zkillmanager repository) writes the store  *)
(* meanwhile, and the queries run in autocommit: each sees the rows of its *)
(* own moment.  Nor does the day wait: a request keeps the date it began   *)
(* with.  The tables of the SDE are constants here: SdeCache is theirs.    *)
(* Two answers in flight are PageScript's; here one follows the other.     *)
(***************************************************************************)
EXTENDS ProfileService, Sequences

CONSTANTS
  KillTable,      \* KillTable[id]: a row that may be in killmails.kills
  LossTable,      \* LossTable[id]: one that may be in killmails.zkillboard_killmails
  Stored,         \* the ids of those that are there at first
  Pilots,         \* the pilots of the scan
  POD_TYPE_IDS,
  MAX_SCAN_ROWS,
  SDE,            \* SDE[kind]: the lookup table of that kind, id to value
  WH_CLASS,       \* the label of a wormhole class
  Warzone,        \* warzone_systems(): the militia of a contested system
  MaxFilters,     \* bound: filters a reader combines
  FirstToday, LastToday  \* bound: the dates of the run

ASSUME StoreAssumption ==
  /\ IsFiniteSet(DOMAIN KillTable) /\ IsFiniteSet(DOMAIN LossTable)
  /\ \A i \in DOMAIN KillTable : KillTable[i].d \in Int
  /\ \A i \in DOMAIN LossTable : LossTable[i].d \in Int
ASSUME DateAssumption ==
  FirstToday \in Int /\ LastToday \in Int /\ FirstToday =< LastToday
ASSUME BudgetAssumption == MAX_SCAN_ROWS \in Nat

UNKNOWN == "Unknown"
Null == 0

VARIABLES
  kills, losses,  \* the store: the ids of the rows of the two tables
  today,          \* the date of the clock
  window, filters,\* what the page asks for
  asked,          \* the request under way, or Idle
  fetched,        \* the ids of its kill rows, once fetched
  page,           \* the compact rows: a profile for each pilot, or NoPage
  card,           \* the open detail card, or NoCard
  drill,          \* the hulls behind one of its target rows, or NoDrill
  clicked,        \* history: the displayed value the request under way came from
  late            \* history: how many rows arrived after the count of the request

vars == <<kills, losses, today, window, filters, asked, fetched, page, card, drill, clicked, late>>
store == <<kills, losses, late>>
view == <<page, card, drill>>

Idle == [step |-> "idle"]
NoPage == [status |-> "none"]
NoCard == [status |-> "none"]
NoDrill == [status |-> "none"]
NoClick == [pilot |-> "none"]

-----------------------------------------------------------------------------
(* Labels.  A table without the id, or with an empty name, gives none.     *)

Lookup(kind, id, default) ==
  IF id # Null /\ id \in DOMAIN SDE[kind] THEN SDE[kind][id] ELSE default

SpaceType == [n \in 0 .. 4 |-> <<"High sec", "Low sec", "Null sec", "Wormhole", "Pochven">>[n + 1]]
SpaceOf(row) == IF row.space_type \in DOMAIN SpaceType THEN SpaceType[row.space_type] ELSE "Others"

\* every class 13 system is shattered: its label need not say so
WhLabel(system) ==
  LET class == Lookup("whclass", system, Null)
      label == IF class \in DOMAIN WH_CLASS THEN WH_CLASS[class] ELSE "J-Space"
  IN  IF class # 13 /\ system \in DOMAIN SDE["shattered"] THEN label \o " shattered" ELSE label

Location(row) ==
  IF SpaceOf(row) = "Wormhole"
    THEN [region |-> "J-Space", const |-> WhLabel(row.system)]
    ELSE [region |-> Lookup("region", row.region, UNKNOWN), const |-> Lookup("const", row.const, UNKNOWN)]

Hull(id) == Lookup("type", id, UNKNOWN)
\* no attacker hull recorded is missing data, not an unusual ship
AttackerBucket(id) == IF id = Null THEN UNKNOWN ELSE Lookup("abucket", id, "Others")
\* Mutant: a victim the SDE does not class goes to a label that is no target row.
VictimBucketOthers(id) == Lookup("vbucket", id, "Others")

VictimBucket(id) == Lookup("vbucket", id, "Other")

\* BUCKET_ORDER has the label of a victim without one; that it has every label of the view
\* killmails.victim_bucket, as profile_service.py asks of it, is not assumed
ASSUME BucketAssumption ==
  /\ IsFiniteSet(BUCKET_ORDER) /\ "Other" \in BUCKET_ORDER
  /\ BUCKET_ORDER \cap (SPACE_ORDER \cup {"all"}) = {}

LossRow(row) ==
  [id |-> row.id, d |-> row.d, space |-> SpaceOf(row), region |-> Location(row).region,
   const |-> Location(row).const, system |-> Lookup("system", row.system, UNKNOWN),
   ship |-> Hull(row.victim)]

IsStealth(id) == id # Null /\ id \in DOMAIN SDE["stealth"]

KillRow(row) ==
  [id |-> row.id, d |-> row.d, space |-> SpaceOf(row), region |-> Location(row).region,
   const |-> Location(row).const, system |-> Lookup("system", row.system, UNKNOWN),
   bucket |-> VictimBucket(row.victim), victim_ship |-> Hull(row.victim),
   ship |-> Hull(row.ship), group |-> AttackerBucket(row.ship), stealth |-> IsStealth(row.ship),
   warzone |-> IF row.system \in DOMAIN Warzone THEN Warzone[row.system] ELSE 0,
   solo |-> row.gang = 1]

\* of two hulls with one name in the SDE, both are stealth ships or none is
ASSUME HullAssumption ==
  \A i, j \in DOMAIN KillTable :
    Hull(KillTable[i].ship) = Hull(KillTable[j].ship)
      => (IsStealth(KillTable[i].ship) <=> IsStealth(KillTable[j].ship))

Kills == [i \in DOMAIN KillTable |-> KillRow(KillTable[i])]
Losses == [i \in DOMAIN LossTable |-> LossRow(LossTable[i])]

-----------------------------------------------------------------------------
(* The three queries of one load.  The halves that say which rows are      *)
(* meant are the same for the count and for the fetch.                     *)

OfLoad(row) == row.char \in asked.who /\ row.d >= FirstDay(asked.window, asked.today)
KillsFrom ==
  {i \in kills : OfLoad(KillTable[i]) /\ {KillTable[i].victim, KillTable[i].ship} \cap POD_TYPE_IDS = {}}
LossesFrom == {i \in losses : OfLoad(LossTable[i]) /\ LossTable[i].victim \notin POD_TYPE_IDS}

EntryOf(p) ==
  [kills |-> {Kills[i] : i \in {k \in fetched : KillTable[k].char = p}},
   losses |-> {Losses[i] : i \in {l \in LossesFrom : LossTable[l].char = p}}]
KillsShown(p) == FilteredKills(EntryOf(p), asked.window, asked.filters, asked.today)

Init ==
  /\ kills = Stored \cap DOMAIN KillTable /\ losses = Stored \cap DOMAIN LossTable /\ late = 0
  /\ today = FirstToday
  /\ window \in DOMAIN WindowDays
  /\ filters = NoFilters
  /\ asked = Idle /\ fetched = {}
  /\ page = NoPage /\ card = NoCard /\ drill = NoDrill
  /\ clicked = NoClick

-----------------------------------------------------------------------------
(* The reader.  A request keeps the date of its first moment.              *)

Request(mode, who, bucket) ==
  [step |-> "count", mode |-> mode, who |-> who, bucket |-> bucket,
   window |-> window', filters |-> filters', today |-> today]

\* Mutant: the open card stays on a page of other rows.
AskKeepingCard(w, fs, from) ==
  /\ asked = Idle
  /\ window' = w /\ filters' = fs
  /\ asked' = Request("blocks", Pilots, "none")
  /\ clicked' = from
  /\ UNCHANGED <<kills, losses, today, fetched, view, late>>

(* The answer or the error takes the place of every row, and of the card   *)
(* and drill-down open in it; nothing is done with them until then.        *)
Ask(w, fs, from) ==
  /\ asked = Idle
  /\ window' = w /\ filters' = fs
  /\ asked' = Request("blocks", Pilots, "none")
  /\ card' = NoCard /\ drill' = NoDrill
  /\ clicked' = from
  /\ UNCHANGED <<kills, losses, today, fetched, page, late>>

OpenScan == page = NoPage /\ Ask(window, NoFilters, NoClick)
PickWindow(w) == page # NoPage /\ w # window /\ Ask(w, filters, NoClick)
ClearFilters == filters # NoFilters /\ Ask(window, NoFilters, NoClick)
DropChip(key) ==
  /\ key \in DOMAIN filters
  /\ Ask(window, [k \in DOMAIN filters \ {key} |-> filters[k]], NoClick)

(* What can be clicked: a filter key and its value, the row that shows it  *)
(* (a band, a category, or the total) and how many kills it shows.         *)
Item(key, value, row, n) == [key |-> key, value |-> value, row |-> row, n |-> n]

RowItems(profile) ==
  {Item("space", s, s, profile.space[s].n) : s \in SPACE_ORDER}
  \cup {Item("target", b, b, profile.targets[b]) : b \in BUCKET_ORDER}

PlaceItems(profile, s, key) ==
  {Item(key, v, s, profile.space[s].loc[key][v]) :
     v \in UNION MostCommon(profile.space[s].loc[key], TOP_LOCS)}

CardItems(profile) ==
  RowItems(profile)
  \cup {Item("ship", h, "all", profile.ships_flown[h].kills) : h \in DOMAIN profile.ships_flown}
  \cup UNION {PlaceItems(profile, s, key) : s \in SPACE_ORDER, key \in LocationKeys}

DrillItems == {Item("prey", h, drill.bucket, drill.hulls[h]) : h \in DOMAIN drill.hulls}

(* A view remembers the rows it was built from, as a history.              *)
Click(item, p, built, profile) ==
  /\ Cardinality(DOMAIN filters \cup {item.key}) =< MaxFilters
  /\ Ask(window,
         [k \in DOMAIN filters \cup {item.key} |-> IF k = item.key THEN item.value ELSE filters[k]],
         [item |-> item, pilot |-> p, built |-> built,
          added |-> item.key \notin DOMAIN filters, lost |-> profile.losses])

ClickRow(p) ==
  /\ page.status = "shown"
  /\ \E item \in RowItems(page.profiles[p]) : Click(item, p, page.built, page.profiles[p])
ClickCard ==
  /\ card # NoCard /\ card.profile.kills > 0
  /\ \E item \in CardItems(card.profile) : Click(item, card.pilot, card.built, card.profile)
ClickHull ==
  /\ drill # NoDrill
  /\ \E item \in DrillItems : Click(item, card.pilot, [drill.built EXCEPT !.losses = card.built.losses], card.profile)

Fragment(mode, p, bucket) ==
  /\ asked = Idle
  /\ UNCHANGED <<kills, losses, today, window, filters, fetched, view, clicked, late>>
  /\ asked' = Request(mode, {p}, bucket)

OpenCard(p) == page.status = "shown" /\ card = NoCard /\ Fragment("detail", p, "none")
\* an empty category offers nothing to open
OpenDrill(bucket) ==
  /\ card # NoCard /\ drill = NoDrill
  /\ card.profile.kills > 0 /\ card.profile.targets[bucket] > 0
  /\ Fragment("targets", card.pilot, bucket)

-----------------------------------------------------------------------------
(* One load.                                                               *)

\* Mutant: the count leaves the losses out.
ScanTooLargeKills == Cardinality(KillsFrom) > MAX_SCAN_ROWS

ScanTooLarge == Cardinality(KillsFrom) + Cardinality(LossesFrom) > MAX_SCAN_ROWS

Count ==
  /\ asked.step = "count" /\ ~ ScanTooLarge
  /\ asked' = [asked EXCEPT !.step = "kills"]
  /\ UNCHANGED <<store, today, window, filters, fetched, view, clicked>>

\* the error takes the place of the rows, of the card or of the drill-down
Refuse ==
  /\ asked.step = "count" /\ ScanTooLarge
  /\ asked' = Idle /\ clicked' = NoClick
  /\ page' = IF asked.mode = "blocks" THEN [status |-> "refused"] ELSE page
  /\ UNCHANGED <<store, today, window, filters, fetched, card, drill>>

FetchKills ==
  /\ asked.step = "kills"
  /\ fetched' = KillsFrom
  /\ asked' = [asked EXCEPT !.step = "losses"]
  /\ UNCHANGED <<store, today, window, filters, view, clicked>>

Built == [kills |-> fetched, losses |-> LossesFrom, today |-> asked.today, late |-> late]

\* the rows come back in any order
OrdersOf(who) ==
  LET any == [p \in who |-> Orders(KillsShown(p))]
  IN  {order \in [who -> UNION Range(any)] : \A p \in who : order[p] \in any[p]}

Profile(p, order) == BuildProfile(EntryOf(p), asked.window, asked.filters, asked.today, order[p])

ShowRows ==
  /\ asked.mode = "blocks"
  /\ \E order \in OrdersOf(Pilots) :
       page' = [status |-> "shown", built |-> Built, profiles |-> [p \in Pilots |-> Profile(p, order)]]
  /\ UNCHANGED <<card, drill>>

ShowCard(p) ==
  /\ asked.mode = "detail"
  /\ \E order \in OrdersOf({p}) :
       card' = [status |-> "shown", pilot |-> p, built |-> Built, profile |-> Profile(p, order)]
  /\ UNCHANGED <<page, drill>>

ShowDrill(p) ==
  /\ asked.mode = "targets"
  /\ drill' = [status |-> "shown", bucket |-> asked.bucket, built |-> Built,
               hulls |-> BuildTargetHulls(EntryOf(p), asked.window, asked.filters, asked.today, asked.bucket)]
  /\ UNCHANGED <<page, card>>

FetchLosses ==
  /\ asked.step = "losses"
  /\ ShowRows \/ \E p \in asked.who : ShowCard(p) \/ ShowDrill(p)
  /\ asked' = Idle /\ fetched' = {} /\ clicked' = NoClick /\ late' = 0
  /\ UNCHANGED <<kills, losses, today, window, filters>>

-----------------------------------------------------------------------------
(* The collector and the clock.  A killmail may reach the store days late, *)
(* never before its time.                                                  *)

CollectKill(i) ==
  /\ i \notin kills /\ KillTable[i].d =< today
  /\ kills' = kills \cup {i} /\ late' = IF asked.step \in {"kills", "losses"} THEN late + 1 ELSE 0
  /\ UNCHANGED <<losses, today, window, filters, asked, fetched, view, clicked>>

CollectLoss(i) ==
  /\ i \notin losses /\ LossTable[i].d =< today
  /\ losses' = losses \cup {i} /\ late' = IF asked.step \in {"kills", "losses"} THEN late + 1 ELSE 0
  /\ UNCHANGED <<kills, today, window, filters, asked, fetched, view, clicked>>

Midnight ==
  /\ today < LastToday
  /\ today' = today + 1
  /\ UNCHANGED <<store, window, filters, asked, fetched, view, clicked>>

Next ==
  \/ OpenScan
  \/ \E w \in DOMAIN WindowDays : PickWindow(w)
  \/ ClearFilters
  \/ \E key \in FILTER_KEYS : DropChip(key)
  \/ \E p \in Pilots : ClickRow(p) \/ OpenCard(p)
  \/ ClickCard \/ ClickHull
  \/ \E b \in BUCKET_ORDER : OpenDrill(b)
  \/ Count \/ Refuse \/ FetchKills \/ FetchLosses
  \/ \E i \in DOMAIN KillTable : CollectKill(i)
  \/ \E i \in DOMAIN LossTable : CollectLoss(i)
  \/ Midnight

Spec == Init /\ [][Next]_vars

-----------------------------------------------------------------------------
(* Properties.                                                             *)

\* The variables have the types the code gives them.
TypeOK ==
  /\ kills \subseteq DOMAIN KillTable /\ losses \subseteq DOMAIN LossTable /\ late =< Cardinality(kills) + Cardinality(losses)
  /\ today \in FirstToday .. LastToday
  /\ window \in DOMAIN WindowDays
  /\ DOMAIN filters \subseteq FILTER_KEYS
  /\ asked = Idle \/ asked.step \in {"count", "kills", "losses"}
  /\ fetched \subseteq kills
  /\ page.status \in {"none", "shown", "refused"}
  /\ card = NoCard \/ (page.status = "shown" /\ card.pilot \in Pilots)
  /\ drill = NoDrill \/ (card # NoCard /\ drill.bucket \in BUCKET_ORDER)

KillsOf(counts) == Total([label \in DOMAIN counts |-> counts[label].kills])
\* Kills of a day that began after the request took its date, and kills of victims that the
\* SDE gives a label BUCKET_ORDER lacks.
NotDrawn(built) == {i \in built.kills : KillTable[i].d > built.today}
NotListed(built) ==
  {i \in built.kills : /\ KillTable[i].victim \in DOMAIN SDE["vbucket"]
                       /\ SDE["vbucket"][KillTable[i].victim] \notin BUCKET_ORDER}

\* The parts of a profile are views of one set of kills: the bands and the hulls each add up
\* to the total, so do the classes if there is room to name them all, and the stealth hulls
\* add up to the stealth chip.  Two parts may fall short of it: the target rows by kills that
\* are not listed, at most, and the bars of the chart by kills that are not drawn.
Consistent(profile, built) ==
  /\ Total(profile.targets) =< profile.kills
  /\ profile.kills - Total(profile.targets) =< Cardinality(NotListed(built))
  /\ Total([s \in SPACE_ORDER |-> profile.space[s].n]) = profile.kills
  /\ \A s \in SPACE_ORDER, key \in LocationKeys : Total(profile.space[s].loc[key]) = profile.space[s].n
  /\ KillsOf(profile.ships_flown) = profile.kills
  /\ KillsOf(profile.ships_by_class) =< profile.kills
  /\ Cardinality(DOMAIN profile.ships_by_class) < TOP_SHIPS => KillsOf(profile.ships_by_class) = profile.kills
  /\ profile.solo + profile.gang = profile.kills
  /\ LET covert == {h \in DOMAIN profile.ships_flown : profile.ships_flown[h].is_stealth}
     IN  KillsOf([h \in covert |-> profile.ships_flown[h]]) = profile.stealth
  /\ Total(profile.chart) =< profile.kills
  /\ profile.kills - Total(profile.chart) =< Cardinality(NotDrawn(built))

\* Every profile on display, the card's as well as those of the rows, is consistent, but for
\* what Consistent lets fall short: the chart on a turn of the day (ChartAddsUp), and the
\* target rows on a label of the SDE that the code does not have.
ViewsAgree ==
  /\ page.status = "shown" => \A p \in Pilots : Consistent(page.profiles[p], page.built)
  /\ card # NoCard => Consistent(card.profile, card.built)

\* "All derived data (space, ships, targets, chart) stays mutually consistent under any filter
\* combination": the bars of every profile on display add up to its total.  They do not when
\* the day turns while build_profile's kills are being asked for.
ChartAddsUp ==
  /\ page.status = "shown" =>
       \A p \in Pilots : Total(page.profiles[p].chart) = page.profiles[p].kills
  /\ card # NoCard => Total(card.profile.chart) = card.profile.kills

RowsOf(p, built) == {i \in built.kills : KillTable[i].char = p}
SameMoment(p, one, other) == RowsOf(p, one) = RowsOf(p, other) /\ one.today = other.today

\* The hulls behind a target row add up to that row, unless the store or the date moved
\* between the request for the card and the one for the hulls (build_target_hulls: a
\* drill-down can never disagree with the row it expanded from).
DrillAgrees ==
  drill # NoDrill /\ SameMoment(card.pilot, drill.built, card.built)
    => Total(drill.hulls) = card.profile.targets[drill.bucket]

ShownIn(profile, item) ==
  IF item.row \in SPACE_ORDER THEN profile.space[item.row].n
  ELSE IF item.row \in BUCKET_ORDER THEN profile.targets[item.row]
  ELSE profile.kills

\* A click keeps exactly the kills it pointed at: the row that showed the clicked value with a
\* count has that count in the next profile, whatever label the value was folded into or
\* resolved to.  And the losses of the row move only with the filters a loss can match.
ClickKeepsTheRow ==
  [][page' # page /\ page'.status = "shown" /\ clicked # NoClick
       /\ SameMoment(clicked.pilot, page'.built, clicked.built)
       /\ page'.built.losses = clicked.built.losses
     => LET profile == page'.profiles[clicked.pilot]
        IN  /\ clicked.added => ShownIn(profile, clicked.item) = clicked.item.n
            /\ clicked.item.key \in {"target", "prey"} => profile.losses = clicked.lost
            /\ clicked.added => profile.losses =< clicked.lost]_vars

\* No answer is built from more rows than the budget, but for those the collector added
\* after the rows were counted.
RowsWithinBudget ==
  \A view_ \in {page, card, drill} :
    view_.status = "shown"
      => Cardinality(view_.built.kills) + Cardinality(view_.built.losses) =< MAX_SCAN_ROWS + view_.built.late
=============================================================================
