----------------------------- MODULE PageScript -----------------------------
(***************************************************************************)
(* The script of an open page, src/intel/static/intel/js/intel.js: every   *)
(* click changes what is asked for and sends a refresh; the answers of     *)
(* several refreshes and of the cards they restore arrive in any order, as *)
(* error pages, or not at all.                                             *)
(*                                                                         *)
(* Rows are known by the view they were rendered for.  What is rendered    *)
(* for a view, and the marks on new pilots, are left out.  The answer for  *)
(* a card that a later swap has thrown away changes nothing on the page,   *)
(* so requests go with their cards.                                        *)
(***************************************************************************)
EXTENDS Integers, SequencesExt

CONSTANTS
  Pilots,      \* the pilots ESI knows: a name of another has no row
  Lists,       \* the lists of names that may be pasted
  Windows,     \* the windows of the window buttons
  Filters,     \* the <<key, value>> pairs that may be clicked
  Buckets,     \* the target groups of a card
  NoGroup,     \* no target group
  Failures,    \* what may become of an answer: it is "lost", or an "error" page
  MaxInFlight  \* bound on the refreshes in flight

ASSUME ListsAssumption == {} \notin Lists
ASSUME WindowsAssumption == Windows # {}
ASSUME GroupAssumption == NoGroup \notin Buckets
ASSUME FailuresAssumption == Failures \subseteq {"lost", "error"}
ASSUME MaxInFlightAssumption == MaxInFlight \in Nat

VARIABLES
  state,    \* what is asked for: state.names, state.window, state.filters
  rows,     \* the view #char-blocks was rendered for
  cards,    \* cards[p]: the row of pilot p in #char-blocks, and the card under it
  address,  \* the view of the address bar
  bar,      \* the view the chips and the window buttons show
  loading,  \* the class "loading" of #char-blocks
  flights,  \* the refreshes in flight, in the order they were sent
  latest    \* history: the rows are those of the last refresh sent or, before any, of a
            \* page that was served with its rows

vars == <<state, rows, cards, address, bar, loading, flights, latest>>

Views == [names : SUBSET (Pilots \cup UNION Lists), window : Windows, filters : SUBSET Filters]

\* data-loaded of .char-detail and .tgt-detail.
Loads == {"0", "loading", "1"}

NoView == [names |-> {}, window |-> CHOOSE w \in Windows : TRUE, filters |-> {}]
NoBody ==
  [view |-> NoView, groups |-> {}, open |-> NoGroup,
   drill |-> [b \in Buckets |-> [loaded |-> "0", view |-> NoView]]]

\* A row as it is served, its card folded.
Row(shown) ==
  [shown |-> shown, expanded |-> FALSE, detail |-> "0", body |-> NoBody, asking |-> <<>>]

\* The page is served with its rows, or as an error (_error of views.py): then without the
\* filters, which stay in the address it was opened by.
Init ==
  /\ state \in Views
  /\ bar = state
  /\ loading = FALSE
  /\ flights = <<>>
  /\ \/ /\ address = state
        /\ cards = [p \in Pilots |-> Row(p \in state.names)]
        /\ latest = TRUE
     \/ /\ "error" \in Failures
        /\ state.filters = {}
        /\ address \in {[state EXCEPT !.filters = asked] : asked \in SUBSET Filters}
        /\ cards = [p \in Pilots |-> Row(FALSE)]
        /\ latest = FALSE
  /\ rows = address

(***************************************************************************)
(* loadDetail and toggleTarget                                             *)
(***************************************************************************)
\* The spinner replaces the card; the request is for what is asked for now.  group is what
\* restoreOpen opens once the card is there.
Loading(card, group) ==
  [card EXCEPT !.detail = "loading", !.body = NoBody,
               !.asking = Append(@, [view |-> state, group |-> group])]

\* One group is open at a time; its hulls are fetched when it is opened first.
Toggled(body, b) ==
  IF body.open = b THEN [body EXCEPT !.open = NoGroup]
  ELSE [body EXCEPT !.open = b,
                    !.drill[b] = IF @.loaded = "0" THEN [loaded |-> "loading", view |-> state] ELSE @]

(***************************************************************************)
(* refresh: the open cards are read when it is sent, and restored after    *)
(* its answer has replaced the rows.                                       *)
(***************************************************************************)
Folded == "folded"
ASSUME FoldedAssumption == Folded \notin Buckets \cup {NoGroup}
\* openState
OpenState ==
  [p \in Pilots |->
    IF cards[p].shown /\ cards[p].expanded THEN cards[p].body.open ELSE Folded]

\* quiet: nothing on the page has been opened, closed or replaced since.
Disturbed == [k \in DOMAIN flights |-> [flights[k] EXCEPT !.quiet = FALSE]]

Ask(view) ==
  /\ Len(flights) < MaxInFlight
  /\ state' = view
  /\ flights' = Append([k \in DOMAIN flights |-> [flights[k] EXCEPT !.newest = FALSE]],
       [view |-> view, open |-> OpenState, newest |-> TRUE, quiet |-> TRUE])
  /\ loading' = TRUE
  /\ latest' = FALSE
  /\ UNCHANGED <<rows, cards, address, bar>>

\* Mutant: restoreOpen opens only what had a group open.
RestoredWithGroup(p, open) ==
  IF open[p] \in Buckets THEN Loading([Row(TRUE) EXCEPT !.expanded = TRUE], open[p]) ELSE Row(TRUE)

\* restoreOpen, for the row of pilot p.
Restored(p, open) ==
  IF open[p] # Folded THEN Loading([Row(TRUE) EXCEPT !.expanded = TRUE], open[p]) ELSE Row(TRUE)

\* Mutant: a card that was there keeps what it has loaded.
SwappedKeeping(r, page) ==
  [p \in Pilots |-> IF page /\ p \in r.view.names
                    THEN IF cards[p].shown THEN cards[p] ELSE Restored(p, r.open)
                    ELSE Row(FALSE)]

\* The rows of the answer to refresh r; an error page has none.
Swapped(r, page) ==
  [p \in Pilots |-> IF page /\ p \in r.view.names THEN Restored(p, r.open) ELSE Row(FALSE)]

\* An answer replaces the rows, whatever has been asked for since and whatever its status;
\* address, chips and buttons show what is asked for now.
RefreshAnswered(k, page) ==
  /\ k \in DOMAIN flights
  /\ page \/ "error" \in Failures
  /\ rows' = flights[k].view
  /\ cards' = Swapped(flights[k], page)
  /\ address' = state
  /\ bar' = state
  /\ loading' = FALSE
  /\ latest' = flights[k].newest
  /\ flights' = RemoveAt(Disturbed, k)
  /\ UNCHANGED state

\* Mutant: no catch.
RefreshFailsLoading(k) ==
  /\ k \in DOMAIN flights
  /\ "lost" \in Failures
  /\ flights' = RemoveAt(flights, k)
  /\ UNCHANGED <<state, rows, cards, address, bar, loading, latest>>

RefreshFails(k) ==
  /\ k \in DOMAIN flights
  /\ "lost" \in Failures
  /\ loading' = FALSE
  /\ flights' = RemoveAt(flights, k)
  /\ UNCHANGED <<state, rows, cards, address, bar, latest>>

(***************************************************************************)
(* Clicks and pastes                                                       *)
(***************************************************************************)
PickWindow(w) == Ask([state EXCEPT !.window = w])

\* A value that is clicked replaces the filter of its key.
PickFilter(f) == Ask([state EXCEPT !.filters = {g \in @ : g[1] # f[1]} \cup {f}])

\* Mutant: the chip goes, the rows stay.
DropChipSilently(key) ==
  /\ \E f \in bar.filters : f[1] = key
  /\ state' = [state EXCEPT !.filters = {g \in @ : g[1] # key}]
  /\ bar' = [bar EXCEPT !.filters = {g \in @ : g[1] # key}]
  /\ UNCHANGED <<rows, cards, address, loading, flights, latest>>

DropChip(key) ==
  /\ \E f \in bar.filters : f[1] = key
  /\ Ask([state EXCEPT !.filters = {g \in @ : g[1] # key}])

ClearFilters ==
  /\ bar.filters # {}
  /\ Ask([state EXCEPT !.filters = {}])

\* applyNames: a paste adds pilots, the button replaces them; both start without filters.
ApplyNames(names, append) ==
  Ask([state EXCEPT !.names = IF append THEN @ \cup names ELSE names, !.filters = {}])

\* Mutant: a card is loaded whenever it is unfolded.
ToggleExpandReloads(p) ==
  /\ cards[p].shown
  /\ cards' = [cards EXCEPT ![p] =
       LET card == [@ EXCEPT !.expanded = ~@] IN IF card.expanded THEN Loading(card, NoGroup) ELSE card]
  /\ flights' = Disturbed
  /\ UNCHANGED <<state, rows, address, bar, loading, latest>>

ToggleExpand(p) ==
  LET card == [cards[p] EXCEPT !.expanded = ~@] IN
  /\ cards[p].shown
  /\ cards' = [cards EXCEPT
       ![p] = IF card.expanded /\ card.detail = "0" THEN Loading(card, NoGroup) ELSE card]
  /\ flights' = Disturbed
  /\ UNCHANGED <<state, rows, address, bar, loading, latest>>

\* A group without kills (is-empty) cannot be opened.
ToggleTarget(p, b) ==
  /\ cards[p].expanded
  /\ b \in cards[p].body.groups
  /\ cards' = [cards EXCEPT ![p].body = Toggled(@, b)]
  /\ flights' = Disturbed
  /\ UNCHANGED <<state, rows, address, bar, loading, latest>>

(***************************************************************************)
(* The answers for cards and groups                                        *)
(***************************************************************************)
Answered(p, k, detail, body) ==
  /\ cards' = [cards EXCEPT ![p].detail = detail, ![p].body = body, ![p].asking = RemoveAt(@, k)]
  /\ UNCHANGED <<state, rows, address, bar, loading, latest>>

\* Mutant: the group is opened whether or not it has kills.
DetailAnsweredBlindly(p, k, groups) ==
  /\ k \in DOMAIN cards[p].asking
  /\ LET asked == cards[p].asking[k]
         body == [NoBody EXCEPT !.view = asked.view, !.groups = groups]
     IN Answered(p, k, "1", IF asked.group # NoGroup THEN Toggled(body, asked.group) ELSE body)
  /\ flights' = Disturbed

\* The card is shown, and the group that was open before the swap is opened again.
DetailAnswered(p, k, groups) ==
  /\ k \in DOMAIN cards[p].asking
  /\ LET asked == cards[p].asking[k]
         body == [NoBody EXCEPT !.view = asked.view, !.groups = groups]
     IN Answered(p, k, "1", IF asked.group \in groups THEN Toggled(body, asked.group) ELSE body)
  /\ flights' = Disturbed

DetailFails(p, k) ==
  /\ k \in DOMAIN cards[p].asking
  /\ "lost" \in Failures
  /\ Answered(p, k, "0", NoBody)
  /\ UNCHANGED flights

DrillEnds(p, b, loaded) ==
  /\ cards[p].body.drill[b].loaded = "loading"
  /\ loaded = "1" \/ "lost" \in Failures
  /\ cards' = [cards EXCEPT ![p].body.drill[b].loaded = loaded]
  /\ UNCHANGED <<state, rows, address, bar, loading, flights, latest>>

Click ==
  \/ \E w \in Windows : PickWindow(w)
  \/ \E f \in Filters : PickFilter(f) \/ DropChip(f[1])
  \/ ClearFilters
  \/ \E names \in Lists, append \in BOOLEAN : ApplyNames(names, append)
  \/ \E p \in Pilots : ToggleExpand(p) \/ \E b \in Buckets : ToggleTarget(p, b)

Answer ==
  \/ \E k \in DOMAIN flights :
       RefreshFails(k) \/ \E page \in BOOLEAN : RefreshAnswered(k, page)
  \/ \E p \in Pilots :
       \/ \E k \in DOMAIN cards[p].asking :
            DetailFails(p, k) \/ \E groups \in SUBSET Buckets : DetailAnswered(p, k, groups)
       \/ \E b \in Buckets, loaded \in {"0", "1"} : DrillEnds(p, b, loaded)

Next == Click \/ Answer

Spec == Init /\ [][Next]_vars

-----------------------------------------------------------------------------
\* Every variable stays in its type.
TypeOK ==
  /\ {state, rows, address, bar} \subseteq Views
  /\ \A p \in Pilots : LET card == cards[p] IN
       /\ {card.shown, card.expanded} \subseteq BOOLEAN
       /\ card.detail \in Loads
       /\ card.body.view \in Views /\ card.body.groups \subseteq Buckets
       /\ card.body.open \in card.body.groups \cup {NoGroup}
       /\ \A b \in Buckets :
            card.body.drill[b].loaded \in Loads /\ card.body.drill[b].view \in Views
       /\ \A k \in DOMAIN card.asking :
            card.asking[k].view \in Views /\ card.asking[k].group \in Buckets \cup {NoGroup}
  /\ loading \in BOOLEAN
  /\ \A k \in DOMAIN flights :
       /\ flights[k].view \in Views
       /\ flights[k].open \in [Pilots -> Buckets \cup {NoGroup, Folded}]
       /\ {flights[k].newest, flights[k].quiet} \subseteq BOOLEAN
  /\ latest \in BOOLEAN

\* On a page served with its rows, and on any page once the last refresh sent has been answered
\* last, rows, address, chips and buttons all show what is asked for.  (A page served as an
\* error keeps filters in its address that it does not ask for, until a refresh is answered.)
SettledAgrees == latest => rows = state /\ address = state /\ bar = state

\* And so does every card: no detail and no drill-down of another view is left, or still to
\* come, in a card that was opened before, during or after the swap.
CardsAgree ==
  latest => \A p \in Pilots :
    /\ cards[p].detail = "1" => cards[p].body.view = state
    /\ \A k \in DOMAIN cards[p].asking : cards[p].asking[k].view = state
    /\ \A b \in Buckets : cards[p].body.drill[b].loaded # "0" => cards[p].body.drill[b].view = state

\* A spinner has an answer to wait for, and a card no more than one, so no late answer
\* overwrites a newer one.
SpinnersEnd ==
  /\ loading => flights # <<>>
  /\ \A p \in Pilots :
       Len(cards[p].asking) = IF cards[p].detail = "loading" THEN 1 ELSE 0

\* "Expanded cards and the open drill-down are restored after a filter swap": the swap of a
\* refresh during which nobody has touched the page folds no card that stays on it, and asks
\* again for the group that was open.
CardsSurvive ==
  [][\A p \in Pilots :
       /\ Len(flights) = 1 /\ flights[1].quiet /\ flights' = <<>>
       /\ cards[p].expanded /\ cards'[p].shown
       => /\ cards'[p].expanded
          /\ \/ cards'[p].body.open = cards[p].body.open
             \/ cards'[p].asking # <<>> /\ cards'[p].asking[1].group = cards[p].body.open]_vars

-----------------------------------------------------------------------------
\* intel.js: "the scan (names + window) is the URL path and the filters are the query
\* string, so the view is shareable": with nothing in flight, the address is that of the rows.
\* It is not after the answers of two refreshes have come in the other order.
ShownIsAsked == flights = <<>> => rows = address
=============================================================================
