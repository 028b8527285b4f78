--------------------------- MODULE PageScriptProofs ---------------------------
(***************************************************************************)
(* What holds of an open page for any number of pilots, target groups and  *)
(* refreshes in flight.                                                    *)
(***************************************************************************)
EXTENDS PageScript, SequenceTheorems, TLAPS

(***************************************************************************)
(* The inductive invariant                                                 *)
(***************************************************************************)
Groups == Buckets \cup {NoGroup}
Drill == [loaded : Loads, view : Views]
Body == [view : Views, groups : SUBSET Buckets, open : Groups, drill : [Buckets -> Drill]]
Asked == [view : Views, group : Groups]
Card ==
  [shown : BOOLEAN, expanded : BOOLEAN, detail : Loads, body : Body, asking : Seq(Asked)]
Flight ==
  [view : Views, open : [Pilots -> Groups \cup {Folded}], newest : BOOLEAN, quiet : BOOLEAN]

\* TypeOK, without what depends on a card being sound.
TypeInv ==
  /\ state \in Views /\ rows \in Views /\ address \in Views /\ bar \in Views
  /\ cards \in [Pilots -> Card]
  /\ flights \in Seq(Flight)
  /\ loading \in BOOLEAN /\ latest \in BOOLEAN

\* A card waits for at most one answer, has nothing to open while it waits, and is open only
\* in a row that is there.
Sound(card) ==
  /\ card.body.open \in card.body.groups \cup {NoGroup}
  /\ Len(card.asking) = IF card.detail = "loading" THEN 1 ELSE 0
  /\ card.detail = "loading" => card.body.groups = {}
  /\ card.expanded => card.shown

CardInv == \A p \in Pilots : Sound(cards[p])

\* The refresh sent last asks for what is asked for now; a quiet one has read the open cards
\* as they still are.
FlightInv ==
  \A k \in DOMAIN flights :
    /\ flights[k].newest => flights[k].view = state
    /\ flights[k].quiet => flights[k].open = OpenState

\* What card holds, and what it waits for, is of this view.
Of(card, view) ==
  /\ card.detail = "1" => card.body.view = view
  /\ \A k \in DOMAIN card.asking : card.asking[k].view = view
  /\ \A b \in Buckets : card.body.drill[b].loaded # "0" => card.body.drill[b].view = view

AgreeInv ==
  /\ latest =>
       rows = state /\ address = state /\ bar = state /\ \A p \in Pilots : Of(cards[p], state)
  /\ loading => flights # <<>>

Inv == TypeInv /\ CardInv /\ FlightInv /\ AgreeInv

(***************************************************************************)
(* Sequences                                                               *)
(***************************************************************************)
\* What is left of a sequence when one element is taken out was in it.
LEMMA RemoveAtProperties ==
  ASSUME NEW S, NEW seq \in Seq(S), NEW k \in DOMAIN seq
  PROVE  /\ RemoveAt(seq, k) \in Seq(S) /\ Len(RemoveAt(seq, k)) = Len(seq) - 1
         /\ \A i \in DOMAIN RemoveAt(seq, k) :
              \E j \in DOMAIN seq : RemoveAt(seq, k)[i] = seq[j]
<1> DEFINE before == SubSeq(seq, 1, k - 1)
           behind == SubSeq(seq, k + 1, Len(seq))
<1>1. Len(seq) \in Nat /\ DOMAIN seq = 1 .. Len(seq) /\ \A i \in 1 .. Len(seq) : seq[i] \in S
  BY LenProperties
<1>2. /\ before \in Seq(S) /\ Len(before) = k - 1
      /\ \A i \in 1 .. k - 1 : before[i] = seq[i]
  <2>1. /\ before \in Seq(S)
        /\ Len(before) = IF 1 <= k - 1 THEN k - 1 - 1 + 1 ELSE 0
        /\ \A i \in 1 .. k - 1 - 1 + 1 : before[i] = seq[1 + i - 1]
    <3>1. 1 \in Int /\ k - 1 \in Int /\ \A i \in 1 .. k - 1 : seq[i] \in S
      BY <1>1
    <3> QED
      BY <3>1, SubSeqProperties
  <2> QED
    BY <1>1, <2>1
<1>3. /\ behind \in Seq(S) /\ Len(behind) = Len(seq) - k
      /\ \A i \in 1 .. Len(seq) - k : behind[i] = seq[k + i]
  <2>1. /\ behind \in Seq(S)
        /\ Len(behind) = IF k + 1 <= Len(seq) THEN Len(seq) - (k + 1) + 1 ELSE 0
        /\ \A i \in 1 .. Len(seq) - (k + 1) + 1 : behind[i] = seq[k + 1 + i - 1]
    <3>1. k + 1 \in Int /\ Len(seq) \in Int /\ \A i \in k + 1 .. Len(seq) : seq[i] \in S
      BY <1>1
    <3> QED
      BY <3>1, SubSeqProperties
  <2> HIDE DEF behind
  <2>2. /\ Len(seq) - (k + 1) + 1 = Len(seq) - k
        /\ \A i \in 1 .. Len(seq) - k : k + 1 + i - 1 = k + i
        /\ k + 1 <= Len(seq) \/ Len(seq) - k = 0
    BY <1>1
  <2> QED
    BY <2>1, <2>2
<1> HIDE DEF before, behind
<1>4. /\ before \o behind \in Seq(S)
      /\ Len(before \o behind) = Len(before) + Len(behind)
      /\ \A i \in 1 .. Len(before) + Len(behind) :
           (before \o behind)[i] = IF i <= Len(before) THEN before[i] ELSE behind[i - Len(before)]
  BY <1>2, <1>3, ConcatProperties
<1>5. RemoveAt(seq, k) = before \o behind
  BY DEF RemoveAt, before, behind
<1> DEFINE left == before \o behind
<1>6. left \in Seq(S) /\ Len(left) = Len(seq) - 1 /\ DOMAIN left = 1 .. Len(left)
  BY <1>1, <1>2, <1>3, <1>4, LenProperties
<1>7. ASSUME NEW i \in DOMAIN left PROVE \E j \in DOMAIN seq : left[i] = seq[j]
  <2>1. i \in 1 .. Len(seq) - 1
    BY <1>6
  <2>2. CASE i <= k - 1
    BY <1>1, <1>2, <1>3, <1>4, <2>1, <2>2
  <2>3. CASE i > k - 1
    <3>1. left[i] = behind[i - (k - 1)] /\ i - (k - 1) \in 1 .. Len(seq) - k
      BY <1>1, <1>2, <1>3, <1>4, <2>1, <2>3
    <3>2. left[i] = seq[i + 1] /\ i + 1 \in DOMAIN seq
      BY <1>1, <1>3, <2>1, <2>3, <3>1
    <3> QED
      BY <3>2
  <2> QED
    BY <1>1, <2>1, <2>2, <2>3
<1> QED
  BY <1>5, <1>6, <1>7

(***************************************************************************)
(* Cards                                                                   *)
(***************************************************************************)
\* No view is a view, and no body a body without groups or hulls.
LEMMA NoBodyTyped ==
  /\ NoView \in Views
  /\ NoBody \in Body /\ NoBody.open = NoGroup /\ NoBody.groups = {}
  /\ \A b \in Buckets : NoBody.drill[b].loaded = "0"
<1>1. (CHOOSE w \in Windows : TRUE) \in Windows
  BY WindowsAssumption
<1>2. NoView \in Views
  BY <1>1 DEF NoView, Views
<1> QED
  BY <1>2 DEF NoBody, Body, Groups, Drill, Loads

\* A row as it is served.
LEMMA RowTyped ==
  ASSUME NEW shown \in BOOLEAN, NEW view
  PROVE  LET row == Row(shown) IN
         /\ row \in Card /\ Sound(row) /\ Of(row, view)
         /\ row.shown = shown /\ ~row.expanded /\ row.detail = "0" /\ row.asking = <<>>
         /\ row.body = NoBody
<1> DEFINE row == Row(shown)
<1>1. /\ row.shown = shown /\ ~row.expanded /\ row.detail = "0" /\ row.asking = <<>>
      /\ row.body = NoBody
  BY DEF Row
<1>2. row \in Card
  BY NoBodyTyped DEF Row, Card, Loads
<1> HIDE DEF row
<1>3. Len(row.asking) = 0 /\ DOMAIN row.asking = {}
  BY <1>1
<1> QED
  BY <1>1, <1>2, <1>3, NoBodyTyped DEF Sound, Of, row

\* A card that is asked for.
LEMMA LoadingTyped ==
  ASSUME state \in Views, NEW card \in Card, Sound(card), card.detail # "loading",
         NEW group \in Groups
  PROVE  LET new == Loading(card, group) IN
         /\ new \in Card /\ Sound(new)
         /\ Of(card, state) => Of(new, state)
         /\ new.shown = card.shown /\ new.expanded = card.expanded /\ new.body = NoBody
         /\ new.asking # <<>> /\ new.asking[1].group = group
<1> DEFINE ask == [view |-> state, group |-> group]
           new == Loading(card, group)
<1>1. ask \in Asked /\ ask.view = state /\ ask.group = group
  BY DEF Asked
<1>2. card.asking \in Seq(Asked) /\ Len(card.asking) = 0
  BY DEF Card, Sound
<1>3. /\ new.detail = "loading" /\ new.body = NoBody /\ new.asking = Append(card.asking, ask)
      /\ new.shown = card.shown /\ new.expanded = card.expanded
  BY DEF Loading, Card
<1> HIDE DEF ask
<1>4. /\ Append(card.asking, ask) \in Seq(Asked) /\ Len(Append(card.asking, ask)) = 1
      /\ Append(card.asking, ask)[1] = ask /\ Append(card.asking, ask) # <<>>
  BY <1>1, <1>2, AppendProperties
<1>5. new \in Card
  BY <1>4, NoBodyTyped DEF Loading, Card, Loads, ask
<1> HIDE DEF new
<1>6. \A k \in DOMAIN new.asking : new.asking[k].view = state
  <2>1. DOMAIN new.asking = {1}
    BY <1>3, <1>4, LenProperties
  <2> QED
    BY <1>1, <1>3, <1>4, <2>1
<1>7. Sound(new)
  BY <1>3, <1>4, NoBodyTyped DEF Sound
<1>8. Of(new, state)
  BY <1>3, <1>6, NoBodyTyped DEF Of
<1> QED
  BY <1>1, <1>3, <1>4, <1>5, <1>7, <1>8 DEF new

\* A group is opened or closed.
LEMMA ToggledTyped ==
  ASSUME state \in Views, NEW body \in Body, NEW b \in body.groups,
         body.open \in body.groups \cup {NoGroup}
  PROVE  LET new == Toggled(body, b) IN
         /\ new \in Body /\ new.open \in new.groups \cup {NoGroup}
         /\ new.groups = body.groups /\ new.view = body.view
         /\ \A c \in Buckets : /\ new.drill[c].loaded # "0"
                               /\ body.drill[c].loaded # "0" => body.drill[c].view = state
                               => new.drill[c].view = state
<1> DEFINE load == [loaded |-> "loading", view |-> state]
           open == [body EXCEPT !.open = b,
                             !.drill[b] = IF @.loaded = "0" THEN load ELSE @]
           shut == [body EXCEPT !.open = NoGroup]
<1>1. b \in Buckets /\ load \in Drill /\ body.drill \in [Buckets -> Drill]
  BY DEF Body, Drill, Loads
<1>2. Toggled(body, b) = IF body.open = b THEN shut ELSE open
  BY DEF Toggled
<1>3. shut \in Body /\ shut.open = NoGroup /\ shut.groups = body.groups /\ shut.view = body.view
      /\ shut.drill = body.drill
  BY DEF Body, Groups
<1>4. /\ open \in Body /\ open.open = b /\ open.groups = body.groups /\ open.view = body.view
      /\ \A c \in Buckets :
           open.drill[c] = IF c = b /\ body.drill[c].loaded = "0" THEN load ELSE body.drill[c]
  BY <1>1 DEF Body, Groups
<1>5. load.view = state
  OBVIOUS
<1> HIDE DEF load, open, shut
<1>6. CASE body.open = b
  BY <1>2, <1>3, <1>6
<1>7. CASE body.open # b
  BY <1>2, <1>4, <1>5, <1>7
<1> QED
  BY <1>6, <1>7

(***************************************************************************)
(* Refreshes                                                               *)
(***************************************************************************)
\* What refreshes in flight ask for is what they asked for; nothing new is the newest, and
\* nothing new is quiet.
Follows(new) ==
  /\ new \in Seq(Flight)
  /\ \A k \in DOMAIN new : \E j \in DOMAIN flights :
       /\ new[k].view = flights[j].view /\ new[k].open = flights[j].open
       /\ new[k].newest => flights[j].newest
       /\ new[k].quiet => flights[j].quiet

\* What has been opened is what was read.
LEMMA OpenStateTyped ==
  ASSUME TypeInv
  PROVE  OpenState \in [Pilots -> Groups \cup {Folded}]
BY DEF OpenState, TypeInv, Card, Body

\* Disturbed refreshes are refreshes.
LEMMA DisturbedTyped ==
  ASSUME TypeInv
  PROVE  /\ Follows(Disturbed) /\ Len(Disturbed) = Len(flights)
         /\ \A k \in DOMAIN Disturbed :
              ~Disturbed[k].quiet /\ Disturbed[k].view = flights[k].view
              /\ Disturbed[k].newest = flights[k].newest
<1>1. Len(flights) \in Nat /\ DOMAIN flights = 1 .. Len(flights)
      /\ \A k \in DOMAIN flights : flights[k] \in Flight
  BY LenProperties DEF TypeInv
<1>2. \A k \in DOMAIN flights :
        /\ Disturbed[k] \in Flight /\ ~Disturbed[k].quiet /\ Disturbed[k].view = flights[k].view
        /\ Disturbed[k].open = flights[k].open /\ Disturbed[k].newest = flights[k].newest
  BY <1>1 DEF Disturbed, Flight
<1>3. DOMAIN Disturbed = 1 .. Len(flights) /\ Disturbed \in [1 .. Len(flights) -> Flight]
  BY <1>1, <1>2 DEF Disturbed
<1>4. Disturbed \in Seq(Flight) /\ Len(Disturbed) = Len(flights)
  BY <1>1, <1>3
<1>5. Follows(Disturbed)
  BY <1>1, <1>2, <1>3, <1>4 DEF Follows
<1> QED
  BY <1>1, <1>2, <1>3, <1>4, <1>5

\* And so are those left when one of them has been answered.
LEMMA LeftTyped ==
  ASSUME TypeInv, NEW old, Follows(old), NEW k \in DOMAIN old
  PROVE  /\ Follows(RemoveAt(old, k)) /\ Len(RemoveAt(old, k)) = Len(old) - 1
         /\ \A i \in DOMAIN RemoveAt(old, k) : \E j \in DOMAIN old : RemoveAt(old, k)[i] = old[j]
<1>1. old \in Seq(Flight)
  BY DEF Follows
<1>2. /\ RemoveAt(old, k) \in Seq(Flight) /\ Len(RemoveAt(old, k)) = Len(old) - 1
      /\ \A i \in DOMAIN RemoveAt(old, k) : \E j \in DOMAIN old : RemoveAt(old, k)[i] = old[j]
  BY <1>1, RemoveAtProperties
<1>3. Follows(RemoveAt(old, k))
  BY <1>2 DEF Follows
<1> QED
  BY <1>2, <1>3

\* As long as nothing else is asked for, refreshes stay as they should be: they are disturbed
\* when what is open changes.
LEMMA FlightsKept ==
  ASSUME TypeInv, FlightInv, Follows(flights'), state' = state,
         \/ \A k \in DOMAIN flights' : ~flights'[k].quiet
         \/ OpenState' = OpenState
  PROVE  FlightInv'
<1> SUFFICES ASSUME NEW k \in DOMAIN flights'
             PROVE  /\ flights'[k].newest => flights'[k].view = state'
                    /\ flights'[k].quiet => flights'[k].open = OpenState'
  BY DEF FlightInv
<1>1. PICK j \in DOMAIN flights :
        /\ flights'[k].view = flights[j].view /\ flights'[k].open = flights[j].open
        /\ flights'[k].newest => flights[j].newest
        /\ flights'[k].quiet => flights[j].quiet
  BY DEF Follows
<1> QED
  BY <1>1 DEF FlightInv

\* A refresh is sent.
LEMMA AskStep ==
  ASSUME Inv, NEW view \in Views, Ask(view)
  PROVE  Inv'
<1> DEFINE stale == [k \in DOMAIN flights |-> [flights[k] EXCEPT !.newest = FALSE]]
           new == [view |-> view, open |-> OpenState, newest |-> TRUE, quiet |-> TRUE]
<1>1. Len(flights) \in Nat /\ DOMAIN flights = 1 .. Len(flights)
      /\ \A k \in DOMAIN flights : flights[k] \in Flight
  BY LenProperties DEF Inv, TypeInv
<1>2. \A k \in DOMAIN flights :
        /\ stale[k] \in Flight /\ ~stale[k].newest
        /\ stale[k].open = flights[k].open /\ stale[k].quiet = flights[k].quiet
  BY <1>1 DEF Flight
<1>3. stale \in [1 .. Len(flights) -> Flight]
  BY <1>1, <1>2
<1>4. stale \in Seq(Flight) /\ Len(stale) = Len(flights)
  <2> HIDE DEF stale
  <2> QED
    BY <1>1, <1>3
<1>5. new \in Flight /\ new.view = view /\ new.open = OpenState
  BY OpenStateTyped DEF Inv, Flight
<1>6. /\ state' = view /\ flights' = Append(stale, new) /\ loading' = TRUE /\ latest' = FALSE
      /\ UNCHANGED <<rows, cards, address, bar>>
  BY DEF Ask
<1> HIDE DEF stale, new
<1>7. /\ flights' \in Seq(Flight) /\ flights' # <<>> /\ Len(flights') = Len(flights) + 1
      /\ \A i \in 1 .. Len(flights) : flights'[i] = stale[i]
      /\ flights'[Len(flights) + 1] = new
  BY <1>4, <1>5, <1>6, AppendProperties
<1>8. OpenState' = OpenState
  BY <1>6 DEF OpenState
<1>9. FlightInv'
  <2> SUFFICES ASSUME NEW k \in DOMAIN flights'
               PROVE  /\ flights'[k].newest => flights'[k].view = state'
                      /\ flights'[k].quiet => flights'[k].open = OpenState'
    BY DEF FlightInv
  <2>1. k \in 1 .. Len(flights) + 1
    BY <1>7, LenProperties
  <2>2. CASE k \in 1 .. Len(flights)
    BY <1>1, <1>2, <1>7, <1>8, <2>2 DEF Inv, FlightInv
  <2>3. CASE k = Len(flights) + 1
    BY <1>5, <1>6, <1>7, <1>8, <2>3
  <2> QED
    BY <1>1, <2>1, <2>2, <2>3
<1>10. TypeInv' /\ CardInv' /\ AgreeInv'
  BY <1>6, <1>7 DEF Inv, TypeInv, CardInv, AgreeInv
<1> QED
  BY <1>9, <1>10 DEF Inv

\* A card changes.
LEMMA CardStep ==
  ASSUME Inv, NEW p \in Pilots, NEW card \in Card, Sound(card),
         Of(cards[p], state) => Of(card, state),
         cards' = [cards EXCEPT ![p] = card],
         UNCHANGED <<state, rows, address, bar, loading, latest>>,
         \/ flights' = Disturbed
         \/ /\ flights' = flights
            /\ card.shown = cards[p].shown /\ card.expanded = cards[p].expanded
            /\ card.body.open = cards[p].body.open
  PROVE  Inv'
<1>1. cards' \in [Pilots -> Card] /\ cards'[p] = card
      /\ \A o \in Pilots \ {p} : cards'[o] = cards[o]
  BY DEF Inv, TypeInv
<1>2. CardInv'
  BY <1>1 DEF Inv, CardInv
<1>3. latest => \A o \in Pilots : Of(cards'[o], state)
  BY <1>1 DEF Inv, AgreeInv
<1>4. CASE flights' = Disturbed
  <2>1. /\ Follows(flights') /\ Len(flights') = Len(flights)
        /\ \A k \in DOMAIN flights' : ~flights'[k].quiet
    BY <1>4, DisturbedTyped DEF Inv
  <2>2. FlightInv'
    BY <2>1, FlightsKept DEF Inv
  <2>3. flights # <<>> => flights' # <<>>
    BY <2>1, EmptySeq DEF Inv, TypeInv, Follows
  <2> QED
    BY <1>1, <1>2, <1>3, <2>1, <2>2, <2>3 DEF Inv, TypeInv, AgreeInv, Follows
<1>5. CASE /\ flights' = flights
           /\ card.shown = cards[p].shown /\ card.expanded = cards[p].expanded
           /\ card.body.open = cards[p].body.open
  <2>1. OpenState' = OpenState
    BY <1>1, <1>5 DEF OpenState
  <2>2. FlightInv'
    BY <1>5, <2>1 DEF Inv, FlightInv
  <2> QED
    BY <1>1, <1>2, <1>3, <1>5, <2>2 DEF Inv, TypeInv, AgreeInv
<1> QED
  BY <1>4, <1>5

\* The card of a pilot that the swap has restored.
LEMMA RestoredTyped ==
  ASSUME TypeInv, NEW p \in Pilots, NEW open \in [Pilots -> Groups \cup {Folded}]
  PROVE  LET new == Restored(p, open) IN
         /\ new \in Card /\ Sound(new) /\ Of(new, state) /\ new.shown
         /\ open[p] # Folded =>
              new.expanded /\ new.asking # <<>> /\ new.asking[1].group = open[p]
<1> DEFINE row == Row(TRUE)
           unfolded == [row EXCEPT !.expanded = TRUE]
           new == Restored(p, open)
<1>1. /\ row \in Card /\ Sound(row) /\ Of(row, state) /\ row.shown /\ row.detail = "0"
  BY RowTyped
<1>2. /\ unfolded \in Card /\ unfolded.expanded /\ unfolded.shown /\ unfolded.detail = "0"
      /\ unfolded.body = row.body /\ unfolded.asking = row.asking
  <2> HIDE DEF row
  <2> QED
    BY <1>1 DEF Card
<1>3. new = IF open[p] # Folded THEN Loading(unfolded, open[p]) ELSE row
  BY DEF Restored
<1> HIDE DEF row, unfolded, new
<1>4. Sound(unfolded) /\ Of(unfolded, state) /\ unfolded.detail # "loading"
  BY <1>1, <1>2 DEF Sound, Of
<1>5. CASE open[p] # Folded
  <2>1. open[p] \in Groups /\ state \in Views
    BY <1>5 DEF TypeInv
  <2>2. LET load == Loading(unfolded, open[p]) IN
        /\ load \in Card /\ Sound(load)
        /\ Of(unfolded, state) => Of(load, state)
        /\ load.shown = unfolded.shown /\ load.expanded = unfolded.expanded
        /\ load.asking # <<>> /\ load.asking[1].group = open[p]
    BY <1>2, <1>4, <2>1, LoadingTyped
  <2> QED
    BY <1>2, <1>3, <1>4, <1>5, <2>2 DEF new
<1>6. CASE open[p] = Folded
  BY <1>1, <1>3, <1>6 DEF new
<1> QED
  BY <1>5, <1>6

\* A refresh is answered.
LEMMA RefreshAnsweredStep ==
  ASSUME Inv, NEW k \in DOMAIN flights, NEW page \in BOOLEAN, RefreshAnswered(k, page)
  PROVE  Inv'
<1>1. /\ rows' = flights[k].view /\ address' = state /\ bar' = state /\ loading' = FALSE
      /\ latest' = flights[k].newest /\ state' = state
      /\ cards' = Swapped(flights[k], page) /\ flights' = RemoveAt(Disturbed, k)
  BY DEF RefreshAnswered
<1>2. flights[k] \in Flight
  BY LenProperties DEF Inv, TypeInv
<1>3. \A p \in Pilots : cards'[p] \in Card /\ Sound(cards'[p]) /\ Of(cards'[p], state)
  <2> SUFFICES ASSUME NEW p \in Pilots
               PROVE  cards'[p] \in Card /\ Sound(cards'[p]) /\ Of(cards'[p], state)
    OBVIOUS
  <2>1. cards'[p] = IF page /\ p \in flights[k].view.names
                    THEN Restored(p, flights[k].open) ELSE Row(FALSE)
    BY <1>1 DEF Swapped
  <2>2. flights[k].open \in [Pilots -> Groups \cup {Folded}]
    BY <1>2 DEF Flight
  <2>3. /\ Restored(p, flights[k].open) \in Card /\ Sound(Restored(p, flights[k].open))
        /\ Of(Restored(p, flights[k].open), state)
    BY <2>2, RestoredTyped DEF Inv
  <2>4. Row(FALSE) \in Card /\ Sound(Row(FALSE)) /\ Of(Row(FALSE), state)
    BY RowTyped
  <2> QED
    BY <2>1, <2>3, <2>4
<1>4. cards' \in [Pilots -> Card]
  <2>1. cards' = [p \in Pilots |-> cards'[p]]
    BY <1>1 DEF Swapped
  <2> QED
    BY <1>3, <2>1
<1>5. /\ Follows(Disturbed) /\ k \in DOMAIN Disturbed
      /\ \A i \in DOMAIN Disturbed : ~Disturbed[i].quiet
  BY DisturbedTyped DEF Inv, Disturbed
<1>6. Follows(flights') /\ \A i \in DOMAIN flights' : ~flights'[i].quiet
  BY <1>1, <1>5, LeftTyped DEF Inv
<1>7. FlightInv'
  BY <1>1, <1>6, FlightsKept DEF Inv
<1>8. TypeInv' /\ CardInv'
  BY <1>1, <1>2, <1>3, <1>4, <1>6 DEF Inv, TypeInv, CardInv, Follows, Flight
<1>9. AgreeInv'
  BY <1>1, <1>3 DEF Inv, FlightInv, AgreeInv
<1> QED
  BY <1>7, <1>8, <1>9 DEF Inv

\* A refresh fails.
LEMMA RefreshFailsStep ==
  ASSUME Inv, NEW k \in DOMAIN flights, RefreshFails(k)
  PROVE  Inv'
<1>1. /\ loading' = FALSE /\ UNCHANGED <<state, rows, cards, address, bar, latest>>
      /\ flights' = RemoveAt(flights, k)
  BY DEF RefreshFails
<1>2. Follows(flights)
  BY DEF Inv, TypeInv, Follows
<1>3. Follows(flights')
  BY <1>1, <1>2, LeftTyped DEF Inv
<1>4. OpenState' = OpenState
  BY <1>1 DEF OpenState
<1>5. FlightInv'
  BY <1>1, <1>3, <1>4, FlightsKept DEF Inv
<1> QED
  BY <1>1, <1>3, <1>5 DEF Inv, TypeInv, CardInv, AgreeInv, Follows

\* A card is unfolded or folded.
LEMMA ToggleExpandStep ==
  ASSUME Inv, NEW p \in Pilots, ToggleExpand(p)
  PROVE  Inv'
<1> DEFINE card == cards[p]
           turned == [card EXCEPT !.expanded = ~@]
           new == IF turned.expanded /\ turned.detail = "0" THEN Loading(turned, NoGroup) ELSE turned
<1>1. card \in Card /\ Sound(card) /\ card.shown
  BY DEF Inv, TypeInv, CardInv, ToggleExpand
<1>2. /\ turned \in Card /\ turned.shown = card.shown /\ turned.detail = card.detail
      /\ turned.body = card.body /\ turned.asking = card.asking
  <2> HIDE DEF card
  <2> QED
    BY <1>1 DEF Card
<1>3. /\ cards' = [cards EXCEPT ![p] = new] /\ flights' = Disturbed
      /\ UNCHANGED <<state, rows, address, bar, loading, latest>>
  BY DEF ToggleExpand
<1> HIDE DEF turned
<1>4. Sound(turned) /\ (Of(card, state) => Of(turned, state))
  BY <1>1, <1>2 DEF Sound, Of
<1>5. new \in Card /\ Sound(new) /\ (Of(card, state) => Of(new, state))
  <2>1. CASE turned.expanded /\ turned.detail = "0"
    <3>1. new = Loading(turned, NoGroup) /\ NoGroup \in Groups /\ turned.detail # "loading"
      BY <2>1 DEF Groups
    <3> QED
      BY <1>2, <1>4, <3>1, LoadingTyped DEF Inv, TypeInv
  <2>2. CASE ~(turned.expanded /\ turned.detail = "0")
    BY <1>2, <1>4, <2>2
  <2> QED
    BY <2>1, <2>2
<1> HIDE DEF new
<1> QED
  BY <1>3, <1>5, CardStep

\* A group is opened or closed.
LEMMA ToggleTargetStep ==
  ASSUME Inv, NEW p \in Pilots, NEW b \in Buckets, ToggleTarget(p, b)
  PROVE  Inv'
<1> DEFINE card == cards[p]
           body == Toggled(card.body, b)
           new == [card EXCEPT !.body = body]
<1>1. card \in Card /\ Sound(card) /\ b \in card.body.groups
  BY DEF Inv, TypeInv, CardInv, ToggleTarget
<1>2. /\ cards' = [cards EXCEPT ![p] = new] /\ flights' = Disturbed
      /\ UNCHANGED <<state, rows, address, bar, loading, latest>>
  BY <1>1 DEF ToggleTarget, Inv, TypeInv, Card
<1>3. /\ body \in Body /\ body.open \in body.groups \cup {NoGroup}
      /\ body.groups = card.body.groups /\ body.view = card.body.view
      /\ \A c \in Buckets : /\ body.drill[c].loaded # "0"
                            /\ card.body.drill[c].loaded # "0" => card.body.drill[c].view = state
                            => body.drill[c].view = state
  <2> HIDE DEF card
  <2>1. card.body \in Body /\ card.body.open \in card.body.groups \cup {NoGroup}
    BY <1>1 DEF Card, Sound
  <2> QED
    BY <1>1, <2>1, ToggledTyped DEF Inv, TypeInv
<1> HIDE DEF body, card
<1>4. /\ new \in Card /\ new.body = body /\ new.shown = card.shown /\ new.expanded = card.expanded
      /\ new.detail = card.detail /\ new.asking = card.asking
  BY <1>1, <1>3 DEF Card
<1> HIDE DEF new
<1>5. Sound(new)
  BY <1>1, <1>3, <1>4 DEF Sound
<1>6. Of(card, state) => Of(new, state)
  BY <1>3, <1>4 DEF Of
<1> QED
  BY <1>2, <1>4, <1>5, <1>6, CardStep DEF card

\* The answer for a card arrives; it may bring a group that is to be opened again.
LEMMA DetailAnsweredStep ==
  ASSUME Inv, NEW p \in Pilots, NEW k \in DOMAIN cards[p].asking, NEW groups \in SUBSET Buckets,
         DetailAnswered(p, k, groups)
  PROVE  Inv'
<1> DEFINE card == cards[p]
           asked == card.asking[k]
           plain == [NoBody EXCEPT !.view = asked.view, !.groups = groups]
           body == IF asked.group \in groups THEN Toggled(plain, asked.group) ELSE plain
           left == RemoveAt(card.asking, k)
           new == [card EXCEPT !.detail = "1", !.body = body, !.asking = left]
<1>1. /\ card \in Card /\ Sound(card) /\ state \in Views
      /\ cards' = [cards EXCEPT ![p] = new] /\ flights' = Disturbed
      /\ UNCHANGED <<state, rows, address, bar, loading, latest>>
  BY DEF Inv, TypeInv, CardInv, DetailAnswered, Answered
<1>2. asked \in Asked
  <2> HIDE DEF card
  <2>1. card.asking \in Seq(Asked)
    BY <1>1 DEF Card
  <2> QED
    BY <2>1, LenProperties DEF card
<1>3. /\ left \in Seq(Asked) /\ Len(left) = 0 /\ card.detail = "loading"
  <2> HIDE DEF card
  <2>1. card.asking \in Seq(Asked) /\ k \in DOMAIN card.asking
    BY <1>1 DEF Card, card
  <2>2. Len(card.asking) = 1 /\ card.detail = "loading"
    BY <1>1, <2>1, LenProperties DEF Sound
  <2> QED
    BY <2>1, <2>2, RemoveAtProperties
<1> HIDE DEF card, asked, left
<1>4. /\ plain \in Body /\ plain.view = asked.view /\ plain.groups = groups
      /\ plain.open = NoGroup /\ plain.drill = NoBody.drill
  BY <1>2, NoBodyTyped DEF Body, Asked
<1> HIDE DEF plain
<1>5. /\ body \in Body /\ body.view = asked.view /\ body.open \in body.groups \cup {NoGroup}
      /\ \A c \in Buckets : body.drill[c].loaded # "0" => body.drill[c].view = state
  <2>1. CASE asked.group \in groups
    <3>1. \A c \in Buckets : ~(plain.drill[c].loaded # "0")
      BY <1>4, NoBodyTyped
    <3>2. body = Toggled(plain, asked.group)
      BY <2>1
    <3> HIDE DEF body
    <3> QED
      BY <1>1, <1>4, <2>1, <3>1, <3>2, ToggledTyped
  <2>2. CASE asked.group \notin groups
    BY <1>4, <2>2, NoBodyTyped
  <2> QED
    BY <2>1, <2>2
<1> HIDE DEF body
<1>6. /\ new \in Card /\ new.detail = "1" /\ new.body = body /\ new.asking = left
      /\ new.shown = card.shown /\ new.expanded = card.expanded
  BY <1>1, <1>3, <1>5 DEF Card, Loads
<1> HIDE DEF new
<1>7. Sound(new)
  BY <1>1, <1>3, <1>5, <1>6 DEF Sound
<1>8. Of(card, state) => Of(new, state)
  <2>1. DOMAIN new.asking = {}
    BY <1>3, <1>6, LenProperties
  <2>2. Of(card, state) => asked.view = state
    BY DEF Of, asked, card
  <2> QED
    BY <1>5, <1>6, <2>1, <2>2 DEF Of
<1> QED
  BY <1>1, <1>6, <1>7, <1>8, CardStep DEF card

\* A card cannot be loaded: it is as it was served, and can be asked for again.
LEMMA DetailFailsStep ==
  ASSUME Inv, NEW p \in Pilots, NEW k \in DOMAIN cards[p].asking, DetailFails(p, k)
  PROVE  Inv'
<1> DEFINE card == cards[p]
           left == RemoveAt(card.asking, k)
           new == [card EXCEPT !.detail = "0", !.body = NoBody, !.asking = left]
<1>1. /\ card \in Card /\ Sound(card) /\ state \in Views
      /\ cards' = [cards EXCEPT ![p] = new] /\ flights' = flights
      /\ UNCHANGED <<state, rows, address, bar, loading, latest>>
  BY DEF Inv, TypeInv, CardInv, DetailFails, Answered
<1>2. /\ left \in Seq(Asked) /\ Len(left) = 0 /\ card.detail = "loading"
  <2> HIDE DEF card
  <2>1. card.asking \in Seq(Asked) /\ k \in DOMAIN card.asking
    BY <1>1 DEF Card, card
  <2>2. Len(card.asking) = 1 /\ card.detail = "loading"
    BY <1>1, <2>1, LenProperties DEF Sound
  <2> QED
    BY <2>1, <2>2, RemoveAtProperties
<1> HIDE DEF card, left
<1>3. /\ new \in Card /\ new.detail = "0" /\ new.body = NoBody /\ new.asking = left
      /\ new.shown = card.shown /\ new.expanded = card.expanded
  BY <1>1, <1>2, NoBodyTyped DEF Card, Loads
<1> HIDE DEF new
<1>4. Sound(new) /\ new.body.open = card.body.open
  BY <1>1, <1>2, <1>3, NoBodyTyped DEF Sound
<1>5. Of(new, state)
  <2>1. DOMAIN new.asking = {}
    BY <1>2, <1>3, LenProperties
  <2> QED
    BY <1>3, <2>1, NoBodyTyped DEF Of
<1> QED
  BY <1>1, <1>3, <1>4, <1>5, CardStep DEF card

\* The hulls of a group arrive, or cannot be loaded.
LEMMA DrillEndsStep ==
  ASSUME Inv, NEW p \in Pilots, NEW b \in Buckets, NEW loaded \in {"0", "1"}, DrillEnds(p, b, loaded)
  PROVE  Inv'
<1> DEFINE card == cards[p]
           new == [card EXCEPT !.body.drill[b].loaded = loaded]
<1>1. /\ card \in Card /\ Sound(card) /\ card.body.drill[b].loaded = "loading"
      /\ cards' = [cards EXCEPT ![p] = new] /\ flights' = flights
      /\ UNCHANGED <<state, rows, address, bar, loading, latest>>
  BY DEF Inv, TypeInv, CardInv, DrillEnds
<1> HIDE DEF card
<1>2. card.body \in Body /\ card.body.drill \in [Buckets -> Drill]
  BY <1>1 DEF Card, Body
<1>3. /\ new.shown = card.shown /\ new.expanded = card.expanded
      /\ new.detail = card.detail /\ new.asking = card.asking
      /\ new.body.open = card.body.open /\ new.body.groups = card.body.groups
      /\ new.body.view = card.body.view
      /\ \A c \in Buckets : new.body.drill[c].view = card.body.drill[c].view
      /\ \A c \in Buckets \ {b} : new.body.drill[c].loaded = card.body.drill[c].loaded
  BY <1>1, <1>2 DEF Card, Body, Drill, Loads
<1>4. new \in Card
  <2> DEFINE hulls == [card.body.drill[b] EXCEPT !.loaded = loaded]
             drill == [card.body.drill EXCEPT ![b] = hulls]
             body == [card.body EXCEPT !.drill = drill]
  <2>1. new = [card EXCEPT !.body = body]
    OBVIOUS
  <2>2. hulls \in Drill
    BY <1>2 DEF Drill, Loads
  <2> HIDE DEF hulls
  <2>3. drill \in [Buckets -> Drill]
    BY <1>2, <2>2
  <2> HIDE DEF drill
  <2>4. body \in Body
    BY <1>2, <2>3 DEF Body
  <2> HIDE DEF body, new
  <2> QED
    BY <1>1, <2>1, <2>4 DEF Card
<1> HIDE DEF new
<1>5. Sound(new)
  BY <1>1, <1>3 DEF Sound
<1>6. Of(card, state) => Of(new, state)
  BY <1>1, <1>3 DEF Of
<1> QED
  BY <1>1, <1>3, <1>4, <1>5, <1>6, CardStep DEF card

(***************************************************************************)
(* The theorems                                                            *)
(***************************************************************************)
\* The page as it is served, with its rows or as an error.
LEMMA InvInit ==
  Init => Inv
<1> SUFFICES ASSUME Init PROVE Inv
  OBVIOUS
<1>1. state \in Views /\ rows = address /\ bar = state /\ loading = FALSE /\ flights = <<>>
  BY DEF Init
<1>2. flights \in Seq(Flight) /\ DOMAIN flights = {}
  BY <1>1
<1>3. CASE address = state /\ cards = [p \in Pilots |-> Row(p \in state.names)] /\ latest = TRUE
  <2>1. cards \in [Pilots -> Card] /\ \A p \in Pilots : Sound(cards[p]) /\ Of(cards[p], state)
    <3>1. ASSUME NEW p \in Pilots
          PROVE  cards[p] \in Card /\ Sound(cards[p]) /\ Of(cards[p], state)
      <4> DEFINE shown == p \in state.names
      <4>1. cards[p] = Row(shown) /\ shown \in BOOLEAN
        BY <1>3
      <4> HIDE DEF shown
      <4> QED
        BY <4>1, RowTyped
    <3> QED
      BY <1>3, <3>1
  <2> QED
    BY <1>1, <1>2, <1>3, <2>1 DEF Inv, TypeInv, CardInv, FlightInv, AgreeInv
<1>4. CASE /\ address \in {[state EXCEPT !.filters = asked] : asked \in SUBSET Filters}
           /\ cards = [p \in Pilots |-> Row(FALSE)] /\ latest = FALSE
  <2>1. address \in Views
    BY <1>1, <1>4 DEF Views
  <2>2. cards \in [Pilots -> Card] /\ \A p \in Pilots : Sound(cards[p])
    BY <1>4, RowTyped
  <2> QED
    BY <1>1, <1>2, <1>4, <2>1, <2>2 DEF Inv, TypeInv, CardInv, FlightInv, AgreeInv
<1> QED
  BY <1>3, <1>4 DEF Init

\* What a click asks for is a view.
LEMMA ClickStep ==
  ASSUME Inv, Click
  PROVE  Inv'
<1>1. state \in Views
  BY DEF Inv, TypeInv
<1>2. ASSUME NEW w \in Windows, PickWindow(w) PROVE Inv'
  <2>1. [state EXCEPT !.window = w] \in Views
    BY <1>1 DEF Views
  <2> QED
    BY <1>2, <2>1, AskStep DEF PickWindow
<1>3. ASSUME NEW f \in Filters, PickFilter(f) PROVE Inv'
  <2>1. [state EXCEPT !.filters = {g \in @ : g[1] # f[1]} \cup {f}] \in Views
    BY <1>1 DEF Views
  <2> QED
    BY <1>3, <2>1, AskStep DEF PickFilter
<1>4. ASSUME NEW key, DropChip(key) PROVE Inv'
  <2>1. [state EXCEPT !.filters = {g \in @ : g[1] # key}] \in Views
    BY <1>1 DEF Views
  <2> QED
    BY <1>4, <2>1, AskStep DEF DropChip
<1>5. ASSUME ClearFilters PROVE Inv'
  <2>1. [state EXCEPT !.filters = {}] \in Views
    BY <1>1 DEF Views
  <2> QED
    BY <1>5, <2>1, AskStep DEF ClearFilters
<1>6. ASSUME NEW names \in Lists, NEW append \in BOOLEAN, ApplyNames(names, append) PROVE Inv'
  <2>1. [state EXCEPT !.names = IF append THEN @ \cup names ELSE names, !.filters = {}] \in Views
    BY <1>1 DEF Views
  <2> QED
    BY <1>6, <2>1, AskStep DEF ApplyNames
<1> QED
  BY <1>2, <1>3, <1>4, <1>5, <1>6, ToggleExpandStep, ToggleTargetStep DEF Click

\* No step breaks the invariant; a page is as good before and after.
LEMMA InvStep ==
  ASSUME Inv, [Next]_vars
  PROVE  Inv'
<1>1. ASSUME Answer PROVE Inv'
  BY <1>1, RefreshFailsStep, RefreshAnsweredStep, DetailFailsStep, DetailAnsweredStep, DrillEndsStep
     DEF Answer
<1>2. CASE UNCHANGED vars
  <2>1. OpenState' = OpenState
    BY <1>2 DEF vars, OpenState
  <2> QED
    BY <1>2, <2>1 DEF vars, Inv, TypeInv, CardInv, FlightInv, AgreeInv
<1> QED
  BY <1>1, <1>2, ClickStep DEF Next

\* Every reachable page is as it should be.
LEMMA Invariant ==
  Spec => []Inv
<1>1. Inv /\ [Next]_vars => Inv'
  BY InvStep
<1> QED
  BY <1>1, InvInit, PTL DEF Spec

\* Every variable stays in its type: an answer for a card opens only a group that is in it.
THEOREM PagesAreTyped ==
  Spec => []TypeOK
<1>1. Inv => TypeOK
  <2> SUFFICES ASSUME Inv PROVE TypeOK
    OBVIOUS
  <2>1. /\ {state, rows, address, bar} \subseteq Views /\ loading \in BOOLEAN /\ latest \in BOOLEAN
    BY DEF Inv, TypeInv
  <2>2. ASSUME NEW card \in Card, Sound(card)
        PROVE  /\ {card.shown, card.expanded} \subseteq BOOLEAN
               /\ card.detail \in Loads
               /\ card.body.view \in Views /\ card.body.groups \subseteq Buckets
               /\ card.body.open \in card.body.groups \cup {NoGroup}
               /\ \A b \in Buckets :
                    card.body.drill[b].loaded \in Loads /\ card.body.drill[b].view \in Views
               /\ \A k \in DOMAIN card.asking :
                    card.asking[k].view \in Views /\ card.asking[k].group \in Buckets \cup {NoGroup}
    <3>1. /\ card.shown \in BOOLEAN /\ card.expanded \in BOOLEAN /\ card.detail \in Loads
          /\ card.body \in Body /\ card.asking \in Seq(Asked)
      BY <2>2 DEF Card
    <3>2. /\ card.body.view \in Views /\ card.body.groups \subseteq Buckets
          /\ \A b \in Buckets :
               card.body.drill[b].loaded \in Loads /\ card.body.drill[b].view \in Views
      BY <3>1 DEF Body, Drill
    <3>3. \A k \in DOMAIN card.asking : card.asking[k] \in Asked
      BY <3>1, LenProperties
    <3> QED
      BY <2>2, <3>1, <3>2, <3>3 DEF Sound, Asked, Groups
  <2>3. \A p \in Pilots : cards[p] \in Card /\ Sound(cards[p])
    BY DEF Inv, TypeInv, CardInv
  <2>4. \A k \in DOMAIN flights : flights[k] \in Flight
    BY LenProperties DEF Inv, TypeInv
  <2>5. \A k \in DOMAIN flights :
          /\ flights[k].view \in Views
          /\ flights[k].open \in [Pilots -> Buckets \cup {NoGroup, Folded}]
          /\ {flights[k].newest, flights[k].quiet} \subseteq BOOLEAN
    <3>1. Groups \cup {Folded} = Buckets \cup {NoGroup, Folded}
      BY DEF Groups
    <3> QED
      BY <2>4, <3>1 DEF Flight
  <2> QED
    BY <2>1, <2>2, <2>3, <2>5 DEF TypeOK
<1> QED
  BY <1>1, Invariant, PTL

\* On a page that was served with its rows, and on every page once the answer to the last
\* refresh is the last to have been put on it, rows, address, chips and buttons agree, whatever
\* order the answers before it came in.  Nothing is said of a page served as an error before
\* that: its address keeps filters that the page does not ask for.
THEOREM SettledPagesAgree ==
  Spec => []SettledAgrees
<1>1. Inv => SettledAgrees
  BY DEF Inv, AgreeInv, SettledAgrees
<1> QED
  BY <1>1, Invariant, PTL

\* And then no card shows, or waits for, anything of another view.
THEOREM SettledCardsAgree ==
  Spec => []CardsAgree
<1>1. Inv => CardsAgree
  BY DEF Inv, AgreeInv, Of, CardsAgree
<1> QED
  BY <1>1, Invariant, PTL

\* No spinner turns for nothing, and no card waits for two answers.
THEOREM SpinnersHaveAnAnswer ==
  Spec => []SpinnersEnd
<1>1. Inv => SpinnersEnd
  BY DEF Inv, AgreeInv, CardInv, Sound, SpinnersEnd
<1> QED
  BY <1>1, Invariant, PTL

\* The swap of a refresh during which nobody has touched the page folds no card that stays
\* on it, and asks again for the group that was open.
THEOREM OpenCardsSurvive ==
  Spec => CardsSurvive
<1> DEFINE Survives(p) ==
             /\ Len(flights) = 1 /\ flights[1].quiet /\ flights' = <<>>
             /\ cards[p].expanded /\ cards'[p].shown
             => /\ cards'[p].expanded
                /\ \/ cards'[p].body.open = cards[p].body.open
                   \/ cards'[p].asking # <<>> /\ cards'[p].asking[1].group = cards[p].body.open
<1>1. ASSUME Inv, [Next]_vars, NEW p \in Pilots, Len(flights) = 1, flights[1].quiet,
             flights' = <<>>, cards[p].expanded, cards'[p].shown
      PROVE  \/ cards' = cards
             \/ /\ cards'[p].expanded /\ cards'[p].asking # <<>>
                /\ cards'[p].asking[1].group = cards[p].body.open
  <2>1. flights \in Seq(Flight) /\ DOMAIN flights = {1} /\ Len(Disturbed) = 1
    <3>1. flights \in Seq(Flight)
      BY <1>1 DEF Inv, TypeInv
    <3> QED
      BY <1>1, <3>1, LenProperties, DisturbedTyped DEF Inv
  <2>2. flights' # Disturbed /\ flights' # flights
    <3>1. Len(flights') = 0
      BY <1>1
    <3>2. Len(flights') # Len(Disturbed) /\ Len(flights') # Len(flights)
      BY <1>1, <2>1, <3>1
    <3> QED
      BY <3>2, Zenon
  <2>3. ASSUME NEW view, Ask(view) PROVE FALSE
    <3>1. Inv' /\ loading'
      BY <1>1, <2>3, InvStep DEF Ask
    <3> QED
      BY <1>1, <3>1 DEF Inv, AgreeInv
  <2>4. ASSUME NEW page \in BOOLEAN, RefreshAnswered(1, page)
        PROVE  /\ cards'[p].expanded /\ cards'[p].asking # <<>>
               /\ cards'[p].asking[1].group = cards[p].body.open
    <3> DEFINE open == flights[1].open
    <3>1. open = OpenState /\ open \in [Pilots -> Groups \cup {Folded}]
      BY <1>1, <2>1, OpenStateTyped DEF Inv, FlightInv
    <3>2. Sound(cards[p]) /\ cards[p] \in Card
      BY <1>1 DEF Inv, CardInv, TypeInv
    <3>3. open[p] = cards[p].body.open /\ cards[p].body.open \in Groups
      BY <1>1, <3>1, <3>2 DEF OpenState, Sound, Card, Body
    <3>4. open[p] # Folded
      BY <3>3, FoldedAssumption DEF Groups
    <3>5. cards'[p] = Restored(p, open) \/ cards'[p] = Row(FALSE)
      BY <2>4 DEF RefreshAnswered, Swapped
    <3>6. cards'[p] # Row(FALSE)
      BY <1>1, RowTyped
    <3> HIDE DEF open
    <3>7. /\ Restored(p, open).expanded /\ Restored(p, open).asking # <<>>
          /\ Restored(p, open).asking[1].group = open[p]
      BY <1>1, <3>1, <3>4, RestoredTyped DEF Inv
    <3> QED
      BY <3>3, <3>5, <3>6, <3>7
  <2>5. CASE Click
    <3>1. (\E view : Ask(view)) \/ flights' = Disturbed
      BY <2>5 DEF Click, PickWindow, PickFilter, DropChip, ClearFilters, ApplyNames,
                  ToggleExpand, ToggleTarget
    <3> QED
      BY <2>2, <2>3, <3>1
  <2>6. CASE Answer
    <3>1. \/ \E k \in DOMAIN flights :
               RefreshFails(k) \/ \E page \in BOOLEAN : RefreshAnswered(k, page)
          \/ flights' = Disturbed \/ flights' = flights
      BY <2>6 DEF Answer, DetailFails, DetailAnswered, DrillEnds
    <3>2. ASSUME NEW k, RefreshFails(k) PROVE cards' = cards
      BY <3>2 DEF RefreshFails
    <3> QED
      BY <2>1, <2>2, <2>4, <3>1, <3>2
  <2> QED
    BY <1>1, <2>2, <2>5, <2>6 DEF Next, vars
<1>2. Inv /\ [Next]_vars => [\A p \in Pilots : Survives(p)]_vars
  BY <1>1
<1> QED
  BY <1>2, Invariant, PTL DEF Spec, CardsSurvive
===============================================================================
