----------------------------- MODULE NameLookup -----------------------------
(***************************************************************************)
(* A link from the browser's first request to the page: the redirects of   *)
(* ScanUrl, then resolve_character_names of src/intel/esi.py, while other  *)
(* workers fill the same cache and names change hands at ESI.              *)
(*                                                                         *)
(* ESI knows a name by its fold, whatever the case it is written in; so    *)
(* does the cache.  A page is at most MaxCharacters names, fewer than      *)
(* _BULK_MAX, so that there is one chunk to ask for.                       *)
(***************************************************************************)
EXTENDS ScanUrl, FiniteSets

CONSTANTS
  Links,     \* the URLs a visitor may open
  Fold,      \* Fold[n]: n.casefold()
  Label,     \* Label[f]: how ESI spells the pilot whose name folds to f
  IdName,    \* the digits of an id, as a name
  Taken,     \* the folds some pilot may have for a name
  Elsewhere, \* those of them other workers resolve meanwhile
  TtlHit,    \* TTL_NAME_TO_ID, in ticks
  MaxChange  \* bound on how often a name changes hands

Folds == {Fold[n] : n \in Names}

ASSUME LabelAssumption ==
  /\ Label \in [Folds -> Names] /\ \A f \in Folds : Fold[Label[f]] = f
  /\ IdName \in Names /\ Taken \subseteq Folds /\ Elsewhere \subseteq Taken
\* scan_url.py: the pattern has every character that a name may have.
ASSUME CharactersAssumption == \A f \in Taken : Write[Label[f]] \in Legal
\* A slash is trailing only behind a segment: the root is one by itself.
ASSUME LinksAssumption ==
  \A link \in Links : /\ link.segment \in Seq(Parts)
                      /\ link.asked # Absent => link.asked \in Seq(Parts)
                      /\ link.slash \in BOOLEAN
                      /\ link.slash => link.segment # <<>>
ASSUME ChangeAssumption == MaxChange \in Nat \ {0}
ASSUME TtlAssumption == TtlHit \in Nat \ {0}

VARIABLES
  esi,    \* ESI: esi[f] is odd while a pilot has the name, another number for each
  since,  \* history: since[f], ticks since the name changed hands
  cache,  \* Redis, esi:nameid:<hash of f>: the id, 0 for _MISS, and the ticks left
  req     \* the link a visitor follows, and the request for the URL it has led to

vars == <<esi, since, cache, req>>

Nobody == 0
Holder(f) == IF esi[f] % 2 = 1 THEN esi[f] ELSE Nobody

Ids == 0 .. MaxChange
NoEntry == [id |-> Nobody, left |-> 0]
Cached(f) == cache[f].left > 0
NoneFound == [n \in Names |-> Nobody]

\* A request before it has asked for anything: url is what the browser asks for now.
Following(link, url, hops) ==
  [pc |-> "get", link |-> link, url |-> url, hops |-> hops,
   todo |-> {}, found |-> NoneFound, labelled |-> {}]
Root == Url(<<>>, Absent, {})
Gone == [Following(Root, Root, 0) EXCEPT !.pc = "gone"]

Init ==
  /\ esi \in [Folds -> 0 .. 1] /\ \A f \in Folds \ Taken : esi[f] = 0
  /\ since = [f \in Folds |-> 0]
  /\ cache = [f \in Folds |-> NoEntry]
  /\ req = Gone

PageNames(r) == Pasted(r.url.segment)
OnPage(r) == ToSet(PageNames(r)) \cap Names

(***************************************************************************)
(* The routes                                                              *)
(***************************************************************************)
Open(link) ==
  /\ req.pc \in {"done", "gone"}
  /\ req' = Following(link, link, 0)
  /\ UNCHANGED <<esi, since, cache>>

FollowRedirect ==
  /\ req.pc = "get"
  /\ \E url \in Redirects(req.url) :
       req' = Following(req.link, url, req.hops + 1)
  /\ UNCHANGED <<esi, since, cache>>

\* No route: 404.  The fixed paths are no scan either.
NoScan ==
  /\ req.pc = "get"
  /\ RouteOf(req.url) \in {"none", "fixed"}
  /\ req' = Gone
  /\ UNCHANGED <<esi, since, cache>>

(***************************************************************************)
(* resolve_character_names                                                 *)
(***************************************************************************)
Missing(r) == {n \in OnPage(r) : ~Cached(Fold[n])}
Hits(r) ==
  [n \in Names |-> IF n \in OnPage(r) \ Missing(r) THEN cache[Fold[n]].id ELSE Nobody]

\* Mutant: the early return for an empty list is gone.
ReadCacheUnguarded ==
  /\ req.pc = "get"
  /\ RouteOf(req.url) = "scan" /\ Redirects(req.url) = {}
  /\ req' = [req EXCEPT !.pc = "ask", !.todo = Missing(req), !.found = Hits(req)]
  /\ UNCHANGED <<esi, since, cache>>

\* _split_cached; nothing is asked for when there is nothing to ask.
ReadCache ==
  /\ req.pc = "get"
  /\ RouteOf(req.url) = "scan" /\ Redirects(req.url) = {}
  /\ req' = [req EXCEPT !.pc = IF Missing(req) = {} THEN "resolved" ELSE "ask",
                        !.todo = Missing(req), !.found = Hits(req)]
  /\ UNCHANGED <<esi, since, cache>>

\* Mutant: the names ESI echoes are compared as they are spelled.
AnswerAsSpelled(n) == IF n = Label[Fold[n]] THEN Holder(Fold[n]) ELSE Nobody

\* ESI matches case-insensitively but echoes its own casing, so by_fold keys on the fold.
AnswerFor(n) == Holder(Fold[n])

AskAnswered ==
  /\ req.pc = "ask"
  /\ req' = [req EXCEPT !.pc = "write",
       !.found = [n \in Names |-> IF n \in req.todo THEN AnswerFor(n) ELSE @[n]]]
  /\ UNCHANGED <<esi, since, cache>>

\* 4xx: the chunk is left out, and nothing remembered of it.
AskRefused ==
  /\ req.pc = "ask"
  /\ req' = [req EXCEPT !.pc = "resolved"]
  /\ UNCHANGED <<esi, since, cache>>

\* EsiUnavailable or EsiRateLimited: the error page.
AskRaised ==
  /\ req.pc = "ask"
  /\ req' = Gone
  /\ UNCHANGED <<esi, since, cache>>

\* Mutant: everything found is written, what was cached as well.
WritesAll(r) == OnPage(r)

\* The names whose entry is written: those of the chunk.
Writes(r) == r.todo

\* cache.set_many(writes, TTL_NAME_TO_ID): the misses with the TTL of the hits.
Store ==
  /\ req.pc = "write"
  /\ cache' = [f \in Folds |->
       IF \E n \in Writes(req) : Fold[n] = f
       THEN [id |-> req.found[CHOOSE n \in Writes(req) : Fold[n] = f], left |-> TtlHit]
       ELSE cache[f]]
  /\ req' = [req EXCEPT !.pc = "resolved"]
  /\ UNCHANGED <<esi, since>>

\* Another worker resolves a name that is not cached, and nothing comes in between.
ResolveElsewhere(f) ==
  /\ ~Cached(f)
  /\ cache' = [cache EXCEPT ![f] = [id |-> Holder(f), left |-> TtlHit]]
  /\ UNCHANGED <<esi, since, req>>

\* The pilots of the page, as the folds of their names.
Found(r) == {Fold[n] : n \in {m \in OnPage(r) : r.found[m] # Nobody}}

\* load_characters has a name for some of the pilots found, and the digits of the id for
\* the others; then the page is rendered.
Render ==
  /\ req.pc = "resolved"
  /\ \E labelled \in SUBSET Found(req) :
       req' = [req EXCEPT !.pc = "done", !.todo = {}, !.labelled = labelled]
  /\ UNCHANGED <<esi, since, cache>>

\* load_characters or load_entries raises: an error page.
RenderFails ==
  /\ req.pc = "resolved"
  /\ Found(req) # {}
  /\ req' = Gone
  /\ UNCHANGED <<esi, since, cache>>

(***************************************************************************)
(* ESI, Redis and time                                                     *)
(***************************************************************************)
\* A pilot is created under the name, or is gone, or has another name now.
ChangeHands(f) ==
  /\ esi[f] < MaxChange
  /\ esi' = [esi EXCEPT ![f] = esi[f] + 1]
  /\ since' = [since EXCEPT ![f] = 0]
  /\ UNCHANGED <<cache, req>>

\* A tick is longer than the time between ESI's answer and its entry.
Tick ==
  /\ req.pc # "write"
  /\ since' = [f \in Folds |-> IF since[f] < TtlHit THEN since[f] + 1 ELSE since[f]]
  /\ cache' = [f \in Folds |->
       IF cache[f].left <= 1 THEN NoEntry ELSE [cache[f] EXCEPT !.left = @ - 1]]
  /\ UNCHANGED <<esi, req>>

Resolve == ReadCache \/ AskAnswered \/ AskRefused \/ AskRaised \/ Store

Next ==
  \/ \E link \in Links : Open(link)
  \/ FollowRedirect \/ NoScan \/ Resolve \/ Render \/ RenderFails
  \/ (\E f \in Elsewhere : ResolveElsewhere(f)) \/ (\E f \in Taken : ChangeHands(f))
  \/ Tick

Spec == Init /\ [][Next]_vars

-----------------------------------------------------------------------------
\* Every variable stays in its type, and ESI is asked about somebody.
TypeOK ==
  /\ esi \in [Folds -> Ids]
  /\ since \in [Folds -> 0 .. TtlHit]
  /\ cache \in [Folds -> [id : Ids, left : 0 .. TtlHit]]
  /\ req.pc \in {"get", "ask", "write", "resolved", "done", "gone"}
  /\ req.todo \subseteq OnPage(req)
  /\ req.pc \in {"ask", "write"} => req.todo # {}
  /\ req.found \in [Names -> Ids]
  /\ req.labelled \subseteq Folds

\* A link in one of the two schemes keeps what it says, whatever it is redirected through:
\* the page is about the pilots and the window of the link, a link in the path scheme is
\* told of every name that is left out, the filters survive all but a trailing slash.
LinkKeepsScan ==
  LET link == req.link
      legacy == IsLegacy(link)
      names == ParseNames(IF legacy THEN link.asked ELSE link.segment)
      window == IF legacy THEN link.askedWindow ELSE link.window
  IN req.pc = "done" /\ (legacy => link.segment = <<>> /\ link.asked \notin {Absent, <<>>}) =>
       /\ req.hops <= 1
       /\ IsPrefix(PageNames(req), names)
       /\ Len(PageNames(req)) = Capped(Len(names))
       /\ ~legacy => Len(PageNames(req)) + Dropped(req.url.segment) = Len(names)
       /\ names # <<>> => WindowOf(req.url) = IF window \in Windows THEN window ELSE DefaultWindow
       /\ req.url.filters = IF link.slash THEN {} ELSE link.filters

\* How the page spells its names: as ESI does, if it found the pilot and has a name for it.
Spelled ==
  [n \in Names |->
     IF n \notin OnPage(req) \/ req.found[n] = Nobody THEN n
     ELSE IF Fold[n] \in req.labelled THEN Label[Fold[n]] ELSE IdName]

\* The canonical of a page leads to the same pilots, found and not found, in the same window,
\* without a redirect; and following canonicals settles: the page the second one leads to
\* names whom the page of the first names.  Not where a pilot found has no name at ESI; and
\* a name too short for a path of its own, or called like a fixed path, has no page there.
CanonicalSettles ==
  LET again == [n \in Names |-> IF Fold[n] \in Found(req) THEN Label[Fold[n]] ELSE n]
      first == Canonical(PageNames(req), WindowOf(req.url), Spelled)
      second == Canonical(Pasted(first.segment), WindowOf(first), again)
      folds(names) == {Fold[n] : n \in ToSet(names)}
  IN req.pc = "done" /\ req.labelled = Found(req) =>
       /\ Redirects(first) = {}
       /\ RouteOf(first) = "scan" \/ first.segment \in Fixed \/ SegmentSize(first.segment) \notin SegmentSizes
       /\ folds(Pasted(first.segment)) = folds(PageNames(req))
       /\ PageNames(req) # <<>> => WindowOf(first) = WindowOf(req.url)
       /\ Pasted(second.segment) = Pasted(first.segment) /\ second.window = first.window

\* A name that has changed hands is not answered from the cache for longer than the TTL,
\* counted from the change, however often it is scanned meanwhile.
StaleIsBounded ==
  \A f \in Folds : Cached(f) /\ cache[f].id # Holder(f) => since[f] + cache[f].left <= TtlHit
=============================================================================
