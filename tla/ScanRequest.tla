----------------------------- MODULE ScanRequest -----------------------------
(***************************************************************************)
(* A request for a scan from its arrival to its response: _scan_response   *)
(* and _char_fragment of src/intel/views.py, the throttle, and the calls   *)
(* of src/intel/esi.py they make, down to what each of them caches.        *)
(*                                                                         *)
(* A pilot stands for its name, its id and its organisations: the entry    *)
(* of part s for pilot p is the Redis entry that part needs for p.  How a  *)
(* part asks (batches, threads, the breaker) is the subject of NamesBatch, *)
(* DetailFanOut and EsiBreaker; here it answers, refuses or raises.        *)
(***************************************************************************)
EXTENDS Integers, Sequences, FiniteSets, FiniteSetsExt

CONSTANTS
  Workers,    \* the gunicorn workers: each serves one request at a time
  Headers,    \* what CLIENT_IP_HEADER may bring
  Address,    \* Address[h]: the address header h is a spelling of, or Unusable
  Unusable,   \* a header that is absent or no address
  RemoteAddr, \* REMOTE_ADDR: the edge, for every request
  Pilots,     \* the names that may be pasted
  Known,      \* those ESI knows
  Parts,      \* the parts of load_characters, in order
  Modes,      \* what is asked for: page, detail or targets
  RedisFails, \* whether Redis may be down for a while
  Flaky       \* whether ESI may refuse, or leave out of an answer, what it knows

PartNames == {"affil", "names", "tickers", "details"}

ASSUME PilotsAssumption == Known \subseteq Pilots
ASSUME PartsAssumption ==
  /\ Parts \in Seq(PartNames)
  /\ \A k \in DOMAIN Parts : Parts[k] = "tickers" => \E j \in 1 .. k - 1 : Parts[j] = "affil"
ASSUME ModesAssumption == Modes \subseteq {"page", "detail", "targets"}
ASSUME FlakyAssumption == Flaky \in BOOLEAN /\ RedisFails \in BOOLEAN

\* Mutant: the header is the key as it is, when it is an address.
BilledAsSent(h) == IF Address[h] = Unusable THEN RemoteAddr ELSE h

\* _client_ip: the address a request is billed to, in its one spelling.
Billed(h) == IF Address[h] = Unusable THEN RemoteAddr ELSE Address[h]

\* The keys rl:lookup:<ip> there may be.
Keys == Headers \cup {Address[h] : h \in Headers} \cup {RemoteAddr}

VARIABLES
  redis,  \* whether Redis answers
  entry,  \* entry[s][p]: "none", "hit" or "miss"
  blob,   \* whether Redis holds the warzone map
  memo,   \* memo[w]: _warzone_local of worker w, "none" or what it holds
  paid,   \* paid[k]: the lookups allowed on key k since it was last absent
  req,    \* req[w]: the request worker w is serving, or has served last
  free,   \* history: pilots on a page that was served in full, with nothing expired since
  retold  \* history: retold[w]: names another request has found since w's request arrived,
          \* although the cache held them for nobody's

vars == <<redis, entry, blob, memo, paid, req, free, retold>>

Stages == {"ids"} \cup PartNames
\* What a definitive "no" leaves in the cache: only an affiliation is not remembered.
Remembers == Stages \ {"affil"}

Idle ==
  [pc |-> "idle", client |-> CHOOSE k \in Keys : TRUE, names |-> {}, mode |-> "page",
   char |-> CHOOSE p \in Pilots : TRUE, at |-> 0, todo |-> {}, got |-> {}, resolved |-> {},
   affiliated |-> {}, warzone |-> "none", status |-> 0,
   allowed |-> FALSE, asked |-> {}, mapFailed |-> FALSE, refused |-> FALSE, repeat |-> FALSE,
   expired |-> FALSE]

Init ==
  /\ redis = TRUE
  /\ entry = [s \in Stages |-> [p \in Pilots |-> "none"]]
  /\ blob = FALSE
  /\ memo = [w \in Workers |-> "none"]
  /\ paid = [k \in Keys |-> 0]
  /\ req = [w \in Workers |-> Idle]
  /\ free = {}
  /\ retold = [w \in Workers |-> {}]

Serves(w, pc) == req[w].pc = pc
Cached(s, kind) == {p \in Pilots : entry[s][p] = kind}
\* The response is sent; what the request was about to do is forgotten.
Respond(r, status) ==
  [r EXCEPT !.pc = "done", !.status = status, !.at = 0, !.todo = {}, !.got = {}, !.affiliated = {},
            !.char = Idle.char]

\* The pilots with nothing left to look up once request r of w has been answered; a lookup
\* that ESI refused has left nothing to remember.
Freed(w, r) ==
  IF r.status = 200 /\ r.mode = "page" /\ ~r.refused /\ ~r.expired
       /\ (r.resolved # {} => r.warzone = "map" /\ blob)
  THEN free \cup (r.names \ retold[w]) ELSE free

(***************************************************************************)
(* The throttle                                                            *)
(***************************************************************************)
\* char is read only for a fragment about one pilot.
Receive(w, h, names, mode, char) ==
  /\ req[w].pc \in {"idle", "done"}
  /\ mode = "page" => char = Idle.char
  /\ req' = [req EXCEPT ![w] = [Idle EXCEPT
       !.pc = "check", !.client = Billed(h), !.names = names, !.mode = mode, !.char = char,
       !.repeat = names \subseteq free]]
  /\ retold' = [retold EXCEPT ![w] = {}]
  /\ UNCHANGED <<redis, entry, blob, memo, paid, free>>

\* uncached_character_names
MustPay(names) == names \cap Cached("ids", "none") # {}

\* Mutant: a fragment is taken for a click on a page that has paid.
CheckPages(w) ==
  /\ Serves(w, "check")
  /\ redis
  /\ req' = [req EXCEPT ![w].pc = IF MustPay(req[w].names) /\ req[w].mode = "page" THEN "throttle" ELSE "read"]
  /\ UNCHANGED <<redis, entry, blob, memo, paid, free, retold>>

Check(w) ==
  /\ Serves(w, "check")
  /\ redis
  /\ req' = [req EXCEPT ![w].pc = IF MustPay(req[w].names) THEN "throttle" ELSE "read"]
  /\ UNCHANGED <<redis, entry, blob, memo, paid, free, retold>>

Allow(c) == paid[c] = 0

\* allow_lookup: cache.add sets the client's key if it is absent.
Throttle(w) ==
  LET c == req[w].client IN
  /\ Serves(w, "throttle")
  /\ redis
  /\ IF Allow(c)
     THEN /\ paid' = [paid EXCEPT ![c] = paid[c] + 1]
          /\ req' = [req EXCEPT ![w].pc = "read", ![w].allowed = TRUE]
     ELSE /\ req' = [req EXCEPT ![w] = Respond(req[w], 429)]
          /\ UNCHANGED paid
  /\ UNCHANGED <<redis, entry, blob, memo, free, retold>>

(***************************************************************************)
(* resolve_character_names and load_characters                             *)
(***************************************************************************)
StageOf(r) == IF r.at = 0 THEN "ids" ELSE Parts[r.at]

\* Whom a stage is about: a fragment loads the identity of one pilot, and a corporation is
\* known only through an affiliation.
Subjects(r) ==
  IF r.at = 0 THEN r.names
  ELSE LET loaded == IF r.mode = "page" THEN r.resolved ELSE {r.char}
       IN IF StageOf(r) = "tickers" THEN loaded \cap r.affiliated ELSE loaded

\* The request once a stage has values for the pilots in got.
After(r, got) ==
  LET on == [r EXCEPT
        !.pc = IF r.at = Len(Parts) THEN "warzone" ELSE "read",
        !.at = r.at + 1, !.todo = {}, !.got = {},
        !.resolved = IF StageOf(r) = "ids" THEN got ELSE r.resolved,
        !.affiliated = IF StageOf(r) = "affil" THEN got ELSE r.affiliated]
  IN IF r.at > 0 THEN on
     ELSE IF r.mode = "page" /\ got = {} THEN Respond(on, 200)
     ELSE IF r.mode # "page" /\ r.char \notin got THEN Respond(on, 404)
     ELSE on

\* Mutant: a stage starts from nothing when it has to ask.
HitsIfComplete(r) ==
  IF Subjects(r) \cap Cached(StageOf(r), "none") = {}
  THEN Subjects(r) \cap Cached(StageOf(r), "hit") ELSE {}

HitsOf(r) == Subjects(r) \cap Cached(StageOf(r), "hit")

\* Mutant: the empty list is sent to ESI as well.
ReadUnguarded(w) ==
  LET r == req[w]
      todo == Subjects(r) \cap Cached(StageOf(r), "none")
  IN
  /\ Serves(w, "read")
  /\ redis
  /\ req' = [req EXCEPT ![w] = [r EXCEPT !.pc = "ask", !.todo = todo, !.got = HitsOf(r)]]
  /\ UNCHANGED <<redis, entry, blob, memo, paid, free, retold>>

\* _split_cached
Read(w) ==
  LET r == req[w]
      todo == Subjects(r) \cap Cached(StageOf(r), "none")
  IN
  /\ Serves(w, "read")
  /\ redis
  /\ req' = [req EXCEPT ![w] =
       IF todo = {} THEN After(r, HitsOf(r))
       ELSE [r EXCEPT !.pc = "ask", !.todo = todo, !.got = HitsOf(r)]]
  /\ free' = Freed(w, req'[w])
  /\ UNCHANGED <<redis, entry, blob, memo, paid, retold>>

\* Mutant: affiliations are not written to the cache.
LearnedElsewhere(s, good, todo) ==
  [entry EXCEPT ![s] = [p \in Pilots |->
     IF s = "affil" THEN entry[s][p]
     ELSE IF p \in good THEN "hit" ELSE IF p \in todo THEN "miss" ELSE entry[s][p]]]

Learned(s, good, todo) ==
  [entry EXCEPT ![s] = [p \in Pilots |->
     IF p \in good THEN "hit"
     ELSE IF p \in todo /\ s \in Remembers THEN "miss" ELSE entry[s][p]]]

\* Names that are found although the cache holds them for nobody's: ESI has left them out of
\* an answer that crossed this one.
Contradicted(s, good) == IF s = "ids" THEN good \cap Cached(s, "miss") ELSE {}

\* ESI answers with values for some of those asked about; the rest it does not know.
AskAnswered(w, good) ==
  LET r == req[w]
      s == StageOf(r)
  IN
  /\ Serves(w, "ask")
  /\ redis
  /\ good \subseteq r.todo \cap Known
  /\ ~Flaky => good = r.todo \cap Known
  /\ entry' = Learned(s, good, r.todo)
  /\ req' = [req EXCEPT ![w] = After(
       [r EXCEPT !.asked = r.asked \cup {s}, !.refused = r.refused \/ good # r.todo \cap Known],
       r.got \cup good)]
  /\ free' = Freed(w, req'[w]) \ Contradicted(s, good)
  /\ retold' = [v \in Workers |-> IF v = w THEN retold[w] ELSE retold[v] \cup Contradicted(s, good)]
  /\ UNCHANGED <<redis, blob, memo, paid>>

\* ESI refuses a whole chunk of names or affiliations: nothing is learned.
AskRefused(w) ==
  LET r == req[w]
      s == StageOf(r)
  IN
  /\ Serves(w, "ask")
  /\ redis
  /\ Flaky
  /\ s \in {"ids", "affil"}
  /\ req' = [req EXCEPT ![w] = After(
       [r EXCEPT !.asked = r.asked \cup {s}, !.refused = TRUE], r.got)]
  /\ free' = Freed(w, req'[w])
  /\ UNCHANGED <<redis, entry, blob, memo, paid, retold>>

\* EsiUnavailable or EsiRateLimited; names() keeps what earlier batches have told it.
AskRaised(w, good) ==
  LET r == req[w]
      s == StageOf(r)
  IN
  /\ Serves(w, "ask")
  /\ redis
  /\ good \subseteq r.todo \cap Known
  /\ s # "names" => good = {}
  /\ entry' = Learned(s, good, {})
  /\ req' = [req EXCEPT ![w] = Respond([r EXCEPT !.asked = r.asked \cup {s}], 503)]
  /\ UNCHANGED <<redis, blob, memo, paid, free, retold>>

(***************************************************************************)
(* warzone_systems and load_entries                                        *)
(***************************************************************************)
WithMap(r, map) == [r EXCEPT !.pc = "load", !.warzone = map]

WarzoneMemo(w) ==
  /\ Serves(w, "warzone")
  /\ memo[w] # "none"
  /\ req' = [req EXCEPT ![w] = WithMap(req[w], memo[w])]
  /\ UNCHANGED <<redis, entry, blob, memo, paid, free, retold>>

WarzoneBlob(w) ==
  /\ Serves(w, "warzone")
  /\ memo[w] = "none"
  /\ redis
  /\ blob
  /\ memo' = [memo EXCEPT ![w] = "map"]
  /\ req' = [req EXCEPT ![w] = WithMap(req[w], "map")]
  /\ UNCHANGED <<redis, entry, blob, paid, free, retold>>

\* Any answer but a 4xx is a map, an empty list as well.
WarzoneLoaded(w) ==
  /\ Serves(w, "warzone")
  /\ memo[w] = "none"
  /\ redis
  /\ ~blob
  /\ blob' = TRUE
  /\ memo' = [memo EXCEPT ![w] = "map"]
  /\ req' = [req EXCEPT ![w] = WithMap([req[w] EXCEPT !.asked = req[w].asked \cup {"warzone"}], "map")]
  /\ UNCHANGED <<redis, entry, paid, free, retold>>

\* Mutant: an empty map is remembered like any other.
WarzoneFailedMemo(w) ==
  /\ Serves(w, "warzone")
  /\ memo[w] = "none"
  /\ redis
  /\ ~blob
  /\ memo' = [memo EXCEPT ![w] = "empty"]
  /\ req' = [req EXCEPT ![w] = WithMap(
       [req[w] EXCEPT !.asked = req[w].asked \cup {"warzone"}, !.mapFailed = TRUE], "empty")]
  /\ UNCHANGED <<redis, entry, blob, paid, free, retold>>

\* ESI raises, or answers 4xx: the page goes without the map, and nothing remembers that.
WarzoneFailed(w) ==
  /\ Serves(w, "warzone")
  /\ memo[w] = "none"
  /\ redis
  /\ ~blob
  /\ req' = [req EXCEPT ![w] = WithMap(
       [req[w] EXCEPT !.asked = req[w].asked \cup {"warzone"}, !.mapFailed = TRUE], "empty")]
  /\ UNCHANGED <<redis, entry, blob, memo, paid, free, retold>>

\* load_entries and the rendering; 400 for ScanTooLarge, 404 for a bucket that does not
\* exist, which is looked at last, 500 when Postgres raises.
Load(w, status) ==
  LET r == req[w] IN
  /\ Serves(w, "load")
  /\ status = 404 => r.mode = "targets"
  /\ req' = [req EXCEPT ![w] = Respond(r, status)]
  /\ free' = Freed(w, req'[w])
  /\ UNCHANGED <<redis, entry, blob, memo, paid, retold>>

(***************************************************************************)
(* Redis                                                                   *)
(***************************************************************************)
\* A cache operation raises, and nothing catches it.
RedisRaises(w) ==
  /\ ~redis
  /\ req[w].pc \in {"check", "throttle", "read", "ask", "warzone"}
  /\ Serves(w, "warzone") => memo[w] = "none"
  /\ req' = [req EXCEPT ![w] = Respond(req[w], 500)]
  /\ UNCHANGED <<redis, entry, blob, memo, paid, free, retold>>

RedisToggles ==
  /\ RedisFails
  /\ redis' = ~redis
  /\ UNCHANGED <<entry, blob, memo, paid, req, free, retold>>

\* The entry, and what it promised to requests that repeat a scan, is gone.
Forgotten ==
  /\ free' = {}
  /\ req' = [w \in Workers |-> [req[w] EXCEPT !.repeat = FALSE, !.expired = TRUE]]

Expire(s, p) ==
  /\ entry[s][p] # "none"
  /\ entry' = [entry EXCEPT ![s][p] = "none"]
  /\ Forgotten
  /\ UNCHANGED <<redis, blob, memo, paid, retold>>

ExpireBlob ==
  /\ blob
  /\ blob' = FALSE
  /\ Forgotten
  /\ UNCHANGED <<redis, entry, memo, paid, retold>>

ExpireToken(k) ==
  /\ paid[k] > 0
  /\ paid' = [paid EXCEPT ![k] = 0]
  /\ UNCHANGED <<redis, entry, blob, memo, req, free, retold>>

\* gunicorn starts a worker afresh.
Restart(w) ==
  /\ memo' = [memo EXCEPT ![w] = "none"]
  /\ req' = [req EXCEPT ![w] = Idle]
  /\ UNCHANGED <<redis, entry, blob, paid, free, retold>>

Warzone(w) == WarzoneMemo(w) \/ WarzoneBlob(w) \/ WarzoneLoaded(w) \/ WarzoneFailed(w)

Serve(w) ==
  \/ Check(w) \/ Throttle(w) \/ Read(w)
  \/ \E good \in SUBSET Pilots : AskAnswered(w, good) \/ AskRaised(w, good)
  \/ AskRefused(w)
  \/ Warzone(w)
  \/ \E status \in {200, 400, 404, 500} : Load(w, status)
  \/ RedisRaises(w)

Next ==
  \/ \E w \in Workers :
       \/ \E h \in Headers, names \in SUBSET Pilots \ {{}}, mode \in Modes :
            \E char \in Pilots : Receive(w, h, names, mode, char)
       \/ Serve(w)
       \/ Restart(w)
  \/ \E s \in Stages, p \in Pilots : Expire(s, p)
  \/ \E k \in Keys : ExpireToken(k)
  \/ ExpireBlob
  \/ RedisToggles

Spec == Init /\ [][Next]_vars

-----------------------------------------------------------------------------
\* Every variable stays in its type; a page is rendered only with an identity.
TypeOK ==
  /\ redis \in BOOLEAN
  /\ entry \in [Stages -> [Pilots -> {"none", "hit", "miss"}]]
  /\ blob \in BOOLEAN
  /\ memo \in [Workers -> {"none", "map", "empty"}]
  /\ paid \in [Keys -> Nat]
  /\ \A w \in Workers :
       /\ req[w].pc \in {"idle", "check", "throttle", "read", "ask", "warzone", "load", "done"}
       /\ req[w].status \in {0, 200, 400, 404, 429, 500, 503}
       /\ req[w].at \in 0 .. Len(Parts) + 1
       /\ req[w].resolved \subseteq req[w].names
       /\ req[w].pc = "ask" => req[w].todo # {} /\ req[w].todo \subseteq Subjects(req[w])
  /\ free \subseteq Pilots
  /\ retold \in [Workers -> SUBSET Pilots]

\* "At most one ESI-triggering lookup per second per client": until the key expires no
\* second request of a client is let through, on whichever worker, however the edge spells
\* its address; those whose address is unknown are one client.
OneLookupAClient ==
  \A a \in {Address[h] : h \in Headers} :
    LET keys == {Billed(h) : h \in {g \in Headers : Address[g] = a}}
    IN MapThenSumSet(LAMBDA k : paid[k], keys) <= 1

\* Pasted names are looked up only by a request that paid, unless an entry expired between
\* the look at the cache and the lookup.
NamesPayToken ==
  \A w \in Workers : "ids" \in req[w].asked => req[w].allowed \/ req[w].expired

\* A page reports a pilot ESI knows as unresolved only if ESI has refused it to this very
\* request, or the cache says so, or said so until an answer to another request came in:
\* no mix of cached, missed and absent names hides a pilot.
UnresolvedIsTrue ==
  \A w \in Workers : req[w].status = 200 /\ ~req[w].refused /\ ~req[w].expired =>
    Known \cap (req[w].names \ req[w].resolved) \subseteq Cached("ids", "miss") \cup retold[w]

\* A page goes without the warzone map only when ESI has failed to give it to this very
\* request: no failure is remembered, on any worker.
EmptyMapIsNews ==
  \A w \in Workers : req[w].warzone = "empty" => req[w].mapFailed

\* "A repeated scan costs zero requests": on whichever worker it lands, one whose pilots were
\* all on pages served in full costs none, if since then nothing has expired and none of its
\* names, cached as nobody's, has been found after all.  A page is not served in full where ESI
\* has refused an answer or left a pilot out of it: no cache remembers a refused affiliation,
\* and its repeats do cost requests.
RepeatIsFree ==
  \A w \in Workers : req[w].repeat /\ req[w].names \cap retold[w] = {} => req[w].asked = {}
=============================================================================
