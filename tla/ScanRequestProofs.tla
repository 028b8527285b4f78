--------------------------- MODULE ScanRequestProofs ---------------------------
(***************************************************************************)
(* What holds of scan requests for any number of workers, visitors, pilots *)
(* and parts of an identity.                                               *)
(***************************************************************************)
EXTENDS ScanRequest, TLAPS

(***************************************************************************)
(* The inductive invariant                                                 *)
(***************************************************************************)
\* A request is a record with these fields,
Fields ==
  {"pc", "client", "names", "mode", "char", "at", "todo", "got", "resolved", "affiliated",
   "warzone", "status", "allowed", "asked", "mapFailed", "refused", "repeat", "expired"}
IsRequest(r) == DOMAIN r = Fields

\* all but some of which are the same in another one,
Same(q, r, S) == \A f \in Fields \ S : q[f] = r[f]

\* of these types.
Typed(r) ==
  /\ r.pc \in {"idle", "check", "throttle", "read", "ask", "warzone", "load", "done"}
  /\ r.status \in {0, 200, 400, 404, 429, 500, 503}
  /\ r.client \in Keys /\ r.at \in 0 .. Len(Parts) + 1
  /\ r.warzone \in {"none", "map", "empty"}
  /\ r.names \subseteq Pilots /\ r.got \subseteq Pilots /\ r.resolved \subseteq r.names

\* Where a request is, and what it has by then.
Shaped(r) ==
  /\ r.pc \in {"check", "throttle"} => r.at = 0
  /\ r.pc \in {"read", "ask"} => r.at <= Len(Parts)
  /\ r.pc \in {"warzone", "load"} => r.at = Len(Parts) + 1
  /\ r.pc = "ask" => r.todo # {} /\ r.todo \subseteq Subjects(r) /\ r.got \subseteq Subjects(r)
  /\ r.pc # "done" => r.status = 0

\* TypeOK with what makes it inductive.
TypeInv ==
  /\ redis \in BOOLEAN /\ blob \in BOOLEAN /\ free \subseteq Pilots
  /\ entry \in [Stages -> [Pilots -> {"none", "hit", "miss"}]]
  /\ memo \in [Workers -> {"none", "map", "empty"}]
  /\ paid \in [Keys -> Nat]
  /\ DOMAIN req = Workers /\ retold \in [Workers -> SUBSET Pilots]
  /\ \A w \in Workers : IsRequest(req[w]) /\ Typed(req[w]) /\ Shaped(req[w])

\* A lookup of names has been paid for; one that is about to read the names will not
\* have to ask, unless it has paid.
Pays(r) ==
  LET excused == r.allowed \/ r.expired IN
  /\ "ids" \in r.asked => excused
  /\ r.pc = "ask" /\ r.at = 0 => excused
  /\ r.pc = "read" /\ r.at = 0 => excused \/ r.names \cap Cached("ids", "none") = {}

Payments == \A w \in Workers : Pays(req[w])

PaidOnce == \A k \in Keys : paid[k] <= 1

\* An empty map is never what a worker remembers.
MapIsNews ==
  \A w \in Workers : memo[w] # "empty" /\ (req[w].warzone = "empty" => req[w].mapFailed)

\* What the cache holds is true of ESI, but for the misses ESI's refusals have left.
CacheIsTrue ==
  /\ \A s \in Stages, p \in Pilots : entry[s][p] = "hit" => p \in Known
  /\ \A p \in Pilots : entry["affil"][p] # "miss"
  /\ ~Flaky => \A p \in Known : entry["ids"][p] # "miss"

\* Everything a page needs to know of pilot p is cached.
Complete(p) == \A k \in DOMAIN Parts : entry[Parts[k]][p] # "none"

\* A name that worker w has not resolved: the cache knows it to be nobody's, or did so until
\* another request found it.
Told(w, p) == p \in Known => entry["ids"][p] = "miss" \/ p \in retold[w]

\* A pilot that costs nothing.
Cheap(p) ==
  \/ entry["ids"][p] = "miss"
  \/ entry["ids"][p] = "hit" /\ Complete(p) /\ blob

FreeIsCached == \A p \in free : Cheap(p)

\* While no entry expires and ESI refuses request r nothing, what r has found is all
\* there is to find.
Undisturbed(r) == ~r.refused /\ ~r.expired

\* Of the names: all are cached, and the rest is known to be nobody's.
FindsNames(w, r) ==
  \A p \in r.names : entry["ids"][p] # "none" /\ (p \notin r.resolved => Told(w, p))

\* Of the affiliations of a page it has been through: it has everyone's.
HasAffiliations(r) ==
  \A k \in 1 .. r.at - 1 : Parts[k] = "affil" => r.resolved \subseteq r.affiliated

\* Of the parts of a page it has been through: they are cached for everyone on it.
FindsParts(r) ==
  /\ \A k \in 1 .. r.at - 1, p \in r.resolved : entry[Parts[k]][p] # "none"
  /\ HasAffiliations(r)

\* Of the part it is at: what it will not ask for is cached.
FindsStage(w, r) ==
  /\ \A p \in Subjects(r) \ r.todo : entry[StageOf(r)][p] # "none"
  /\ r.at = 0 => \A p \in r.names \ (r.todo \cup r.got) : Told(w, p)
  /\ r.at > 0 /\ StageOf(r) = "affil" => Subjects(r) \ r.todo \subseteq r.got

FindsSome(r) ==
  /\ r.resolved \subseteq Known
  /\ r.at > 0 => r.resolved # {} /\ (r.mode # "page" => r.char \in r.resolved)

Finds(w, r) ==
  /\ FindsSome(r) /\ r.got \subseteq Known
  /\ Undisturbed(r) =>
       /\ r.at > 0 \/ r.status = 200 => FindsNames(w, r)
       /\ r.mode = "page" => FindsParts(r)
       /\ r.pc = "ask" => FindsStage(w, r)

\* A request that repeats a scan asks nothing, unless one of its names has been found since.
Repeats(w, r) ==
  r.repeat /\ r.names \cap retold[w] = {} =>
    /\ r.asked = {} /\ r.pc # "ask" /\ ~r.expired
    /\ r.names \subseteq free
    /\ r.at > 0 => blob /\ \A p \in r.resolved : Complete(p)

TruthInv ==
  /\ CacheIsTrue /\ FreeIsCached
  /\ \A w \in Workers : Finds(w, req[w]) /\ Repeats(w, req[w])

(***************************************************************************)
(* The records of requests                                                 *)
(***************************************************************************)
\* What a client is billed by is a key.
LEMMA KeyTyped ==
  /\ Idle.client \in Keys
  /\ \A h \in Headers : Billed(h) \in Keys
BY DEF Keys, Billed, Idle

\* The parts are stages.
LEMMA StageTyped ==
  /\ Len(Parts) \in Nat /\ DOMAIN Parts = 1 .. Len(Parts)
  /\ \A k \in 1 .. Len(Parts) : Parts[k] \in PartNames
  /\ \A r : /\ r.at = 0 => StageOf(r) = "ids"
            /\ r.at \in 1 .. Len(Parts) => StageOf(r) = Parts[r.at] /\ StageOf(r) \in PartNames
<1>1. Len(Parts) \in Nat /\ DOMAIN Parts = 1 .. Len(Parts)
      /\ \A k \in 1 .. Len(Parts) : Parts[k] \in PartNames
  BY PartsAssumption
<1> QED
  BY <1>1 DEF StageOf

\* A request at rest.
LEMMA IdleTyped ==
  /\ IsRequest(Idle) /\ Typed(Idle) /\ Shaped(Idle)
  /\ Idle.pc = "idle" /\ Idle.status = 0 /\ Idle.at = 0 /\ Idle.resolved = {} /\ Idle.got = {}
  /\ Idle.asked = {} /\ Idle.warzone = "none" /\ ~Idle.repeat /\ ~Idle.expired
<1>1. Len(Parts) \in Nat
  BY PartsAssumption
<1>2. Idle.client \in Keys
  BY KeyTyped
<1> QED
  BY <1>1, <1>2 DEF Idle, IsRequest, Fields, Typed, Shaped

\* Request r has ended, and what it was about to do is forgotten.
Ended(r, q, status) ==
  /\ q.pc = "done" /\ q.status = status /\ q.at = 0 /\ q.todo = {} /\ q.got = {}
  /\ Same(q, r, {"pc", "status", "at", "todo", "got", "affiliated", "char", "asked"})

\* That is what a response does.
LEMMA RespondFields ==
  ASSUME NEW r, IsRequest(r), NEW status
  PROVE  /\ IsRequest(Respond(r, status)) /\ Ended(r, Respond(r, status), status)
         /\ Respond(r, status).asked = r.asked
BY DEF Respond, IsRequest, Fields, Same, Ended

\* A request that has ended is well typed.
LEMMA EndedTyped ==
  ASSUME NEW r, Typed(r), NEW status \in {200, 400, 404, 429, 500, 503}, NEW q, Ended(r, q, status)
  PROVE  Typed(q) /\ Shaped(q)
<1>1. /\ q.client = r.client /\ q.names = r.names /\ q.resolved = r.resolved
      /\ q.warzone = r.warzone /\ q.pc = "done" /\ q.status = status /\ q.at = 0 /\ q.got = {}
  BY DEF Ended, Same, Fields
<1> QED
  BY <1>1, StageTyped DEF Typed, Shaped

\* After a stage a request has what the stage was for.
LEMMA AfterFields ==
  ASSUME NEW r, IsRequest(r), r.at \in Nat, NEW got
  PROVE  LET q == After(r, got)
             gone == r.at = 0 /\ (IF r.mode = "page" THEN got = {} ELSE r.char \notin got)
         IN
         /\ IsRequest(q) /\ q.todo = {} /\ q.got = {}
         /\ q.resolved = IF StageOf(r) = "ids" THEN got ELSE r.resolved
         /\ Same(q, r, {"pc", "status", "at", "todo", "got", "resolved", "affiliated", "char"})
         /\ gone => /\ q.pc = "done" /\ q.at = 0
                    /\ q.status = IF r.mode = "page" THEN 200 ELSE 404
         /\ ~gone => /\ q.pc = IF r.at = Len(Parts) THEN "warzone" ELSE "read"
                     /\ q.at = r.at + 1 /\ q.status = r.status /\ q.char = r.char
                     /\ q.affiliated = IF StageOf(r) = "affil" THEN got ELSE r.affiliated
<1> DEFINE on == [r EXCEPT
             !.pc = IF r.at = Len(Parts) THEN "warzone" ELSE "read",
             !.at = r.at + 1, !.todo = {}, !.got = {},
             !.resolved = IF StageOf(r) = "ids" THEN got ELSE r.resolved,
             !.affiliated = IF StageOf(r) = "affil" THEN got ELSE r.affiliated]
           gone == r.at = 0 /\ (IF r.mode = "page" THEN got = {} ELSE r.char \notin got)
           q == After(r, got)
<1>1. /\ IsRequest(on) /\ on.todo = {} /\ on.got = {}
      /\ on.resolved = IF StageOf(r) = "ids" THEN got ELSE r.resolved
      /\ Same(on, r, {"pc", "at", "todo", "got", "resolved", "affiliated"})
      /\ on.pc = IF r.at = Len(Parts) THEN "warzone" ELSE "read"
      /\ on.at = r.at + 1 /\ on.status = r.status /\ on.char = r.char
      /\ on.affiliated = IF StageOf(r) = "affil" THEN got ELSE r.affiliated
  BY DEF IsRequest, Fields, Same
<1>2. q = IF ~gone THEN on ELSE Respond(on, IF r.mode = "page" THEN 200 ELSE 404)
  BY DEF After
<1> HIDE DEF on, gone, q
<1>3. CASE gone
  <2>1. Ended(on, q, IF r.mode = "page" THEN 200 ELSE 404) /\ IsRequest(q)
    BY <1>1, <1>2, <1>3, RespondFields
  <2>2. q.asked = on.asked
    BY <1>1, <1>2, <1>3, RespondFields
  <2> QED
    BY <1>1, <1>3, <2>1, <2>2 DEF gone, q, Ended, Same, Fields
<1>4. CASE ~gone
  BY <1>1, <1>2, <1>4 DEF gone, q, Same, Fields
<1> QED
  BY <1>3, <1>4

\* It is well typed, if the stage was.
LEMMA AfterTyped ==
  ASSUME NEW r, IsRequest(r), Typed(r), Shaped(r), r.pc \in {"read", "ask"},
         NEW got, got \subseteq Subjects(r)
  PROVE  Typed(After(r, got)) /\ Shaped(After(r, got))
<1> DEFINE q == After(r, got)
           gone == r.at = 0 /\ (IF r.mode = "page" THEN got = {} ELSE r.char \notin got)
<1>1. r.at \in 0 .. Len(Parts) /\ Len(Parts) \in Nat
  BY StageTyped DEF Typed, Shaped
<1>2. StageOf(r) = "ids" <=> r.at = 0
  BY <1>1, StageTyped DEF PartNames
<1>3. /\ q.got = {} /\ q.client = r.client /\ q.names = r.names /\ q.warzone = r.warzone
      /\ q.resolved = IF StageOf(r) = "ids" THEN got ELSE r.resolved
      /\ gone => /\ q.pc = "done" /\ q.at = 0
                 /\ q.status = IF r.mode = "page" THEN 200 ELSE 404
      /\ ~gone => /\ q.pc = IF r.at = Len(Parts) THEN "warzone" ELSE "read"
                  /\ q.at = r.at + 1 /\ q.status = r.status
  BY <1>1, AfterFields DEF Same, Fields
<1>4. r.at = 0 => got \subseteq r.names
  BY DEF Subjects
<1>5. q.resolved \subseteq q.names /\ q.resolved \subseteq Pilots
  BY <1>2, <1>3, <1>4 DEF Typed
<1> HIDE DEF q, gone
<1>6. Typed(q)
  BY <1>1, <1>3, <1>5 DEF Typed
<1>7. Shaped(q)
  BY <1>1, <1>3 DEF Shaped
<1> QED
  BY <1>6, <1>7 DEF q

(***************************************************************************)
(* What each step of a worker does to its request                          *)
(***************************************************************************)
\* The request of w is q now, which is well typed.
Moves(w, q) ==
  /\ DOMAIN req' = Workers /\ req'[w] = q
  /\ \A v \in Workers \ {w} : req'[v] = req[v]
  /\ IsRequest(q) /\ Typed(q) /\ Shaped(q)

\* Every step of w leaves other requests alone.
LEMMA MovesTo ==
  ASSUME TypeInv, NEW w \in Workers, NEW q, req' = [req EXCEPT ![w] = q],
         IsRequest(q), Typed(q), Shaped(q)
  PROVE  Moves(w, q)
BY DEF TypeInv, Moves

\* A request is a request.
LEMMA ReqTyped ==
  ASSUME TypeInv, NEW w \in Workers
  PROVE  IsRequest(req[w]) /\ Typed(req[w]) /\ Shaped(req[w]) /\ DOMAIN req = Workers
BY DEF TypeInv

\* Whom a stage is about depends on these fields.
LEMMA SameSubjects ==
  ASSUME NEW r, NEW q, NEW S, Same(q, r, S),
         S \cap {"at", "names", "mode", "char", "resolved", "affiliated"} = {}
  PROVE  Subjects(q) = Subjects(r) /\ StageOf(q) = StageOf(r)
<1>1. /\ q.at = r.at /\ q.names = r.names /\ q.mode = r.mode /\ q.char = r.char
      /\ q.resolved = r.resolved /\ q.affiliated = r.affiliated
  BY DEF Same, Fields
<1> QED
  BY <1>1 DEF Subjects, StageOf

\* A request that arrives.
LEMMA ReceiveMoves ==
  ASSUME TypeInv, NEW w \in Workers, NEW h \in Headers, NEW names \in SUBSET Pilots,
         NEW mode \in Modes, NEW char \in Pilots, Receive(w, h, names, mode, char)
  PROVE  \E q : /\ Moves(w, q)
                /\ q.pc = "check" /\ q.names = names /\ q.at = 0 /\ q.status = 0
                /\ q.resolved = {} /\ q.got = {} /\ q.asked = {} /\ q.warzone = "none"
                /\ q.repeat = (names \subseteq free) /\ ~q.expired
                /\ retold' = [retold EXCEPT ![w] = {}]
<1> DEFINE q == [Idle EXCEPT
       !.pc = "check", !.client = Billed(h), !.names = names, !.mode = mode, !.char = char,
       !.repeat = names \subseteq free]
<1>1. IsRequest(q) /\ req' = [req EXCEPT ![w] = q]
  BY IdleTyped DEF Receive, IsRequest
<1>2. /\ q.pc = "check" /\ q.names = names /\ q.at = 0 /\ q.status = 0 /\ q.client = Billed(h)
      /\ q.resolved = {} /\ q.got = {} /\ q.asked = {} /\ q.warzone = "none"
      /\ q.repeat = (names \subseteq free) /\ ~q.expired
  BY IdleTyped DEF IsRequest, Fields
<1> HIDE DEF q
<1>3. Typed(q) /\ Shaped(q)
  BY <1>2, KeyTyped, StageTyped DEF Typed, Shaped
<1>4. retold' = [retold EXCEPT ![w] = {}]
  BY DEF Receive
<1> QED
  BY <1>1, <1>2, <1>3, <1>4, MovesTo

\* The look at the cache.
LEMMA CheckMoves ==
  ASSUME TypeInv, NEW w \in Workers, Check(w)
  PROVE  \E q : /\ Moves(w, q) /\ req[w].pc = "check" /\ req[w].at = 0
                /\ q.pc = IF MustPay(req[w].names) THEN "throttle" ELSE "read"
                /\ Same(q, req[w], {"pc"})
<1> DEFINE r == req[w]
           q == [r EXCEPT !.pc = IF MustPay(req[w].names) THEN "throttle" ELSE "read"]
<1>1. IsRequest(r) /\ Typed(r) /\ Shaped(r) /\ DOMAIN req = Workers
  BY ReqTyped
<1>2. IsRequest(q) /\ req' = [req EXCEPT ![w] = q] /\ r.pc = "check"
  BY <1>1 DEF Check, Serves, IsRequest
<1>3. q.pc = (IF MustPay(r.names) THEN "throttle" ELSE "read") /\ Same(q, r, {"pc"})
  BY <1>1 DEF IsRequest, Fields, Same
<1> HIDE DEF q, r
<1>4. Typed(q) /\ Shaped(q) /\ r.at = 0
  BY <1>1, <1>2, <1>3, StageTyped DEF Typed, Shaped, Fields, Same
<1> QED
  BY <1>1, <1>2, <1>3, <1>4, MovesTo DEF r

\* The token is taken, or the request is refused.
LEMMA ThrottleMoves ==
  ASSUME TypeInv, NEW w \in Workers, Throttle(w)
  PROVE  LET r == req[w] IN
         \E q : /\ Moves(w, q) /\ r.pc = "throttle" /\ r.at = 0
                /\ \/ /\ paid[r.client] = 0 /\ paid' = [paid EXCEPT ![r.client] = 1]
                      /\ q.pc = "read" /\ q.allowed /\ Same(q, r, {"pc", "allowed"})
                   \/ paid' = paid /\ Ended(r, q, 429) /\ q.asked = r.asked
<1> DEFINE r == req[w]
           yes == [r EXCEPT !.pc = "read", !.allowed = TRUE]
           no == Respond(r, 429)
<1>1. IsRequest(r) /\ Typed(r) /\ Shaped(r) /\ DOMAIN req = Workers
  BY ReqTyped
<1>2. r.pc = "throttle" /\ \/ /\ paid[r.client] = 0
                              /\ paid' = [paid EXCEPT ![r.client] = paid[r.client] + 1]
                              /\ req' = [req EXCEPT ![w] = yes]
                           \/ paid' = paid /\ req' = [req EXCEPT ![w] = no]
  BY <1>1 DEF Throttle, Serves, Allow
<1>3. IsRequest(yes) /\ yes.pc = "read" /\ yes.allowed /\ Same(yes, r, {"pc", "allowed"})
  BY <1>1 DEF IsRequest, Fields, Same
<1> HIDE DEF r
<1>4. IsRequest(no) /\ Ended(r, no, 429) /\ no.asked = r.asked
  BY <1>1, RespondFields
<1> HIDE DEF yes, no
<1>5. Typed(no) /\ Shaped(no)
  BY <1>1, <1>4, EndedTyped
<1>6. Typed(yes) /\ Shaped(yes) /\ r.at = 0
  BY <1>1, <1>2, <1>3, StageTyped DEF Typed, Shaped, Fields, Same
<1>7. CASE req' = [req EXCEPT ![w] = yes] /\ paid[r.client] = 0
           /\ paid' = [paid EXCEPT ![r.client] = paid[r.client] + 1]
  <2>1. paid[r.client] + 1 = 1
    BY <1>7
  <2>2. Moves(w, yes)
    BY <1>3, <1>6, <1>7, MovesTo
  <2> QED
    BY <1>2, <1>3, <1>6, <1>7, <2>1, <2>2 DEF r
<1>8. CASE req' = [req EXCEPT ![w] = no] /\ paid' = paid
  <2>1. Moves(w, no)
    BY <1>4, <1>5, <1>8, MovesTo
  <2> QED
    BY <1>2, <1>4, <1>6, <1>8, <2>1 DEF r
<1> QED
  BY <1>2, <1>7, <1>8

\* What a stage finds in the cache, and what it will have to ask.
LEMMA ReadMoves ==
  ASSUME TypeInv, NEW w \in Workers, Read(w)
  PROVE  LET r == req[w]
             todo == Subjects(r) \cap Cached(StageOf(r), "none")
         IN
         \E q : /\ Moves(w, q) /\ r.pc = "read"
                /\ \/ todo = {} /\ q = After(r, HitsOf(r))
                   \/ /\ todo # {} /\ q.pc = "ask" /\ q.todo = todo /\ q.got = HitsOf(r)
                      /\ Same(q, r, {"pc", "todo", "got"})
<1> DEFINE r == req[w]
           todo == Subjects(r) \cap Cached(StageOf(r), "none")
           ask == [r EXCEPT !.pc = "ask", !.todo = todo, !.got = HitsOf(r)]
           on == After(r, HitsOf(r))
<1>1. IsRequest(r) /\ Typed(r) /\ Shaped(r) /\ DOMAIN req = Workers
  BY ReqTyped
<1>2. r.pc = "read" /\ req' = [req EXCEPT ![w] = IF todo = {} THEN on ELSE ask]
  BY <1>1 DEF Read, Serves
<1>3. /\ IsRequest(ask) /\ ask.pc = "ask" /\ ask.todo = todo /\ ask.got = HitsOf(r)
      /\ Same(ask, r, {"pc", "todo", "got"})
  BY <1>1 DEF IsRequest, Fields, Same
<1>4. todo \subseteq Subjects(r) /\ HitsOf(r) \subseteq Subjects(r) /\ HitsOf(r) \subseteq Pilots
  BY DEF HitsOf, Cached
<1> HIDE DEF ask, on, r, todo
<1>5. Typed(on) /\ Shaped(on) /\ IsRequest(on)
  BY <1>1, <1>2, <1>4, AfterTyped, AfterFields DEF on, Typed
<1>6. todo # {} => Typed(ask) /\ Shaped(ask)
  <2>1. Subjects(ask) = Subjects(r)
    BY <1>3, SameSubjects
  <2> QED
    BY <1>1, <1>2, <1>3, <1>4, <2>1, StageTyped DEF Typed, Shaped, Fields, Same
<1>7. CASE todo = {}
  BY <1>2, <1>5, <1>7, MovesTo DEF on, r, todo
<1>8. CASE todo # {}
  BY <1>2, <1>3, <1>6, <1>8, MovesTo DEF r, todo
<1> QED
  BY <1>7, <1>8

\* Request a is r, with what it is about to ask noted.
Asking(a, r) ==
  /\ IsRequest(a) /\ a.asked = r.asked \cup {StageOf(r)}
  /\ Same(a, r, {"asked", "refused"})

\* What a request has asked makes no difference to where it is.
LEMMA AskingTyped ==
  ASSUME NEW r, Typed(r), Shaped(r), NEW a, Asking(a, r)
  PROVE  Typed(a) /\ Shaped(a)
<1>1. Subjects(a) = Subjects(r)
  BY SameSubjects DEF Asking
<1> QED
  BY <1>1 DEF Asking, Same, Fields, Typed, Shaped

\* ESI answers a stage, or refuses it.
LEMMA AskMoves ==
  ASSUME TypeInv, NEW w \in Workers, NEW good,
         \/ AskAnswered(w, good)
         \/ AskRefused(w) /\ good = {}
  PROVE  LET r == req[w] IN
         \E a, q :
           /\ Moves(w, q) /\ r.pc = "ask" /\ good \subseteq r.todo \cap Known /\ Asking(a, r)
           /\ q = After(a, r.got \cup good)
           /\ \/ a.refused = (r.refused \/ good # r.todo \cap Known) /\ AskAnswered(w, good)
              \/ a.refused = TRUE /\ AskRefused(w)
<1> DEFINE r == req[w]
           more == r.asked \cup {StageOf(r)}
           some == [r EXCEPT !.asked = more, !.refused = r.refused \/ good # r.todo \cap Known]
           none == [r EXCEPT !.asked = more, !.refused = TRUE]
<1>1. IsRequest(r) /\ Typed(r) /\ Shaped(r) /\ DOMAIN req = Workers
  BY ReqTyped
<1>2. /\ r.pc = "ask" /\ good \subseteq r.todo \cap Known
      /\ \/ req' = [req EXCEPT ![w] = After(some, r.got \cup good)] /\ AskAnswered(w, good)
         \/ req' = [req EXCEPT ![w] = After(none, r.got \cup good)] /\ AskRefused(w)
  BY <1>1 DEF AskAnswered, AskRefused, Serves
<1>3. Asking(some, r) /\ some.refused = (r.refused \/ good # r.todo \cap Known)
  BY <1>1 DEF IsRequest, Fields, Same, Asking
<1>4. Asking(none, r) /\ none.refused = TRUE
  BY <1>1 DEF IsRequest, Fields, Same, Asking
<1> HIDE DEF r, some, none
<1>5. ASSUME NEW a, Asking(a, r), req' = [req EXCEPT ![w] = After(a, r.got \cup good)]
      PROVE  Moves(w, After(a, r.got \cup good))
  <2>1. Typed(a) /\ Shaped(a) /\ IsRequest(a) /\ a.pc = "ask" /\ a.at \in Nat
    BY <1>1, <1>2, <1>5, AskingTyped DEF Asking, Same, Fields, Typed
  <2>2. Subjects(a) = Subjects(r)
    BY <1>5, SameSubjects DEF Asking
  <2>3. r.got \cup good \subseteq Subjects(a)
    BY <1>1, <1>2, <2>2 DEF Shaped
  <2>4. /\ Typed(After(a, r.got \cup good)) /\ Shaped(After(a, r.got \cup good))
        /\ IsRequest(After(a, r.got \cup good))
    BY <2>1, <2>3, AfterTyped, AfterFields
  <2> QED
    BY <1>5, <2>4, MovesTo
<1>6. CASE req' = [req EXCEPT ![w] = After(some, r.got \cup good)] /\ AskAnswered(w, good)
  <2>1. Moves(w, After(some, r.got \cup good))
    BY <1>3, <1>5, <1>6
  <2> QED
    BY <1>2, <1>3, <1>6, <2>1 DEF r
<1>7. CASE req' = [req EXCEPT ![w] = After(none, r.got \cup good)] /\ AskRefused(w)
  <2>1. Moves(w, After(none, r.got \cup good))
    BY <1>4, <1>5, <1>7
  <2> QED
    BY <1>2, <1>4, <1>7, <2>1 DEF r
<1> QED
  BY <1>2, <1>6, <1>7

\* A request that fails, or that is answered when it has been through its stages.
LEMMA EndMoves ==
  ASSUME TypeInv, NEW w \in Workers,
         \/ \E good \in SUBSET Pilots : AskRaised(w, good)
         \/ \E status \in {200, 400, 404, 500} : Load(w, status)
         \/ RedisRaises(w)
  PROVE  LET r == req[w] IN
         \E q : \E status \in {200, 400, 404, 500, 503} :
           /\ Moves(w, q) /\ Ended(r, q, status)
           /\ \/ r.pc = "ask" /\ q.asked = r.asked \cup {StageOf(r)}
              \/ q.asked = r.asked
           /\ status = 200 => r.pc = "load" /\ q.asked = r.asked
<1> DEFINE r == req[w]
           a == [r EXCEPT !.asked = r.asked \cup {StageOf(r)}]
           known == {200, 400, 404, 429, 500, 503}
           Ends(q, status) ==
             /\ Moves(w, q) /\ Ended(r, q, status)
             /\ \/ r.pc = "ask" /\ q.asked = r.asked \cup {StageOf(r)}
                \/ q.asked = r.asked
             /\ status = 200 => r.pc = "load" /\ q.asked = r.asked
           Goal == \E q : \E status \in {200, 400, 404, 500, 503} : Ends(q, status)
<1>1. IsRequest(r) /\ Typed(r) /\ Shaped(r) /\ DOMAIN req = Workers
  BY ReqTyped
<1>2. IsRequest(a) /\ a.asked = r.asked \cup {StageOf(r)} /\ Same(a, r, {"asked"})
  BY <1>1 DEF IsRequest, Fields, Same
<1>3. \/ r.pc = "ask" /\ req' = [req EXCEPT ![w] = Respond(a, 503)]
      \/ /\ r.pc = "load"
         /\ \E status \in {200, 400, 404, 500} : req' = [req EXCEPT ![w] = Respond(r, status)]
      \/ req' = [req EXCEPT ![w] = Respond(r, 500)]
  BY <1>1 DEF AskRaised, Load, RedisRaises, Serves
<1> SUFFICES Goal
  OBVIOUS
<1> HIDE DEF r, a
<1>4. ASSUME NEW status \in known
      PROVE  /\ Ended(r, Respond(r, status), status) /\ Respond(r, status).asked = r.asked
             /\ req' = [req EXCEPT ![w] = Respond(r, status)] => Moves(w, Respond(r, status))
  <2>1. /\ IsRequest(Respond(r, status)) /\ Ended(r, Respond(r, status), status)
        /\ Respond(r, status).asked = r.asked
    BY <1>1, RespondFields
  <2>2. Typed(Respond(r, status)) /\ Shaped(Respond(r, status))
    BY <1>1, <2>1, EndedTyped
  <2> QED
    BY <2>1, <2>2, MovesTo
<1> HIDE DEF known
<1>5. CASE r.pc = "ask" /\ req' = [req EXCEPT ![w] = Respond(a, 503)]
  <2>1. /\ IsRequest(Respond(a, 503)) /\ Ended(a, Respond(a, 503), 503)
        /\ Respond(a, 503).asked = a.asked
    BY <1>2, RespondFields
  <2>2. Ended(r, Respond(a, 503), 503)
    BY <1>2, <2>1 DEF Ended, Same, Fields
  <2>3. Typed(Respond(a, 503)) /\ Shaped(Respond(a, 503))
    BY <1>1, <2>2, EndedTyped
  <2>4. Moves(w, Respond(a, 503))
    BY <1>5, <2>1, <2>3, MovesTo
  <2>5. Respond(a, 503).asked = r.asked \cup {StageOf(r)}
    BY <1>2, <2>1
  <2> QED
    BY <1>5, <2>2, <2>4, <2>5
<1>6. ASSUME r.pc = "load", NEW status \in {200, 400, 404, 500},
             req' = [req EXCEPT ![w] = Respond(r, status)]
      PROVE  Goal
  <2>1. status \in known
    BY DEF known
  <2>2. Moves(w, Respond(r, status)) /\ Ended(r, Respond(r, status), status)
        /\ Respond(r, status).asked = r.asked
    BY <1>4, <1>6, <2>1
  <2>3. Ends(Respond(r, status), status)
    BY <1>6, <2>2
  <2> HIDE DEF Ends
  <2> QED
    BY <2>3
<1>7. CASE req' = [req EXCEPT ![w] = Respond(r, 500)]
  <2>1. Moves(w, Respond(r, 500)) /\ Ended(r, Respond(r, 500), 500)
        /\ Respond(r, 500).asked = r.asked
    BY <1>4, <1>7 DEF known
  <2> QED
    BY <2>1
<1> HIDE DEF Goal
<1> QED
  BY <1>3, <1>5, <1>6, <1>7


\* The warzone map is remembered, found, loaded, or given up for this once.
LEMMA WarzoneMoves ==
  ASSUME TypeInv, NEW w \in Workers, Warzone(w)
  PROVE  LET r == req[w] IN
         \E q : /\ Moves(w, q) /\ r.pc = "warzone" /\ q.pc = "load"
                /\ Same(q, r, {"pc", "warzone", "asked", "mapFailed"})
                /\ q.warzone = memo[w] \/ q.warzone = "map" \/ q.mapFailed
                /\ q.asked = r.asked \/ (~blob /\ q.asked = r.asked \cup {"warzone"})
<1> DEFINE r == req[w]
           more == r.asked \cup {"warzone"}
           found(map) == [r EXCEPT !.pc = "load", !.warzone = map]
           asked == [r EXCEPT !.asked = more]
           failed == [r EXCEPT !.asked = more, !.mapFailed = TRUE]
           loaded == [asked EXCEPT !.pc = "load", !.warzone = "map"]
           given_up == [failed EXCEPT !.pc = "load", !.warzone = "empty"]
<1>1. IsRequest(r) /\ Typed(r) /\ Shaped(r) /\ DOMAIN req = Workers
      /\ memo[w] \in {"none", "map", "empty"}
  BY ReqTyped DEF TypeInv
<1>2. /\ r.pc = "warzone"
      /\ \/ req' = [req EXCEPT ![w] = found(memo[w])]
         \/ req' = [req EXCEPT ![w] = found("map")]
         \/ req' = [req EXCEPT ![w] = loaded] /\ ~blob
         \/ req' = [req EXCEPT ![w] = given_up] /\ ~blob
  BY <1>1 DEF Warzone, WarzoneMemo, WarzoneBlob, WarzoneLoaded, WarzoneFailed, WithMap, Serves
<1>3. \A map : /\ IsRequest(found(map)) /\ found(map).pc = "load" /\ found(map).warzone = map
               /\ Same(found(map), r, {"pc", "warzone"})
  BY <1>1 DEF IsRequest, Fields, Same
<1>4. /\ IsRequest(loaded) /\ loaded.pc = "load" /\ loaded.warzone = "map"
      /\ loaded.asked = more /\ Same(loaded, r, {"pc", "warzone", "asked"})
  BY <1>1 DEF IsRequest, Fields, Same
<1>5. /\ IsRequest(given_up) /\ given_up.pc = "load" /\ given_up.warzone = "empty"
      /\ given_up.asked = more /\ given_up.mapFailed
      /\ Same(given_up, r, {"pc", "warzone", "asked", "mapFailed"})
  BY <1>1 DEF IsRequest, Fields, Same
<1> HIDE DEF r, found, loaded, given_up
<1>6. ASSUME NEW q, req' = [req EXCEPT ![w] = q], IsRequest(q), q.pc = "load",
             q.warzone \in {"none", "map", "empty"},
             Same(q, r, {"pc", "warzone", "asked", "mapFailed"})
      PROVE  Moves(w, q)
  <2>1. Typed(q) /\ Shaped(q)
    BY <1>1, <1>2, <1>6 DEF Typed, Shaped, Same, Fields
  <2> QED
    BY <1>6, <2>1, MovesTo
<1>7. CASE req' = [req EXCEPT ![w] = found(memo[w])] \/ req' = [req EXCEPT ![w] = found("map")]
  <2>1. PICK map \in {memo[w], "map"} : req' = [req EXCEPT ![w] = found(map)]
    BY <1>7
  <2>2. /\ IsRequest(found(map)) /\ found(map).pc = "load" /\ found(map).warzone = map
        /\ Same(found(map), r, {"pc", "warzone", "asked", "mapFailed"})
        /\ found(map).asked = r.asked
    BY <1>3 DEF Same, Fields
  <2>3. Moves(w, found(map))
    BY <1>1, <1>6, <2>1, <2>2
  <2> QED
    BY <1>2, <2>2, <2>3 DEF r
<1>8. CASE req' = [req EXCEPT ![w] = loaded] /\ ~blob
  <2>1. Same(loaded, r, {"pc", "warzone", "asked", "mapFailed"})
    BY <1>4 DEF Same, Fields
  <2>2. Moves(w, loaded)
    BY <1>4, <1>6, <1>8, <2>1
  <2> QED
    BY <1>2, <1>4, <1>8, <2>1, <2>2 DEF r
<1>9. CASE req' = [req EXCEPT ![w] = given_up] /\ ~blob
  <2>1. Moves(w, given_up)
    BY <1>5, <1>6, <1>9
  <2> QED
    BY <1>2, <1>5, <1>9, <2>1 DEF r
<1> QED
  BY <1>2, <1>7, <1>8, <1>9

\* An entry expires: every request under way is told.
LEMMA ForgottenFields ==
  ASSUME TypeInv, Forgotten, NEW w \in Workers
  PROVE  /\ DOMAIN req' = Workers
         /\ IsRequest(req'[w]) /\ Same(req'[w], req[w], {"repeat", "expired"})
         /\ ~req'[w].repeat /\ req'[w].expired
         /\ Typed(req'[w]) /\ Shaped(req'[w])
<1>1. IsRequest(req[w]) /\ Typed(req[w]) /\ Shaped(req[w])
  BY ReqTyped
<1>2. DOMAIN req' = Workers /\ req'[w] = [req[w] EXCEPT !.repeat = FALSE, !.expired = TRUE]
  BY DEF Forgotten
<1>3. /\ IsRequest(req'[w]) /\ Same(req'[w], req[w], {"repeat", "expired"})
      /\ ~req'[w].repeat /\ req'[w].expired
  BY <1>1, <1>2 DEF IsRequest, Same, Fields
<1>4. Subjects(req'[w]) = Subjects(req[w])
  BY <1>3, SameSubjects
<1>5. Typed(req'[w])
  BY <1>1, <1>3 DEF Typed, Same, Fields
<1>6. Shaped(req'[w])
  BY <1>1, <1>3, <1>4 DEF Shaped, Same, Fields
<1> QED
  BY <1>2, <1>3, <1>5, <1>6

(***************************************************************************)
(* Types                                                                   *)
(***************************************************************************)
\* Init is well typed.
LEMMA TypeInit ==
  Init => TypeInv
<1> SUFFICES ASSUME Init PROVE TypeInv
  OBVIOUS
<1>1. DOMAIN req = Workers /\ \A w \in Workers : req[w] = Idle
  BY DEF Init
<1>2. \A w \in Workers : IsRequest(req[w]) /\ Typed(req[w]) /\ Shaped(req[w])
  BY <1>1, IdleTyped
<1>3. /\ redis \in BOOLEAN /\ blob \in BOOLEAN /\ free \subseteq Pilots
      /\ entry \in [Stages -> [Pilots -> {"none", "hit", "miss"}]]
      /\ memo \in [Workers -> {"none", "map", "empty"}] /\ paid \in [Keys -> Nat]
      /\ retold \in [Workers -> SUBSET Pilots]
  BY DEF Init
<1> QED
  BY <1>1, <1>2, <1>3 DEF TypeInv

\* What a stage learns are entries.
LEMMA LearnedTyped ==
  ASSUME TypeInv, NEW s \in Stages, NEW good, NEW todo
  PROVE  /\ Learned(s, good, todo) \in [Stages -> [Pilots -> {"none", "hit", "miss"}]]
         /\ \A z \in Stages \ {s} : Learned(s, good, todo)[z] = entry[z]
         /\ \A p \in Pilots : Learned(s, good, todo)[s][p] =
              IF p \in good THEN "hit"
              ELSE IF p \in todo /\ s \in Remembers THEN "miss" ELSE entry[s][p]
BY DEF TypeInv, Learned

\* Only pilots become free.
LEMMA FreedTyped ==
  ASSUME TypeInv, NEW w, NEW r, Typed(r)
  PROVE  Freed(w, r) \subseteq Pilots
BY DEF TypeInv, Freed, Typed

\* The stage a request is about to ask is a stage.
LEMMA AskStage ==
  ASSUME TypeInv, NEW w \in Workers, req[w].pc \in {"read", "ask"}
  PROVE  /\ req[w].at \in 0 .. Len(Parts) /\ StageOf(req[w]) \in Stages
         /\ StageOf(req[w]) = "ids" <=> req[w].at = 0
<1>1. req[w].at \in 0 .. Len(Parts)
  BY ReqTyped, StageTyped DEF Typed, Shaped
<1> QED
  BY <1>1, StageTyped DEF Stages, PartNames

\* What an answer changes.
LEMMA AnswerChanges ==
  ASSUME NEW w, NEW good, AskAnswered(w, good)
  PROVE  LET s == StageOf(req[w]) IN
         /\ good \subseteq req[w].todo \cap Known /\ (~Flaky => good = req[w].todo \cap Known)
         /\ entry' = Learned(s, good, req[w].todo)
         /\ free' = Freed(w, req'[w]) \ Contradicted(s, good)
         /\ retold' = [v \in Workers |->
              IF v = w THEN retold[w] ELSE retold[v] \cup Contradicted(s, good)]
         /\ UNCHANGED <<redis, blob, memo, paid>>
BY Zenon DEF AskAnswered

\* No step leaves the types; one step of the proof an action.
LEMMA TypeStep ==
  ASSUME TypeInv, [Next]_vars
  PROVE  TypeInv'
<1>0. ASSUME NEW w \in Workers, NEW q, Moves(w, q), UNCHANGED <<redis, entry, blob, memo, paid>>,
             free' \subseteq Pilots, retold' \in [Workers -> SUBSET Pilots]
      PROVE  TypeInv'
  BY <1>0 DEF TypeInv, Moves
<1>1. ASSUME NEW w \in Workers, NEW h \in Headers, NEW names \in SUBSET Pilots, NEW mode \in Modes,
             NEW char \in Pilots, Receive(w, h, names, mode, char)
      PROVE  TypeInv'
  <2>1. PICK q : Moves(w, q)
    BY <1>1, ReceiveMoves
  <2> QED
    BY <1>0, <1>1, <2>1 DEF Receive, TypeInv
<1>2. ASSUME NEW w \in Workers, Check(w) PROVE TypeInv'
  <2>1. PICK q : Moves(w, q)
    BY <1>2, CheckMoves
  <2> QED
    BY <1>0, <1>2, <2>1 DEF Check, TypeInv
<1>3. ASSUME NEW w \in Workers, Throttle(w) PROVE TypeInv'
  <2>1. PICK q : Moves(w, q)
    BY <1>3, ThrottleMoves
  <2>2. /\ UNCHANGED <<redis, entry, blob, memo, free, retold>>
        /\ \/ paid' = paid
           \/ paid' = [paid EXCEPT ![req[w].client] = paid[req[w].client] + 1]
    BY <1>3 DEF Throttle
  <2>3. paid' \in [Keys -> Nat]
    BY <2>2 DEF TypeInv
  <2> QED
    BY <2>1, <2>2, <2>3 DEF TypeInv, Moves
<1>4. ASSUME NEW w \in Workers, Read(w) PROVE TypeInv'
  <2>1. PICK q : Moves(w, q)
    BY <1>4, ReadMoves
  <2>2. free' \subseteq Pilots
    BY <1>4, <2>1, FreedTyped DEF Read, Moves
  <2> QED
    BY <1>0, <1>4, <2>1, <2>2 DEF Read, TypeInv
<1>5. ASSUME NEW w \in Workers, NEW good, AskAnswered(w, good) PROVE TypeInv'
  <2>1. PICK q : Moves(w, q) /\ req[w].pc = "ask"
    BY <1>5, AskMoves
  <2>2. free' \subseteq Pilots
    BY <1>5, <2>1, FreedTyped, AnswerChanges DEF Moves
  <2>3. entry' \in [Stages -> [Pilots -> {"none", "hit", "miss"}]]
    BY <1>5, <2>1, AskStage, LearnedTyped, AnswerChanges
  <2>4. \A s : Contradicted(s, good) \subseteq Pilots
    BY DEF Contradicted, Cached
  <2>5. retold' \in [Workers -> SUBSET Pilots]
    BY <1>5, <2>4, AnswerChanges DEF TypeInv
  <2> QED
    BY <1>5, <2>1, <2>2, <2>3, <2>5, AnswerChanges DEF TypeInv, Moves
<1>6. ASSUME NEW w \in Workers, AskRefused(w) PROVE TypeInv'
  <2>1. PICK q : Moves(w, q)
    BY <1>6, AskMoves
  <2>2. free' \subseteq Pilots
    BY <1>6, <2>1, FreedTyped DEF AskRefused, Moves
  <2> QED
    BY <1>0, <1>6, <2>1, <2>2 DEF AskRefused, TypeInv
<1>7. ASSUME NEW w \in Workers, NEW good \in SUBSET Pilots, AskRaised(w, good) PROVE TypeInv'
  <2>1. PICK q : Moves(w, q)
    BY <1>7, EndMoves
  <2>2. req[w].pc = "ask"
    BY <1>7 DEF AskRaised, Serves
  <2>3. entry' \in [Stages -> [Pilots -> {"none", "hit", "miss"}]]
    BY <1>7, <2>2, AskStage, LearnedTyped DEF AskRaised
  <2> QED
    BY <1>7, <2>1, <2>3 DEF AskRaised, TypeInv, Moves
<1>8. ASSUME NEW w \in Workers, Warzone(w) PROVE TypeInv'
  <2>1. PICK q : Moves(w, q)
    BY <1>8, WarzoneMoves
  <2>2. /\ UNCHANGED <<redis, entry, paid, free, retold>> /\ blob' \in BOOLEAN
        /\ memo' \in [Workers -> {"none", "map", "empty"}]
    BY <1>8 DEF Warzone, WarzoneMemo, WarzoneBlob, WarzoneLoaded, WarzoneFailed, TypeInv
  <2> QED
    BY <2>1, <2>2 DEF TypeInv, Moves
<1>9. ASSUME NEW w \in Workers, NEW status \in {200, 400, 404, 500}, Load(w, status) PROVE TypeInv'
  <2>1. PICK q : Moves(w, q)
    BY <1>9, EndMoves
  <2>2. free' \subseteq Pilots
    BY <1>9, <2>1, FreedTyped DEF Load, Moves
  <2> QED
    BY <1>0, <1>9, <2>1, <2>2 DEF Load, TypeInv
<1>10. ASSUME NEW w \in Workers, RedisRaises(w) PROVE TypeInv'
  <2>1. PICK q : Moves(w, q)
    BY <1>10, EndMoves
  <2> QED
    BY <1>0, <1>10, <2>1 DEF RedisRaises, TypeInv
<1>11. ASSUME NEW w \in Workers, Restart(w) PROVE TypeInv'
  BY <1>11, IdleTyped DEF Restart, TypeInv
<1>12. ASSUME NEW s \in Stages, NEW p \in Pilots, Expire(s, p) PROVE TypeInv'
  <2>1. entry' \in [Stages -> [Pilots -> {"none", "hit", "miss"}]] /\ free' = {}
    BY <1>12 DEF Expire, Forgotten, TypeInv
  <2>2. Forgotten /\ DOMAIN req' = Workers
    BY <1>12 DEF Expire, Forgotten
  <2> QED
    BY <1>12, <2>1, <2>2, ForgottenFields DEF Expire, TypeInv
<1>13. ASSUME ExpireBlob PROVE TypeInv'
  <2>1. Forgotten /\ DOMAIN req' = Workers /\ free' = {}
    BY <1>13 DEF ExpireBlob, Forgotten
  <2> QED
    BY <1>13, <2>1, ForgottenFields DEF ExpireBlob, TypeInv
<1>14. ASSUME NEW k \in Keys, ExpireToken(k) PROVE TypeInv'
  BY <1>14 DEF ExpireToken, TypeInv
<1>15. CASE RedisToggles
  BY <1>15 DEF RedisToggles, TypeInv
<1>16. CASE UNCHANGED vars
  BY <1>16 DEF vars, TypeInv
<1> QED
  BY <1>1, <1>2, <1>3, <1>4, <1>5, <1>6, <1>7, <1>8, <1>9, <1>10, <1>11, <1>12, <1>13, <1>14,
     <1>15, <1>16 DEF Next, Serve

\* Every reachable state is well typed.
LEMMA TypeInvariant ==
  Spec => []TypeInv
<1>1. TypeInv /\ [Next]_vars => TypeInv'
  BY TypeStep
<1> QED
  BY <1>1, TypeInit, PTL DEF Spec

\* Every variable stays in its type: a request asks only about its own pilots, and what it
\* resolves was pasted.
THEOREM RequestsAreTyped ==
  Spec => []TypeOK
<1>1. TypeInv => TypeOK
  BY DEF TypeInv, TypeOK, Typed, Shaped
<1> QED
  BY <1>1, TypeInvariant, PTL

(***************************************************************************)
(* The throttle                                                            *)
(***************************************************************************)
\* A client's key holds one token at most.
LEMMA PaidStep ==
  ASSUME TypeInv, PaidOnce, [Next]_vars
  PROVE  PaidOnce'
<1>1. ASSUME NEW w \in Workers, Throttle(w) PROVE PaidOnce'
  <2>1. paid' = paid \/ \E k \in Keys : paid' = [paid EXCEPT ![k] = 1]
    BY <1>1, ThrottleMoves, ReqTyped DEF Typed
  <2> QED
    BY <2>1 DEF PaidOnce, TypeInv
<1>2. ASSUME NEW k \in Keys, ExpireToken(k) PROVE PaidOnce'
  BY <1>2 DEF ExpireToken, PaidOnce, TypeInv
<1>3. CASE paid' = paid
  BY <1>3 DEF PaidOnce
<1>4. ASSUME NEW w \in Workers, Serve(w) PROVE Throttle(w) \/ paid' = paid
  BY <1>4 DEF Serve, Check, Read, AskAnswered, AskRaised, AskRefused, Warzone, WarzoneMemo,
              WarzoneBlob, WarzoneLoaded, WarzoneFailed, Load, RedisRaises
<1>5. ASSUME NEW w \in Workers, \/ Restart(w)
                                \/ \E h \in Headers, names \in SUBSET Pilots \ {{}}, mode \in Modes :
                                     \E char \in Pilots : Receive(w, h, names, mode, char)
      PROVE  paid' = paid
  BY <1>5 DEF Restart, Receive
<1>6. ASSUME \/ \E s \in Stages, p \in Pilots : Expire(s, p)
             \/ ExpireBlob \/ RedisToggles \/ UNCHANGED vars
      PROVE  paid' = paid
  BY <1>6 DEF Expire, ExpireBlob, RedisToggles, vars
<1> QED
  BY <1>1, <1>2, <1>3, <1>4, <1>5, <1>6 DEF Next

\* The sum over one key is what that key holds.
LEMMA SumOfOne ==
  ASSUME NEW k, paid[k] \in Nat
  PROVE  MapThenSumSet(LAMBDA x : paid[x], {k}) = paid[k]
<1> DEFINE Adds(iter) ==
             iter = [s \in SUBSET {k} |->
                       IF s = {} THEN 0
                       ELSE paid[CHOOSE x \in s : TRUE] + iter[s \ {CHOOSE x \in s : TRUE}]]
           one == [s \in SUBSET {k} |-> IF s = {} THEN 0 ELSE paid[k]]
           sum == CHOOSE iter : Adds(iter)
<1>1. MapThenSumSet(LAMBDA x : paid[x], {k}) = sum[{k}]
  BY DEF MapThenSumSet, MapThenFoldSet
<1>2. SUBSET {k} = {{}, {k}} /\ (CHOOSE x \in {k} : TRUE) = k /\ {k} \ {k} = {}
  OBVIOUS
<1>3. \A s \in SUBSET {k} :
        one[s] = IF s = {} THEN 0
                 ELSE paid[CHOOSE x \in s : TRUE] + one[s \ {CHOOSE x \in s : TRUE}]
  BY <1>2
<1>4. Adds(one)
  BY <1>3
<1>5. Adds(sum)
  <2> HIDE DEF Adds, one
  <2> QED
    BY <1>4
<1>6. sum[{}] = 0 /\ sum[{k}] = paid[k] + sum[{}]
  <2> HIDE DEF sum
  <2> QED
    BY <1>2, <1>5
<1> QED
  BY <1>1, <1>6

\* However the edge spells the address of a visitor, its requests are billed to one key, and
\* that key is not let through twice before it expires.
THEOREM OneLookupForAClient ==
  Spec => []OneLookupAClient
<1>1. TypeInv /\ PaidOnce => OneLookupAClient
  <2> SUFFICES ASSUME TypeInv, PaidOnce, NEW a \in {Address[h] : h \in Headers}
               PROVE  LET keys == {Billed(h) : h \in {g \in Headers : Address[g] = a}}
                      IN MapThenSumSet(LAMBDA k : paid[k], keys) <= 1
    BY DEF OneLookupAClient
  <2> DEFINE k == IF a = Unusable THEN RemoteAddr ELSE a
             keys == {Billed(h) : h \in {g \in Headers : Address[g] = a}}
  <2>1. keys = {k}
    BY DEF Billed
  <2>2. k \in Keys
    BY DEF Keys
  <2>3. paid[k] \in Nat /\ paid[k] <= 1
    BY <2>2 DEF TypeInv, PaidOnce
  <2>4. MapThenSumSet(LAMBDA x : paid[x], {k}) = paid[k]
    <3> HIDE DEF k
    <3> QED
      BY <2>3, SumOfOne
  <2>5. MapThenSumSet(LAMBDA x : paid[x], keys) = paid[k]
    BY <2>1, <2>4
  <2> QED
    BY <2>3, <2>5
<1>2. Init => PaidOnce
  BY DEF Init, PaidOnce
<1>3. TypeInv /\ PaidOnce /\ [Next]_vars => PaidOnce'
  BY PaidStep
<1> QED
  BY <1>1, <1>2, <1>3, TypeInvariant, PTL DEF Spec

(***************************************************************************)
(* Entries, and what a request pays for                                    *)
(***************************************************************************)
\* What was cached still is, as a value or as a miss.
Grows == \A s \in Stages, p \in Pilots : entry[s][p] # "none" => entry'[s][p] # "none"

\* Learning loses nothing.
LEMMA LearnedGrows ==
  ASSUME TypeInv, NEW s \in Stages, NEW good, NEW todo, entry' = Learned(s, good, todo)
  PROVE  Grows
<1> SUFFICES ASSUME NEW z \in Stages, NEW p \in Pilots, entry[z][p] # "none"
             PROVE  entry'[z][p] # "none"
  BY DEF Grows
<1>1. CASE z = s
  BY <1>1, LearnedTyped
<1>2. CASE z # s
  BY <1>2, LearnedTyped
<1> QED
  BY <1>1, <1>2

\* Only expiry takes entries away.
LEMMA ServeGrows ==
  ASSUME TypeInv, NEW w \in Workers, Serve(w)
  PROVE  Grows
<1>1. ASSUME NEW good, AskAnswered(w, good) \/ AskRaised(w, good) PROVE Grows
  <2>1. req[w].pc = "ask"
    BY <1>1 DEF AskAnswered, AskRaised, Serves
  <2>2. StageOf(req[w]) \in Stages
    BY <2>1, AskStage
  <2>3. \E todo : entry' = Learned(StageOf(req[w]), good, todo)
    BY <1>1 DEF AskAnswered, AskRaised
  <2> QED
    BY <2>2, <2>3, LearnedGrows
<1>2. ASSUME ~\E good \in SUBSET Pilots : AskAnswered(w, good) \/ AskRaised(w, good)
      PROVE  entry' = entry
  BY <1>2 DEF Serve, Check, Throttle, Read, AskRefused, Warzone, WarzoneMemo, WarzoneBlob,
              WarzoneLoaded, WarzoneFailed, Load, RedisRaises
<1> QED
  BY <1>1, <1>2 DEF Grows

\* A request that is left alone pays for what it did.
LEMMA PaysFrame ==
  ASSUME TypeInv, NEW r, Pays(r), Grows
  PROVE  Pays(r)'
<1>1. Cached("ids", "none")' \subseteq Cached("ids", "none")
  BY DEF Grows, Cached, Stages
<1> QED
  BY <1>1 DEF Pays

\* A request that goes on to its next stage, or ends, pays for the stage it had.
LEMMA PaysOn ==
  ASSUME NEW r, NEW q, NEW a, Pays(r), Grows, TypeInv,
         Same(a, r, {"asked", "refused"}), q.allowed = a.allowed, q.expired = a.expired,
         q.asked = a.asked, q.pc \notin {"ask"}, q.pc = "read" => q.at # 0,
         \/ a.asked = r.asked
         \/ r.pc = "ask" /\ a.asked = r.asked \cup {StageOf(r)} /\ (StageOf(r) = "ids" => r.at = 0)
  PROVE  Pays(q)'
<1>1. q.allowed = r.allowed /\ q.expired = r.expired
  BY DEF Same, Fields
<1>2. "ids" \in q.asked => q.allowed \/ q.expired
  BY <1>1 DEF Pays
<1> QED
  BY <1>2 DEF Pays

\* Whatever a step does, a lookup of names stays paid for.
LEMMA PaysStep ==
  ASSUME TypeInv, Payments, [Next]_vars
  PROVE  Payments'
<1>1. ASSUME NEW w \in Workers, NEW q, Moves(w, q), Grows, Pays(q)' PROVE Payments'
  BY <1>1, PaysFrame DEF Payments, Moves
<1>2. ASSUME NEW w \in Workers, NEW h \in Headers, NEW names \in SUBSET Pilots, NEW mode \in Modes,
             NEW char \in Pilots, Receive(w, h, names, mode, char)
      PROVE  Payments'
  <2>1. PICK q : /\ Moves(w, q)
                 /\ q.pc = "check" /\ q.names = names /\ q.at = 0 /\ q.status = 0
                 /\ q.resolved = {} /\ q.got = {} /\ q.asked = {} /\ q.warzone = "none"
                 /\ q.repeat = (names \subseteq free) /\ ~q.expired
                 /\ retold' = [retold EXCEPT ![w] = {}]
    BY <1>2, ReceiveMoves
  <2>2. Pays(q)'
    BY <2>1 DEF Pays
  <2> QED
    BY <1>1, <1>2, <2>1, <2>2 DEF Receive, Grows
<1>3. ASSUME NEW w \in Workers, Check(w) PROVE Payments'
  <2>1. PICK q : /\ Moves(w, q) /\ Same(q, req[w], {"pc"})
                 /\ q.pc = IF MustPay(req[w].names) THEN "throttle" ELSE "read"
    BY <1>3, CheckMoves
  <2>2. Pays(q) /\ entry' = entry
    BY <1>3, <2>1 DEF Check, Payments, Pays, Same, Fields, MustPay
  <2>3. Grows
    BY <2>2 DEF Grows
  <2> QED
    BY <1>1, <2>1, <2>2, <2>3, PaysFrame
<1>4. ASSUME NEW w \in Workers, Throttle(w) PROVE Payments'
  <2>1. PICK q : /\ Moves(w, q) /\ \/ q.allowed
                                   \/ Ended(req[w], q, 429) /\ q.asked = req[w].asked
    BY <1>4, ThrottleMoves
  <2>2. Pays(q) /\ entry' = entry
    BY <1>4, <2>1 DEF Throttle, Payments, Pays, Ended, Same, Fields
  <2>3. Grows
    BY <2>2 DEF Grows
  <2> QED
    BY <1>1, <2>1, <2>2, <2>3, PaysFrame
<1>5. ASSUME NEW w \in Workers, Read(w) PROVE Payments'
  <2> DEFINE r == req[w]
             todo == Subjects(r) \cap Cached(StageOf(r), "none")
  <2>1. PICK q : /\ Moves(w, q) /\ r.pc = "read"
                 /\ \/ todo = {} /\ q = After(r, HitsOf(r))
                    \/ todo # {} /\ q.pc = "ask" /\ Same(q, r, {"pc", "todo", "got"})
    BY <1>5, ReadMoves
  <2>2. entry' = entry /\ Pays(r) /\ IsRequest(r) /\ r.at \in Nat
    BY <1>5, ReqTyped, StageTyped DEF Read, Payments, Typed
  <2>3. Grows
    BY <2>2 DEF Grows
  <2>4. CASE q = After(r, HitsOf(r))
    <3>1. /\ q.pc # "ask" /\ (q.pc = "read" => q.at = r.at + 1)
          /\ q.allowed = r.allowed /\ q.expired = r.expired /\ q.asked = r.asked
      BY <2>2, <2>4, AfterFields DEF Same, Fields
    <3> QED
      BY <1>1, <2>1, <2>2, <2>3, <3>1, PaysOn DEF Same
  <2>5. CASE todo # {} /\ q.pc = "ask" /\ Same(q, r, {"pc", "todo", "got"})
    <3>1. r.at = 0 => todo = r.names \cap Cached("ids", "none")
      BY DEF Subjects, StageOf
    <3>2. Pays(q)
      BY <2>1, <2>2, <2>5, <3>1 DEF Pays, Same, Fields
    <3> QED
      BY <1>1, <2>1, <2>3, <3>2, PaysFrame
  <2> QED
    BY <2>1, <2>4, <2>5
<1>6. ASSUME NEW w \in Workers, NEW good, Grows,
             \/ AskAnswered(w, good)
             \/ AskRefused(w) /\ good = {}
      PROVE  Payments'
  <2> DEFINE r == req[w]
  <2>1. PICK a, q : /\ Moves(w, q) /\ r.pc = "ask" /\ Asking(a, r)
                    /\ q = After(a, r.got \cup good)
    BY <1>6, AskMoves
  <2>2. Pays(r) /\ IsRequest(a) /\ a.at \in Nat /\ (StageOf(r) = "ids" => r.at = 0)
    BY <2>1, AskStage DEF Payments, Asking, Same, Fields
  <2>3. /\ q.pc # "ask" /\ (q.pc = "read" => q.at = a.at + 1)
        /\ q.allowed = a.allowed /\ q.expired = a.expired /\ q.asked = a.asked
    BY <2>1, <2>2, AfterFields DEF Same, Fields
  <2> QED
    <3>1. Same(a, r, {"asked", "refused"}) /\ a.asked = r.asked \cup {StageOf(r)}
      BY <2>1 DEF Asking
    <3>2. q.pc = "read" => q.at # 0
      BY <2>2, <2>3
    <3>3. Pays(q)'
      BY <1>6, <2>1, <2>2, <2>3, <3>1, <3>2, PaysOn
    <3> QED
      BY <1>1, <1>6, <2>1, <3>3
<1>7. ASSUME NEW w \in Workers, Grows,
             \/ \E good \in SUBSET Pilots : AskRaised(w, good)
             \/ \E status \in {200, 400, 404, 500} : Load(w, status)
             \/ RedisRaises(w)
      PROVE  Payments'
  <2> DEFINE r == req[w]
  <2>1. PICK q : \E status \in {200, 400, 404, 500, 503} :
           /\ Moves(w, q) /\ Ended(r, q, status)
           /\ \/ r.pc = "ask" /\ q.asked = r.asked \cup {StageOf(r)}
              \/ q.asked = r.asked
    BY <1>7, EndMoves
  <2>2. Pays(r) /\ (r.pc = "ask" /\ StageOf(r) = "ids" => r.at = 0)
    BY AskStage DEF Payments
  <2>3. /\ q.pc = "done" /\ q.allowed = r.allowed /\ q.expired = r.expired
    BY <2>1 DEF Ended, Same, Fields
  <2>4. Pays(q)'
    BY <2>1, <2>2, <2>3 DEF Pays
  <2> QED
    BY <1>1, <1>7, <2>1, <2>4
<1>8. ASSUME NEW w \in Workers, Warzone(w), Grows PROVE Payments'
  <2>1. PICK q : /\ Moves(w, q) /\ q.pc = "load" /\ Same(q, req[w], {"pc", "warzone", "asked", "mapFailed"})
                 /\ q.asked = req[w].asked \/ q.asked = req[w].asked \cup {"warzone"}
    BY <1>8, WarzoneMoves
  <2>2. Pays(q)'
    BY <2>1 DEF Payments, Pays, Same, Fields
  <2> QED
    BY <1>1, <1>8, <2>1, <2>2
<1>9. ASSUME NEW w \in Workers, Restart(w) PROVE Payments'
  <2>1. /\ DOMAIN req' = Workers /\ req'[w] = Idle /\ \A v \in Workers \ {w} : req'[v] = req[v]
        /\ entry' = entry
    BY <1>9 DEF Restart, TypeInv
  <2>2. Pays(Idle)'
    BY IdleTyped DEF Pays
  <2> QED
    BY <2>1, <2>2, PaysFrame DEF Payments, Grows
<1>10. ASSUME Forgotten PROVE Payments'
  <2> SUFFICES ASSUME NEW w \in Workers PROVE Pays(req[w])'
    BY DEF Payments
  <2> QED
    BY <1>10, ForgottenFields DEF Pays
<1>11. CASE UNCHANGED <<entry, req>>
  BY <1>11 DEF Payments, Pays, Cached
<1> QED
  <2>1. ASSUME NEW w \in Workers, Serve(w) PROVE Payments'
    <3>1. Grows
      BY <2>1, ServeGrows
    <3> QED
      <4>1. \/ Check(w) \/ Throttle(w) \/ Read(w) \/ AskRefused(w) \/ Warzone(w)
            \/ \E good \in SUBSET Pilots : AskAnswered(w, good)
            \/ \/ \E good \in SUBSET Pilots : AskRaised(w, good)
               \/ \E status \in {200, 400, 404, 500} : Load(w, status)
               \/ RedisRaises(w)
        BY <2>1 DEF Serve
      <4>2. AskRefused(w) => Payments'
        BY <1>6, <3>1
      <4>3. (\E good \in SUBSET Pilots : AskAnswered(w, good)) => Payments'
        BY <1>6, <3>1
      <4> QED
        BY <1>3, <1>4, <1>5, <1>7, <1>8, <3>1, <4>1, <4>2, <4>3
  <2>2. ASSUME \/ \E s \in Stages, p \in Pilots : Expire(s, p)
               \/ \E k \in Keys : ExpireToken(k)
               \/ ExpireBlob \/ RedisToggles \/ UNCHANGED vars
        PROVE  Forgotten \/ UNCHANGED <<entry, req>>
    BY <2>2 DEF Expire, ExpireToken, ExpireBlob, RedisToggles, vars
  <2> QED
    BY <1>2, <1>9, <1>10, <1>11, <2>1, <2>2 DEF Next

\* Names are looked up only by a request that paid, unless a name it had seen in the cache
\* expired since: no path leads around the throttle.
THEOREM NamesPayTheirToken ==
  Spec => []NamesPayToken
<1>1. Init => Payments
  BY IdleTyped DEF Init, Payments, Pays
<1>2. TypeInv /\ Payments /\ [Next]_vars => Payments'
  BY PaysStep
<1>3. Payments => NamesPayToken
  BY DEF Payments, Pays, NamesPayToken
<1> QED
  BY <1>1, <1>2, <1>3, TypeInvariant, PTL DEF Spec

(***************************************************************************)
(* The warzone map                                                         *)
(***************************************************************************)
\* What a page says of the map changes only where the map is looked for.
LEMMA MapKept ==
  ASSUME TypeInv, NEW w \in Workers, Serve(w), ~Warzone(w)
  PROVE  /\ \A v \in Workers \ {w} : req'[v] = req[v]
         /\ req'[w].warzone = req[w].warzone /\ req'[w].mapFailed = req[w].mapFailed
         /\ memo' = memo
<1> DEFINE r == req[w]
           Kept(q) == Moves(w, q) /\ q.warzone = r.warzone /\ q.mapFailed = r.mapFailed
<1>0. IsRequest(r) /\ r.at \in Nat
  BY ReqTyped, StageTyped DEF Typed
<1>1. ASSUME Check(w) PROVE \E q : Kept(q)
  BY <1>1, CheckMoves DEF Same, Fields
<1>2. ASSUME Throttle(w) PROVE \E q : Kept(q)
  BY <1>2, ThrottleMoves DEF Same, Fields, Ended
<1>3. ASSUME Read(w) PROVE \E q : Kept(q)
  <2>1. PICK q : Moves(w, q) /\ (q = After(r, HitsOf(r)) \/ Same(q, r, {"pc", "todo", "got"}))
    BY <1>3, ReadMoves
  <2>2. CASE q = After(r, HitsOf(r))
    BY <1>0, <2>1, <2>2, AfterFields DEF Same, Fields
  <2>3. CASE Same(q, r, {"pc", "todo", "got"})
    BY <2>1, <2>3 DEF Same, Fields
  <2> QED
    BY <2>1, <2>2, <2>3
<1>4. ASSUME NEW good, \/ AskAnswered(w, good)
                       \/ AskRefused(w) /\ good = {}
      PROVE  \E q : Kept(q)
  <2>1. PICK a, q : Moves(w, q) /\ Asking(a, r) /\ q = After(a, r.got \cup good)
    BY <1>4, AskMoves
  <2>2. IsRequest(a) /\ a.at \in Nat /\ a.warzone = r.warzone /\ a.mapFailed = r.mapFailed
    BY <1>0, <2>1 DEF Asking, Same, Fields
  <2> QED
    BY <2>1, <2>2, AfterFields DEF Same, Fields
<1>5. ASSUME \/ \E good \in SUBSET Pilots : AskRaised(w, good)
             \/ \E status \in {200, 400, 404, 500} : Load(w, status)
             \/ RedisRaises(w)
      PROVE  \E q : Kept(q)
  <2>1. PICK q : \E status : Moves(w, q) /\ Ended(r, q, status)
    BY <1>5, EndMoves
  <2> QED
    BY <2>1 DEF Ended, Same, Fields
<1>6. \E q : Kept(q)
  <2>1. \/ Check(w) \/ Throttle(w) \/ Read(w) \/ AskRefused(w)
        \/ \E good \in SUBSET Pilots : AskAnswered(w, good)
        \/ \/ \E good \in SUBSET Pilots : AskRaised(w, good)
           \/ \E status \in {200, 400, 404, 500} : Load(w, status)
           \/ RedisRaises(w)
    BY DEF Serve
  <2>2. AskRefused(w) => \E q : Kept(q)
    BY <1>4
  <2> QED
    BY <1>1, <1>2, <1>3, <1>4, <1>5, <2>1, <2>2
<1>7. memo' = memo
  BY DEF Serve, Check, Throttle, Read, AskAnswered, AskRaised, AskRefused, Load, RedisRaises
<1> QED
  BY <1>6, <1>7 DEF Moves

\* No step remembers an empty map.
LEMMA MapStep ==
  ASSUME TypeInv, MapIsNews, [Next]_vars
  PROVE  MapIsNews'
<1>1. ASSUME NEW w \in Workers, Serve(w), ~Warzone(w) PROVE MapIsNews'
  BY <1>1, MapKept DEF MapIsNews
<1>2. ASSUME NEW w \in Workers, Warzone(w) PROVE MapIsNews'
  <2>1. PICK q : Moves(w, q) /\ (q.warzone = memo[w] \/ q.warzone = "map" \/ q.mapFailed)
    BY <1>2, WarzoneMoves
  <2>2. memo' = memo \/ memo' = [memo EXCEPT ![w] = "map"]
    BY <1>2 DEF Warzone, WarzoneMemo, WarzoneBlob, WarzoneLoaded, WarzoneFailed
  <2>3. \A v \in Workers : memo'[v] # "empty"
    BY <2>2 DEF MapIsNews, TypeInv
  <2> QED
    BY <2>1, <2>3 DEF MapIsNews, Moves
<1>3. ASSUME NEW w \in Workers, NEW h \in Headers, NEW names \in SUBSET Pilots, NEW mode \in Modes,
             NEW char \in Pilots, Receive(w, h, names, mode, char)
      PROVE  MapIsNews'
  <2>1. PICK q : /\ Moves(w, q)
                 /\ q.pc = "check" /\ q.names = names /\ q.at = 0 /\ q.status = 0
                 /\ q.resolved = {} /\ q.got = {} /\ q.asked = {} /\ q.warzone = "none"
                 /\ q.repeat = (names \subseteq free) /\ ~q.expired
                 /\ retold' = [retold EXCEPT ![w] = {}]
    BY <1>3, ReceiveMoves
  <2> QED
    BY <1>3, <2>1 DEF Receive, MapIsNews, Moves
<1>4. ASSUME NEW w \in Workers, Restart(w) PROVE MapIsNews'
  BY <1>4, IdleTyped DEF Restart, MapIsNews, TypeInv
<1>5. ASSUME Forgotten, memo' = memo PROVE MapIsNews'
  BY <1>5, ForgottenFields DEF MapIsNews, Same, Fields
<1>6. CASE UNCHANGED <<memo, req>>
  BY <1>6 DEF MapIsNews
<1>7. ASSUME \/ \E s \in Stages, p \in Pilots : Expire(s, p)
             \/ \E k \in Keys : ExpireToken(k)
             \/ ExpireBlob \/ RedisToggles \/ UNCHANGED vars
      PROVE  (Forgotten /\ memo' = memo) \/ UNCHANGED <<memo, req>>
  BY <1>7 DEF Expire, ExpireToken, ExpireBlob, RedisToggles, vars
<1> QED
  BY <1>1, <1>2, <1>3, <1>4, <1>5, <1>6, <1>7 DEF Next

\* A page goes without the warzone map only if ESI has failed to give it to this very request.
THEOREM EmptyMapsAreNews ==
  Spec => []EmptyMapIsNews
<1>1. Init => MapIsNews
  BY IdleTyped DEF Init, MapIsNews
<1>2. TypeInv /\ MapIsNews /\ [Next]_vars => MapIsNews'
  BY MapStep
<1>3. MapIsNews => EmptyMapIsNews
  BY DEF MapIsNews, EmptyMapIsNews
<1> QED
  BY <1>1, <1>2, <1>3, TypeInvariant, PTL DEF Spec

(***************************************************************************)
(* What is cached for whom                                                 *)
(***************************************************************************)
\* Whom a stage is about: everyone on the page, if all is well.
LEMMA SubjectsOf ==
  ASSUME TypeInv, NEW r, Typed(r), Shaped(r), r.pc \in {"read", "ask"}, FindsSome(r)
  PROVE  /\ Subjects(r) \subseteq Pilots
         /\ r.at = 0 => Subjects(r) = r.names
         /\ r.at > 0 => Subjects(r) \subseteq r.resolved
         /\ r.at > 0 /\ r.mode = "page" /\ HasAffiliations(r) => Subjects(r) = r.resolved
<1>1. r.at \in 0 .. Len(Parts) /\ Len(Parts) \in Nat
  BY StageTyped DEF Typed, Shaped
<1>2. r.at = 0 => Subjects(r) = r.names
  BY DEF Subjects
<1>3. r.at > 0 => Subjects(r) \subseteq r.resolved
  BY <1>1 DEF Subjects, FindsSome
<1>4. ASSUME r.at > 0, r.mode = "page", HasAffiliations(r) PROVE Subjects(r) = r.resolved
  <2>1. CASE StageOf(r) = "tickers"
    <3>1. PICK j \in 1 .. r.at - 1 : Parts[j] = "affil"
      BY <1>1, <1>4, <2>1, PartsAssumption, StageTyped
    <3>2. r.resolved \subseteq r.affiliated
      BY <1>4, <3>1 DEF HasAffiliations
    <3>3. Subjects(r) = r.resolved \cap r.affiliated
      BY <1>1, <1>4, <2>1 DEF Subjects
    <3> QED
      BY <3>2, <3>3
  <2>2. CASE StageOf(r) # "tickers"
    BY <1>1, <1>4, <2>2 DEF Subjects
  <2> QED
    BY <2>1, <2>2
<1>5. r.names \subseteq Pilots /\ r.resolved \subseteq Pilots
  BY DEF Typed
<1> QED
  BY <1>1, <1>2, <1>3, <1>4, <1>5

\* What worker v has been told of a name it stays told of, and what it was promised it is
\* promised still, or it is told that a name has been found.
Remains(v) == \A p \in Pilots : Told(v, p) => Told(v, p)'
Steady(v) == Remains(v) /\ retold[v] \subseteq retold'[v] /\ free \ retold'[v] \subseteq free'

\* A request that is left alone has found what there is to find.
LEMMA FindsFrame ==
  ASSUME TypeInv, TypeInv', NEW v, NEW r, Typed(r), Shaped(r), Finds(v, r), Grows, Remains(v)
  PROVE  Finds(v, r)'
<1>1. FindsNames(v, r) => FindsNames(v, r)'
  BY DEF FindsNames, Grows, Remains, Typed, Stages
<1>2. FindsParts(r) => FindsParts(r)'
  <2>1. \A k \in 1 .. r.at - 1 : Parts[k] \in Stages
    BY StageTyped DEF Typed, Stages
  <2>2. r.resolved \subseteq Pilots
    BY DEF Typed
  <2> QED
    BY <2>1, <2>2 DEF FindsParts, HasAffiliations, Grows
<1>3. ASSUME r.pc = "ask", FindsStage(v, r) PROVE FindsStage(v, r)'
  <2>1. StageOf(r) \in Stages
    BY <1>3, StageTyped DEF Typed, Shaped, Stages
  <2>2. Subjects(r) \subseteq Pilots /\ r.names \subseteq Pilots
    BY <1>3, SubjectsOf DEF Finds, Typed
  <2> QED
    BY <1>3, <2>1, <2>2 DEF FindsStage, Grows, Remains
<1> QED
  BY <1>1, <1>2, <1>3 DEF Finds

\* A request that repeats a scan goes on to do so.
LEMMA RepeatsFrame ==
  ASSUME NEW v, NEW r, Typed(r), Repeats(v, r), Grows, Steady(v), blob => blob'
  PROVE  Repeats(v, r)'
<1>1. \A p \in Pilots : Complete(p) => Complete(p)'
  BY StageTyped DEF Complete, Grows, Stages
<1>2. r.names \cap retold'[v] = {} =>
        r.names \cap retold[v] = {} /\ (r.names \subseteq free => r.names \subseteq free')
  BY DEF Steady
<1> QED
  BY <1>1, <1>2 DEF Repeats, Typed

\* After a stage that left nothing open, a request has found what there is to find.
LEMMA OnFinds ==
  ASSUME TypeInv, TypeInv',
         NEW w, NEW r, Typed(r), Shaped(r), r.pc \in {"read", "ask"},
         NEW a, IsRequest(a), Same(a, r, {"asked", "refused"}), Undisturbed(a) => Undisturbed(r),
         NEW got, got \subseteq Subjects(r) \cap Known,
         FindsSome(r),
         Undisturbed(a) =>
           /\ r.at > 0 => FindsNames(w, r)'
           /\ r.mode = "page" => FindsParts(r)'
           /\ \A p \in Subjects(r) : entry'[StageOf(r)][p] # "none"
           /\ r.at = 0 => \A p \in r.names \ got : Told(w, p)'
           /\ StageOf(r) = "affil" => Subjects(r) \subseteq got
  PROVE  Finds(w, After(a, got))'
<1> DEFINE q == After(a, got)
           gone == r.at = 0 /\ (IF r.mode = "page" THEN got = {} ELSE r.char \notin got)
<1>1. r.at \in 0 .. Len(Parts) /\ Len(Parts) \in Nat /\ (StageOf(r) = "ids" <=> r.at = 0)
  BY StageTyped DEF Typed, Shaped, PartNames
<1>2. /\ a.at = r.at /\ a.names = r.names /\ a.mode = r.mode /\ a.char = r.char
      /\ a.resolved = r.resolved /\ a.affiliated = r.affiliated
      /\ a.expired = r.expired /\ a.status = r.status /\ a.pc = r.pc
  BY DEF Same, Fields
<1>3. StageOf(a) = StageOf(r)
  BY SameSubjects
<1>4. /\ q.todo = {} /\ q.got = {} /\ q.names = r.names /\ q.mode = r.mode
      /\ q.resolved = IF r.at = 0 THEN got ELSE r.resolved
      /\ q.refused = a.refused /\ q.expired = a.expired
      /\ gone => /\ q.pc = "done" /\ q.at = 0
                 /\ q.status = IF r.mode = "page" THEN 200 ELSE 404
      /\ ~gone => /\ q.pc # "ask"
                  /\ q.at = r.at + 1 /\ q.status = r.status /\ q.char = r.char
                  /\ q.affiliated = IF StageOf(r) = "affil" THEN got ELSE r.affiliated
  BY <1>1, <1>2, <1>3, AfterFields DEF Same, Fields
<1>5. q.pc # "ask" /\ r.status = 0
  BY <1>4 DEF Shaped
<1> HIDE DEF q
<1>6. r.at = 0 => Subjects(r) = r.names
  BY SubjectsOf
<1>7. FindsSome(q)
  BY <1>1, <1>4, <1>6 DEF FindsSome
<1>8. ASSUME Undisturbed(q) PROVE FindsNames(w, q)'
  <2>1. Undisturbed(a)
    BY <1>4, <1>8 DEF Undisturbed
  <2>2. CASE r.at = 0
    BY <1>1, <1>4, <1>6, <2>1, <2>2 DEF FindsNames
  <2>3. CASE r.at > 0
    BY <1>1, <1>4, <2>1, <2>3 DEF FindsNames
  <2> QED
    BY <1>1, <2>2, <2>3
<1>9. ASSUME Undisturbed(q), q.mode = "page" PROVE FindsParts(q)'
  <2>1. Undisturbed(a) /\ Undisturbed(r) /\ r.mode = "page"
    BY <1>4, <1>9 DEF Undisturbed
  <2>2. CASE q.at <= 1
    <3>1. q.at \in {0, 1}
      BY <1>1, <1>4, <2>2
    <3>2. 1 .. q.at - 1 = {}
      BY <3>1
    <3> QED
      BY <3>2 DEF FindsParts, HasAffiliations
  <2>3. CASE q.at > 1
    <3>1. ~gone /\ r.at > 0 /\ q.at = r.at + 1 /\ q.resolved = r.resolved
      BY <1>1, <1>4, <2>3
    <3>2. StageOf(r) = Parts[r.at]
      BY <3>1 DEF StageOf
    <3>3. (\A p \in r.resolved : entry'[Parts[r.at]][p] # "none")
          /\ (Parts[r.at] = "affil" => r.resolved \subseteq got)
      <4>1. Subjects(r) = r.resolved
        BY <2>1, <3>1, SubjectsOf DEF FindsParts, HasAffiliations
      <4> QED
        BY <2>1, <3>2, <4>1
    <3>4. \A k \in 1 .. r.at - 1 :
            /\ \A p \in r.resolved : entry'[Parts[k]][p] # "none"
            /\ Parts[k] = "affil" => r.resolved \subseteq r.affiliated
      BY <2>1 DEF FindsParts, HasAffiliations
    <3>5. StageOf(r) = "affil" => r.resolved \subseteq got
      BY <3>2, <3>3
    <3>6. \A k \in 1 .. q.at - 1 : k \in 1 .. r.at - 1 \/ k = r.at
      BY <1>1, <3>1
    <3>7. SUFFICES ASSUME NEW k \in 1 .. q.at - 1
                   PROVE  /\ \A p \in r.resolved : entry'[Parts[k]][p] # "none"
                          /\ Parts[k] = "affil" => r.resolved \subseteq q.affiliated
      BY <3>1 DEF FindsParts, HasAffiliations
    <3> QED
      BY <1>4, <3>1, <3>2, <3>3, <3>4, <3>5, <3>6
  <2> QED
    BY <1>1, <1>4, <2>2, <2>3
<1>10. FindsSome(q)'
  BY <1>7 DEF FindsSome
<1>11. Finds(w, q)'
  BY <1>4, <1>5, <1>8, <1>9, <1>10 DEF Finds
<1> QED
  BY <1>11 DEF q

\* What a step does to a request it is about, and what it leaves of the cache, is enough.
LEMMA TruthOn ==
  ASSUME TypeInv, TypeInv', TruthInv, NEW w \in Workers, NEW q, Moves(w, q),
         Grows, blob => blob', \A v \in Workers \ {w} : Steady(v),
         CacheIsTrue', FreeIsCached', Finds(w, q)', Repeats(w, q)'
  PROVE  TruthInv'
<1>1. ASSUME NEW v \in Workers, v # w, NEW r, r = req[v] PROVE Finds(v, r)' /\ Repeats(v, r)'
  <2>1. Typed(r) /\ Shaped(r) /\ Finds(v, r) /\ Repeats(v, r) /\ Steady(v)
    BY <1>1, ReqTyped DEF TruthInv
  <2>2. Remains(v)
    BY <2>1 DEF Steady
  <2> QED
    BY <2>1, <2>2, FindsFrame, RepeatsFrame
<1>2. \A v \in Workers : v = w \/ req'[v] = req[v]
  BY DEF Moves
<1>3. req'[w] = q
  BY DEF Moves
<1> QED
  BY <1>1, <1>2, <1>3 DEF TruthInv

\* A pilot that costs nothing goes on to do so, unless its name is found after all.
LEMMA CheapStays ==
  ASSUME TypeInv', NEW p \in Pilots, Cheap(p), Grows, blob => blob',
         entry["ids"][p] = "miss" => entry'["ids"][p] = "miss"
  PROVE  Cheap(p)'
<1>1. "ids" \in Stages /\ \A k \in DOMAIN Parts : Parts[k] \in Stages
  BY StageTyped DEF Stages
<1>2. CASE entry["ids"][p] = "miss"
  BY <1>2 DEF Cheap
<1>3. CASE entry["ids"][p] = "hit" /\ Complete(p) /\ blob
  <2>1. Complete(p)' /\ blob'
    BY <1>1, <1>3 DEF Complete, Grows
  <2>2. entry'["ids"][p] \in {"hit", "miss"}
    BY <1>1, <1>3 DEF Grows, TypeInv
  <2> QED
    BY <2>1, <2>2 DEF Cheap
<1> QED
  BY <1>2, <1>3 DEF Cheap

\* They all do, if names are left alone and whoever joins them costs nothing.
LEMMA FreeStays ==
  ASSUME TypeInv, TypeInv', TruthInv, Grows, blob => blob', entry'["ids"] = entry["ids"],
         \A p \in free' \ free : Cheap(p)'
  PROVE  FreeIsCached'
<1>1. \A p \in free : Cheap(p)'
  BY CheapStays DEF TruthInv, FreeIsCached, TypeInv
<1> QED
  BY <1>1 DEF FreeIsCached

\* The pilots of a page that was served in full cost nothing.
LEMMA FreedAreCheap ==
  ASSUME TypeInv', CacheIsTrue', NEW w, NEW q, FindsNames(w, q)', Typed(q),
         q.resolved # {} => blob' /\ \A p \in q.resolved : Complete(p)'
  PROVE  \A p \in q.names \ retold'[w] : Cheap(p)'
<1> SUFFICES ASSUME NEW p \in q.names \ retold'[w] PROVE Cheap(p)'
  OBVIOUS
<1>1. p \in Pilots /\ "ids" \in Stages
  BY DEF Typed, Stages
<1>2. entry'["ids"][p] \in {"none", "hit", "miss"} /\ entry'["ids"][p] # "none"
  BY <1>1 DEF TypeInv, FindsNames
<1>3. CASE p \in q.resolved
  BY <1>2, <1>3 DEF Cheap
<1>4. CASE p \notin q.resolved
  <2>1. p \in Known => entry'["ids"][p] = "miss"
    BY <1>4 DEF FindsNames, Told
  <2> QED
    BY <1>1, <1>2, <2>1 DEF Cheap, CacheIsTrue
<1> QED
  BY <1>3, <1>4

\* A request that has not come to a stage has found nothing, and owes nothing.
LEMMA FreshTruth ==
  ASSUME NEW w, NEW q, q.at = 0, q.status = 0, q.resolved = {}, q.got = {}, q.asked = {}, q.pc # "ask",
         ~q.expired, q.repeat => q.names \subseteq free
  PROVE  Finds(w, q) /\ Repeats(w, q)
<1>1. 1 .. q.at - 1 = {}
  OBVIOUS
<1> QED
  BY <1>1 DEF Finds, FindsSome, FindsParts, HasAffiliations, Repeats

\* Request q is r, still before its first stage.
StartsAt(q, r) ==
  /\ q.pc # "ask" /\ r.pc # "ask" /\ q.at = 0 /\ r.at = 0 /\ q.status = 0
  /\ q.names = r.names /\ q.resolved = r.resolved /\ q.got = r.got /\ q.asked = r.asked
  /\ q.repeat = r.repeat /\ q.expired = r.expired

\* What it has found is what it had found.
LEMMA StartTruth ==
  ASSUME NEW w, NEW r, Finds(w, r), Repeats(w, r), NEW q, StartsAt(q, r)
  PROVE  Finds(w, q) /\ Repeats(w, q)
<1>1. 1 .. q.at - 1 = {}
  BY DEF StartsAt
<1>2. FindsSome(q) /\ FindsParts(q)
  BY <1>1 DEF Finds, FindsSome, FindsParts, HasAffiliations, StartsAt
<1>3. Finds(w, q)
  BY <1>2 DEF Finds, StartsAt
<1> QED
  BY <1>3 DEF Repeats, StartsAt

\* A request that has ended has found what it had found.
LEMMA EndedTruth ==
  ASSUME NEW w, NEW r, Typed(r), Shaped(r), Finds(w, r), Repeats(w, r), NEW status, NEW q, Ended(r, q, status),
         status = 200 => r.pc = "load",
         \/ r.pc = "ask" /\ q.asked = r.asked \cup {StageOf(r)}
         \/ q.asked = r.asked
  PROVE  Finds(w, q) /\ Repeats(w, q)
<1>1. /\ q.pc = "done" /\ q.status = status /\ q.at = 0 /\ q.got = {}
      /\ q.names = r.names /\ q.resolved = r.resolved /\ q.mode = r.mode /\ q.repeat = r.repeat
      /\ q.refused = r.refused /\ q.expired = r.expired
  BY DEF Ended, Same, Fields
<1>2. r.pc = "load" => r.at > 0
  BY StageTyped DEF Shaped
<1>3. 1 .. q.at - 1 = {}
  BY <1>1
<1>4. Undisturbed(q) /\ status = 200 => FindsNames(w, q)
  BY <1>1, <1>2 DEF Undisturbed, Finds, FindsNames
<1>5. FindsParts(q)
  BY <1>3 DEF FindsParts, HasAffiliations
<1>6. FindsSome(q)
  BY <1>1 DEF Finds, FindsSome
<1>7. Finds(w, q)
  BY <1>1, <1>4, <1>5, <1>6 DEF Finds
<1>8. Repeats(w, q)
  BY <1>1 DEF Repeats
<1> QED
  BY <1>7, <1>8

\* A step that learns nothing of names, made by a request that is then as it should be.
LEMMA TruthStays ==
  ASSUME TypeInv, TypeInv', TruthInv, NEW w \in Workers, NEW q, Moves(w, q),
         Finds(w, q), Repeats(w, q),
         Grows, entry'["ids"] = entry["ids"], CacheIsTrue', blob => blob', retold' = retold,
         free \subseteq free', \A p \in free' \ free : Cheap(p)'
  PROVE  TruthInv'
<1>1. \A v : Remains(v) /\ Steady(v)
  BY DEF Remains, Steady, Told
<1>2. Typed(q) /\ Shaped(q)
  BY DEF Moves
<1>3. Finds(w, q)' /\ Repeats(w, q)'
  BY <1>1, <1>2, FindsFrame, RepeatsFrame
<1>4. FreeIsCached'
  BY FreeStays
<1> QED
  BY <1>1, <1>3, <1>4, TruthOn

\* A request arrives.
LEMMA TruthOfArrival ==
  ASSUME TypeInv, TypeInv', TruthInv, NEW w \in Workers, NEW h \in Headers,
         NEW names \in SUBSET Pilots, NEW mode \in Modes, NEW char \in Pilots,
         Receive(w, h, names, mode, char)
  PROVE  TruthInv'
<1>1. UNCHANGED <<entry, blob, free>>
  BY DEF Receive
<1>2. PICK q : /\ Moves(w, q)
               /\ q.pc = "check" /\ q.names = names /\ q.at = 0 /\ q.status = 0
               /\ q.resolved = {} /\ q.got = {} /\ q.asked = {} /\ q.warzone = "none"
               /\ q.repeat = (names \subseteq free) /\ ~q.expired
               /\ retold' = [retold EXCEPT ![w] = {}]
  BY ReceiveMoves
<1>3. Finds(w, q)' /\ Repeats(w, q)'
  <2>1. 1 .. q.at - 1 = {}
    BY <1>2
  <2>2. FindsSome(q)' /\ FindsParts(q)'
    BY <1>2, <2>1 DEF FindsSome, FindsParts, HasAffiliations
  <2>3. Finds(w, q)'
    BY <1>2, <2>2 DEF Finds
  <2>4. q.repeat => names \subseteq free'
    BY <1>1, <1>2
  <2> QED
    BY <1>2, <2>3, <2>4 DEF Repeats
<1>4. \A v \in Workers \ {w} : Steady(v)
  BY <1>1, <1>2 DEF Steady, Remains, Told, TypeInv
<1>5. Grows /\ CacheIsTrue' /\ FreeIsCached'
  BY <1>1 DEF Grows, CacheIsTrue, FreeIsCached, Cheap, Complete, TruthInv
<1> QED
  BY <1>1, <1>2, <1>3, <1>4, <1>5, TruthOn

\* A request is checked, throttled or refused, or looks for the map.
LEMMA TruthOnTheWay ==
  ASSUME TypeInv, TypeInv', TruthInv, NEW w \in Workers,
         Check(w) \/ Throttle(w) \/ Warzone(w)
  PROVE  TruthInv'
<1> DEFINE r == req[w]
<1>1. Typed(r) /\ Shaped(r) /\ Finds(w, r) /\ Repeats(w, r)
  BY ReqTyped DEF TruthInv
<1>2. entry' = entry /\ free' = free /\ retold' = retold /\ (blob => blob')
  <2>1. Check(w) \/ Throttle(w) => UNCHANGED <<entry, free, retold, blob>>
    BY DEF Check, Throttle
  <2>2. Warzone(w) => UNCHANGED <<entry, free, retold>> /\ (blob' = blob \/ blob' = TRUE)
    BY DEF Warzone, WarzoneMemo, WarzoneBlob, WarzoneLoaded, WarzoneFailed
  <2> QED
    BY <2>1, <2>2
<1>3. Grows /\ CacheIsTrue'
  BY <1>2 DEF Grows, CacheIsTrue, TruthInv
<1>4. ASSUME NEW q, Moves(w, q), Finds(w, q), Repeats(w, q) PROVE TruthInv'
  BY <1>2, <1>3, <1>4, TruthStays
<1>6. ASSUME Check(w) PROVE TruthInv'
  <2>1. PICK q : /\ Moves(w, q) /\ r.pc = "check" /\ r.at = 0
                 /\ q.pc = IF MustPay(r.names) THEN "throttle" ELSE "read"
                 /\ Same(q, r, {"pc"})
    BY <1>6, CheckMoves
  <2>2. StartsAt(q, r)
    BY <1>1, <2>1 DEF StartsAt, Shaped, Same, Fields
  <2>3. Finds(w, q) /\ Repeats(w, q)
    BY <1>1, <2>1, <2>2, StartTruth
  <2> QED
    BY <1>4, <2>1, <2>3
<1>7. ASSUME Throttle(w) PROVE TruthInv'
  <2>1. PICK q : /\ Moves(w, q) /\ r.pc = "throttle" /\ r.at = 0
                 /\ \/ /\ paid[r.client] = 0 /\ paid' = [paid EXCEPT ![r.client] = 1]
                       /\ q.pc = "read" /\ q.allowed /\ Same(q, r, {"pc", "allowed"})
                    \/ paid' = paid /\ Ended(r, q, 429) /\ q.asked = r.asked
    BY <1>7, ThrottleMoves
  <2>2. CASE q.pc = "read" /\ Same(q, r, {"pc", "allowed"})
    <3>1. StartsAt(q, r)
      BY <1>1, <2>1, <2>2 DEF StartsAt, Shaped, Same, Fields
    <3> QED
      BY <1>1, <1>4, <2>1, <2>2, <3>1, StartTruth
  <2>3. CASE Ended(r, q, 429) /\ q.asked = r.asked
    <3>1. q.pc # "ask"
      BY <2>3 DEF Ended
    <3> QED
      BY <1>1, <1>4, <2>1, <2>3, <3>1, EndedTruth
  <2> QED
    BY <2>1, <2>2, <2>3
<1>8. ASSUME Warzone(w) PROVE TruthInv'
  <2>1. PICK q : /\ Moves(w, q) /\ r.pc = "warzone" /\ q.pc = "load"
                 /\ Same(q, r, {"pc", "warzone", "asked", "mapFailed"})
                 /\ q.warzone = memo[w] \/ q.warzone = "map" \/ q.mapFailed
                 /\ q.asked = r.asked \/ (~blob /\ q.asked = r.asked \cup {"warzone"})
    BY <1>8, WarzoneMoves
  <2>2. /\ q.names = r.names /\ q.resolved = r.resolved /\ q.affiliated = r.affiliated
        /\ q.got = r.got /\ q.at = r.at /\ q.mode = r.mode /\ q.char = r.char
        /\ q.refused = r.refused /\ q.expired = r.expired /\ q.status = r.status
        /\ q.repeat = r.repeat /\ r.at > 0
    BY <1>1, <2>1, StageTyped DEF Same, Fields, Shaped
  <2>3. Finds(w, q)
    BY <1>1, <2>1, <2>2 DEF Finds, FindsSome, FindsNames, FindsParts, HasAffiliations, Undisturbed
  <2>4. Repeats(w, q)
    BY <1>1, <2>1, <2>2 DEF Repeats
  <2> QED
    BY <1>4, <2>1, <2>3, <2>4
<1> QED
  BY <1>6, <1>7, <1>8

\* A request fails, or is answered when it has been through its stages.
LEMMA TruthAtTheEnd ==
  ASSUME TypeInv, TypeInv', TruthInv, NEW w \in Workers, Grows,
         \/ \E good \in SUBSET Pilots : AskRaised(w, good)
         \/ \E status \in {200, 400, 404, 500} : Load(w, status)
         \/ RedisRaises(w)
  PROVE  TruthInv'
<1> DEFINE r == req[w]
<1>1. Typed(r) /\ Shaped(r) /\ Finds(w, r) /\ Repeats(w, r)
  BY ReqTyped DEF TruthInv
<1>2. PICK q : \E status \in {200, 400, 404, 500, 503} :
        /\ Moves(w, q) /\ Ended(r, q, status)
        /\ \/ r.pc = "ask" /\ q.asked = r.asked \cup {StageOf(r)}
           \/ q.asked = r.asked
        /\ status = 200 => r.pc = "load" /\ q.asked = r.asked
  BY EndMoves
<1>3. Finds(w, q) /\ Repeats(w, q)
  BY <1>1, <1>2, EndedTruth
<1>5. CASE \E good \in SUBSET Pilots : AskRaised(w, good)
  <2>1. PICK good \in SUBSET Pilots : AskRaised(w, good)
    BY <1>5
  <2>2. /\ r.pc = "ask" /\ entry' = Learned(StageOf(r), good, {}) /\ free' = free /\ blob' = blob
        /\ retold' = retold /\ good \subseteq Known /\ (StageOf(r) # "names" => good = {})
    BY <2>1 DEF AskRaised, Serves
  <2>3. StageOf(r) \in Stages
    BY <2>2, AskStage
  <2>4. /\ \A z \in Stages \ {StageOf(r)} : entry'[z] = entry[z]
        /\ \A p \in Pilots : entry'[StageOf(r)][p] =
             IF p \in good THEN "hit" ELSE entry[StageOf(r)][p]
    BY <2>2, <2>3, LearnedTyped
  <2>5. \A p \in Pilots : entry'["ids"][p] = entry["ids"][p]
    BY <2>2, <2>4 DEF Stages
  <2>6. entry'["ids"] = entry["ids"]
    BY <2>5 DEF TypeInv, Stages
  <2>7. \A s \in Stages, p \in Pilots :
          entry'[s][p] = entry[s][p] \/ (entry'[s][p] = "hit" /\ p \in Known)
    BY <2>2, <2>4
  <2>8. CacheIsTrue'
    <3>1. "ids" \in Stages /\ "affil" \in Stages /\ Known \subseteq Pilots
      BY PilotsAssumption DEF Stages, PartNames
    <3>2. CacheIsTrue
      BY DEF TruthInv
    <3> QED
      BY <2>7, <3>1, <3>2 DEF CacheIsTrue
  <2> QED
    BY <1>2, <1>3, <2>2, <2>6, <2>8, TruthStays
<1>6. CASE RedisRaises(w)
  <2>1. UNCHANGED <<entry, blob, free, retold>>
    BY <1>6 DEF RedisRaises
  <2>2. CacheIsTrue'
    BY <2>1 DEF CacheIsTrue, TruthInv
  <2> QED
    BY <1>2, <1>3, <2>1, <2>2, TruthStays
<1>7. CASE \E status \in {200, 400, 404, 500} : Load(w, status)
  <2>1. UNCHANGED <<entry, blob, retold>> /\ free' = Freed(w, q) /\ r.pc = "load"
    BY <1>2, <1>7 DEF Load, Serves, Moves
  <2>2. CacheIsTrue' /\ r.at = Len(Parts) + 1 /\ r.at > 0
    BY <1>1, <2>1, StageTyped DEF CacheIsTrue, TruthInv, Shaped
  <2>3. /\ q.names = r.names /\ q.resolved = r.resolved /\ q.mode = r.mode
        /\ q.refused = r.refused /\ q.expired = r.expired
    BY <1>2 DEF Ended, Same, Fields
  <2>4. ASSUME NEW p \in free' \ free PROVE Cheap(p)'
    <3>1. /\ q.mode = "page" /\ Undisturbed(r) /\ p \in q.names \ retold[w]
          /\ q.resolved # {} => blob
      BY <2>1, <2>3, <2>4 DEF Freed, Undisturbed
    <3>2. FindsNames(w, q)'
      BY <1>1, <2>1, <2>2, <2>3, <3>1 DEF Finds, FindsNames, Told
    <3>3. FindsParts(r)
      BY <1>1, <2>3, <3>1 DEF Finds
    <3>4. \A x \in q.resolved : Complete(x)'
      BY <2>1, <2>2, <2>3, <3>3, StageTyped DEF FindsParts, Complete
    <3>5. Typed(q)
      BY <1>2 DEF Moves
    <3> QED
      BY <2>1, <2>2, <3>1, <3>2, <3>4, <3>5, FreedAreCheap
  <2>5. free \subseteq free'
    BY <2>1 DEF Freed
  <2> QED
    BY <1>2, <1>3, <2>1, <2>2, <2>4, <2>5, TruthStays
<1> QED
  BY <1>5, <1>6, <1>7

\* A stage is looked up in the cache.
LEMMA TruthOfReading ==
  ASSUME TypeInv, TypeInv', TruthInv, NEW w \in Workers, Read(w), NEW r, r = req[w]
  PROVE  TruthInv'
<1> DEFINE s == StageOf(r)
           todo == Subjects(r) \cap Cached(s, "none")
<1>1. IsRequest(r) /\ Typed(r) /\ Shaped(r) /\ Finds(w, r) /\ Repeats(w, r)
  BY ReqTyped DEF TruthInv
<1>2. PICK q : /\ Moves(w, q) /\ r.pc = "read"
               /\ \/ todo = {} /\ q = After(r, HitsOf(r))
                  \/ /\ todo # {} /\ q.pc = "ask" /\ q.todo = todo /\ q.got = HitsOf(r)
                     /\ Same(q, r, {"pc", "todo", "got"})
  BY ReadMoves
<1>3. UNCHANGED <<entry, blob, retold>> /\ free' = Freed(w, q)
  BY <1>2 DEF Read, Moves
<1>4. CacheIsTrue /\ CacheIsTrue' /\ Grows
  BY <1>3 DEF CacheIsTrue, TruthInv, Grows
<1>5. /\ r.at \in 0 .. Len(Parts) /\ s \in Stages /\ (s = "ids" <=> r.at = 0)
      /\ r.at > 0 => s = Parts[r.at] /\ r.at \in DOMAIN Parts
  BY <1>2, AskStage, StageTyped
<1>6. FindsSome(r)
  BY <1>1 DEF Finds
<1>7. /\ Subjects(r) \subseteq Pilots
      /\ r.at = 0 => Subjects(r) = r.names
      /\ r.at > 0 => Subjects(r) \subseteq r.resolved
  BY <1>1, <1>2, <1>6, SubjectsOf
<1>8. \A p \in Subjects(r) : entry[s][p] \in {"none", "hit", "miss"}
  BY <1>5, <1>7 DEF TypeInv
<1>9. HitsOf(r) \subseteq Subjects(r) \cap Known
  BY <1>4, <1>5, <1>7 DEF HitsOf, Cached, CacheIsTrue
<1>10. \A p \in Subjects(r) \ todo :
         /\ entry[s][p] # "none"
         /\ p \notin HitsOf(r) => entry[s][p] = "miss"
  BY <1>7, <1>8 DEF HitsOf, Cached
<1> HIDE DEF s, todo
<1>11. r.at = 0 => \A p \in r.names \ (todo \cup HitsOf(r)) : Told(w, p)
  <2> SUFFICES ASSUME r.at = 0, NEW p \in r.names \ (todo \cup HitsOf(r)) PROVE Told(w, p)
    OBVIOUS
  <2>1. s = "ids" /\ p \in Subjects(r) \ todo /\ p \notin HitsOf(r)
    BY <1>5, <1>7
  <2>2. entry[s][p] = "miss"
    BY <1>10, <2>1
  <2> QED
    BY <2>1, <2>2 DEF Told
<1>12. s = "affil" => Subjects(r) \ todo \subseteq HitsOf(r)
  <2> SUFFICES ASSUME s = "affil", NEW p \in Subjects(r) \ todo, p \notin HitsOf(r) PROVE FALSE
    OBVIOUS
  <2>1. entry[s][p] = "miss"
    BY <1>10
  <2> QED
    BY <1>4, <1>7, <2>1 DEF CacheIsTrue
<1>13. Undisturbed(r) => /\ r.at > 0 => FindsNames(w, r)
                         /\ r.mode = "page" => FindsParts(r)
  BY <1>1 DEF Finds
<1>14. free \subseteq free'
  BY <1>3 DEF Freed
<1>15. \A v : Steady(v) /\ Remains(v)
  BY <1>3, <1>14 DEF Steady, Remains, Told
<1>16. CASE todo = {} /\ q = After(r, HitsOf(r))
  <2>1. Finds(w, q)'
    <3>1. Same(r, r, {"asked", "refused"})
      BY DEF Same
    <3>2. Undisturbed(r) =>
            /\ r.at > 0 => FindsNames(w, r)'
            /\ r.mode = "page" => FindsParts(r)'
      BY <1>3, <1>13 DEF FindsNames, FindsParts, HasAffiliations, Told
    <3>3. \A p \in Subjects(r) : entry'[s][p] # "none"
      BY <1>3, <1>10, <1>16
    <3>4. r.at = 0 => \A p \in r.names \ HitsOf(r) : Told(w, p)'
      BY <1>3, <1>11, <1>16 DEF Told
    <3>5. s = "affil" => Subjects(r) \subseteq HitsOf(r)
      BY <1>12, <1>16
    <3> QED
      BY <1>1, <1>2, <1>6, <1>9, <1>16, <3>1, <3>2, <3>3, <3>4, <3>5, OnFinds DEF s
  <2>2. /\ IsRequest(r) /\ r.at \in Nat /\ r.status = 0
        /\ q.repeat = r.repeat /\ q.asked = r.asked /\ q.expired = r.expired /\ q.pc # "ask"
        /\ q.names = r.names /\ q.mode = r.mode
        /\ q.status = 200 => q.resolved = {}
        /\ q.resolved = IF s = "ids" THEN HitsOf(r) ELSE r.resolved
    BY <1>1, <1>2, <1>5, <1>16, AfterFields DEF Same, Fields, Shaped, s
  <2>3. ASSUME NEW p \in free' \ free PROVE Cheap(p)'
    <3>1. Undisturbed(q) /\ q.status = 200 /\ p \in q.names \ retold'[w]
      BY <1>3, <2>3 DEF Freed, Undisturbed
    <3>2. FindsNames(w, q)' /\ q.resolved = {}
      BY <2>1, <2>2, <3>1 DEF Finds
    <3>3. Typed(q)
      BY <1>2 DEF Moves
    <3> QED
      BY <1>4, <3>1, <3>2, <3>3, FreedAreCheap
  <2>5. ASSUME r.repeat, r.names \cap retold[w] = {}, q.at > 0 PROVE blob /\ \A p \in q.resolved : Complete(p)
    <3>1. CASE r.at > 0
      BY <1>1, <1>5, <2>2, <2>5, <3>1 DEF Repeats
    <3>2. CASE r.at = 0
      <4>1. q.resolved = HitsOf(r) /\ HitsOf(r) \subseteq free
        BY <1>1, <1>5, <1>7, <2>2, <2>5, <3>2 DEF Repeats, HitsOf
      <4>2. \A p \in HitsOf(r) : Cheap(p) /\ entry["ids"][p] = "hit"
        BY <1>5, <3>2, <4>1 DEF HitsOf, Cached, TruthInv, FreeIsCached, s
      <4>3. q.resolved # {}
        BY <2>1, <2>5 DEF Finds, FindsSome
      <4> QED
        BY <4>1, <4>2, <4>3 DEF Cheap
    <3> QED
      BY <1>5, <3>1, <3>2
  <2>6. Repeats(w, q)
    BY <1>1, <1>2, <2>2, <2>5 DEF Repeats
  <2>7. Repeats(w, q)'
    BY <1>2, <1>3, <1>4, <1>15, <2>6, RepeatsFrame DEF Moves
  <2>8. FreeIsCached'
    BY <1>3, <1>4, <2>3, FreeStays
  <2> QED
    BY <1>2, <1>3, <1>4, <1>15, <2>1, <2>7, <2>8, TruthOn
<1>17. CASE /\ todo # {} /\ q.pc = "ask" /\ q.todo = todo /\ q.got = HitsOf(r)
            /\ Same(q, r, {"pc", "todo", "got"})
  <2>1. /\ q.repeat = r.repeat /\ q.status = 0 /\ q.names = r.names /\ q.at = r.at
        /\ q.resolved = r.resolved /\ q.affiliated = r.affiliated /\ q.mode = r.mode
        /\ q.char = r.char /\ q.refused = r.refused /\ q.expired = r.expired
    BY <1>1, <1>2, <1>17 DEF Same, Fields, Shaped
  <2>2. free' = free
    BY <1>3, <2>1 DEF Freed
  <2>3. Subjects(q) = Subjects(r) /\ StageOf(q) = s
    BY <2>1 DEF Subjects, StageOf, s
  <2>4. FindsStage(w, q)
    BY <1>10, <1>11, <1>12, <1>17, <2>1, <2>3 DEF FindsStage
  <2>5. \A p \in todo : entry[s][p] = "none"
    BY DEF todo, Cached
  <2>6. r.at = 0 => todo \cap free = {}
    BY <1>5, <2>5 DEF TruthInv, FreeIsCached, Cheap
  <2>7. Finds(w, q)
    <3>1. FindsSome(q) /\ q.got \subseteq Known
      BY <1>6, <1>9, <1>17, <2>1 DEF FindsSome
    <3>2. Undisturbed(q) => /\ q.at > 0 => FindsNames(w, q)
                            /\ q.mode = "page" => FindsParts(q)
      BY <1>13, <2>1 DEF Undisturbed, FindsNames, FindsParts, HasAffiliations
    <3> QED
      BY <1>17, <2>1, <2>4, <3>1, <3>2 DEF Finds
  <2>8. Finds(w, q)'
    BY <1>2, <1>4, <1>15, <2>7, FindsFrame DEF Moves
  <2>9. ~(r.repeat /\ r.names \cap retold[w] = {})
    <3> SUFFICES ASSUME r.repeat, r.names \cap retold[w] = {} PROVE todo = {}
      BY <1>17
    <3>1. CASE r.at = 0
      BY <1>1, <1>7, <2>6, <3>1 DEF Repeats, todo
    <3>2. CASE r.at > 0
      BY <1>1, <1>5, <1>7, <2>5, <3>2 DEF Repeats, Complete, todo
    <3> QED
      BY <1>5, <3>1, <3>2
  <2>10. Repeats(w, q)'
    BY <1>3, <2>1, <2>9 DEF Repeats
  <2>11. FreeIsCached'
    BY <1>3, <1>4, <2>2, FreeStays
  <2> QED
    BY <1>2, <1>3, <1>4, <1>15, <2>8, <2>10, <2>11, TruthOn
<1> QED
  BY <1>2, <1>16, <1>17 DEF s, todo

\* What ESI answers the stage of request r, and what of it is remembered.
AnswersOf(r, good) ==
  /\ good \subseteq r.todo \cap Known
  /\ ~Flaky => good = r.todo \cap Known
  /\ entry' = Learned(StageOf(r), good, r.todo)

\* What ESI says of a stage is true, and those of the stage it was not asked about are left.
LEMMA AnswersAreTrue ==
  ASSUME TypeInv, TruthInv, NEW r, Typed(r), Shaped(r), r.pc = "ask", FindsSome(r), NEW good,
         AnswersOf(r, good), StageOf(r) \in Stages, StageOf(r) = "ids" <=> r.at = 0
  PROVE  /\ CacheIsTrue'
         /\ \A p \in Pilots \ Contradicted(StageOf(r), good) :
              entry["ids"][p] = "miss" => entry'["ids"][p] = "miss"
         /\ StageOf(r) # "ids" => entry'["ids"] = entry["ids"]
         /\ \A p \in r.todo : p \in good => entry'[StageOf(r)][p] = "hit"
         /\ \A p \in r.todo \ good : StageOf(r) # "affil" => entry'[StageOf(r)][p] = "miss"
         /\ \A p \in Pilots \ r.todo : entry'[StageOf(r)][p] = entry[StageOf(r)][p]
<1> DEFINE s == StageOf(r)
<1>1. /\ \A z \in Stages \ {s} : entry'[z] = entry[z]
      /\ \A p \in Pilots : entry'[s][p] =
           IF p \in good THEN "hit"
           ELSE IF p \in r.todo /\ s \in Remembers THEN "miss" ELSE entry[s][p]
  BY LearnedTyped DEF AnswersOf
<1>2. /\ good \subseteq r.todo \cap Known /\ (~Flaky => good = r.todo \cap Known)
      /\ r.todo \subseteq Pilots
  <2>1. Subjects(r) \subseteq Pilots
    BY SubjectsOf
  <2> QED
    BY <2>1 DEF AnswersOf, Shaped
<1>3. CacheIsTrue /\ FreeIsCached /\ Known \subseteq Pilots /\ s \in Stages
      /\ "ids" \in Stages /\ "affil" \in Stages
  BY PilotsAssumption DEF TruthInv, Stages, PartNames
<1>4. Remembers = Stages \ {"affil"}
  BY DEF Remembers
<1> HIDE DEF s
<1>5. /\ \A p \in r.todo : p \in good => entry'[s][p] = "hit"
      /\ \A p \in r.todo \ good : s # "affil" => entry'[s][p] = "miss"
      /\ \A p \in Pilots \ r.todo : entry'[s][p] = entry[s][p]
  BY <1>1, <1>2, <1>3, <1>4
<1>6. \A z \in Stages, p \in Pilots : entry'[z][p] = "hit" => p \in Known
  <2> SUFFICES ASSUME NEW z \in Stages, NEW p \in Pilots, entry'[z][p] = "hit", p \notin Known
               PROVE  FALSE
    OBVIOUS
  <2>1. entry[z][p] # "hit"
    BY <1>3 DEF CacheIsTrue
  <2>2. CASE z = s
    BY <1>1, <1>2, <2>1, <2>2
  <2>3. CASE z # s
    BY <1>1, <2>1, <2>3
  <2> QED
    BY <2>2, <2>3
<1>7. \A p \in Pilots : entry'["affil"][p] # "miss"
  <2> SUFFICES ASSUME NEW p \in Pilots PROVE entry'["affil"][p] # "miss"
    OBVIOUS
  <2>1. entry["affil"][p] # "miss"
    BY <1>3 DEF CacheIsTrue
  <2>2. CASE s = "affil"
    BY <1>1, <1>4, <2>1, <2>2
  <2>3. CASE s # "affil"
    BY <1>1, <1>3, <2>1, <2>3
  <2> QED
    BY <2>2, <2>3
<1>8. ASSUME ~Flaky, NEW p \in Known PROVE entry'["ids"][p] # "miss"
  <2>1. entry["ids"][p] # "miss" /\ p \in Pilots
    BY <1>3, <1>8 DEF CacheIsTrue
  <2>2. CASE s = "ids"
    BY <1>1, <1>2, <1>8, <2>1, <2>2
  <2>3. CASE s # "ids"
    BY <1>1, <1>3, <2>1, <2>3
  <2> QED
    BY <2>2, <2>3
<1>9. s # "ids" => entry'["ids"] = entry["ids"]
  BY <1>1, <1>3
<1>10. ASSUME NEW p \in Pilots \ Contradicted(s, good), entry["ids"][p] = "miss"
       PROVE  entry'["ids"][p] = "miss"
  <2>1. CASE s # "ids"
    BY <1>9, <1>10, <2>1
  <2>2. CASE s = "ids"
    <3>1. p \notin good
      BY <1>10, <2>2 DEF Contradicted, Cached
    <3> QED
      BY <1>1, <1>10, <2>2, <3>1
  <2> QED
    BY <2>1, <2>2
<1>11. CacheIsTrue'
  BY <1>6, <1>7, <1>8 DEF CacheIsTrue
<1> QED
  BY <1>5, <1>9, <1>10, <1>11 DEF s

\* ESI answers a stage, or refuses it.
LEMMA TruthOfAnswers ==
  ASSUME TypeInv, TypeInv', TruthInv, NEW w \in Workers, NEW r, r = req[w], NEW good,
         Grows,
         \/ AskAnswered(w, good)
         \/ AskRefused(w) /\ good = {}
  PROVE  TruthInv'
<1> DEFINE s == StageOf(r)
<1>1. IsRequest(r) /\ Typed(r) /\ Shaped(r) /\ Finds(w, r) /\ Repeats(w, r)
  BY ReqTyped DEF TruthInv
<1>2. PICK a, q :
        /\ Moves(w, q) /\ r.pc = "ask" /\ good \subseteq r.todo \cap Known /\ Asking(a, r)
        /\ q = After(a, r.got \cup good)
        /\ \/ a.refused = (r.refused \/ good # r.todo \cap Known) /\ AskAnswered(w, good)
           \/ a.refused = TRUE /\ AskRefused(w)
  BY AskMoves
<1>3. /\ r.at \in 0 .. Len(Parts) /\ s \in Stages /\ (s = "ids" <=> r.at = 0)
      /\ r.at > 0 => s = Parts[r.at] /\ r.at \in DOMAIN Parts
  BY <1>2, AskStage, StageTyped
<1>4. /\ a.at = r.at /\ a.expired = r.expired /\ a.repeat = r.repeat /\ a.status = 0
      /\ a.names = r.names /\ a.mode = r.mode /\ IsRequest(a)
      /\ Same(a, r, {"asked", "refused"})
  BY <1>1, <1>2 DEF Asking, Same, Fields, Shaped
<1>5. /\ q.pc # "ask" /\ q.repeat = r.repeat /\ q.names = r.names
      /\ q.status = 200 => q.resolved = {}
      /\ q.refused = a.refused /\ q.expired = a.expired
  <2>1. StageOf(a) = s
    BY <1>4 DEF StageOf
  <2>2. a.at \in Nat
    BY <1>3, <1>4
  <2> DEFINE got == r.got \cup good
             gone == a.at = 0 /\ (IF a.mode = "page" THEN got = {} ELSE a.char \notin got)
             on == After(a, got)
  <2>3. /\ q.resolved = IF StageOf(a) = "ids" THEN got ELSE a.resolved
        /\ Same(q, a, {"pc", "status", "at", "todo", "got", "resolved", "affiliated", "char"})
        /\ gone => q.pc = "done" /\ q.status = IF a.mode = "page" THEN 200 ELSE 404
        /\ ~gone => q.pc # "ask" /\ q.status = a.status
    <3>1. q = on
      BY <1>2
    <3> HIDE DEF got
    <3>2. /\ on.resolved = IF StageOf(a) = "ids" THEN got ELSE a.resolved
          /\ Same(on, a, {"pc", "status", "at", "todo", "got", "resolved", "affiliated", "char"})
          /\ gone => on.pc = "done" /\ on.status = IF a.mode = "page" THEN 200 ELSE 404
          /\ ~gone => on.pc # "ask" /\ on.status = a.status
      BY <1>4, <2>2, AfterFields
    <3> HIDE DEF on, gone
    <3> QED
      BY <3>1, <3>2
  <2>4. q.repeat = r.repeat /\ q.names = r.names /\ q.refused = a.refused /\ q.expired = a.expired
    BY <1>4, <2>3 DEF Same, Fields
  <2>5. q.pc # "ask" /\ (q.status = 200 => gone /\ a.mode = "page")
    BY <1>4, <2>3
  <2>6. q.status = 200 => q.resolved = {}
    BY <1>3, <1>4, <2>1, <2>3, <2>5
  <2> QED
    BY <2>4, <2>5, <2>6
<1>6. ~(r.repeat /\ r.names \cap retold[w] = {})
  BY <1>1, <1>2 DEF Repeats
<1>7. retold'[w] = retold[w] /\ blob' = blob /\ free' \subseteq Freed(w, q)
  BY <1>2 DEF AskAnswered, AskRefused, Moves, TypeInv
<1>8. Repeats(w, q)'
  BY <1>5, <1>6, <1>7 DEF Repeats
<1>9. r.got \cup good \subseteq Subjects(r) \cap Known
  BY <1>1, <1>2 DEF Shaped, Finds
<1>10. ASSUME CacheIsTrue', \A p \in free \cap free' : Cheap(p)', Finds(w, q)',
              \A v \in Workers \ {w} : Steady(v)
       PROVE  TruthInv'
  <2>1. ASSUME NEW p \in free' \ free PROVE Cheap(p)'
    <3>1. Undisturbed(q) /\ q.status = 200 /\ p \in q.names \ retold'[w]
      BY <1>7, <2>1 DEF Freed, Undisturbed
    <3>2. FindsNames(w, q)' /\ q.resolved = {}
      BY <1>5, <1>10, <3>1 DEF Finds
    <3>3. Typed(q)
      BY <1>2 DEF Moves
    <3> QED
      BY <1>10, <3>1, <3>2, <3>3, FreedAreCheap
  <2>2. FreeIsCached'
    BY <1>10, <2>1 DEF FreeIsCached
  <2> QED
    BY <1>2, <1>7, <1>8, <1>10, <2>2, TruthOn
<1>11. CASE AskRefused(w) /\ a.refused = TRUE
  <2>1. UNCHANGED <<entry, retold>> /\ free' = Freed(w, q)
    BY <1>2, <1>11 DEF AskRefused, Moves
  <2>2. CacheIsTrue' /\ \A p \in free : Cheap(p)'
    BY <1>7, <2>1 DEF TruthInv, CacheIsTrue, FreeIsCached, Cheap, Complete
  <2>4. \A v \in Workers : Steady(v)
    BY <2>1 DEF Steady, Remains, Told, Freed
  <2>3. Finds(w, q)'
    BY <1>1, <1>2, <1>4, <1>9, <1>11, OnFinds DEF Undisturbed, Finds
  <2> QED
    BY <1>10, <2>2, <2>3, <2>4
<1>12. CASE AskAnswered(w, good) /\ a.refused = (r.refused \/ good # r.todo \cap Known)
  <2>1. AnswersOf(r, good)
    BY <1>12 DEF AnswersOf, AskAnswered
  <2>0. FindsSome(r)
    BY <1>1 DEF Finds
  <2>2. /\ CacheIsTrue'
        /\ \A p \in Pilots \ Contradicted(s, good) :
             entry["ids"][p] = "miss" => entry'["ids"][p] = "miss"
        /\ s # "ids" => entry'["ids"] = entry["ids"]
        /\ \A p \in r.todo : p \in good => entry'[s][p] = "hit"
        /\ \A p \in r.todo \ good : s # "affil" => entry'[s][p] = "miss"
        /\ \A p \in Pilots \ r.todo : entry'[s][p] = entry[s][p]
    BY <1>1, <1>2, <1>3, <2>0, <2>1, AnswersAreTrue
  <2>7. /\ free' = Freed(w, q) \ Contradicted(s, good)
        /\ \A v \in Workers \ {w} : retold'[v] = retold[v] \cup Contradicted(s, good)
        /\ retold'[w] = retold[w]
    BY <1>2, <1>12, AnswerChanges DEF Moves
  <2>3. \A p \in free \cap free' : Cheap(p)'
    <3> SUFFICES ASSUME NEW p \in free \cap free' PROVE Cheap(p)'
      OBVIOUS
    <3>1. Cheap(p) /\ p \in Pilots /\ p \notin Contradicted(s, good)
      BY <2>7 DEF TruthInv, FreeIsCached, TypeInv
    <3>2. entry["ids"][p] = "miss" => entry'["ids"][p] = "miss"
      BY <2>2, <3>1
    <3> QED
      BY <1>7, <3>1, <3>2, CheapStays
  <2>8. ASSUME NEW v \in Workers \ {w} PROVE Steady(v)
    <3>1. retold'[v] = retold[v] \cup Contradicted(s, good)
      BY <2>7
    <3>2. Remains(v)
      BY <2>2, <3>1 DEF Remains, Told
    <3>3. free \ retold'[v] \subseteq free'
      BY <2>7, <3>1 DEF Freed
    <3> QED
      BY <3>1, <3>2, <3>3 DEF Steady
  <2>4. FindsSome(r) /\ Subjects(r) \subseteq Pilots /\ r.names \subseteq Pilots
        /\ (r.at = 0 => Subjects(r) = r.names) /\ (r.at > 0 => Subjects(r) \subseteq r.resolved)
    BY <1>1, <1>2, SubjectsOf DEF Finds, Typed
  <2>5. ASSUME Undisturbed(a)
        PROVE  /\ Undisturbed(r) /\ good = r.todo \cap Known
               /\ r.at > 0 => FindsNames(w, r)'
               /\ r.mode = "page" => FindsParts(r)'
               /\ \A p \in Subjects(r) : entry'[s][p] # "none"
               /\ r.at = 0 => \A p \in r.names \ (r.got \cup good) : Told(w, p)'
               /\ s = "affil" => Subjects(r) \subseteq r.got \cup good
    <3>1. Undisturbed(r) /\ good = r.todo \cap Known
      BY <1>4, <1>12, <2>5 DEF Undisturbed
    <3>2. FindsStage(w, r) /\ (r.at > 0 => FindsNames(w, r)) /\ (r.mode = "page" => FindsParts(r))
      BY <1>1, <1>2, <3>1 DEF Finds
    <3>3. r.at > 0 => FindsNames(w, r)'
      BY <1>3, <2>2, <2>7, <3>2 DEF FindsNames, Told, Grows
    <3>4. r.mode = "page" => FindsParts(r)'
      <4>1. \A k \in 1 .. r.at - 1 : Parts[k] \in Stages
        BY <1>3, StageTyped DEF Stages
      <4>2. r.resolved \subseteq Pilots
        BY <1>1 DEF Typed
      <4> QED
        BY <3>2, <4>1, <4>2 DEF FindsParts, HasAffiliations, Grows
    <3>5. r.at > 0 => Subjects(r) \cap r.todo \subseteq good
      BY <2>4, <3>1 DEF FindsSome
    <3>6. ASSUME NEW p \in Subjects(r) PROVE entry'[s][p] # "none"
      <4>1. CASE p \notin r.todo
        BY <1>3, <2>4, <3>2, <4>1 DEF FindsStage, Grows
      <4>2. CASE p \in r.todo /\ p \in good
        BY <2>2, <4>2
      <4>3. CASE p \in r.todo /\ p \notin good
        <5>1. r.at = 0 /\ s # "affil"
          BY <1>3, <3>5, <4>3
        <5> QED
          BY <2>2, <4>3, <5>1
      <4> QED
        BY <4>1, <4>2, <4>3
    <3>7. ASSUME r.at = 0, NEW p \in r.names \ (r.got \cup good) PROVE Told(w, p)'
      <4>1. CASE p \in r.todo
        BY <3>1, <3>7, <4>1 DEF Told
      <4>2. CASE p \notin r.todo
        BY <1>3, <2>2, <2>4, <2>7, <3>2, <3>7, <4>2 DEF FindsStage, Told
      <4> QED
        BY <4>1, <4>2
    <3>8. s = "affil" => Subjects(r) \subseteq r.got \cup good
      BY <1>3, <3>2, <3>5 DEF FindsStage
    <3> QED
      BY <3>1, <3>3, <3>4, <3>6, <3>7, <3>8
  <2>6. Finds(w, q)'
    BY <1>1, <1>2, <1>4, <1>9, <2>4, <2>5, OnFinds
  <2> QED
    BY <1>10, <2>2, <2>3, <2>6, <2>8
<1> QED
  BY <1>2, <1>11, <1>12

\* A worker starts afresh.
LEMMA TruthOfRestart ==
  ASSUME TypeInv, TypeInv', TruthInv, NEW w \in Workers, Restart(w)
  PROVE  TruthInv'
<1>1. UNCHANGED <<entry, blob, free, retold>> /\ req' = [req EXCEPT ![w] = Idle]
  BY DEF Restart
<1>2. Moves(w, Idle)
  BY <1>1, IdleTyped, MovesTo
<1>3. Finds(w, Idle) /\ Repeats(w, Idle)
  <2>1. Idle.pc # "ask"
    BY IdleTyped
  <2> QED
    BY <2>1, IdleTyped, FreshTruth
<1>4. Grows /\ CacheIsTrue'
  BY <1>1 DEF Grows, CacheIsTrue, TruthInv
<1> QED
  BY <1>1, <1>2, <1>3, <1>4, TruthStays

\* An entry expires: nothing is promised any more.
LEMMA TruthOfExpiry ==
  ASSUME TypeInv, TruthInv,
         \/ \E s \in Stages, p \in Pilots : Expire(s, p)
         \/ ExpireBlob
  PROVE  TruthInv'
<1>1. Forgotten
  BY DEF Expire, ExpireBlob
<1>2. CacheIsTrue'
  <2>1. ASSUME NEW s \in Stages, NEW p \in Pilots, Expire(s, p) PROVE CacheIsTrue'
    <3>1. \A z \in Stages, x \in Pilots : entry'[z][x] = entry[z][x] \/ entry'[z][x] = "none"
      BY <2>1 DEF Expire, TypeInv
    <3>2. "ids" \in Stages /\ "affil" \in Stages /\ Known \subseteq Pilots
      BY PilotsAssumption DEF Stages, PartNames
    <3>3. CacheIsTrue
      BY DEF TruthInv
    <3> QED
      BY <3>1, <3>2, <3>3 DEF CacheIsTrue
  <2>2. ASSUME ExpireBlob PROVE CacheIsTrue'
    BY <2>2 DEF ExpireBlob, CacheIsTrue, TruthInv
  <2> QED
    BY <2>1, <2>2
<1>3. FreeIsCached'
  BY <1>1 DEF Forgotten, FreeIsCached
<1>4. ASSUME NEW w \in Workers, NEW q, q = req'[w] PROVE Finds(w, q)' /\ Repeats(w, q)'
  <2>1. Same(q, req[w], {"repeat", "expired"}) /\ ~q.repeat /\ q.expired
    BY <1>1, <1>4, ForgottenFields
  <2>2. Finds(w, req[w])
    BY DEF TruthInv
  <2>3. FindsSome(q) /\ q.got \subseteq Known
    BY <2>1, <2>2 DEF Finds, FindsSome, Same, Fields
  <2> QED
    BY <1>1, <2>1, <2>3 DEF Finds, FindsSome, Repeats, Undisturbed, Forgotten
<1> QED
  BY <1>2, <1>3, <1>4 DEF TruthInv

\* No step makes the cache, or what a request has found in it, untrue.
LEMMA TruthStep ==
  ASSUME TypeInv, TypeInv', TruthInv, [Next]_vars
  PROVE  TruthInv'
<1>1. ASSUME NEW w \in Workers, Serve(w) PROVE TruthInv'
  <2>1. Grows
    BY <1>1, ServeGrows
  <2>2. \/ Check(w) \/ Throttle(w) \/ Warzone(w) \/ Read(w) \/ AskRefused(w)
        \/ \E good \in SUBSET Pilots : AskAnswered(w, good)
        \/ \/ \E good \in SUBSET Pilots : AskRaised(w, good)
           \/ \E status \in {200, 400, 404, 500} : Load(w, status)
           \/ RedisRaises(w)
    BY <1>1 DEF Serve
  <2>3. AskRefused(w) => TruthInv'
    BY <2>1, TruthOfAnswers
  <2>4. (\E good \in SUBSET Pilots : AskAnswered(w, good)) => TruthInv'
    BY <2>1, TruthOfAnswers
  <2>5. Read(w) => TruthInv'
    BY TruthOfReading
  <2> QED
    BY <2>1, <2>2, <2>3, <2>4, <2>5, TruthOnTheWay, TruthAtTheEnd
<1>2. ASSUME NEW w \in Workers, NEW h \in Headers, NEW names \in SUBSET Pilots \ {{}},
             NEW mode \in Modes, NEW char \in Pilots, Receive(w, h, names, mode, char)
      PROVE  TruthInv'
  BY <1>2, TruthOfArrival
<1>3. ASSUME NEW w \in Workers, Restart(w) PROVE TruthInv'
  BY <1>3, TruthOfRestart
<1>4. CASE UNCHANGED <<entry, blob, req, free, retold>>
  BY <1>4 DEF TruthInv, CacheIsTrue, FreeIsCached, Cheap, Complete, Finds, FindsSome, FindsNames,
              FindsParts, HasAffiliations, FindsStage, Told, Repeats
<1>5. ASSUME \/ \E k \in Keys : ExpireToken(k)
             \/ RedisToggles \/ UNCHANGED vars
      PROVE  UNCHANGED <<entry, blob, req, free, retold>>
  BY <1>5 DEF ExpireToken, RedisToggles, vars
<1> QED
  BY <1>1, <1>2, <1>3, <1>4, <1>5, TruthOfExpiry DEF Next

\* Init is true.
LEMMA TruthInit ==
  Init => TruthInv
<1> SUFFICES ASSUME Init PROVE TruthInv
  OBVIOUS
<1>1. \A w : Finds(w, Idle) /\ Repeats(w, Idle)
  <2>1. Idle.pc # "ask"
    BY IdleTyped
  <2> QED
    BY <2>1, IdleTyped, FreshTruth
<1>2. CacheIsTrue
  BY PilotsAssumption DEF Init, CacheIsTrue, Stages, PartNames
<1> QED
  BY <1>1, <1>2 DEF Init, TruthInv, FreeIsCached

\* A page reports a pilot that ESI knows as unresolved only if ESI has refused it to this very
\* request, or the cache says so, or said so until another request found it: no mix of cached,
\* missed and absent names hides a pilot, however many workers share the cache.
THEOREM UnresolvedPilotsAreUnknown ==
  Spec => []UnresolvedIsTrue
<1>1. TypeInv /\ TypeInv' /\ TruthInv /\ [Next]_vars => TruthInv'
  BY TruthStep
<1>2. TypeInv /\ TruthInv => UnresolvedIsTrue
  BY DEF TypeInv, Typed, TruthInv, Finds, Undisturbed, FindsNames, Told, UnresolvedIsTrue, Cached
<1> QED
  BY <1>1, <1>2, TypeInvariant, TruthInit, PTL DEF Spec

\* On whichever worker it lands, a scan whose pilots were all on pages served in full asks ESI
\* nothing, if since then nothing has expired and none of its names has been found after all.
THEOREM RepeatsAreFree ==
  Spec => []RepeatIsFree
<1>1. TypeInv /\ TypeInv' /\ TruthInv /\ [Next]_vars => TruthInv'
  BY TruthStep
<1>2. TruthInv => RepeatIsFree
  BY DEF TruthInv, Repeats, RepeatIsFree
<1> QED
  BY <1>1, <1>2, TypeInvariant, TruthInit, PTL DEF Spec
===============================================================================
