----------------------------- MODULE EsiBreaker -----------------------------
(***************************************************************************)
(* The circuit breaker in front of ESI: _request, _check_budget and _trip  *)
(* of src/intel/esi.py.  Every thread of every gunicorn worker runs        *)
(* _request; all of them share one Redis key (esi:blocked) and one ESI     *)
(* budget, which ESI keys on our source IP.                                *)
(*                                                                         *)
(* ESI itself is external: it is modelled from the headers and statuses    *)
(* esi.py reads.  It counts requests against two limiters, each with a     *)
(* window that ends on its own schedule.                                   *)
(***************************************************************************)
EXTENDS Integers, FiniteSets

CONSTANTS
  Callers,       \* the threads that may be inside _request at once
  Routes,        \* the kinds of route: each a set of limiters that count it and report on it
  Limit,         \* Limit[l]: the requests (tokens, errors) limiter l allows per window
  Cost,          \* Cost[l][s]: what an answer of status s costs at limiter l
  MaxCost,       \* MaxCost[l]: the dearest answer at limiter l
  Window,        \* Window[l]: the ticks of a window of limiter l
  Fallback,      \* _BLOCKED_FALLBACK, in ticks
  ResetSlack,    \* by how many ticks a reset header may round down
  MayOmitReset,  \* the limiters that may answer without their reset header
  NoHeader,      \* a header that is absent from an answer
  MaxLost        \* bound on the answers lost per window that said a limiter is spent

Limiters == {"bucket", "errors"}
Statuses == {"success", "client_error", "server_error"}

ASSUME CallersAssumption == IsFiniteSet(Callers)
ASSUME RoutesAssumption == Routes \subseteq SUBSET Limiters
ASSUME LimitsAssumption ==
  /\ Limit \in [Limiters -> Nat \ {0}]
  /\ Window \in [Limiters -> Nat \ {0}]
  /\ MaxCost \in [Limiters -> Nat]
  /\ Cost \in [Limiters -> [Statuses -> Nat]]
  /\ \A l \in Limiters, s \in Statuses : Cost[l][s] <= MaxCost[l]
ASSUME HeaderAssumption ==
  /\ NoHeader \notin Nat
  /\ ResetSlack \subseteq Nat
  /\ MayOmitReset \subseteq Limiters
  /\ Fallback \in Nat
  /\ MaxLost \in Nat

VARIABLES
  block,    \* ticks until Redis expires esi:blocked; 0 when the key is absent
  pc,       \* pc[c]: where thread c is in _request, or how its last call ended
  answer,   \* answer[c]: the response on its way to thread c
  used,     \* ESI: used[l], consumed in the current window of limiter l
  window,   \* ESI: window[l], ticks until that window ends
  told,     \* history: told[l], callers ESI has told that l is spent, since the breaker last closed
  lost,     \* history: lost[l], such answers that never arrived, in this window
  early     \* history: early[l], times the block expired in this window with l spent

vars == <<block, pc, answer, used, window, told, lost, early>>

\* What a finished call leaves its caller with: parsed JSON, None, or one of the two exceptions.
Outcomes == {"value", "none", "unavailable", "rate_limited"}
Idle(c) == pc[c] \in Outcomes \cup {"new"}

Headers == [Limiters -> Nat \cup {NoHeader}]
Answers == [status : Statuses, remaining : Headers, reset : Headers]
NoAnswer ==
  [status |-> "success",
   remaining |-> [l \in Limiters |-> NoHeader],
   reset |-> [l \in Limiters |-> NoHeader]]

(***************************************************************************)
(* _check_budget and _trip                                                 *)
(***************************************************************************)
\* Mutant: the trip point itself does not trip.
SpentAbove(l, remaining) == 10 * (Limit[l] - remaining) > 9 * Limit[l]

\* (limit - remaining) / limit >= BUDGET_TRIP, the consumed fraction at 90%.
Spent(l, remaining) == 10 * (Limit[l] - remaining) >= 9 * Limit[l]

SaysSpent(a, l) == a.remaining[l] # NoHeader /\ Spent(l, a.remaining[l])

\* The token bucket is looked at first, and its trip hides the error limiter.
Tripping(a) == IF SaysSpent(a, "bucket") THEN "bucket" ELSE "errors"

\* Mutant: a header taken as it is, absent or 0.
BlockTicksAsSent(a) == a.reset[Tripping(a)]

BlockTicks(a) ==
  LET reset == a.reset[Tripping(a)]
      ticks == IF reset = NoHeader THEN Fallback ELSE reset
  IN IF ticks < 1 THEN 1 ELSE ticks

\* What the rest of _request makes of an answer that did not trip the breaker.
OutcomeOf(status) ==
  IF status = "server_error" THEN "unavailable"
  ELSE IF status = "client_error" THEN "none" ELSE "value"

\* Mutant: the budget is looked at only once the status is known to be fine.
TripsOnSuccess(a) == a.status = "success" /\ \E l \in Limiters : SaysSpent(a, l)

\* _check_budget runs before the status is looked at, so any status can trip.
Trips(a) == \E l \in Limiters : SaysSpent(a, l)

(***************************************************************************)
(* The steps of _request                                                   *)
(***************************************************************************)
Init ==
  /\ block = 0
  /\ pc = [c \in Callers |-> "new"]
  /\ answer = [c \in Callers |-> NoAnswer]
  /\ used = [l \in Limiters |-> 0]
  /\ \E b \in 1 .. Window["bucket"], e \in 1 .. Window["errors"] :
       window = [l \in Limiters |-> IF l = "bucket" THEN b ELSE e]
  /\ told = [l \in Limiters |-> {}]
  /\ lost = [l \in Limiters |-> 0]
  /\ early = [l \in Limiters |-> 0]

external == <<used, window>>
history == <<told, lost, early>>

\* cache.get finds no block; nothing is sent yet.
CheckClosed(c) ==
  /\ Idle(c)
  /\ block = 0
  /\ pc' = [pc EXCEPT ![c] = "checked"]
  /\ UNCHANGED <<block, answer, external, history>>

\* Mutant: each refused call renews the block.
CheckOpenRenews(c) ==
  /\ Idle(c)
  /\ block > 0
  /\ block' = Fallback
  /\ pc' = [pc EXCEPT ![c] = "rate_limited"]
  /\ UNCHANGED <<answer, external, history>>

\* cache.get finds the block: EsiRateLimited, and ESI is not called.
CheckOpen(c) ==
  /\ Idle(c)
  /\ block > 0
  /\ pc' = [pc EXCEPT ![c] = "rate_limited"]
  /\ UNCHANGED <<block, answer, external, history>>

Send(c) ==
  /\ pc[c] = "checked"
  /\ pc' = [pc EXCEPT ![c] = "sent"]
  /\ UNCHANGED <<block, answer, external, history>>

\* httpx.HTTPError: the request never got there, or its answer never came back.  An answer
\* that would trip, but whose block Redis fails to write, leaves the same state behind.
Fail(c) ==
  /\ pc[c] \in {"sent", "answered"}
  /\ \A l \in Limiters : c \in told[l] => lost[l] < MaxLost
  /\ pc' = [pc EXCEPT ![c] = "unavailable"]
  /\ answer' = [answer EXCEPT ![c] = NoAnswer]
  /\ told' = [l \in Limiters |-> told[l] \ {c}]
  /\ lost' = [l \in Limiters |-> IF c \in told[l] THEN lost[l] + 1 ELSE lost[l]]
  /\ UNCHANGED <<block, external, early>>

\* An answer at 90% of a limiter opens the breaker, whatever it carries; the new block
\* replaces the one in Redis.
Trip(c) ==
  /\ pc[c] = "answered"
  /\ Trips(answer[c])
  /\ block' = BlockTicks(answer[c])
  /\ pc' = [pc EXCEPT ![c] = "rate_limited"]
  /\ answer' = [answer EXCEPT ![c] = NoAnswer]
  /\ UNCHANGED <<external, history>>

Return(c) ==
  /\ pc[c] = "answered"
  /\ ~Trips(answer[c])
  /\ pc' = [pc EXCEPT ![c] = OutcomeOf(answer[c].status)]
  /\ answer' = [answer EXCEPT ![c] = NoAnswer]
  /\ UNCHANGED <<block, external, history>>

(***************************************************************************)
(* ESI and time                                                            *)
(***************************************************************************)
\* Once a limiter is exhausted ESI refuses every request it governs (420 or 429).
StatusesOn(route) ==
  IF \E l \in route : used[l] = Limit[l] THEN {"client_error"} ELSE Statuses

UsedAfter(l, status) ==
  IF used[l] + Cost[l][status] > Limit[l] THEN Limit[l] ELSE used[l] + Cost[l][status]

ResetHeaders(l) ==
  {window[l] - d : d \in {s \in ResetSlack : s <= window[l]}}
    \cup IF l \in MayOmitReset THEN {NoHeader} ELSE {}

\* ESI counts the request and answers it with the headers of the limiters that govern it.
Respond(c, route, status, bucketReset, errorsReset) ==
  /\ used' = [l \in Limiters |-> IF l \in route THEN UsedAfter(l, status) ELSE used[l]]
  /\ answer' = [answer EXCEPT ![c] =
       [status |-> status,
        remaining |-> [l \in Limiters |-> IF l \in route THEN Limit[l] - used'[l] ELSE NoHeader],
        reset |-> [l \in Limiters |->
          IF l \notin route THEN NoHeader ELSE IF l = "bucket" THEN bucketReset ELSE errorsReset]]]
  /\ told' = [l \in Limiters |->
       IF l \in route /\ Spent(l, Limit[l] - used'[l]) THEN told[l] \cup {c} ELSE told[l]]

Handle(c) ==
  /\ pc[c] = "sent"
  /\ \E route \in Routes : \E status \in StatusesOn(route) :
       \E bucketReset \in ResetHeaders("bucket"), errorsReset \in ResetHeaders("errors") :
         Respond(c, route, status, bucketReset, errorsReset)
  /\ pc' = [pc EXCEPT ![c] = "answered"]
  /\ UNCHANGED <<block, window, lost, early>>

\* One tick: Redis may expire the block, and a limiter's window may end.
Tick ==
  LET rolls(l) == window[l] = 1
      expires == block = 1
  IN
  /\ block' = IF block = 0 THEN 0 ELSE block - 1
  /\ window' = [l \in Limiters |-> IF rolls(l) THEN Window[l] ELSE window[l] - 1]
  /\ used' = [l \in Limiters |-> IF rolls(l) THEN 0 ELSE used[l]]
  /\ told' = [l \in Limiters |-> IF rolls(l) \/ expires THEN {} ELSE told[l]]
  /\ lost' = [l \in Limiters |-> IF rolls(l) THEN 0 ELSE lost[l]]
  /\ early' = [l \in Limiters |->
       IF rolls(l) THEN 0
       ELSE IF expires /\ Spent(l, Limit[l] - used[l]) THEN early[l] + 1 ELSE early[l]]
  /\ UNCHANGED <<pc, answer>>

Next ==
  \/ \E c \in Callers :
       CheckClosed(c) \/ CheckOpen(c) \/ Send(c) \/ Handle(c) \/ Fail(c) \/ Trip(c) \/ Return(c)
  \/ Tick

Spec == Init /\ [][Next]_vars

\* A thread keeps running its code, a request ends (httpx.Client has a timeout), time passes.
Fairness ==
  /\ \A c \in Callers : WF_vars(Send(c)) /\ WF_vars(Handle(c) \/ Fail(c)) /\ WF_vars(Trip(c) \/ Return(c))
  /\ WF_vars(Tick)

FairSpec == Spec /\ Fairness

-----------------------------------------------------------------------------
\* Every variable stays in its type, and ESI never counts past a limit.
TypeOK ==
  /\ block \in Nat
  /\ pc \in [Callers -> Outcomes \cup {"new", "checked", "sent", "answered"}]
  /\ answer \in [Callers -> Answers]
  /\ used \in [Limiters -> Nat]
  /\ \A l \in Limiters : used[l] <= Limit[l]
  /\ window \in [Limiters -> Nat \ {0}]
  /\ told \in [Limiters -> SUBSET Callers]
  /\ lost \in [Limiters -> Nat]
  /\ early \in [Limiters -> Nat]

LimiterSpent(l) == Spent(l, Limit[l] - used[l])

\* A thread that heard from ESI that a limiter is spent does not get back into ESI before
\* the breaker has closed again: each thread can overshoot the 90% mark at most once.
OneOvershootEach == \A l \in Limiters : \A c \in told[l] : pc[c] \notin {"checked", "sent"}

\* A spent limiter is never forgotten: the breaker is open, or an answer that will open it
\* is in flight, or such an answer was lost, or the block did not last the window.
SpentIsKnown ==
  \A l \in Limiters : LimiterSpent(l) =>
    \/ block > 0
    \/ \E c \in told[l] : pc[c] = "answered" /\ SaysSpent(answer[c], l)
    \/ lost[l] > 0
    \/ early[l] > 0

\* What the requests past the 90% mark can cost at most: one answer for each thread, once
\* more for each time the block ended too early, and the answers that were lost.
OvershootCost(l) == MaxCost[l] * (Cardinality(Callers) * (1 + early[l]) + lost[l])

\* The 10% margin of BUDGET_TRIP keeps us from being blocked, if it can pay the overshoot.
NeverExhausted ==
  \A l \in Limiters : 10 * OvershootCost(l) <= Limit[l] => used[l] < Limit[l]

\* Why these hold: the parts of the inductive invariant that are not properties above.
\* A caller that was told either still holds the answer, or has ended its call and the
\* breaker is open.
ToldHeedsInv ==
  \A l \in Limiters : \A c \in told[l] :
    \/ pc[c] = "answered" /\ SaysSpent(answer[c], l)
    \/ Idle(c) /\ block > 0
ToldSpentInv ==
  \A l \in Limiters :
    /\ told[l] # {} => LimiterSpent(l)
    /\ LimiterSpent(l) => told[l] # {} \/ lost[l] > 0 \/ early[l] > 0

\* The answers past the 90% mark so far in this window.
Overshoot(l) == Cardinality(told[l]) + Cardinality(Callers) * early[l] + lost[l]
BudgetInv ==
  \A l \in Limiters : 10 * used[l] < 9 * Limit[l] + 10 * (MaxCost[l] * Overshoot(l))

BreakerInv == TypeOK /\ ToldHeedsInv /\ ToldSpentInv /\ BudgetInv

\* The breaker closes again: calls in flight may prolong the block, but not for ever.
BreakerCloses == []<>(block = 0)

=============================================================================
