---------------------------- MODULE BreakerTrips ----------------------------
(***************************************************************************)
(* EsiBreaker with a history variable: the limiters that tripped the       *)
(* breaker and whose window has not ended since.  It is what esi.py says   *)
(* of the breaker that needs it: a trip is a promise about the window of   *)
(* the limiter that tripped.                                               *)
(***************************************************************************)
EXTENDS EsiBreaker

VARIABLE tripped  \* history: the limiters that tripped the breaker in their current window

TripsInit == Init /\ tripped = {}

\* A trip counts for the window its answer spoke of: an answer from an earlier window, or
\* from before the breaker last closed, says nothing of this one.
TripsOf(c) == {Tripping(answer[c])} \cap {l \in Limiters : c \in told[l]}

TripsNext ==
  \/ \E c \in Callers : Trip(c) /\ tripped' = tripped \cup TripsOf(c)
  \/ \E c \in Callers :
       /\ CheckClosed(c) \/ CheckOpen(c) \/ Send(c) \/ Handle(c) \/ Fail(c) \/ Return(c)
       /\ UNCHANGED tripped
  \/ Tick /\ tripped' = {l \in tripped : window[l] > 1}

TripsSpec == TripsInit /\ [][TripsNext]_<<vars, tripped>>

-----------------------------------------------------------------------------
(* What the documentation says of the breaker. *)

\* esi.py: "Once tripped, stop calling ESI entirely until the window resets."  A limiter
\* that tripped the breaker keeps it open until its own window ends.
ShutUntilReset == tripped # {} => block > 0
=============================================================================
