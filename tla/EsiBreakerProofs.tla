-------------------------- MODULE EsiBreakerProofs --------------------------
(***************************************************************************)
(* What holds of the breaker for every number of threads, every limit,     *)
(* cost and window: the type invariant, and that the 10% margin pays for   *)
(* the overshoot of EsiBreaker!OvershootCost.                              *)
(***************************************************************************)
EXTENDS EsiBreaker, FiniteSetTheorems, TLAPS

USE CallersAssumption DEF Limiters

\* A reported block always lasts at least a tick: _trip takes max(reset, 1).
LEMMA BlockTicksPositive ==
  ASSUME NEW a \in Answers
  PROVE  BlockTicks(a) \in Nat /\ BlockTicks(a) > 0
  BY HeaderAssumption, SMT DEF BlockTicks, Tripping, Answers, Headers

\* ESI's counter grows by at most MaxCost and stops at the limit.
LEMMA UsedAfterBounds ==
  ASSUME NEW l \in Limiters, NEW s \in Statuses, used[l] \in Nat, used[l] <= Limit[l]
  PROVE  /\ UsedAfter(l, s) \in Nat
         /\ used[l] <= UsedAfter(l, s)
         /\ UsedAfter(l, s) <= used[l] + MaxCost[l]
         /\ UsedAfter(l, s) <= Limit[l]
  <1>1. Limit[l] \in Nat /\ MaxCost[l] \in Nat /\ Cost[l][s] \in Nat /\ Cost[l][s] <= MaxCost[l]
    BY LimitsAssumption
  <1> QED
    BY <1>1, SMT DEF UsedAfter

LEMMA StatusesTyped ==
  ASSUME NEW route
  PROVE  StatusesOn(route) \subseteq Statuses
  BY Zenon DEF StatusesOn, Statuses

LEMMA ResetHeadersTyped ==
  ASSUME NEW l \in Limiters, window[l] \in Nat \ {0}
  PROVE  ResetHeaders(l) \subseteq Nat \cup {NoHeader}
  BY HeaderAssumption, SMT DEF ResetHeaders

LEMMA NoAnswerTyped == NoAnswer \in Answers
  BY SMT DEF NoAnswer, Answers, Headers, Statuses

LEMMA TypeStep ==
  ASSUME TypeOK, [Next]_vars
  PROVE  TypeOK'
<1> USE DEF TypeOK
<1>1. ASSUME NEW c \in Callers, CheckClosed(c) PROVE TypeOK'
  BY <1>1, SMT DEF CheckClosed, external, history
<1>2. ASSUME NEW c \in Callers, CheckOpen(c) PROVE TypeOK'
  BY <1>2, SMT DEF CheckOpen, external, history, Outcomes
<1>3. ASSUME NEW c \in Callers, Send(c) PROVE TypeOK'
  BY <1>3, SMT DEF Send, external, history
<1>4. ASSUME NEW c \in Callers, Handle(c) PROVE TypeOK'
  <2>1. PICK route \in Routes, status \in Statuses,
             bucketReset \in Nat \cup {NoHeader}, errorsReset \in Nat \cup {NoHeader} :
          Respond(c, route, status, bucketReset, errorsReset)
    <3>1. ResetHeaders("bucket") \subseteq Nat \cup {NoHeader}
      BY ResetHeadersTyped
    <3>2. ResetHeaders("errors") \subseteq Nat \cup {NoHeader}
      BY ResetHeadersTyped
    <3> QED
      BY <1>4, <3>1, <3>2, StatusesTyped, Zenon DEF Handle
  <2>2. \A l \in Limiters : used'[l] \in Nat /\ used'[l] <= Limit[l]
    BY <2>1, UsedAfterBounds DEF Respond
  <2>3. used' \in [Limiters -> Nat]
    BY <2>1, <2>2 DEF Respond
  <2>4. told' \in [Limiters -> SUBSET Callers]
    BY <2>1, Zenon DEF Respond
  <2>5. [l \in Limiters |-> IF l \in route THEN Limit[l] - used'[l] ELSE NoHeader] \in Headers
    BY <2>2, LimitsAssumption, SMT DEF Headers
  <2>6. [l \in Limiters |->
           IF l \notin route THEN NoHeader
           ELSE IF l = "bucket" THEN bucketReset ELSE errorsReset] \in Headers
    BY DEF Headers
  <2>7. answer' \in [Callers -> Answers]
    BY <2>1, <2>5, <2>6, Zenon DEF Respond, Answers
  <2>8. pc' = [pc EXCEPT ![c] = "answered"] /\ UNCHANGED <<block, window, lost, early>>
    BY <1>4, Zenon DEF Handle
  <2>9. pc' \in [Callers -> Outcomes \cup {"new", "checked", "sent", "answered"}]
    BY <2>8
  <2>10. block' \in Nat /\ window' \in [Limiters -> Nat \ {0}]
    BY <2>8
  <2>11. lost' \in [Limiters -> Nat] /\ early' \in [Limiters -> Nat]
    BY <2>8
  <2> QED
    BY <2>2, <2>3, <2>4, <2>7, <2>9, <2>10, <2>11, Zenon
<1>5. ASSUME NEW c \in Callers, Fail(c) PROVE TypeOK'
  BY <1>5, NoAnswerTyped, SMT DEF Fail, external, Outcomes
<1>6. ASSUME NEW c \in Callers, Trip(c) PROVE TypeOK'
  <2>1. BlockTicks(answer[c]) \in Nat
    BY BlockTicksPositive
  <2> QED
    BY <1>6, <2>1, NoAnswerTyped, SMT DEF Trip, external, history, Outcomes
<1>7. ASSUME NEW c \in Callers, Return(c) PROVE TypeOK'
  <2>1. OutcomeOf(answer[c].status) \in Outcomes
    BY DEF OutcomeOf, Outcomes, Answers, Statuses
  <2> QED
    BY <1>7, <2>1, NoAnswerTyped, SMT DEF Return, external, history
<1>8. CASE Tick
  <2>1. block' \in Nat
    BY <1>8 DEF Tick
  <2>2. window' \in [Limiters -> Nat \ {0}]
    BY <1>8, LimitsAssumption DEF Tick
  <2>3. used' \in [Limiters -> Nat] /\ \A l \in Limiters : used'[l] <= Limit[l]
    BY <1>8, LimitsAssumption DEF Tick
  <2>4. told' \in [Limiters -> SUBSET Callers]
    BY <1>8, Zenon DEF Tick
  <2>5. lost' \in [Limiters -> Nat] /\ early' \in [Limiters -> Nat]
    BY <1>8 DEF Tick
  <2> QED
    BY <1>8, <2>1, <2>2, <2>3, <2>4, <2>5 DEF Tick
<1>9. CASE UNCHANGED vars
  BY <1>9 DEF vars
<1> QED
  BY <1>1, <1>2, <1>3, <1>4, <1>5, <1>6, <1>7, <1>8, <1>9 DEF Next

LEMMA InitTyped == Init => TypeOK
<1> SUFFICES ASSUME Init PROVE TypeOK
  OBVIOUS
<1>1. window \in [Limiters -> Nat \ {0}]
  BY LimitsAssumption, SMT DEF Init
<1> QED
  BY <1>1, NoAnswerTyped, LimitsAssumption, SMT DEF Init, TypeOK, Outcomes

\* Type correctness of EsiBreaker.
THEOREM TypeCorrect == Spec => []TypeOK
  BY InitTyped, TypeStep, PTL DEF Spec

-----------------------------------------------------------------------------
(* The invariant behind the safety properties. *)

LEMMA SpentTyped ==
  ASSUME NEW l \in Limiters, NEW n \in Nat, n <= Limit[l]
  PROVE  Spent(l, Limit[l] - n) <=> 10 * n >= 9 * Limit[l]
  BY LimitsAssumption, SMT DEF Spent

\* What Handle does, with the response it picks named.
LEMMA HandleResponds ==
  ASSUME TypeOK, NEW c \in Callers, Handle(c)
  PROVE  /\ pc[c] = "sent"
         /\ pc' = [pc EXCEPT ![c] = "answered"]
         /\ UNCHANGED <<block, window, lost, early>>
         /\ \E route \in SUBSET Limiters, status \in Statuses,
               bucketReset \in Nat \cup {NoHeader}, errorsReset \in Nat \cup {NoHeader} :
              Respond(c, route, status, bucketReset, errorsReset)
  <1>1. ResetHeaders("bucket") \subseteq Nat \cup {NoHeader}
    BY ResetHeadersTyped DEF TypeOK
  <1>2. ResetHeaders("errors") \subseteq Nat \cup {NoHeader}
    BY ResetHeadersTyped DEF TypeOK
  <1> QED
    BY <1>1, <1>2, StatusesTyped, RoutesAssumption, Zenon DEF Handle

\* A limiter that Respond leaves at 90% or more has told the caller so in the answer.
LEMMA RespondTells ==
  ASSUME TypeOK, NEW c \in Callers, NEW route \in SUBSET Limiters, NEW status \in Statuses,
         NEW bucketReset, NEW errorsReset,
         Respond(c, route, status, bucketReset, errorsReset), NEW l \in Limiters
  PROVE  /\ used'[l] \in Nat /\ used[l] <= used'[l] /\ used'[l] <= Limit[l]
         /\ l \notin route => used'[l] = used[l] /\ told'[l] = told[l]
         /\ l \in route => /\ used'[l] <= used[l] + MaxCost[l]
                           /\ LimiterSpent(l)' => /\ told'[l] = told[l] \cup {c}
                                                  /\ SaysSpent(answer'[c], l)
                           /\ ~LimiterSpent(l)' => told'[l] = told[l]
         /\ \A d \in Callers \ {c} : answer'[d] = answer[d]
  <1> DEFINE left == [k \in Limiters |-> IF k \in route THEN Limit[k] - used'[k] ELSE NoHeader]
  <1>1. used'[l] = IF l \in route THEN UsedAfter(l, status) ELSE used[l]
    BY DEF Respond
  <1>2. /\ UsedAfter(l, status) \in Nat
        /\ used[l] <= UsedAfter(l, status)
        /\ UsedAfter(l, status) <= used[l] + MaxCost[l]
        /\ UsedAfter(l, status) <= Limit[l]
    BY UsedAfterBounds DEF TypeOK
  <1>3. /\ used'[l] \in Nat /\ used[l] <= used'[l] /\ used'[l] <= Limit[l]
        /\ l \in route => used'[l] <= used[l] + MaxCost[l]
        /\ l \notin route => used'[l] = used[l]
    BY <1>1, <1>2, SMT DEF TypeOK
  <1>4. told'[l] = IF l \in route /\ Spent(l, Limit[l] - used'[l]) THEN told[l] \cup {c} ELSE told[l]
    BY DEF Respond
  <1>5. answer'[c].remaining = left /\ \A d \in Callers \ {c} : answer'[d] = answer[d]
    BY DEF Respond, TypeOK
  <1>6. l \in route => answer'[c].remaining[l] = Limit[l] - used'[l]
    BY <1>5
  <1>7. Limit[l] - used'[l] \in Nat
    BY <1>3, LimitsAssumption, SMT
  <1>8. l \in route /\ Spent(l, Limit[l] - used'[l]) => SaysSpent(answer'[c], l)
    BY <1>6, <1>7, HeaderAssumption DEF SaysSpent
  <1> QED
    BY <1>3, <1>4, <1>5, <1>8, Zenon DEF LimiterSpent

LEMMA ProductGrows ==
  ASSUME NEW m \in Nat, NEW a \in Nat, NEW b \in Nat, a <= b
  PROVE  m * a \in Nat /\ m * a <= m * b /\ m * (a + 1) = m * a + m
  BY SMT

\* What Overshoot counts: told callers S, e early expiries and k lost answers.
LEMMA OvershootTyped ==
  ASSUME NEW S \in SUBSET Callers, NEW e \in Nat, NEW k \in Nat
  PROVE  /\ IsFiniteSet(S) /\ Cardinality(S) \in Nat
         /\ Cardinality(S) <= Cardinality(Callers)
         /\ Cardinality(Callers) \in Nat
         /\ Cardinality(Callers) * e \in Nat
         /\ Cardinality(S) + Cardinality(Callers) * e + k \in Nat
  <1>1. IsFiniteSet(S) /\ Cardinality(S) <= Cardinality(Callers)
    BY FS_Subset
  <1>2. Cardinality(S) \in Nat /\ Cardinality(Callers) \in Nat
    BY <1>1, FS_CardinalityType
  <1>3. Cardinality(Callers) * e \in Nat
    BY <1>2, ProductGrows
  <1> QED
    BY <1>1, <1>2, <1>3, SMT

\* A step that leaves ESI's counters and the history alone keeps their relation.
LEMMA CountersKept ==
  ASSUME ToldSpentInv, BudgetInv, UNCHANGED <<used, told, lost, early>>
  PROVE  ToldSpentInv' /\ BudgetInv'
  <1>1. ToldSpentInv'
    BY SMT DEF ToldSpentInv, LimiterSpent
  <1>2. BudgetInv'
    BY Zenon DEF BudgetInv, Overshoot
  <1> QED
    BY <1>1, <1>2

LEMMA HandleKeeps ==
  ASSUME BreakerInv, TypeOK', NEW c \in Callers, Handle(c)
  PROVE  BreakerInv'
<1> USE DEF BreakerInv
<1>1. /\ pc[c] = "sent" /\ pc' = [pc EXCEPT ![c] = "answered"]
      /\ UNCHANGED <<block, window, lost, early>>
  BY HandleResponds
<1>2. PICK route \in SUBSET Limiters, status \in Statuses,
           bucketReset \in Nat \cup {NoHeader}, errorsReset \in Nat \cup {NoHeader} :
        Respond(c, route, status, bucketReset, errorsReset)
  BY HandleResponds
<1>3. \A l \in Limiters : c \notin told[l]
  BY <1>1 DEF ToldHeedsInv, Idle, Outcomes
<1>4. ASSUME NEW l \in Limiters
      PROVE  \/ told'[l] = told[l] /\ (LimiterSpent(l)' => LimiterSpent(l) /\ used'[l] = used[l])
             \/ told'[l] = told[l] \cup {c} /\ SaysSpent(answer'[c], l) /\ LimiterSpent(l)'
                /\ used'[l] <= used[l] + MaxCost[l]
  <2>1. CASE l \in route
    BY <1>2, <2>1, RespondTells
  <2>2. CASE l \notin route
    <3>1. used'[l] = used[l] /\ told'[l] = told[l]
      BY <1>2, <2>2, RespondTells
    <3> QED
      BY <3>1 DEF LimiterSpent
  <2> QED
    BY <2>1, <2>2
<1>5. ToldHeedsInv'
  <2> SUFFICES ASSUME NEW l \in Limiters, NEW d \in told'[l]
               PROVE  \/ pc'[d] = "answered" /\ SaysSpent(answer'[d], l)
                      \/ (Idle(d) /\ block > 0)'
    BY DEF ToldHeedsInv
  <2>1. CASE d = c
    <3>1. SaysSpent(answer'[c], l)
      BY <1>3, <1>4, <2>1
    <3> QED
      BY <1>1, <2>1, <3>1 DEF TypeOK
  <2>2. CASE d # c
    <3>1. d \in told[l] /\ d \in Callers
      BY <1>4, <2>2 DEF TypeOK
    <3>2. answer'[d] = answer[d]
      BY <1>2, <2>2, <3>1, RespondTells
    <3>3. pc'[d] = pc[d] /\ block' = block
      BY <1>1, <2>2, <3>1 DEF TypeOK
    <3>4. \/ pc[d] = "answered" /\ SaysSpent(answer[d], l)
          \/ Idle(d) /\ block > 0
      BY <3>1 DEF ToldHeedsInv
    <3> QED
      BY <3>2, <3>3, <3>4 DEF Idle
  <2> QED
    BY <2>1, <2>2
<1>6. ToldSpentInv'
  <2> SUFFICES ASSUME NEW l \in Limiters
               PROVE  /\ told'[l] # {} => LimiterSpent(l)'
                      /\ LimiterSpent(l)' => told'[l] # {} \/ lost'[l] > 0 \/ early'[l] > 0
    BY DEF ToldSpentInv
  <2>1. CASE told'[l] = told[l] /\ (LimiterSpent(l)' => LimiterSpent(l) /\ used'[l] = used[l])
    <3>1. told[l] # {} => LimiterSpent(l)
      BY DEF ToldSpentInv
    <3>2. LimiterSpent(l) => LimiterSpent(l)'
      <4>1. /\ used[l] \in Nat /\ used'[l] \in Nat /\ used[l] <= used'[l] /\ used'[l] <= Limit[l]
        BY <1>2, RespondTells DEF TypeOK
      <4> QED
        BY <4>1, LimitsAssumption, SMT DEF LimiterSpent, Spent
    <3> QED
      BY <1>1, <2>1, <3>1, <3>2 DEF ToldSpentInv
  <2>2. CASE told'[l] = told[l] \cup {c} /\ LimiterSpent(l)'
    BY <2>2
  <2> QED
    BY <1>4, <2>1, <2>2
<1>7. BudgetInv'
  <2> SUFFICES ASSUME NEW l \in Limiters
               PROVE  10 * used'[l] < 9 * Limit[l] + 10 * (MaxCost[l] * Overshoot(l)')
    BY DEF BudgetInv
  <2>1. /\ MaxCost[l] \in Nat /\ Limit[l] \in Nat /\ Overshoot(l) \in Nat /\ Overshoot(l)' \in Nat
        /\ used[l] \in Nat /\ used'[l] \in Nat /\ used'[l] <= Limit[l]
    <3>1. /\ told[l] \in SUBSET Callers /\ early[l] \in Nat /\ lost[l] \in Nat
          /\ told'[l] \in SUBSET Callers /\ early'[l] \in Nat /\ lost'[l] \in Nat
          /\ used[l] \in Nat /\ used'[l] \in Nat /\ used'[l] <= Limit[l]
      BY DEF TypeOK
    <3>2. Overshoot(l) \in Nat /\ Overshoot(l)' \in Nat
      BY <3>1, OvershootTyped DEF Overshoot
    <3> QED
      BY <3>1, <3>2, LimitsAssumption
  <2>2. 10 * used[l] < 9 * Limit[l] + 10 * (MaxCost[l] * Overshoot(l))
    BY DEF BudgetInv
  <2>3. CASE ~LimiterSpent(l)'
    <3>1. 10 * used'[l] < 9 * Limit[l]
      BY <2>1, <2>3, SMT DEF LimiterSpent, Spent
    <3>2. MaxCost[l] * Overshoot(l)' \in Nat
      BY <2>1, ProductGrows
    <3> QED
      BY <2>1, <3>1, <3>2, SMT
  <2>4. CASE told'[l] = told[l] /\ used'[l] = used[l]
    <3>1. Overshoot(l)' = Overshoot(l)
      BY <1>1, <2>4 DEF Overshoot
    <3> QED
      BY <2>2, <2>4, <3>1, SMT
  <2>5. CASE told'[l] = told[l] \cup {c} /\ used'[l] <= used[l] + MaxCost[l]
    <3>1. Cardinality(told'[l]) = Cardinality(told[l]) + 1
      BY <1>3, <2>5, OvershootTyped, FS_AddElement DEF TypeOK
    <3>2. Overshoot(l)' = Overshoot(l) + 1
      <4>1. told[l] \in SUBSET Callers /\ early[l] \in Nat /\ lost[l] \in Nat
        BY DEF TypeOK
      <4>2. Cardinality(told[l]) \in Nat /\ Cardinality(Callers) * early[l] \in Nat
        BY <4>1, OvershootTyped
      <4>3. early' = early /\ lost' = lost
        BY <1>1
      <4> QED
        BY <3>1, <4>1, <4>2, <4>3, SMT DEF Overshoot
    <3>3. MaxCost[l] * Overshoot(l)' = MaxCost[l] * Overshoot(l) + MaxCost[l]
      BY <2>1, <3>2, ProductGrows
    <3>4. MaxCost[l] * Overshoot(l) \in Nat
      BY <2>1, ProductGrows
    <3> QED
      BY <2>1, <2>2, <2>5, <3>3, <3>4, SMT
  <2> QED
    BY <1>4, <2>3, <2>4, <2>5
<1> QED
  BY <1>5, <1>6, <1>7

LEMMA FailKeeps ==
  ASSUME BreakerInv, TypeOK', NEW c \in Callers, Fail(c)
  PROVE  BreakerInv'
<1> USE DEF BreakerInv
<1>1. /\ pc[c] \in {"sent", "answered"} /\ pc' = [pc EXCEPT ![c] = "unavailable"]
      /\ answer' = [answer EXCEPT ![c] = NoAnswer]
      /\ told' = [l \in Limiters |-> told[l] \ {c}]
      /\ lost' = [l \in Limiters |-> IF c \in told[l] THEN lost[l] + 1 ELSE lost[l]]
      /\ UNCHANGED <<block, used, window, early>>
  BY DEF Fail, external
<1>2. ToldHeedsInv'
  <2> SUFFICES ASSUME NEW l \in Limiters, NEW d \in told'[l]
               PROVE  \/ pc'[d] = "answered" /\ SaysSpent(answer'[d], l)
                      \/ (Idle(d) /\ block > 0)'
    BY DEF ToldHeedsInv
  <2>1. d \in told[l] /\ d # c /\ d \in Callers
    BY <1>1 DEF TypeOK
  <2>2. pc'[d] = pc[d] /\ answer'[d] = answer[d] /\ block' = block
    BY <1>1, <2>1 DEF TypeOK
  <2>3. \/ pc[d] = "answered" /\ SaysSpent(answer[d], l)
        \/ Idle(d) /\ block > 0
    BY <2>1 DEF ToldHeedsInv
  <2> QED
    BY <2>2, <2>3 DEF Idle
<1>3. ASSUME NEW l \in Limiters
      PROVE  \/ c \notin told[l] /\ told'[l] = told[l] /\ lost'[l] = lost[l]
             \/ c \in told[l] /\ told'[l] = told[l] \ {c} /\ lost'[l] = lost[l] + 1
  BY <1>1
<1>4. ToldSpentInv'
  <2> SUFFICES ASSUME NEW l \in Limiters
               PROVE  /\ told'[l] # {} => LimiterSpent(l)'
                      /\ LimiterSpent(l)' => told'[l] # {} \/ lost'[l] > 0 \/ early'[l] > 0
    BY DEF ToldSpentInv
  <2>1. /\ told[l] # {} => LimiterSpent(l)
        /\ LimiterSpent(l) => told[l] # {} \/ lost[l] > 0 \/ early[l] > 0
    BY DEF ToldSpentInv
  <2>2. LimiterSpent(l)' <=> LimiterSpent(l)
    BY <1>1 DEF LimiterSpent
  <2>3. lost[l] \in Nat
    BY DEF TypeOK
  <2> QED
    BY <1>1, <1>3, <2>1, <2>2, <2>3
<1>5. BudgetInv'
  <2>1. ASSUME NEW l \in Limiters PROVE Overshoot(l)' = Overshoot(l)
    <3>1. CASE c \notin told[l]
      BY <1>1, <1>3, <3>1 DEF Overshoot
    <3>2. CASE c \in told[l]
      <4>1. told[l] \in SUBSET Callers /\ early[l] \in Nat /\ lost[l] \in Nat
        BY DEF TypeOK
      <4>2. IsFiniteSet(told[l]) /\ Cardinality(told[l]) \in Nat /\ Cardinality(Callers) * early[l] \in Nat
        BY <4>1, OvershootTyped
      <4>3. Cardinality(told[l] \ {c}) = Cardinality(told[l]) - 1
        BY <3>2, <4>2, FS_RemoveElement
      <4>4. told'[l] = told[l] \ {c} /\ lost'[l] = lost[l] + 1 /\ early' = early
        BY <1>1, <1>3, <3>2
      <4> QED
        BY <4>1, <4>2, <4>3, <4>4, SMT DEF Overshoot
    <3> QED
      BY <3>1, <3>2
  <2> QED
    BY <1>1, <2>1 DEF BudgetInv
<1> QED
  BY <1>2, <1>4, <1>5

LEMMA TickKeeps ==
  ASSUME BreakerInv, TypeOK', Tick
  PROVE  BreakerInv'
<1> USE DEF BreakerInv
<1> SUFFICES ASSUME NEW l \in Limiters
             PROVE  /\ \A c \in told'[l] : \/ pc'[c] = "answered" /\ SaysSpent(answer'[c], l)
                                           \/ (Idle(c) /\ block > 0)'
                    /\ told'[l] # {} => LimiterSpent(l)'
                    /\ LimiterSpent(l)' => told'[l] # {} \/ lost'[l] > 0 \/ early'[l] > 0
                    /\ 10 * used'[l] < 9 * Limit[l] + 10 * (MaxCost[l] * Overshoot(l)')
  BY DEF ToldHeedsInv, ToldSpentInv, BudgetInv
<1>1. /\ MaxCost[l] \in Nat /\ Limit[l] \in Nat /\ Limit[l] > 0
      /\ Overshoot(l) \in Nat /\ Overshoot(l)' \in Nat
      /\ used[l] \in Nat /\ used[l] <= Limit[l] /\ block \in Nat
  <2>1. /\ told[l] \in SUBSET Callers /\ early[l] \in Nat /\ lost[l] \in Nat
        /\ told'[l] \in SUBSET Callers /\ early'[l] \in Nat /\ lost'[l] \in Nat
        /\ used[l] \in Nat /\ used[l] <= Limit[l] /\ block \in Nat
    BY DEF TypeOK
  <2>2. Overshoot(l) \in Nat /\ Overshoot(l)' \in Nat
    BY <2>1, OvershootTyped DEF Overshoot
  <2> QED
    BY <2>1, <2>2, LimitsAssumption
<1>2. MaxCost[l] * Overshoot(l) \in Nat /\ MaxCost[l] * Overshoot(l)' \in Nat
  BY <1>1, ProductGrows
<1>3. CASE window[l] = 1
  <2>1. told'[l] = {} /\ used'[l] = 0
    BY <1>3 DEF Tick
  <2>2. ~LimiterSpent(l)'
    BY <1>1, <2>1, SMT DEF LimiterSpent, Spent
  <2> QED
    BY <1>1, <1>2, <2>1, <2>2, SMT
<1>4. CASE window[l] # 1 /\ block = 1
  <2>1. told'[l] = {} /\ used'[l] = used[l] /\ lost'[l] = lost[l]
    BY <1>4 DEF Tick
  <2>2. LimiterSpent(l)' <=> LimiterSpent(l)
    BY <2>1 DEF LimiterSpent
  <2>3. CASE LimiterSpent(l)
    <3>1. early'[l] = early[l] + 1
      BY <1>4, <2>3 DEF Tick, LimiterSpent
    <3>2. Overshoot(l) <= Overshoot(l)'
      <4>1. Cardinality(told'[l]) = 0
        BY <2>1, FS_EmptySet
      <4>2. told[l] \in SUBSET Callers /\ early[l] \in Nat /\ lost[l] \in Nat
        BY DEF TypeOK
      <4>3. /\ Cardinality(told[l]) \in Nat /\ Cardinality(Callers) \in Nat
            /\ Cardinality(told[l]) <= Cardinality(Callers)
            /\ Cardinality(Callers) * early[l] \in Nat
        BY <4>2, OvershootTyped
      <4>4. Cardinality(Callers) * (early[l] + 1) = Cardinality(Callers) * early[l] + Cardinality(Callers)
        BY <4>2, <4>3, ProductGrows
      <4>5. Overshoot(l)' = Cardinality(Callers) * (early[l] + 1) + lost[l]
        BY <2>1, <3>1, <4>1, <4>2, <4>3, <4>4, SMT DEF Overshoot
      <4> QED
        BY <4>2, <4>3, <4>4, <4>5, SMT DEF Overshoot
    <3>3. MaxCost[l] * Overshoot(l) <= MaxCost[l] * Overshoot(l)'
      BY <1>1, <3>2, ProductGrows
    <3>4. 10 * used[l] < 9 * Limit[l] + 10 * (MaxCost[l] * Overshoot(l))
      BY DEF BudgetInv
    <3>5. early[l] \in Nat
      BY DEF TypeOK
    <3> QED
      BY <1>1, <1>2, <2>1, <3>1, <3>3, <3>4, <3>5, SMT
  <2>4. CASE ~LimiterSpent(l)
    <3>1. 10 * used[l] < 9 * Limit[l]
      BY <1>1, <2>4, SMT DEF LimiterSpent, Spent
    <3> QED
      BY <1>1, <1>2, <2>1, <2>2, <2>4, <3>1, SMT
  <2> QED
    BY <2>3, <2>4
<1>5. CASE window[l] # 1 /\ block # 1
  <2>1. /\ told'[l] = told[l] /\ used'[l] = used[l] /\ lost'[l] = lost[l] /\ early'[l] = early[l]
        /\ pc' = pc /\ answer' = answer
    BY <1>5 DEF Tick
  <2>2. LimiterSpent(l)' <=> LimiterSpent(l)
    BY <2>1 DEF LimiterSpent
  <2>3. Overshoot(l)' = Overshoot(l)
    BY <2>1 DEF Overshoot
  <2>4. block > 0 => block' > 0
    BY <1>1, <1>5 DEF Tick
  <2>5. /\ \A c \in told[l] : \/ pc[c] = "answered" /\ SaysSpent(answer[c], l)
                              \/ Idle(c) /\ block > 0
        /\ told[l] # {} => LimiterSpent(l)
        /\ LimiterSpent(l) => told[l] # {} \/ lost[l] > 0 \/ early[l] > 0
        /\ 10 * used[l] < 9 * Limit[l] + 10 * (MaxCost[l] * Overshoot(l))
    BY DEF ToldHeedsInv, ToldSpentInv, BudgetInv
  <2>6. \A c \in told'[l] : \/ pc'[c] = "answered" /\ SaysSpent(answer'[c], l)
                            \/ (Idle(c) /\ block > 0)'
    BY <2>1, <2>4, <2>5 DEF Idle
  <2> QED
    BY <2>1, <2>2, <2>3, <2>5, <2>6
<1> QED
  BY <1>3, <1>4, <1>5

LEMMA TripKeeps ==
  ASSUME BreakerInv, TypeOK', NEW c \in Callers, Trip(c)
  PROVE  BreakerInv'
<1> USE DEF BreakerInv
<1>1. /\ pc' = [pc EXCEPT ![c] = "rate_limited"] /\ answer' = [answer EXCEPT ![c] = NoAnswer]
      /\ block' = BlockTicks(answer[c])
      /\ UNCHANGED <<used, told, lost, early>>
  BY DEF Trip, external, history
<1>2. block' > 0
  BY <1>1, BlockTicksPositive DEF TypeOK
<1>3. ToldHeedsInv'
  <2> SUFFICES ASSUME NEW l \in Limiters, NEW d \in told'[l]
               PROVE  \/ pc'[d] = "answered" /\ SaysSpent(answer'[d], l)
                      \/ (Idle(d) /\ block > 0)'
    BY DEF ToldHeedsInv
  <2>1. d \in told[l] /\ d \in Callers
    BY <1>1 DEF TypeOK
  <2>2. CASE d = c
    BY <1>1, <1>2, <2>1, <2>2 DEF Idle, Outcomes, TypeOK
  <2>3. CASE d # c
    <3>1. pc'[d] = pc[d] /\ answer'[d] = answer[d]
      BY <1>1, <2>1, <2>3 DEF TypeOK
    <3>2. \/ pc[d] = "answered" /\ SaysSpent(answer[d], l)
          \/ Idle(d) /\ block > 0
      BY <2>1 DEF ToldHeedsInv
    <3> QED
      BY <1>2, <3>1, <3>2 DEF Idle
  <2> QED
    BY <2>2, <2>3
<1> QED
  BY <1>1, <1>3, CountersKept

\* The steps of a call that neither reach ESI nor trip: they move only c, and c was either
\* never told or is idle already.
LEMMA QuietKeeps ==
  ASSUME BreakerInv, TypeOK', NEW c \in Callers,
         CheckClosed(c) \/ CheckOpen(c) \/ Send(c) \/ Return(c)
  PROVE  BreakerInv'
<1> USE DEF BreakerInv
<1>1. UNCHANGED <<block, used, told, lost, early>>
  BY DEF CheckClosed, CheckOpen, Send, Return, external, history
<1>2. \A d \in Callers \ {c} : pc'[d] = pc[d] /\ answer'[d] = answer[d]
  BY DEF CheckClosed, CheckOpen, Send, Return, TypeOK
<1>3. ASSUME NEW l \in Limiters, c \in told[l] PROVE (Idle(c) /\ block > 0)'
  <2>1. \/ pc[c] = "answered" /\ SaysSpent(answer[c], l)
        \/ Idle(c) /\ block > 0
    BY <1>3 DEF ToldHeedsInv
  <2>2. ~CheckClosed(c)
    BY <2>1 DEF CheckClosed, Idle, Outcomes, TypeOK
  <2>3. ~Send(c)
    BY <2>1 DEF Send, Idle, Outcomes
  <2>4. ~Return(c)
    BY <2>1 DEF Return, Trips, Idle, Outcomes
  <2>5. CheckOpen(c)
    BY <2>2, <2>3, <2>4
  <2> QED
    BY <1>1, <2>5 DEF CheckOpen, Idle, Outcomes, TypeOK
<1>4. ToldHeedsInv'
  <2> SUFFICES ASSUME NEW l \in Limiters, NEW d \in told'[l]
               PROVE  \/ pc'[d] = "answered" /\ SaysSpent(answer'[d], l)
                      \/ (Idle(d) /\ block > 0)'
    BY DEF ToldHeedsInv
  <2>1. d \in told[l] /\ d \in Callers
    BY <1>1 DEF TypeOK
  <2>2. CASE d = c
    BY <1>3, <2>1, <2>2
  <2>3. CASE d # c
    <3>1. \/ pc[d] = "answered" /\ SaysSpent(answer[d], l)
          \/ Idle(d) /\ block > 0
      BY <2>1 DEF ToldHeedsInv
    <3> QED
      BY <1>1, <1>2, <2>1, <2>3, <3>1 DEF Idle
  <2> QED
    BY <2>2, <2>3
<1> QED
  BY <1>1, <1>4, CountersKept

LEMMA InitBreakerInv == Init => BreakerInv
<1> SUFFICES ASSUME Init PROVE BreakerInv
  OBVIOUS
<1>1. TypeOK
  BY InitTyped
<1>2. ToldHeedsInv
  BY DEF Init, ToldHeedsInv
<1>3. ASSUME NEW l \in Limiters
      PROVE  ~LimiterSpent(l) /\ told[l] = {} /\ 10 * used[l] < 9 * Limit[l]
  <2>1. used[l] = 0 /\ told[l] = {}
    BY DEF Init
  <2> QED
    BY <2>1, LimitsAssumption, SMT DEF LimiterSpent, Spent
<1>4. ToldSpentInv
  BY <1>3 DEF ToldSpentInv
<1>5. BudgetInv
  <2> SUFFICES ASSUME NEW l \in Limiters
               PROVE  10 * used[l] < 9 * Limit[l] + 10 * (MaxCost[l] * Overshoot(l))
    BY DEF BudgetInv
  <2>1. Overshoot(l) \in Nat /\ MaxCost[l] \in Nat /\ Limit[l] \in Nat /\ used[l] \in Nat
    BY <1>1, OvershootTyped, LimitsAssumption DEF TypeOK, Overshoot
  <2>2. MaxCost[l] * Overshoot(l) \in Nat
    BY <2>1, ProductGrows
  <2> QED
    BY <1>3, <2>1, <2>2, SMT
<1> QED
  BY <1>1, <1>2, <1>4, <1>5 DEF BreakerInv

LEMMA BreakerInvStep ==
  ASSUME BreakerInv, [Next]_vars
  PROVE  BreakerInv'
<1>1. TypeOK'
  BY TypeStep DEF BreakerInv
<1>2. ASSUME NEW c \in Callers, Handle(c) PROVE BreakerInv'
  BY <1>1, <1>2, HandleKeeps
<1>3. ASSUME NEW c \in Callers, Fail(c) PROVE BreakerInv'
  BY <1>1, <1>3, FailKeeps
<1>4. ASSUME NEW c \in Callers, Trip(c) PROVE BreakerInv'
  BY <1>1, <1>4, TripKeeps
<1>5. ASSUME NEW c \in Callers, CheckClosed(c) \/ CheckOpen(c) \/ Send(c) \/ Return(c)
      PROVE  BreakerInv'
  BY <1>1, <1>5, QuietKeeps
<1>6. CASE Tick
  BY <1>1, <1>6, TickKeeps
<1>7. CASE UNCHANGED vars
  <2>1. ToldHeedsInv'
    BY <1>7 DEF BreakerInv, ToldHeedsInv, vars, Idle
  <2> QED
    BY <1>1, <1>7, <2>1, CountersKept DEF BreakerInv, vars
<1> QED
  BY <1>2, <1>3, <1>4, <1>5, <1>6, <1>7 DEF Next

\* The inductive invariant of EsiBreaker.
THEOREM BreakerInvariant == Spec => []BreakerInv
  BY InitBreakerInv, BreakerInvStep, PTL DEF Spec

\* A thread that ESI told of a spent limiter stays out of ESI until the breaker closes.
THEOREM OneOvershoot == Spec => []OneOvershootEach
<1>1. BreakerInv => OneOvershootEach
  BY DEF BreakerInv, ToldHeedsInv, OneOvershootEach, Idle, Outcomes
<1> QED
  BY <1>1, BreakerInvariant, PTL

\* While a limiter is spent the breaker is open, about to open, or excused by a lost answer
\* or by a block that was too short.
THEOREM SpentKnown == Spec => []SpentIsKnown
<1>1. BreakerInv => SpentIsKnown
  <2> SUFFICES ASSUME BreakerInv, NEW l \in Limiters, LimiterSpent(l),
                      ~(lost[l] > 0), ~(early[l] > 0), ~(block > 0)
               PROVE  \E c \in told[l] : pc[c] = "answered" /\ SaysSpent(answer[c], l)
    BY DEF SpentIsKnown
  <2>1. told[l] # {}
    BY DEF BreakerInv, ToldSpentInv
  <2> QED
    BY <2>1 DEF BreakerInv, ToldHeedsInv
<1> QED
  BY <1>1, BreakerInvariant, PTL

\* The margin of BUDGET_TRIP keeps ESI's budget from running out whenever it covers one
\* answer per thread, again for each early expiry, and the lost answers.
THEOREM MarginHolds == Spec => []NeverExhausted
<1>1. BreakerInv => NeverExhausted
  <2> SUFFICES ASSUME BreakerInv, NEW l \in Limiters, 10 * OvershootCost(l) <= Limit[l]
               PROVE  used[l] < Limit[l]
    BY DEF NeverExhausted
  <2> DEFINE all == Cardinality(Callers) * (1 + early[l]) + lost[l]
  <2>1. told[l] \in SUBSET Callers /\ early[l] \in Nat /\ lost[l] \in Nat /\ used[l] \in Nat
    BY DEF BreakerInv, TypeOK
  <2>2. /\ Cardinality(told[l]) \in Nat /\ Cardinality(Callers) \in Nat
        /\ Cardinality(told[l]) <= Cardinality(Callers)
        /\ Cardinality(Callers) * early[l] \in Nat
    BY <2>1, OvershootTyped
  <2>3. Cardinality(Callers) * (1 + early[l]) = Cardinality(Callers) * early[l] + Cardinality(Callers)
    BY <2>1, <2>2, ProductGrows, SMT
  <2>4. Overshoot(l) \in Nat /\ all \in Nat /\ Overshoot(l) <= all
    BY <2>1, <2>2, <2>3, SMT DEF Overshoot
  <2>5. MaxCost[l] \in Nat /\ Limit[l] \in Nat
    BY LimitsAssumption
  <2>6. MaxCost[l] * Overshoot(l) <= MaxCost[l] * all
    BY <2>4, <2>5, ProductGrows
  <2>7. MaxCost[l] * Overshoot(l) \in Nat /\ MaxCost[l] * all \in Nat
    BY <2>4, <2>5, ProductGrows
  <2>8. 10 * (MaxCost[l] * all) <= Limit[l]
    BY DEF OvershootCost
  <2>9. 10 * used[l] < 9 * Limit[l] + 10 * (MaxCost[l] * Overshoot(l))
    BY DEF BreakerInv, BudgetInv
  <2> HIDE DEF all
  <2> QED
    BY <2>1, <2>5, <2>6, <2>7, <2>8, <2>9, SMT
<1> QED
  BY <1>1, BreakerInvariant, PTL
=============================================================================
