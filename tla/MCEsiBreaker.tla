---------------------------- MODULE MCEsiBreaker ----------------------------
(* EsiBreaker on small instances: two threads, limits of 1 to 20, windows of 1 or 2 ticks. *)
EXTENDS EsiBreaker, TLC

CONSTANTS c1, c2

TwoCallers == {c1, c2}
CallerSymmetry == Permutations(Callers)

AnyLimiter == {{"errors"}, {"bucket", "errors"}}

EachOne(n) == [l \in Limiters |-> n]
\* The bucket has room for the overshoot of two threads, the error limit has not.
Limit201 == [l \in Limiters |-> IF l = "bucket" THEN 20 ELSE 1]
Limit103 == [l \in Limiters |-> IF l = "bucket" THEN 10 ELSE 3]
MaxCost1 == EachOne(1)
MaxCost5 == [l \in Limiters |-> IF l = "bucket" THEN 5 ELSE 1]

\* The error limiter counts every answer but a success.
ErrorCost == [s \in Statuses |-> IF s = "success" THEN 0 ELSE 1]
\* The bucket charges a failed lookup more than a success, and an ESI failure nothing.
TokenCost == [s \in Statuses |->
  CASE s = "success" -> 2 [] s = "client_error" -> 5 [] OTHER -> 0]
EvenTokenCost == [s \in Statuses |-> IF s = "server_error" THEN 0 ELSE 1]
EvenCosts == [l \in Limiters |-> IF l = "bucket" THEN EvenTokenCost ELSE ErrorCost]
BothCosts == [l \in Limiters |-> IF l = "bucket" THEN TokenCost ELSE ErrorCost]

\* The bucket's window is longer than the error limiter's.
Window21 == [l \in Limiters |-> IF l = "bucket" THEN 2 ELSE 1]

NoLimiter == {}
ErrorLimiter == {"errors"}
ExactReset == {0}
Absent == -1
=============================================================================
