--------------------------- MODULE MCBreakerTrips ---------------------------
(* BreakerTrips on the small instances of MCEsiBreaker. *)
EXTENDS BreakerTrips, MCEsiBreaker
=============================================================================
