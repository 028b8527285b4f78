---------------------------- MODULE MCScanRequest ----------------------------
(* ScanRequest for one worker with two pilots, or two workers with one. *)
EXTENDS ScanRequest, TLC

CONSTANTS w1, w2, ip, long_ip, no_ip, edge, moe, nobody

OneWorker == {w1}
TwoWorkers == {w1, w2}
\* A header that is no address.
NoAddress == {no_ip}
\* Two spellings of one address.
OneAddress == {ip, long_ip}
MCAddress == [h \in Headers |-> IF h = no_ip THEN Unusable ELSE ip]
OnePilot == {moe}
TwoPilots == {moe, nobody}
ThreeParts == <<"affil", "names", "tickers">>
OnePart == <<"affil">>
WorkerSymmetry == Permutations(Workers)
==============================================================================
