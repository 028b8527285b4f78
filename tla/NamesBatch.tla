----------------------------- MODULE NamesBatch -----------------------------
(***************************************************************************)
(* names() and _resolve_names_batch of src/intel/esi.py: one call of       *)
(* names() after another, against a cache that outlives each of them and   *)
(* that calls on other threads and workers fill at the same time.  The     *)
(* recursion is the stack of batches it still has to ask for; the call     *)
(* fails as a whole when a request raises.                                 *)
(*                                                                         *)
(* ESI (external) answers POST /universe/names/ with every name, or with   *)
(* a 4xx for the whole batch when it does not know one of the ids.         *)
(***************************************************************************)
EXTENDS Integers, Sequences, FiniteSets, Functions

CONSTANTS
  Ids,      \* the ids the caller wants named
  BulkMax,  \* _BULK_MAX
  Flaky     \* whether ESI may answer 4xx to a batch of ids it knows

ASSUME IdsAssumption == IsFiniteSet(Ids)
ASSUME BulkMaxAssumption == BulkMax \in Nat \ {0}
ASSUME FlakyAssumption == Flaky \in BOOLEAN

VARIABLES
  live,     \* ESI: the ids it can name
  cache,    \* Redis, esi:name:<id>: "none", "name" or "miss"
  phase,    \* "idle", "running", or how the last call ended: "done", "raised"
  missing,  \* the ids this call did not find in the cache, in the caller's order
  next,     \* the position in missing where the next chunk starts
  stack,    \* the batches <<first, last>> still to ask for, as positions in missing
  out,      \* the ids named so far
  refused,  \* history: the ids this call was refused one at a time
  skipped,  \* history: the ids this call found cached as misses
  calls,    \* history: the requests of this call
  expired   \* history: the ids whose entries expired after this call had found or learned them

vars == <<live, cache, phase, missing, next, stack, out, refused, skipped, calls, expired>>

Entries == {"none", "name", "miss"}
Phases == {"idle", "running", "done", "raised"}
Batch(b) == {missing[k] : k \in b[1] .. b[2]}
Cached(entry) == {i \in Ids : cache[i] = entry}
\* What the call knows, from the cache or from ESI.
Kept == out \cup refused \cup skipped

Init ==
  /\ live \in SUBSET Ids
  /\ cache = [i \in Ids |-> "none"]
  /\ phase = "idle"
  /\ missing = <<>>
  /\ next = 1
  /\ stack = <<>>
  /\ out = {}
  /\ refused = {}
  /\ skipped = {}
  /\ calls = 0
  /\ expired = {}

\* names(): the hits are answered from the cache, a known miss is not asked for again.
Begin ==
  /\ phase # "running"
  /\ phase' = "running"
  /\ missing' \in Bijection(1 .. Cardinality(Cached("none")), Cached("none"))
  /\ next' = 1
  /\ stack' = <<>>
  /\ out' = Cached("name")
  /\ refused' = {}
  /\ skipped' = Cached("miss")
  /\ calls' = 0
  /\ expired' = {}
  /\ UNCHANGED <<live, cache>>

\* Mutant: one id at a time.
ChunkEndAlone == next

\* _chunks: the last chunk is what is left.
ChunkEnd == IF next + BulkMax - 1 <= Len(missing) THEN next + BulkMax - 1 ELSE Len(missing)

\* The loop over _chunks(missing, _BULK_MAX).
NextChunk ==
  /\ phase = "running"
  /\ stack = <<>>
  /\ next <= Len(missing)
  /\ stack' = << <<next, ChunkEnd>> >>
  /\ next' = ChunkEnd + 1
  /\ UNCHANGED <<live, cache, phase, missing, out, refused, skipped, calls, expired>>

Finish ==
  /\ phase = "running"
  /\ stack = <<>>
  /\ next > Len(missing)
  /\ phase' = "done"
  /\ UNCHANGED <<live, cache, missing, next, stack, out, refused, skipped, calls, expired>>

\* Mutant: the names are cached once the whole call is done, which a call that raises is not.
NamedUncached ==
  /\ phase = "running"
  /\ stack # <<>>
  /\ Batch(Head(stack)) \subseteq live
  /\ out' = out \cup Batch(Head(stack))
  /\ stack' = Tail(stack)
  /\ calls' = calls + 1
  /\ UNCHANGED <<live, cache, phase, missing, next, refused, skipped, expired>>

\* _request returned the names of the batch on top.
Named ==
  /\ phase = "running"
  /\ stack # <<>>
  /\ Batch(Head(stack)) \subseteq live
  /\ out' = out \cup Batch(Head(stack))
  /\ cache' = [i \in Ids |-> IF i \in Batch(Head(stack)) THEN "name" ELSE cache[i]]
  /\ stack' = Tail(stack)
  /\ calls' = calls + 1
  /\ UNCHANGED <<live, phase, missing, next, refused, skipped, expired>>

MayRefuse(b) == Flaky \/ ~(Batch(b) \subseteq live)

\* Mutant: ids[mid + 1:] for the right half.
HalvesSkipping(b) ==
  LET mid == (b[2] - b[1] + 1) \div 2
  IN << <<b[1], b[1] + mid - 1>>, <<b[1] + mid + 1, b[2]>> >>

\* mid = len(ids) // 2: the left half is ids[:mid].
Halves(b) ==
  LET mid == (b[2] - b[1] + 1) \div 2
  IN << <<b[1], b[1] + mid - 1>>, <<b[1] + mid, b[2]>> >>

\* Mutant: the first id is blamed for a refused batch of any size.
RefuseFirst ==
  /\ phase = "running"
  /\ stack # <<>>
  /\ LET b == Head(stack) IN
     /\ MayRefuse(b)
     /\ cache' = [cache EXCEPT ![missing[b[1]]] = "miss"]
     /\ refused' = refused \cup Batch(b)
  /\ stack' = Tail(stack)
  /\ calls' = calls + 1
  /\ UNCHANGED <<live, phase, missing, next, out, skipped, expired>>

\* _request returned None for a single id: the id is the dead one.
RefuseOne ==
  /\ phase = "running"
  /\ stack # <<>>
  /\ LET b == Head(stack) IN
     /\ b[1] = b[2]
     /\ MayRefuse(b)
     /\ cache' = [cache EXCEPT ![missing[b[1]]] = "miss"]
     /\ refused' = refused \cup Batch(b)
  /\ stack' = Tail(stack)
  /\ calls' = calls + 1
  /\ UNCHANGED <<live, phase, missing, next, out, skipped, expired>>

\* Mutant: a single id is split again.
SplitSingle ==
  /\ phase = "running"
  /\ stack # <<>>
  /\ MayRefuse(Head(stack))
  /\ stack' = Halves(Head(stack)) \o Tail(stack)
  /\ calls' = calls + 1
  /\ UNCHANGED <<live, cache, phase, missing, next, out, refused, skipped, expired>>

\* _request returned None for a batch: its halves are asked for, left one first.
Split ==
  /\ phase = "running"
  /\ stack # <<>>
  /\ LET b == Head(stack) IN
     /\ b[1] < b[2]
     /\ MayRefuse(b)
     /\ stack' = Halves(b) \o Tail(stack)
  /\ calls' = calls + 1
  /\ UNCHANGED <<live, cache, phase, missing, next, out, refused, skipped, expired>>

\* Mutant: a batch whose request raised goes to the end of the queue.
RaiseRequeues ==
  /\ phase = "running"
  /\ stack # <<>>
  /\ stack' = Append(Tail(stack), Head(stack))
  /\ UNCHANGED <<live, cache, phase, missing, next, out, refused, skipped, calls, expired>>

\* _request raised: the call is given up, what it has cached stays.
Raise ==
  /\ phase = "running"
  /\ stack # <<>>
  /\ phase' = "raised"
  /\ stack' = <<>>
  /\ calls' = calls + 1
  /\ UNCHANGED <<live, cache, missing, next, out, refused, skipped, expired>>

\* Redis drops an entry when its TTL is over.
Expire(i) ==
  /\ cache[i] # "none"
  /\ cache' = [cache EXCEPT ![i] = "none"]
  /\ expired' = expired \cup ({i} \cap Kept)
  /\ UNCHANGED <<live, phase, missing, next, stack, out, refused, skipped, calls>>

\* A call of names() on another thread or worker writes the entry of an id: a name ESI gave
\* it, or a miss ESI refused it.  It read the cache when it began, so it may well write
\* over an entry, and this call's missing ids may be filled before their request is sent.
OtherFills(i) ==
  /\ \/ i \in live /\ cache' = [cache EXCEPT ![i] = "name"]
     \/ (Flaky \/ i \notin live) /\ cache' = [cache EXCEPT ![i] = "miss"]
  /\ UNCHANGED <<live, phase, missing, next, stack, out, refused, skipped, calls, expired>>

Advance == NextChunk \/ Finish \/ Named \/ RefuseOne \/ Split \/ Raise

Next == Begin \/ Advance \/ \E i \in Ids : Expire(i) \/ OtherFills(i)

Spec == Init /\ [][Next]_vars

\* A call runs on: its thread is scheduled and each request ends (httpx has a timeout).
FairSpec == Spec /\ WF_vars(Advance)

-----------------------------------------------------------------------------
\* Every variable stays in its type; the stack holds batches of missing.
TypeOK ==
  /\ live \subseteq Ids
  /\ cache \in [Ids -> Entries]
  /\ phase \in Phases
  /\ missing \in Seq(Ids)
  /\ next \in 1 .. Len(missing) + 1
  /\ stack \in Seq((1 .. Len(missing)) \X (1 .. Len(missing)))
  /\ out \subseteq Ids
  /\ refused \subseteq Ids
  /\ skipped \subseteq Ids
  /\ calls \in Nat
  /\ expired \subseteq Ids

\* One dead id cannot sink the batch: a call that ends leaves no id without an answer, and
\* no id with two.
EveryIdAnswered ==
  /\ phase = "done" => Ids = out \cup refused \cup skipped
  /\ refused \cap (out \cup skipped) = {}

\* Only an id ESI does not know is cached as a miss.
OnlyDeadMissed == ~Flaky => Cached("miss") \cap live = {}

\* What a call knows is in the cache for the calls after it until it expires, also when
\* this one raises half way.
NothingLost == \A i \in Kept \ expired : cache[i] # "none"

\* What a call knows it neither loses nor asks for again.  An id that another call fills
\* after this one has read the cache (esi.py:185) is asked for all the same, once.
NeverReasked ==
  /\ NothingLost
  /\ \A k \in DOMAIN stack : Batch(stack[k]) \cap Kept = {}

\* Whatever ESI refuses, a call costs less than two requests an id.
CallBudget == missing # <<>> => calls < 2 * Len(missing)

\* The least d with 2^d >= n: how often a batch of n can be halved.
Depth[n \in Nat] == IF n <= 1 THEN 0 ELSE 1 + Depth[(n + 1) \div 2]

\* A dead id costs two requests for each halving, next to the one for each chunk.
DeadIdCost ==
  LET dead == {k \in 1 .. Len(missing) : missing[k] \notin live}
      chunks == (Len(missing) + BulkMax - 1) \div BulkMax
  IN ~Flaky => calls <= chunks + 2 * Cardinality(dead) * Depth[BulkMax]

\* Why these hold: what the inductive invariant says next to the properties above.
\* The batches of a stack are non-empty, in order, next to each other and end below nx.
Chain(s, nx) ==
  /\ \A k \in 1 .. Len(s) : s[k][1] <= s[k][2] /\ s[k][2] < nx
  /\ \A j, k \in 1 .. Len(s) : j < k => s[j][2] + (k - j) <= s[k][1]
  /\ \A k \in 1 .. Len(s) : k < Len(s) => s[k + 1][1] = s[k][2] + 1
  /\ s # <<>> => s[Len(s)][2] + 1 = nx

\* The position in missing of the first id still to ask for.
Start(s, nx) == IF s = <<>> THEN nx ELSE s[1][1]
First == Start(stack, next)

StackInv ==
  /\ phase # "running" => stack = <<>>
  /\ Chain(stack, next)

AnsweredInv ==
  /\ \A j, k \in 1 .. Len(missing) : missing[j] = missing[k] => j = k
  /\ phase \in {"running", "done"} =>
       /\ Ids = out \cup skipped \cup {missing[k] : k \in 1 .. Len(missing)}
       /\ \A k \in 1 .. Len(missing) : k < First => missing[k] \in out \cup refused
  /\ phase = "running" =>
       \A k \in 1 .. Len(missing) : First <= k => missing[k] \notin Kept
  /\ phase = "done" => First > Len(missing)
  /\ refused \cap (out \cup skipped) = {}

\* A request is paid for by the positions it answers or by the batch it adds.
CallsInv ==
  /\ phase = "running" => calls + (IF next > 1 THEN 1 ELSE 0) <= 2 * (First - 1) + Len(stack)
  /\ phase # "running" /\ missing # <<>> => calls < 2 * Len(missing)

NamesInv == TypeOK /\ StackInv /\ AnsweredInv /\ NothingLost /\ OnlyDeadMissed /\ CallsInv

\* Every call ends: "Terminates: each recursion halves the batch".
CallEnds == phase = "running" ~> phase # "running"

Lookup == INSTANCE NamesLookup WITH Ids <- Ids, Flaky <- Flaky, live <- live, cache <- cache
LookupSpec == Lookup!Spec
=============================================================================
