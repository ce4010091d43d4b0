---------------------------- MODULE SeenRequests ----------------------------
(***************************************************************************)
(* SeenRequests (dldsr-core/src/route.rs): the requests a node has seen,   *)
(* as a function from keys <<src_node_id, request_id>> to the time since   *)
(* they were seen.  The code stores the time itself; the operations only   *)
(* compare ages and the order of times, so ages say as much.               *)
(***************************************************************************)
EXTENDS Clock, FiniteSets, Functions

CONSTANTS SeenTtl,  \* seen_request_ttl_ms, in clock steps
          SeenMax   \* seen_request_max_entries

ASSUME SeenAssumption == SeenTtl \in Nat /\ SeenMax \in Nat

NothingSeen == [k \in {} |-> 0]

prune(seen) == Restrict(seen, {k \in DOMAIN seen : Elapsed(seen[k]) <= SeenTtl})

\* The order of sort_by_key (seen_at, src_node_id, request_id), in which the
\* first entries are evicted.
EvictedBefore(seen, k, other) ==
  \/ seen[k] > seen[other]
  \/ seen[k] = seen[other] /\ k[1] < other[1]
  \/ seen[k] = seen[other] /\ k[1] = other[1] /\ k[2] < other[2]

enforce_max_entries_off_by_one(seen) ==
  Restrict(seen, {k \in DOMAIN seen :
                    Cardinality({o \in DOMAIN seen : EvictedBefore(seen, k, o)}) <= SeenMax})

\* What remains has fewer than SeenMax entries after it in that order.
enforce_max_entries(seen) ==
  Restrict(seen, {k \in DOMAIN seen :
                    Cardinality({o \in DOMAIN seen : EvictedBefore(seen, k, o)}) < SeenMax})

\* mark_if_new for each of the keys at one instant.  A key that is marked again
\* becomes young again.  Enforcing the bound once, after the last key, leaves
\* the same entries as enforcing it after each.
mark(seen, keys) ==
  LET pruned == prune(seen)
  IN  enforce_max_entries([k \in DOMAIN pruned \cup keys |->
                             IF k \in keys THEN 0 ELSE pruned[k]])

\* The result of mark_if_new.
is_new(seen, key) == key \notin DOMAIN prune(seen)

\* One clock step passes, or the clock is set back by one.
AgeSeen(seen) == [k \in DOMAIN seen |-> Older(seen[k], SeenTtl + 1)]
RejuvenateSeen(seen) == [k \in DOMAIN seen |-> seen[k] - 1]
=============================================================================
