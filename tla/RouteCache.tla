----------------------------- MODULE RouteCache -----------------------------
(***************************************************************************)
(* RouteCache (dldsr-core/src/route.rs), one destination at a time: the    *)
(* entries in the order they were inserted, each with its age instead of   *)
(* its expiry time.  Entries are never removed, only passed over once they *)
(* have expired; a clock that is set back brings them back.                *)
(***************************************************************************)
EXTENDS Clock, Sequences

CONSTANT RouteTtl  \* route_cache_ttl_ms, in clock steps

ASSUME RouteAssumption == RouteTtl \in Nat

\* RouteEntry::new_dsr leaves the label path empty.
RouteEntry(dsr_path, dldsr_label_path) ==
  [dsr_path |-> dsr_path, dldsr_label_path |-> dldsr_label_path, age |-> 0]

hop_count(route) ==
  IF route.dsr_path = <<>> THEN Len(route.dldsr_label_path) ELSE Len(route.dsr_path)

Unexpired(route) == route.age <= RouteTtl

\* The Option `shortest` returns, as a set: the first of the unexpired entries
\* with the fewest hops.
shortest(entries) ==
  {entries[i] : i \in {i \in DOMAIN entries :
     /\ Unexpired(entries[i])
     /\ \A j \in DOMAIN entries : Unexpired(entries[j]) =>
          \/ hop_count(entries[i]) < hop_count(entries[j])
          \/ hop_count(entries[i]) = hop_count(entries[j]) /\ i <= j}}

\* One clock step passes, or the clock is set back by one.
AgeRoutes(entries) ==
  [i \in DOMAIN entries |-> [entries[i] EXCEPT !.age = Older(@, RouteTtl + 1)]]
RejuvenateRoutes(entries) ==
  [i \in DOMAIN entries |-> [entries[i] EXCEPT !.age = @ - 1]]
=============================================================================
