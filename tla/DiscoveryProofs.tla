-------------------------- MODULE DiscoveryProofs --------------------------
(***************************************************************************)
(* What keeps floods apart and the caches small: the seen-request cache    *)
(* never outgrows its limit, and request ids identify discoveries, for     *)
(* every topology, every mix of modes and every set of commands.           *)
(***************************************************************************)
EXTENDS ProtocolProofs

\* The entries that stay longer than k.
After(seen, k) == {o \in DOMAIN seen : EvictedBefore(seen, k, o)}

\* The eviction order is a strict total order: it compares the time of sight,
\* then source and request id, which together are the key.
LEMMA EvictionOrder ==
  ASSUME NEW seen, SeenOK(seen), NEW a \in DOMAIN seen, NEW b \in DOMAIN seen
  PROVE  /\ ~EvictedBefore(seen, a, a)
         /\ a # b => EvictedBefore(seen, a, b) \/ EvictedBefore(seen, b, a)
         /\ \A c \in DOMAIN seen :
              EvictedBefore(seen, a, b) /\ EvictedBefore(seen, b, c) => EvictedBefore(seen, a, c)
<1>1. ASSUME NEW k \in DOMAIN seen
      PROVE  seen[k] \in Int /\ k[1] \in Nat /\ k[2] \in Nat /\ k = <<k[1], k[2]>>
  <2>1. k \in Nodes \X Nat /\ seen[k] \in Int
    BY DEF SeenOK
  <2>2. k[1] \in Nodes /\ k[2] \in Nat /\ k = <<k[1], k[2]>>
    BY <2>1
  <2>3. Nodes \subseteq Nat
    BY TopologyAssumption DEF TopologyAssumption
  <2> QED
    BY <2>1, <2>2, <2>3
<1>2. a # b => a[1] # b[1] \/ a[2] # b[2]
  BY <1>1
<1>3. \A x, y, z \in Int : \A p, q, r, u, v, w \in Nat :
        LET Before(s, i, j, t, k, l) == s > t \/ (s = t /\ i < k) \/ (s = t /\ i = k /\ j < l)
        IN  /\ ~Before(x, p, u, x, p, u)
            /\ p # q \/ u # v => Before(x, p, u, y, q, v) \/ Before(y, q, v, x, p, u)
            /\ Before(x, p, u, y, q, v) /\ Before(y, q, v, z, r, w) => Before(x, p, u, z, r, w)
  OBVIOUS
<1> QED
  BY <1>1, <1>2, <1>3 DEF EvictedBefore

\* enforce_max_entries leaves at most SeenMax entries: the number of entries
\* that stay longer tells the remaining ones apart and is less than SeenMax.
LEMMA EnforceBounds ==
  ASSUME NEW seen, SeenOK(seen), IsFiniteSet(DOMAIN seen)
  PROVE  /\ IsFiniteSet(DOMAIN enforce_max_entries(seen))
         /\ Cardinality(DOMAIN enforce_max_entries(seen)) <= SeenMax
<1> DEFINE K == {k \in DOMAIN seen : Cardinality(After(seen, k)) < SeenMax}
           rank == [k \in K |-> Cardinality(After(seen, k))]
<1>1. DOMAIN enforce_max_entries(seen) = K
  BY DEF enforce_max_entries, Restrict, After
<1>2. \A k \in DOMAIN seen : IsFiniteSet(After(seen, k)) /\ Cardinality(After(seen, k)) \in Nat
  BY FS_Subset, FS_CardinalityType DEF After
<1>3. ASSUME NEW a \in DOMAIN seen, NEW b \in DOMAIN seen, EvictedBefore(seen, a, b)
      PROVE  Cardinality(After(seen, b)) < Cardinality(After(seen, a))
  <2>1. After(seen, b) \subseteq After(seen, a)
    BY <1>3, EvictionOrder DEF After
  <2>2. b \in After(seen, a) /\ b \notin After(seen, b)
    BY <1>3, EvictionOrder DEF After
  <2>3. After(seen, b) # After(seen, a)
    BY <2>2
  <2>4. /\ Cardinality(After(seen, b)) <= Cardinality(After(seen, a))
        /\ Cardinality(After(seen, b)) # Cardinality(After(seen, a))
    BY <1>2, <2>1, <2>3, FS_Subset
  <2> QED
    BY <1>2, <2>4
<1>4. SeenMax \in Nat
  BY SeenAssumption DEF SeenAssumption
<1>5. rank \in Injection(K, 0..(SeenMax - 1))
  <2>1. rank \in [K -> 0..(SeenMax - 1)]
    BY <1>2, <1>4
  <2>2. ASSUME NEW a \in K, NEW b \in K, rank[a] = rank[b] PROVE a = b
    <3>1. Cardinality(After(seen, a)) = Cardinality(After(seen, b))
      BY <2>2
    <3>2. Cardinality(After(seen, a)) \in Nat /\ Cardinality(After(seen, b)) \in Nat
      BY <1>2
    <3>3. ~EvictedBefore(seen, a, b) /\ ~EvictedBefore(seen, b, a)
      BY <1>3, <3>1, <3>2
    <3> QED
      BY <3>3, EvictionOrder
  <2> HIDE DEF rank, K
  <2> QED
    BY <2>1, <2>2 DEF Injection, IsInjective
<1>6. IsFiniteSet(0..(SeenMax - 1)) /\ Cardinality(0..(SeenMax - 1)) = SeenMax
  BY <1>4, FS_Interval
<1> HIDE DEF rank, K
<1>7. IsFiniteSet(K) /\ Cardinality(K) <= Cardinality(0..(SeenMax - 1))
  BY <1>5, <1>6, FS_Injection
<1> QED
  BY <1>1, <1>6, <1>7

\* What SeenBounded says of one cache, with what makes it count.
SeenSmall(seen) == IsFiniteSet(DOMAIN seen) /\ Cardinality(DOMAIN seen) <= SeenMax

\* mark_if_new keeps the bound, for any number of keys at once.
LEMMA MarkBounds ==
  ASSUME NEW seen, SeenOK(seen), IsFiniteSet(DOMAIN seen),
         NEW keys \in SUBSET (Nodes \X Nat), IsFiniteSet(keys)
  PROVE  SeenSmall(mark(seen, keys))
<1> DEFINE pruned == prune(seen)
           marked == [k \in DOMAIN pruned \cup keys |-> IF k \in keys THEN 0 ELSE pruned[k]]
<1>1. SeenOK(pruned) /\ DOMAIN pruned \subseteq DOMAIN seen
  BY DEF SeenOK, prune, Restrict
<1>2. SeenOK(marked)
  BY <1>1 DEF SeenOK
<1>3. IsFiniteSet(DOMAIN pruned \cup keys)
  BY <1>1, FS_Subset, FS_Union
<1>4. IsFiniteSet(DOMAIN marked)
  BY <1>3
<1> HIDE DEF marked
<1>5. SeenSmall(enforce_max_entries(marked))
  BY <1>2, <1>4, EnforceBounds DEF SeenSmall
<1> QED
  BY <1>5 DEF mark, marked

\* The keys of the requests that start together.
LEMMA StartKeys ==
  ASSUME NEW n \in Nodes, NEW D \in SUBSET NodeIds, NEW ids \in [D -> Nat]
  PROVE  LET keys == {<<n, ids[d]>> : d \in DOMAIN ids}
         IN  keys \in SUBSET (Nodes \X Nat) /\ IsFiniteSet(keys)
<1> DEFINE keys == {<<n, ids[d]>> : d \in D}
           key == [d \in D |-> <<n, ids[d]>>]
<1>1. keys \in SUBSET (Nodes \X Nat)
  OBVIOUS
<1>2. key \in Surjection(D, keys)
  BY DEF Surjection
<1>3. IsFiniteSet(D)
  BY FS_Subset, TopologyAssumption DEF TopologyAssumption
<1> HIDE DEF key
<1>4. IsFiniteSet(keys)
  BY <1>2, <1>3, FS_Surjection
<1> QED
  BY <1>1, <1>4

\* The timer starts discoveries with new ids, the next ones in some order.
LEMMA TickStarts ==
  ASSUME TypeOK, NEW n \in Nodes, Tick(n)
  PROVE  \E D \in SUBSET NodeIds : \E ids \in [D -> Nat] :
           /\ \E retries, kept, failures : start_discoveries(n, ids, retries, kept, failures)
           /\ \A d \in D : /\ next_request_id[n] <= ids[d]
                           /\ ids[d] < next_request_id[n] + Cardinality(D)
           /\ \A d, e \in D : ids[d] = ids[e] => d = e
<1> DEFINE expired == {d \in DOMAIN discoveries[n] : Elapsed(discoveries[n][d].age) >= DiscoveryTimeout}
           failed  == {d \in expired : Exhausted(discoveries[n][d])}
           retried == expired \ failed
           retries == [d \in retried |-> discoveries[n][d].retries_done + 1]
           next    == next_request_id[n]
<1>1. retried \in SUBSET NodeIds /\ next \in Nat
  BY DEF TypeOK
<1>2. PICK ids \in Injection(retried, next..(next + Cardinality(retried) - 1)) :
        start_discoveries(n, ids, retries, DOMAIN discoveries[n] \ expired, Cardinality(failed))
  BY DEF Tick
<1> HIDE DEF expired, failed, retried, retries, next
<1>3. Cardinality(retried) \in Nat
  BY <1>1, FS_Subset, FS_CardinalityType, TopologyAssumption DEF TopologyAssumption
<1>4. /\ ids \in [retried -> next..(next + Cardinality(retried) - 1)]
      /\ \A d, e \in retried : ids[d] = ids[e] => d = e
  BY <1>2 DEF Injection, IsInjective
<1>5. ids \in [retried -> Nat]
  BY <1>1, <1>3, <1>4
<1>6. \A d \in retried : next <= ids[d] /\ ids[d] < next + Cardinality(retried)
  BY <1>1, <1>3, <1>4
<1> QED
  BY <1>1, <1>2, <1>4, <1>5, <1>6 DEF next

\* Only start_discovery and handle_rreq mark; the clock changes times, a restart
\* empties the cache.
LEMMA SeenChange ==
  ASSUME TypeOK, [Next]_vars, NEW n \in Nodes
  PROVE  \/ DOMAIN seen_requests'[n] \in {DOMAIN seen_requests[n], {}}
         \/ \E keys \in SUBSET (Nodes \X Nat) :
              IsFiniteSet(keys) /\ seen_requests'[n] = mark(seen_requests[n], keys)
<1> DEFINE Change == \/ DOMAIN seen_requests'[n] \in {DOMAIN seen_requests[n], {}}
                     \/ \E keys \in SUBSET (Nodes \X Nat) :
                          IsFiniteSet(keys) /\ seen_requests'[n] = mark(seen_requests[n], keys)
<1>0. DOMAIN seen_requests = Nodes /\ NodeTypeOK
  BY TypeOKParts DEF TypeOK
<1>1. ASSUME UNCHANGED seen_requests PROVE Change
  BY <1>1
<1>2. ASSUME NEW x \in Nodes, NEW D \in SUBSET NodeIds, NEW ids \in [D -> Nat],
             NEW retries, NEW kept, NEW failures, start_discoveries(x, ids, retries, kept, failures)
      PROVE  Change
  <2> DEFINE keys == {<<x, ids[d]>> : d \in DOMAIN ids}
  <2>1. seen_requests' = [seen_requests EXCEPT ![x] = mark(seen_requests[x], keys)]
    BY <1>2 DEF start_discoveries
  <2>2. keys \in SUBSET (Nodes \X Nat) /\ IsFiniteSet(keys)
    BY <1>2, StartKeys
  <2> HIDE DEF keys
  <2>3. CASE x = n
    BY <1>0, <2>1, <2>2, <2>3
  <2>4. CASE x # n
    BY <1>0, <2>1, <2>4
  <2> QED
    BY <2>3, <2>4
<1>3. ASSUME NEW m \in rreqs, handle_rreq(m) PROVE Change
  <2>1. CASE MarkRreq(m)
    <3>1. seen_requests' = [seen_requests EXCEPT ![m.to] = mark(seen_requests[m.to], {RreqKey(m)})]
      BY <2>1 DEF MarkRreq
    <3>2. {RreqKey(m)} \in SUBSET (Nodes \X Nat)
      <4>1. m \in Rreq
        BY DEF TypeOK
      <4> QED
        BY <4>1 DEF Rreq, RreqKey
    <3>3. IsFiniteSet({RreqKey(m)})
      BY FS_Singleton
    <3> QED
      BY <1>0, <3>1, <3>2, <3>3
  <2>2. CASE UNCHANGED seen_requests
    BY <1>1, <2>2
  <2> QED
    BY <1>3, <2>1, <2>2 DEF handle_rreq, RefuseRreq, DropRreq, AnswerRreq, ForwardRreq
<1>4. ASSUME NEW x \in Nodes, Elapse(x) \/ SetBack(x) PROVE Change
  BY <1>0, <1>4 DEF Elapse, SetBack, AgeSeen, RejuvenateSeen
<1>5. ASSUME NEW x \in Nodes, Restart(x) PROVE Change
  BY <1>0, <1>5 DEF Restart, RestartProtocol, NothingSeen
<1>6. ASSUME NEW m \in rreps, handle_rrep(m) PROVE UNCHANGED seen_requests
  BY <1>6 DEF handle_rrep, RejectRrep, CacheRoute, ForwardRrep, nodeVars
<1>7. ASSUME NEW m \in datas, handle_data(m) PROVE UNCHANGED seen_requests
  BY <1>7 DEF handle_data, DeliverData, ForwardData, drop_data, nodeVars
<1>8. LabelStep \/ UNCHANGED vars => UNCHANGED seen_requests
  BY DEF LabelStep, vars, nodeVars
<1> SUFFICES Change
  OBVIOUS
<1> HIDE DEF Change
<1>9. ASSUME NEW p \in Payloads, QueuePayload(p) PROVE Change
  <2>1. Src[p] \in Nodes /\ Dst[p] \in NodeIds
    BY ProtocolAssumption DEF ProtocolAssumption
  <2>2. CASE UNCHANGED seen_requests
    BY <1>1, <2>2
  <2>3. CASE start_discoveries(Src[p], [x \in {Dst[p]} |-> next_request_id[Src[p]]],
                               [x \in {Dst[p]} |-> 0], DOMAIN discoveries[Src[p]], 0)
    <3>1. /\ {Dst[p]} \in SUBSET NodeIds
          /\ [x \in {Dst[p]} |-> next_request_id[Src[p]]] \in [{Dst[p]} -> Nat]
      BY <1>0, <2>1 DEF NodeTypeOK
    <3> QED
      BY <1>2, <2>1, <2>3, <3>1
  <2> QED
    BY <1>9, <2>2, <2>3 DEF QueuePayload
<1>10. ASSUME NEW x \in Nodes, Tick(x) PROVE Change
  <2>1. PICK D \in SUBSET NodeIds : \E ids \in [D -> Nat] : \E retries, kept, failures :
          start_discoveries(x, ids, retries, kept, failures)
    BY <1>10, TickStarts
  <2> QED
    BY <1>2, <2>1
<1>11. ASSUME NEW p \in Payloads, SendOnCachedRoute(p) PROVE UNCHANGED seen_requests
  BY <1>11 DEF SendOnCachedRoute
<1>12. CASE PacketStep
  BY <1>1, <1>3, <1>6, <1>7, <1>9, <1>11, <1>12 DEF PacketStep
<1>13. CASE TimerStep
  BY <1>4, <1>10, <1>13 DEF TimerStep
<1> QED
  BY <1>1, <1>5, <1>8, <1>12, <1>13 DEF Next

\* However many requests a node floods, retries or passes on, and whatever its
\* clock does, its seen-request cache holds seen_request_max_entries entries
\* at most: which ones are evicted is decided by a total order.
THEOREM SeenBoundedTheorem == Spec => []SeenBounded
<1> DEFINE Small == \A n \in Nodes : SeenSmall(seen_requests[n])
<1>1. Init => Small
  BY FS_EmptySet, SeenAssumption DEF SeenAssumption, Init, NothingSeen, SeenSmall
<1>2. TypeOK /\ Small /\ [Next]_vars => Small'
  <2> SUFFICES ASSUME TypeOK, Small, [Next]_vars, NEW n \in Nodes
               PROVE  SeenSmall(seen_requests'[n])
    OBVIOUS
  <2>1. SeenSmall(seen_requests[n]) /\ SeenOK(seen_requests[n])
    BY DEF TypeOK, SeenOK
  <2>2. CASE DOMAIN seen_requests'[n] \in {DOMAIN seen_requests[n], {}}
    BY <2>1, <2>2, FS_EmptySet, SeenAssumption DEF SeenAssumption, SeenSmall
  <2>3. ASSUME NEW keys \in SUBSET (Nodes \X Nat), IsFiniteSet(keys),
               seen_requests'[n] = mark(seen_requests[n], keys)
        PROVE  SeenSmall(seen_requests'[n])
    BY <2>1, <2>3, MarkBounds DEF SeenSmall
  <2> QED
    BY <2>2, <2>3, SeenChange
<1>3. Small => SeenBounded
  BY DEF SeenSmall, SeenBounded
<1> HIDE DEF Small
<1> QED
  BY <1>1, <1>2, <1>3, TypeCorrect, PTL DEF Spec
-----------------------------------------------------------------------------
(***************************************************************************)
(* Request ids                                                             *)
(***************************************************************************)
SameRequest(a, b) ==
  a.src_node_id = b.src_node_id /\ a.dst_node_id = b.dst_node_id /\ a.request_id = b.request_id

\* Packet a continues the flood of a packet in flight.
Continues(a) == \E b \in rreqs \cup rreps : SameRequest(a, b)

\* A step that starts no discovery.
Inherits ==
  /\ \A a \in rreqs' \cup rreps' : Continues(a)
  /\ \A n \in Nodes : restarts'[n] = 0 => next_request_id'[n] = next_request_id[n]

\* A step in which n starts discoveries for D.
Starts(n, D, ids) ==
  /\ \A a \in rreqs' \cup rreps' :
       \/ Continues(a)
       \/ a.src_node_id = n /\ \E d \in D : a.dst_node_id = d /\ a.request_id = ids[d]
  /\ \A d \in D : /\ next_request_id[n] <= ids[d]
                  /\ ids[d] < next_request_id'[n]
  /\ \A d, e \in D : ids[d] = ids[e] => d = e
  /\ next_request_id[n] <= next_request_id'[n]
  /\ \A x \in Nodes \ {n} : next_request_id'[x] = next_request_id[x]

\* The packets of start_discovery.
LEMMA StartIds ==
  ASSUME TypeOK, NEW n \in Nodes, NEW D \in SUBSET NodeIds, NEW ids \in [D -> Nat],
         NEW retries, NEW kept, NEW failures, start_discoveries(n, ids, retries, kept, failures),
         rreps' = rreps,
         \A d \in D : next_request_id[n] <= ids[d] /\ ids[d] < next_request_id[n] + Cardinality(D),
         \A d, e \in D : ids[d] = ids[e] => d = e
  PROVE  Starts(n, D, ids)
<1>1. DOMAIN ids = D /\ Cardinality(D) \in Nat
  BY FS_Subset, FS_CardinalityType, TopologyAssumption DEF TopologyAssumption
<1>2. next_request_id' = [next_request_id EXCEPT ![n] = next_request_id[n] + Cardinality(D)]
  BY <1>1 DEF start_discoveries, TakeIds
<1>3. next_request_id \in [Nodes -> Nat]
  BY DEF TypeOK
<1>4. ASSUME NEW a \in rreqs' \cup rreps', a \notin rreqs \cup rreps
      PROVE  a.src_node_id = n /\ \E d \in D : a.dst_node_id = d /\ a.request_id = ids[d]
  <2>1. rreqs' = rreqs \cup UNION {Requests(n, d, ids[d]) : d \in D}
    BY <1>1 DEF start_discoveries
  <2>2. PICK d \in D : a \in Requests(n, d, ids[d])
    BY <1>4, <2>1
  <2>3. a.src_node_id = n /\ a.dst_node_id = d /\ a.request_id = ids[d]
    BY <2>2 DEF Requests
  <2> QED
    BY <2>3
<1>5. \A a \in rreqs \cup rreps : Continues(a)
  BY DEF Continues, SameRequest
<1>6. \A d \in D : next_request_id[n] <= ids[d] /\ ids[d] < next_request_id'[n]
  BY <1>2, <1>3
<1>7. /\ next_request_id[n] <= next_request_id'[n]
      /\ \A x \in Nodes \ {n} : next_request_id'[x] = next_request_id[x]
  BY <1>1, <1>2, <1>3
<1> QED
  BY <1>4, <1>5, <1>6, <1>7 DEF Starts

\* Forwarded requests, replies and forwarded replies carry on the source, the
\* destination and the id; only start_discovery takes new ids.
LEMMA RequestChange ==
  ASSUME TypeOK, [Next]_vars
  PROVE  \/ Inherits
         \/ \E n \in Nodes : \E D \in SUBSET NodeIds : \E ids \in [D -> Nat] : Starts(n, D, ids)
<1> DEFINE Started == \E n \in Nodes : \E D \in SUBSET NodeIds : \E ids \in [D -> Nat] : Starts(n, D, ids)
<1>1. \A a \in rreqs \cup rreps : Continues(a)
  BY DEF Continues, SameRequest
<1>2. ASSUME rreqs' \subseteq rreqs, rreps' \subseteq rreps, UNCHANGED next_request_id PROVE Inherits
  BY <1>1, <1>2 DEF Inherits
<1>3. ASSUME NEW m \in rreqs, handle_rreq(m) PROVE Inherits
  <2>1. next_request_id' = next_request_id
    BY <1>3 DEF handle_rreq, RefuseRreq, DropRreq, AnswerRreq, ForwardRreq, RreqFrame
  <2>2. ASSUME NEW a \in rreqs', a \notin rreqs PROVE Continues(a)
    <3>1. PICK to : a = ForwardedRreq(m, to)
      BY <1>3, <2>2 DEF handle_rreq, RefuseRreq, DropRreq, AnswerRreq, ForwardRreq, Receive
    <3>2. SameRequest(a, m)
      BY <3>1 DEF ForwardedRreq, SameRequest
    <3> QED
      BY <3>2 DEF Continues
  <2>3. ASSUME NEW a \in rreps', a \notin rreps PROVE Continues(a)
    <3>1. PICK to : a = Reply(m, to)
      BY <1>3, <2>3 DEF handle_rreq, RefuseRreq, DropRreq, AnswerRreq, ForwardRreq
    <3>2. SameRequest(a, m)
      BY <3>1 DEF Reply, SameRequest
    <3> QED
      BY <3>2 DEF Continues
  <2> QED
    BY <1>1, <2>1, <2>2, <2>3 DEF Inherits
<1>4. ASSUME NEW m \in rreps, handle_rrep(m) PROVE Inherits
  <2>1. next_request_id' = next_request_id /\ rreqs' = rreqs
    BY <1>4 DEF handle_rrep, RejectRrep, CacheRoute, ForwardRrep, nodeVars
  <2>2. ASSUME NEW a \in rreps', a \notin rreps PROVE Continues(a)
    <3>1. PICK to : a = ForwardedRrep(m, to)
      BY <1>4, <2>2 DEF handle_rrep, RejectRrep, CacheRoute, ForwardRrep, Receive
    <3>2. SameRequest(a, m)
      BY <3>1 DEF ForwardedRrep, SameRequest
    <3> QED
      BY <3>2 DEF Continues
  <2> QED
    BY <1>1, <2>1, <2>2 DEF Inherits
<1>5. ASSUME NEW m \in datas, handle_data(m) PROVE Inherits
  BY <1>2, <1>5 DEF handle_data, DeliverData, ForwardData, drop_data, nodeVars
<1>6. ASSUME NEW p \in Payloads, SendOnCachedRoute(p) PROVE Inherits
  BY <1>2, <1>6 DEF SendOnCachedRoute
<1>7. LabelStep \/ UNCHANGED vars => Inherits
  BY <1>2 DEF LabelStep, vars, nodeVars
<1>8. ASSUME NEW n \in Nodes, Elapse(n) \/ SetBack(n) PROVE Inherits
  BY <1>2, <1>8 DEF Elapse, SetBack, ClockFrame
<1>9. ASSUME NEW n \in Nodes, Restart(n) PROVE Inherits
  <2>1. rreqs' = rreqs /\ rreps' = rreps
    BY <1>9 DEF Restart, RestartProtocol
  <2>2. next_request_id' = [next_request_id EXCEPT ![n] = 1]
    BY <1>9 DEF Restart, RestartProtocol
  <2>3. restarts' [n] # 0
    BY <1>9, RestartsGrow
  <2> QED
    BY <1>1, <2>1, <2>2, <2>3 DEF Inherits, TypeOK
<1>10. ASSUME NEW n \in Nodes, Tick(n) PROVE Started
  <2>1. PICK D \in SUBSET NodeIds : \E ids \in [D -> Nat] :
           /\ \E retries, kept, failures : start_discoveries(n, ids, retries, kept, failures)
           /\ \A d \in D : /\ next_request_id[n] <= ids[d]
                           /\ ids[d] < next_request_id[n] + Cardinality(D)
           /\ \A d, e \in D : ids[d] = ids[e] => d = e
    BY <1>10, TickStarts
  <2>2. PICK ids \in [D -> Nat] :
           /\ \E retries, kept, failures : start_discoveries(n, ids, retries, kept, failures)
           /\ \A d \in D : /\ next_request_id[n] <= ids[d]
                           /\ ids[d] < next_request_id[n] + Cardinality(D)
           /\ \A d, e \in D : ids[d] = ids[e] => d = e
    BY <2>1
  <2>3. rreps' = rreps
    BY <1>10 DEF Tick
  <2>4. PICK retries, kept, failures : start_discoveries(n, ids, retries, kept, failures)
    BY <2>2
  <2>5. Starts(n, D, ids)
    BY <2>2, <2>3, <2>4, StartIds
  <2> QED
    BY <2>5
<1>11. ASSUME NEW p \in Payloads, QueuePayload(p) PROVE Inherits \/ Started
  <2> DEFINE n == Src[p]
             d == Dst[p]
             ids == [x \in {d} |-> next_request_id[n]]
  <2>1. n \in Nodes /\ {d} \in SUBSET NodeIds /\ next_request_id[n] \in Nat
    BY ProtocolAssumption DEF ProtocolAssumption, TypeOK
  <2>2. rreps' = rreps
    BY <1>11 DEF QueuePayload
  <2>3. CASE UNCHANGED <<next_request_id, seen_requests, discoveries, rreqs, metrics>>
    BY <1>2, <2>2, <2>3
  <2>4. CASE start_discoveries(n, ids, [x \in {d} |-> 0], DOMAIN discoveries[n], 0)
    <3>1. PICK retries, kept, failures : start_discoveries(n, ids, retries, kept, failures)
      BY <2>4
    <3>2. ids \in [{d} -> Nat] /\ Cardinality({d}) = 1
      BY <2>1, FS_Singleton
    <3>3. \A x \in {d} : next_request_id[n] <= ids[x] /\ ids[x] < next_request_id[n] + 1
      BY <2>1
    <3>4. \A x, y \in {d} : ids[x] = ids[y] => x = y
      OBVIOUS
    <3> HIDE DEF n, d, ids
    <3>5. Starts(n, {d}, ids)
      BY <2>1, <2>2, <3>1, <3>2, <3>3, <3>4, StartIds
    <3>6. PICK start \in [{d} -> Nat] : Starts(n, {d}, start)
      BY <3>2, <3>5
    <3> QED
      BY <2>1, <3>6
  <2> QED
    BY <1>11, <2>3, <2>4 DEF QueuePayload
<1> SUFFICES Inherits \/ Started
  OBVIOUS
<1> HIDE DEF Started
<1>12. CASE PacketStep
  BY <1>3, <1>4, <1>5, <1>6, <1>11, <1>12 DEF PacketStep
<1>13. CASE TimerStep
  BY <1>8, <1>10, <1>13 DEF TimerStep
<1> QED
  BY <1>7, <1>9, <1>12, <1>13 DEF Next

Packets == rreqs \cup rreps

\* The ids in flight are ones the source has handed out.
IdsTaken == \A a \in Packets : restarts[a.src_node_id] = 0 => a.request_id < next_request_id[a.src_node_id]

\* One id, one destination, in the words of SameRequest.
IdsIdentify ==
  \A a, b \in Packets :
    a.src_node_id = b.src_node_id /\ a.request_id = b.request_id /\ restarts[a.src_node_id] = 0
      => a.dst_node_id = b.dst_node_id

\* The types the arithmetic on ids needs.
LEMMA PacketIds ==
  ASSUME TypeOK
  PROVE  /\ \A a \in Packets : a.src_node_id \in Nodes /\ a.request_id \in Nat
         /\ \A n \in Nodes : next_request_id[n] \in Nat
BY DEF TypeOK, Packets, Rreq, Rrep

\* A new id is above all ids in flight of a source that did not restart.
LEMMA IdsStep ==
  ASSUME TypeOK, TypeOK', IdsTaken, IdsIdentify, [Next]_vars
  PROVE  IdsTaken' /\ IdsIdentify'
<1>1. /\ \A a \in Packets : a.src_node_id \in Nodes /\ a.request_id \in Nat
      /\ \A n \in Nodes : next_request_id[n] \in Nat
  BY PacketIds
<1>2. /\ \A a \in Packets' : a.src_node_id \in Nodes /\ a.request_id \in Nat
      /\ \A n \in Nodes : next_request_id'[n] \in Nat
  BY DEF TypeOK, Packets, Rreq, Rrep
<1>3. \A n \in Nodes : restarts'[n] = 0 => restarts[n] = 0
  BY RestartsGrow
<1>4. CASE Inherits
  <2>1. \A a \in Packets' : \E b \in Packets : SameRequest(a, b)
    BY <1>4 DEF Inherits, Continues, Packets
  <2>2. ASSUME NEW a \in Packets', restarts'[a.src_node_id] = 0
        PROVE  a.request_id < next_request_id'[a.src_node_id]
    <3>1. PICK b \in Packets : SameRequest(a, b)
      BY <2>1
    <3> QED
      BY <1>2, <1>3, <1>4, <2>2, <3>1 DEF IdsTaken, Inherits, SameRequest
  <2>3. ASSUME NEW a \in Packets', NEW b \in Packets', restarts'[a.src_node_id] = 0,
               a.src_node_id = b.src_node_id, a.request_id = b.request_id
        PROVE  a.dst_node_id = b.dst_node_id
    <3>1. PICK x \in Packets : SameRequest(a, x)
      BY <2>1
    <3>2. PICK y \in Packets : SameRequest(b, y)
      BY <2>1
    <3> QED
      BY <1>2, <1>3, <2>3, <3>1, <3>2 DEF IdsIdentify, SameRequest
  <2> QED
    BY <2>2, <2>3 DEF IdsTaken, IdsIdentify
<1>5. ASSUME NEW n \in Nodes, NEW D \in SUBSET NodeIds, NEW ids \in [D -> Nat], Starts(n, D, ids)
      PROVE  IdsTaken' /\ IdsIdentify'
  <2> DEFINE New(a) == a.src_node_id = n /\ \E d \in D : a.dst_node_id = d /\ a.request_id = ids[d]
             Old(a) == \E b \in Packets : SameRequest(a, b)
  <2>1. \A a \in Packets' : Old(a) \/ New(a)
    BY <1>5 DEF Starts, Continues, Packets
  <2>2. \A x \in Nodes : next_request_id[x] <= next_request_id'[x]
    BY <1>1, <1>5 DEF Starts
  <2>3. ASSUME NEW a \in Packets', Old(a), restarts'[a.src_node_id] = 0
        PROVE  a.request_id < next_request_id[a.src_node_id]
    <3>1. PICK b \in Packets : SameRequest(a, b)
      BY <2>3
    <3> QED
      BY <1>2, <1>3, <2>3, <3>1 DEF IdsTaken, SameRequest
  <2>4. ASSUME NEW a \in Packets', New(a)
        PROVE  /\ next_request_id[a.src_node_id] <= a.request_id
               /\ a.request_id < next_request_id'[a.src_node_id]
    BY <1>5, <2>4 DEF Starts
  <2>5. ASSUME NEW a \in Packets', NEW b \in Packets', restarts'[a.src_node_id] = 0,
               a.src_node_id = b.src_node_id, a.request_id = b.request_id
        PROVE  a.dst_node_id = b.dst_node_id
    <3>1. CASE Old(a) /\ Old(b)
      <4>1. PICK x \in Packets : SameRequest(a, x)
        BY <3>1
      <4>2. PICK y \in Packets : SameRequest(b, y)
        BY <3>1
      <4> QED
        BY <1>2, <1>3, <2>5, <4>1, <4>2 DEF IdsIdentify, SameRequest
    <3>2. CASE New(a) /\ New(b)
      BY <1>5, <2>5, <3>2 DEF Starts
    <3>3. ~(Old(a) /\ New(b)) /\ ~(New(a) /\ Old(b))
      <4> HIDE DEF Old, New
      <4> QED
        BY <1>1, <1>2, <2>3, <2>4, <2>5
    <3> QED
      BY <2>1, <3>1, <3>2, <3>3
  <2>6. ASSUME NEW a \in Packets', restarts'[a.src_node_id] = 0
        PROVE  a.request_id < next_request_id'[a.src_node_id]
    <3> HIDE DEF Old, New
    <3> QED
      BY <1>1, <1>2, <2>1, <2>2, <2>3, <2>4, <2>6
  <2> QED
    BY <2>5, <2>6 DEF IdsTaken, IdsIdentify
<1> QED
  BY <1>4, <1>5, RequestChange

\* The seen-request caches and the replies go by the source and the request id
\* alone: as long as the source did not restart and began again with id 1,
\* they cannot take the flood of one discovery for that of another.
THEOREM RequestIdsIdentifyTheorem == Spec => []RequestIdsIdentify
<1>1. Init => IdsTaken /\ IdsIdentify
  BY DEF Init, IdsTaken, IdsIdentify, Packets
<1>2. IdsIdentify => RequestIdsIdentify
  BY DEF IdsIdentify, RequestIdsIdentify, Packets, RreqKey
<1>3. TypeOK /\ TypeOK' /\ IdsTaken /\ IdsIdentify /\ [Next]_vars => IdsTaken' /\ IdsIdentify'
  BY IdsStep
<1> QED
  BY <1>1, <1>2, <1>3, TypeCorrect, PTL DEF Spec
-----------------------------------------------------------------------------
(***************************************************************************)
(* The retry budget                                                        *)
(***************************************************************************)
\* What RetryBudget says of one node.
Covers(metric, ds) ==
  metric.attempts >= (MaxRetries + 1) * metric.failures + Cardinality(RequestsMade(ds))

\* DiscoveryState records for known destinations.
DiscoveriesOK(ds) == \A d \in DOMAIN ds : d \in NodeIds /\ ds[d] \in DiscoveryState

\* The requests of one node's discoveries can be counted.
LEMMA RequestsFinite ==
  ASSUME NEW ds, DiscoveriesOK(ds)
  PROVE  IsFiniteSet(RequestsMade(ds)) /\ Cardinality(RequestsMade(ds)) \in Nat
<1>1. DOMAIN ds \in SUBSET NodeIds
  BY DEF DiscoveriesOK
<1>2. IsFiniteSet(DOMAIN ds)
  BY <1>1, FS_Subset, TopologyAssumption DEF TopologyAssumption
<1>3. IsFiniteSet(0..MaxRetries)
  BY FS_Interval, ProtocolAssumption DEF ProtocolAssumption
<1>4. IsFiniteSet((DOMAIN ds) \X (0..MaxRetries))
  BY <1>2, <1>3, FS_Product
<1>5. RequestsMade(ds) \in SUBSET ((DOMAIN ds) \X (0..MaxRetries))
  BY DEF RequestsMade
<1>6. IsFiniteSet(RequestsMade(ds))
  BY <1>4, <1>5, FS_Subset
<1> QED
  BY <1>6, FS_CardinalityType

\* Counting a step: F leaves the set, at most one element per member of R joins.
LEMMA CountStep ==
  ASSUME NEW A, IsFiniteSet(A), NEW F \in SUBSET A, NEW R, IsFiniteSet(R),
         NEW f, DOMAIN f = R, NEW B \in SUBSET ((A \ F) \cup {f[r] : r \in R})
  PROVE  Cardinality(B) + Cardinality(F) <= Cardinality(A) + Cardinality(R)
<1> DEFINE N == {f[r] : r \in R}
           g == [r \in R |-> f[r]]
           K == A \ F
<1>1. g \in Surjection(R, N)
  BY DEF Surjection
<1> HIDE DEF g
<1>2. IsFiniteSet(N) /\ Cardinality(N) <= Cardinality(R)
  BY <1>1, FS_Surjection
<1>3. A \cap F = F
  OBVIOUS
<1>4. IsFiniteSet(K) /\ Cardinality(K) = Cardinality(A) - Cardinality(F)
  BY <1>3, FS_Difference
<1>5. IsFiniteSet(F)
  BY FS_Subset
<1>6. B \in SUBSET (K \cup N)
  OBVIOUS
<1> HIDE DEF K, N
<1>7. /\ IsFiniteSet(K \cup N)
      /\ Cardinality(K \cup N) = Cardinality(K) + Cardinality(N) - Cardinality(K \cap N)
  BY <1>2, <1>4, FS_Union
<1>8. IsFiniteSet(K \cap N)
  BY <1>4, FS_Subset
<1>9. IsFiniteSet(B) /\ Cardinality(B) <= Cardinality(K \cup N)
  BY <1>6, <1>7, FS_Subset
<1>10. /\ Cardinality(A) \in Nat /\ Cardinality(F) \in Nat /\ Cardinality(R) \in Nat
       /\ Cardinality(K) \in Nat /\ Cardinality(N) \in Nat /\ Cardinality(B) \in Nat
       /\ Cardinality(K \cap N) \in Nat /\ Cardinality(K \cup N) \in Nat
  BY <1>2, <1>4, <1>5, <1>7, <1>8, <1>9, FS_CardinalityType
<1> QED
  BY <1>2, <1>4, <1>7, <1>9, <1>10

\* Discoveries that end, age or stay as they are made no request.
LEMMA FewerRequests ==
  ASSUME NEW ds, DiscoveriesOK(ds), NEW es, DOMAIN es \subseteq DOMAIN ds,
         \A d \in DOMAIN es : es[d].retries_done = ds[d].retries_done,
         NEW a \in Metrics, NEW b \in Metrics,
         b.attempts = a.attempts, b.failures = a.failures, Covers(a, ds)
  PROVE  Covers(b, es)
<1>1. RequestsMade(es) \in SUBSET RequestsMade(ds)
  BY DEF RequestsMade
<1>2. IsFiniteSet(RequestsMade(ds)) /\ Cardinality(RequestsMade(ds)) \in Nat
  BY RequestsFinite
<1>3. /\ Cardinality(RequestsMade(es)) <= Cardinality(RequestsMade(ds))
      /\ IsFiniteSet(RequestsMade(es))
  BY <1>1, <1>2, FS_Subset
<1>4. Cardinality(RequestsMade(es)) \in Nat
  BY <1>3, FS_CardinalityType
<1>5. PICK c \in Nat : c = (MaxRetries + 1) * a.failures
  BY ProtocolAssumption DEF ProtocolAssumption, Metrics
<1>6. a.attempts \in Nat /\ a.attempts >= c + Cardinality(RequestsMade(ds))
  BY <1>5 DEF Covers, Metrics
<1>7. a.attempts >= c + Cardinality(RequestsMade(es))
  BY <1>2, <1>3, <1>4, <1>5, <1>6
<1> QED
  BY <1>5, <1>7 DEF Covers

\* start_discovery pays for what it adds: each destination of D gets at most
\* one request more than it had, and those of `failed` are given up with all
\* their requests made.
LEMMA StartsPaid ==
  ASSUME NEW ds, DiscoveriesOK(ds), NEW D \in SUBSET NodeIds, NEW failed \in SUBSET DOMAIN ds,
         \A d \in failed : ds[d].retries_done >= MaxRetries,
         NEW es, DOMAIN es \subseteq (DOMAIN ds \ failed) \cup D,
         \A d \in DOMAIN es \ D : es[d].retries_done = ds[d].retries_done,
         \A d \in DOMAIN es \cap D :
           \/ d \notin DOMAIN ds /\ es[d].retries_done = 0
           \/ d \in DOMAIN ds \ failed /\ es[d].retries_done = ds[d].retries_done + 1,
         NEW a \in Metrics, NEW b \in Metrics, Covers(a, ds),
         b.attempts = a.attempts + Cardinality(D), b.failures = a.failures + Cardinality(failed)
  PROVE  Covers(b, es)
<1> DEFINE A == RequestsMade(ds)
           F == failed \X (0..MaxRetries)
           B == RequestsMade(es)
           f == [d \in D |-> <<d, es[d].retries_done>>]
           N == {f[d] : d \in D}
<1>0. MaxRetries \in Nat
  BY ProtocolAssumption DEF ProtocolAssumption
<1>1. IsFiniteSet(A) /\ Cardinality(A) \in Nat
  BY RequestsFinite
<1>2. DOMAIN ds \in SUBSET NodeIds /\ \A d \in DOMAIN ds : ds[d].retries_done \in 0..MaxRetries
  BY DEF DiscoveriesOK, DiscoveryState
<1>3. IsFiniteSet(D) /\ IsFiniteSet(failed)
  BY <1>2, FS_Subset, TopologyAssumption DEF TopologyAssumption
<1>4. F \in SUBSET A
  <2> SUFFICES ASSUME NEW d \in failed, NEW i \in 0..MaxRetries
               PROVE  <<d, i>> \in RequestsMade(ds)
    OBVIOUS
  <2>1. d \in DOMAIN ds /\ ds[d].retries_done \in 0..MaxRetries /\ ds[d].retries_done >= MaxRetries
    BY <1>2
  <2>2. i <= ds[d].retries_done
    BY <1>0, <2>1
  <2> QED
    BY <2>1, <2>2 DEF RequestsMade
<1>5. B \in SUBSET ((A \ F) \cup N)
  <2> SUFFICES ASSUME NEW d \in DOMAIN es, NEW i \in 0..MaxRetries, i <= es[d].retries_done
               PROVE  <<d, i>> \in (A \ F) \cup N
    BY DEF RequestsMade
  <2>1. CASE d \notin D
    <3>1. d \in DOMAIN ds /\ d \notin failed /\ i <= ds[d].retries_done
      BY <2>1
    <3> QED
      BY <3>1 DEF RequestsMade
  <2>2. CASE d \in D /\ d \notin DOMAIN ds
    <3>1. i = es[d].retries_done
      BY <2>2
    <3> QED
      BY <2>2, <3>1
  <2>3. CASE d \in D /\ d \in DOMAIN ds \ failed /\ es[d].retries_done = ds[d].retries_done + 1
    <3>1. ds[d].retries_done \in Nat
      BY <1>2, <2>3
    <3>2. i = es[d].retries_done \/ i <= ds[d].retries_done
      BY <2>3, <3>1
    <3>3. CASE i = es[d].retries_done
      BY <2>3, <3>3
    <3>4. CASE i <= ds[d].retries_done
      BY <2>3, <3>4 DEF RequestsMade
    <3> QED
      BY <3>2, <3>3, <3>4
  <2> QED
    BY <2>1, <2>2, <2>3
<1>6. Cardinality(F) = Cardinality(failed) * (MaxRetries + 1)
  <2>1. IsFiniteSet(0..MaxRetries) /\ Cardinality(0..MaxRetries) = MaxRetries + 1
    BY <1>0, FS_Interval
  <2> QED
    BY <1>3, <2>1, FS_Product
<1>7. DOMAIN f = D
  OBVIOUS
<1> HIDE DEF A, F, B, f
<1>8. Cardinality(B) + Cardinality(F) <= Cardinality(A) + Cardinality(D)
  BY <1>1, <1>3, <1>4, <1>5, <1>7, CountStep
<1>9. /\ Cardinality(D) \in Nat /\ Cardinality(failed) \in Nat
      /\ IsFiniteSet(F) /\ IsFiniteSet(B)
  <2>1. IsFiniteSet(N)
    <3> DEFINE g == [d \in D |-> f[d]]
    <3>1. g \in Surjection(D, N)
      BY DEF Surjection
    <3> HIDE DEF g, N
    <3> QED
      BY <1>3, <3>1, FS_Surjection
  <2>2. IsFiniteSet(A \ F)
    BY <1>1, FS_Difference
  <2> HIDE DEF N
  <2>3. IsFiniteSet((A \ F) \cup N)
    BY <2>1, <2>2, FS_Union
  <2> QED
    BY <1>1, <1>3, <1>4, <1>5, <2>3, FS_Subset, FS_CardinalityType
<1>10. Cardinality(B) \in Nat /\ Cardinality(F) \in Nat
  BY <1>9, FS_CardinalityType
<1>11. /\ a.attempts \in Nat /\ a.failures \in Nat
       /\ a.attempts >= (MaxRetries + 1) * a.failures + Cardinality(A)
  BY DEF Covers, Metrics, A
<1>12. \A m, u, v, att, ca, cb, cd, cf \in Nat :
         /\ cb + v * (m + 1) <= ca + cd
         /\ att >= (m + 1) * u + ca
         => att + cd >= (m + 1) * (u + v) + cb
  OBVIOUS
<1>13. a.attempts + Cardinality(D)
         >= (MaxRetries + 1) * (a.failures + Cardinality(failed)) + Cardinality(B)
  BY <1>0, <1>1, <1>6, <1>8, <1>9, <1>10, <1>11, <1>12
<1> QED
  BY <1>13 DEF Covers, B

\* A new process owes nothing.
LEMMA NothingOwed == Covers(NoMetrics, NoDiscoveries)
<1>1. RequestsMade(NoDiscoveries) = {}
  BY DEF RequestsMade, NoDiscoveries
<1> QED
  BY <1>1, FS_EmptySet, ProtocolAssumption DEF ProtocolAssumption, Covers, NoMetrics

\* RetryBudget of the nodes a step leaves alone stays.
LEMMA BudgetAtOne ==
  ASSUME RetryBudget, NEW n \in Nodes, Covers(metrics'[n], discoveries'[n]),
         \A x \in Nodes \ {n} : metrics'[x] = metrics[x] /\ discoveries'[x] = discoveries[x]
  PROVE  RetryBudget'
<1>1. ASSUME NEW x \in Nodes PROVE Covers(metrics'[x], discoveries'[x])
  <2>1. CASE x = n
    BY <2>1
  <2>2. CASE x # n
    BY <2>2 DEF RetryBudget, Covers
  <2> QED
    BY <2>1, <2>2
<1> QED
  BY <1>1 DEF RetryBudget, Covers

\* A command makes at most the first request of its discovery.
LEMMA QueuePayloadBudget ==
  ASSUME TypeOK, TypeOK', RetryBudget, NEW p \in Payloads, QueuePayload(p)
  PROVE  RetryBudget'
<1>1. CASE UNCHANGED <<discoveries, metrics>>
  BY <1>1 DEF RetryBudget
<1>2. CASE Dst[p] \notin DOMAIN discoveries[Src[p]]
           /\ start_discoveries(Src[p], [x \in {Dst[p]} |-> next_request_id[Src[p]]],
                                [x \in {Dst[p]} |-> 0], DOMAIN discoveries[Src[p]], 0)
  <2>1. PICK n \in Nodes : n = Src[p]
    BY ProtocolAssumption DEF ProtocolAssumption
  <2>2. PICK d \in NodeIds : d = Dst[p]
    BY ProtocolAssumption DEF ProtocolAssumption
  <2>3. /\ DOMAIN discoveries = Nodes /\ DiscoveriesOK(discoveries[n])
        /\ metrics \in [Nodes -> Metrics] /\ metrics'[n] \in Metrics
    BY DEF TypeOK, DiscoveriesOK
  <2>4. /\ discoveries' = [discoveries EXCEPT ![n] =
             [x \in DOMAIN discoveries[n] \cup {d} |->
                IF x \in {d} THEN [request_id |-> next_request_id[n], age |-> 0, retries_done |-> 0]
                             ELSE discoveries[n][x]]]
        /\ metrics' = [metrics EXCEPT ![n] =
             [attempts |-> metrics[n].attempts + Cardinality({d}), successes |-> metrics[n].successes,
              failures |-> metrics[n].failures + 0]]
    BY <1>2, <2>1, <2>2 DEF start_discoveries
  <2>5. /\ DOMAIN discoveries'[n] = DOMAIN discoveries[n] \cup {d}
        /\ \A x \in DOMAIN discoveries[n] : x # d => discoveries'[n][x] = discoveries[n][x]
        /\ discoveries'[n][d].retries_done = 0
        /\ metrics'[n].attempts = metrics[n].attempts + Cardinality({d})
        /\ metrics'[n].failures = metrics[n].failures + 0
        /\ \A x \in Nodes \ {n} : metrics'[x] = metrics[x] /\ discoveries'[x] = discoveries[x]
    BY <2>3, <2>4
  <2>6. Cardinality({}) = 0 /\ Covers(metrics[n], discoveries[n]) /\ d \notin DOMAIN discoveries[n]
    BY <1>2, <2>1, <2>2, FS_EmptySet DEF RetryBudget, Covers
  <2>7. PICK ds : ds = discoveries[n]
    OBVIOUS
  <2>8. PICK es : es = discoveries'[n]
    OBVIOUS
  <2>9. PICK a \in Metrics : a = metrics[n]
    BY <2>3
  <2>10. PICK b \in Metrics : b = metrics'[n]
    BY <2>3
  <2>11. Covers(b, es)
    <3>1. /\ DiscoveriesOK(ds) /\ {d} \in SUBSET NodeIds /\ {} \in SUBSET DOMAIN ds
          /\ DOMAIN es \subseteq (DOMAIN ds \ {}) \cup {d}
          /\ \A x \in {} : ds[x].retries_done >= MaxRetries
          /\ \A x \in DOMAIN es \ {d} : es[x].retries_done = ds[x].retries_done
          /\ \A x \in DOMAIN es \cap {d} : x \notin DOMAIN ds /\ es[x].retries_done = 0
          /\ Covers(a, ds)
          /\ b.attempts = a.attempts + Cardinality({d})
          /\ b.failures = a.failures + Cardinality({})
      BY <2>3, <2>5, <2>6, <2>7, <2>8, <2>9, <2>10
    <3> QED
      BY <3>1, StartsPaid
  <2> QED
    BY <2>5, <2>8, <2>10, <2>11, BudgetAtOne
<1> QED
  BY <1>1, <1>2 DEF QueuePayload

\* The timer gives up exactly the discoveries whose budget is used up, and each
\* retry adds one request.
LEMMA TickBudget ==
  ASSUME TypeOK, TypeOK', RetryBudget, NEW n \in Nodes, Tick(n)
  PROVE  RetryBudget'
<1> DEFINE expired == {d \in DOMAIN discoveries[n] : Elapsed(discoveries[n][d].age) >= DiscoveryTimeout}
           failed  == {d \in expired : Exhausted(discoveries[n][d])}
           retried == expired \ failed
           retries == [d \in retried |-> discoveries[n][d].retries_done + 1]
           next    == next_request_id[n]
<1>1. PICK ids \in Injection(retried, next..(next + Cardinality(retried) - 1)) :
        start_discoveries(n, ids, retries, DOMAIN discoveries[n] \ expired, Cardinality(failed))
  BY DEF Tick
<1>2. DOMAIN ids = retried
  BY <1>1 DEF Injection
<1>3. /\ DOMAIN discoveries = Nodes /\ DiscoveriesOK(discoveries[n])
      /\ metrics \in [Nodes -> Metrics] /\ metrics'[n] \in Metrics
  BY DEF TypeOK, DiscoveriesOK
<1>4. /\ \A d \in failed : discoveries[n][d].retries_done >= MaxRetries
      /\ failed \in SUBSET expired /\ expired \in SUBSET DOMAIN discoveries[n]
      /\ \A d \in retried : retries[d] = discoveries[n][d].retries_done + 1
      /\ retried = expired \ failed
  BY DEF Exhausted
<1> HIDE DEF expired, failed, retried, retries, next
<1>5. /\ discoveries' = [discoveries EXCEPT ![n] =
           [d \in (DOMAIN discoveries[n] \ expired) \cup retried |->
              IF d \in retried THEN [request_id |-> ids[d], age |-> 0, retries_done |-> retries[d]]
                               ELSE discoveries[n][d]]]
      /\ metrics' = [metrics EXCEPT ![n] =
           [attempts |-> metrics[n].attempts + Cardinality(retried), successes |-> metrics[n].successes,
            failures |-> metrics[n].failures + Cardinality(failed)]]
  BY <1>1, <1>2 DEF start_discoveries
<1>6. /\ DOMAIN discoveries'[n] = (DOMAIN discoveries[n] \ expired) \cup retried
      /\ \A d \in DOMAIN discoveries[n] \ expired : discoveries'[n][d] = discoveries[n][d]
      /\ \A d \in retried : discoveries'[n][d].retries_done = discoveries[n][d].retries_done + 1
      /\ metrics'[n].attempts = metrics[n].attempts + Cardinality(retried)
      /\ metrics'[n].failures = metrics[n].failures + Cardinality(failed)
      /\ \A x \in Nodes \ {n} : metrics'[x] = metrics[x] /\ discoveries'[x] = discoveries[x]
  BY <1>3, <1>4, <1>5
<1>7. PICK ds : ds = discoveries[n]
  OBVIOUS
<1>8. PICK es : es = discoveries'[n]
  OBVIOUS
<1>9. PICK a \in Metrics : a = metrics[n]
  BY <1>3
<1>10. PICK b \in Metrics : b = metrics'[n]
  BY <1>3
<1>11. Covers(b, es)
  <2>1. PICK R \in SUBSET NodeIds : R = retried
    BY <1>3, <1>4 DEF DiscoveriesOK
  <2>2. PICK G \in SUBSET DOMAIN ds : G = failed
    BY <1>4, <1>7
  <2>3. /\ DiscoveriesOK(ds)
        /\ \A d \in G : ds[d].retries_done >= MaxRetries
        /\ DOMAIN es \subseteq (DOMAIN ds \ G) \cup R
        /\ \A d \in DOMAIN es \ R : es[d].retries_done = ds[d].retries_done
        /\ \A d \in DOMAIN es \cap R : d \in DOMAIN ds \ G /\ es[d].retries_done = ds[d].retries_done + 1
    BY <1>3, <1>4, <1>6, <1>7, <1>8, <2>1, <2>2
  <2>4. /\ Covers(a, ds)
        /\ b.attempts = a.attempts + Cardinality(R)
        /\ b.failures = a.failures + Cardinality(G)
    BY <1>6, <1>7, <1>9, <1>10, <2>1, <2>2 DEF RetryBudget, Covers
  <2> QED
    BY <2>3, <2>4, StartsPaid
<1> QED
  BY <1>6, <1>8, <1>10, <1>11, BudgetAtOne

\* Every step keeps the property.
LEMMA BudgetStep ==
  ASSUME TypeOK, TypeOK', RetryBudget, [Next]_vars
  PROVE  RetryBudget'
<1> DEFINE Untouched == UNCHANGED <<discoveries, metrics>>
<1>1. CASE Untouched
  BY <1>1 DEF RetryBudget
<1>2. ASSUME NEW n \in Nodes, NEW ds, ds = discoveries[n], NEW es, es = discoveries'[n],
             DOMAIN es \subseteq DOMAIN ds,
             \A d \in DOMAIN es : es[d].retries_done = ds[d].retries_done,
             metrics'[n].attempts = metrics[n].attempts, metrics'[n].failures = metrics[n].failures,
             \A x \in Nodes \ {n} : metrics'[x] = metrics[x] /\ discoveries'[x] = discoveries[x]
      PROVE  RetryBudget'
  <2>1. DiscoveriesOK(ds) /\ metrics[n] \in Metrics /\ metrics'[n] \in Metrics
    BY <1>2 DEF TypeOK, DiscoveriesOK
  <2>2. Covers(metrics[n], ds)
    BY <1>2 DEF RetryBudget, Covers
  <2>3. PICK a \in Metrics : a = metrics[n]
    BY <2>1
  <2>4. PICK b \in Metrics : b = metrics'[n]
    BY <2>1
  <2>5. Covers(b, es)
    BY <1>2, <2>1, <2>2, <2>3, <2>4, FewerRequests
  <2> QED
    BY <1>2, <2>4, <2>5, BudgetAtOne
<1>3. DOMAIN discoveries = Nodes /\ metrics \in [Nodes -> Metrics]
      /\ \A n \in Nodes : DiscoveriesOK(discoveries[n])
  BY DEF TypeOK, DiscoveriesOK
<1>4. ASSUME NEW m \in rreps, CacheRoute(m) PROVE RetryBudget'
  <2>1. PICK n \in Nodes : n = m.to
    BY DEF TypeOK, Rrep
  <2>2. /\ discoveries' = [discoveries EXCEPT ![n] = remove_discovery(discoveries[n], m.dst_node_id)]
        /\ metrics' = [metrics EXCEPT ![n] =
             [attempts |-> metrics[n].attempts, successes |-> metrics[n].successes + 1,
              failures |-> metrics[n].failures]]
    BY <1>4, <2>1 DEF CacheRoute
  <2>3. /\ DOMAIN discoveries'[n] \subseteq DOMAIN discoveries[n]
        /\ \A d \in DOMAIN discoveries'[n] : discoveries'[n][d] = discoveries[n][d]
        /\ metrics'[n].attempts = metrics[n].attempts /\ metrics'[n].failures = metrics[n].failures
        /\ \A x \in Nodes \ {n} : metrics'[x] = metrics[x] /\ discoveries'[x] = discoveries[x]
    BY <1>3, <2>2 DEF remove_discovery, Restrict
  <2> QED
    BY <1>2, <2>3
<1>5. ASSUME NEW n \in Nodes, Elapse(n) \/ SetBack(n) PROVE RetryBudget'
  <2>1. metrics' = metrics
    BY <1>5 DEF Elapse, SetBack, ClockFrame
  <2>2. /\ DOMAIN discoveries'[n] = DOMAIN discoveries[n]
        /\ \A x \in Nodes \ {n} : discoveries'[x] = discoveries[x]
    BY <1>3, <1>5 DEF Elapse, SetBack, AgeDiscoveries, RejuvenateDiscoveries
  <2>3. ASSUME NEW d \in DOMAIN discoveries[n]
        PROVE  discoveries'[n][d].retries_done = discoveries[n][d].retries_done
    <3>1. discoveries[n][d] \in DiscoveryState
      BY <1>3 DEF DiscoveriesOK
    <3> QED
      BY <1>3, <1>5, <3>1 DEF Elapse, SetBack, AgeDiscoveries, RejuvenateDiscoveries, DiscoveryState
  <2> QED
    BY <1>2, <2>1, <2>2, <2>3
<1>6. ASSUME NEW n \in Nodes, Restart(n) PROVE RetryBudget'
  <2>1. /\ discoveries'[n] = NoDiscoveries /\ metrics'[n] = NoMetrics
        /\ \A x \in Nodes \ {n} : metrics'[x] = metrics[x] /\ discoveries'[x] = discoveries[x]
    BY <1>3, <1>6 DEF Restart, RestartProtocol
  <2> QED
    BY <2>1, NothingOwed, BudgetAtOne
<1>7. ASSUME NEW p \in Payloads, SendOnCachedRoute(p) PROVE Untouched
  BY <1>7 DEF SendOnCachedRoute
<1>8. ASSUME NEW m \in rreqs, handle_rreq(m) PROVE Untouched
  BY <1>8 DEF handle_rreq, RefuseRreq, DropRreq, AnswerRreq, ForwardRreq, RreqFrame
<1>9. ASSUME NEW m \in rreps, handle_rrep(m) PROVE CacheRoute(m) \/ Untouched
  BY <1>9 DEF handle_rrep, RejectRrep, ForwardRrep, nodeVars
<1>10. ASSUME NEW m \in datas, handle_data(m) PROVE Untouched
  BY <1>10 DEF handle_data, DeliverData, ForwardData, drop_data, nodeVars
<1>11. LabelStep \/ UNCHANGED vars => Untouched
  BY DEF LabelStep, vars, nodeVars
<1> HIDE DEF Untouched
<1>12. CASE PacketStep
  BY <1>1, <1>4, <1>7, <1>8, <1>9, <1>10, <1>12, QueuePayloadBudget DEF PacketStep
<1>13. CASE TimerStep
  BY <1>5, <1>13, TickBudget DEF TimerStep
<1> QED
  BY <1>1, <1>6, <1>11, <1>12, <1>13 DEF Next

\* route_discovery_attempts covers a full budget, one request and max_retries
\* retries, for every failure that handle_tick counts, and what the discoveries
\* under way have used, however many run, expire and are answered at once.
THEOREM RetryBudgetTheorem == Spec => []RetryBudget
<1>1. Init => RetryBudget
  <2>1. Init => \A n \in Nodes : metrics[n] = NoMetrics /\ discoveries[n] = NoDiscoveries
    BY DEF Init
  <2> QED
    BY <2>1, NothingOwed DEF RetryBudget, Covers
<1>2. TypeOK /\ TypeOK' /\ RetryBudget /\ [Next]_vars => RetryBudget'
  BY BudgetStep
<1> QED
  BY <1>1, <1>2, TypeCorrect, PTL DEF Spec
=============================================================================
