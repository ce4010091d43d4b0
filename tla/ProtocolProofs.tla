--------------------------- MODULE ProtocolProofs ---------------------------
(***************************************************************************)
(* The daemons implement the label exchange; their state is well typed; no *)
(* payload waits without a discovery.  For every topology, every mix of    *)
(* modes, every set of commands and any number of restarts and duplicates. *)
(***************************************************************************)
EXTENDS Protocol, LabelExchangeProofs, FiniteSetTheorems, SequenceTheorems, TLAPS

\* Every step of the daemons is a step of the label exchange or leaves its
\* variables alone.
LEMMA LabelRefinementStep ==
  ASSUME [Next]_vars
  PROVE  [LabelNext]_labelVars
<1>1. CASE LabelStep
  BY <1>1 DEF LabelStep, LabelNext
<1>2. ASSUME NEW n \in Nodes, Restart(n) PROVE LabelNext
  BY <1>2 DEF Restart, LabelNext
<1>3. CASE PacketStep
  <2>1. ASSUME NEW p \in Payloads, QueuePayload(p) \/ SendOnCachedRoute(p)
        PROVE  UNCHANGED labelVars
    BY <2>1 DEF QueuePayload, SendOnCachedRoute
  <2>2. ASSUME NEW m \in rreqs, handle_rreq(m) PROVE UNCHANGED labelVars
    BY <2>2 DEF handle_rreq, RefuseRreq, DropRreq, AnswerRreq, ForwardRreq, RreqFrame
  <2>3. ASSUME NEW m \in rreps, handle_rrep(m) PROVE UNCHANGED labelVars
    BY <2>3 DEF handle_rrep, RejectRrep, CacheRoute, ForwardRrep
  <2>4. ASSUME NEW m \in datas, handle_data(m) PROVE UNCHANGED labelVars
    BY <2>4 DEF handle_data, DeliverData, ForwardData, drop_data
  <2> QED
    BY <1>3, <2>1, <2>2, <2>3, <2>4 DEF PacketStep
<1>4. CASE TimerStep
  BY <1>4 DEF TimerStep, Tick, Elapse, SetBack, ClockFrame
<1>5. CASE UNCHANGED vars
  BY <1>5 DEF vars
<1> QED
  BY <1>1, <1>2, <1>3, <1>4, <1>5 DEF Next

\* The composed daemons implement the label exchange: what the rest of
\* ProtocolState does never disturbs the tables, and a restart is the
\* exchange's restart.
THEOREM ProtocolImplementsLabelExchange == Spec => LabelSpec
<1>1. Init => LabelInit
  BY DEF Init
<1>2. [Next]_vars => [LabelNext]_labelVars
  BY LabelRefinementStep
<1> QED
  BY <1>1, <1>2, PTL DEF Spec, LabelSpec

\* So the labels of running daemons resolve as those of the exchange do.
THEOREM ProtocolLabelsResolve == Spec => []LabelsResolve
BY ProtocolImplementsLabelExchange, LabelsResolveTheorem, PTL

\* Labels stay unique in the composed daemons.
LEMMA ProtocolLabelsUnique == Spec => []LabelsUnique
BY ProtocolImplementsLabelExchange, LabelsUniqueTheorem, PTL

\* And what a node learned agrees with the table of the node that assigned it.
LEMMA ProtocolLabelAgreement == Spec => []LabelAgreement
BY ProtocolImplementsLabelExchange, LabelAgreementTheorem, PTL
-----------------------------------------------------------------------------
(***************************************************************************)
(* Type correctness                                                        *)
(***************************************************************************)
\* What TypeOK says of one node's seen-request cache.
SeenOK(seen) == \A k \in DOMAIN seen : k \in Nodes \X Nat /\ seen[k] \in Int

\* mark_if_new keeps a cache well typed.
LEMMA MarkType ==
  ASSUME NEW seen, SeenOK(seen), NEW keys \in SUBSET (Nodes \X Nat)
  PROVE  SeenOK(mark(seen, keys))
<1> DEFINE pruned == prune(seen)
           marked == [k \in DOMAIN pruned \cup keys |-> IF k \in keys THEN 0 ELSE pruned[k]]
<1>1. SeenOK(pruned)
  BY DEF SeenOK, prune, Restrict
<1>2. SeenOK(marked)
  BY <1>1, SeenAssumption DEF SeenAssumption, SeenOK
<1> HIDE DEF marked
<1>3. SeenOK(enforce_max_entries(marked))
  BY <1>2 DEF SeenOK, enforce_max_entries, Restrict
<1> QED
  BY <1>3 DEF mark, marked

\* A node at the end of a path.
LEMMA VisitedType ==
  ASSUME NEW path \in Seq(Nodes), NEW n \in Nodes
  PROVE  Visited(path, n) \in Seq(Nodes)
BY DEF Visited

\* The label a node adds, when it has it.
LEMMA LabelVisitedType ==
  ASSUME LabelTypeOK, NEW m \in Rreq, ~Unlabelled(m)
  PROVE  LabelVisited(m.dldsr_label_path, m.to, m.previous_hop) \in Seq(Labels)
<1>1. /\ m.to \in Nodes /\ m.previous_hop \in Nodes
      /\ m.dldsr_label_path \in Seq(Labels)
  BY DEF Rreq
<1>2. CASE m.to \in DlDsrNodes
  <2>1. labels[m.to][m.previous_hop] \in Labels
    BY <1>1, <1>2 DEF Unlabelled, LabelTypeOK
  <2> QED
    BY <1>1, <1>2, <2>1 DEF LabelVisited
<1>3. CASE m.to \notin DlDsrNodes
  BY <1>1, <1>3 DEF LabelVisited
<1> QED
  BY <1>2, <1>3

\* Wrapping to a byte.
LEMMA ByteType == \A x \in Nat : (x + 1) % 256 \in 0..255
OBVIOUS

\* What the receiver of a RREQ sends.
LEMMA ForwardedRreqType ==
  ASSUME LabelTypeOK, NEW m \in Rreq, ~Unlabelled(m), NEW to \in Nodes
  PROVE  ForwardedRreq(m, to) \in Rreq /\ Reply(m, to) \in Rrep
<1>1. Visited(m.dsr_path, m.to) \in Seq(Nodes) /\ Visited(m.trace_path, m.to) \in Seq(Nodes)
  BY VisitedType DEF Rreq
<1>2. LabelVisited(m.dldsr_label_path, m.to, m.previous_hop) \in Seq(Labels)
  BY LabelVisitedType
<1>3. (m.hop_count + 1) % 256 \in 0..255
  <2>1. m.hop_count \in 0..255
    BY Zenon DEF Rreq
  <2> QED
    BY <2>1, ByteType
<1> QED
  BY <1>1, <1>2, <1>3 DEF Rreq, Rrep, ForwardedRreq, Reply

\* The types of what start_discovery assigns.
StartTypeOK ==
  /\ next_request_id \in [Nodes -> Nat]
  /\ DOMAIN seen_requests = Nodes /\ \A n \in Nodes : SeenOK(seen_requests[n])
  /\ DOMAIN discoveries = Nodes
  /\ \A n \in Nodes : \A d \in DOMAIN discoveries[n] :
       d \in NodeIds /\ discoveries[n][d] \in DiscoveryState
  /\ metrics \in [Nodes -> Metrics]
  /\ rreqs \subseteq Rreq

\* start_discovery, for a finite set of destinations.
LEMMA StartDiscoveriesType ==
  ASSUME TypeOK, NEW n \in Nodes, NEW D \in SUBSET NodeIds, NEW ids \in [D -> Nat],
         NEW retries \in [D -> 0..MaxRetries], NEW kept \in SUBSET DOMAIN discoveries[n],
         NEW failures \in Nat, start_discoveries(n, ids, retries, kept, failures)
  PROVE  StartTypeOK'
<1>1. DOMAIN ids = D /\ Cardinality(D) \in Nat
  BY FS_Subset, FS_CardinalityType, TopologyAssumption DEF TopologyAssumption
<1>2. next_request_id' \in [Nodes -> Nat]
  BY <1>1 DEF start_discoveries, TakeIds, TypeOK
<1>3. /\ DOMAIN seen_requests' = Nodes
      /\ \A x \in Nodes : SeenOK(seen_requests'[x])
  <2>1. {<<n, ids[d]>> : d \in DOMAIN ids} \in SUBSET (Nodes \X Nat)
    BY <1>1
  <2>2. \A x \in Nodes : SeenOK(seen_requests[x])
    BY DEF TypeOK, SeenOK
  <2>3. SeenOK(mark(seen_requests[n], {<<n, ids[d]>> : d \in DOMAIN ids}))
    BY <2>1, <2>2, MarkType
  <2>4. seen_requests' = [seen_requests EXCEPT
          ![n] = mark(seen_requests[n], {<<n, ids[d]>> : d \in DOMAIN ids})]
    BY DEF start_discoveries
  <2>5. DOMAIN seen_requests = Nodes
    BY DEF TypeOK
  <2> QED
    BY <2>2, <2>3, <2>4, <2>5
<1>4. /\ DOMAIN discoveries' = Nodes
      /\ \A x \in Nodes : \A d \in DOMAIN discoveries'[x] :
           d \in NodeIds /\ discoveries'[x][d] \in DiscoveryState
  <2> DEFINE new == [d \in kept \cup DOMAIN ids |->
                       IF d \in DOMAIN ids
                         THEN [request_id |-> ids[d], age |-> 0, retries_done |-> retries[d]]
                         ELSE discoveries[n][d]]
  <2>1. \A d \in DOMAIN new : d \in NodeIds /\ new[d] \in DiscoveryState
    BY <1>1, ProtocolAssumption DEF ProtocolAssumption, TypeOK, DiscoveryState
  <2>2. discoveries' = [discoveries EXCEPT ![n] = new]
    BY DEF start_discoveries
  <2> HIDE DEF new
  <2> QED
    BY <2>1, <2>2 DEF TypeOK
<1>5. metrics' \in [Nodes -> Metrics]
  <2>1. metrics[n] \in Metrics /\ metrics \in [Nodes -> Metrics]
    BY DEF TypeOK
  <2> QED
    BY <1>1, <2>1 DEF start_discoveries, Metrics
<1>6. rreqs' \subseteq Rreq
  <2>1. ASSUME NEW d \in D PROVE Requests(n, d, ids[d]) \subseteq Rreq
    <3>1. <<n>> \in Seq(Nodes) /\ <<>> \in Seq(Labels) /\ ids[d] \in Nat /\ d \in NodeIds
      OBVIOUS
    <3>2. ASSUME NEW to \in Reachable(n)
          PROVE  [src_node_id |-> n, dst_node_id |-> d, request_id |-> ids[d],
                  previous_hop |-> n, hop_count |-> 0,
                  dsr_path |-> <<n>>, dldsr_label_path |-> <<>>, trace_path |-> <<n>>,
                  to |-> to] \in Rreq
      <4>1. to \in Nodes /\ 0 \in 0..255
        BY <3>2 DEF Reachable
      <4> QED
        BY <3>1, <4>1 DEF Rreq
    <3> QED
      BY <3>2 DEF Requests
  <2> QED
    BY <1>1, <2>1 DEF start_discoveries, TypeOK
<1> QED
  BY <1>2, <1>3, <1>4, <1>5, <1>6 DEF StartTypeOK, SeenOK

\* What TypeOK says beyond the label exchange and the duplicates, one name for
\* each group of variables.
NodeTypeOK ==
  /\ routes \in [Nodes -> [NodeIds -> Seq(RouteEntries)]]
  /\ DOMAIN seen_requests = Nodes /\ \A n \in Nodes : SeenOK(seen_requests[n])
  /\ pending_data \in [Nodes -> [NodeIds -> Seq(Payloads)]]
  /\ DOMAIN discoveries = Nodes
  /\ \A n \in Nodes : \A d \in DOMAIN discoveries[n] :
       d \in NodeIds /\ discoveries[n][d] \in DiscoveryState
  /\ next_request_id \in [Nodes -> Nat] /\ next_sequence \in [Nodes -> Nat]
  /\ metrics \in [Nodes -> Metrics]

PacketTypeOK == rreqs \subseteq Rreq /\ rreps \subseteq Rrep /\ datas \subseteq Data

HistoryTypeOK ==
  /\ accepted \subseteq Payloads
  /\ delivered \subseteq [payload : Payloads, src : Nodes, node : Nodes]
  /\ drops \subseteq DropRecord

\* TypeOK, group by group.
LEMMA TypeOKParts ==
  TypeOK <=> /\ LabelTypeOK /\ NodeTypeOK /\ PacketTypeOK /\ HistoryTypeOK
             /\ dups \in 0..MaxDups /\ setbacks \in 0..MaxSetBacks
BY DEF TypeOK, NodeTypeOK, PacketTypeOK, HistoryTypeOK, SeenOK

\* A command without a route queues a payload and may start a discovery.
LEMMA QueuePayloadType ==
  ASSUME TypeOK, NEW p \in Payloads, QueuePayload(p)
  PROVE  NodeTypeOK' /\ PacketTypeOK' /\ HistoryTypeOK' /\ dups' = dups
<1> DEFINE n == Src[p]
           d == Dst[p]
<1>1. n \in Nodes /\ d \in NodeIds
  BY ProtocolAssumption DEF ProtocolAssumption
<1>2. NodeTypeOK /\ PacketTypeOK /\ HistoryTypeOK
  BY TypeOKParts
<1>3. pending_data' \in [Nodes -> [NodeIds -> Seq(Payloads)]]
  BY <1>1, <1>2 DEF QueuePayload, NodeTypeOK
<1>4. HistoryTypeOK'
  BY <1>2 DEF QueuePayload, HistoryTypeOK
<1>5. CASE UNCHANGED <<next_request_id, seen_requests, discoveries, rreqs, metrics>>
  BY <1>2, <1>3, <1>4, <1>5 DEF QueuePayload, NodeTypeOK, PacketTypeOK, SeenOK
<1>6. CASE start_discoveries(n, [x \in {d} |-> next_request_id[n]], [x \in {d} |-> 0],
                             DOMAIN discoveries[n], 0)
  <2>1. /\ [x \in {d} |-> next_request_id[n]] \in [{d} -> Nat]
        /\ [x \in {d} |-> 0] \in [{d} -> 0..MaxRetries]
    BY <1>1, <1>2, ProtocolAssumption DEF ProtocolAssumption, NodeTypeOK
  <2> HIDE DEF n, d
  <2>2. StartTypeOK'
    BY <1>1, <1>6, <2>1, StartDiscoveriesType
  <2>3. UNCHANGED <<routes, next_sequence, rreps, datas, dups>>
    BY DEF QueuePayload
  <2> QED
    BY <1>2, <1>3, <1>4, <2>2, <2>3 DEF NodeTypeOK, PacketTypeOK, StartTypeOK, SeenOK
<1> QED
  BY <1>5, <1>6 DEF QueuePayload

\* The timer step: retries and failures.
LEMMA TickType ==
  ASSUME TypeOK, NEW n \in Nodes, Tick(n)
  PROVE  NodeTypeOK' /\ PacketTypeOK' /\ HistoryTypeOK' /\ dups' = dups
<1> DEFINE expired == {d \in DOMAIN discoveries[n] : Elapsed(discoveries[n][d].age) >= DiscoveryTimeout}
           failed  == {d \in expired : Exhausted(discoveries[n][d])}
           retried == expired \ failed
           retries == [d \in retried |-> discoveries[n][d].retries_done + 1]
           next    == next_request_id[n]
<1>1. NodeTypeOK /\ PacketTypeOK /\ HistoryTypeOK
  BY TypeOKParts
<1>2. expired \subseteq NodeIds /\ failed \subseteq NodeIds /\ retried \subseteq NodeIds
  BY <1>1 DEF NodeTypeOK
<1>3. IsFiniteSet(failed) /\ IsFiniteSet(retried)
  BY <1>2, FS_Subset, TopologyAssumption DEF TopologyAssumption
<1>4. Cardinality(failed) \in Nat /\ Cardinality(retried) \in Nat
  BY <1>3, FS_CardinalityType
<1>5. retries \in [retried -> 0..MaxRetries]
  <2>1. ASSUME NEW d \in retried PROVE discoveries[n][d].retries_done + 1 \in 0..MaxRetries
    <3>1. discoveries[n][d] \in DiscoveryState
      BY <1>1 DEF NodeTypeOK
    <3>2. discoveries[n][d].retries_done \in 0..MaxRetries
      BY <3>1 DEF DiscoveryState
    <3>3. ~(discoveries[n][d].retries_done >= MaxRetries)
      BY DEF Exhausted
    <3> QED
      BY <3>2, <3>3, ProtocolAssumption DEF ProtocolAssumption
  <2> QED
    BY <2>1
<1>6. PICK ids \in Injection(retried, next..(next + Cardinality(retried) - 1)) :
        start_discoveries(n, ids, retries, DOMAIN discoveries[n] \ expired, Cardinality(failed))
  BY DEF Tick
<1>7. ids \in [retried -> Nat]
  <2>1. next \in Nat
    BY <1>1 DEF NodeTypeOK
  <2>2. next..(next + Cardinality(retried) - 1) \subseteq Nat
    BY <1>4, <2>1
  <2> QED
    BY <1>6, <2>2 DEF Injection
<1>8. pending_data' \in [Nodes -> [NodeIds -> Seq(Payloads)]]
  <2>1. pending_data' = [pending_data EXCEPT ![n] = drop_pending_for_dst(pending_data[n], failed)]
    BY DEF Tick
  <2>2. drop_pending_for_dst(pending_data[n], failed) \in [NodeIds -> Seq(Payloads)]
    BY <1>1 DEF drop_pending_for_dst, NodeTypeOK
  <2> QED
    BY <1>1, <2>1, <2>2 DEF NodeTypeOK
<1>9. HistoryTypeOK'
  <2>1. UNION {Range(pending_data[n][d]) : d \in failed} \subseteq Payloads
    BY <1>1, <1>2 DEF NodeTypeOK, Range
  <2>2. drops' = drops \cup
          [payload : UNION {Range(pending_data[n][d]) : d \in failed}, node : {n},
           reason : {"discovery failed"}, reported : {TRUE}]
    BY DEF Tick
  <2>3. drops' \subseteq DropRecord
    BY <1>1, <2>1, <2>2 DEF HistoryTypeOK, DropRecord
  <2> QED
    BY <1>1, <2>3 DEF Tick, HistoryTypeOK
<1>10. UNCHANGED <<routes, next_sequence, rreps, datas, dups>>
  BY DEF Tick
<1>11. StartTypeOK'
  <2> HIDE DEF expired, failed, retried, retries, next
  <2>1. DOMAIN discoveries[n] \ expired \in SUBSET DOMAIN discoveries[n]
    OBVIOUS
  <2> QED
    BY <1>2, <1>4, <1>5, <1>6, <1>7, <2>1, StartDiscoveriesType
<1> QED
  BY <1>1, <1>8, <1>9, <1>10, <1>11 DEF NodeTypeOK, PacketTypeOK, StartTypeOK, SeenOK

\* Every outcome of a RREQ.
LEMMA HandleRreqType ==
  ASSUME TypeOK, NEW m \in rreqs, handle_rreq(m)
  PROVE  NodeTypeOK' /\ PacketTypeOK' /\ HistoryTypeOK' /\ dups' \in 0..MaxDups
<1>1. NodeTypeOK /\ PacketTypeOK /\ HistoryTypeOK /\ LabelTypeOK /\ dups \in 0..MaxDups
  BY TypeOKParts
<1>2. m \in Rreq
  BY <1>1 DEF PacketTypeOK
<1>3. dups' \in 0..MaxDups
  BY <1>1, UdpAssumption
  DEF UdpAssumption, handle_rreq, RefuseRreq, DropRreq, AnswerRreq, ForwardRreq, Receive
<1>4. UNCHANGED <<routes, pending_data, discoveries, next_request_id, next_sequence, metrics,
                  datas, accepted, delivered, drops>>
  BY DEF handle_rreq, RefuseRreq, DropRreq, AnswerRreq, ForwardRreq, RreqFrame, historyVars
<1>5. DOMAIN seen_requests' = Nodes /\ \A n \in Nodes : SeenOK(seen_requests'[n])
  <2>1. CASE MarkRreq(m)
    <3>1. m.to \in Nodes /\ {RreqKey(m)} \in SUBSET (Nodes \X Nat)
      BY <1>2 DEF Rreq, RreqKey
    <3>2. SeenOK(mark(seen_requests[m.to], {RreqKey(m)}))
      BY <1>1, <3>1, MarkType DEF NodeTypeOK
    <3>3. seen_requests' = [seen_requests EXCEPT
            ![m.to] = mark(seen_requests[m.to], {RreqKey(m)})]
      BY <2>1 DEF MarkRreq
    <3> QED
      BY <1>1, <3>1, <3>2, <3>3 DEF NodeTypeOK
  <2>2. CASE UNCHANGED seen_requests
    BY <1>1, <2>2 DEF NodeTypeOK
  <2> QED
    BY <2>1, <2>2 DEF handle_rreq, RefuseRreq, DropRreq, AnswerRreq, ForwardRreq
<1>6. rreqs' \subseteq Rreq
  <2>1. CASE ForwardRreq(m)
    <3>1. \A to \in Reachable(m.to) : ForwardedRreq(m, to) \in Rreq
      BY <1>1, <1>2, <2>1, ForwardedRreqType DEF ForwardRreq, Reachable
    <3> QED
      BY <1>1, <2>1, <3>1 DEF ForwardRreq, Receive, PacketTypeOK
  <2>2. CASE ~ForwardRreq(m)
    BY <1>1, <2>2 DEF handle_rreq, RefuseRreq, DropRreq, AnswerRreq, Receive, PacketTypeOK
  <2> QED
    BY <2>1, <2>2
<1>7. rreps' \subseteq Rrep
  <2>1. CASE AnswerRreq(m)
    <3>1. \A to \in Nodes : Reply(m, to) \in Rrep
      BY <1>1, <1>2, <2>1, ForwardedRreqType DEF AnswerRreq
    <3> QED
      BY <1>1, <2>1, <3>1 DEF AnswerRreq, PacketTypeOK
  <2>2. CASE ~AnswerRreq(m)
    BY <1>1, <2>2 DEF handle_rreq, RefuseRreq, DropRreq, ForwardRreq, PacketTypeOK
  <2> QED
    BY <2>1, <2>2
<1> QED
  BY <1>1, <1>3, <1>4, <1>5, <1>6, <1>7 DEF NodeTypeOK, PacketTypeOK, HistoryTypeOK, SeenOK

\* The table lookups of origin_data name nodes that have an endpoint.
LEMMA NextDataEndpointType ==
  ASSUME NEW n \in Nodes, NEW route \in RouteEntries
  PROVE  next_data_endpoint(n, route) \subseteq Nodes
BY DEF next_data_endpoint, neighbor_by_label

\* origin_data for well-typed payloads and a well-typed route.
LEMMA OriginDataType ==
  ASSUME TypeOK, NEW n \in Nodes, NEW d \in NodeIds, NEW payloads \in Seq(Payloads),
         NEW route \in RouteEntries, NEW reported \in BOOLEAN,
         origin_data(n, d, payloads, route, reported)
  PROVE  /\ next_sequence' \in [Nodes -> Nat]
         /\ datas' \subseteq Data
         /\ drops' \subseteq DropRecord
<1> DEFINE hop == next_data_endpoint(n, route)
<1>1. next_sequence[n] \in Nat /\ next_sequence \in [Nodes -> Nat] /\ Len(payloads) \in Nat
  BY DEF TypeOK
<1>2. next_sequence' \in [Nodes -> Nat]
  <2>1. next_sequence' = [next_sequence EXCEPT ![n] = next_sequence[n] + Len(payloads)]
    BY DEF origin_data
  <2> QED
    BY <1>1, <2>1
<1>3. hop \subseteq Nodes
  BY NextDataEndpointType
<1>4. route.dsr_path \in Seq(Nodes) /\ route.dldsr_label_path \in Seq(Labels)
  BY Zenon DEF RouteEntries
<1>5. ASSUME NEW i \in DOMAIN payloads, NEW next \in hop
      PROVE  OriginPacket(n, d, payloads, i, route, next) \in Data
  <2>1. next \in Nodes /\ payloads[i] \in Payloads /\ next_sequence[n] + i - 1 \in Nat
    BY <1>1, <1>3, <1>5
  <2>2. protocol_mode(n) \in {"Dsr", "DlDsr"}
    BY DEF protocol_mode
  <2> HIDE DEF hop
  <2> QED
    BY <1>4, <2>1, <2>2 DEF Data, OriginPacket
<1>6. datas' \subseteq Data
  <2>1. datas' = datas \cup
          UNION {{OriginPacket(n, d, payloads, i, route, next) : next \in hop} :
                   i \in DOMAIN payloads}
    BY DEF origin_data
  <2> HIDE DEF hop
  <2> QED
    BY <1>5, <2>1 DEF TypeOK
<1>7. drops' \subseteq DropRecord
  <2>1. Range(payloads) \subseteq Payloads
    BY DEF Range
  <2> QED
    BY <2>1 DEF origin_data, TypeOK, DropRecord
<1> QED
  BY <1>2, <1>6, <1>7

\* A command with a cached route.
LEMMA SendOnCachedRouteType ==
  ASSUME TypeOK, NEW p \in Payloads, SendOnCachedRoute(p)
  PROVE  NodeTypeOK' /\ PacketTypeOK' /\ HistoryTypeOK' /\ dups' = dups
<1>1. NodeTypeOK /\ PacketTypeOK /\ HistoryTypeOK
  BY TypeOKParts
<1>2. Src[p] \in Nodes /\ Dst[p] \in NodeIds
  BY ProtocolAssumption DEF ProtocolAssumption
<1>3. PICK route \in shortest(routes[Src[p]][Dst[p]]) :
        origin_data(Src[p], Dst[p], <<p>>, route, TRUE)
  BY DEF SendOnCachedRoute
<1>4. route \in RouteEntries
  <2>1. routes[Src[p]][Dst[p]] \in Seq(RouteEntries)
    BY <1>1, <1>2 DEF NodeTypeOK
  <2> QED
    BY <1>3, <2>1 DEF shortest
<1>5. <<p>> \in Seq(Payloads)
  OBVIOUS
<1>6. /\ next_sequence' \in [Nodes -> Nat]
      /\ datas' \subseteq Data
      /\ drops' \subseteq DropRecord
  BY <1>2, <1>3, <1>4, <1>5, OriginDataType
<1>7. /\ UNCHANGED <<dups, routes, seen_requests, pending_data, discoveries,
                     next_request_id, metrics, rreqs, rreps, delivered>>
      /\ accepted' = accepted \cup {p}
  BY DEF SendOnCachedRoute
<1> QED
  BY <1>1, <1>6, <1>7 DEF NodeTypeOK, PacketTypeOK, HistoryTypeOK, SeenOK

\* Every outcome of a RREP.
LEMMA HandleRrepType ==
  ASSUME TypeOK, NEW m \in rreps, handle_rrep(m)
  PROVE  NodeTypeOK' /\ PacketTypeOK' /\ HistoryTypeOK' /\ dups' \in 0..MaxDups
<1>1. NodeTypeOK /\ PacketTypeOK /\ HistoryTypeOK /\ dups \in 0..MaxDups
  BY TypeOKParts
<1>2. m \in Rrep
  BY <1>1 DEF PacketTypeOK
<1>3. dups' \in 0..MaxDups
  <2>1. \E sent : Receive(rreps, m, sent)
    BY DEF handle_rrep, RejectRrep, CacheRoute, ForwardRrep
  <2> QED
    BY <1>1, <2>1, UdpAssumption DEF UdpAssumption, Receive
<1>4. CASE RejectRrep(m)
  BY <1>1, <1>3, <1>4
  DEF RejectRrep, Receive, nodeVars, historyVars, NodeTypeOK, PacketTypeOK, HistoryTypeOK, SeenOK
<1>5. CASE ForwardRrep(m)
  <2>1. \A to \in Nodes : ForwardedRrep(m, to) \in Rrep
    BY <1>2 DEF ForwardedRrep, Rrep
  <2>2. rreps' \subseteq Rrep
    BY <1>1, <1>5, <2>1 DEF ForwardRrep, Receive, PacketTypeOK
  <2>3. UNCHANGED <<nodeVars, rreqs, datas, historyVars>>
    BY <1>5 DEF ForwardRrep
  <2> QED
    BY <1>1, <1>3, <2>2, <2>3
    DEF nodeVars, historyVars, NodeTypeOK, PacketTypeOK, HistoryTypeOK, SeenOK
<1>6. CASE CacheRoute(m)
  <2> DEFINE n == m.to
             d == m.dst_node_id
             route == RouteEntry(m.dsr_path,
                                 IF n \in DlDsrNodes THEN m.dldsr_label_path ELSE <<>>)
  <2>1. n \in Nodes /\ d \in NodeIds
    BY <1>2 DEF Rrep
  <2>2. route \in RouteEntries
    <3>1. m.dsr_path \in Seq(Nodes) /\ m.dldsr_label_path \in Seq(Labels) /\ <<>> \in Seq(Labels)
      BY <1>2 DEF Rrep
    <3>2. 0 \in 0..(RouteTtl + 1)
      BY RouteAssumption DEF RouteAssumption
    <3> QED
      BY <3>1, <3>2 DEF RouteEntry, RouteEntries
  <2>3. origin_data(n, d, pending_data[n][d], route, FALSE)
    BY <1>6 DEF CacheRoute
  <2>4. /\ routes' = [routes EXCEPT ![n][d] = Append(routes[n][d], route)]
        /\ discoveries' = [discoveries EXCEPT ![n] = remove_discovery(discoveries[n], d)]
        /\ metrics' = [metrics EXCEPT ![n] =
             [attempts |-> metrics[n].attempts, successes |-> metrics[n].successes + 1,
              failures |-> metrics[n].failures]]
        /\ pending_data' = [pending_data EXCEPT ![n] = flushed(pending_data[n], d)]
        /\ UNCHANGED <<seen_requests, next_request_id, rreqs, accepted, delivered>>
    BY <1>6 DEF CacheRoute
  <2>5. rreps' \subseteq Rrep
    BY <1>1, <1>6 DEF CacheRoute, Receive, PacketTypeOK
  <2> HIDE DEF n, d, route
  <2>6. routes' \in [Nodes -> [NodeIds -> Seq(RouteEntries)]]
    BY <1>1, <2>1, <2>2, <2>4 DEF NodeTypeOK
  <2>7. pending_data' \in [Nodes -> [NodeIds -> Seq(Payloads)]]
    BY <1>1, <2>1, <2>4 DEF NodeTypeOK, flushed
  <2>8. metrics' \in [Nodes -> Metrics]
    BY <1>1, <2>1, <2>4 DEF NodeTypeOK, Metrics
  <2>9. /\ DOMAIN discoveries' = Nodes
        /\ \A x \in Nodes : \A y \in DOMAIN discoveries'[x] :
             y \in NodeIds /\ discoveries'[x][y] \in DiscoveryState
    BY <1>1, <2>1, <2>4 DEF NodeTypeOK, remove_discovery, Restrict
  <2>10. pending_data[n][d] \in Seq(Payloads)
    BY <1>1, <2>1 DEF NodeTypeOK
  <2>11. /\ next_sequence' \in [Nodes -> Nat]
         /\ datas' \subseteq Data
         /\ drops' \subseteq DropRecord
    BY <2>1, <2>2, <2>3, <2>10, OriginDataType
  <2> QED
    BY <1>1, <1>3, <2>4, <2>5, <2>6, <2>7, <2>8, <2>9, <2>11
    DEF NodeTypeOK, PacketTypeOK, HistoryTypeOK, SeenOK
<1> QED
  BY <1>4, <1>5, <1>6 DEF handle_rrep

\* A DATA packet is delivered, forwarded or dropped; tables are not touched.
LEMMA HandleDataType ==
  ASSUME TypeOK, NEW m \in datas, handle_data(m)
  PROVE  NodeTypeOK' /\ PacketTypeOK' /\ HistoryTypeOK' /\ dups' \in 0..MaxDups
<1>1. NodeTypeOK /\ PacketTypeOK /\ HistoryTypeOK /\ dups \in 0..MaxDups
  BY TypeOKParts
<1>2. m \in Data
  BY <1>1 DEF PacketTypeOK
<1>3. dups' \in 0..MaxDups
  <2>1. \E sent : Receive(datas, m, sent)
    BY DEF handle_data, DeliverData, ForwardData, drop_data
  <2> QED
    BY <1>1, <2>1, UdpAssumption DEF UdpAssumption, Receive
<1>4. NodeTypeOK' /\ rreqs' = rreqs /\ rreps' = rreps
  <2>1. UNCHANGED <<nodeVars, rreqs, rreps>>
    BY DEF handle_data, DeliverData, ForwardData, drop_data
  <2> QED
    BY <1>1, <2>1 DEF nodeVars, NodeTypeOK, SeenOK
<1>5. m.src_node_id \in Nodes /\ m.payload \in Payloads /\ m.to \in Nodes
  BY <1>2 DEF Data
<1>6. CASE DeliverData(m)
  <2>1. datas' \subseteq Data
    BY <1>1, <1>6 DEF DeliverData, Receive, PacketTypeOK
  <2>2. HistoryTypeOK'
    BY <1>1, <1>5, <1>6 DEF DeliverData, HistoryTypeOK
  <2> QED
    BY <1>1, <1>3, <1>4, <2>1, <2>2 DEF PacketTypeOK
<1>7. CASE ForwardData(m)
  <2>1. PICK next \in NextHop(m.to, m) : Receive(datas, m, ForwardedData(m, next))
    BY <1>7 DEF ForwardData
  <2>2. ForwardedData(m, next) \subseteq Data
    BY <1>2 DEF ForwardedData, Data
  <2>3. datas' \subseteq Data
    BY <1>1, <2>1, <2>2 DEF Receive, PacketTypeOK
  <2>4. HistoryTypeOK'
    BY <1>1, <1>7 DEF ForwardData, HistoryTypeOK, historyVars
  <2> QED
    BY <1>1, <1>3, <1>4, <2>3, <2>4 DEF PacketTypeOK
<1>8. CASE drop_data(m)
  <2>1. datas' \subseteq Data
    BY <1>1, <1>8 DEF drop_data, Receive, PacketTypeOK
  <2>2. [payload |-> m.payload, node |-> m.to, reason |-> "rejected", reported |-> TRUE]
          \in DropRecord
    BY <1>5 DEF DropRecord
  <2>3. HistoryTypeOK'
    BY <1>1, <1>8, <2>2 DEF drop_data, HistoryTypeOK
  <2> QED
    BY <1>1, <1>3, <1>4, <2>1, <2>3 DEF PacketTypeOK
<1> QED
  BY <1>6, <1>7, <1>8 DEF handle_data

\* An integer age may replace the age of a route, whatever happens to the clock.
LEMMA RouteAgesType ==
  ASSUME NEW entries \in Seq(RouteEntries), NEW age \in [DOMAIN entries -> Int]
  PROVE  [i \in DOMAIN entries |-> [entries[i] EXCEPT !.age = age[i]]] \in Seq(RouteEntries)
<1> DEFINE aged == [i \in DOMAIN entries |-> [entries[i] EXCEPT !.age = age[i]]]
<1>1. Len(entries) \in Nat /\ DOMAIN entries = 1..Len(entries)
  OBVIOUS
<1>2. \A i \in DOMAIN entries : entries[i] \in RouteEntries /\ age[i] \in Int
  OBVIOUS
<1>3. \A i \in DOMAIN entries : aged[i] \in RouteEntries
  BY <1>2 DEF RouteEntries
<1>4. aged \in [1..Len(entries) -> RouteEntries]
  BY <1>1, <1>3
<1> QED
  BY <1>1, <1>4, SeqDef

\* Ages stay integers when time passes.
LEMMA OlderType ==
  ASSUME NEW age \in Int, NEW limit \in Int
  PROVE  Older(age, limit) \in Int
BY ClockAssumption DEF ClockAssumption, Older

\* A step that only changes the ages of one node's state keeps it well typed.
LEMMA AgesType ==
  ASSUME TypeOK, NEW n \in Nodes, ClockFrame,
         NEW r \in [NodeIds -> Seq(RouteEntries)], routes' = [routes EXCEPT ![n] = r],
         NEW s, SeenOK(s), seen_requests' = [seen_requests EXCEPT ![n] = s],
         NEW ds, \A d \in DOMAIN ds : d \in NodeIds /\ ds[d] \in DiscoveryState,
         discoveries' = [discoveries EXCEPT ![n] = ds]
  PROVE  NodeTypeOK' /\ PacketTypeOK' /\ HistoryTypeOK' /\ dups' = dups
<1>1. NodeTypeOK /\ PacketTypeOK /\ HistoryTypeOK
  BY TypeOKParts
<1>2. routes' \in [Nodes -> [NodeIds -> Seq(RouteEntries)]]
  BY <1>1 DEF NodeTypeOK
<1>3. DOMAIN seen_requests' = Nodes /\ \A x \in Nodes : SeenOK(seen_requests'[x])
  BY <1>1 DEF NodeTypeOK
<1>4. /\ DOMAIN discoveries' = Nodes
      /\ \A x \in Nodes : \A d \in DOMAIN discoveries'[x] :
           d \in NodeIds /\ discoveries'[x][d] \in DiscoveryState
  BY <1>1 DEF NodeTypeOK
<1>5. UNCHANGED <<dups, pending_data, next_request_id, next_sequence, metrics,
                  rreqs, rreps, datas, accepted, delivered, drops>>
  BY DEF ClockFrame, historyVars
<1> QED
  BY <1>1, <1>2, <1>3, <1>4, <1>5 DEF NodeTypeOK, PacketTypeOK, HistoryTypeOK, SeenOK

\* A node's clock advances.
LEMMA ElapseType ==
  ASSUME TypeOK, NEW n \in Nodes, Elapse(n)
  PROVE  NodeTypeOK' /\ PacketTypeOK' /\ HistoryTypeOK' /\ dups' = dups
<1> DEFINE r == [d \in NodeIds |-> AgeRoutes(routes[n][d])]
           s == AgeSeen(seen_requests[n])
           ds == AgeDiscoveries(discoveries[n])
<1>1. NodeTypeOK
  BY TypeOKParts
<1>2. r \in [NodeIds -> Seq(RouteEntries)]
  <2>1. ASSUME NEW entries \in Seq(RouteEntries) PROVE AgeRoutes(entries) \in Seq(RouteEntries)
    <3> DEFINE age == [i \in DOMAIN entries |-> Older(entries[i].age, RouteTtl + 1)]
    <3>1. RouteTtl + 1 \in Int
      BY RouteAssumption DEF RouteAssumption
    <3>2. \A i \in DOMAIN entries : entries[i].age \in Int
      <4>1. \A i \in DOMAIN entries : entries[i] \in RouteEntries
        OBVIOUS
      <4> QED
        BY <4>1 DEF RouteEntries
    <3>3. age \in [DOMAIN entries -> Int]
      BY <3>1, <3>2, OlderType
    <3>4. AgeRoutes(entries) = [i \in DOMAIN entries |-> [entries[i] EXCEPT !.age = age[i]]]
      BY DEF AgeRoutes
    <3> HIDE DEF age
    <3> QED
      BY <3>3, <3>4, RouteAgesType
  <2> QED
    BY <1>1, <2>1 DEF NodeTypeOK
<1>3. SeenOK(s)
  <2>1. SeenTtl + 1 \in Int
    BY SeenAssumption DEF SeenAssumption
  <2> QED
    BY <1>1, <2>1, OlderType DEF NodeTypeOK, SeenOK, AgeSeen
<1>4. \A d \in DOMAIN ds : d \in NodeIds /\ ds[d] \in DiscoveryState
  <2>1. DiscoveryTimeout \in Int
    BY ProtocolAssumption DEF ProtocolAssumption
  <2>2. ASSUME NEW e \in DiscoveryState
        PROVE  [e EXCEPT !.age = Older(e.age, DiscoveryTimeout)] \in DiscoveryState
    <3>1. Older(e.age, DiscoveryTimeout) \in Int
      BY <2>1, OlderType DEF DiscoveryState
    <3> QED
      BY <3>1 DEF DiscoveryState
  <2> QED
    BY <1>1, <2>2 DEF NodeTypeOK, AgeDiscoveries
<1>5. /\ ClockFrame
      /\ routes' = [routes EXCEPT ![n] = r]
      /\ seen_requests' = [seen_requests EXCEPT ![n] = s]
      /\ discoveries' = [discoveries EXCEPT ![n] = ds]
  BY DEF Elapse
<1> HIDE DEF r, s, ds
<1> QED
  BY <1>2, <1>3, <1>4, <1>5, AgesType

\* A node's clock is set back.
LEMMA SetBackType ==
  ASSUME TypeOK, NEW n \in Nodes, SetBack(n)
  PROVE  NodeTypeOK' /\ PacketTypeOK' /\ HistoryTypeOK' /\ dups' = dups
<1> DEFINE r == [d \in NodeIds |-> RejuvenateRoutes(routes[n][d])]
           s == RejuvenateSeen(seen_requests[n])
           ds == RejuvenateDiscoveries(discoveries[n])
<1>1. NodeTypeOK
  BY TypeOKParts
<1>2. r \in [NodeIds -> Seq(RouteEntries)]
  <2>1. ASSUME NEW entries \in Seq(RouteEntries)
        PROVE  RejuvenateRoutes(entries) \in Seq(RouteEntries)
    <3> DEFINE age == [i \in DOMAIN entries |-> entries[i].age - 1]
    <3>1. \A i \in DOMAIN entries : entries[i].age \in Int
      <4>1. \A i \in DOMAIN entries : entries[i] \in RouteEntries
        OBVIOUS
      <4> QED
        BY <4>1 DEF RouteEntries
    <3>2. age \in [DOMAIN entries -> Int]
      BY <3>1
    <3>3. RejuvenateRoutes(entries) =
            [i \in DOMAIN entries |-> [entries[i] EXCEPT !.age = age[i]]]
      BY DEF RejuvenateRoutes
    <3> HIDE DEF age
    <3> QED
      BY <3>2, <3>3, RouteAgesType
  <2> QED
    BY <1>1, <2>1 DEF NodeTypeOK
<1>3. SeenOK(s)
  BY <1>1 DEF NodeTypeOK, SeenOK, RejuvenateSeen
<1>4. \A d \in DOMAIN ds : d \in NodeIds /\ ds[d] \in DiscoveryState
  <2>1. ASSUME NEW e \in DiscoveryState
        PROVE  [e EXCEPT !.age = e.age - 1] \in DiscoveryState
    <3>1. e.age - 1 \in Int
      BY DEF DiscoveryState
    <3> QED
      BY <3>1 DEF DiscoveryState
  <2> QED
    BY <1>1, <2>1 DEF NodeTypeOK, RejuvenateDiscoveries
<1>5. /\ ClockFrame
      /\ routes' = [routes EXCEPT ![n] = r]
      /\ seen_requests' = [seen_requests EXCEPT ![n] = s]
      /\ discoveries' = [discoveries EXCEPT ![n] = ds]
  BY DEF SetBack
<1> HIDE DEF r, s, ds
<1> QED
  BY <1>2, <1>3, <1>4, <1>5, AgesType

\* A new process starts with well-typed, empty state.
LEMMA RestartType ==
  ASSUME TypeOK, NEW n \in Nodes, Restart(n)
  PROVE  NodeTypeOK' /\ PacketTypeOK' /\ HistoryTypeOK' /\ dups' = dups
<1>1. NodeTypeOK /\ PacketTypeOK /\ HistoryTypeOK
  BY TypeOKParts
<1>2. dups' = dups
  BY DEF Restart, RestartLabels
<1>3. /\ DOMAIN seen_requests' = Nodes /\ \A x \in Nodes : SeenOK(seen_requests'[x])
      /\ DOMAIN discoveries' = Nodes
      /\ \A x \in Nodes : \A d \in DOMAIN discoveries'[x] :
           d \in NodeIds /\ discoveries'[x][d] \in DiscoveryState
  BY <1>1 DEF Restart, RestartProtocol, NodeTypeOK, SeenOK, NothingSeen, NoDiscoveries
<1>4. /\ routes' \in [Nodes -> [NodeIds -> Seq(RouteEntries)]]
      /\ pending_data' \in [Nodes -> [NodeIds -> Seq(Payloads)]]
  BY <1>1 DEF Restart, RestartProtocol, NodeTypeOK
<1>5. /\ next_request_id' \in [Nodes -> Nat] /\ next_sequence' \in [Nodes -> Nat]
      /\ metrics' \in [Nodes -> Metrics]
  BY <1>1 DEF Restart, RestartProtocol, NodeTypeOK, NoMetrics, Metrics
<1>6. UNCHANGED <<rreqs, rreps, datas, accepted, delivered, drops>>
  BY DEF Restart, RestartProtocol, historyVars
<1> QED
  BY <1>1, <1>2, <1>3, <1>4, <1>5, <1>6
  DEF NodeTypeOK, PacketTypeOK, HistoryTypeOK, SeenOK

\* HELLOs and their replies touch neither the routing state nor the packets.
LEMMA LabelStepType ==
  ASSUME TypeOK, LabelStep
  PROVE  NodeTypeOK' /\ PacketTypeOK' /\ HistoryTypeOK' /\ dups' \in 0..MaxDups
<1>1. NodeTypeOK /\ PacketTypeOK /\ HistoryTypeOK /\ dups \in 0..MaxDups
  BY TypeOKParts
<1>2. UNCHANGED <<nodeVars, rreqs, rreps, datas, historyVars>>
  BY DEF LabelStep
<1>3. dups' \in 0..MaxDups
  <2>1. \/ dups' = dups
        \/ \E m, sent : Receive(hellos, m, sent)
        \/ \E m, sent : Receive(helloReplies, m, sent)
    BY DEF LabelStep, SendHellos, handle_hello, IgnoreHello, AnswerHello, handle_hello_reply
  <2> QED
    BY <1>1, <2>1, UdpAssumption DEF UdpAssumption, Receive
<1> QED
  BY <1>1, <1>2, <1>3
  DEF nodeVars, historyVars, NodeTypeOK, PacketTypeOK, HistoryTypeOK, SeenOK

\* Clocks are set back a bounded number of times.
LEMMA ClockStep ==
  ASSUME [Next]_vars, setbacks \in 0..MaxSetBacks
  PROVE  setbacks' \in 0..MaxSetBacks
<1>1. setbacks' = setbacks \/ ClockSetBack
  <2>1. CASE LabelStep
    BY <2>1 DEF LabelStep
  <2>2. CASE PacketStep
    <3>1. ASSUME NEW p \in Payloads, QueuePayload(p) \/ SendOnCachedRoute(p)
          PROVE  UNCHANGED setbacks
      BY <3>1 DEF QueuePayload, SendOnCachedRoute
    <3>2. ASSUME NEW m \in rreqs, handle_rreq(m) PROVE UNCHANGED setbacks
      BY <3>2 DEF handle_rreq, RefuseRreq, DropRreq, AnswerRreq, ForwardRreq, RreqFrame
    <3>3. ASSUME NEW m \in rreps, handle_rrep(m) PROVE UNCHANGED setbacks
      BY <3>3 DEF handle_rrep, RejectRrep, CacheRoute, ForwardRrep
    <3>4. ASSUME NEW m \in datas, handle_data(m) PROVE UNCHANGED setbacks
      BY <3>4 DEF handle_data, DeliverData, ForwardData, drop_data
    <3> QED
      BY <2>2, <3>1, <3>2, <3>3, <3>4 DEF PacketStep
  <2>3. CASE TimerStep
    BY <2>3 DEF TimerStep, Tick, Elapse, SetBack
  <2>4. ASSUME NEW n \in Nodes, Restart(n) PROVE UNCHANGED setbacks
    BY <2>4 DEF Restart, RestartProtocol
  <2>5. CASE UNCHANGED vars
    BY <2>5 DEF vars
  <2> QED
    BY <2>1, <2>2, <2>3, <2>4, <2>5 DEF Next
<1> QED
  BY <1>1, ClockAssumption DEF ClockAssumption, ClockSetBack

\* Every step keeps the daemons' state well typed.
LEMMA TypeStep ==
  ASSUME TypeOK, [Next]_vars
  PROVE  TypeOK'
<1>1. LabelTypeOK'
  <2>1. LabelTypeOK
    BY TypeOKParts
  <2> QED
    BY <2>1, LabelRefinementStep, LabelTypeStep
<1>2. NodeTypeOK' /\ PacketTypeOK' /\ HistoryTypeOK' /\ dups' \in 0..MaxDups
  <2>1. dups \in 0..MaxDups
    BY TypeOKParts
  <2>2. CASE LabelStep
    BY <2>2, LabelStepType
  <2>3. CASE PacketStep
    BY <2>1, <2>3, QueuePayloadType, SendOnCachedRouteType, HandleRreqType, HandleRrepType,
       HandleDataType DEF PacketStep
  <2>4. CASE TimerStep
    BY <2>1, <2>4, TickType, ElapseType, SetBackType DEF TimerStep
  <2>5. ASSUME NEW n \in Nodes, Restart(n) PROVE NodeTypeOK' /\ PacketTypeOK' /\ HistoryTypeOK'
                                                /\ dups' \in 0..MaxDups
    BY <2>1, <2>5, RestartType
  <2>6. CASE UNCHANGED vars
    BY <2>6, TypeOKParts
    DEF vars, nodeVars, historyVars, NodeTypeOK, PacketTypeOK, HistoryTypeOK, SeenOK
  <2> QED
    BY <2>2, <2>3, <2>4, <2>5, <2>6 DEF Next
<1>3. setbacks' \in 0..MaxSetBacks
  <2>1. setbacks \in 0..MaxSetBacks
    BY TypeOKParts
  <2> QED
    BY <2>1, ClockStep
<1>4. (/\ LabelTypeOK /\ NodeTypeOK /\ PacketTypeOK /\ HistoryTypeOK
       /\ dups \in 0..MaxDups /\ setbacks \in 0..MaxSetBacks)' => TypeOK'
  BY TypeOKParts, PTL
<1> QED
  BY <1>1, <1>2, <1>3, <1>4

\* The initial state is well typed.
LEMMA TypeInit == Init => TypeOK
<1> SUFFICES ASSUME Init PROVE TypeOK
  OBVIOUS
<1>1. LabelTypeOK
  BY TopologyAssumption, LabelAssumption
  DEF TopologyAssumption, LabelAssumption, Init, LabelInit, LabelTypeOK, EmptyTable, NoLabel
<1>2. dups \in 0..MaxDups
  BY UdpAssumption DEF UdpAssumption, Init, LabelInit, UdpInit
<1>3. /\ routes \in [Nodes -> [NodeIds -> Seq(RouteEntries)]]
      /\ pending_data \in [Nodes -> [NodeIds -> Seq(Payloads)]]
  BY DEF Init
<1>4. NodeTypeOK
  BY <1>3 DEF Init, NodeTypeOK, SeenOK, NothingSeen, NoDiscoveries, NoMetrics, Metrics
<1>5. PacketTypeOK /\ HistoryTypeOK
  BY DEF Init, PacketTypeOK, HistoryTypeOK
<1>6. setbacks \in 0..MaxSetBacks
  BY ClockAssumption DEF ClockAssumption, Init, ClockInit
<1> QED
  BY <1>1, <1>2, <1>4, <1>5, <1>6, TypeOKParts

\* Every table, packet and history of the daemons stays within its type:
\* packets name known nodes, DL-DSR paths hold only real labels, hop_count is
\* a byte and no discovery counts more retries than allowed.
THEOREM TypeCorrect == Spec => []TypeOK
<1>1. TypeOK /\ [Next]_vars => TypeOK'
  BY TypeStep
<1> QED
  BY <1>1, TypeInit, PTL DEF Spec
\* restarts is only ever counted up.
LEMMA RestartsGrow ==
  ASSUME TypeOK, [Next]_vars, NEW n \in Nodes, restarts'[n] = 0
  PROVE  restarts[n] = 0 /\ ~Restart(n)
<1>1. restarts \in [Nodes -> Nat]
  BY DEF TypeOK, LabelTypeOK
<1>2. \A x \in Nodes : restarts'[x] = restarts[x] \/ restarts'[x] = restarts[x] + 1
  <2>1. CASE PacketStep \/ LabelStep \/ TimerStep \/ UNCHANGED vars
    <3>1. [LabelNext]_labelVars
      BY LabelRefinementStep
    <3>2. ASSUME NEW x \in Nodes, RestartLabels(x)
          PROVE  \A y \in Nodes : restarts'[y] = restarts[y] \/ restarts'[y] = restarts[y] + 1
      BY <1>1, <3>2 DEF RestartLabels
    <3> QED
      BY <3>1, <3>2 DEF LabelNext, labelVars, SendHellos, handle_hello, IgnoreHello, AnswerHello,
                        handle_hello_reply
  <2>2. CASE \E x \in Nodes : Restart(x)
    BY <1>1, <2>2 DEF Restart, RestartLabels
  <2> QED
    BY <2>1, <2>2 DEF Next
<1>3. Restart(n) => restarts'[n] = restarts[n] + 1
  BY <1>1 DEF Restart, RestartLabels
<1> QED
  BY <1>1, <1>2, <1>3
-----------------------------------------------------------------------------
(***************************************************************************)
(* Nobody waits without a discovery                                        *)
(***************************************************************************)
\* The destinations a node has payloads waiting for.
WaitedFor(n) == {d \in NodeIds : pending_data[n][d] # <<>>}

\* The property is about each node alone.
LEMMA PendingAtOne ==
  ASSUME PendingIffDiscovering, NEW n \in Nodes,
         \A x \in Nodes \ {n} :
           discoveries'[x] = discoveries[x] /\ pending_data'[x] = pending_data[x],
         DOMAIN discoveries'[n] = {d \in NodeIds : pending_data'[n][d] # <<>>}
  PROVE  PendingIffDiscovering'
BY DEF PendingIffDiscovering

\* A command joins the discovery under way or starts one.
LEMMA QueuePayloadPending ==
  ASSUME TypeOK, PendingIffDiscovering, NEW p \in Payloads, QueuePayload(p)
  PROVE  PendingIffDiscovering'
<1> DEFINE n == Src[p]
           d == Dst[p]
<1>1. n \in Nodes /\ d \in NodeIds
  BY ProtocolAssumption DEF ProtocolAssumption
<1>2. /\ pending_data[n][d] \in Seq(Payloads)
      /\ pending_data \in [Nodes -> [NodeIds -> Seq(Payloads)]]
      /\ DOMAIN discoveries = Nodes
  BY <1>1 DEF TypeOK
<1>3. pending_data' = [pending_data EXCEPT ![n][d] = Append(pending_data[n][d], p)]
  BY DEF QueuePayload
<1>4. DOMAIN discoveries[n] = WaitedFor(n)
  BY <1>1 DEF PendingIffDiscovering, WaitedFor
<1>5. /\ DOMAIN discoveries'[n] = WaitedFor(n) \cup {d}
      /\ \A x \in Nodes \ {n} : discoveries'[x] = discoveries[x]
  <2>1. CASE d \in DOMAIN discoveries[n]
    <3>1. discoveries' = discoveries
      BY <2>1 DEF QueuePayload
    <3> QED
      BY <1>4, <2>1, <3>1
  <2>2. CASE d \notin DOMAIN discoveries[n]
    <3> DEFINE ids == [x \in {d} |-> next_request_id[n]]
               retries == [x \in {d} |-> 0]
    <3>1. start_discoveries(n, ids, retries, DOMAIN discoveries[n], 0)
      BY <2>2 DEF QueuePayload
    <3>2. DOMAIN ids = {d}
      OBVIOUS
    <3> HIDE DEF ids, retries
    <3> QED
      BY <1>1, <1>2, <1>4, <3>1, <3>2 DEF start_discoveries
  <2> QED
    BY <2>1, <2>2
<1> HIDE DEF n, d
<1>6. /\ {x \in NodeIds : pending_data'[n][x] # <<>>} = WaitedFor(n) \cup {d}
      /\ \A x \in Nodes \ {n} : pending_data'[x] = pending_data[x]
  <2>1. Append(pending_data[n][d], p) # <<>>
    BY <1>2, AppendProperties
  <2>2. \A x \in NodeIds : pending_data'[n][x] =
          IF x = d THEN Append(pending_data[n][d], p) ELSE pending_data[n][x]
    BY <1>1, <1>2, <1>3
  <2>3. \A x \in Nodes \ {n} : pending_data'[x] = pending_data[x]
    BY <1>1, <1>2, <1>3
  <2>4. \A x \in NodeIds : pending_data'[n][x] # <<>> <=> x \in WaitedFor(n) \cup {d}
    BY <2>1, <2>2 DEF WaitedFor
  <2>5. WaitedFor(n) \cup {d} \subseteq NodeIds
    BY <1>1 DEF WaitedFor
  <2> QED
    BY <2>3, <2>4, <2>5
<1> QED
  BY <1>1, <1>5, <1>6, PendingAtOne

\* The timer empties exactly the queues of the discoveries it gives up.
LEMMA TickPending ==
  ASSUME TypeOK, PendingIffDiscovering, NEW n \in Nodes, Tick(n)
  PROVE  PendingIffDiscovering'
<1> DEFINE expired == {d \in DOMAIN discoveries[n] : Elapsed(discoveries[n][d].age) >= DiscoveryTimeout}
           failed  == {d \in expired : Exhausted(discoveries[n][d])}
           retried == expired \ failed
           retries == [d \in retried |-> discoveries[n][d].retries_done + 1]
           next    == next_request_id[n]
<1>1. PICK ids \in Injection(retried, next..(next + Cardinality(retried) - 1)) :
        start_discoveries(n, ids, retries, DOMAIN discoveries[n] \ expired, Cardinality(failed))
  BY DEF Tick
<1>2. DOMAIN ids = retried
  BY <1>1 DEF Injection
<1>3. pending_data' = [pending_data EXCEPT ![n] = drop_pending_for_dst(pending_data[n], failed)]
  BY DEF Tick
<1>4. DOMAIN discoveries[n] = WaitedFor(n)
  BY DEF PendingIffDiscovering, WaitedFor
<1>5. /\ DOMAIN discoveries = Nodes
      /\ pending_data \in [Nodes -> [NodeIds -> Seq(Payloads)]]
  BY DEF TypeOK
<1>6. (DOMAIN discoveries[n] \ expired) \cup retried = WaitedFor(n) \ failed
  <2>1. failed \subseteq expired /\ expired \subseteq DOMAIN discoveries[n]
    OBVIOUS
  <2> HIDE DEF expired, failed
  <2> QED
    BY <1>4, <2>1
<1> HIDE DEF expired, failed, retried, retries, next
<1>7. /\ {d \in NodeIds : pending_data'[n][d] # <<>>} = WaitedFor(n) \ failed
      /\ \A x \in Nodes \ {n} : pending_data'[x] = pending_data[x]
  BY <1>3, <1>5 DEF drop_pending_for_dst, WaitedFor
<1>8. /\ DOMAIN discoveries'[n] = WaitedFor(n) \ failed
      /\ \A x \in Nodes \ {n} : discoveries'[x] = discoveries[x]
  BY <1>1, <1>2, <1>5, <1>6 DEF start_discoveries
<1> QED
  BY <1>7, <1>8, PendingAtOne

\* A reply, also a late or a repeated one, ends the discovery and empties the
\* queue of its destination together.
LEMMA CacheRoutePending ==
  ASSUME TypeOK, PendingIffDiscovering, NEW m \in rreps, CacheRoute(m)
  PROVE  PendingIffDiscovering'
<1> DEFINE n == m.to
           d == m.dst_node_id
<1>1. n \in Nodes /\ d \in NodeIds
  BY DEF TypeOK, Rrep
<1>2. /\ discoveries' = [discoveries EXCEPT ![n] = remove_discovery(discoveries[n], d)]
      /\ pending_data' = [pending_data EXCEPT ![n] = flushed(pending_data[n], d)]
  BY DEF CacheRoute
<1>3. /\ DOMAIN discoveries[n] = WaitedFor(n)
      /\ DOMAIN discoveries = Nodes
      /\ pending_data \in [Nodes -> [NodeIds -> Seq(Payloads)]]
  BY <1>1 DEF PendingIffDiscovering, WaitedFor, TypeOK
<1> HIDE DEF n, d
<1>4. /\ DOMAIN discoveries'[n] = WaitedFor(n) \ {d}
      /\ \A x \in Nodes \ {n} : discoveries'[x] = discoveries[x]
  BY <1>1, <1>2, <1>3 DEF remove_discovery, Restrict
<1>5. /\ {x \in NodeIds : pending_data'[n][x] # <<>>} = WaitedFor(n) \ {d}
      /\ \A x \in Nodes \ {n} : pending_data'[x] = pending_data[x]
  BY <1>1, <1>2, <1>3 DEF flushed, WaitedFor
<1> QED
  BY <1>1, <1>4, <1>5, PendingAtOne

\* Every step keeps the property.
LEMMA PendingStep ==
  ASSUME TypeOK, PendingIffDiscovering, [Next]_vars
  PROVE  PendingIffDiscovering'
<1> DEFINE Untouched == UNCHANGED <<discoveries, pending_data>>
<1>1. CASE Untouched
  BY <1>1 DEF PendingIffDiscovering
<1>2. ASSUME NEW p \in Payloads, QueuePayload(p) PROVE PendingIffDiscovering'
  BY <1>2, QueuePayloadPending
<1>3. ASSUME NEW p \in Payloads, SendOnCachedRoute(p) PROVE Untouched
  BY <1>3 DEF SendOnCachedRoute
<1>4. ASSUME NEW m \in rreqs, handle_rreq(m) PROVE Untouched
  BY <1>4 DEF handle_rreq, RefuseRreq, DropRreq, AnswerRreq, ForwardRreq, RreqFrame
<1>5. ASSUME NEW m \in rreps, handle_rrep(m) PROVE CacheRoute(m) \/ Untouched
  BY <1>5 DEF handle_rrep, RejectRrep, ForwardRrep, nodeVars
<1>6. ASSUME NEW m \in datas, handle_data(m) PROVE Untouched
  BY <1>6 DEF handle_data, DeliverData, ForwardData, drop_data, nodeVars
<1>7. ASSUME NEW n \in Nodes, Tick(n) PROVE PendingIffDiscovering'
  BY <1>7, TickPending
<1>8. ASSUME NEW n \in Nodes, Elapse(n) PROVE PendingIffDiscovering'
  BY <1>8 DEF Elapse, ClockFrame, AgeDiscoveries, PendingIffDiscovering, TypeOK
<1>9. ASSUME NEW n \in Nodes, Restart(n) PROVE PendingIffDiscovering'
  BY <1>9 DEF Restart, RestartProtocol, NoDiscoveries, PendingIffDiscovering, TypeOK
<1>10. CASE LabelStep
  <2>1. Untouched
    BY <1>10 DEF LabelStep, nodeVars
  <2> QED
    BY <1>1, <2>1
<1>11. CASE UNCHANGED vars
  <2>1. Untouched
    BY <1>11 DEF vars, nodeVars
  <2> QED
    BY <1>1, <2>1
<1> HIDE DEF Untouched
<1>12. CASE PacketStep
  BY <1>1, <1>2, <1>3, <1>4, <1>5, <1>6, <1>12, CacheRoutePending DEF PacketStep
<1>13. ASSUME NEW n \in Nodes, SetBack(n) PROVE PendingIffDiscovering'
  BY <1>13 DEF SetBack, ClockFrame, RejuvenateDiscoveries, PendingIffDiscovering, TypeOK
<1>14. CASE TimerStep
  BY <1>7, <1>8, <1>13, <1>14 DEF TimerStep
<1> QED
  BY <1>9, <1>10, <1>11, <1>12, <1>14 DEF Next

\* A payload waits in pending_data exactly as long as a discovery for its
\* destination runs, in every network and whatever is lost, late, repeated or
\* restarted.  TypeOK makes it inductive: the queues and discoveries have to
\* be functions on the known nodes for an update of one to leave the others.
THEOREM PendingIffDiscoveringTheorem == Spec => []PendingIffDiscovering
<1>1. Init => PendingIffDiscovering
  BY DEF Init, PendingIffDiscovering, NoDiscoveries
<1>2. TypeOK /\ PendingIffDiscovering /\ [Next]_vars => PendingIffDiscovering'
  BY PendingStep
<1> QED
  BY <1>1, <1>2, TypeCorrect, PTL DEF Spec
-----------------------------------------------------------------------------
(***************************************************************************)
(* Floods are bounded                                                      *)
(***************************************************************************)
\* What HopsBounded says of one request.
HopsOK(m) == m.hop_count <= MaxRreqHops /\ Len(m.trace_path) <= m.hop_count + 1

\* A request starts within the limit.
LEMMA RequestsHops ==
  ASSUME NEW n \in Nodes, NEW d, NEW id, NEW m \in Requests(n, d, id)
  PROVE  HopsOK(m)
<1>1. m.hop_count = 0 /\ m.trace_path = <<n>>
  BY DEF Requests
<1> QED
  BY <1>1, ProtocolAssumption DEF HopsOK, ProtocolAssumption

\* A request that passes the hop check is forwarded within the limit, and its
\* u8 hop_count does not wrap.
LEMMA ForwardedHops ==
  ASSUME NEW m \in Rreq, HopsOK(m), AdmitsRreq(m), NEW to
  PROVE  HopsOK(ForwardedRreq(m, to))
<1>1. m.hop_count \in 0..255
  BY Zenon DEF Rreq
<1>2. m.hop_count < MaxRreqHops /\ MaxRreqHops \in 0..255
  BY ProtocolAssumption DEF ProtocolAssumption, AdmitsRreq
<1>3. (m.hop_count + 1) % 256 = m.hop_count + 1
  BY <1>1, <1>2
<1>4. m.trace_path \in Seq(Nodes) /\ m.to \in Nodes
  BY DEF Rreq
<1>5. Len(Visited(m.trace_path, m.to)) <= Len(m.trace_path) + 1
  BY <1>4 DEF Visited
<1>6. /\ ForwardedRreq(m, to).hop_count = (m.hop_count + 1) % 256
      /\ ForwardedRreq(m, to).trace_path = Visited(m.trace_path, m.to)
  BY DEF ForwardedRreq
<1>7. Len(m.trace_path) \in Nat /\ Len(Visited(m.trace_path, m.to)) \in Nat
  BY <1>4 DEF Visited
<1>8. Len(m.trace_path) <= m.hop_count + 1
  BY DEF HopsOK
<1>9. /\ m.hop_count + 1 <= MaxRreqHops
      /\ Len(Visited(m.trace_path, m.to)) <= m.hop_count + 1 + 1
  <2>1. \A h, max \in 0..255 : \A len, new \in Nat :
          h < max /\ len <= h + 1 /\ new <= len + 1 => h + 1 <= max /\ new <= h + 1 + 1
    OBVIOUS
  <2> QED
    BY <1>1, <1>2, <1>5, <1>7, <1>8, <2>1, Zenon
<1>10. /\ ForwardedRreq(m, to).hop_count = m.hop_count + 1
       /\ ForwardedRreq(m, to).trace_path = Visited(m.trace_path, m.to)
  BY <1>3, <1>6
<1> QED
  BY <1>9, <1>10, Zenon DEF HopsOK

\* Requests are created by start_discovery and by forwarding only.
LEMMA NewRreqs ==
  ASSUME TypeOK, [Next]_vars, NEW m \in rreqs', m \notin rreqs
  PROVE  \/ \E n \in Nodes : \E d, id : m \in Requests(n, d, id)
         \/ \E r \in rreqs : /\ AdmitsRreq(r) /\ ~Unlabelled(r) /\ r.to # r.dst_node_id
                             /\ \E to \in Reachable(r.to) : m = ForwardedRreq(r, to)
<1> DEFINE New == \/ \E n \in Nodes : \E d, id : m \in Requests(n, d, id)
                  \/ \E r \in rreqs : /\ AdmitsRreq(r) /\ ~Unlabelled(r) /\ r.to # r.dst_node_id
                                      /\ \E to \in Reachable(r.to) : m = ForwardedRreq(r, to)
<1>1. ASSUME NEW n \in Nodes, NEW ids, NEW retries, NEW kept, NEW failures,
             start_discoveries(n, ids, retries, kept, failures)
      PROVE  New
  BY <1>1 DEF start_discoveries
<1>2. ASSUME NEW r \in rreqs, handle_rreq(r) PROVE New
  <2>1. CASE ForwardRreq(r)
    BY <2>1 DEF ForwardRreq, Receive
  <2>2. CASE ~ForwardRreq(r)
    BY <1>2, <2>2 DEF handle_rreq, RefuseRreq, DropRreq, AnswerRreq, Receive
  <2> QED
    BY <2>1, <2>2
<1> SUFFICES New
  OBVIOUS
<1> HIDE DEF New
<1>3. ASSUME NEW p \in Payloads, QueuePayload(p) PROVE New
  <2>1. Src[p] \in Nodes
    BY ProtocolAssumption DEF ProtocolAssumption
  <2> QED
    BY <1>1, <1>3, <2>1 DEF QueuePayload
<1>4. ASSUME NEW n \in Nodes, Tick(n) PROVE New
  BY <1>1, <1>4 DEF Tick
<1>5. CASE PacketStep
  <2>1. \A p \in Payloads : ~SendOnCachedRoute(p)
    BY DEF SendOnCachedRoute
  <2>2. \A r \in rreps : ~handle_rrep(r)
    BY DEF handle_rrep, RejectRrep, CacheRoute, ForwardRrep
  <2>3. \A r \in datas : ~handle_data(r)
    BY DEF handle_data, DeliverData, ForwardData, drop_data
  <2> QED
    BY <1>2, <1>3, <1>5, <2>1, <2>2, <2>3 DEF PacketStep
<1>6. CASE TimerStep
  BY <1>4, <1>6 DEF TimerStep, Elapse, SetBack, ClockFrame
<1>7. CASE LabelStep
  BY <1>7 DEF LabelStep
<1>8. CASE \E n \in Nodes : Restart(n)
  BY <1>8 DEF Restart, RestartProtocol
<1>9. CASE UNCHANGED vars
  BY <1>9 DEF vars
<1> QED
  BY <1>5, <1>6, <1>7, <1>8, <1>9 DEF Next

\* However often the caches forget a request and it runs in circles, hop_count
\* stays within max_rreq_hops, its u8 never wraps, and it bounds the trace:
\* a flood ends, in every network.
THEOREM HopsBoundedTheorem == Spec => []HopsBounded
<1>1. Init => HopsBounded
  BY DEF Init, HopsBounded
<1>2. ASSUME TypeOK, HopsBounded, [Next]_vars, NEW m \in rreqs' PROVE HopsOK(m)
  <2>1. CASE m \in rreqs
    BY <1>2, <2>1 DEF HopsBounded, HopsOK
  <2>2. ASSUME NEW n \in Nodes, NEW d, NEW id, m \in Requests(n, d, id) PROVE HopsOK(m)
    BY <2>2, RequestsHops
  <2>3. ASSUME NEW r \in rreqs, AdmitsRreq(r), NEW to, m = ForwardedRreq(r, to) PROVE HopsOK(m)
    <3>1. r \in Rreq /\ HopsOK(r)
      BY <1>2 DEF TypeOK, HopsBounded, HopsOK
    <3> QED
      BY <2>3, <3>1, ForwardedHops
  <2> QED
    BY <1>2, <2>1, <2>2, <2>3, NewRreqs
<1>3. TypeOK /\ HopsBounded /\ [Next]_vars => HopsBounded'
  BY <1>2 DEF HopsBounded, HopsOK
<1> QED
  BY <1>1, <1>3, TypeCorrect, PTL DEF Spec
=============================================================================
