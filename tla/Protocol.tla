------------------------------ MODULE Protocol ------------------------------
(***************************************************************************)
(* ProtocolState (dldsr-node/src/protocol.rs) of every daemon, composed    *)
(* with the label exchange and the network: route discovery by RREQ and    *)
(* RREP, the pending queue with its retries, and source-routed DATA.       *)
(*                                                                         *)
(* Time is kept as ages that Elapse advances, each daemon on its own       *)
(* clock, and SetBack takes back.                                          *)
(*                                                                         *)
(* A payload stands for one send command, Src and Dst say which daemon is  *)
(* given it and for which destination.  accepted, delivered and drops are  *)
(* history: what was commanded, what DataDelivered events reported, and    *)
(* what was counted in data_dropped.                                       *)
(*                                                                         *)
(* A definition X_suffix before X is X with a plausible bug; no definition *)
(* uses it.  The properties are tested against these.                      *)
(***************************************************************************)
EXTENDS LabelExchange, SeenRequests, RouteCache

CONSTANTS DlDsrNodes,        \* nodes configured with protocol_mode DlDsr
          StrictNodes,       \* nodes with strict_protocol_mode
          DiscoveryTimeout,  \* route_discovery_timeout_ms, in clock steps
          MaxRetries,        \* route_discovery_max_retries
          MaxRreqHops,       \* max_rreq_hops, a u8
          Payloads, Src, Dst

ASSUME ProtocolAssumption ==
  /\ DlDsrNodes \subseteq Nodes /\ StrictNodes \subseteq Nodes
  /\ DiscoveryTimeout \in Nat /\ MaxRetries \in Nat
  /\ MaxRreqHops \in 0..255
  /\ Src \in [Payloads -> Nodes] /\ Dst \in [Payloads -> NodeIds]

VARIABLES routes, seen_requests, pending_data, discoveries,
          next_request_id, next_sequence, metrics,
          rreqs, rreps, datas,          \* datagrams in flight
          accepted, delivered, drops    \* history

nodeVars == <<routes, seen_requests, pending_data, discoveries,
              next_request_id, next_sequence, metrics>>
historyVars == <<accepted, delivered, drops>>
vars == <<labelVars, dups, setbacks, nodeVars, rreqs, rreps, datas, historyVars>>

protocol_mode(n) == IF n \in DlDsrNodes THEN "DlDsr" ELSE "Dsr"

\* The entries of NodeMetrics that count discoveries.
NoMetrics == [attempts |-> 0, successes |-> 0, failures |-> 0]

NoDiscoveries == [d \in {} |-> 0]

Init ==
  /\ LabelInit /\ ClockInit
  /\ routes = [n \in Nodes |-> [d \in NodeIds |-> <<>>]]
  /\ seen_requests = [n \in Nodes |-> NothingSeen]
  /\ pending_data = [n \in Nodes |-> [d \in NodeIds |-> <<>>]]
  /\ discoveries = [n \in Nodes |-> NoDiscoveries]
  /\ next_request_id = [n \in Nodes |-> 1]
  /\ next_sequence = [n \in Nodes |-> 1]
  /\ metrics = [n \in Nodes |-> NoMetrics]
  /\ rreqs = {} /\ rreps = {} /\ datas = {}
  /\ accepted = {} /\ delivered = {} /\ drops = {}
-----------------------------------------------------------------------------
(***************************************************************************)
(* Starting discoveries                                                    *)
(***************************************************************************)
\* The requests n broadcasts for destination d.
Requests(n, d, request_id) ==
  {[src_node_id |-> n, dst_node_id |-> d, request_id |-> request_id,
    previous_hop |-> n, hop_count |-> 0,
    dsr_path |-> <<n>>, dldsr_label_path |-> <<>>, trace_path |-> <<n>>,
    to |-> neighbor] : neighbor \in Reachable(n)}

TakeIds_kept(n, ids) == UNCHANGED next_request_id

TakeIds(n, ids) == next_request_id' = [next_request_id EXCEPT ![n] = @ + Cardinality(DOMAIN ids)]

\* start_discovery for every destination of `ids`, with the request ids it
\* assigns; `retries[d]` is the number of retries done with this one, `kept`
\* the destinations whose discovery goes on untouched, `failures` the number
\* of discoveries given up in the same step.
start_discoveries(n, ids, retries, kept, failures) ==
  /\ TakeIds(n, ids)
  /\ seen_requests' = [seen_requests EXCEPT ![n] = mark(@, {<<n, ids[d]>> : d \in DOMAIN ids})]
  /\ discoveries' = [discoveries EXCEPT ![n] =
       [d \in kept \cup DOMAIN ids |->
          IF d \in DOMAIN ids
            THEN [request_id |-> ids[d], age |-> 0, retries_done |-> retries[d]]
            ELSE discoveries[n][d]]]
  /\ metrics' = [metrics EXCEPT ![n] =
       [attempts |-> @.attempts + Cardinality(DOMAIN ids), successes |-> @.successes,
        failures |-> @.failures + failures]]
  /\ rreqs' = rreqs \cup UNION {Requests(n, d, ids[d]) : d \in DOMAIN ids}

\* discover_and_send without a cached route.  A second command for the same
\* destination joins the discovery under way.
QueuePayload(p) ==
  LET n == Src[p]
      d == Dst[p]
  IN  /\ p \notin accepted
      /\ accepted' = accepted \cup {p}
      /\ shortest(routes[n][d]) = {}
      /\ pending_data' = [pending_data EXCEPT ![n][d] = Append(@, p)]
      /\ \/ /\ d \in DOMAIN discoveries[n]
            /\ UNCHANGED <<next_request_id, seen_requests, discoveries, rreqs, metrics>>
         \/ /\ d \notin DOMAIN discoveries[n]
            /\ start_discoveries(n, [x \in {d} |-> next_request_id[n]], [x \in {d} |-> 0],
                                 DOMAIN discoveries[n], 0)
      /\ UNCHANGED <<labelVars, dups, setbacks, routes, next_sequence, rreps, datas, delivered, drops>>

Exhausted_early(state) == state.retries_done + 1 >= MaxRetries

Exhausted(state) == state.retries_done >= MaxRetries

drop_pending_for_dst_kept(pending, ds) == pending

drop_pending_for_dst(pending, ds) == [d \in NodeIds |-> IF d \in ds THEN <<>> ELSE pending[d]]

\* handle_tick: forget old requests, then fail the expired discoveries that
\* have no retry left and restart the others, in the order in which the
\* HashMap lists them.
Tick(n) ==
  LET expired == {d \in DOMAIN discoveries[n] : Elapsed(discoveries[n][d].age) >= DiscoveryTimeout}
      failed  == {d \in expired : Exhausted(discoveries[n][d])}
      retried == expired \ failed
      next    == next_request_id[n]
  IN  /\ \E ids \in Injection(retried, next..(next + Cardinality(retried) - 1)) :
           start_discoveries(n, ids, [d \in retried |-> discoveries[n][d].retries_done + 1],
                             DOMAIN discoveries[n] \ expired, Cardinality(failed))
      /\ pending_data' = [pending_data EXCEPT ![n] = drop_pending_for_dst(@, failed)]
      /\ drops' = drops \cup
           [payload : UNION {Range(pending_data[n][d]) : d \in failed}, node : {n},
            reason : {"discovery failed"}, reported : {TRUE}]
      /\ UNCHANGED <<labelVars, dups, setbacks, routes, next_sequence, rreps, datas, accepted, delivered>>
-----------------------------------------------------------------------------
(***************************************************************************)
(* RREQ                                                                    *)
(***************************************************************************)
\* A path with node n at its end.
Visited(path, n) == IF path[Len(path)] = n THEN path ELSE Append(path, n)

Position_last(path, n) ==
  {i \in DOMAIN path : path[i] = n /\ \A j \in DOMAIN path : path[j] = n => i >= j}

\* `position` and previous_in_trace return Options, here sets with at most one
\* element.
Position(path, n) ==
  {i \in DOMAIN path : path[i] = n /\ \A j \in DOMAIN path : path[j] = n => i <= j}
previous_in_trace(path, n) == {path[i - 1] : i \in Position(path, n) \ {1}}

LabelVisited_own(label_path, n, previous_hop) ==
  IF n \in DlDsrNodes THEN Append(label_path, neighbors[n][previous_hop]) ELSE label_path

\* The labels a node adds: the one its previous hop assigned to it.
LabelVisited(label_path, n, previous_hop) ==
  IF n \in DlDsrNodes THEN Append(label_path, labels[n][previous_hop]) ELSE label_path

\* What the node that receives RREQ m sends on, by `to`.
ForwardedRreq(m, to) ==
  [src_node_id |-> m.src_node_id, dst_node_id |-> m.dst_node_id,
   request_id |-> m.request_id, previous_hop |-> m.to,
   hop_count |-> (m.hop_count + 1) % 256,
   dsr_path |-> Visited(m.dsr_path, m.to),
   dldsr_label_path |-> LabelVisited(m.dldsr_label_path, m.to, m.previous_hop),
   trace_path |-> Visited(m.trace_path, m.to), to |-> to]

Reply(m, to) ==
  [src_node_id |-> m.src_node_id, dst_node_id |-> m.dst_node_id,
   request_id |-> m.request_id,
   dsr_path |-> Visited(m.dsr_path, m.to),
   dldsr_label_path |-> LabelVisited(m.dldsr_label_path, m.to, m.previous_hop),
   trace_path |-> Visited(m.trace_path, m.to), from |-> m.to, to |-> to]

RreqKey(m) == <<m.src_node_id, m.request_id>>

AdmitsRreq_off_by_one(m) ==
  is_logical_neighbor(m.to, m.previous_hop) /\ m.hop_count <= MaxRreqHops

AdmitsRreq_strangers(m) == m.hop_count < MaxRreqHops

\* The early checks of handle_rreq pass.
AdmitsRreq(m) == is_logical_neighbor(m.to, m.previous_hop) /\ m.hop_count < MaxRreqHops

MarkRreq(m) == seen_requests' = [seen_requests EXCEPT ![m.to] = mark(@, {RreqKey(m)})]

Unlabelled_unchecked(m) == FALSE

\* A DL-DSR node without the label of the previous hop cannot extend the path.
Unlabelled(m) == m.to \in DlDsrNodes /\ labels[m.to][m.previous_hop] = NoLabel

RreqFrame ==
  UNCHANGED <<labelVars, setbacks, routes, pending_data, discoveries, next_request_id,
              next_sequence, metrics, datas, historyVars>>

\* RREQ of a non-neighbour, or over the hop limit.
RefuseRreq(m) ==
  /\ ~AdmitsRreq(m)
  /\ Receive(rreqs, m, {})
  /\ RreqFrame /\ UNCHANGED <<seen_requests, rreps>>

\* A request seen before; or one that cannot be extended, which is marked as
\* seen all the same.
DropRreq(m) ==
  /\ AdmitsRreq(m)
  /\ ~is_new(seen_requests[m.to], RreqKey(m)) \/ Unlabelled(m)
  /\ Receive(rreqs, m, {})
  /\ MarkRreq(m)
  /\ RreqFrame /\ UNCHANGED rreps

\* The destination answers along the trace.
AnswerRreq(m) ==
  /\ AdmitsRreq(m) /\ is_new(seen_requests[m.to], RreqKey(m)) /\ ~Unlabelled(m)
  /\ m.to = m.dst_node_id
  /\ Receive(rreqs, m, {})
  /\ MarkRreq(m)
  /\ rreps' = rreps \cup
       {Reply(m, next) : next \in previous_in_trace(Visited(m.trace_path, m.to), m.to) \cap Nodes}
  /\ RreqFrame

\* Any other node passes the request on to all neighbours but the previous hop.
ForwardRreq(m) ==
  /\ AdmitsRreq(m) /\ is_new(seen_requests[m.to], RreqKey(m)) /\ ~Unlabelled(m)
  /\ m.to # m.dst_node_id
  /\ Receive(rreqs, m, {ForwardedRreq(m, to) : to \in Reachable(m.to) \ {m.previous_hop}})
  /\ MarkRreq(m)
  /\ RreqFrame /\ UNCHANGED rreps

handle_rreq(m) == RefuseRreq(m) \/ DropRreq(m) \/ AnswerRreq(m) \/ ForwardRreq(m)
-----------------------------------------------------------------------------
(***************************************************************************)
(* Originating DATA                                                        *)
(***************************************************************************)
\* The next hop of next_data_endpoint, an Option, for route_cursor 0.
next_data_endpoint(n, route) ==
  IF n \in DlDsrNodes
    THEN IF route.dldsr_label_path = <<>> THEN {}
         ELSE neighbor_by_label(n, route.dldsr_label_path[1])
    ELSE IF Len(route.dsr_path) < 2 THEN {} ELSE {route.dsr_path[2]} \cap Nodes

\* The packet that takes the i-th of the payloads to its first hop.
OriginPacket(n, d, payloads, i, route, next) ==
  [src_node_id |-> n, dst_node_id |-> d,
   sequence |-> next_sequence[n] + i - 1, protocol_mode |-> protocol_mode(n),
   route_cursor |-> 1, dsr_path |-> route.dsr_path,
   dldsr_label_path |-> route.dldsr_label_path, payload |-> payloads[i],
   from |-> n, to |-> next]

\* origin_data for a sequence of payloads, one after the other; `reported` says
\* whether the caller keeps the events of a drop.
origin_data(n, d, payloads, route, reported) ==
  LET hop == next_data_endpoint(n, route)
  IN  /\ next_sequence' = [next_sequence EXCEPT ![n] = @ + Len(payloads)]
      /\ datas' = datas \cup
           UNION {{OriginPacket(n, d, payloads, i, route, next) : next \in hop} :
                    i \in DOMAIN payloads}
      /\ drops' = drops \cup
           [payload : IF hop = {} THEN Range(payloads) ELSE {}, node : {n},
            reason : {"no next hop"}, reported : {reported}]

\* discover_and_send with a cached route.
SendOnCachedRoute(p) ==
  /\ p \notin accepted
  /\ accepted' = accepted \cup {p}
  /\ \E route \in shortest(routes[Src[p]][Dst[p]]) :
       origin_data(Src[p], Dst[p], <<p>>, route, TRUE)
  /\ UNCHANGED <<labelVars, dups, setbacks, routes, seen_requests, pending_data, discoveries,
                 next_request_id, metrics, rreqs, rreps, delivered>>
-----------------------------------------------------------------------------
(***************************************************************************)
(* RREP                                                                    *)
(***************************************************************************)
validate_rrep(n, m) ==
  /\ is_logical_neighbor(n, m.from)
  /\ \E i \in Position(m.trace_path, n) :
       /\ i < Len(m.trace_path) /\ m.trace_path[i + 1] = m.from
       /\ are_adjacent(n, m.from)
       /\ i > 1 => are_adjacent(n, m.trace_path[i - 1])

RejectRrep(m) ==
  /\ ~validate_rrep(m.to, m)
  /\ Receive(rreps, m, {})
  /\ UNCHANGED <<labelVars, setbacks, nodeVars, rreqs, datas, historyVars>>

remove_discovery_kept(ds, d) == ds

remove_discovery(ds, d) == Restrict(ds, DOMAIN ds \ {d})

flushed_kept(pending, d) == pending

\* What flush_pending leaves in the queue.
flushed(pending, d) == [pending EXCEPT ![d] = <<>>]

\* The origin caches the route, ends the discovery, if it still runs, and
\* flushes what waits for the destination; the events of flush_pending's
\* drops are discarded.  The request id is not compared with the discovery's.
CacheRoute(m) ==
  LET n == m.to
      d == m.dst_node_id
      route == RouteEntry(m.dsr_path, IF n \in DlDsrNodes THEN m.dldsr_label_path ELSE <<>>)
  IN  /\ validate_rrep(n, m)
      /\ n = m.src_node_id
      /\ Receive(rreps, m, {})
      /\ routes' = [routes EXCEPT ![n][d] = Append(@, route)]
      /\ discoveries' = [discoveries EXCEPT ![n] = remove_discovery(@, d)]
      /\ metrics' = [metrics EXCEPT ![n] =
           [attempts |-> @.attempts, successes |-> @.successes + 1, failures |-> @.failures]]
      /\ pending_data' = [pending_data EXCEPT ![n] = flushed(@, d)]
      /\ origin_data(n, d, pending_data[n][d], route, FALSE)
      /\ UNCHANGED <<labelVars, setbacks, seen_requests, next_request_id, rreqs, accepted, delivered>>

ForwardedRrep(m, to) ==
  [src_node_id |-> m.src_node_id, dst_node_id |-> m.dst_node_id,
   request_id |-> m.request_id, dsr_path |-> m.dsr_path,
   dldsr_label_path |-> m.dldsr_label_path, trace_path |-> m.trace_path,
   from |-> m.to, to |-> to]

\* Any other node passes the reply on along the trace.
ForwardRrep(m) ==
  /\ validate_rrep(m.to, m)
  /\ m.to # m.src_node_id
  /\ Receive(rreps, m, {ForwardedRrep(m, next) :
                          next \in previous_in_trace(m.trace_path, m.to) \cap Nodes})
  /\ UNCHANGED <<labelVars, setbacks, nodeVars, rreqs, datas, historyVars>>

handle_rrep(m) == RejectRrep(m) \/ CacheRoute(m) \/ ForwardRrep(m)
-----------------------------------------------------------------------------
(***************************************************************************)
(* DATA                                                                    *)
(***************************************************************************)
\* The checks of handle_data before it looks at the destination.
AdmitsData(m) ==
  /\ m.to \in StrictNodes => m.protocol_mode = protocol_mode(m.to)
  /\ is_logical_neighbor(m.to, m.from)

validate_data_delivery_off_by_one(n, m) ==
  IF m.protocol_mode = "Dsr"
    THEN /\ m.dsr_path[Len(m.dsr_path)] = n
         /\ \E i \in Position(m.dsr_path, n) :
              m.route_cursor = i /\ i > 1 /\ m.dsr_path[i - 1] = m.from
    ELSE m.route_cursor = Len(m.dldsr_label_path)

validate_data_delivery(n, m) ==
  IF m.protocol_mode = "Dsr"
    THEN /\ m.dsr_path[Len(m.dsr_path)] = n
         /\ \E i \in Position(m.dsr_path, n) :
              m.route_cursor = i - 1 /\ i > 1 /\ m.dsr_path[i - 1] = m.from
    ELSE m.route_cursor = Len(m.dldsr_label_path)

NextHop_uncounted(n, m) ==
  LET c == m.route_cursor
  IN  IF m.protocol_mode = "Dsr"
        THEN IF c < Len(m.dsr_path) /\ m.dsr_path[c] = n
               THEN {m.dsr_path[c + 1]} \cap Neighbors[n] ELSE {}
        ELSE IF c <= Len(m.dldsr_label_path)
               THEN neighbor_by_label(n, m.dldsr_label_path[c]) \cap Neighbors[n] ELSE {}

\* The node a DATA packet goes to from n, an Option; route_cursor counts from 0.
NextHop(n, m) ==
  LET c == m.route_cursor + 1
  IN  IF m.protocol_mode = "Dsr"
        THEN IF c < Len(m.dsr_path) /\ m.dsr_path[c] = n
               THEN {m.dsr_path[c + 1]} \cap Neighbors[n] ELSE {}
        ELSE IF c <= Len(m.dldsr_label_path)
               THEN neighbor_by_label(n, m.dldsr_label_path[c]) \cap Neighbors[n] ELSE {}

CanDeliver(m) == AdmitsData(m) /\ m.to = m.dst_node_id /\ validate_data_delivery(m.to, m)
CanForward(m) == AdmitsData(m) /\ m.to # m.dst_node_id /\ NextHop(m.to, m) # {}

DeliverData(m) ==
  /\ CanDeliver(m)
  /\ Receive(datas, m, {})
  /\ delivered' = delivered \cup {[payload |-> m.payload, src |-> m.src_node_id, node |-> m.to]}
  /\ UNCHANGED <<labelVars, setbacks, nodeVars, rreqs, rreps, accepted, drops>>

ForwardedData_unsent(m, next) == {}

\* A next hop without an endpoint, which a DSR path may name, gets nothing and
\* nothing is counted.
ForwardedData(m, next) ==
  {[src_node_id |-> m.src_node_id, dst_node_id |-> m.dst_node_id, sequence |-> m.sequence,
    protocol_mode |-> m.protocol_mode, route_cursor |-> m.route_cursor + 1,
    dsr_path |-> m.dsr_path, dldsr_label_path |-> m.dldsr_label_path,
    payload |-> m.payload, from |-> m.to, to |-> to] : to \in {next} \cap Nodes}

ForwardData(m) ==
  /\ CanForward(m)
  /\ \E next \in NextHop(m.to, m) : Receive(datas, m, ForwardedData(m, next))
  /\ UNCHANGED <<labelVars, setbacks, nodeVars, rreqs, rreps, historyVars>>

drop_data_uncounted(m) ==
  /\ ~CanDeliver(m) /\ ~CanForward(m)
  /\ Receive(datas, m, {})
  /\ UNCHANGED <<labelVars, setbacks, nodeVars, rreqs, rreps, historyVars>>

drop_data(m) ==
  /\ ~CanDeliver(m) /\ ~CanForward(m)
  /\ Receive(datas, m, {})
  /\ drops' = drops \cup
       {[payload |-> m.payload, node |-> m.to, reason |-> "rejected", reported |-> TRUE]}
  /\ UNCHANGED <<labelVars, setbacks, nodeVars, rreqs, rreps, accepted, delivered>>

handle_data(m) == DeliverData(m) \/ ForwardData(m) \/ drop_data(m)
-----------------------------------------------------------------------------
AgeDiscoveries(ds) ==
  [d \in DOMAIN ds |-> [ds[d] EXCEPT !.age = Older(@, DiscoveryTimeout)]]
RejuvenateDiscoveries(ds) == [d \in DOMAIN ds |-> [ds[d] EXCEPT !.age = @ - 1]]

ClockFrame ==
  UNCHANGED <<labelVars, dups, pending_data, next_request_id, next_sequence, metrics,
              rreqs, rreps, datas, historyVars>>

\* A clock step of node n.
Elapse(n) ==
  /\ routes' = [routes EXCEPT ![n] = [d \in NodeIds |-> AgeRoutes(@[d])]]
  /\ seen_requests' = [seen_requests EXCEPT ![n] = AgeSeen(@)]
  /\ discoveries' = [discoveries EXCEPT ![n] = AgeDiscoveries(@)]
  /\ ClockFrame /\ UNCHANGED setbacks

\* The clock of node n is set back by one step.
SetBack(n) ==
  /\ ClockSetBack
  /\ routes' = [routes EXCEPT ![n] = [d \in NodeIds |-> RejuvenateRoutes(@[d])]]
  /\ seen_requests' = [seen_requests EXCEPT ![n] = RejuvenateSeen(@)]
  /\ discoveries' = [discoveries EXCEPT ![n] = RejuvenateDiscoveries(@)]
  /\ ClockFrame

\* ProtocolState::new in a new process of node n; what was pending is gone.
RestartProtocol(n) ==
  /\ routes' = [routes EXCEPT ![n] = [d \in NodeIds |-> <<>>]]
  /\ seen_requests' = [seen_requests EXCEPT ![n] = NothingSeen]
  /\ pending_data' = [pending_data EXCEPT ![n] = [d \in NodeIds |-> <<>>]]
  /\ discoveries' = [discoveries EXCEPT ![n] = NoDiscoveries]
  /\ next_request_id' = [next_request_id EXCEPT ![n] = 1]
  /\ next_sequence' = [next_sequence EXCEPT ![n] = 1]
  /\ metrics' = [metrics EXCEPT ![n] = NoMetrics]
  /\ UNCHANGED <<setbacks, rreqs, rreps, datas, historyVars>>

Restart_keeps_labels(n) ==
  /\ restarts[n] < MaxRestarts[n]
  /\ restarts' = [restarts EXCEPT ![n] = @ + 1]
  /\ neighbors' = [neighbors EXCEPT ![n] = EmptyTable]
  /\ UNCHANGED <<labels, hellos, helloReplies, dups>>
  /\ RestartProtocol(n)

\* The daemon of n ends and starts again.
Restart(n) == RestartLabels(n) /\ RestartProtocol(n)

\* Steps of the label exchange.
LabelStep ==
  /\ \/ \E n \in Nodes : SendHellos(n)
     \/ \E m \in hellos : handle_hello(m)
     \/ \E m \in helloReplies : handle_hello_reply(m)
  /\ UNCHANGED <<setbacks, nodeVars, rreqs, rreps, datas, historyVars>>

\* Commands, and the packets of routing and data.
PacketStep ==
  \/ \E p \in Payloads : QueuePayload(p) \/ SendOnCachedRoute(p)
  \/ \E m \in rreqs : handle_rreq(m)
  \/ \E m \in rreps : handle_rrep(m)
  \/ \E m \in datas : handle_data(m)

TimerStep == \E n \in Nodes : Tick(n) \/ Elapse(n) \/ SetBack(n)

Next == LabelStep \/ PacketStep \/ TimerStep \/ \E n \in Nodes : Restart(n)

Spec == Init /\ [][Next]_vars

\* The protocol timer of every daemon keeps firing and its clock advances.  No
\* fairness on packets: any of them may be lost.
TimerFairness == \A n \in Nodes : WF_vars(Tick(n)) /\ WF_vars(Elapse(n))

\* A data packet that stays in flight arrives.
DataFairness == \A p \in Payloads : WF_vars(\E m \in datas : m.payload = p /\ handle_data(m))
-----------------------------------------------------------------------------
(***************************************************************************)
(* Types                                                                   *)
(***************************************************************************)
RouteEntries == [dsr_path : Seq(Nodes), dldsr_label_path : Seq(Labels), age : Int]

Rreq == [src_node_id : Nodes, dst_node_id : NodeIds, request_id : Nat, previous_hop : Nodes,
         hop_count : 0..255, dsr_path : Seq(Nodes), dldsr_label_path : Seq(Labels),
         trace_path : Seq(Nodes), to : Nodes]

Rrep == [src_node_id : Nodes, dst_node_id : NodeIds, request_id : Nat, dsr_path : Seq(Nodes),
         dldsr_label_path : Seq(Labels), trace_path : Seq(Nodes), from : Nodes, to : Nodes]

Data == [src_node_id : Nodes, dst_node_id : NodeIds, sequence : Nat,
         protocol_mode : {"Dsr", "DlDsr"}, route_cursor : Nat, dsr_path : Seq(Nodes),
         dldsr_label_path : Seq(Labels), payload : Payloads, from : Nodes, to : Nodes]

DiscoveryState ==
  [request_id : Nat, age : Int, retries_done : 0..MaxRetries]

Metrics == [attempts : Nat, successes : Nat, failures : Nat]

DropRecord == [payload : Payloads, node : Nodes,
               reason : {"discovery failed", "no next hop", "rejected"}, reported : BOOLEAN]

TypeOK ==
  /\ LabelTypeOK
  /\ dups \in 0..MaxDups /\ setbacks \in 0..MaxSetBacks
  /\ routes \in [Nodes -> [NodeIds -> Seq(RouteEntries)]]
  /\ DOMAIN seen_requests = Nodes
  /\ \A n \in Nodes : \A k \in DOMAIN seen_requests[n] :
       k \in Nodes \X Nat /\ seen_requests[n][k] \in Int
  /\ pending_data \in [Nodes -> [NodeIds -> Seq(Payloads)]]
  /\ DOMAIN discoveries = Nodes
  /\ \A n \in Nodes : \A d \in DOMAIN discoveries[n] :
       d \in NodeIds /\ discoveries[n][d] \in DiscoveryState
  /\ next_request_id \in [Nodes -> Nat] /\ next_sequence \in [Nodes -> Nat]
  /\ metrics \in [Nodes -> Metrics]
  /\ rreqs \subseteq Rreq /\ rreps \subseteq Rrep /\ datas \subseteq Data
  /\ accepted \subseteq Payloads
  /\ delivered \subseteq [payload : Payloads, src : Nodes, node : Nodes]
  /\ drops \subseteq DropRecord
-----------------------------------------------------------------------------
(***************************************************************************)
(* Properties                                                              *)
(***************************************************************************)
\* A daemon searches for exactly the destinations payloads wait for: no
\* interleaving of commands, replies, late replies, retries and failures
\* leaves a payload in pending_data without a discovery that will end its
\* wait, nor a discovery nobody waits for.
PendingIffDiscovering ==
  \A n \in Nodes :
    DOMAIN discoveries[n] = {d \in NodeIds : pending_data[n][d] # <<>>}

SimplePath(path, a, b) ==
  /\ path # <<>> /\ path[1] = a /\ path[Len(path)] = b
  /\ \A i \in 1..(Len(path) - 1) : Linked(path[i], path[i + 1])
  /\ IsInjective(path)

\* Every cached route is a loop-free path over two-way links from its owner to
\* its destination, even when the seen-request cache forgets a request that
\* is still being flooded, so that requests run in circles.
RoutesAreSimplePaths ==
  \A n \in Nodes : \A d \in NodeIds : \A i \in DOMAIN routes[n][d] :
    SimplePath(routes[n][d][i].dsr_path, n, d)

\* Along a route whose nodes all run DL-DSR the labels have one hop each, and
\* each resolves to the next node of the path at every node that did not
\* restart since.  A node that lists itself as a neighbour, which the loader
\* accepts, is the exception: once it forgets its own request it adds a label
\* for the hop to itself, and handle_rreq does not repeat it in the path.
LabelsFollowPath ==
  (\A n \in Nodes : ~is_logical_neighbor(n, n)) =>
    \A n \in Nodes : \A d \in NodeIds : \A i \in DOMAIN routes[n][d] :
      LET path == routes[n][d][i].dsr_path
          label_path == routes[n][d][i].dldsr_label_path
      IN  Range(path) \subseteq DlDsrNodes =>
            /\ Len(label_path) = Len(path) - 1
            /\ \A k \in DOMAIN label_path :
                 restarts[path[k]] = 0
                   => neighbor_by_label(path[k], label_path[k]) = {path[k + 1]}

\* In a network of one mode, a payload that got a route is never dropped: every
\* node on the way accepts and can forward it.  With DL-DSR this needs nodes
\* that keep their tables; plain DSR survives restarts.
RoutedDataNeverDropped ==
  \/ DlDsrNodes = {}
  \/ DlDsrNodes = Nodes /\ \A n \in Nodes : restarts[n] = 0
  => \A x \in drops : x.reason = "discovery failed"

\* How often payload p is waiting, in flight, delivered or dropped.
Places(p) ==
    Cardinality({i \in DOMAIN pending_data[Src[p]][Dst[p]] :
                   pending_data[Src[p]][Dst[p]][i] = p})
  + Cardinality({m \in datas : m.payload = p})
  + Cardinality({x \in delivered : x.payload = p})
  + Cardinality({x \in drops : x.payload = p})

\* No payload a daemon accepted disappears without being counted as dropped,
\* unless the daemon itself went down with its queue.  (A lost datagram stays
\* in flight.)
PayloadsAccountedFor ==
  \A p \in accepted : restarts[Src[p]] = 0 => Places(p) >= 1

\* No payload is sent twice, or both dropped and sent, as long as the network
\* repeats no datagram.
PayloadsNotDuplicated ==
  dups = 0 => \A p \in Payloads : Places(p) <= 1

\* A daemon that did not restart never uses a request id for two destinations,
\* so that a reply and the seen-request caches cannot confuse two discoveries.
RequestIdsIdentify ==
  \A a, b \in rreqs \cup rreps :
    RreqKey(a) = RreqKey(b) /\ restarts[a.src_node_id] = 0 => a.dst_node_id = b.dst_node_id

\* hop_count stays within the limit, so that its u8 increment cannot overflow,
\* and it bounds the length of the trace however often a request circles.
HopsBounded ==
  \A m \in rreqs : m.hop_count <= MaxRreqHops /\ Len(m.trace_path) <= m.hop_count + 1

\* The requests made so far by the discoveries ds: the first one, 0, and the
\* retries, of each destination.
RequestsMade(ds) ==
  {r \in (DOMAIN ds) \X (0..MaxRetries) : r[2] <= ds[r[1]].retries_done}

\* A discovery fails only after its first request and all of its retries: the
\* attempts cover those of every failure and of every discovery under way.
RetryBudget ==
  \A n \in Nodes :
    metrics[n].attempts >=
      (MaxRetries + 1) * metrics[n].failures + Cardinality(RequestsMade(discoveries[n]))

\* The seen-request cache never holds more than its configured number of
\* entries.
SeenBounded == \A n \in Nodes : Cardinality(DOMAIN seen_requests[n]) <= SeenMax

\* What waits for a route does not wait for ever, whatever the network loses:
\* the retries run out.
NothingPendsForever ==
  \A n \in Nodes : \A d \in NodeIds :
    pending_data[n][d] # <<>> ~> pending_data[n][d] = <<>>

\* Every drop counted in data_dropped is reported by a DataDropped event.
DropsReported == \A x \in drops : x.reported
-----------------------------------------------------------------------------
(***************************************************************************)
(* The messaging service the daemons provide                               *)
(***************************************************************************)
Waiting == UNION {UNION {Range(pending_data[n][d]) : d \in NodeIds} : n \in Nodes}

Messages == INSTANCE Messaging WITH
  waiting <- Waiting,
  underway <- {m.payload : m \in datas},
  dropped <- {x.payload : x \in drops}

\* Discovery, flooding, retries, label or path forwarding and restarts together
\* implement the service: a payload is delivered with its true source at its
\* destination only, is never lost between the queue and the network or
\* between two hops, and is forgotten only by a restart of its source.
MessagingSpec == Messages!Spec

\* When the timers run and data packets arrive in the end, however many
\* requests and replies are lost, every accepted payload is delivered or
\* dropped.
PayloadsDecided == Messages!Decided
=============================================================================
