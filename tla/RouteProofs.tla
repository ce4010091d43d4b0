---------------------------- MODULE RouteProofs ----------------------------
(***************************************************************************)
(* Routes and the data that follows them.  A request records a path over   *)
(* two-way links, a reply retraces it and thereby makes it loop-free, the  *)
(* labels of a DL-DSR path lead along it, and data on a route is always    *)
(* passed on.                                                              *)
(***************************************************************************)
EXTENDS ProtocolProofs

(***************************************************************************)
(* Traces                                                                  *)
(***************************************************************************)
LinkedPath(t) == \A i \in 1..(Len(t) - 1) : Linked(t[i], t[i + 1])

\* A request has come along its trace and stops at the destination.
RreqTrace(m) ==
  /\ m.dsr_path = m.trace_path
  /\ m.trace_path # <<>>
  /\ m.trace_path[1] = m.src_node_id
  /\ m.trace_path[Len(m.trace_path)] = m.previous_hop
  /\ m.to \in Neighbors[m.previous_hop]
  /\ LinkedPath(m.trace_path)
  /\ \A i \in 2..Len(m.trace_path) : m.trace_path[i] # m.dst_node_id

\* From position i on, every node of t is there for the first time.
FreshFrom(t, i) == \A j \in i..Len(t) : \A k \in 1..(j - 1) : t[k] # t[j]

\* A reply is between two neighbouring positions of its trace; the part it has
\* retraced is free of loops, however often the request circled before.
RrepTrace(m) ==
  /\ m.dsr_path = m.trace_path
  /\ m.trace_path # <<>>
  /\ m.trace_path[1] = m.src_node_id
  /\ m.trace_path[Len(m.trace_path)] = m.dst_node_id
  /\ LinkedPath(m.trace_path)
  /\ \E i \in 2..Len(m.trace_path) : /\ m.trace_path[i] = m.from
                                     /\ m.trace_path[i - 1] = m.to
                                     /\ FreshFrom(m.trace_path, i)

TraceInv == (\A m \in rreqs : RreqTrace(m)) /\ (\A m \in rreps : RrepTrace(m))

\* A path with one more node at its end.
LEMMA VisitedPath ==
  ASSUME NEW t \in Seq(Nodes), NEW n \in Nodes, t # <<>>, LinkedPath(t), Linked(t[Len(t)], n)
  PROVE  /\ Visited(t, n) \in Seq(Nodes)
         /\ Visited(t, n) # <<>>
         /\ Visited(t, n)[1] = t[1]
         /\ Visited(t, n)[Len(Visited(t, n))] = n
         /\ LinkedPath(Visited(t, n))
<1>1. Len(t) \in Nat /\ Len(t) >= 1
  OBVIOUS
<1>2. CASE t[Len(t)] = n
  BY <1>2 DEF Visited
<1>3. CASE t[Len(t)] # n
  <2> DEFINE v == Append(t, n)
  <2>1. Visited(t, n) = v
    BY <1>3 DEF Visited
  <2>2. v \in Seq(Nodes) /\ Len(v) = Len(t) + 1 /\ v[Len(t) + 1] = n
    OBVIOUS
  <2>3. \A i \in 1..Len(t) : v[i] = t[i]
    OBVIOUS
  <2> HIDE DEF v
  <2>4. ASSUME NEW i \in 1..(Len(v) - 1) PROVE Linked(v[i], v[i + 1])
    <3>1. CASE i = Len(t)
      BY <1>1, <2>2, <2>3, <3>1
    <3>2. CASE i # Len(t)
      <4>1. i \in 1..(Len(t) - 1) /\ i \in 1..Len(t) /\ i + 1 \in 1..Len(t)
        BY <1>1, <2>2, <3>2
      <4> QED
        BY <2>3, <4>1 DEF LinkedPath
    <3> QED
      BY <3>1, <3>2
  <2> QED
    BY <1>1, <2>1, <2>2, <2>3, <2>4 DEF LinkedPath
<1> QED
  BY <1>2, <1>3

\* An admitted request has crossed a two-way link.
LEMMA AdmittedLink ==
  ASSUME NEW m \in Rreq, RreqTrace(m), AdmitsRreq(m)
  PROVE  Linked(m.trace_path[Len(m.trace_path)], m.to)
BY DEF Rreq, RreqTrace, AdmitsRreq, is_logical_neighbor, Linked, are_adjacent

\* start_discovery sends a trace of one node.
LEMMA RequestsTrace ==
  ASSUME NEW n \in Nodes, NEW d, NEW id, NEW m \in Requests(n, d, id)
  PROVE  RreqTrace(m)
<1>1. PICK neighbor \in Reachable(n) :
        m = [src_node_id |-> n, dst_node_id |-> d, request_id |-> id,
             previous_hop |-> n, hop_count |-> 0,
             dsr_path |-> <<n>>, dldsr_label_path |-> <<>>, trace_path |-> <<n>>,
             to |-> neighbor]
  BY DEF Requests
<1>2. /\ m.trace_path = <<n>> /\ m.dsr_path = <<n>> /\ m.src_node_id = n
      /\ m.previous_hop = n /\ m.to = neighbor
  BY <1>1
<1>3. neighbor \in Neighbors[n]
  BY DEF Reachable
<1> QED
  BY <1>2, <1>3 DEF RreqTrace, LinkedPath

\* Forwarding a request extends the trace by a link.
LEMMA ForwardedRreqTrace ==
  ASSUME NEW m \in Rreq, RreqTrace(m), AdmitsRreq(m), m.to # m.dst_node_id,
         NEW to \in Reachable(m.to)
  PROVE  RreqTrace(ForwardedRreq(m, to))
<1> DEFINE t == m.trace_path
           v == Visited(t, m.to)
           f == ForwardedRreq(m, to)
<1>1. t \in Seq(Nodes) /\ m.to \in Nodes /\ t # <<>> /\ LinkedPath(t)
  BY DEF Rreq, RreqTrace
<1>2. Linked(t[Len(t)], m.to)
  BY AdmittedLink
<1>3. v \in Seq(Nodes) /\ v # <<>> /\ v[1] = t[1] /\ v[Len(v)] = m.to /\ LinkedPath(v)
  BY <1>1, <1>2, VisitedPath
<1>4. /\ f.trace_path = v /\ f.dsr_path = Visited(m.dsr_path, m.to) /\ f.src_node_id = m.src_node_id
      /\ f.previous_hop = m.to /\ f.to = to /\ f.dst_node_id = m.dst_node_id
  BY DEF ForwardedRreq
<1>5. m.dsr_path = t /\ t[1] = m.src_node_id
  BY DEF RreqTrace
<1>6. \A i \in 2..Len(v) : v[i] # m.dst_node_id
  <2>1. \A i \in 2..Len(t) : t[i] # m.dst_node_id
    BY DEF RreqTrace
  <2> QED
    BY <1>1, <2>1 DEF Visited
<1>7. to \in Neighbors[m.to]
  BY DEF Reachable
<1> HIDE DEF t, v, f
<1>8. f.dsr_path = v
  BY <1>4, <1>5 DEF v
<1> QED
  BY <1>3, <1>4, <1>5, <1>6, <1>7, <1>8 DEF RreqTrace, f

\* The first position of a node, when there is one.
LEMMA PositionFirst ==
  ASSUME NEW t \in Seq(Nodes), NEW n, NEW i \in Position(t, n)
  PROVE  /\ i \in 1..Len(t) /\ t[i] = n
         /\ \A k \in 1..(i - 1) : t[k] # n
BY DEF Position

\* The destination occurs at the end of the trace it answers, and nowhere else:
\* forwarding stopped at it.
LEMMA ReplyTrace ==
  ASSUME NEW m \in Rreq, RreqTrace(m), AdmitsRreq(m), m.to = m.dst_node_id,
         NEW next \in previous_in_trace(Visited(m.trace_path, m.to), m.to)
  PROVE  RrepTrace(Reply(m, next))
<1> DEFINE t == m.trace_path
           v == Visited(t, m.to)
           f == Reply(m, next)
<1>1. t \in Seq(Nodes) /\ m.to \in Nodes /\ t # <<>> /\ LinkedPath(t)
  BY DEF Rreq, RreqTrace
<1>2. Linked(t[Len(t)], m.to)
  BY AdmittedLink
<1>3. v \in Seq(Nodes) /\ v # <<>> /\ v[1] = t[1] /\ v[Len(v)] = m.to /\ LinkedPath(v)
  BY <1>1, <1>2, VisitedPath
<1>4. /\ f.trace_path = v /\ f.dsr_path = Visited(m.dsr_path, m.to) /\ f.src_node_id = m.src_node_id
      /\ f.from = m.to /\ f.to = next /\ f.dst_node_id = m.dst_node_id
  BY DEF Reply
<1>5. m.dsr_path = t /\ t[1] = m.src_node_id
  BY DEF RreqTrace
<1>6. PICK i \in Position(v, m.to) \ {1} : next = v[i - 1]
  BY DEF previous_in_trace
<1>7. i \in 2..Len(v) /\ v[i] = m.to /\ \A k \in 1..(i - 1) : v[k] # m.to
  BY <1>3, <1>6, PositionFirst
<1>8. i = Len(v)
  <2>1. \A j \in 2..Len(t) : t[j] # m.to
    BY DEF RreqTrace
  <2> QED
    BY <1>1, <1>7, <2>1 DEF Visited
<1> HIDE DEF t, v, f
<1>9. FreshFrom(v, i)
  BY <1>3, <1>7, <1>8 DEF FreshFrom
<1>10. f.dsr_path = v
  BY <1>4, <1>5 DEF v
<1> QED
  BY <1>3, <1>4, <1>5, <1>6, <1>7, <1>9, <1>10 DEF RrepTrace, f

\* A node that accepts a reply is at its first position in the trace: were it
\* there earlier, the sender would not follow it.
LEMMA AcceptedRrep ==
  ASSUME NEW m \in Rrep, RrepTrace(m), validate_rrep(m.to, m)
  PROVE  \E i \in 1..(Len(m.trace_path) - 1) :
           /\ Position(m.trace_path, m.to) = {i}
           /\ m.trace_path[i] = m.to
           /\ FreshFrom(m.trace_path, i)
<1> DEFINE t == m.trace_path
<1>1. t \in Seq(Nodes) /\ Len(t) \in Nat
  BY DEF Rrep
<1>2. PICK i \in 2..Len(t) : t[i] = m.from /\ t[i - 1] = m.to /\ FreshFrom(t, i)
  BY DEF RrepTrace
<1>3. PICK j \in Position(t, m.to) : j < Len(t) /\ t[j + 1] = m.from
  BY DEF validate_rrep
<1>4. j \in 1..Len(t) /\ t[j] = m.to /\ \A k \in 1..(j - 1) : t[k] # m.to
  BY <1>1, <1>3, PositionFirst
<1>5. j <= i - 1
  <2>1. i - 1 \in 1..Len(t)
    BY <1>1, <1>2
  <2> QED
    BY <1>1, <1>2, <1>4, <2>1
<1>6. i <= j + 1
  <2>1. i \in i..Len(t)
    BY <1>1, <1>2
  <2>2. \A k \in 1..(i - 1) : t[k] # t[i]
    BY <1>2, <2>1 DEF FreshFrom
  <2>3. j + 1 \in 1..(i - 1) => t[j + 1] # t[i]
    BY <2>2
  <2> QED
    BY <1>1, <1>2, <1>3, <1>4, <2>3
<1>7. i = j + 1
  BY <1>1, <1>2, <1>4, <1>5, <1>6
<1>8. FreshFrom(t, j)
  <2>1. ASSUME NEW x \in j..Len(t), NEW k \in 1..(x - 1) PROVE t[k] # t[x]
    <3>1. CASE x = j
      BY <1>4, <3>1
    <3>2. CASE x # j
      <4>1. x \in i..Len(t)
        BY <1>1, <1>4, <1>7, <3>2
      <4> QED
        BY <1>2, <4>1 DEF FreshFrom
    <3> QED
      BY <3>1, <3>2
  <2> QED
    BY <2>1 DEF FreshFrom
<1>9. Position(t, m.to) = {j}
  <2>1. ASSUME NEW x \in Position(t, m.to) PROVE x = j
    <3>1. x \in 1..Len(t) /\ t[x] = m.to /\ \A k \in 1..(x - 1) : t[k] # m.to
      BY <1>1, PositionFirst
    <3> QED
      BY <1>1, <1>4, <3>1
  <2> QED
    BY <1>3, <2>1
<1> QED
  BY <1>1, <1>3, <1>4, <1>8, <1>9

\* A forwarded reply has retraced one more hop.
LEMMA ForwardedRrepTrace ==
  ASSUME NEW m \in Rrep, RrepTrace(m), validate_rrep(m.to, m),
         NEW next \in previous_in_trace(m.trace_path, m.to)
  PROVE  RrepTrace(ForwardedRrep(m, next))
<1> DEFINE t == m.trace_path
           f == ForwardedRrep(m, next)
<1>1. t \in Seq(Nodes) /\ Len(t) \in Nat
  BY DEF Rrep
<1>2. PICK i \in 1..(Len(t) - 1) : Position(t, m.to) = {i} /\ t[i] = m.to /\ FreshFrom(t, i)
  BY AcceptedRrep
<1>3. i # 1 /\ next = t[i - 1]
  BY <1>2 DEF previous_in_trace
<1>4. /\ f.trace_path = t /\ f.dsr_path = m.dsr_path /\ f.src_node_id = m.src_node_id
      /\ f.from = m.to /\ f.to = next /\ f.dst_node_id = m.dst_node_id
  BY DEF ForwardedRrep
<1>5. /\ m.dsr_path = t /\ t # <<>> /\ t[1] = m.src_node_id /\ t[Len(t)] = m.dst_node_id
      /\ LinkedPath(t)
  BY DEF RrepTrace
<1>6. i \in 2..Len(t)
  BY <1>1, <1>2, <1>3
<1> HIDE DEF t, f
<1> QED
  BY <1>2, <1>3, <1>4, <1>5, <1>6 DEF RrepTrace, f

\* Replies are created by the destination and by forwarding only.
LEMMA NewRreps ==
  ASSUME TypeOK, [Next]_vars, NEW m \in rreps', m \notin rreps
  PROVE  \/ \E r \in rreqs : /\ AdmitsRreq(r) /\ ~Unlabelled(r) /\ r.to = r.dst_node_id
                             /\ \E next \in previous_in_trace(Visited(r.trace_path, r.to), r.to) :
                                  next \in Nodes /\ m = Reply(r, next)
         \/ \E r \in rreps : /\ validate_rrep(r.to, r) /\ r.to # r.src_node_id
                             /\ \E next \in previous_in_trace(r.trace_path, r.to) :
                                  next \in Nodes /\ m = ForwardedRrep(r, next)
<1> DEFINE Answers == \E r \in rreqs :
                        /\ AdmitsRreq(r) /\ ~Unlabelled(r) /\ r.to = r.dst_node_id
                        /\ \E next \in previous_in_trace(Visited(r.trace_path, r.to), r.to) :
                             next \in Nodes /\ m = Reply(r, next)
           Returns == \E r \in rreps :
                        /\ validate_rrep(r.to, r) /\ r.to # r.src_node_id
                        /\ \E next \in previous_in_trace(r.trace_path, r.to) :
                             next \in Nodes /\ m = ForwardedRrep(r, next)
<1>1. ASSUME NEW r \in rreqs, handle_rreq(r) PROVE Answers
  <2>1. AnswerRreq(r)
    BY <1>1 DEF handle_rreq, RefuseRreq, DropRreq, ForwardRreq
  <2> QED
    BY <2>1 DEF AnswerRreq
<1>2. ASSUME NEW r \in rreps, handle_rrep(r) PROVE Returns
  <2>1. ForwardRrep(r)
    BY <1>2 DEF handle_rrep, RejectRrep, CacheRoute, Receive
  <2> QED
    BY <2>1 DEF ForwardRrep, Receive
<1> SUFFICES Answers \/ Returns
  OBVIOUS
<1> HIDE DEF Answers, Returns
<1>3. CASE PacketStep
  <2>1. \A p \in Payloads : ~QueuePayload(p) /\ ~SendOnCachedRoute(p)
    BY DEF QueuePayload, SendOnCachedRoute
  <2>2. \A r \in datas : ~handle_data(r)
    BY DEF handle_data, DeliverData, ForwardData, drop_data
  <2> QED
    BY <1>1, <1>2, <1>3, <2>1, <2>2 DEF PacketStep
<1>4. CASE TimerStep
  BY <1>4 DEF TimerStep, Tick, Elapse, SetBack, ClockFrame
<1>5. CASE LabelStep
  BY <1>5 DEF LabelStep
<1>6. CASE \E n \in Nodes : Restart(n)
  BY <1>6 DEF Restart, RestartProtocol
<1>7. CASE UNCHANGED vars
  BY <1>7 DEF vars
<1> QED
  BY <1>3, <1>4, <1>5, <1>6, <1>7 DEF Next

\* TraceInv is inductive.
LEMMA TraceStep ==
  ASSUME TypeOK, TraceInv, [Next]_vars
  PROVE  TraceInv'
<1>1. ASSUME NEW m \in rreqs' PROVE RreqTrace(m)
  <2>1. CASE m \in rreqs
    BY <2>1 DEF TraceInv
  <2>2. ASSUME NEW n \in Nodes, NEW d, NEW id, m \in Requests(n, d, id) PROVE RreqTrace(m)
    BY <2>2, RequestsTrace
  <2>3. ASSUME NEW r \in rreqs, AdmitsRreq(r), r.to # r.dst_node_id,
               NEW to \in Reachable(r.to), m = ForwardedRreq(r, to)
        PROVE  RreqTrace(m)
    BY <2>3, ForwardedRreqTrace DEF TypeOK, TraceInv
  <2> QED
    BY <2>1, <2>2, <2>3, NewRreqs
<1>2. ASSUME NEW m \in rreps' PROVE RrepTrace(m)
  <2>1. CASE m \in rreps
    BY <2>1 DEF TraceInv
  <2>2. ASSUME NEW r \in rreqs, AdmitsRreq(r), r.to = r.dst_node_id,
               NEW next \in previous_in_trace(Visited(r.trace_path, r.to), r.to), m = Reply(r, next)
        PROVE  RrepTrace(m)
    BY <2>2, ReplyTrace DEF TypeOK, TraceInv
  <2>3. ASSUME NEW r \in rreps, validate_rrep(r.to, r),
               NEW next \in previous_in_trace(r.trace_path, r.to), m = ForwardedRrep(r, next)
        PROVE  RrepTrace(m)
    BY <2>3, ForwardedRrepTrace DEF TypeOK, TraceInv
  <2> QED
    BY <2>1, <2>2, <2>3, NewRreps
<1> QED
  BY <1>1, <1>2 DEF TraceInv

\* TraceInv holds in every reachable state.
LEMMA TraceInvariant == Spec => []TraceInv
<1>1. Init => TraceInv
  BY DEF Init, TraceInv
<1>2. TypeOK /\ TraceInv /\ [Next]_vars => TraceInv'
  BY TraceStep
<1> QED
  BY <1>1, <1>2, TypeCorrect, PTL DEF Spec
-----------------------------------------------------------------------------
(***************************************************************************)
(* Cached routes                                                           *)
(***************************************************************************)
SameRoute(a, b) == a.dsr_path = b.dsr_path /\ a.dldsr_label_path = b.dldsr_label_path

\* `route` is what node n makes of reply m from destination d.
RouteOf(route, m, n, d) ==
  /\ m.to = n /\ m.src_node_id = n /\ m.dst_node_id = d
  /\ validate_rrep(n, m)
  /\ route.dsr_path = m.dsr_path
  /\ route.dldsr_label_path = IF n \in DlDsrNodes THEN m.dldsr_label_path ELSE <<>>

\* n has, or just learns, this route to d.
Learned(route, n, d) == \E m \in rreps : RouteOf(route, m, n, d)
Cached(route, n, d) == \E j \in DOMAIN routes[n][d] : SameRoute(route, routes[n][d][j])

\* A reply that reaches its source.
LEMMA CacheRouteLearns ==
  ASSUME TypeOK, NEW m \in rreps, CacheRoute(m)
  PROVE  \E route \in RouteEntries :
           /\ Learned(route, m.to, m.dst_node_id)
           /\ routes' = [routes EXCEPT ![m.to][m.dst_node_id] = Append(@, route)]
           /\ origin_data(m.to, m.dst_node_id, pending_data[m.to][m.dst_node_id], route, FALSE)
<1> DEFINE n == m.to
           label_path == IF n \in DlDsrNodes THEN m.dldsr_label_path ELSE <<>>
           route == RouteEntry(m.dsr_path, label_path)
<1>1. m.dsr_path \in Seq(Nodes) /\ label_path \in Seq(Labels)
  BY DEF TypeOK, Rrep
<1>2. route \in RouteEntries /\ route.dsr_path = m.dsr_path /\ route.dldsr_label_path = label_path
  BY <1>1 DEF RouteEntry, RouteEntries
<1>3. /\ validate_rrep(n, m) /\ n = m.src_node_id
      /\ routes' = [routes EXCEPT ![n][m.dst_node_id] = Append(@, route)]
      /\ origin_data(n, m.dst_node_id, pending_data[n][m.dst_node_id], route, FALSE)
  BY DEF CacheRoute
<1>4. RouteOf(route, m, n, m.dst_node_id)
  BY <1>2, <1>3 DEF RouteOf
<1> HIDE DEF n, label_path, route
<1>5. Learned(route, n, m.dst_node_id)
  BY <1>4 DEF Learned
<1> QED
  BY <1>2, <1>3, <1>5 DEF n

\* The cache changes by what CacheRoute adds and by ages only.
LEMMA RouteChange ==
  ASSUME TypeOK, [Next]_vars, NEW n \in Nodes, NEW d \in NodeIds, NEW i \in DOMAIN routes'[n][d]
  PROVE  Cached(routes'[n][d][i], n, d) \/ Learned(routes'[n][d][i], n, d)
<1> DEFINE Known == Cached(routes'[n][d][i], n, d) \/ Learned(routes'[n][d][i], n, d)
<1>1. routes \in [Nodes -> [NodeIds -> Seq(RouteEntries)]]
  BY DEF TypeOK
<1>2. routes' = routes => Known
  BY DEF Cached, SameRoute
<1>3. ASSUME NEW m \in rreps, CacheRoute(m) PROVE Known
  <2>1. PICK route \in RouteEntries :
          /\ Learned(route, m.to, m.dst_node_id)
          /\ routes' = [routes EXCEPT ![m.to][m.dst_node_id] = Append(@, route)]
    BY <1>3, CacheRouteLearns
  <2>2. m.to \in Nodes /\ m.dst_node_id \in NodeIds
    BY DEF TypeOK, Rrep
  <2>3. CASE n = m.to /\ d = m.dst_node_id
    <3>1. routes[n][d] \in Seq(RouteEntries) /\ routes'[n][d] = Append(routes[n][d], route)
      BY <1>1, <2>1, <2>2, <2>3
    <3>2. CASE i = Len(routes[n][d]) + 1
      <4>1. routes'[n][d][i] = route
        BY <3>1, <3>2
      <4> QED
        BY <2>1, <2>3, <4>1
    <3>3. CASE i # Len(routes[n][d]) + 1
      <4>1. i \in DOMAIN routes[n][d] /\ routes'[n][d][i] = routes[n][d][i]
        BY <3>1, <3>3
      <4> QED
        BY <4>1 DEF Cached, SameRoute
    <3> QED
      BY <3>2, <3>3
  <2>4. CASE ~(n = m.to /\ d = m.dst_node_id)
    <3>1. routes'[n][d] = routes[n][d]
      BY <1>1, <2>1, <2>2, <2>4
    <3> QED
      BY <3>1 DEF Cached, SameRoute
  <2> QED
    BY <2>3, <2>4
<1>4. ASSUME NEW x \in Nodes, Elapse(x) \/ SetBack(x) PROVE Known
  <2>1. CASE x # n
    <3>1. routes'[n] = routes[n]
      BY <1>1, <1>4, <2>1 DEF Elapse, SetBack
    <3> QED
      BY <3>1 DEF Cached, SameRoute
  <2>2. CASE x = n
    <3>1. \/ routes'[n][d] = AgeRoutes(routes[n][d])
          \/ routes'[n][d] = RejuvenateRoutes(routes[n][d])
      BY <1>1, <1>4, <2>2 DEF Elapse, SetBack
    <3>2. i \in DOMAIN routes[n][d] /\ \E age : routes'[n][d][i] = [routes[n][d][i] EXCEPT !.age = age]
      BY <3>1 DEF AgeRoutes, RejuvenateRoutes
    <3>3. routes[n][d][i] \in RouteEntries
      BY <1>1, <3>2
    <3>4. SameRoute(routes'[n][d][i], routes[n][d][i])
      BY <3>2, <3>3 DEF RouteEntries, SameRoute
    <3> QED
      BY <3>2, <3>4 DEF Cached
  <2> QED
    BY <2>1, <2>2
<1>5. ASSUME NEW x \in Nodes, Restart(x) PROVE Known
  <2>1. routes' = [routes EXCEPT ![x] = [e \in NodeIds |-> <<>>]]
    BY <1>5 DEF Restart, RestartProtocol
  <2>2. x # n /\ routes'[n] = routes[n]
    BY <1>1, <2>1
  <2> QED
    BY <2>2 DEF Cached, SameRoute
<1> SUFFICES Known
  OBVIOUS
<1> HIDE DEF Known
<1>6. CASE PacketStep
  <2>1. ASSUME NEW p \in Payloads, QueuePayload(p) \/ SendOnCachedRoute(p) PROVE Known
    BY <1>2, <2>1 DEF QueuePayload, SendOnCachedRoute
  <2>2. ASSUME NEW m \in rreqs, handle_rreq(m) PROVE Known
    BY <1>2, <2>2 DEF handle_rreq, RefuseRreq, DropRreq, AnswerRreq, ForwardRreq, RreqFrame
  <2>3. ASSUME NEW m \in rreps, handle_rrep(m) PROVE Known
    BY <1>2, <1>3, <2>3 DEF handle_rrep, RejectRrep, ForwardRrep, nodeVars
  <2>4. ASSUME NEW m \in datas, handle_data(m) PROVE Known
    BY <1>2, <2>4 DEF handle_data, DeliverData, ForwardData, drop_data, nodeVars
  <2> QED
    BY <1>6, <2>1, <2>2, <2>3, <2>4 DEF PacketStep
<1>7. CASE TimerStep
  BY <1>2, <1>4, <1>7 DEF TimerStep, Tick
<1>8. CASE LabelStep
  BY <1>2, <1>8 DEF LabelStep, nodeVars
<1>9. CASE UNCHANGED vars
  BY <1>2, <1>9 DEF vars, nodeVars
<1> QED
  BY <1>5, <1>6, <1>7, <1>8, <1>9 DEF Next

\* A route leads over at least one link.
RouteSimple(route, n, d) == SimplePath(route.dsr_path, n, d) /\ Len(route.dsr_path) >= 2

\* The source has retraced the whole path, which therefore has no loop.
LEMMA LearnedSimple ==
  ASSUME TypeOK, TraceInv, NEW route, NEW n, NEW d, Learned(route, n, d)
  PROVE  RouteSimple(route, n, d)
<1>1. PICK m \in rreps : RouteOf(route, m, n, d)
  BY DEF Learned
<1> DEFINE t == m.trace_path
<1>2. m \in Rrep /\ RrepTrace(m) /\ validate_rrep(m.to, m)
  BY <1>1 DEF TypeOK, TraceInv, RouteOf
<1>3. t \in Seq(Nodes) /\ Len(t) \in Nat
  BY <1>2 DEF Rrep
<1>4. PICK i \in 1..(Len(t) - 1) : Position(t, m.to) = {i} /\ t[i] = m.to /\ FreshFrom(t, i)
  BY <1>2, AcceptedRrep
<1>5. route.dsr_path = t /\ t[1] = n /\ t[Len(t)] = d /\ LinkedPath(t) /\ m.to = n
  BY <1>1, <1>2 DEF RouteOf, RrepTrace
<1>6. i = 1
  <2>1. 1 \in Position(t, n)
    BY <1>3, <1>4, <1>5 DEF Position
  <2> QED
    BY <1>4, <1>5, <2>1
<1> HIDE DEF t
<1>7. \A j \in 1..Len(t) : \A k \in 1..(j - 1) : t[k] # t[j]
  BY <1>4, <1>6 DEF FreshFrom
<1>8. IsInjective(t)
  BY <1>3, <1>7 DEF IsInjective
<1>9. t # <<>> /\ Len(t) >= 2
  BY <1>3, <1>4
<1> QED
  BY <1>5, <1>8, <1>9 DEF RouteSimple, SimplePath, LinkedPath

RoutesInv == \A n \in Nodes : \A d \in NodeIds : \A i \in DOMAIN routes[n][d] :
               RouteSimple(routes[n][d][i], n, d)

\* RoutesInv holds in every reachable state.
LEMMA RoutesInvariant == Spec => []RoutesInv
<1>1. Init => RoutesInv
  BY DEF Init, RoutesInv
<1>2. ASSUME TypeOK, TraceInv, RoutesInv, [Next]_vars,
             NEW n \in Nodes, NEW d \in NodeIds, NEW i \in DOMAIN routes'[n][d]
      PROVE  RouteSimple(routes'[n][d][i], n, d)
  <2>1. CASE Cached(routes'[n][d][i], n, d)
    BY <1>2, <2>1 DEF Cached, SameRoute, RoutesInv, RouteSimple
  <2>2. CASE Learned(routes'[n][d][i], n, d)
    BY <1>2, <2>2, LearnedSimple
  <2> QED
    BY <1>2, <2>1, <2>2, RouteChange
<1>3. TypeOK /\ TraceInv /\ RoutesInv /\ [Next]_vars => RoutesInv'
  BY <1>2 DEF RoutesInv
<1> QED
  BY <1>1, <1>3, TypeCorrect, TraceInvariant, PTL DEF Spec

\* Every cached route is loop-free and runs over two-way links from its owner
\* to its destination, whatever the caches forget and however requests circle,
\* in every topology: validate_rrep on the way back is what ensures it.
THEOREM RoutesAreSimplePathsTheorem == Spec => []RoutesAreSimplePaths
<1>1. RoutesInv => RoutesAreSimplePaths
  BY DEF RoutesInv, RouteSimple, RoutesAreSimplePaths
<1> QED
  BY <1>1, RoutesInvariant, PTL
-----------------------------------------------------------------------------
(***************************************************************************)
(* Labels                                                                  *)
(***************************************************************************)
NoneListsItself == \A n \in Nodes : ~is_logical_neighbor(n, n)

\* The labels lead along the nodes of w, as long as these keep their tables.
Walk(w, label_path) ==
  /\ w \in Seq(Nodes) /\ Len(w) = Len(label_path) + 1
  /\ \A k \in 1..Len(label_path) :
       /\ Linked(w[k], w[k + 1])
       /\ restarts[w[k]] = 0 => neighbors[w[k]][w[k + 1]] = label_path[k]

\* w is the path itself, but for hops of a node to itself.
WalkAlong(w, path, label_path) ==
  /\ Walk(w, label_path)
  /\ w[1] = path[1] /\ w[Len(w)] = path[Len(path)]
  /\ NoneListsItself => w = path

\* The labels a request has collected; its walk has not met the destination.
RreqLabelled(m) ==
  Range(m.trace_path) \subseteq DlDsrNodes =>
    \E w : /\ WalkAlong(w, m.trace_path, m.dldsr_label_path)
           /\ \A k \in 2..Len(w) : w[k] # m.dst_node_id

\* The labels of a whole path; the walk meets the destination at its end only.
PathLabelled(path, label_path) ==
  Range(path) \subseteq DlDsrNodes =>
    \E w : /\ WalkAlong(w, path, label_path)
           /\ \A k \in 2..(Len(w) - 1) : w[k] # path[Len(path)]

LabelledInv ==
  /\ \A m \in rreqs : RreqLabelled(m)
  /\ \A m \in rreps : PathLabelled(m.trace_path, m.dldsr_label_path)

LabelledRoutes ==
  \A n \in Nodes : \A d \in NodeIds : \A i \in DOMAIN routes[n][d] :
    PathLabelled(routes[n][d][i].dsr_path, routes[n][d][i].dldsr_label_path)

\* Only a restart takes an assigned label back.
LEMMA TablesKept ==
  ASSUME TypeOK, [Next]_vars, NEW a \in Nodes, NEW b \in Nodes,
         restarts'[a] = 0, neighbors[a][b] # NoLabel
  PROVE  neighbors'[a][b] = neighbors[a][b]
<1>1. LabelTypeOK
  BY DEF TypeOK
<1>2. ASSUME NEW n \in Nodes, RestartLabels(n) PROVE neighbors'[a][b] = neighbors[a][b]
  BY <1>1, <1>2 DEF RestartLabels, LabelTypeOK
<1>3. ASSUME NEW m \in hellos, AnswerHello(m) PROVE neighbors'[a][b] = neighbors[a][b]
  <2>1. m.to \in Nodes /\ m.src_node_id \in Nodes
    BY <1>1, <1>3 DEF LabelTypeOK, Hello
  <2>2. PICK label \in Labels :
          /\ assign_or_reuse_label(m.to, m.src_node_id, label)
          /\ neighbors' = [neighbors EXCEPT ![m.to][m.src_node_id] = label]
    BY <1>3 DEF AnswerHello
  <2> QED
    BY <1>1, <2>1, <2>2 DEF assign_or_reuse_label, LabelTypeOK
<1>4. [LabelNext]_labelVars
  BY LabelRefinementStep
<1> QED
  BY <1>2, <1>3, <1>4
  DEF LabelNext, labelVars, SendHellos, handle_hello, IgnoreHello, handle_hello_reply

\* So a walk stays a walk.
LEMMA WalkKept ==
  ASSUME TypeOK, [Next]_vars, NEW label_path \in Seq(Labels), NEW w, Walk(w, label_path)
  PROVE  Walk(w, label_path)'
<1>1. ASSUME NEW k \in 1..Len(label_path), restarts'[w[k]] = 0
      PROVE  neighbors'[w[k]][w[k + 1]] = label_path[k]
  <2>1. w[k] \in Nodes /\ w[k + 1] \in Nodes
    BY DEF Walk
  <2>2. restarts[w[k]] = 0
    BY <1>1, <2>1, RestartsGrow
  <2>3. label_path[k] \in Labels /\ neighbors[w[k]][w[k + 1]] = label_path[k]
    BY <2>2 DEF Walk
  <2>4. neighbors[w[k]][w[k + 1]] # NoLabel
    BY <2>3, LabelAssumption DEF LabelAssumption, Labels, NoLabel
  <2> QED
    BY <1>1, <2>1, <2>3, <2>4, TablesKept
<1> QED
  BY <1>1 DEF Walk

\* And what was said of packets and paths stays true.
LEMMA LabelledKept ==
  ASSUME TypeOK, [Next]_vars
  PROVE  /\ \A m \in Rreq : RreqLabelled(m) => RreqLabelled(m)'
         /\ \A path : \A label_path \in Seq(Labels) :
              PathLabelled(path, label_path) => PathLabelled(path, label_path)'
<1>1. ASSUME NEW path, NEW label_path \in Seq(Labels), NEW w, WalkAlong(w, path, label_path)
      PROVE  WalkAlong(w, path, label_path)'
  BY <1>1, WalkKept DEF WalkAlong
<1>2. ASSUME NEW m \in Rreq, RreqLabelled(m) PROVE RreqLabelled(m)'
  <2>1. m.dldsr_label_path \in Seq(Labels)
    BY DEF Rreq
  <2> QED
    BY <1>1, <1>2, <2>1 DEF RreqLabelled
<1>3. ASSUME NEW path, NEW label_path \in Seq(Labels), PathLabelled(path, label_path)
      PROVE  PathLabelled(path, label_path)'
  BY <1>1, <1>3 DEF PathLabelled
<1> QED
  BY <1>2, <1>3

\* The label the receiver adds leads from the previous hop to it.
LEMMA WalkExtends ==
  ASSUME TypeOK, LabelAgreement, NEW m \in Rreq, RreqTrace(m), RreqLabelled(m),
         AdmitsRreq(m), ~Unlabelled(m), Range(Visited(m.trace_path, m.to)) \subseteq DlDsrNodes
  PROVE  \E w : /\ WalkAlong(w, Visited(m.trace_path, m.to),
                             LabelVisited(m.dldsr_label_path, m.to, m.previous_hop))
                /\ w[Len(w)] = m.to
                /\ \A k \in 2..(Len(w) - 1) : w[k] # m.dst_node_id
<1> DEFINE t == m.trace_path
           v == Visited(t, m.to)
           l == m.dldsr_label_path
           label == labels[m.to][m.previous_hop]
<1>1. /\ t \in Seq(Nodes) /\ m.to \in Nodes /\ t # <<>> /\ LinkedPath(t) /\ l \in Seq(Labels)
      /\ m.previous_hop = t[Len(t)] /\ m.previous_hop \in Nodes
      /\ Len(t) \in Nat /\ Len(t) >= 1 /\ Len(l) \in Nat
  BY DEF Rreq, RreqTrace
<1>2. Linked(t[Len(t)], m.to)
  BY AdmittedLink
<1>3. v \in Seq(Nodes) /\ v # <<>> /\ v[1] = t[1] /\ v[Len(v)] = m.to
  BY <1>1, <1>2, VisitedPath
<1>4. m.to \in DlDsrNodes /\ Range(t) \subseteq DlDsrNodes
  <2>1. \A i \in DOMAIN v : v[i] \in DlDsrNodes
    BY DEF Range
  <2>2. Len(v) \in DOMAIN v
    BY <1>3
  <2>3. \A i \in DOMAIN t : i \in DOMAIN v /\ v[i] = t[i]
    BY <1>1 DEF Visited
  <2> QED
    BY <1>3, <2>1, <2>2, <2>3 DEF Range
<1>5. PICK w : WalkAlong(w, t, l) /\ \A k \in 2..Len(w) : w[k] # m.dst_node_id
  BY <1>4 DEF RreqLabelled
<1>6. /\ w \in Seq(Nodes) /\ Len(w) = Len(l) + 1 /\ w[Len(w)] = t[Len(t)] /\ w[1] = t[1]
      /\ \A k \in 1..Len(l) : /\ Linked(w[k], w[k + 1])
                              /\ restarts[w[k]] = 0 => neighbors[w[k]][w[k + 1]] = l[k]
  BY <1>5 DEF WalkAlong, Walk
<1>7. label \in Labels /\ (restarts[m.previous_hop] = 0 => neighbors[m.previous_hop][m.to] = label)
  <2>1. label # NoLabel
    BY <1>4 DEF Unlabelled
  <2>2. labels \in [Nodes -> [Nodes -> Labels \cup {NoLabel}]]
    BY DEF TypeOK, LabelTypeOK
  <2>3. label \in Labels
    BY <1>1, <2>1, <2>2
  <2>4. restarts[m.previous_hop] = 0 => label = neighbors[m.previous_hop][m.to]
    BY <1>1, <2>1 DEF LabelAgreement
  <2> QED
    BY <2>3, <2>4
<1>8. LabelVisited(l, m.to, m.previous_hop) = Append(l, label)
  BY <1>4 DEF LabelVisited
<1>9. NoneListsItself => t[Len(t)] # m.to
  BY <1>1, <1>2 DEF NoneListsItself, is_logical_neighbor, Linked, are_adjacent
<1>10. NoneListsItself => Append(w, m.to) = v
  BY <1>5, <1>9 DEF WalkAlong, Visited
<1> DEFINE x == Append(w, m.to)
           y == Append(l, label)
<1>11. /\ x \in Seq(Nodes) /\ Len(x) = Len(w) + 1 /\ x[Len(w) + 1] = m.to
       /\ \A k \in 1..Len(w) : x[k] = w[k]
  BY <1>1, <1>6
<1> HIDE DEF label
<1>12. Len(y) = Len(l) + 1 /\ y[Len(l) + 1] = label /\ \A k \in 1..Len(l) : y[k] = l[k]
  BY <1>1, <1>7
<1> HIDE DEF t, v, l, x, y
<1>13. ASSUME NEW k \in 1..Len(y)
       PROVE  Linked(x[k], x[k + 1]) /\ (restarts[x[k]] = 0 => neighbors[x[k]][x[k + 1]] = y[k])
  <2>1. CASE k = Len(l) + 1
    BY <1>1, <1>2, <1>6, <1>7, <1>11, <1>12, <2>1
  <2>2. CASE k # Len(l) + 1
    <3>1. k \in 1..Len(l) /\ k \in 1..Len(w) /\ k + 1 \in 1..Len(w)
      BY <1>1, <1>6, <1>12, <2>2
    <3> QED
      BY <1>6, <1>11, <1>12, <3>1
  <2> QED
    BY <2>1, <2>2
<1>14. Walk(x, y)
  BY <1>1, <1>6, <1>11, <1>12, <1>13 DEF Walk
<1>15. x[1] = v[1] /\ x[Len(x)] = v[Len(v)]
  BY <1>1, <1>3, <1>6, <1>11
<1>16. WalkAlong(x, v, y)
  BY <1>10, <1>14, <1>15 DEF WalkAlong, x
<1>17. \A k \in 2..(Len(x) - 1) : x[k] # m.dst_node_id
  BY <1>1, <1>5, <1>6, <1>11
<1> QED
  BY <1>3, <1>8, <1>15, <1>16, <1>17 DEF t, v, l, y

\* The first request has no label and a walk of one node.
LEMMA RequestsLabelled ==
  ASSUME NEW n \in Nodes, NEW d, NEW id, NEW m \in Requests(n, d, id)
  PROVE  RreqLabelled(m)
<1>1. m.trace_path = <<n>> /\ m.dldsr_label_path = <<>>
  BY DEF Requests
<1>2. WalkAlong(<<n>>, <<n>>, <<>>)
  BY DEF WalkAlong, Walk
<1>3. \A k \in 2..Len(<<n>>) : <<n>>[k] # m.dst_node_id
  OBVIOUS
<1> QED
  BY <1>1, <1>2, <1>3 DEF RreqLabelled

\* What the receiver of a labelled request sends is labelled.
LEMMA ExtendedLabelled ==
  ASSUME TypeOK, LabelAgreement, NEW m \in Rreq, RreqTrace(m), RreqLabelled(m),
         AdmitsRreq(m), ~Unlabelled(m)
  PROVE  /\ \A to : m.to # m.dst_node_id => RreqLabelled(ForwardedRreq(m, to))
         /\ \A to : m.to = m.dst_node_id =>
              PathLabelled(Reply(m, to).trace_path, Reply(m, to).dldsr_label_path)
<1> DEFINE v == Visited(m.trace_path, m.to)
           y == LabelVisited(m.dldsr_label_path, m.to, m.previous_hop)
<1>1. Range(v) \subseteq DlDsrNodes =>
        \E w : /\ WalkAlong(w, v, y)
               /\ w[Len(w)] = m.to
               /\ \A k \in 2..(Len(w) - 1) : w[k] # m.dst_node_id
  BY WalkExtends
<1>2. \A w : WalkAlong(w, v, y) => w \in Seq(Nodes) /\ w[Len(w)] = v[Len(v)]
  BY DEF WalkAlong, Walk
<1> HIDE DEF v, y
<1>3. ASSUME NEW to, m.to # m.dst_node_id PROVE RreqLabelled(ForwardedRreq(m, to))
  <2> DEFINE f == ForwardedRreq(m, to)
  <2>1. f.trace_path = v /\ f.dldsr_label_path = y /\ f.dst_node_id = m.dst_node_id
    BY DEF ForwardedRreq, v, y
  <2> HIDE DEF f
  <2>2. ASSUME NEW w, WalkAlong(w, v, y), w[Len(w)] = m.to,
               \A k \in 2..(Len(w) - 1) : w[k] # m.dst_node_id
        PROVE  \A k \in 2..Len(w) : w[k] # m.dst_node_id
    <3>1. Len(w) \in Nat
      BY <1>2, <2>2
    <3> QED
      BY <1>3, <2>2, <3>1
  <2>3. RreqLabelled(f)
    BY <1>1, <2>1, <2>2 DEF RreqLabelled
  <2> QED
    BY <2>3 DEF f
<1>4. ASSUME NEW to, m.to = m.dst_node_id
      PROVE  PathLabelled(Reply(m, to).trace_path, Reply(m, to).dldsr_label_path)
  <2>1. Reply(m, to).trace_path = v /\ Reply(m, to).dldsr_label_path = y
    BY DEF Reply, v, y
  <2>2. PathLabelled(v, y)
    BY <1>1, <1>2, <1>4 DEF PathLabelled
  <2> QED
    BY <2>1, <2>2
<1> QED
  BY <1>3, <1>4

\* LabelledInv is inductive, given that tables and learned labels agree.
LEMMA LabelledStep ==
  ASSUME TypeOK, TypeOK', LabelAgreement, TraceInv, LabelledInv, [Next]_vars
  PROVE  LabelledInv'
<1>1. ASSUME NEW m \in rreqs' PROVE RreqLabelled(m)
  <2>1. CASE m \in rreqs
    BY <2>1 DEF LabelledInv
  <2>2. ASSUME NEW n \in Nodes, NEW d, NEW id, m \in Requests(n, d, id) PROVE RreqLabelled(m)
    BY <2>2, RequestsLabelled
  <2>3. ASSUME NEW r \in rreqs, AdmitsRreq(r), ~Unlabelled(r), r.to # r.dst_node_id,
               NEW to \in Reachable(r.to), m = ForwardedRreq(r, to)
        PROVE  RreqLabelled(m)
    <3>1. r \in Rreq /\ RreqTrace(r) /\ RreqLabelled(r)
      BY DEF TypeOK, TraceInv, LabelledInv
    <3> QED
      BY <2>3, <3>1, ExtendedLabelled
  <2> QED
    BY <2>1, <2>2, <2>3, NewRreqs
<1>2. ASSUME NEW m \in rreps' PROVE PathLabelled(m.trace_path, m.dldsr_label_path)
  <2>1. CASE m \in rreps
    BY <2>1 DEF LabelledInv
  <2>2. ASSUME NEW r \in rreqs, AdmitsRreq(r), ~Unlabelled(r), r.to = r.dst_node_id,
               NEW next, m = Reply(r, next)
        PROVE  PathLabelled(m.trace_path, m.dldsr_label_path)
    <3>1. r \in Rreq /\ RreqTrace(r) /\ RreqLabelled(r)
      BY DEF TypeOK, TraceInv, LabelledInv
    <3> QED
      BY <2>2, <3>1, ExtendedLabelled
  <2>3. ASSUME NEW r \in rreps, NEW next, m = ForwardedRrep(r, next)
        PROVE  PathLabelled(m.trace_path, m.dldsr_label_path)
    <3>1. m.trace_path = r.trace_path /\ m.dldsr_label_path = r.dldsr_label_path
      BY <2>3 DEF ForwardedRrep
    <3> QED
      BY <3>1 DEF LabelledInv
  <2> QED
    BY <2>1, <2>2, <2>3, NewRreps
<1>3. /\ \A m \in rreqs' : m \in Rreq
      /\ \A m \in rreps' : m.dldsr_label_path \in Seq(Labels)
  BY DEF TypeOK, Rrep
<1>4. \A m \in rreqs' : RreqLabelled(m)'
  BY <1>1, <1>3, LabelledKept
<1>5. ASSUME NEW m \in rreps' PROVE PathLabelled(m.trace_path, m.dldsr_label_path)'
  BY <1>2, <1>3, LabelledKept
<1> QED
  BY <1>4, <1>5 DEF LabelledInv

\* The route made of a labelled reply; a DSR node is on its own path and cuts
\* the labels off.
LEMMA LearnedLabelled ==
  ASSUME TypeOK, TraceInv, LabelledInv, NEW route, NEW n, NEW d, Learned(route, n, d)
  PROVE  PathLabelled(route.dsr_path, route.dldsr_label_path)
<1>1. PICK m \in rreps : RouteOf(route, m, n, d)
  BY DEF Learned
<1>2. PathLabelled(m.trace_path, m.dldsr_label_path) /\ RrepTrace(m) /\ m.trace_path \in Seq(Nodes)
  BY DEF LabelledInv, TraceInv, TypeOK, Rrep
<1>3. route.dsr_path = m.trace_path
  BY <1>1, <1>2 DEF RouteOf, RrepTrace
<1>4. CASE n \in DlDsrNodes
  BY <1>1, <1>2, <1>3, <1>4 DEF RouteOf
<1>5. CASE n \notin DlDsrNodes
  <2>1. 1 \in DOMAIN m.trace_path /\ m.trace_path[1] = n
    BY <1>1, <1>2 DEF RouteOf, RrepTrace
  <2>2. n \in Range(m.trace_path)
    BY <2>1 DEF Range
  <2> QED
    BY <1>3, <1>5, <2>2 DEF PathLabelled
<1> QED
  BY <1>4, <1>5

\* Cached routes are labelled and stay so.
LEMMA LabelledRoutesStep ==
  ASSUME TypeOK, TypeOK', TraceInv, LabelledInv, LabelledRoutes, [Next]_vars
  PROVE  LabelledRoutes'
<1>1. ASSUME NEW n \in Nodes, NEW d \in NodeIds, NEW i \in DOMAIN routes'[n][d]
      PROVE  PathLabelled(routes[n][d][i].dsr_path, routes[n][d][i].dldsr_label_path)'
  <2>1. PICK route : route = routes'[n][d][i]
    OBVIOUS
  <2>2. route \in RouteEntries
    BY <2>1 DEF TypeOK
  <2>3. route.dldsr_label_path \in Seq(Labels)
    BY <2>2 DEF RouteEntries
  <2>4. ASSUME Cached(route, n, d) PROVE PathLabelled(route.dsr_path, route.dldsr_label_path)
    <3>1. PICK j \in DOMAIN routes[n][d] : SameRoute(route, routes[n][d][j])
      BY <2>4 DEF Cached
    <3> QED
      BY <3>1 DEF SameRoute, LabelledRoutes
  <2>5. ASSUME Learned(route, n, d) PROVE PathLabelled(route.dsr_path, route.dldsr_label_path)
    BY <2>5, LearnedLabelled
  <2>6. PathLabelled(route.dsr_path, route.dldsr_label_path)
    BY <2>1, <2>4, <2>5, RouteChange
  <2>7. PathLabelled(route.dsr_path, route.dldsr_label_path)'
    BY <2>3, <2>6, LabelledKept
  <2> QED
    BY <2>1, <2>7 DEF PathLabelled, WalkAlong, Walk
<1> QED
  BY <1>1 DEF LabelledRoutes

\* Labelled packets and routes, in every reachable state.
LEMMA LabelledInvariant == Spec => [](LabelledInv /\ LabelledRoutes)
<1>1. Init => LabelledInv /\ LabelledRoutes
  BY DEF Init, LabelledInv, LabelledRoutes
<1>2. TypeOK /\ TypeOK' /\ LabelAgreement /\ TraceInv /\ LabelledInv /\ [Next]_vars => LabelledInv'
  BY LabelledStep
<1>3. TypeOK /\ TypeOK' /\ TraceInv /\ LabelledInv /\ LabelledRoutes /\ [Next]_vars
        => LabelledRoutes'
  BY LabelledRoutesStep
<1> QED
  BY <1>1, <1>2, <1>3, TypeCorrect, ProtocolLabelAgreement, TraceInvariant, PTL DEF Spec

\* A label on a walk names the next node, and no other.
LEMMA WalkResolves ==
  ASSUME LabelsUnique, NEW label_path \in Seq(Labels), NEW w \in Seq(Nodes), Walk(w, label_path),
         NEW k \in 1..Len(label_path), restarts[w[k]] = 0
  PROVE  neighbor_by_label(w[k], label_path[k]) = {w[k + 1]}
<1>1. w[k] \in Nodes /\ w[k + 1] \in Nodes /\ neighbors[w[k]][w[k + 1]] = label_path[k]
  BY DEF Walk
<1>2. label_path[k] # NoLabel
  <2>1. label_path[k] \in Labels
    OBVIOUS
  <2> QED
    BY <2>1, LabelAssumption DEF LabelAssumption, Labels, NoLabel
<1>3. \A id \in Nodes : neighbors[w[k]][id] = label_path[k] => id = w[k + 1]
  BY <1>1, <1>2 DEF LabelsUnique
<1> QED
  BY <1>1, <1>3 DEF neighbor_by_label

\* In every topology without self-loops, any mix of modes and any restarts: the
\* label path of a cached all-DL-DSR route is the node path in labels, and
\* stays resolvable hop by hop at every node that kept its table.
THEOREM LabelsFollowPathTheorem == Spec => []LabelsFollowPath
<1>1. ASSUME TypeOK, LabelsUnique, LabelledRoutes, NoneListsItself,
             NEW n \in Nodes, NEW d \in NodeIds, NEW i \in DOMAIN routes[n][d],
             Range(routes[n][d][i].dsr_path) \subseteq DlDsrNodes
      PROVE  /\ Len(routes[n][d][i].dldsr_label_path) = Len(routes[n][d][i].dsr_path) - 1
             /\ \A k \in DOMAIN routes[n][d][i].dldsr_label_path :
                  restarts[routes[n][d][i].dsr_path[k]] = 0
                    => neighbor_by_label(routes[n][d][i].dsr_path[k],
                                         routes[n][d][i].dldsr_label_path[k])
                         = {routes[n][d][i].dsr_path[k + 1]}
  <2>0. PICK path, l : path = routes[n][d][i].dsr_path /\ l = routes[n][d][i].dldsr_label_path
    OBVIOUS
  <2>1. path \in Seq(Nodes) /\ l \in Seq(Labels) /\ Len(path) \in Nat /\ Len(l) \in Nat
    <3>1. routes[n][d][i] \in RouteEntries
      BY <1>1 DEF TypeOK
    <3> QED
      BY <2>0, <3>1 DEF RouteEntries
  <2>2. Walk(path, l)
    BY <1>1, <2>0 DEF LabelledRoutes, PathLabelled, WalkAlong
  <2>3. Len(l) = Len(path) - 1
    BY <2>1, <2>2 DEF Walk
  <2>4. ASSUME NEW k \in DOMAIN l, restarts[path[k]] = 0
        PROVE  neighbor_by_label(path[k], l[k]) = {path[k + 1]}
    <3>1. k \in 1..Len(l)
      BY <2>1
    <3>2. LabelsUnique
      BY <1>1
    <3> QED
      BY <2>1, <2>2, <2>4, <3>1, <3>2, WalkResolves
  <2> QED
    BY <2>0, <2>3, <2>4
<1>2. TypeOK /\ LabelsUnique /\ LabelledRoutes => LabelsFollowPath
  BY <1>1 DEF LabelsFollowPath, NoneListsItself
<1> QED
  BY <1>2, TypeCorrect, ProtocolLabelsUnique, LabelledInvariant, PTL
-----------------------------------------------------------------------------
(***************************************************************************)
(* Data on its route                                                       *)
(***************************************************************************)
AllDlDsr == DlDsrNodes = Nodes /\ \A n \in Nodes : restarts[n] = 0
OneMode == DlDsrNodes = {} \/ AllDlDsr

\* A DSR packet is on the hop of its path that its cursor counts.
OnPath(m) ==
  /\ SimplePath(m.dsr_path, m.src_node_id, m.dst_node_id)
  /\ m.route_cursor \in 1..(Len(m.dsr_path) - 1)
  /\ m.dsr_path[m.route_cursor] = m.from
  /\ m.dsr_path[m.route_cursor + 1] = m.to

\* A DL-DSR packet is on the hop of the walk w of its labels.
OnWalk(m, w) ==
  /\ Walk(w, m.dldsr_label_path)
  /\ w[Len(w)] = m.dst_node_id
  /\ \A k \in 2..(Len(w) - 1) : w[k] # m.dst_node_id
  /\ m.route_cursor \in 1..(Len(w) - 1)
  /\ w[m.route_cursor] = m.from
  /\ w[m.route_cursor + 1] = m.to

\* A DL-DSR packet follows its walk as long as all nodes read labels and keep
\* their tables; a DSR packet follows its path in any network.
OnRoute(m) ==
  /\ m.protocol_mode = protocol_mode(m.src_node_id)
  /\ m.protocol_mode = "Dsr" => OnPath(m)
  /\ m.protocol_mode = "DlDsr" /\ AllDlDsr => \E w : OnWalk(m, w)

DataInv == \A m \in datas : OnRoute(m)

GoodRoute(route, n, d) ==
  /\ route \in RouteEntries
  /\ RouteSimple(route, n, d)
  /\ PathLabelled(route.dsr_path, route.dldsr_label_path)

\* What the preceding sections establish.
RouteSound ==
  TypeOK /\ LabelsUnique /\ TraceInv /\ RoutesInv /\ LabelledInv /\ LabelledRoutes

\* With a good route there is a first hop, and it is the right one.
LEMMA FirstHop ==
  ASSUME LabelsUnique, NEW n \in Nodes, NEW d, NEW route, GoodRoute(route, n, d)
  PROVE  /\ n \notin DlDsrNodes => next_data_endpoint(n, route) = {route.dsr_path[2]}
         /\ AllDlDsr =>
              \E w : /\ Walk(w, route.dldsr_label_path) /\ Len(w) >= 2
                     /\ w[1] = n /\ w[Len(w)] = d
                     /\ \A k \in 2..(Len(w) - 1) : w[k] # d
                     /\ next_data_endpoint(n, route) = {w[2]}
<1> DEFINE path == route.dsr_path
           l == route.dldsr_label_path
<1>1. path \in Seq(Nodes) /\ l \in Seq(Labels) /\ Len(path) \in Nat /\ Len(l) \in Nat
  BY DEF GoodRoute, RouteEntries
<1>2. Len(path) >= 2 /\ path[1] = n /\ path[Len(path)] = d /\ IsInjective(path)
  BY DEF GoodRoute, RouteSimple, SimplePath
<1>3. ASSUME n \notin DlDsrNodes PROVE next_data_endpoint(n, route) = {path[2]}
  <2>1. path[2] \in Nodes
    BY <1>1, <1>2
  <2> QED
    BY <1>1, <1>2, <1>3, <2>1 DEF next_data_endpoint
<1>4. ASSUME AllDlDsr
      PROVE  \E w : /\ Walk(w, l) /\ Len(w) >= 2
                    /\ w[1] = n /\ w[Len(w)] = d
                    /\ \A k \in 2..(Len(w) - 1) : w[k] # d
                    /\ next_data_endpoint(n, route) = {w[2]}
  <2>1. Range(path) \subseteq DlDsrNodes
    BY <1>1, <1>4 DEF AllDlDsr, Range
  <2>2. PathLabelled(path, l)
    BY DEF GoodRoute
  <2> HIDE DEF path, l
  <2>3. PICK w : WalkAlong(w, path, l) /\ \A k \in 2..(Len(w) - 1) : w[k] # path[Len(path)]
    BY <2>1, <2>2 DEF PathLabelled
  <2>4. /\ Walk(w, l) /\ w[1] = n /\ w[Len(w)] = d
        /\ w \in Seq(Nodes) /\ Len(w) = Len(l) + 1
    BY <1>2, <2>3 DEF WalkAlong, Walk
  <2>5. n # d
    BY <1>1, <1>2 DEF IsInjective
  <2>6. Len(w) >= 2 /\ Len(l) >= 1 /\ l # <<>> /\ 1 \in 1..Len(l)
    BY <1>1, <2>4, <2>5
  <2>7. restarts[w[1]] = 0
    BY <1>4, <2>4 DEF AllDlDsr
  <2>8. neighbor_by_label(w[1], l[1]) = {w[1 + 1]}
    BY <1>1, <2>4, <2>6, <2>7, WalkResolves
  <2>9. next_data_endpoint(n, route) = {w[2]}
    BY <1>4, <2>4, <2>6, <2>8 DEF AllDlDsr, next_data_endpoint, l
  <2> QED
    BY <1>2, <2>3, <2>4, <2>6, <2>9
<1> QED
  BY <1>3, <1>4

\* Data put on a good route is on its route, and in a network of one mode none
\* is dropped.
LEMMA OriginFollows ==
  ASSUME LabelsUnique, NEW n \in Nodes, NEW d, NEW payloads, NEW route, NEW reported,
         GoodRoute(route, n, d), origin_data(n, d, payloads, route, reported)
  PROVE  /\ \A m \in datas' \ datas : OnRoute(m)
         /\ OneMode => drops' = drops
<1>1. /\ n \notin DlDsrNodes => next_data_endpoint(n, route) = {route.dsr_path[2]}
      /\ AllDlDsr =>
           \E w : /\ Walk(w, route.dldsr_label_path) /\ Len(w) >= 2
                  /\ w[1] = n /\ w[Len(w)] = d
                  /\ \A k \in 2..(Len(w) - 1) : w[k] # d
                  /\ next_data_endpoint(n, route) = {w[2]}
  BY FirstHop
<1>2. ASSUME NEW m \in datas' \ datas PROVE OnRoute(m)
  <2>1. PICK i \in DOMAIN payloads :
          m \in {OriginPacket(n, d, payloads, i, route, next) : next \in next_data_endpoint(n, route)}
    BY <1>2 DEF origin_data
  <2>2. PICK next \in next_data_endpoint(n, route) : m = OriginPacket(n, d, payloads, i, route, next)
    BY <2>1
  <2>3. /\ m.src_node_id = n /\ m.dst_node_id = d /\ m.protocol_mode = protocol_mode(n)
        /\ m.route_cursor = 1 /\ m.dsr_path = route.dsr_path
        /\ m.dldsr_label_path = route.dldsr_label_path /\ m.from = n /\ m.to = next
    BY <2>2 DEF OriginPacket
  <2>4. ASSUME m.protocol_mode = "Dsr" PROVE OnPath(m)
    <3>1. n \notin DlDsrNodes
      BY <2>3, <2>4 DEF protocol_mode
    <3>2. next = route.dsr_path[2]
      BY <1>1, <2>2, <3>1
    <3>3. /\ SimplePath(route.dsr_path, n, d) /\ Len(route.dsr_path) \in Nat
          /\ Len(route.dsr_path) >= 2 /\ route.dsr_path[1] = n
      BY DEF GoodRoute, RouteSimple, SimplePath, RouteEntries
    <3>4. 1 \in 1..(Len(route.dsr_path) - 1)
      BY <3>3
    <3> QED
      BY <2>3, <3>2, <3>3, <3>4 DEF OnPath
  <2>5. ASSUME AllDlDsr PROVE \E w : OnWalk(m, w)
    <3>1. PICK w : /\ Walk(w, route.dldsr_label_path) /\ Len(w) >= 2
                   /\ w[1] = n /\ w[Len(w)] = d
                   /\ \A k \in 2..(Len(w) - 1) : w[k] # d
                   /\ next_data_endpoint(n, route) = {w[2]}
      BY <1>1, <2>5
    <3>2. next = w[2]
      BY <2>2, <3>1
    <3>3. 1 \in 1..(Len(w) - 1)
      <4>1. Len(w) \in Nat
        BY <3>1 DEF Walk
      <4> QED
        BY <3>1, <4>1
    <3>4. OnWalk(m, w)
      BY <2>3, <3>1, <3>2, <3>3 DEF OnWalk
    <3> QED
      BY <3>4
  <2> QED
    BY <2>3, <2>4, <2>5 DEF OnRoute
<1>3. ASSUME OneMode PROVE drops' = drops
  <2>1. next_data_endpoint(n, route) # {}
    BY <1>1, <1>3 DEF OneMode
  <2>2. drops' = drops \cup [payload : {}, node : {n}, reason : {"no next hop"}, reported : {reported}]
    BY <2>1 DEF origin_data
  <2> QED
    BY <2>2
<1> QED
  BY <1>2, <1>3

\* On a simple path a node has one position.
LEMMA PathPosition ==
  ASSUME NEW path \in Seq(Nodes), IsInjective(path), NEW i \in 1..Len(path)
  PROVE  Position(path, path[i]) = {i}
BY DEF Position, IsInjective

\* A packet on its route, one hop further.
LEMMA ForwardFollows ==
  ASSUME LabelsUnique, NEW m \in Data, OnRoute(m), NEW next \in NextHop(m.to, m),
         NEW f \in ForwardedData(m, next)
  PROVE  OnRoute(f)
<1> DEFINE c == m.route_cursor + 1
<1>1. /\ f.src_node_id = m.src_node_id /\ f.dst_node_id = m.dst_node_id
      /\ f.protocol_mode = m.protocol_mode /\ f.route_cursor = c
      /\ f.dsr_path = m.dsr_path /\ f.dldsr_label_path = m.dldsr_label_path
      /\ f.from = m.to /\ f.to = next
  BY DEF ForwardedData
<1>2. /\ m.route_cursor \in Nat /\ m.dsr_path \in Seq(Nodes) /\ m.dldsr_label_path \in Seq(Labels)
      /\ Len(m.dsr_path) \in Nat /\ Len(m.dldsr_label_path) \in Nat /\ m.to \in Nodes
  BY DEF Data
<1>3. ASSUME m.protocol_mode = "Dsr" PROVE OnPath(f)
  <2>1. c < Len(m.dsr_path) /\ next = m.dsr_path[c + 1]
    BY <1>3 DEF NextHop
  <2>2. /\ SimplePath(m.dsr_path, m.src_node_id, m.dst_node_id)
        /\ m.route_cursor \in 1..(Len(m.dsr_path) - 1) /\ m.dsr_path[c] = m.to
    BY <1>3 DEF OnRoute, OnPath
  <2>3. c \in 1..(Len(m.dsr_path) - 1)
    BY <1>2, <2>1
  <2> HIDE DEF c
  <2> QED
    BY <1>1, <2>1, <2>2, <2>3 DEF OnPath
<1>4. ASSUME m.protocol_mode = "DlDsr", AllDlDsr PROVE \E w : OnWalk(f, w)
  <2>1. PICK w : OnWalk(m, w)
    BY <1>4 DEF OnRoute
  <2>2. c <= Len(m.dldsr_label_path) /\ next \in neighbor_by_label(m.to, m.dldsr_label_path[c])
    BY <1>4 DEF NextHop
  <2>3. /\ Walk(w, m.dldsr_label_path) /\ w[c] = m.to /\ w[Len(w)] = m.dst_node_id
        /\ \A k \in 2..(Len(w) - 1) : w[k] # m.dst_node_id
        /\ w \in Seq(Nodes) /\ Len(w) = Len(m.dldsr_label_path) + 1
    BY <2>1 DEF OnWalk, Walk
  <2>4. c \in 1..Len(m.dldsr_label_path) /\ c \in 1..(Len(w) - 1)
    BY <1>2, <2>2, <2>3
  <2>5. restarts[w[c]] = 0
    BY <1>2, <1>4, <2>3 DEF AllDlDsr
  <2> HIDE DEF c
  <2>6. neighbor_by_label(w[c], m.dldsr_label_path[c]) = {w[c + 1]}
    <3>1. PICK l \in Seq(Labels) : l = m.dldsr_label_path
      BY <1>2
    <3>2. w \in Seq(Nodes) /\ Walk(w, l) /\ c \in 1..Len(l)
      BY <2>3, <2>4, <3>1
    <3>3. neighbor_by_label(w[c], l[c]) = {w[c + 1]}
      BY <2>5, <3>2, WalkResolves
    <3> QED
      BY <3>1, <3>3
  <2>7. next = w[c + 1]
    BY <2>2, <2>3, <2>6
  <2>8. OnWalk(f, w)
    BY <1>1, <2>3, <2>4, <2>7 DEF OnWalk
  <2> QED
    BY <2>8
<1> QED
  BY <1>1, <1>3, <1>4 DEF OnRoute

\* In a network of one mode every node accepts what is on its route, and can
\* deliver it or pass it on.
LEMMA NeverRefused ==
  ASSUME LabelsUnique, NEW m \in Data, OnRoute(m), OneMode
  PROVE  CanDeliver(m) \/ CanForward(m)
<1> DEFINE c == m.route_cursor + 1
<1>1. /\ m.route_cursor \in Nat /\ m.dsr_path \in Seq(Nodes) /\ m.dldsr_label_path \in Seq(Labels)
      /\ Len(m.dsr_path) \in Nat /\ Len(m.dldsr_label_path) \in Nat
      /\ m.to \in Nodes /\ m.from \in Nodes /\ m.src_node_id \in Nodes
  BY DEF Data
<1>2. m.protocol_mode = protocol_mode(m.src_node_id)
  BY DEF OnRoute
<1>3. m.protocol_mode = protocol_mode(m.to)
  BY <1>1, <1>2 DEF protocol_mode, OneMode, AllDlDsr
<1>4. CASE DlDsrNodes = {}
  <2>1. m.protocol_mode = "Dsr" /\ OnPath(m)
    BY <1>2, <1>4 DEF protocol_mode, OnRoute
  <2>2. /\ m.route_cursor \in 1..(Len(m.dsr_path) - 1) /\ IsInjective(m.dsr_path)
        /\ m.dsr_path[c] = m.to /\ m.dsr_path[m.route_cursor] = m.from
        /\ m.dsr_path[Len(m.dsr_path)] = m.dst_node_id
        /\ \A i \in 1..(Len(m.dsr_path) - 1) : Linked(m.dsr_path[i], m.dsr_path[i + 1])
    BY <2>1 DEF OnPath, SimplePath
  <2>3. AdmitsData(m)
    <3>1. Linked(m.from, m.to)
      BY <2>2
    <3> QED
      BY <1>3, <3>1 DEF AdmitsData, Linked, are_adjacent, is_logical_neighbor
  <2>4. c \in 1..Len(m.dsr_path) /\ c > 1 /\ c - 1 = m.route_cursor
    BY <1>1, <2>2
  <2> HIDE DEF c
  <2>5. Position(m.dsr_path, m.to) = {c}
    BY <1>1, <2>2, <2>4, PathPosition
  <2>6. CASE m.to = m.dst_node_id
    <3>1. validate_data_delivery(m.to, m)
      BY <2>1, <2>2, <2>4, <2>5, <2>6 DEF validate_data_delivery
    <3> QED
      BY <2>3, <2>6, <3>1 DEF CanDeliver
  <2>7. CASE m.to # m.dst_node_id
    <3>1. c < Len(m.dsr_path)
      BY <1>1, <2>2, <2>4, <2>7
    <3>2. c \in 1..(Len(m.dsr_path) - 1)
      BY <1>1, <2>4, <3>1
    <3>3. Linked(m.to, m.dsr_path[c + 1])
      BY <2>2, <3>2
    <3>4. m.dsr_path[c + 1] \in NextHop(m.to, m)
      BY <2>1, <2>2, <3>1, <3>3 DEF NextHop, Linked, are_adjacent, c
    <3> QED
      BY <2>3, <2>7, <3>4 DEF CanForward
  <2> QED
    BY <2>6, <2>7
<1>5. CASE AllDlDsr /\ DlDsrNodes # {}
  <2>1. m.protocol_mode = "DlDsr"
    BY <1>1, <1>2, <1>5 DEF AllDlDsr, protocol_mode
  <2>2. PICK w : OnWalk(m, w)
    BY <1>5, <2>1 DEF OnRoute
  <2>3. /\ Walk(w, m.dldsr_label_path) /\ w[c] = m.to /\ w[Len(w)] = m.dst_node_id
        /\ \A k \in 2..(Len(w) - 1) : w[k] # m.dst_node_id
        /\ m.route_cursor \in 1..(Len(w) - 1) /\ w[m.route_cursor] = m.from
    BY <2>2 DEF OnWalk
  <2>4. /\ w \in Seq(Nodes) /\ Len(w) = Len(m.dldsr_label_path) + 1
        /\ \A k \in 1..Len(m.dldsr_label_path) : Linked(w[k], w[k + 1])
    BY <2>3 DEF Walk
  <2>5. AdmitsData(m)
    <3>1. Linked(m.from, m.to)
      BY <1>1, <2>3, <2>4
    <3> QED
      BY <1>3, <3>1 DEF AdmitsData, Linked, are_adjacent, is_logical_neighbor
  <2>6. c \in 2..Len(w) /\ c - 1 = m.route_cursor
    BY <1>1, <2>3, <2>4
  <2> HIDE DEF c
  <2>7. CASE m.to = m.dst_node_id
    <3>1. c = Len(w)
      BY <1>1, <2>3, <2>4, <2>6, <2>7
    <3>2. validate_data_delivery(m.to, m)
      BY <1>1, <2>1, <2>4, <2>6, <3>1 DEF validate_data_delivery
    <3> QED
      BY <2>5, <2>7, <3>2 DEF CanDeliver
  <2>8. CASE m.to # m.dst_node_id
    <3>1. c \in 1..Len(m.dldsr_label_path)
      BY <1>1, <2>3, <2>4, <2>6, <2>8
    <3>2. restarts[w[c]] = 0
      BY <1>1, <1>5, <2>3 DEF AllDlDsr
    <3>3. neighbor_by_label(w[c], m.dldsr_label_path[c]) = {w[c + 1]}
      <4>1. PICK l \in Seq(Labels) : l = m.dldsr_label_path
        BY <1>1
      <4>2. w \in Seq(Nodes) /\ Walk(w, l) /\ c \in 1..Len(l)
        BY <2>3, <2>4, <3>1, <4>1
      <4>3. neighbor_by_label(w[c], l[c]) = {w[c + 1]}
        BY <3>2, <4>2, WalkResolves
      <4> QED
        BY <4>1, <4>3
    <3>4. Linked(m.to, w[c + 1])
      BY <2>3, <2>4, <3>1
    <3>5. w[c + 1] \in NextHop(m.to, m)
      BY <1>1, <2>1, <2>3, <3>1, <3>3, <3>4 DEF NextHop, Linked, are_adjacent, c
    <3> QED
      BY <2>5, <2>8, <3>5 DEF CanForward
  <2> QED
    BY <2>7, <2>8
<1> QED
  BY <1>4, <1>5 DEF OneMode

\* The routes data is put on are good ones: cached before, or just learned.
LEMMA OriginSteps ==
  ASSUME RouteSound
  PROVE  /\ \A p \in Payloads : SendOnCachedRoute(p) =>
              \E route : /\ GoodRoute(route, Src[p], Dst[p])
                         /\ origin_data(Src[p], Dst[p], <<p>>, route, TRUE)
         /\ \A m \in rreps : CacheRoute(m) =>
              \E route : /\ GoodRoute(route, m.to, m.dst_node_id)
                         /\ origin_data(m.to, m.dst_node_id, pending_data[m.to][m.dst_node_id],
                                        route, FALSE)
<1>1. ASSUME NEW p \in Payloads, SendOnCachedRoute(p)
      PROVE  \E route : /\ GoodRoute(route, Src[p], Dst[p])
                        /\ origin_data(Src[p], Dst[p], <<p>>, route, TRUE)
  <2>1. Src[p] \in Nodes /\ Dst[p] \in NodeIds
    BY ProtocolAssumption DEF ProtocolAssumption
  <2>2. PICK route \in shortest(routes[Src[p]][Dst[p]]) :
          origin_data(Src[p], Dst[p], <<p>>, route, TRUE)
    BY <1>1 DEF SendOnCachedRoute
  <2>3. PICK i \in DOMAIN routes[Src[p]][Dst[p]] : route = routes[Src[p]][Dst[p]][i]
    BY <2>2 DEF shortest
  <2>4. route \in RouteEntries
    <3>1. routes[Src[p]][Dst[p]] \in Seq(RouteEntries)
      BY <2>1 DEF RouteSound, TypeOK
    <3> QED
      BY <2>3, <3>1
  <2>5. GoodRoute(route, Src[p], Dst[p])
    BY <2>1, <2>3, <2>4 DEF GoodRoute, RouteSound, RoutesInv, LabelledRoutes
  <2> QED
    BY <2>2, <2>5
<1>2. ASSUME NEW m \in rreps, CacheRoute(m)
      PROVE  \E route : /\ GoodRoute(route, m.to, m.dst_node_id)
                        /\ origin_data(m.to, m.dst_node_id, pending_data[m.to][m.dst_node_id],
                                       route, FALSE)
  <2>1. TypeOK /\ TraceInv /\ LabelledInv
    BY DEF RouteSound
  <2>2. PICK route \in RouteEntries :
          /\ Learned(route, m.to, m.dst_node_id)
          /\ origin_data(m.to, m.dst_node_id, pending_data[m.to][m.dst_node_id], route, FALSE)
    BY <1>2, <2>1, CacheRouteLearns
  <2>3. /\ RouteSimple(route, m.to, m.dst_node_id)
        /\ PathLabelled(route.dsr_path, route.dldsr_label_path)
    BY <2>1, <2>2, LearnedSimple, LearnedLabelled
  <2> QED
    BY <2>2, <2>3 DEF GoodRoute
<1> QED
  BY <1>1, <1>2

\* What a step may add in flight and among the drops.
Kept == /\ \A m \in datas' : OnRoute(m)
        /\ OneMode => \A x \in drops' : x \in drops \/ x.reason = "discovery failed"

\* Every step keeps data on its route; in a network of one mode it adds no
\* drops but those of failed discoveries.
LEMMA DataChange ==
  ASSUME RouteSound, DataInv, [Next]_vars
  PROVE  Kept
<1>1. TypeOK /\ LabelsUnique
  BY DEF RouteSound
<1>2. datas' = datas /\ drops' = drops => Kept
  BY DEF Kept, DataInv
<1>3. ASSUME NEW n \in Nodes, NEW d, NEW payloads, NEW route, NEW reported,
             GoodRoute(route, n, d), origin_data(n, d, payloads, route, reported)
      PROVE  Kept
  <2>1. (\A m \in datas' \ datas : OnRoute(m)) /\ (OneMode => drops' = drops)
    BY <1>1, <1>3, OriginFollows
  <2> QED
    BY <2>1 DEF Kept, DataInv
<1>4. ASSUME NEW p \in Payloads, SendOnCachedRoute(p) PROVE Kept
  <2>1. Src[p] \in Nodes
    BY ProtocolAssumption DEF ProtocolAssumption
  <2>2. PICK route : /\ GoodRoute(route, Src[p], Dst[p])
                     /\ origin_data(Src[p], Dst[p], <<p>>, route, TRUE)
    BY <1>4, OriginSteps
  <2> QED
    BY <1>3, <2>1, <2>2
<1>5. ASSUME NEW m \in rreps, CacheRoute(m) PROVE Kept
  <2>1. m.to \in Nodes
    BY <1>1 DEF TypeOK, Rrep
  <2>2. PICK route : /\ GoodRoute(route, m.to, m.dst_node_id)
                     /\ origin_data(m.to, m.dst_node_id, pending_data[m.to][m.dst_node_id],
                                    route, FALSE)
    BY <1>5, OriginSteps
  <2>3. PICK payloads : payloads = pending_data[m.to][m.dst_node_id]
    OBVIOUS
  <2> QED
    BY <1>3, <2>1, <2>2, <2>3
<1>6. ASSUME NEW m \in datas, handle_data(m) PROVE Kept
  <2>1. m \in Data /\ OnRoute(m)
    BY <1>1 DEF TypeOK, DataInv
  <2>2. CASE DeliverData(m)
    <3>1. datas' \subseteq datas /\ drops' = drops
      BY <2>2 DEF DeliverData, Receive
    <3> QED
      BY <3>1 DEF Kept, DataInv
  <2>3. CASE ForwardData(m)
    <3>1. drops' = drops
      BY <2>3 DEF ForwardData, historyVars
    <3>2. PICK next \in NextHop(m.to, m) : Receive(datas, m, ForwardedData(m, next))
      BY <2>3 DEF ForwardData
    <3>3. \A f \in datas' : f \in datas \/ f \in ForwardedData(m, next)
      BY <3>2 DEF Receive
    <3>4. \A f \in ForwardedData(m, next) : OnRoute(f)
      BY <1>1, <2>1, ForwardFollows
    <3> QED
      BY <3>1, <3>3, <3>4 DEF Kept, DataInv
  <2>4. CASE drop_data(m)
    <3>1. datas' \subseteq datas
      BY <2>4 DEF drop_data, Receive
    <3>2. ~OneMode
      BY <1>1, <2>1, <2>4, NeverRefused DEF drop_data
    <3> QED
      BY <3>1, <3>2 DEF Kept, DataInv
  <2> QED
    BY <1>6, <2>2, <2>3, <2>4 DEF handle_data
<1>7. ASSUME NEW n \in Nodes, Tick(n) PROVE Kept
  <2>1. datas' = datas
    BY <1>7 DEF Tick
  <2>2. \A x \in drops' : x \in drops \/ x.reason = "discovery failed"
    BY <1>7 DEF Tick
  <2> QED
    BY <2>1, <2>2 DEF Kept, DataInv
<1> SUFFICES Kept
  OBVIOUS
<1>8. CASE PacketStep
  <2>1. ASSUME NEW p \in Payloads, QueuePayload(p) PROVE Kept
    BY <1>2, <2>1 DEF QueuePayload
  <2>2. ASSUME NEW m \in rreqs, handle_rreq(m) PROVE Kept
    BY <1>2, <2>2
    DEF handle_rreq, RefuseRreq, DropRreq, AnswerRreq, ForwardRreq, RreqFrame, historyVars
  <2>3. ASSUME NEW m \in rreps, handle_rrep(m) PROVE Kept
    BY <1>2, <1>5, <2>3 DEF handle_rrep, RejectRrep, ForwardRrep, historyVars
  <2> QED
    BY <1>4, <1>6, <1>8, <2>1, <2>2, <2>3 DEF PacketStep
<1>9. CASE TimerStep
  BY <1>2, <1>7, <1>9 DEF TimerStep, Elapse, SetBack, ClockFrame, historyVars
<1>10. CASE LabelStep
  BY <1>2, <1>10 DEF LabelStep, historyVars
<1>11. CASE \E n \in Nodes : Restart(n)
  BY <1>2, <1>11 DEF Restart, RestartProtocol, historyVars
<1>12. CASE UNCHANGED vars
  BY <1>2, <1>12 DEF vars, historyVars
<1> QED
  BY <1>8, <1>9, <1>10, <1>11, <1>12 DEF Next

\* A network of one mode was one before the step.
LEMMA OneModeBefore ==
  ASSUME TypeOK, [Next]_vars
  PROVE  (AllDlDsr' => AllDlDsr) /\ (OneMode' => OneMode)
BY RestartsGrow DEF AllDlDsr, OneMode

\* Walks do not go stale while the tables last, so data stays on its route.
LEMMA OnRouteKept ==
  ASSUME TypeOK, [Next]_vars, NEW m \in Data, OnRoute(m)
  PROVE  OnRoute(m)'
<1>1. m.dldsr_label_path \in Seq(Labels)
  BY DEF Data
<1>2. ASSUME NEW w, OnWalk(m, w) PROVE OnWalk(m, w)'
  <2>1. PICK l \in Seq(Labels) : l = m.dldsr_label_path
    BY <1>1
  <2>2. Walk(w, l)'
    BY <1>2, <2>1, WalkKept DEF OnWalk
  <2> QED
    BY <1>2, <2>1, <2>2 DEF OnWalk
<1>3. AllDlDsr' => AllDlDsr
  BY OneModeBefore
<1> QED
  BY <1>2, <1>3 DEF OnRoute, OnPath

\* DataInv is inductive.
LEMMA DataStep ==
  ASSUME RouteSound, TypeOK', DataInv, [Next]_vars
  PROVE  DataInv'
<1>1. TypeOK /\ \A m \in datas' : m \in Data /\ OnRoute(m)
  BY DataChange DEF RouteSound, TypeOK, Kept
<1>2. \A m \in datas' : OnRoute(m)'
  BY <1>1, OnRouteKept
<1> QED
  BY <1>2 DEF DataInv

\* In a DSR network, whatever restarts, and in a DL-DSR network whose daemons
\* keep running, a payload that got a route is dropped by no node: label or
\* path, cursor, mode check and neighbour check always agree.  Topology, loss,
\* duplication, circling requests and stale cached routes do not matter.
THEOREM RoutedDataNeverDroppedTheorem == Spec => []RoutedDataNeverDropped
<1>1. Init => DataInv /\ RoutedDataNeverDropped
  BY DEF Init, DataInv, RoutedDataNeverDropped
<1>2. RouteSound /\ TypeOK' /\ DataInv /\ [Next]_vars => DataInv'
  BY DataStep
<1>3. RouteSound /\ DataInv /\ RoutedDataNeverDropped /\ [Next]_vars => RoutedDataNeverDropped'
  <2> SUFFICES ASSUME RouteSound, DataInv, RoutedDataNeverDropped, [Next]_vars, OneMode',
                      NEW x \in drops'
               PROVE  x.reason = "discovery failed"
    BY DEF RoutedDataNeverDropped, OneMode, AllDlDsr
  <2>1. OneMode
    BY OneModeBefore DEF RouteSound
  <2>2. x \in drops \/ x.reason = "discovery failed"
    BY <2>1, DataChange DEF Kept
  <2> QED
    BY <2>1, <2>2 DEF RoutedDataNeverDropped, OneMode, AllDlDsr
<1>4. TypeOK /\ LabelsUnique /\ TraceInv /\ RoutesInv /\ LabelledInv /\ LabelledRoutes => RouteSound
  BY DEF RouteSound
<1> QED
  BY <1>1, <1>2, <1>3, <1>4, TypeCorrect, ProtocolLabelsUnique, TraceInvariant, RoutesInvariant,
     LabelledInvariant, PTL DEF Spec
=============================================================================
