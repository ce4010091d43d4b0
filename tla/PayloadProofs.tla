--------------------------- MODULE PayloadProofs ---------------------------
(***************************************************************************)
(* Counting payloads: none disappears and none is doubled, for every       *)
(* topology, every mix of modes and every set of commands.                 *)
(***************************************************************************)
EXTENDS MessagingProofs

\* The four places a payload can be in, as Places counts them.
Queued(p) ==
  {i \in DOMAIN pending_data[Src[p]][Dst[p]] : pending_data[Src[p]][Dst[p]][i] = p}
Flying(p) == {m \in datas : m.payload = p}
Arrived(p) == {x \in delivered : x.payload = p}
Refused(p) == {x \in drops : x.payload = p}

Nowhere(p) == Queued(p) = {} /\ Flying(p) = {} /\ Arrived(p) = {} /\ Refused(p) = {}

\* Only what was accepted is anywhere, and in one slot of its queue at most.
QueuedOnce ==
  \A p \in Payloads :
    /\ p \notin accepted => Nowhere(p)
    /\ \A i, j \in Queued(p) : i = j

\* A route's next hop is unambiguous: neighbor_by_label has one answer.
LEMMA EndpointUnique ==
  ASSUME LabelsUnique, NEW n \in Nodes, NEW route, route.dldsr_label_path \in Seq(Labels),
         NEW a \in next_data_endpoint(n, route), NEW b \in next_data_endpoint(n, route)
  PROVE  a = b
<1>1. CASE n \in DlDsrNodes
  <2>1. /\ route.dldsr_label_path # <<>>
        /\ a \in neighbor_by_label(n, route.dldsr_label_path[1])
        /\ b \in neighbor_by_label(n, route.dldsr_label_path[1])
    BY <1>1 DEF next_data_endpoint
  <2>2. route.dldsr_label_path[1] \in Labels
    BY <2>1
  <2>3. route.dldsr_label_path[1] # NoLabel
    BY <2>2, LabelAssumption DEF LabelAssumption, Labels, NoLabel
  <2> QED
    BY <2>1, <2>3 DEF neighbor_by_label, LabelsUnique
<1>2. CASE n \notin DlDsrNodes
  BY <1>2 DEF next_data_endpoint
<1> QED
  BY <1>1, <1>2

\* A payload that occurs once in what origin_data is given ends in exactly one
\* packet or one drop more; any other payload is left alone.
OneRefused(p) == \E x : Refused(p)' = Refused(p) \cup {x}

OneMore(p) ==
  \/ Refused(p)' = Refused(p) /\ \E x : Flying(p)' = Flying(p) \cup {x}
  \/ Flying(p)' = Flying(p) /\ OneRefused(p)

\* A set of payloads is dropped.
DropsAll(P, n, why, reported) ==
  drops' = drops \cup [payload : P, node : {n}, reason : {why}, reported : {reported}]

\* Counting a set of payloads as dropped adds one record for each.
LEMMA DropsAdded ==
  ASSUME NEW P, NEW n, NEW why, NEW reported, NEW p \in P,
         DropsAll(P, n, why, reported)
  PROVE  OneRefused(p)
<1> DEFINE x == [payload |-> p, node |-> n, reason |-> why, reported |-> reported]
           X == [payload : P, node : {n}, reason : {why}, reported : {reported}]
<1>1. x \in X /\ x.payload = p
  OBVIOUS
<1>2. ASSUME NEW y \in X, y.payload = p PROVE y = x
  <2>1. y = [payload |-> y.payload, node |-> y.node, reason |-> y.reason, reported |-> y.reported]
    OBVIOUS
  <2>2. y.node = n /\ y.reason = why /\ y.reported = reported
    OBVIOUS
  <2> QED
    BY <1>2, <2>1, <2>2
<1> HIDE DEF x, X
<1>3. drops' = drops \cup X
  BY DEF DropsAll, X
<1> QED
  BY <1>1, <1>2, <1>3 DEF Refused, OneRefused

\* origin_data, for each payload.
LEMMA OriginEffect ==
  ASSUME LabelsUnique, NEW n \in Nodes, NEW d, NEW payloads, NEW route,
         route.dldsr_label_path \in Seq(Labels), NEW reported,
         origin_data(n, d, payloads, route, reported), NEW p
  PROVE  /\ p \notin Range(payloads) => UNCHANGED <<Flying(p), Refused(p)>>
         /\ p \in Range(payloads)
              /\ (\A i, j \in DOMAIN payloads : payloads[i] = p /\ payloads[j] = p => i = j)
            => OneMore(p)
<1> DEFINE hop == next_data_endpoint(n, route)
           Sent(i, to) == OriginPacket(n, d, payloads, i, route, to)
<1>1. /\ datas' = datas \cup UNION {{Sent(i, to) : to \in hop} : i \in DOMAIN payloads}
      /\ drops' = drops \cup
           [payload : IF hop = {} THEN Range(payloads) ELSE {}, node : {n},
            reason : {"no next hop"}, reported : {reported}]
  BY DEF origin_data
<1>2. \A i, to : Sent(i, to).payload = payloads[i]
  BY DEF OriginPacket
<1>3. \A a, b \in hop : a = b
  BY EndpointUnique
<1> HIDE DEF hop, Sent
<1>4. \A m : m \in datas' <=>
        m \in datas \/ \E i \in DOMAIN payloads : \E to \in hop : m = Sent(i, to)
  <2>1. \A m : m \in UNION {{Sent(i, to) : to \in hop} : i \in DOMAIN payloads}
          <=> \E i \in DOMAIN payloads : m \in {Sent(i, to) : to \in hop}
    BY Zenon
  <2> QED
    BY <1>1, <2>1, Zenon
<1>5. ASSUME p \notin Range(payloads) PROVE UNCHANGED <<Flying(p), Refused(p)>>
  <2>1. Flying(p)' = Flying(p)
    BY <1>2, <1>4, <1>5 DEF Flying, Range
  <2>2. Refused(p)' = Refused(p)
    BY <1>1, <1>5 DEF Refused
  <2> QED
    BY <2>1, <2>2
<1>6. ASSUME p \in Range(payloads),
             \A i, j \in DOMAIN payloads : payloads[i] = p /\ payloads[j] = p => i = j
      PROVE  OneMore(p)
  <2>1. PICK k \in DOMAIN payloads : payloads[k] = p
    BY <1>6 DEF Range
  <2>2. CASE hop = {}
    <3>1. DropsAll(Range(payloads), n, "no next hop", reported)
      BY <1>1, <2>2 DEF DropsAll
    <3>2. OneRefused(p)
      BY <1>6, <3>1, DropsAdded
    <3>3. Flying(p)' = Flying(p)
      BY <1>4, <2>2 DEF Flying
    <3> QED
      BY <3>2, <3>3 DEF OneMore
  <2>3. CASE hop # {}
    <3>1. PICK to \in hop : hop = {to}
      BY <1>3, <2>3
    <3>2. drops' = drops
      BY <1>1, <2>3
    <3>3. Flying(p)' = Flying(p) \cup {Sent(k, to)}
      <4>1. \A m : m \in datas' /\ m.payload = p <=> (m \in datas /\ m.payload = p) \/ m = Sent(k, to)
        <5>1. Sent(k, to) \in datas' /\ Sent(k, to).payload = p
          BY <1>2, <1>4, <2>1, <3>1, Zenon
        <5>2. ASSUME NEW m \in datas', m \notin datas, m.payload = p PROVE m = Sent(k, to)
          <6>1. PICK i \in DOMAIN payloads : m = Sent(i, to)
            BY <1>4, <3>1, <5>2
          <6>2. i = k
            BY <1>2, <1>6, <2>1, <5>2, <6>1
          <6> QED
            BY <6>1, <6>2
        <5> QED
          BY <1>4, <5>1, <5>2, Zenon
      <4> QED
        BY <4>1 DEF Flying
    <3>4. Refused(p)' = Refused(p)
      BY <3>2 DEF Refused
    <3> QED
      BY <3>3, <3>4 DEF OneMore
  <2> QED
    BY <2>2, <2>3
<1> QED
  BY <1>5, <1>6
-----------------------------------------------------------------------------
(***************************************************************************)
(* What a step does to one payload                                         *)
(***************************************************************************)
Stays(p) == UNCHANGED <<Queued(p), Flying(p), Arrived(p), Refused(p)>>

Enters(p) ==
  /\ p \notin accepted /\ p \in accepted'
  /\ \/ UNCHANGED <<Flying(p), Arrived(p), Refused(p)>> /\ \A i, j \in Queued(p)' : i = j
     \/ UNCHANGED <<Queued(p), Arrived(p)>> /\ OneMore(p)

Leaves(p) == Queued(p) # {} /\ Queued(p)' = {} /\ Arrived(p)' = Arrived(p) /\ OneMore(p)

Forgotten(p) == Queued(p)' = {} /\ UNCHANGED <<Flying(p), Arrived(p), Refused(p)>>

\* Of the packets with p, m is received, perhaps as a duplicate, and S is sent.
Taken(p, m, S) ==
  /\ m \in Flying(p)
  /\ \/ Flying(p)' = (Flying(p) \ {m}) \cup S /\ UNCHANGED dups
     \/ Flying(p)' = Flying(p) \cup S /\ dups' = dups + 1

Settles(p) ==
  /\ \E m : Taken(p, m, {})
  /\ \/ Refused(p)' = Refused(p) /\ \E x : Arrived(p)' = Arrived(p) \cup {x}
     \/ Arrived(p)' = Arrived(p) /\ OneRefused(p)
  /\ UNCHANGED Queued(p)

Hops(p) == (\E m, x : Taken(p, m, {x})) /\ UNCHANGED <<Queued(p), Arrived(p), Refused(p)>>

Moves(p) == Stays(p) \/ Enters(p) \/ Leaves(p) \/ Forgotten(p) \/ Settles(p) \/ Hops(p)

\* Everything the case analysis needs to know of the state.
PlacesSound == TypeOK /\ PayloadsOwned /\ LabelsUnique /\ QueuedOnce

\* A payload whose queue and packets are not touched stays where it is.
LEMMA StaysUntouched ==
  ASSUME NEW p, pending_data'[Src[p]][Dst[p]] = pending_data[Src[p]][Dst[p]],
         UNCHANGED <<datas, delivered, drops>>
  PROVE  Stays(p)
BY DEF Stays, Queued, Flying, Arrived, Refused

\* A command.
LEMMA CommandMoves ==
  ASSUME PlacesSound, NEW q \in Payloads, QueuePayload(q) \/ SendOnCachedRoute(q), NEW p \in Payloads
  PROVE  Moves(p)
<1>0. /\ pending_data \in [Nodes -> [NodeIds -> Seq(Payloads)]]
      /\ Src[p] \in Nodes /\ Dst[p] \in NodeIds /\ Src[q] \in Nodes /\ Dst[q] \in NodeIds
  BY ProtocolAssumption DEF ProtocolAssumption, PlacesSound, TypeOK
<1>1. q \notin accepted /\ accepted' = accepted \cup {q} /\ delivered' = delivered
  BY DEF QueuePayload, SendOnCachedRoute
<1>2. CASE QueuePayload(q)
  <2>1. /\ pending_data' = [pending_data EXCEPT ![Src[q]][Dst[q]] = Append(pending_data[Src[q]][Dst[q]], q)]
        /\ UNCHANGED <<datas, delivered, drops>>
    BY <1>2 DEF QueuePayload
  <2>2. UNCHANGED <<Flying(p), Arrived(p), Refused(p)>>
    BY <2>1 DEF Flying, Arrived, Refused
  <2>3. CASE Src[p] = Src[q] /\ Dst[p] = Dst[q]
    <3> DEFINE s == pending_data[Src[q]][Dst[q]]
               t == pending_data'[Src[p]][Dst[p]]
    <3>1. t = Append(s, q) /\ s \in Seq(Payloads) /\ s = pending_data[Src[p]][Dst[p]]
      BY <1>0, <2>1, <2>3
    <3> HIDE DEF s, t
    <3>2. /\ DOMAIN s = 1..Len(s) /\ DOMAIN t = 1..(Len(s) + 1) /\ Len(s) \in Nat
          /\ t[Len(s) + 1] = q /\ \A i \in 1..Len(s) : t[i] = s[i]
      <4>1. s \in Seq(Payloads) /\ q \in Payloads
        BY <3>1
      <4>2. /\ Append(s, q) \in Seq(Payloads) /\ Len(Append(s, q)) = Len(s) + 1
            /\ \A i \in 1..Len(s) : Append(s, q)[i] = s[i]
            /\ Append(s, q)[Len(s) + 1] = q
        BY <4>1, AppendProperties
      <4>3. DOMAIN s = 1..Len(s) /\ Len(s) \in Nat
        BY <4>1
      <4>4. DOMAIN Append(s, q) = 1..Len(Append(s, q))
        BY <4>2
      <4> QED
        BY <3>1, <4>2, <4>3, <4>4
    <3>3. Queued(p) = {i \in DOMAIN s : s[i] = p} /\ Queued(p)' = {i \in DOMAIN t : t[i] = p}
      BY <2>3, <3>1 DEF Queued, s, t
    <3>4. CASE p = q
      <4>1. Queued(p) = {}
        BY <1>1, <3>4 DEF PlacesSound, QueuedOnce, Nowhere
      <4>2. \A i, j \in Queued(p)' : i = j
        BY <3>2, <3>3, <4>1
      <4> QED
        BY <1>1, <2>2, <3>4, <4>2 DEF Moves, Enters
    <3>5. CASE p # q
      <4>1. Queued(p)' = Queued(p)
        BY <3>2, <3>3, <3>5
      <4> QED
        BY <2>2, <4>1 DEF Moves, Stays
    <3> QED
      BY <3>4, <3>5
  <2>4. CASE ~(Src[p] = Src[q] /\ Dst[p] = Dst[q])
    BY <1>0, <2>1, <2>4, StaysUntouched DEF Moves
  <2> QED
    BY <2>3, <2>4
<1>3. CASE SendOnCachedRoute(q)
  <2>1. PICK route \in shortest(routes[Src[q]][Dst[q]]) :
          origin_data(Src[q], Dst[q], <<q>>, route, TRUE)
    BY <1>3 DEF SendOnCachedRoute
  <2>2. route.dldsr_label_path \in Seq(Labels)
    <3>1. routes[Src[q]][Dst[q]] \in Seq(RouteEntries)
      BY <1>0 DEF PlacesSound, TypeOK
    <3>2. route \in RouteEntries
      BY <3>1 DEF shortest
    <3> QED
      BY <3>2 DEF RouteEntries
  <2>3. PICK s : s = <<q>>
    OBVIOUS
  <2>4. /\ p # q => UNCHANGED <<Flying(p), Refused(p)>>
        /\ p = q => OneMore(p)
    <3>1. DOMAIN s = {1} /\ s[1] = q
      BY <2>3
    <3>2. Range(s) = {q} /\ \A i, j \in DOMAIN s : i = j
      BY <3>1 DEF Range
    <3>3. PICK n \in Nodes : n = Src[q]
      BY <1>0
    <3>4. LabelsUnique /\ origin_data(n, Dst[q], s, route, TRUE)
      BY <2>1, <2>3, <3>3 DEF PlacesSound
    <3>5. /\ p \notin Range(s) => UNCHANGED <<Flying(p), Refused(p)>>
          /\ p \in Range(s) /\ (\A i, j \in DOMAIN s : s[i] = p /\ s[j] = p => i = j) => OneMore(p)
      BY <2>2, <3>4, OriginEffect
    <3> QED
      BY <3>2, <3>5
  <2>5. UNCHANGED <<Queued(p), Arrived(p)>>
    BY <1>3 DEF SendOnCachedRoute, Queued, Arrived
  <2> QED
    BY <1>1, <2>4, <2>5 DEF Moves, Stays, Enters
<1> QED
  BY <1>2, <1>3

\* A reply flushes one queue.
LEMMA CacheRouteMoves ==
  ASSUME PlacesSound, NEW m \in rreps, CacheRoute(m), NEW p \in Payloads
  PROVE  Moves(p)
<1> DEFINE n == m.to
           d == m.dst_node_id
           route == RouteEntry(m.dsr_path, IF n \in DlDsrNodes THEN m.dldsr_label_path ELSE <<>>)
           s == pending_data[n][d]
<1>1. /\ n \in Nodes /\ d \in NodeIds /\ pending_data \in [Nodes -> [NodeIds -> Seq(Payloads)]]
      /\ Src[p] \in Nodes /\ Dst[p] \in NodeIds
  BY ProtocolAssumption DEF ProtocolAssumption, PlacesSound, TypeOK, Rrep
<1>2. /\ pending_data' = [pending_data EXCEPT ![n] = flushed(pending_data[n], d)]
      /\ origin_data(n, d, s, route, FALSE)
      /\ UNCHANGED <<accepted, delivered>>
  BY DEF CacheRoute
<1>3. route.dldsr_label_path \in Seq(Labels)
  <2>1. m.dldsr_label_path \in Seq(Labels)
    BY DEF PlacesSound, TypeOK, Rrep
  <2> QED
    BY <2>1 DEF RouteEntry
<1>4. s \in Seq(Payloads) /\ \A i \in DOMAIN s : Src[s[i]] = n /\ Dst[s[i]] = d
  BY <1>1 DEF PlacesSound, PayloadsOwned, QueuesOwn
<1>5. Arrived(p)' = Arrived(p)
  BY <1>2 DEF Arrived
<1>6. /\ pending_data'[n][d] = <<>>
      /\ ~(Src[p] = n /\ Dst[p] = d) => pending_data'[Src[p]][Dst[p]] = pending_data[Src[p]][Dst[p]]
  BY <1>1, <1>2 DEF flushed
<1> HIDE DEF n, d, route
<1>7. CASE p \in Range(s)
  <2>1. Src[p] = n /\ Dst[p] = d
    BY <1>4, <1>7 DEF Range
  <2>2. Queued(p) = {i \in DOMAIN s : s[i] = p}
    BY <2>1 DEF Queued
  <2>3. \A i, j \in Queued(p) : i = j
    BY DEF PlacesSound, QueuedOnce
  <2>4. Queued(p) # {}
    BY <1>7, <2>2 DEF Range
  <2>5. Queued(p)' = {}
    BY <1>6, <2>1 DEF Queued
  <2>6. \A i, j \in DOMAIN s : s[i] = p /\ s[j] = p => i = j
    BY <2>2, <2>3
  <2> HIDE DEF s
  <2>7. OneMore(p)
    BY <1>1, <1>2, <1>3, <1>7, <2>6, OriginEffect DEF PlacesSound
  <2> QED
    BY <1>5, <2>4, <2>5, <2>7 DEF Moves, Leaves
<1>8. CASE p \notin Range(s)
  <2>1. Queued(p)' = Queued(p)
    <3>1. CASE Src[p] = n /\ Dst[p] = d
      BY <1>6, <1>8, <3>1 DEF Queued, Range
    <3>2. CASE ~(Src[p] = n /\ Dst[p] = d)
      BY <1>6, <3>2 DEF Queued
    <3> QED
      BY <3>1, <3>2
  <2> HIDE DEF s
  <2>2. UNCHANGED <<Flying(p), Refused(p)>>
    BY <1>1, <1>2, <1>3, <1>8, OriginEffect DEF PlacesSound
  <2> QED
    BY <1>5, <2>1, <2>2 DEF Moves, Stays
<1> QED
  BY <1>7, <1>8

\* The timer gives queues up.
LEMMA TickMoves ==
  ASSUME PlacesSound, NEW n \in Nodes, Tick(n), NEW p \in Payloads
  PROVE  Moves(p)
<1> DEFINE expired == {d \in DOMAIN discoveries[n] : Elapsed(discoveries[n][d].age) >= DiscoveryTimeout}
           failed  == {d \in expired : Exhausted(discoveries[n][d])}
           gone == UNION {Range(pending_data[n][d]) : d \in failed}
<1>1. /\ failed \subseteq NodeIds /\ pending_data \in [Nodes -> [NodeIds -> Seq(Payloads)]]
      /\ Src[p] \in Nodes /\ Dst[p] \in NodeIds
  BY ProtocolAssumption DEF ProtocolAssumption, PlacesSound, TypeOK
<1>2. /\ pending_data' = [pending_data EXCEPT ![n] = drop_pending_for_dst(pending_data[n], failed)]
      /\ DropsAll(gone, n, "discovery failed", TRUE)
      /\ UNCHANGED <<delivered, datas>>
  BY DEF Tick, DropsAll
<1> HIDE DEF failed
<1>3. pending_data'[Src[p]][Dst[p]] =
        IF Src[p] = n /\ Dst[p] \in failed THEN <<>> ELSE pending_data[Src[p]][Dst[p]]
  BY <1>1, <1>2 DEF drop_pending_for_dst
<1>4. p \in gone <=> Src[p] = n /\ Dst[p] \in failed /\ Queued(p) # {}
  <2>1. ASSUME NEW d \in failed, p \in Range(pending_data[n][d]) PROVE Src[p] = n /\ Dst[p] = d
    BY <1>1, <2>1 DEF PlacesSound, PayloadsOwned, QueuesOwn, Range
  <2> QED
    BY <2>1 DEF Queued, Range
<1>5. UNCHANGED <<Flying(p), Arrived(p)>>
  BY <1>2 DEF Flying, Arrived
<1> HIDE DEF gone
<1>6. CASE p \in gone
  <2>1. OneRefused(p)
    BY <1>2, <1>6, DropsAdded
  <2>2. Queued(p) # {} /\ Queued(p)' = {}
    BY <1>3, <1>4, <1>6 DEF Queued
  <2> QED
    BY <1>5, <2>1, <2>2 DEF Moves, Leaves, OneMore
<1>7. CASE p \notin gone
  <2>1. Queued(p)' = Queued(p)
    <3>1. CASE Src[p] = n /\ Dst[p] \in failed
      BY <1>3, <1>4, <1>7, <3>1 DEF Queued
    <3>2. CASE ~(Src[p] = n /\ Dst[p] \in failed)
      BY <1>3, <3>2 DEF Queued
    <3> QED
      BY <3>1, <3>2
  <2>2. Refused(p)' = Refused(p)
    BY <1>2, <1>7 DEF DropsAll, Refused
  <2> QED
    BY <1>5, <2>1, <2>2 DEF Moves, Stays
<1> QED
  BY <1>6, <1>7

\* A data packet is delivered, refused or passed on.
LEMMA DataMoves ==
  ASSUME PlacesSound, NEW m \in datas, handle_data(m), NEW p \in Payloads
  PROVE  Moves(p)
<1>1. Queued(p)' = Queued(p)
  BY DEF handle_data, DeliverData, ForwardData, drop_data, nodeVars, Queued
<1>2. ASSUME NEW S, Receive(datas, m, S), \A x \in S : x.payload = m.payload
      PROVE  /\ p # m.payload => Flying(p)' = Flying(p)
             /\ p = m.payload => Taken(p, m, S)
  <2>1. p # m.payload => Flying(p)' = Flying(p)
    BY <1>2 DEF Receive, Flying
  <2>2. CASE datas' = (datas \ {m}) \cup S /\ UNCHANGED dups
    BY <1>2, <2>1, <2>2 DEF Taken, Flying
  <2>3. CASE datas' = datas \cup S /\ dups' = dups + 1
    BY <1>2, <2>1, <2>3 DEF Taken, Flying
  <2> QED
    BY <1>2, <2>2, <2>3 DEF Receive
<1>3. CASE DeliverData(m)
  <2> DEFINE x == [payload |-> m.payload, src |-> m.src_node_id, node |-> m.to]
  <2>1. Receive(datas, m, {}) /\ UNCHANGED drops /\ delivered' = delivered \cup {x}
    BY <1>3 DEF DeliverData
  <2>5. x.payload = m.payload
    OBVIOUS
  <2> HIDE DEF x
  <2>2. /\ p # m.payload => Arrived(p)' = Arrived(p)
        /\ p = m.payload => \E y : Arrived(p)' = Arrived(p) \cup {y}
    BY <2>1, <2>5 DEF Arrived
  <2>3. Refused(p)' = Refused(p)
    BY <2>1 DEF Refused
  <2>4. /\ p # m.payload => Flying(p)' = Flying(p)
        /\ p = m.payload => Taken(p, m, {})
    BY <1>2, <2>1
  <2> QED
    BY <1>1, <2>2, <2>3, <2>4 DEF Moves, Stays, Settles
<1>4. CASE drop_data(m)
  <2> DEFINE x == [payload |-> m.payload, node |-> m.to, reason |-> "rejected", reported |-> TRUE]
  <2>1. Receive(datas, m, {}) /\ UNCHANGED delivered /\ drops' = drops \cup {x}
    BY <1>4 DEF drop_data
  <2>5. x.payload = m.payload
    OBVIOUS
  <2> HIDE DEF x
  <2>2. /\ p # m.payload => Refused(p)' = Refused(p)
        /\ p = m.payload => OneRefused(p)
    BY <2>1, <2>5 DEF Refused, OneRefused
  <2>3. Arrived(p)' = Arrived(p)
    BY <2>1 DEF Arrived
  <2>4. /\ p # m.payload => Flying(p)' = Flying(p)
        /\ p = m.payload => Taken(p, m, {})
    BY <1>2, <2>1
  <2> QED
    BY <1>1, <2>2, <2>3, <2>4 DEF Moves, Stays, Settles
<1>5. CASE ForwardData(m)
  <2>1. PICK next \in NextHop(m.to, m) : Receive(datas, m, ForwardedData(m, next))
    BY <1>5 DEF ForwardData
  <2>2. UNCHANGED <<Arrived(p), Refused(p)>>
    BY <1>5 DEF ForwardData, historyVars, Arrived, Refused
  <2>3. next \in Nodes
    BY NextHopIsNode DEF PlacesSound, TypeOK
  <2>4. PICK x : ForwardedData(m, next) = {x} /\ x.payload = m.payload
    BY <2>3, ForwardedOne
  <2>5. /\ p # m.payload => Flying(p)' = Flying(p)
        /\ p = m.payload => Taken(p, m, {x})
    BY <1>2, <2>1, <2>4
  <2> QED
    BY <1>1, <2>2, <2>5 DEF Moves, Stays, Hops
<1> QED
  BY <1>3, <1>4, <1>5 DEF handle_data

\* Every step moves a payload in one of these ways, and only its source's
\* restart forgets it.
LEMMA PayloadMoves ==
  ASSUME PlacesSound, [Next]_vars, NEW p \in Payloads
  PROVE  Moves(p)
<1> DEFINE Untouched == UNCHANGED <<pending_data, datas, delivered, drops>>
<1>1. ASSUME Untouched PROVE Moves(p)
  BY <1>1, StaysUntouched DEF Moves
<1>2. ASSUME NEW m \in rreqs, handle_rreq(m) PROVE Untouched
  BY <1>2 DEF handle_rreq, RefuseRreq, DropRreq, AnswerRreq, ForwardRreq, RreqFrame, historyVars
<1>3. ASSUME NEW m \in rreps, handle_rrep(m), ~CacheRoute(m) PROVE Untouched
  BY <1>3 DEF handle_rrep, RejectRrep, ForwardRrep, nodeVars, historyVars
<1>4. ASSUME NEW n \in Nodes, Elapse(n) \/ SetBack(n) PROVE Untouched
  BY <1>4 DEF Elapse, SetBack, ClockFrame, historyVars
<1>5. LabelStep => Untouched
  BY DEF LabelStep, nodeVars, historyVars
<1>6. UNCHANGED vars => Untouched
  BY DEF vars, nodeVars, historyVars
<1>7. ASSUME NEW n \in Nodes, Restart(n) PROVE Moves(p)
  <2>1. /\ pending_data' = [pending_data EXCEPT ![n] = [d \in NodeIds |-> <<>>]]
        /\ UNCHANGED <<datas, delivered, drops>>
    BY <1>7 DEF Restart, RestartProtocol, historyVars
  <2>2. /\ pending_data \in [Nodes -> [NodeIds -> Seq(Payloads)]]
        /\ Src[p] \in Nodes /\ Dst[p] \in NodeIds
    BY ProtocolAssumption DEF ProtocolAssumption, PlacesSound, TypeOK
  <2>3. CASE Src[p] = n
    <3>1. Queued(p)' = {}
      BY <2>1, <2>2, <2>3 DEF Queued
    <3> QED
      BY <2>1, <3>1 DEF Moves, Forgotten, Flying, Arrived, Refused
  <2>4. CASE Src[p] # n
    BY <2>1, <2>2, <2>4, StaysUntouched DEF Moves
  <2> QED
    BY <2>3, <2>4
<1> HIDE DEF Untouched
<1>8. CASE PacketStep
  BY <1>1, <1>2, <1>3, <1>8, CommandMoves, CacheRouteMoves, DataMoves DEF PacketStep
<1>9. CASE TimerStep
  BY <1>1, <1>4, <1>9, TickMoves DEF TimerStep
<1> QED
  BY <1>1, <1>5, <1>6, <1>7, <1>8, <1>9 DEF Next

\* Nothing is taken back.
LEMMA AcceptedGrows ==
  ASSUME [Next]_vars
  PROVE  accepted \subseteq accepted'
<1>1. ASSUME NEW p \in Payloads, QueuePayload(p) \/ SendOnCachedRoute(p)
      PROVE  accepted \subseteq accepted'
  BY <1>1 DEF QueuePayload, SendOnCachedRoute
<1>2. ASSUME NEW m \in rreqs, handle_rreq(m) PROVE accepted' = accepted
  BY <1>2 DEF handle_rreq, RefuseRreq, DropRreq, AnswerRreq, ForwardRreq, RreqFrame, historyVars
<1>3. ASSUME NEW m \in rreps, handle_rrep(m) PROVE accepted' = accepted
  BY <1>3 DEF handle_rrep, RejectRrep, CacheRoute, ForwardRrep, historyVars
<1>4. ASSUME NEW m \in datas, handle_data(m) PROVE accepted' = accepted
  BY <1>4 DEF handle_data, DeliverData, ForwardData, drop_data, historyVars
<1>5. CASE PacketStep
  BY <1>1, <1>2, <1>3, <1>4, <1>5 DEF PacketStep
<1>6. CASE ~PacketStep
  BY <1>6 DEF Next, LabelStep, TimerStep, Tick, Elapse, SetBack, ClockFrame, Restart, RestartProtocol,
              vars, historyVars
<1> QED
  BY <1>5, <1>6

\* QueuedOnce is inductive.
LEMMA QueuedOnceStep ==
  ASSUME PlacesSound, [Next]_vars
  PROVE  QueuedOnce'
<1> SUFFICES ASSUME NEW p \in Payloads
             PROVE  /\ p \notin accepted' => Nowhere(p)'
                    /\ \A i, j \in Queued(p)' : i = j
  BY DEF QueuedOnce
<1>1. Moves(p) /\ accepted \subseteq accepted'
  BY PayloadMoves, AcceptedGrows
<1>2. /\ p \notin accepted => Nowhere(p)
      /\ \A i, j \in Queued(p) : i = j
  BY DEF PlacesSound, QueuedOnce
<1>3. \A i, j \in Queued(p)' : i = j
  BY <1>1, <1>2 DEF Moves, Stays, Enters, Leaves, Forgotten, Settles, Hops
<1>4. ASSUME p \notin accepted' PROVE Nowhere(p)'
  <2>1. Nowhere(p)
    BY <1>1, <1>2, <1>4
  <2>2. Stays(p) \/ Forgotten(p)
    BY <1>1, <1>4, <2>1 DEF Moves, Enters, Leaves, Settles, Hops, Taken, Nowhere
  <2> QED
    BY <2>1, <2>2 DEF Nowhere, Stays, Forgotten
<1> QED
  BY <1>3, <1>4

\* What the case analysis assumes holds in every reachable state.
LEMMA PlacesInvariant == Spec => []PlacesSound
<1>1. Init => QueuedOnce
  BY ProtocolAssumption
  DEF ProtocolAssumption, Init, QueuedOnce, Nowhere, Queued, Flying, Arrived, Refused
<1>2. PlacesSound /\ [Next]_vars => QueuedOnce'
  BY QueuedOnceStep
<1>3. TypeOK /\ PayloadsOwned /\ LabelsUnique /\ QueuedOnce <=> PlacesSound
  BY DEF PlacesSound
<1> QED
  BY <1>1, <1>2, <1>3, TypeCorrect, OwnedInvariant, ProtocolLabelsUnique, PTL DEF Spec
-----------------------------------------------------------------------------
(***************************************************************************)
(* No payload is doubled                                                   *)
(***************************************************************************)
AtMostOne(S) == \A x, y \in S : x = y

\* One of the four places has one element at most, and the others none.
InOnePlace(p) ==
  \/ AtMostOne(Queued(p)) /\ Flying(p) = {} /\ Arrived(p) = {} /\ Refused(p) = {}
  \/ AtMostOne(Flying(p)) /\ Queued(p) = {} /\ Arrived(p) = {} /\ Refused(p) = {}
  \/ AtMostOne(Arrived(p)) /\ Queued(p) = {} /\ Flying(p) = {} /\ Refused(p) = {}
  \/ AtMostOne(Refused(p)) /\ Queued(p) = {} /\ Flying(p) = {} /\ Arrived(p) = {}

InPlace == dups = 0 => \A p \in Payloads : InOnePlace(p)

\* A set with one element at most.
LEMMA AtMostOneCardinality ==
  ASSUME NEW S, AtMostOne(S)
  PROVE  Cardinality(S) \in 0..1
<1>1. CASE S = {}
  BY <1>1, FS_EmptySet
<1>2. CASE S # {}
  <2>1. PICK x : S = {x}
    BY <1>2 DEF AtMostOne
  <2> QED
    BY <2>1, FS_Singleton
<1> QED
  BY <1>1, <1>2

\* That is at most one place by count.
LEMMA InOnePlaceCount ==
  ASSUME NEW p, InOnePlace(p)
  PROVE  Places(p) <= 1
<1>1. Places(p) = Cardinality(Queued(p)) + Cardinality(Flying(p))
                    + Cardinality(Arrived(p)) + Cardinality(Refused(p))
  BY DEF Places, Queued, Flying, Arrived, Refused
<1>2. Cardinality({}) = 0
  BY FS_EmptySet
<1>3. CASE AtMostOne(Queued(p)) /\ Flying(p) = {} /\ Arrived(p) = {} /\ Refused(p) = {}
  <2>1. Cardinality(Queued(p)) \in 0..1
    BY <1>3, AtMostOneCardinality
  <2> QED
    BY <1>1, <1>2, <1>3, <2>1
<1>4. CASE AtMostOne(Flying(p)) /\ Queued(p) = {} /\ Arrived(p) = {} /\ Refused(p) = {}
  <2>1. Cardinality(Flying(p)) \in 0..1
    BY <1>4, AtMostOneCardinality
  <2> QED
    BY <1>1, <1>2, <1>4, <2>1
<1>5. CASE AtMostOne(Arrived(p)) /\ Queued(p) = {} /\ Flying(p) = {} /\ Refused(p) = {}
  <2>1. Cardinality(Arrived(p)) \in 0..1
    BY <1>5, AtMostOneCardinality
  <2> QED
    BY <1>1, <1>2, <1>5, <2>1
<1>6. CASE AtMostOne(Refused(p)) /\ Queued(p) = {} /\ Flying(p) = {} /\ Arrived(p) = {}
  <2>1. Cardinality(Refused(p)) \in 0..1
    BY <1>6, AtMostOneCardinality
  <2> QED
    BY <1>1, <1>2, <1>6, <2>1
<1> QED
  BY <1>3, <1>4, <1>5, <1>6 DEF InOnePlace

\* A move without a duplicate takes a payload from the one place it is in to
\* one other.
LEMMA InOnePlaceStep ==
  ASSUME NEW p, Moves(p), InOnePlace(p), p \notin accepted => Nowhere(p),
         dups \in Nat, dups' = 0
  PROVE  InOnePlace(p)'
<1>1. CASE Stays(p)
  BY <1>1 DEF Stays, InOnePlace, AtMostOne
<1>2. CASE Enters(p)
  <2>1. Nowhere(p)
    BY <1>2 DEF Enters
  <2> QED
    BY <1>2, <2>1 DEF Enters, Nowhere, OneMore, OneRefused, InOnePlace, AtMostOne
<1>3. CASE Leaves(p)
  <2>1. Flying(p) = {} /\ Arrived(p) = {} /\ Refused(p) = {}
    BY <1>3 DEF Leaves, InOnePlace
  <2> QED
    BY <1>3, <2>1 DEF Leaves, OneMore, OneRefused, InOnePlace, AtMostOne
<1>4. CASE Forgotten(p)
  BY <1>4 DEF Forgotten, InOnePlace, AtMostOne
<1>5. ASSUME NEW m, NEW S, Taken(p, m, S)
      PROVE  /\ Flying(p)' = S /\ Queued(p) = {} /\ Arrived(p) = {} /\ Refused(p) = {}
  <2>1. Flying(p)' = (Flying(p) \ {m}) \cup S /\ m \in Flying(p)
    BY <1>5 DEF Taken
  <2>2. /\ AtMostOne(Flying(p))
        /\ Queued(p) = {} /\ Arrived(p) = {} /\ Refused(p) = {}
    BY <2>1 DEF InOnePlace
  <2> QED
    BY <2>1, <2>2 DEF AtMostOne
<1>6. CASE Settles(p)
  <2>1. Flying(p)' = {} /\ Queued(p) = {} /\ Arrived(p) = {} /\ Refused(p) = {}
    BY <1>5, <1>6 DEF Settles
  <2> QED
    BY <1>6, <2>1 DEF Settles, OneRefused, InOnePlace, AtMostOne
<1>7. CASE Hops(p)
  <2>1. PICK m, x : Taken(p, m, {x})
    BY <1>7 DEF Hops
  <2>2. Flying(p)' = {x} /\ Queued(p) = {} /\ Arrived(p) = {} /\ Refused(p) = {}
    BY <1>5, <2>1
  <2> QED
    BY <1>7, <2>2 DEF Hops, InOnePlace, AtMostOne
<1> QED
  BY <1>1, <1>2, <1>3, <1>4, <1>6, <1>7 DEF Moves

\* Duplicates are only ever counted up.
LEMMA DupsGrow ==
  ASSUME TypeOK, [Next]_vars
  PROVE  dups \in Nat /\ (dups' = 0 => dups = 0)
<1>1. dups \in Nat
  BY UdpAssumption DEF UdpAssumption, TypeOK
<1>2. UNCHANGED dups \/ dups' = dups + 1
  <2>1. CASE PacketStep
    <3>1. ASSUME NEW p \in Payloads, QueuePayload(p) \/ SendOnCachedRoute(p) PROVE UNCHANGED dups
      BY <3>1 DEF QueuePayload, SendOnCachedRoute
    <3>2. ASSUME NEW m \in rreqs, handle_rreq(m) PROVE UNCHANGED dups \/ dups' = dups + 1
      BY <3>2 DEF handle_rreq, RefuseRreq, DropRreq, AnswerRreq, ForwardRreq, Receive
    <3>3. ASSUME NEW m \in rreps, handle_rrep(m) PROVE UNCHANGED dups \/ dups' = dups + 1
      BY <3>3 DEF handle_rrep, RejectRrep, CacheRoute, ForwardRrep, Receive
    <3>4. ASSUME NEW m \in datas, handle_data(m) PROVE UNCHANGED dups \/ dups' = dups + 1
      BY <3>4 DEF handle_data, DeliverData, ForwardData, drop_data, Receive
    <3> QED
      BY <2>1, <3>1, <3>2, <3>3, <3>4 DEF PacketStep
  <2>2. CASE LabelStep
    BY <2>2 DEF LabelStep, SendHellos, handle_hello, IgnoreHello, AnswerHello, handle_hello_reply, Receive
  <2>3. CASE TimerStep
    BY <2>3 DEF TimerStep, Tick, Elapse, SetBack, ClockFrame
  <2>4. CASE \E n \in Nodes : Restart(n)
    BY <2>4 DEF Restart, RestartLabels
  <2>5. CASE UNCHANGED vars
    BY <2>5 DEF vars
  <2> QED
    BY <2>1, <2>2, <2>3, <2>4, <2>5 DEF Next
<1> QED
  BY <1>1, <1>2

\* No interleaving of commands, replies, retries and failures sends a payload
\* twice, delivers it twice, or drops what it sent, in any network that
\* repeats no datagram.
THEOREM PayloadsNotDuplicatedTheorem == Spec => []PayloadsNotDuplicated
<1>1. Init => InPlace
  BY ProtocolAssumption
  DEF ProtocolAssumption, Init, InPlace, InOnePlace, AtMostOne, Queued, Flying, Arrived, Refused
<1>2. PlacesSound /\ InPlace /\ [Next]_vars => InPlace'
  <2> SUFFICES ASSUME PlacesSound, InPlace, [Next]_vars, dups' = 0, NEW p \in Payloads
               PROVE  InOnePlace(p)'
    BY DEF InPlace
  <2>1. dups \in Nat /\ dups = 0
    BY DupsGrow DEF PlacesSound
  <2>2. InOnePlace(p) /\ (p \notin accepted => Nowhere(p))
    BY <2>1 DEF InPlace, PlacesSound, QueuedOnce
  <2> QED
    BY <2>1, <2>2, PayloadMoves, InOnePlaceStep
<1>3. InPlace => PayloadsNotDuplicated
  BY InOnePlaceCount DEF InPlace, PayloadsNotDuplicated
<1> QED
  BY <1>1, <1>2, <1>3, PlacesInvariant, PTL DEF Spec
-----------------------------------------------------------------------------
(***************************************************************************)
(* No payload disappears                                                   *)
(***************************************************************************)
Delivered == {x.payload : x \in delivered}

\* Every accepted payload of a daemon that did not restart is still known.
Known == \A p \in accepted :
           restarts[Src[p]] = 0 => p \in Waiting \cup Underway \cup Delivered \cup Dropped

\* Each set is finite, so that Places counts.
FinitePlaces == \A p \in Payloads : /\ IsFiniteSet(Flying(p))
                                    /\ IsFiniteSet(Arrived(p))
                                    /\ IsFiniteSet(Refused(p))

\* The steps of the service that forget nothing.
LEMMA ServiceKeeps ==
  ASSUME ServiceStep, NEW p \in accepted', p \notin accepted
           \/ p \in Waiting \cup Underway \cup Delivered \cup Dropped
  PROVE  p \in (Waiting \cup Underway \cup Delivered \cup Dropped)'
<1>1. ASSUME NEW q \in Payloads, Messages!Accept(q)
      PROVE  p \in (Waiting \cup Underway \cup Delivered \cup Dropped)'
  <2>1. /\ accepted' = accepted \cup {q} /\ delivered' = delivered
        /\ \/ Waiting' = Waiting \cup {q} /\ UNCHANGED <<Underway, Dropped>>
           \/ Underway' = Underway \cup {q} /\ UNCHANGED <<Waiting, Dropped>>
           \/ Dropped' = Dropped \cup {q} /\ UNCHANGED <<Waiting, Underway>>
    BY <1>1 DEF Messages!Accept, Underway, Dropped
  <2> QED
    BY <2>1 DEF Delivered
<1>2. ASSUME NEW q \in Payloads, Messages!Settle(q)
      PROVE  p \in (Waiting \cup Underway \cup Delivered \cup Dropped)'
  <2> DEFINE x == [payload |-> q, src |-> Src[q], node |-> Dst[q]]
  <2>1. /\ UNCHANGED <<accepted, Waiting>> /\ Underway' \in {Underway, Underway \ {q}}
        /\ \/ delivered' = delivered \cup {x} /\ UNCHANGED Dropped
           \/ Dropped' = Dropped \cup {q} /\ UNCHANGED delivered
    BY <1>2 DEF Messages!Settle, Underway, Dropped
  <2>2. x.payload = q
    OBVIOUS
  <2> HIDE DEF x
  <2>3. Delivered \subseteq Delivered' /\ (q \in Delivered' \/ q \in Dropped')
    BY <2>1, <2>2 DEF Delivered
  <2> QED
    BY <2>1, <2>3
<1>3. ASSUME NEW S \in SUBSET Waiting, Messages!EndWait(S)
      PROVE  p \in (Waiting \cup Underway \cup Delivered \cup Dropped)'
  <2>1. /\ UNCHANGED <<accepted, delivered>> /\ Waiting' = Waiting \ S
        /\ \/ Underway' = Underway \cup S /\ UNCHANGED Dropped
           \/ Dropped' = Dropped \cup S /\ UNCHANGED Underway
    BY <1>3 DEF Messages!EndWait, Underway, Dropped
  <2> QED
    BY <2>1 DEF Delivered
<1>4. CASE UNCHANGED <<accepted, Waiting, Underway, delivered, Dropped>>
  BY <1>4 DEF Delivered
<1> QED
  BY <1>1, <1>2, <1>3, <1>4, Zenon DEF ServiceStep

\* Known is inductive.
LEMMA KnownStep ==
  ASSUME Sound, Known, [Next]_vars
  PROVE  Known'
<1> SUFFICES ASSUME NEW p \in accepted', restarts'[Src[p]] = 0
             PROVE  p \in (Waiting \cup Underway \cup Delivered \cup Dropped)'
  BY DEF Known
<1>1. p \in Payloads /\ Src[p] \in Nodes
  BY ProtocolAssumption DEF ProtocolAssumption, Sound, TypeOK
<1>2. restarts[Src[p]] = 0 /\ ~Restart(Src[p])
  BY <1>1, RestartsGrow DEF Sound
<1>3. p \in accepted => p \in Waiting \cup Underway \cup Delivered \cup Dropped
  BY <1>2 DEF Known
<1>4. CASE ServiceStep
  BY <1>3, <1>4, ServiceKeeps
<1>5. ASSUME NEW n \in Nodes, Restart(n), Messages!Crash(n)
      PROVE  p \in (Waiting \cup Underway \cup Delivered \cup Dropped)'
  <2>1. /\ Waiting' = {q \in Waiting : Src[q] # n}
        /\ UNCHANGED <<accepted, Underway, delivered, Dropped>>
    BY <1>5 DEF Messages!Crash, Underway, Dropped
  <2>2. Src[p] # n
    BY <1>2, <1>5
  <2> QED
    BY <1>3, <2>1, <2>2 DEF Delivered
<1> QED
  BY <1>4, <1>5, MessagingStep

\* One element more, or one replaced by another, leaves a set finite.
LEMMA FiniteMore ==
  ASSUME NEW S, IsFiniteSet(S), NEW x, NEW T, T \subseteq S \cup {x}
  PROVE  IsFiniteSet(T)
BY FS_AddElement, FS_Subset

\* Every step adds one packet, one delivery or one drop at most for each payload.
LEMMA FiniteStep ==
  ASSUME PlacesSound, FinitePlaces, [Next]_vars
  PROVE  FinitePlaces'
<1> SUFFICES ASSUME NEW p \in Payloads
             PROVE  /\ IsFiniteSet(Flying(p)') /\ IsFiniteSet(Arrived(p)')
                    /\ IsFiniteSet(Refused(p)')
  BY DEF FinitePlaces
<1>1. IsFiniteSet(Flying(p)) /\ IsFiniteSet(Arrived(p)) /\ IsFiniteSet(Refused(p))
  BY DEF FinitePlaces
<1>2. Moves(p)
  BY PayloadMoves
<1>3. \E x : Flying(p)' \subseteq Flying(p) \cup {x}
  BY <1>2 DEF Moves, Stays, Enters, Leaves, Forgotten, Settles, Hops, OneMore, Taken
<1>4. \E x : Arrived(p)' \subseteq Arrived(p) \cup {x}
  BY <1>2 DEF Moves, Stays, Enters, Leaves, Forgotten, Settles, Hops
<1>5. \E x : Refused(p)' \subseteq Refused(p) \cup {x}
  BY <1>2 DEF Moves, Stays, Enters, Leaves, Forgotten, Settles, Hops, OneMore, OneRefused
<1> QED
  BY <1>1, <1>3, <1>4, <1>5, FiniteMore

\* A payload that is known is counted.
LEMMA KnownCounts ==
  ASSUME TypeOK, PayloadsOwned, FinitePlaces, NEW p \in Payloads,
         p \in Waiting \cup Underway \cup Delivered \cup Dropped
  PROVE  Places(p) >= 1
<1>1. Places(p) = Cardinality(Queued(p)) + Cardinality(Flying(p))
                    + Cardinality(Arrived(p)) + Cardinality(Refused(p))
  BY DEF Places, Queued, Flying, Arrived, Refused
<1>2. IsFiniteSet(Queued(p))
  <2>1. /\ Src[p] \in Nodes /\ Dst[p] \in NodeIds
        /\ pending_data \in [Nodes -> [NodeIds -> Seq(Payloads)]]
    BY ProtocolAssumption DEF ProtocolAssumption, TypeOK
  <2>2. pending_data[Src[p]][Dst[p]] \in Seq(Payloads)
    BY <2>1
  <2>3. Queued(p) \subseteq 1..Len(pending_data[Src[p]][Dst[p]]) /\ Len(pending_data[Src[p]][Dst[p]]) \in Int
    BY <2>2 DEF Queued
  <2>4. IsFiniteSet(1..Len(pending_data[Src[p]][Dst[p]]))
    BY <2>3, FS_Interval
  <2> QED
    BY <2>3, <2>4, FS_Subset
<1>3. IsFiniteSet(Flying(p)) /\ IsFiniteSet(Arrived(p)) /\ IsFiniteSet(Refused(p))
  BY DEF FinitePlaces
<1>4. /\ Cardinality(Queued(p)) \in Nat /\ Cardinality(Flying(p)) \in Nat
      /\ Cardinality(Arrived(p)) \in Nat /\ Cardinality(Refused(p)) \in Nat
  BY <1>2, <1>3, FS_CardinalityType
<1>5. Queued(p) # {} \/ Flying(p) # {} \/ Arrived(p) # {} \/ Refused(p) # {}
  <2>1. p \in Waiting => Queued(p) # {}
    BY WaitingNow DEF Queued, Range
  <2> QED
    BY <2>1 DEF Underway, Delivered, Dropped, Flying, Arrived, Refused
<1>6. /\ Queued(p) # {} => Cardinality(Queued(p)) # 0
      /\ Flying(p) # {} => Cardinality(Flying(p)) # 0
      /\ Arrived(p) # {} => Cardinality(Arrived(p)) # 0
      /\ Refused(p) # {} => Cardinality(Refused(p)) # 0
  BY <1>2, <1>3, FS_EmptySet
<1> QED
  BY <1>1, <1>4, <1>5, <1>6

\* No accepted payload of a daemon that keeps running disappears uncounted, in
\* every network, whatever is lost, late or repeated: it waits, is in flight
\* (perhaps for ever), was delivered or is counted in data_dropped.
THEOREM PayloadsAccountedForTheorem == Spec => []PayloadsAccountedFor
<1>1. Init => Known /\ FinitePlaces
  <2>1. Init => Known
    BY DEF Init, Known
  <2>2. Init => FinitePlaces
    BY FS_EmptySet DEF Init, FinitePlaces, Flying, Arrived, Refused
  <2> QED
    BY <2>1, <2>2
<1>2. PlacesSound /\ PlacesSound' /\ Known /\ FinitePlaces /\ [Next]_vars => Known' /\ FinitePlaces'
  BY KnownStep, FiniteStep DEF PlacesSound, Sound
<1>3. PlacesSound /\ Known /\ FinitePlaces => PayloadsAccountedFor
  BY KnownCounts DEF PlacesSound, Known, PayloadsAccountedFor, TypeOK
<1> QED
  BY <1>1, <1>2, <1>3, PlacesInvariant, PTL DEF Spec
=============================================================================
