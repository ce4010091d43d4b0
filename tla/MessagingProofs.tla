-------------------------- MODULE MessagingProofs --------------------------
(***************************************************************************)
(* The daemons implement the messaging service, for every topology, every  *)
(* mix of modes, every set of commands and any number of restarts and      *)
(* duplicates.                                                             *)
(***************************************************************************)
EXTENDS ProtocolProofs

\* Payloads stay with the addresses of their command: in the queues of their
\* source under their destination, and in packets that name both.
QueuesOwn(pending) ==
  \A n \in Nodes : \A d \in NodeIds : \A i \in DOMAIN pending[n][d] :
    Src[pending[n][d][i]] = n /\ Dst[pending[n][d][i]] = d

PacketOwns(m) == m.src_node_id = Src[m.payload] /\ m.dst_node_id = Dst[m.payload]

PayloadsOwned == QueuesOwn(pending_data) /\ \A m \in datas : PacketOwns(m)

\* origin_data sends payloads that belong to the addresses it is given.
LEMMA OriginOwns ==
  ASSUME \A m \in datas : PacketOwns(m), NEW n, NEW d, NEW payloads,
         \A i \in DOMAIN payloads : Src[payloads[i]] = n /\ Dst[payloads[i]] = d,
         NEW route, NEW reported, origin_data(n, d, payloads, route, reported)
  PROVE  \A m \in datas' : PacketOwns(m)
<1> SUFFICES ASSUME NEW m \in datas', m \notin datas PROVE PacketOwns(m)
  OBVIOUS
<1>1. PICK i \in DOMAIN payloads : \E to : m = OriginPacket(n, d, payloads, i, route, to)
  BY DEF origin_data
<1> QED
  BY <1>1 DEF OriginPacket, PacketOwns

\* Packets of DATA come from those two, or forward one.
LEMMA OwnedStep ==
  ASSUME TypeOK, PayloadsOwned, [Next]_vars
  PROVE  PayloadsOwned'
<1> DEFINE Untouched == UNCHANGED <<pending_data, datas>>
<1>1. ASSUME Untouched PROVE PayloadsOwned'
  BY <1>1 DEF PayloadsOwned
<1>2. QueuesOwn(pending_data) /\ \A m \in datas : PacketOwns(m)
  BY DEF PayloadsOwned
<1>3. pending_data \in [Nodes -> [NodeIds -> Seq(Payloads)]]
  BY DEF TypeOK
<1>4. ASSUME NEW p \in Payloads, QueuePayload(p) PROVE PayloadsOwned'
  <2>1. Src[p] \in Nodes /\ Dst[p] \in NodeIds
    BY ProtocolAssumption DEF ProtocolAssumption
  <2>2. /\ pending_data' = [pending_data EXCEPT ![Src[p]][Dst[p]] = Append(pending_data[Src[p]][Dst[p]], p)]
        /\ datas' = datas
    BY <1>4 DEF QueuePayload
  <2>3. QueuesOwn(pending_data')
    BY <1>2, <1>3, <2>1, <2>2 DEF QueuesOwn
  <2> QED
    BY <1>2, <2>2, <2>3 DEF PayloadsOwned
<1>5. ASSUME NEW p \in Payloads, SendOnCachedRoute(p) PROVE PayloadsOwned'
  <2>1. PICK route : origin_data(Src[p], Dst[p], <<p>>, route, TRUE)
    BY <1>5 DEF SendOnCachedRoute
  <2>2. \A i \in DOMAIN <<p>> : Src[<<p>>[i]] = Src[p] /\ Dst[<<p>>[i]] = Dst[p]
    OBVIOUS
  <2>3. \A m \in datas' : PacketOwns(m)
    BY <1>2, <2>1, <2>2, OriginOwns
  <2> QED
    BY <1>2, <1>5, <2>3 DEF PayloadsOwned, SendOnCachedRoute
<1>6. ASSUME NEW m \in rreqs, handle_rreq(m) PROVE Untouched
  BY <1>6 DEF handle_rreq, RefuseRreq, DropRreq, AnswerRreq, ForwardRreq, RreqFrame
<1>7. ASSUME NEW m \in rreps, CacheRoute(m) PROVE PayloadsOwned'
  <2> DEFINE n == m.to
             d == m.dst_node_id
             route == RouteEntry(m.dsr_path, IF n \in DlDsrNodes THEN m.dldsr_label_path ELSE <<>>)
  <2>1. n \in Nodes /\ d \in NodeIds
    BY DEF TypeOK, Rrep
  <2>2. /\ pending_data' = [pending_data EXCEPT ![n] = flushed(pending_data[n], d)]
        /\ origin_data(n, d, pending_data[n][d], route, FALSE)
    BY <1>7 DEF CacheRoute
  <2> HIDE DEF n, d, route
  <2>3. QueuesOwn(pending_data')
    BY <1>2, <1>3, <2>1, <2>2 DEF QueuesOwn, flushed
  <2>4. \A i \in DOMAIN pending_data[n][d] :
          Src[pending_data[n][d][i]] = n /\ Dst[pending_data[n][d][i]] = d
    BY <1>2, <2>1 DEF QueuesOwn
  <2>5. \A x \in datas' : PacketOwns(x)
    BY <1>2, <2>2, <2>4, OriginOwns
  <2> QED
    BY <2>3, <2>5 DEF PayloadsOwned
<1>8. ASSUME NEW m \in rreps, handle_rrep(m), ~CacheRoute(m) PROVE Untouched
  BY <1>8 DEF handle_rrep, RejectRrep, ForwardRrep, nodeVars
<1>9. ASSUME NEW m \in datas, handle_data(m) PROVE PayloadsOwned'
  <2>1. pending_data' = pending_data
    BY <1>9 DEF handle_data, DeliverData, ForwardData, drop_data, nodeVars
  <2>2. ASSUME NEW x \in datas', x \notin datas PROVE PacketOwns(x)
    <3>1. PICK next : x \in ForwardedData(m, next)
      BY <1>9, <2>2 DEF handle_data, DeliverData, ForwardData, drop_data, Receive
    <3> QED
      BY <1>2, <3>1 DEF ForwardedData, PacketOwns
  <2> QED
    BY <1>2, <2>1, <2>2 DEF PayloadsOwned
<1>10. ASSUME NEW n \in Nodes, Tick(n) PROVE PayloadsOwned'
  <2>1. PICK failed : pending_data' = [pending_data EXCEPT ![n] =
                        drop_pending_for_dst(pending_data[n], failed)]
    BY <1>10 DEF Tick
  <2>2. QueuesOwn(pending_data')
    BY <1>2, <1>3, <2>1 DEF QueuesOwn, drop_pending_for_dst
  <2>3. datas' = datas
    BY <1>10 DEF Tick
  <2> QED
    BY <1>2, <2>2, <2>3 DEF PayloadsOwned
<1>11. ASSUME NEW n \in Nodes, Elapse(n) \/ SetBack(n) PROVE Untouched
  BY <1>11 DEF Elapse, SetBack, ClockFrame
<1>12. ASSUME NEW n \in Nodes, Restart(n) PROVE PayloadsOwned'
  <2>1. /\ pending_data' = [pending_data EXCEPT ![n] = [d \in NodeIds |-> <<>>]]
        /\ datas' = datas
    BY <1>12 DEF Restart, RestartProtocol
  <2>2. QueuesOwn(pending_data')
    BY <1>2, <1>3, <2>1 DEF QueuesOwn
  <2> QED
    BY <1>2, <2>1, <2>2 DEF PayloadsOwned
<1>13. CASE LabelStep
  <2>1. Untouched
    BY <1>13 DEF LabelStep, nodeVars
  <2> QED
    BY <1>1, <2>1
<1>14. CASE UNCHANGED vars
  <2>1. Untouched
    BY <1>14 DEF vars, nodeVars
  <2> QED
    BY <1>1, <2>1
<1> HIDE DEF Untouched
<1>15. CASE PacketStep
  BY <1>1, <1>4, <1>5, <1>6, <1>7, <1>8, <1>9, <1>15 DEF PacketStep
<1>16. CASE TimerStep
  BY <1>1, <1>10, <1>11, <1>16 DEF TimerStep
<1> QED
  BY <1>12, <1>13, <1>14, <1>15, <1>16 DEF Next

\* No handler mixes up the payloads of two commands.
LEMMA OwnedInvariant == Spec => []PayloadsOwned
<1>1. Init => PayloadsOwned
  BY DEF Init, PayloadsOwned, QueuesOwn
<1>2. TypeOK /\ PayloadsOwned /\ [Next]_vars => PayloadsOwned'
  BY OwnedStep
<1> QED
  BY <1>1, <1>2, TypeCorrect, PTL DEF Spec
-----------------------------------------------------------------------------
(***************************************************************************)
(* The refinement                                                          *)
(***************************************************************************)
\* A payload that waits does so at its source.
LEMMA WaitingAtSource ==
  ASSUME NEW pending \in [Nodes -> [NodeIds -> Seq(Payloads)]], QueuesOwn(pending)
  PROVE  \A p : p \in UNION {UNION {Range(pending[n][d]) : d \in NodeIds} : n \in Nodes}
                <=> p \in Payloads /\ p \in Range(pending[Src[p]][Dst[p]])
<1> TAKE p
<1>1. ASSUME NEW n \in Nodes, NEW d \in NodeIds, p \in Range(pending[n][d])
      PROVE  p \in Payloads /\ p \in Range(pending[Src[p]][Dst[p]])
  <2>1. PICK i \in DOMAIN pending[n][d] : pending[n][d][i] = p
    BY <1>1 DEF Range
  <2>2. Src[p] = n /\ Dst[p] = d
    BY <2>1 DEF QueuesOwn
  <2>3. pending[n][d] \in Seq(Payloads)
    OBVIOUS
  <2> QED
    BY <1>1, <2>1, <2>2, <2>3
<1>2. ASSUME p \in Payloads, p \in Range(pending[Src[p]][Dst[p]])
      PROVE  p \in UNION {UNION {Range(pending[n][d]) : d \in NodeIds} : n \in Nodes}
  <2>1. Src[p] \in Nodes /\ Dst[p] \in NodeIds
    BY <1>2, ProtocolAssumption DEF ProtocolAssumption
  <2> QED
    BY <1>2, <2>1
<1> QED
  BY <1>1, <1>2

\* What waits, as the service sees it.
LEMMA WaitingNow ==
  ASSUME TypeOK, PayloadsOwned
  PROVE  \A p : p \in Waiting <=> p \in Payloads /\ p \in Range(pending_data[Src[p]][Dst[p]])
<1>1. pending_data \in [Nodes -> [NodeIds -> Seq(Payloads)]] /\ QueuesOwn(pending_data)
  BY DEF TypeOK, PayloadsOwned
<1> QED
  BY <1>1, WaitingAtSource DEF Waiting

\* The same after a step.
LEMMA WaitingNext ==
  ASSUME TypeOK', PayloadsOwned'
  PROVE  \A p : p \in Waiting' <=> p \in Payloads /\ p \in Range(pending_data'[Src[p]][Dst[p]])
<1>1. pending_data' \in [Nodes -> [NodeIds -> Seq(Payloads)]] /\ QueuesOwn(pending_data')
  BY DEF TypeOK, PayloadsOwned
<1> QED
  BY <1>1, WaitingAtSource DEF Waiting

Underway == {m.payload : m \in datas}
Dropped == {x.payload : x \in drops}

\* The hypotheses every step of the refinement starts from.
Sound == TypeOK /\ PayloadsOwned /\ TypeOK' /\ PayloadsOwned'

\* What a queue holds after one more command.
LEMMA RangeAppend ==
  ASSUME NEW S, NEW s \in Seq(S), NEW x \in S
  PROVE  \A y : y \in Range(Append(s, x)) <=> y = x \/ y \in Range(s)
<1> DEFINE t == Append(s, x)
<1>1. /\ DOMAIN s = 1..Len(s) /\ DOMAIN t = 1..(Len(s) + 1) /\ Len(s) \in Nat
      /\ t[Len(s) + 1] = x /\ \A i \in 1..Len(s) : t[i] = s[i]
  OBVIOUS
<1> HIDE DEF t
<1>2. \A y : y \in Range(t) <=> y = x \/ y \in Range(s)
  BY <1>1 DEF Range
<1> QED
  BY <1>2 DEF t

\* A command without a route: the payload waits.
LEMMA QueuePayloadAccepts ==
  ASSUME Sound, NEW p \in Payloads, QueuePayload(p)
  PROVE  Messages!Accept(p)
<1>1. Src[p] \in Nodes /\ Dst[p] \in NodeIds
  BY ProtocolAssumption DEF ProtocolAssumption
<1>2. /\ p \notin accepted /\ accepted' = accepted \cup {p}
      /\ UNCHANGED <<datas, delivered, drops>>
      /\ pending_data' = [pending_data EXCEPT ![Src[p]][Dst[p]] = Append(pending_data[Src[p]][Dst[p]], p)]
  BY DEF QueuePayload
<1>3. pending_data \in [Nodes -> [NodeIds -> Seq(Payloads)]]
  BY DEF Sound, TypeOK
<1>4. ASSUME NEW q \in Payloads
      PROVE  q \in Range(pending_data'[Src[q]][Dst[q]])
               <=> q = p \/ q \in Range(pending_data[Src[q]][Dst[q]])
  <2>1. Src[q] \in Nodes /\ Dst[q] \in NodeIds
    BY ProtocolAssumption DEF ProtocolAssumption
  <2>2. CASE Src[q] = Src[p] /\ Dst[q] = Dst[p]
    <3>1. pending_data'[Src[q]][Dst[q]] = Append(pending_data[Src[q]][Dst[q]], p)
      BY <1>1, <1>2, <1>3, <2>2
    <3>2. pending_data[Src[q]][Dst[q]] \in Seq(Payloads)
      BY <1>3, <2>1
    <3> QED
      BY <3>1, <3>2, RangeAppend
  <2>3. CASE ~(Src[q] = Src[p] /\ Dst[q] = Dst[p])
    <3>1. pending_data'[Src[q]][Dst[q]] = pending_data[Src[q]][Dst[q]]
      BY <1>1, <1>2, <1>3, <2>1, <2>3
    <3> QED
      BY <2>3, <3>1
  <2> QED
    BY <2>2, <2>3
<1>5. Waiting' = Waiting \cup {p}
  BY <1>4, WaitingNow, WaitingNext DEF Sound
<1> QED
  BY <1>2, <1>5 DEF Messages!Accept

\* origin_data puts all its payloads under way, or drops all of them.
LEMMA OriginMoves ==
  ASSUME NEW n, NEW d, NEW payloads, NEW route, NEW reported,
         origin_data(n, d, payloads, route, reported)
  PROVE  \/ Underway' = Underway \cup Range(payloads) /\ Dropped' = Dropped
         \/ Dropped' = Dropped \cup Range(payloads) /\ Underway' = Underway
<1> DEFINE hop == next_data_endpoint(n, route)
<1>1. /\ datas' = datas \cup
           UNION {{OriginPacket(n, d, payloads, i, route, next) : next \in hop} :
                    i \in DOMAIN payloads}
      /\ drops' = drops \cup
           [payload : IF hop = {} THEN Range(payloads) ELSE {}, node : {n},
            reason : {"no next hop"}, reported : {reported}]
  BY DEF origin_data
<1> HIDE DEF hop
<1>2. CASE hop = {}
  <2>1. datas' = datas
    BY <1>1, <1>2
  <2>2. drops' = drops \cup [payload : Range(payloads), node : {n},
                             reason : {"no next hop"}, reported : {reported}]
    BY <1>1, <1>2
  <2>3. Dropped' = Dropped \cup Range(payloads)
    <3>1. ASSUME NEW p \in Range(payloads) PROVE p \in Dropped'
      <4> DEFINE x == [payload |-> p, node |-> n, reason |-> "no next hop", reported |-> reported]
      <4>1. x \in drops' /\ x.payload = p
        BY <2>2
      <4> HIDE DEF x
      <4> QED
        BY <4>1 DEF Dropped
    <3> QED
      BY <2>2, <3>1 DEF Dropped
  <2> QED
    BY <2>1, <2>3 DEF Underway
<1>3. CASE hop # {}
  <2>1. drops' = drops
    BY <1>1, <1>3
  <2>2. Underway' = Underway \cup Range(payloads)
    <3>1. PICK next \in hop : TRUE
      BY <1>3
    <3>2. ASSUME NEW i \in DOMAIN payloads PROVE payloads[i] \in Underway'
      <4>1. OriginPacket(n, d, payloads, i, route, next) \in datas'
        <5> DEFINE Sent(j) == {OriginPacket(n, d, payloads, j, route, to) : to \in hop}
        <5>1. Sent(i) \subseteq UNION {Sent(j) : j \in DOMAIN payloads}
          BY <3>2, Zenon
        <5>2. OriginPacket(n, d, payloads, i, route, next) \in Sent(i)
          BY <3>1, Zenon
        <5>3. UNION {Sent(j) : j \in DOMAIN payloads} \subseteq datas'
          BY <1>1, Zenon
        <5> QED
          BY <5>1, <5>2, <5>3, Zenon
      <4>2. OriginPacket(n, d, payloads, i, route, next).payload = payloads[i]
        BY DEF OriginPacket
      <4> QED
        BY <4>1, <4>2 DEF Underway
    <3>3. ASSUME NEW m \in datas', m \notin datas PROVE m.payload \in Range(payloads)
      <4>1. PICK i \in DOMAIN payloads : \E to : m = OriginPacket(n, d, payloads, i, route, to)
        BY <1>1, <3>3
      <4> QED
        BY <4>1 DEF OriginPacket, Range
    <3>4. datas \subseteq datas'
      BY <1>1
    <3> QED
      BY <3>2, <3>3, <3>4 DEF Underway, Range
  <2> QED
    BY <2>1, <2>2 DEF Dropped
<1> QED
  BY <1>2, <1>3

\* A command with a route: the payload leaves, or is dropped for want of a hop.
LEMMA CachedRouteAccepts ==
  ASSUME NEW p \in Payloads, SendOnCachedRoute(p)
  PROVE  Messages!Accept(p)
<1>1. /\ p \notin accepted /\ accepted' = accepted \cup {p}
      /\ UNCHANGED <<pending_data, delivered>>
      /\ \E route : origin_data(Src[p], Dst[p], <<p>>, route, TRUE)
  BY DEF SendOnCachedRoute
<1>2. Range(<<p>>) = {p}
  BY DEF Range
<1>3. \/ Underway' = Underway \cup {p} /\ Dropped' = Dropped
      \/ Dropped' = Dropped \cup {p} /\ Underway' = Underway
  BY <1>1, <1>2, OriginMoves
<1>4. Waiting' = Waiting
  BY <1>1 DEF Waiting
<1> QED
  BY <1>1, <1>3, <1>4 DEF Messages!Accept, Underway, Dropped

\* What waits for the destinations D at node n.
WaitingFor(n, D) == {p \in Payloads : Src[p] = n /\ Dst[p] \in D /\ p \in Waiting}

\* The queues of D are what waits for D.
LEMMA WaitingForQueues ==
  ASSUME TypeOK, PayloadsOwned, NEW n \in Nodes, NEW D \in SUBSET NodeIds
  PROVE  WaitingFor(n, D) = UNION {Range(pending_data[n][d]) : d \in D}
<1>1. pending_data \in [Nodes -> [NodeIds -> Seq(Payloads)]] /\ QueuesOwn(pending_data)
  BY DEF TypeOK, PayloadsOwned
<1>2. \A p : p \in Waiting <=> p \in Payloads /\ p \in Range(pending_data[Src[p]][Dst[p]])
  BY WaitingNow
<1>3. ASSUME NEW d \in D, NEW p \in Range(pending_data[n][d]) PROVE p \in WaitingFor(n, D)
  <2>1. PICK i \in DOMAIN pending_data[n][d] : p = pending_data[n][d][i]
    BY DEF Range
  <2>2. pending_data[n][d] \in Seq(Payloads) /\ Src[p] = n /\ Dst[p] = d
    BY <1>1, <2>1 DEF QueuesOwn
  <2>3. p \in Payloads
    BY <2>1, <2>2
  <2> QED
    BY <1>2, <1>3, <2>2, <2>3 DEF WaitingFor
<1>4. ASSUME NEW p \in WaitingFor(n, D)
      PROVE  p \in UNION {Range(pending_data[n][d]) : d \in D}
  BY <1>2, <1>4 DEF WaitingFor
<1> QED
  BY <1>3, <1>4

\* Emptying queues of one node ends the wait of what waits there, and of
\* nothing else.
LEMMA QueuesEmptied ==
  ASSUME Sound, NEW n \in Nodes, NEW D \in SUBSET NodeIds,
         \A x \in Nodes : \A d \in NodeIds :
           pending_data'[x][d] = IF x = n /\ d \in D THEN <<>> ELSE pending_data[x][d]
  PROVE  Waiting' = Waiting \ WaitingFor(n, D)
<1>1. /\ \A p : p \in Waiting <=> p \in Payloads /\ p \in Range(pending_data[Src[p]][Dst[p]])
      /\ \A p : p \in Waiting' <=> p \in Payloads /\ p \in Range(pending_data'[Src[p]][Dst[p]])
  BY WaitingNow, WaitingNext DEF Sound
<1>2. ASSUME NEW p \in Payloads
      PROVE  p \in Waiting' <=> p \in Waiting /\ ~(Src[p] = n /\ Dst[p] \in D)
  <2>1. Src[p] \in Nodes /\ Dst[p] \in NodeIds
    BY ProtocolAssumption DEF ProtocolAssumption
  <2>2. Range(<<>>) = {}
    BY DEF Range
  <2> QED
    BY <1>1, <2>1, <2>2
<1> QED
  BY <1>1, <1>2 DEF WaitingFor

\* A step of the service that forgets nothing, or one it does not see.
ServiceStep ==
  \/ \E p \in Payloads : Messages!Accept(p) \/ Messages!Settle(p)
  \/ \E T \in SUBSET Waiting : Messages!EndWait(T)
  \/ UNCHANGED <<accepted, Waiting, Underway, delivered, Dropped>>

\* The service's step for that, whether the payloads leave or are given up.
LEMMA EndsWait ==
  ASSUME NEW n \in Nodes, NEW D \in SUBSET NodeIds,
         Waiting' = Waiting \ WaitingFor(n, D), UNCHANGED <<accepted, delivered>>,
         \/ Underway' = Underway \cup WaitingFor(n, D) /\ Dropped' = Dropped
         \/ Dropped' = Dropped \cup WaitingFor(n, D) /\ Underway' = Underway
  PROVE  ServiceStep
<1> DEFINE S == WaitingFor(n, D)
<1>1. S \subseteq Waiting /\ \A p, q \in S : Src[p] = Src[q]
  BY DEF WaitingFor
<1>2. CASE S = {}
  BY <1>2 DEF ServiceStep
<1>3. CASE S # {}
  <2>1. PICK T : T = S
    OBVIOUS
  <2> HIDE DEF S
  <2>2. T \in SUBSET Waiting /\ Messages!EndWait(T)
    BY <1>1, <1>3, <2>1 DEF Messages!EndWait, Underway, Dropped, S
  <2> QED
    BY <2>2, Zenon DEF ServiceStep
<1> QED
  BY <1>2, <1>3

\* A reply: what waits for its destination leaves together.
LEMMA CacheRouteEndsWait ==
  ASSUME Sound, NEW m \in rreps, CacheRoute(m)
  PROVE  ServiceStep
<1> DEFINE n == m.to
           d == m.dst_node_id
<1>1. n \in Nodes /\ d \in NodeIds /\ pending_data \in [Nodes -> [NodeIds -> Seq(Payloads)]]
  BY DEF Sound, TypeOK, Rrep
<1>2. /\ pending_data' = [pending_data EXCEPT ![n] = flushed(pending_data[n], d)]
      /\ \E route : origin_data(n, d, pending_data[n][d], route, FALSE)
      /\ UNCHANGED <<accepted, delivered>>
  BY DEF CacheRoute
<1> HIDE DEF n, d
<1>3. {d} \in SUBSET NodeIds /\ WaitingFor(n, {d}) = Range(pending_data[n][d])
  <2>1. {d} \in SUBSET NodeIds
    BY <1>1
  <2>2. WaitingFor(n, {d}) = UNION {Range(pending_data[n][e]) : e \in {d}}
    BY <1>1, <2>1, WaitingForQueues DEF Sound
  <2> QED
    BY <2>1, <2>2
<1>4. \A x \in Nodes : \A e \in NodeIds :
        pending_data'[x][e] = IF x = n /\ e \in {d} THEN <<>> ELSE pending_data[x][e]
  BY <1>1, <1>2 DEF flushed
<1>5. Waiting' = Waiting \ WaitingFor(n, {d})
  BY <1>1, <1>3, <1>4, QueuesEmptied
<1>6. \/ Underway' = Underway \cup WaitingFor(n, {d}) /\ Dropped' = Dropped
      \/ Dropped' = Dropped \cup WaitingFor(n, {d}) /\ Underway' = Underway
  BY <1>2, <1>3, OriginMoves
<1> QED
  BY <1>1, <1>2, <1>3, <1>5, <1>6, EndsWait

\* The timer: what waits for the discoveries it gives up is dropped.
LEMMA TickEndsWait ==
  ASSUME Sound, NEW n \in Nodes, Tick(n)
  PROVE  ServiceStep
<1> DEFINE expired == {d \in DOMAIN discoveries[n] : Elapsed(discoveries[n][d].age) >= DiscoveryTimeout}
           failed  == {d \in expired : Exhausted(discoveries[n][d])}
<1>1. failed \in SUBSET NodeIds /\ pending_data \in [Nodes -> [NodeIds -> Seq(Payloads)]]
  BY DEF Sound, TypeOK
<1>2. /\ pending_data' = [pending_data EXCEPT ![n] = drop_pending_for_dst(pending_data[n], failed)]
      /\ drops' = drops \cup
           [payload : UNION {Range(pending_data[n][d]) : d \in failed}, node : {n},
            reason : {"discovery failed"}, reported : {TRUE}]
      /\ UNCHANGED <<accepted, delivered, datas>>
  BY DEF Tick
<1> HIDE DEF failed
<1>3. \A x \in Nodes : \A e \in NodeIds :
        pending_data'[x][e] = IF x = n /\ e \in failed THEN <<>> ELSE pending_data[x][e]
  BY <1>1, <1>2 DEF drop_pending_for_dst
<1>4. Waiting' = Waiting \ WaitingFor(n, failed)
  BY <1>1, <1>3, QueuesEmptied
<1>5. Dropped' = Dropped \cup WaitingFor(n, failed)
  <2>1. drops' = drops \cup [payload : WaitingFor(n, failed), node : {n},
                             reason : {"discovery failed"}, reported : {TRUE}]
    BY <1>1, <1>2, WaitingForQueues DEF Sound
  <2>2. ASSUME NEW p \in WaitingFor(n, failed) PROVE p \in Dropped'
    <3> DEFINE x == [payload |-> p, node |-> n, reason |-> "discovery failed", reported |-> TRUE]
    <3>1. x \in drops' /\ x.payload = p
      BY <2>1
    <3> HIDE DEF x
    <3> QED
      BY <3>1 DEF Dropped
  <2> QED
    BY <2>1, <2>2 DEF Dropped
<1>6. Underway' = Underway
  BY <1>2 DEF Underway
<1> QED
  BY <1>1, <1>2, <1>4, <1>5, <1>6, EndsWait

\* Taking a data packet from the network, with or without a duplicate, takes
\* its payload or leaves it.
LEMMA ReceivedData ==
  ASSUME NEW m \in datas, Receive(datas, m, {})
  PROVE  m.payload \in Underway /\ Underway' \in {Underway, Underway \ {m.payload}}
<1>1. datas' = datas \ {m} \/ datas' = datas
  BY DEF Receive
<1>2. CASE datas' = datas
  BY <1>2 DEF Underway
<1>3. CASE datas' = datas \ {m}
  <2>1. CASE \E x \in datas' : x.payload = m.payload
    BY <1>3, <2>1 DEF Underway
  <2>2. CASE ~\E x \in datas' : x.payload = m.payload
    BY <1>3, <2>2 DEF Underway
  <2> QED
    BY <2>1, <2>2
<1> QED
  BY <1>1, <1>2, <1>3 DEF Underway

\* A data packet arrives where its command said, with its true source.
LEMMA DeliverSettles ==
  ASSUME Sound, NEW m \in datas, DeliverData(m)
  PROVE  Messages!Settle(m.payload)
<1>1. PacketOwns(m)
  BY DEF Sound, PayloadsOwned
<1>2. /\ Receive(datas, m, {}) /\ m.to = m.dst_node_id
      /\ delivered' = delivered \cup {[payload |-> m.payload, src |-> m.src_node_id, node |-> m.to]}
      /\ UNCHANGED <<accepted, drops, pending_data>>
  BY DEF DeliverData, CanDeliver, nodeVars
<1>3. [payload |-> m.payload, src |-> m.src_node_id, node |-> m.to]
        = [payload |-> m.payload, src |-> Src[m.payload], node |-> Dst[m.payload]]
  BY <1>1, <1>2 DEF PacketOwns
<1>4. Waiting' = Waiting /\ Dropped' = Dropped
  BY <1>2 DEF Waiting, Dropped
<1>5. m.payload \in Underway /\ Underway' \in {Underway, Underway \ {m.payload}}
  BY <1>2, ReceivedData
<1> QED
  BY <1>2, <1>3, <1>4, <1>5 DEF Messages!Settle, Underway, Dropped

\* A data packet is refused and counted.
LEMMA DropSettles ==
  ASSUME NEW m \in datas, drop_data(m)
  PROVE  Messages!Settle(m.payload)
<1> DEFINE x == [payload |-> m.payload, node |-> m.to, reason |-> "rejected", reported |-> TRUE]
<1>1. /\ Receive(datas, m, {}) /\ drops' = drops \cup {x}
      /\ UNCHANGED <<accepted, delivered, pending_data>>
  BY DEF drop_data, nodeVars
<1>2. x.payload = m.payload
  OBVIOUS
<1> HIDE DEF x
<1>3. Waiting' = Waiting /\ Dropped' = Dropped \cup {m.payload}
  BY <1>1, <1>2 DEF Waiting, Dropped
<1>4. m.payload \in Underway /\ Underway' \in {Underway, Underway \ {m.payload}}
  BY <1>1, ReceivedData
<1> QED
  BY <1>1, <1>3, <1>4 DEF Messages!Settle, Underway, Dropped

\* A node forwards to nodes that have an endpoint: DSR paths hold nodes of the
\* topology only, and neighbor_by_label finds no others.
LEMMA NextHopIsNode ==
  ASSUME NEW m \in Data, NEW next \in NextHop(m.to, m)
  PROVE  next \in Nodes
<1>1. CASE m.protocol_mode = "Dsr"
  <2>1. /\ m.route_cursor + 1 < Len(m.dsr_path) /\ m.dsr_path \in Seq(Nodes)
        /\ m.route_cursor \in Nat /\ next = m.dsr_path[m.route_cursor + 1 + 1]
    BY <1>1 DEF NextHop, Data
  <2> QED
    BY <2>1
<1>2. CASE m.protocol_mode # "Dsr"
  BY <1>2 DEF NextHop, neighbor_by_label
<1> QED
  BY <1>1, <1>2

\* Forwarding sends one packet with the same payload.
LEMMA ForwardedOne ==
  ASSUME NEW m, NEW next \in Nodes
  PROVE  \E x : ForwardedData(m, next) = {x} /\ x.payload = m.payload
<1> DEFINE x == [src_node_id |-> m.src_node_id, dst_node_id |-> m.dst_node_id,
                 sequence |-> m.sequence, protocol_mode |-> m.protocol_mode,
                 route_cursor |-> m.route_cursor + 1, dsr_path |-> m.dsr_path,
                 dldsr_label_path |-> m.dldsr_label_path, payload |-> m.payload,
                 from |-> m.to, to |-> next]
<1>1. ForwardedData(m, next) = {x}
  BY DEF ForwardedData
<1>2. x.payload = m.payload
  OBVIOUS
<1> HIDE DEF x
<1> QED
  BY <1>1, <1>2

\* Forwarding keeps the payload under way: nothing is lost between two hops.
LEMMA ForwardKeeps ==
  ASSUME Sound, NEW m \in datas, ForwardData(m)
  PROVE  UNCHANGED <<accepted, Waiting, Underway, delivered, Dropped>>
<1>1. PICK next \in NextHop(m.to, m) : Receive(datas, m, ForwardedData(m, next))
  BY DEF ForwardData
<1>2. UNCHANGED <<accepted, delivered, drops, pending_data>>
  BY DEF ForwardData, nodeVars, historyVars
<1>3. next \in Nodes
  BY NextHopIsNode DEF Sound, TypeOK
<1>4. PICK x : ForwardedData(m, next) = {x} /\ x.payload = m.payload
  BY <1>3, ForwardedOne
<1>5. Underway' = Underway
  <2>1. datas' = (datas \ {m}) \cup {x} \/ datas' = datas \cup {x}
    BY <1>1, <1>4 DEF Receive
  <2> QED
    BY <1>4, <2>1 DEF Underway
<1> QED
  BY <1>2, <1>5 DEF Waiting, Dropped

\* A daemon that goes down forgets what waits there, and nothing else.
LEMMA RestartCrashes ==
  ASSUME Sound, NEW n \in Nodes, Restart(n)
  PROVE  Messages!Crash(n)
<1>1. /\ pending_data' = [pending_data EXCEPT ![n] = [d \in NodeIds |-> <<>>]]
      /\ UNCHANGED <<datas, accepted, delivered, drops>>
  BY DEF Restart, RestartProtocol, historyVars
<1>2. pending_data \in [Nodes -> [NodeIds -> Seq(Payloads)]]
  BY DEF Sound, TypeOK
<1>3. \A x \in Nodes : \A e \in NodeIds :
        pending_data'[x][e] = IF x = n /\ e \in NodeIds THEN <<>> ELSE pending_data[x][e]
  BY <1>1, <1>2
<1>4. Waiting' = Waiting \ WaitingFor(n, NodeIds)
  <2>1. NodeIds \in SUBSET NodeIds
    OBVIOUS
  <2> QED
    BY <1>3, <2>1, QueuesEmptied
<1>5. \A p \in Waiting : p \in WaitingFor(n, NodeIds) <=> Src[p] = n
  BY WaitingNow, ProtocolAssumption DEF ProtocolAssumption, Sound, WaitingFor
<1>6. Waiting' = {p \in Waiting : Src[p] # n}
  BY <1>4, <1>5
<1> QED
  BY <1>1, <1>6 DEF Messages!Crash

\* Every step of the daemons is a step of the service or is invisible to it,
\* and only a restart is a crash.
LEMMA MessagingStep ==
  ASSUME Sound, [Next]_vars
  PROVE  ServiceStep \/ \E n \in Nodes : Restart(n) /\ Messages!Crash(n)
<1> DEFINE Crashes == \E n \in Nodes : Restart(n) /\ Messages!Crash(n)
           Untouched == UNCHANGED <<pending_data, datas, accepted, delivered, drops>>
<1>1. ASSUME Untouched PROVE ServiceStep
  BY <1>1 DEF ServiceStep, Waiting, Underway, Dropped
<1>2. ASSUME NEW n \in Nodes, Restart(n) PROVE Crashes
  BY <1>2, RestartCrashes
<1>3. ASSUME NEW p \in Payloads, QueuePayload(p) \/ SendOnCachedRoute(p) PROVE ServiceStep
  BY <1>3, QueuePayloadAccepts, CachedRouteAccepts, Zenon DEF ServiceStep
<1>4. ASSUME NEW m \in rreqs, handle_rreq(m) PROVE Untouched
  BY <1>4 DEF handle_rreq, RefuseRreq, DropRreq, AnswerRreq, ForwardRreq, RreqFrame, historyVars
<1>5. ASSUME NEW m \in rreps, handle_rrep(m), ~CacheRoute(m) PROVE Untouched
  BY <1>5 DEF handle_rrep, RejectRrep, ForwardRrep, nodeVars, historyVars
<1>6. ASSUME NEW m \in datas, handle_data(m) PROVE ServiceStep
  <2>1. m.payload \in Payloads
    BY DEF Sound, TypeOK, Data
  <2>2. CASE ForwardData(m)
    BY <2>2, ForwardKeeps DEF ServiceStep
  <2>3. CASE DeliverData(m) \/ drop_data(m)
    BY <2>1, <2>3, DeliverSettles, DropSettles, Zenon DEF ServiceStep
  <2> QED
    BY <1>6, <2>2, <2>3 DEF handle_data
<1>7. ASSUME NEW n \in Nodes, Elapse(n) \/ SetBack(n) PROVE Untouched
  BY <1>7 DEF Elapse, SetBack, ClockFrame, historyVars
<1>8. LabelStep => Untouched
  BY DEF LabelStep, nodeVars, historyVars
<1>9. UNCHANGED vars => Untouched
  BY DEF vars, nodeVars, historyVars
<1> SUFFICES ServiceStep \/ Crashes
  OBVIOUS
<1> HIDE DEF Untouched, Crashes
<1>10. CASE PacketStep
  BY <1>1, <1>3, <1>4, <1>5, <1>6, <1>10, CacheRouteEndsWait DEF PacketStep
<1>11. CASE TimerStep
  BY <1>1, <1>7, <1>11, TickEndsWait DEF TimerStep
<1> QED
  BY <1>1, <1>2, <1>8, <1>9, <1>10, <1>11 DEF Next

\* In terms of the service's own next-state relation.
LEMMA RefinementStep ==
  ASSUME Sound, [Next]_vars
  PROVE  [Messages!Next]_(Messages!messagingVars)
<1>1. ASSUME NEW p \in Payloads, Messages!Accept(p) \/ Messages!Settle(p) PROVE Messages!Next
  BY <1>1 DEF Messages!Next, Messages!Accept, Messages!Settle
<1>2. ASSUME NEW S \in SUBSET Waiting, Messages!EndWait(S) PROVE Messages!Next
  BY <1>2, Zenon DEF Messages!Next, Messages!EndWait
<1>3. ASSUME NEW n \in Nodes, Messages!Crash(n) PROVE Messages!Next
  BY <1>3 DEF Messages!Next, Messages!Crash
<1>4. CASE UNCHANGED <<accepted, Waiting, Underway, delivered, Dropped>>
  BY <1>4 DEF Messages!messagingVars, Underway, Dropped
<1> QED
  BY <1>1, <1>2, <1>3, <1>4, MessagingStep, Zenon DEF ServiceStep

\* Discovery, flooding, retries, forwarding by path or by label, duplicates and
\* restarts together implement the messaging service of Messaging.tla: every
\* accepted payload waits at its source or is under way until it is delivered
\* at its destination, with its true source, or is dropped and counted; only
\* a restart of its source forgets it.
THEOREM ProtocolImplementsMessaging == Spec => MessagingSpec
<1>1. Init => Messages!Init
  BY DEF Init, Messages!Init, Waiting, Range
<1>2. TypeOK /\ PayloadsOwned /\ TypeOK' /\ PayloadsOwned' /\ [Next]_vars
        => [Messages!Next]_(Messages!messagingVars)
  BY RefinementStep DEF Sound
<1> QED
  BY <1>1, <1>2, TypeCorrect, OwnedInvariant, PTL DEF Spec, MessagingSpec, Messages!Spec
=============================================================================
