----------------------------- MODULE MCProtocol -----------------------------
(***************************************************************************)
(* Instances of Protocol for TLC.                                          *)
(***************************************************************************)
EXTENDS Protocol, MCTopology

NodeZeroRestarts == [n \in Nodes |-> IF n = 0 THEN 1 ELSE 0]
NodeOneRestarts == [n \in Nodes |-> IF n = 1 THEN 1 ELSE 0]
NoRestarts == [n \in Nodes |-> 0]

\* Daemons that have exchanged nothing but labels yet.
Unrouted ==
  /\ hellos = {} /\ helloReplies = {}
  /\ restarts = [n \in Nodes |-> 0]
  /\ routes = [n \in Nodes |-> [d \in NodeIds |-> <<>>]]
  /\ seen_requests = [n \in Nodes |-> NothingSeen]
  /\ pending_data = [n \in Nodes |-> [d \in NodeIds |-> <<>>]]
  /\ discoveries = [n \in Nodes |-> NoDiscoveries]
  /\ next_request_id = [n \in Nodes |-> 1]
  /\ next_sequence = [n \in Nodes |-> 1]
  /\ metrics = [n \in Nodes |-> NoMetrics]
  /\ rreqs = {} /\ rreps = {} /\ datas = {}
  /\ accepted = {} /\ delivered = {} /\ drops = {}

\* The label tables after every HELLO was answered, in the order of the ids.
WarmLabel(n, id) ==
  IF Linked(n, id) THEN Cardinality({k \in Nodes : Linked(n, k) /\ k <= id}) ELSE NoLabel

\* A network whose label exchange is complete and in which the HELLOs sent from
\* now on change nothing.
WarmInit ==
  /\ neighbors = [n \in Nodes |-> [id \in Nodes |-> WarmLabel(n, id)]]
  /\ labels = [n \in Nodes |-> [id \in Nodes |-> WarmLabel(id, n)]]
  /\ UdpInit /\ ClockInit
  /\ Unrouted

WarmSpec == WarmInit /\ [][PacketStep \/ TimerStep]_vars

\* One daemon restarts and exchanges labels anew, while no timer of the others
\* fires.
RestartStep ==
  \/ PacketStep
  \/ \E n \in Nodes : Restart(n)
  \/ (\E n \in Nodes : restarts[n] > 0) /\ LabelStep

RestartSpec == WarmInit /\ [][RestartStep]_vars

\* A network without labels, which repeats no datagram and whose clocks are not
\* set back any more.
ColdInit ==
  /\ neighbors = [n \in Nodes |-> EmptyTable]
  /\ labels = [n \in Nodes |-> EmptyTable]
  /\ dups = MaxDups /\ setbacks = MaxSetBacks
  /\ Unrouted

\* Nothing restarts, so that HELLOs change nothing once the exchange is complete.
PendingStep == PacketStep \/ TimerStep \/ (~LabelsConverged /\ LabelStep)

PendingSpec ==
  (WarmInit \/ ColdInit) /\ [][PendingStep]_vars /\ TimerFairness /\ DataFairness

\* Commands: the payloads are numbered
FromZero == [p \in Payloads |-> 0]
FromThree == [p \in Payloads |-> 3]
ToZero == [p \in Payloads |-> 0]
ToOne == [p \in Payloads |-> 1]
ToTwo == [p \in Payloads |-> 2]
ToThree == [p \in Payloads |-> 3]

\* Payload 2 is for an id no topology entry has
OneAndUnknown == [p \in Payloads |-> IF p = 2 THEN 9 ELSE 1]
=============================================================================
