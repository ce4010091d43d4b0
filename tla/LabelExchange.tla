--------------------------- MODULE LabelExchange ---------------------------
(***************************************************************************)
(* The HELLO / HELLO_REPLY exchange that gives every link its dynamic      *)
(* labels: NeighborTable and LabelTable (dldsr-core/src/tables.rs), the    *)
(* two packet handlers (dldsr-node/src/protocol.rs) and the hello timer    *)
(* (dldsr-node/src/daemon.rs).                                             *)
(*                                                                         *)
(* neighbors[n][m] is the label n assigned to its neighbour m, labels[n][m]*)
(* the label m assigned to n as n last heard it.  The tables also store    *)
(* times, an endpoint (always that of the node itself) and an `alive` flag *)
(* (never cleared), which no handler reads back.                           *)
(***************************************************************************)
EXTENDS Topology, Udp

CONSTANTS MaxLabel,     \* u8::MAX in the code
          MaxRestarts   \* bound on how often each daemon is restarted, per node

ASSUME LabelAssumption == MaxLabel \in Nat /\ MaxRestarts \in [Nodes -> Nat]

VARIABLES neighbors, labels,     \* the two tables of every node
          hellos, helloReplies,  \* datagrams in flight
          restarts               \* how often each daemon was restarted

labelVars == <<neighbors, labels, hellos, helloReplies, restarts>>

Labels == 1..MaxLabel
NoLabel == 0

Hello == [src_node_id : Nodes, to : Nodes]
HelloReply == [src_node_id : Nodes, dst_node_id : Nodes, assigned_label : Labels]

LabelTypeOK ==
  /\ neighbors \in [Nodes -> [Nodes -> Labels \cup {NoLabel}]]
  /\ labels \in [Nodes -> [Nodes -> Labels \cup {NoLabel}]]
  /\ hellos \subseteq Hello
  /\ helloReplies \subseteq HelloReply
  /\ restarts \in [Nodes -> Nat]
  /\ \A n \in Nodes : restarts[n] <= MaxRestarts[n]

EmptyTable == [id \in Nodes |-> NoLabel]

LabelInit ==
  /\ neighbors = [n \in Nodes |-> EmptyTable]
  /\ labels = [n \in Nodes |-> EmptyTable]
  /\ hellos = {} /\ helloReplies = {}
  /\ restarts = [n \in Nodes |-> 0]
  /\ UdpInit
-----------------------------------------------------------------------------
FreeLabels_any(n) == Labels

\* The labels no entry of n's NeighborTable holds.
FreeLabels(n) == {l \in Labels : \A id \in Nodes : neighbors[n][id] # l}

assign_or_reuse_label_fresh(n, id, label) ==
  label \in FreeLabels(n) /\ \A l \in FreeLabels(n) : label <= l

\* The result of NeighborTable::assign_or_reuse_label, when it is not the
\* error LabelSpaceExhausted: the label the neighbour has, or the smallest
\* free one.
assign_or_reuse_label(n, id, label) ==
  IF neighbors[n][id] # NoLabel
    THEN label = neighbors[n][id]
    ELSE label \in FreeLabels(n) /\ \A l \in FreeLabels(n) : label <= l

\* LabelTable::label_assigned_by_neighbor is labels[n][id] itself, NoLabel for
\* None; NeighborTable::neighbor_by_label is an Option, here the set of the
\* entries `find` may return.
neighbor_by_label(n, label) == {id \in Nodes : neighbors[n][id] = label}

\* The hello timer of node n fires.
SendHellos(n) ==
  /\ hellos' = hellos \cup [src_node_id : {n}, to : Reachable(n)]
  /\ UNCHANGED <<neighbors, labels, helloReplies, restarts, dups>>

\* A HELLO of a node the receiver does not list, or for which it has no label
\* left, is ignored.
IgnoreHello(m) ==
  /\ Receive(hellos, m, {})
  /\ \/ ~is_logical_neighbor(m.to, m.src_node_id)
     \/ ~\E label \in Labels : assign_or_reuse_label(m.to, m.src_node_id, label)
  /\ UNCHANGED <<neighbors, labels, helloReplies, restarts>>

AnswerHello_unsaved(m) ==
  /\ Receive(hellos, m, {})
  /\ is_logical_neighbor(m.to, m.src_node_id)
  /\ \E label \in Labels :
       /\ assign_or_reuse_label(m.to, m.src_node_id, label)
       /\ helloReplies' = helloReplies \cup
            {[src_node_id |-> m.to, dst_node_id |-> m.src_node_id, assigned_label |-> label]}
  /\ UNCHANGED <<neighbors, labels, restarts>>

\* Any other HELLO is answered with the label the receiver holds for it.
AnswerHello(m) ==
  /\ Receive(hellos, m, {})
  /\ is_logical_neighbor(m.to, m.src_node_id)
  /\ \E label \in Labels :
       /\ assign_or_reuse_label(m.to, m.src_node_id, label)
       /\ neighbors' = [neighbors EXCEPT ![m.to][m.src_node_id] = label]
       /\ helloReplies' = helloReplies \cup
            {[src_node_id |-> m.to, dst_node_id |-> m.src_node_id, assigned_label |-> label]}
  /\ UNCHANGED <<labels, restarts>>

handle_hello(m) == IgnoreHello(m) \/ AnswerHello(m)

handle_hello_reply_first(m) ==
  /\ Receive(helloReplies, m, {})
  /\ labels' = IF labels[m.dst_node_id][m.src_node_id] = NoLabel
                 THEN [labels EXCEPT ![m.dst_node_id][m.src_node_id] = m.assigned_label]
                 ELSE labels
  /\ UNCHANGED <<neighbors, hellos, restarts>>

\* The label replaces whatever was stored: the reply's timestamp is kept but
\* never compared.  A reply of a node that is not a logical neighbour changes
\* nothing.
handle_hello_reply(m) ==
  /\ Receive(helloReplies, m, {})
  /\ labels' = IF is_logical_neighbor(m.dst_node_id, m.src_node_id)
                 THEN [labels EXCEPT ![m.dst_node_id][m.src_node_id] = m.assigned_label]
                 ELSE labels
  /\ UNCHANGED <<neighbors, hellos, restarts>>

\* The process of node n ends and a new one starts: its tables are in memory
\* only.
RestartLabels(n) ==
  /\ restarts[n] < MaxRestarts[n]
  /\ restarts' = [restarts EXCEPT ![n] = @ + 1]
  /\ neighbors' = [neighbors EXCEPT ![n] = EmptyTable]
  /\ labels' = [labels EXCEPT ![n] = EmptyTable]
  /\ UNCHANGED <<hellos, helloReplies, dups>>

LabelNext ==
  \/ \E n \in Nodes : SendHellos(n) \/ RestartLabels(n)
  \/ \E m \in hellos : handle_hello(m)
  \/ \E m \in helloReplies : handle_hello_reply(m)

LabelSpec == LabelInit /\ [][LabelNext]_labelVars

\* Convergence needs the timers to fire and every datagram kept in flight to
\* arrive in the end.
LabelFairness ==
  /\ \A n \in Nodes : WF_labelVars(SendHellos(n))
  /\ \A m \in Hello : WF_labelVars(handle_hello(m))
  /\ \A m \in HelloReply : WF_labelVars(handle_hello_reply(m))

FairLabelSpec == LabelSpec /\ LabelFairness
-----------------------------------------------------------------------------
\* No node gives one label to two neighbours, so that neighbor_by_label, which
\* takes the first entry a HashMap iteration finds, has one possible answer.
LabelsUnique ==
  \A n, a, b \in Nodes :
    neighbors[n][a] = neighbors[n][b] /\ neighbors[n][a] # NoLabel => a = b

\* What a node heard from a neighbour that never restarted, or is about to
\* hear, is what that neighbour's table says.
LabelAgreement ==
  /\ \A n, m \in Nodes :
       restarts[m] = 0 /\ labels[n][m] # NoLabel => labels[n][m] = neighbors[m][n]
  /\ \A r \in helloReplies :
       restarts[r.src_node_id] = 0
         => r.assigned_label = neighbors[r.src_node_id][r.dst_node_id]

\* A label a node pushes on a RREQ for the hop from m to itself leads a data
\* packet at m back to that node and nowhere else, however HELLOs and
\* replies were reordered, repeated or lost and whichever other nodes
\* restarted, as long as m itself did not.
LabelsResolve ==
  \A n, m \in Nodes :
    restarts[m] = 0 /\ labels[n][m] # NoLabel
      => neighbor_by_label(m, labels[n][m]) = {n}

\* The two ends of every link have exchanged labels and agree on them.
LabelsConverged ==
  \A n, m \in Nodes :
    Linked(n, m) => labels[n][m] # NoLabel /\ labels[n][m] = neighbors[m][n]

\* Once restarts stop, the exchange repairs itself: replies of an earlier
\* incarnation still in flight may overwrite a newer label, but not for ever.
EventuallyConverged == <>[]LabelsConverged
=============================================================================
