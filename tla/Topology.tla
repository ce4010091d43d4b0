------------------------------ MODULE Topology ------------------------------
(***************************************************************************)
(* The static topology every daemon loads with its NodeConfig              *)
(* (dldsr-core/src/topology.rs).  NodeIds are the u32 identifiers that     *)
(* occur anywhere: in `nodes`, in a `neighbors` list or in a command.      *)
(* Nodes are the ones the topology lists, each with an endpoint and one    *)
(* daemon; Neighbors[n] is the `neighbors` list of node n.  Nothing in the *)
(* loader makes the lists symmetric or restricts them to listed nodes, so  *)
(* nothing is assumed about that here.  All daemons load the same topology *)
(* and no two nodes share an endpoint, so the endpoint of a node is        *)
(* represented by its identifier.                                          *)
(***************************************************************************)
EXTENDS Naturals, FiniteSets

CONSTANTS NodeIds, Nodes, Neighbors

ASSUME TopologyAssumption ==
  /\ NodeIds \subseteq Nat
  /\ IsFiniteSet(NodeIds)
  /\ Nodes \subseteq NodeIds
  /\ Neighbors \in [Nodes -> SUBSET NodeIds]

Reachable_unchecked(n) == Neighbors[n]

\* `logical_neighbors` of node n that have an endpoint: the ones a packet can
\* be sent to.
Reachable(n) == Neighbors[n] \cap Nodes

is_logical_neighbor(n, id) == id \in Neighbors[n]

\* Whether node `left` lists `right`; FALSE for an id the topology lacks.
are_adjacent(left, right) == left \in Nodes /\ right \in Neighbors[left]

\* A link usable in both directions.
Linked(a, b) == are_adjacent(a, b) /\ are_adjacent(b, a)
=============================================================================
