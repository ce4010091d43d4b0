----------------------------- MODULE MCTopology -----------------------------
(***************************************************************************)
(* Topologies for the model-checking runs.                                 *)
(***************************************************************************)
EXTENDS Naturals, TLC

\* The neighbour lists of Topology::chain
chain(nodes) ==
  [idx \in 0..(nodes - 1) |->
     {id \in 0..(nodes - 1) : id + 1 = idx \/ id = idx + 1}]

\* 0 - 1
Pair == chain(2)

\* 0 - 1 - 2
Chain3 == chain(3)

\* A chain in which 2 also lists 0, which does not list 2, and 9, which the
\* topology does not define
Lopsided == (0 :> {1}) @@ (1 :> {0, 2}) @@ (2 :> {0, 1, 9})

\* The triangle of 0, 1 and 2 with 3 attached to 2; 3 also lists 0, which does
\* not list 3, and 9
Lollipop == (0 :> {1, 2}) @@ (1 :> {0, 2}) @@ (2 :> {0, 1, 3}) @@ (3 :> {0, 2, 9})

\* 0 - {1, 2} - 3, where 3 also lists 0, which does not list 3, and 9
Diamond == (0 :> {1, 2}) @@ (1 :> {0, 3}) @@ (2 :> {0, 3}) @@ (3 :> {0, 1, 2, 9})
=============================================================================
