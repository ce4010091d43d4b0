-------------------------- MODULE MCLabelExchange --------------------------
(***************************************************************************)
(* Instances of LabelExchange for TLC.                                     *)
(***************************************************************************)
EXTENDS LabelExchange, MCTopology

\* Which daemons restart, and how often
NodeOneRestarts == [n \in Nodes |-> IF n = 1 THEN 1 ELSE 0]
=============================================================================
