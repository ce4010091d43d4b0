------------------------ MODULE LabelExchangeProofs ------------------------
(***************************************************************************)
(* Safety of the label exchange for every topology, every label space and  *)
(* any number of restarts, duplicates and losses.                          *)
(***************************************************************************)
EXTENDS LabelExchange, TLAPS

\* Every step of the label exchange keeps the types.
LEMMA LabelTypeStep ==
  ASSUME LabelTypeOK, [LabelNext]_labelVars
  PROVE  LabelTypeOK'
<1> USE TopologyAssumption, LabelAssumption
    DEF TopologyAssumption, LabelAssumption, LabelTypeOK, Labels, NoLabel
<1>1. ASSUME NEW n \in Nodes, SendHellos(n) PROVE LabelTypeOK'
  BY <1>1 DEF SendHellos, Hello, Reachable
<1>2. ASSUME NEW n \in Nodes, RestartLabels(n) PROVE LabelTypeOK'
  BY <1>2 DEF RestartLabels, EmptyTable
<1>3. ASSUME NEW m \in hellos, IgnoreHello(m) PROVE LabelTypeOK'
  BY <1>3 DEF IgnoreHello, Receive, Hello
<1>4. ASSUME NEW m \in hellos, AnswerHello(m) PROVE LabelTypeOK'
  <2>1. m \in Hello
    BY <1>4
  <2>2. PICK label \in Labels :
          /\ neighbors' = [neighbors EXCEPT ![m.to][m.src_node_id] = label]
          /\ helloReplies' = helloReplies \cup
               {[src_node_id |-> m.to, dst_node_id |-> m.src_node_id, assigned_label |-> label]}
    BY <1>4 DEF AnswerHello
  <2>3. neighbors' \in [Nodes -> [Nodes -> Labels \cup {NoLabel}]]
    BY <2>1, <2>2 DEF Hello
  <2>4. helloReplies' \subseteq HelloReply
    BY <2>1, <2>2 DEF Hello, HelloReply
  <2> QED
    BY <1>4, <2>3, <2>4 DEF AnswerHello, Receive
<1>5. ASSUME NEW m \in helloReplies, handle_hello_reply(m) PROVE LabelTypeOK'
  <2>1. m \in HelloReply
    BY <1>5
  <2>2. labels' \in [Nodes -> [Nodes -> Labels \cup {NoLabel}]]
    BY <1>5, <2>1 DEF handle_hello_reply, HelloReply
  <2> QED
    BY <1>5, <2>2 DEF handle_hello_reply, Receive
<1>6. CASE UNCHANGED labelVars
  BY <1>6 DEF labelVars
<1> QED
  BY <1>1, <1>2, <1>3, <1>4, <1>5, <1>6 DEF LabelNext, handle_hello

\* Every value the tables and the datagrams of the exchange take is well typed;
\* in particular a label in use lies in 1..MaxLabel, the range of the u8 the
\* packets carry.
THEOREM LabelTypeCorrect == LabelSpec => []LabelTypeOK
<1>1. LabelInit => LabelTypeOK
  BY TopologyAssumption, LabelAssumption
  DEF TopologyAssumption, LabelAssumption, LabelInit, LabelTypeOK, EmptyTable, NoLabel
<1>2. LabelTypeOK /\ [LabelNext]_labelVars => LabelTypeOK'
  BY LabelTypeStep
<1> QED
  BY <1>1, <1>2, PTL DEF LabelSpec
-----------------------------------------------------------------------------
\* The inductive invariant: uniqueness needs nothing else, agreement needs the
\* replies in flight, which LabelAgreement includes.
LabelInv == LabelTypeOK /\ LabelsUnique /\ LabelAgreement

\* assign_or_reuse_label never hands out a label another entry holds.
LEMMA AssignedLabelIsOwn ==
  ASSUME LabelTypeOK, LabelsUnique,
         NEW n \in Nodes, NEW id \in Nodes, NEW label \in Labels,
         assign_or_reuse_label(n, id, label)
  PROVE  \A other \in Nodes : neighbors[n][other] = label => other = id
BY DEF LabelTypeOK, LabelsUnique, assign_or_reuse_label, FreeLabels, Labels, NoLabel

\* Only handle_hello and a restart touch a NeighborTable, and both keep its
\* labels distinct.
LEMMA LabelsUniqueStep ==
  ASSUME LabelTypeOK, LabelsUnique, [LabelNext]_labelVars
  PROVE  LabelsUnique'
<1>1. ASSUME NEW n \in Nodes, RestartLabels(n) PROVE LabelsUnique'
  BY <1>1 DEF RestartLabels, LabelsUnique, EmptyTable, LabelTypeOK
<1>2. ASSUME NEW m \in hellos, AnswerHello(m) PROVE LabelsUnique'
  <2>1. m.to \in Nodes /\ m.src_node_id \in Nodes
    BY <1>2, TopologyAssumption DEF TopologyAssumption, LabelTypeOK, Hello
  <2>2. PICK label \in Labels :
          /\ assign_or_reuse_label(m.to, m.src_node_id, label)
          /\ neighbors' = [neighbors EXCEPT ![m.to][m.src_node_id] = label]
    BY <1>2 DEF AnswerHello
  <2>3. \A other \in Nodes : neighbors[m.to][other] = label => other = m.src_node_id
    BY <2>1, <2>2, AssignedLabelIsOwn
  <2> QED
    BY <2>1, <2>2, <2>3 DEF LabelTypeOK, LabelsUnique
<1>3. CASE UNCHANGED neighbors
  BY <1>3 DEF LabelsUnique
<1> QED
  BY <1>1, <1>2, <1>3 DEF LabelNext, labelVars, SendHellos, handle_hello, IgnoreHello,
     handle_hello_reply

\* A table that has not been cleared by a restart never takes a label back, so
\* neither the labels others learned nor the replies in flight go stale.
LEMMA LabelAgreementStep ==
  ASSUME LabelTypeOK, LabelTypeOK', LabelAgreement, [LabelNext]_labelVars
  PROVE  LabelAgreement'
<1> USE TopologyAssumption DEF TopologyAssumption
<1>1. ASSUME NEW n \in Nodes, SendHellos(n) PROVE LabelAgreement'
  BY <1>1 DEF SendHellos, LabelAgreement
<1>2. ASSUME NEW n \in Nodes, RestartLabels(n) PROVE LabelAgreement'
  <2>1. \A m \in Nodes : restarts'[m] = 0
          => restarts[m] = 0 /\ m # n /\ neighbors'[m] = neighbors[m]
    BY <1>2 DEF RestartLabels, LabelTypeOK
  <2>2. \A k, m \in Nodes : labels'[k][m] # NoLabel => labels'[k][m] = labels[k][m]
    BY <1>2 DEF RestartLabels, LabelTypeOK, EmptyTable
  <2>3. helloReplies' = helloReplies
    BY <1>2 DEF RestartLabels
  <2>4. \A r \in helloReplies : r.src_node_id \in Nodes /\ r.dst_node_id \in Nodes
    BY DEF LabelTypeOK, HelloReply
  <2>5. ASSUME NEW k \in Nodes, NEW m \in Nodes, restarts'[m] = 0, labels'[k][m] # NoLabel
        PROVE  labels'[k][m] = neighbors'[m][k]
    BY <2>1, <2>2, <2>5 DEF LabelAgreement
  <2>6. ASSUME NEW r \in helloReplies', restarts'[r.src_node_id] = 0
        PROVE  r.assigned_label = neighbors'[r.src_node_id][r.dst_node_id]
    BY <2>1, <2>3, <2>4, <2>6 DEF LabelAgreement
  <2> QED
    BY <2>5, <2>6 DEF LabelAgreement, NoLabel
<1>3. ASSUME NEW m \in hellos, IgnoreHello(m) PROVE LabelAgreement'
  BY <1>3 DEF IgnoreHello, LabelAgreement
<1>4. ASSUME NEW m \in hellos, AnswerHello(m) PROVE LabelAgreement'
  <2>1. m.to \in Nodes /\ m.src_node_id \in Nodes
    BY <1>4 DEF LabelTypeOK, Hello
  <2>2. PICK label \in Labels :
          /\ assign_or_reuse_label(m.to, m.src_node_id, label)
          /\ neighbors' = [neighbors EXCEPT ![m.to][m.src_node_id] = label]
          /\ helloReplies' = helloReplies \cup
               {[src_node_id |-> m.to, dst_node_id |-> m.src_node_id, assigned_label |-> label]}
    BY <1>4 DEF AnswerHello
  <2>3. UNCHANGED <<labels, restarts>>
    BY <1>4 DEF AnswerHello
  <2>4. \A k, l \in Nodes : neighbors[k][l] # NoLabel => neighbors'[k][l] = neighbors[k][l]
    BY <2>1, <2>2 DEF assign_or_reuse_label, LabelTypeOK
  <2>5. \A r \in helloReplies : /\ r.src_node_id \in Nodes /\ r.dst_node_id \in Nodes
                                /\ r.assigned_label # NoLabel
    BY DEF LabelTypeOK, HelloReply, Labels, NoLabel
  <2>6. ASSUME NEW r \in helloReplies', restarts'[r.src_node_id] = 0
        PROVE  r.assigned_label = neighbors'[r.src_node_id][r.dst_node_id]
    <3>1. CASE r \in helloReplies
      BY <2>3, <2>4, <2>5, <2>6, <3>1 DEF LabelAgreement
    <3>2. CASE r \notin helloReplies
      BY <2>1, <2>2, <3>2 DEF LabelTypeOK
    <3> QED
      BY <3>1, <3>2
  <2> QED
    BY <2>3, <2>4, <2>6 DEF LabelAgreement
<1>5. ASSUME NEW m \in helloReplies, handle_hello_reply(m) PROVE LabelAgreement'
  <2>1. m \in HelloReply
    BY <1>5 DEF LabelTypeOK
  <2>2. helloReplies' \subseteq helloReplies /\ UNCHANGED <<neighbors, restarts>>
    BY <1>5 DEF handle_hello_reply, Receive
  <2>3. \A k, l \in Nodes :
          \/ labels'[k][l] = labels[k][l]
          \/ k = m.dst_node_id /\ l = m.src_node_id /\ labels'[k][l] = m.assigned_label
    BY <1>5, <2>1 DEF handle_hello_reply, HelloReply, LabelTypeOK
  <2> QED
    BY <2>1, <2>2, <2>3 DEF LabelAgreement, HelloReply
<1>6. CASE UNCHANGED labelVars
  BY <1>6 DEF labelVars, LabelAgreement
<1> QED
  BY <1>1, <1>2, <1>3, <1>4, <1>5, <1>6 DEF LabelNext, handle_hello

\* LabelInv is inductive.
LEMMA LabelInvInductive ==
  /\ LabelInit => LabelInv
  /\ LabelInv /\ [LabelNext]_labelVars => LabelInv'
<1>1. LabelInit => LabelInv
  BY TopologyAssumption, LabelAssumption
  DEF TopologyAssumption, LabelAssumption, LabelInit, LabelInv, LabelTypeOK, LabelsUnique,
      LabelAgreement, EmptyTable, NoLabel
<1>2. LabelInv /\ [LabelNext]_labelVars => LabelInv'
  BY LabelTypeStep, LabelsUniqueStep, LabelAgreementStep DEF LabelInv
<1> QED
  BY <1>1, <1>2

\* In every table the labels of two neighbours differ (NeighborTable's search
\* for a free label is right), for every topology and every MaxLabel.
THEOREM LabelsUniqueTheorem == LabelSpec => []LabelsUnique
<1>1. LabelInv => LabelsUnique
  BY DEF LabelInv
<1> QED
  BY <1>1, LabelInvInductive, PTL DEF LabelSpec

\* A label learned by HELLO_REPLY, or still in flight in one, is the label in
\* the table of the neighbour that assigned it, unless that neighbour restarted.
THEOREM LabelAgreementTheorem == LabelSpec => []LabelAgreement
<1>1. LabelInv => LabelAgreement
  BY DEF LabelInv
<1> QED
  BY <1>1, LabelInvInductive, PTL DEF LabelSpec

\* A label a node learned from a neighbour that did not restart resolves, in
\* that neighbour's table, to that node alone.
THEOREM LabelsResolveTheorem == LabelSpec => []LabelsResolve
<1>1. ASSUME LabelInv, NEW n \in Nodes, NEW m \in Nodes, restarts[m] = 0, labels[n][m] # NoLabel
      PROVE  neighbor_by_label(m, labels[n][m]) = {n}
  <2>1. n \in Nodes /\ labels[n][m] = neighbors[m][n]
    BY <1>1, TopologyAssumption DEF TopologyAssumption, LabelInv, LabelAgreement
  <2>2. \A id \in Nodes : neighbors[m][id] = neighbors[m][n] => id = n
    BY <1>1, <2>1 DEF LabelInv, LabelsUnique
  <2> QED
    BY <2>1, <2>2 DEF neighbor_by_label
<1>2. LabelInv => LabelsResolve
  BY <1>1 DEF LabelsResolve
<1> QED
  BY <1>2, LabelInvInductive, PTL DEF LabelSpec
=============================================================================
