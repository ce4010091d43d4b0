------------------------------ MODULE Messaging ------------------------------
(***************************************************************************)
(* What the network of daemons promises to the user of a send command,     *)
(* without routes, labels and packets: a payload that was accepted waits   *)
(* at its source or is under way until it is delivered, with its source,   *)
(* at its destination and nowhere else, or is dropped and counted.  Only a *)
(* source that goes down forgets what waits there.  The network may        *)
(* deliver or drop a payload more than once when it repeats datagrams.     *)
(***************************************************************************)
CONSTANTS Nodes, Payloads, Src, Dst

VARIABLES accepted, waiting, underway, delivered, dropped

messagingVars == <<accepted, waiting, underway, delivered, dropped>>

Init ==
  /\ accepted = {} /\ waiting = {} /\ underway = {}
  /\ delivered = {} /\ dropped = {}

\* A command is accepted; it waits, leaves at once or cannot leave.
Accept(p) ==
  /\ p \in Payloads \ accepted
  /\ accepted' = accepted \cup {p}
  /\ \/ waiting' = waiting \cup {p} /\ UNCHANGED <<underway, dropped>>
     \/ underway' = underway \cup {p} /\ UNCHANGED <<waiting, dropped>>
     \/ dropped' = dropped \cup {p} /\ UNCHANGED <<waiting, underway>>
  /\ UNCHANGED delivered

\* Payloads that wait at one source leave together, or are given up.
EndWait(S) ==
  /\ S # {} /\ S \subseteq waiting
  /\ \A p, q \in S : Src[p] = Src[q]
  /\ waiting' = waiting \ S
  /\ \/ underway' = underway \cup S /\ UNCHANGED dropped
     \/ dropped' = dropped \cup S /\ UNCHANGED underway
  /\ UNCHANGED <<accepted, delivered>>

\* A payload arrives or is refused; a repeated copy may remain under way.
Settle(p) ==
  /\ p \in underway
  /\ underway' \in {underway, underway \ {p}}
  /\ \/ /\ delivered' = delivered \cup {[payload |-> p, src |-> Src[p], node |-> Dst[p]]}
        /\ UNCHANGED dropped
     \/ dropped' = dropped \cup {p} /\ UNCHANGED delivered
  /\ UNCHANGED <<accepted, waiting>>

\* The daemon of n goes down with what waits there.
Crash(n) ==
  /\ waiting' = {p \in waiting : Src[p] # n}
  /\ UNCHANGED <<accepted, underway, delivered, dropped>>

Next ==
  \/ \E p \in Payloads : Accept(p) \/ Settle(p)
  \/ \E S \in SUBSET waiting : EndWait(S)
  \/ \E n \in Nodes : Crash(n)

Spec == Init /\ [][Next]_messagingVars

\* The fate of every accepted payload is decided in the end.
Decided == \A p \in Payloads : p \in accepted ~> p \notin waiting \cup underway
=============================================================================
