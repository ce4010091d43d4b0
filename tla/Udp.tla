-------------------------------- MODULE Udp --------------------------------
(***************************************************************************)
(* UDP as the daemon uses it (dldsr-node/src/udp_transport.rs): datagrams  *)
(* in flight form a set, one variable per packet kind in the modules that  *)
(* extend this one.  Any member may be received next, so datagrams are     *)
(* reordered; one that is never received is lost; a datagram may be        *)
(* received again, at most MaxDups times over a behaviour.                 *)
(***************************************************************************)
EXTENDS Naturals

CONSTANT MaxDups

VARIABLE dups

ASSUME UdpAssumption == MaxDups \in Nat

UdpInit == dups = 0

\* `recv` hands datagram m of the set `net` to a handler, which answers with
\* the datagrams `sent` of the same kind.
Receive(net, m, sent) ==
  /\ m \in net
  /\ \/ net' = (net \ {m}) \cup sent /\ UNCHANGED dups
     \/ net' = net \cup sent /\ dups < MaxDups /\ dups' = dups + 1
=============================================================================
