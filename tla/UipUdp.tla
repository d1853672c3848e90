------------------------------- MODULE UipUdp -------------------------------
(***************************************************************************)
(* The UDP layer of the network stack as the boot code uses it: a fixed    *)
(* table of UDP "connections" (net/uip.c), and the datagrams in flight.    *)
(*                                                                         *)
(* There is one packet buffer and one callback (net/net.c), and net_poll() *)
(* takes at most one datagram from the device (drivers/net/net.c), so a    *)
(* client's poll is one atomic step that is handed at most one packet.     *)
(*                                                                         *)
(* The network may lose, duplicate and reorder datagrams.  That is no      *)
(* pessimism: uip_arp_out() replaces the first datagram to an unresolved   *)
(* address by an ARP request, so the stack itself loses packets.           *)
(***************************************************************************)
EXTENDS Naturals, FiniteSetsExt

CONSTANTS
  NumConns,      \* CONFIG_UIP_UDP_CONNS: slots of uip_udp_conns
  FirstPort,     \* lastport after uip_init(): 1024
  PortRestart,   \* where the search for a port wraps to: 4096
  PortLimit,     \* where it wraps: 32000
  Forgets,       \* whether packets leave "net", see below
  Me,            \* the address of this machine
  Broadcast      \* uip_broadcast_addr

ASSUME UdpAssumption ==
  /\ NumConns \in Nat \ {0}
  /\ FirstPort \in Nat \ {0}
  /\ PortRestart \in Nat \ {0}
  /\ PortLimit \in Nat
  /\ Forgets \in BOOLEAN

VARIABLES
  conns,         \* uip_udp_conns
  lastport,      \* the last local port handed out
  net            \* the datagrams in flight, in both directions

udpVars == <<conns, lastport, net>>

Slots == 1 .. NumConns

\* A slot that was never used, or was given up by uip_udp_remove().
FreeConn == [lport |-> 0, rport |-> 0, ripaddr |-> Broadcast]

\* uip_init(): every slot free.
UdpInit ==
  /\ conns = [s \in Slots |-> FreeConn]
  /\ lastport = FirstPort
  /\ net = {}

(***************************************************************************)
(* uip_udp_new() looks for the next unused local port, wrapping at         *)
(* PortLimit, and only then for a free slot: the port is used up even when *)
(* there is no slot.                                                       *)
(***************************************************************************)
PortFree(p) == \A s \in Slots : conns[s].lport # p

NextPort ==
  LET later == {p \in lastport + 1 .. PortLimit - 1 : PortFree(p)}
      wrapped == {p \in PortRestart .. PortLimit - 1 : PortFree(p)}
  IN  IF later # {} THEN Min(later) ELSE Min(wrapped)

FreeSlots == {s \in Slots : conns[s].lport = 0}

UdpNewMutant(slot, lport, rport, ripaddr) ==
  [conns EXCEPT ![slot] = [lport |-> lport, rport |-> rport, ripaddr |-> Me]]
UdpNew(slot, lport, rport, ripaddr) ==
  [conns EXCEPT ![slot] = [lport |-> lport, rport |-> rport, ripaddr |-> ripaddr]]

UdpRemoveMutant(slot) == conns
UdpRemove(slot) == [conns EXCEPT ![slot].lport = 0]

(***************************************************************************)
(* Demultiplexing: the first slot in table order whose local port is the   *)
(* packet's, whose remote port is unset or the packet's, and whose remote  *)
(* address is the broadcast address or the packet's.                       *)
(***************************************************************************)
Matches(s, m) ==
  /\ conns[s].lport # 0
  /\ conns[s].lport = m.dport
  /\ conns[s].rport \in {0, m.sport}
  /\ conns[s].ripaddr \in {Broadcast, m.src}

Matching(m) == {s \in Slots : Matches(s, m)}

Demux(m) == Min(Matching(m))

\* A datagram from this machine on the connection "c", and one to it.
Outgoing(c, data) ==
  [src |-> Me, sport |-> c.lport, dst |-> c.ripaddr, dport |-> c.rport, data |-> data]

Incoming(host, sport, dport, data) ==
  [src |-> host, sport |-> sport, dst |-> Me, dport |-> dport, data |-> data]

ToMe == {m \in net : m.dst = Me}

(***************************************************************************)
(* A network that never forgets a packet may still withhold it for ever,   *)
(* or deliver it again and again: every loss, repetition and reordering of *)
(* what a receiver sees is a behaviour of it, and safety needs no other.   *)
(* What must eventually happen is checked with a network that forgets: a   *)
(* packet that is lost or taken is gone until it is sent again.            *)
(***************************************************************************)

\* What may be left when "m" is received.
Taken(m) == IF Forgets THEN {net \ {m}, net} ELSE {net}

Lose ==
  /\ Forgets
  /\ \E m \in net : net' = net \ {m}
  /\ UNCHANGED <<conns, lastport>>
=============================================================================
