---------------------------- MODULE NetbootProofs ----------------------------
(***************************************************************************)
(* Proofs about Netboot: whatever DHCP leaves in the connection table and  *)
(* in the network, and however many attempts it took, the address is one   *)
(* that was granted, there is a connection for every later step, and the   *)
(* kernel that is started is all of the boot file.                         *)
(***************************************************************************)
EXTENDS Netboot, TLAPS

TP == INSTANCE TftpProofs

-----------------------------------------------------------------------------
(***************************************************************************)
(* The inductive invariant: that of the TFTP client, which allows for what *)
(* DHCP leaves behind; that of the DHCP client; and where netboot() is.    *)
(***************************************************************************)

\* What goes to the servers, and what comes from them.
Asks ==
  [op : {"dhcp"}, type : {"discover"}, xid : Nat]
    \cup [op : {"dhcp"}, type : {"request"}, xid : Nat, ip : Addrs,
          sid : DhcpServers \cup {"garbage"}]
    \cup [op : {"dhcp"}, type : {"release"}, ip : Addrs]

Offers ==
  [op : {"dhcp"}, type : {"offer"}, xid : Nat, ip : Addrs,
   sid : DhcpServers \cup {"absent", "short"}, opts : {"good"}]

Acks ==
  [op : {"dhcp"}, type : {"ack"}, xid : Nat, ip : Addrs, sid : DhcpServers,
   opts : {"good", "short"}]

Naks ==
  [op : {"dhcp"}, type : {"nak"}, xid : Nat, ip : {None}, sid : DhcpServers,
   opts : {"good"}]

PacketInv ==
  \A m \in net : m.data.op = "dhcp" =>
    \/ m.data \in Asks /\ m.dport = DhcpServerPort
    \/ m.data \in Offers \cup Acks \cup Naks /\ m.dport = DhcpClientPort

\* A transaction is the discover with the offers it gets, or one request with its
\* answers, and the latest is the one that dhcp_request() waits for.
Asked == {"request", "bound"}

XidInv ==
  \A m \in net : m.data.op = "dhcp" /\ m.data.type # "release" =>
    /\ m.data.xid \in 1 .. xids
    /\ m.data.xid = xids =>
         /\ dhcp_pc = "discover" => m.data.type \in {"discover", "offer"}
         /\ dhcp_pc \in Asked =>
              /\ m.data.type \in {"request", "ack", "nak"}
              /\ m.data.type = "request" => m.data = dhcp_out

\* What a grant of the latest request says.
Granted(p) ==
  /\ p.sid = server_id
  /\ p.ip = dhcp_out.ip
  /\ granted[xids] = [server |-> server_id, ip |-> dhcp_out.ip]

GrantInv ==
  /\ dhcp_pc \in Asked =>
       \A m \in net : m.data.op = "dhcp" /\ m.data.type = "ack" /\ m.data.xid = xids
                        => Granted(m.data)
  /\ dhcp_pc = "bound" =>
       /\ my_ip = dhcp_out.ip
       /\ granted[xids] = [server |-> server_id, ip |-> dhcp_out.ip]

\* The packet that is sent, and the one that has come.
OutInv ==
  /\ dhcp_pc = "discover" => dhcp_out = Dhcp!Discover(xids) /\ dhcp_state = "init"
  /\ dhcp_pc \in Asked =>
       /\ dhcp_out \in Asks /\ dhcp_out.type = "request"
       /\ dhcp_out.xid = xids /\ dhcp_out.sid = server_id
  /\ dhcp_pc = "request" => dhcp_state = "requesting"
  /\ dhcp_pc \in {"idle", "failed"} => dhcp_state = "init"

InInv ==
  dhcp_in_ready =>
    /\ dhcp_pc \in Dhcp!Waiting
    /\ dhcp_pc = "discover" => dhcp_in \in Offers
    /\ dhcp_pc = "request" => dhcp_in \in Acks \cup Naks
    /\ dhcp_pc = "request" /\ dhcp_in \in Acks => Granted(dhcp_in)

\* Each attempt takes a discover and a request.
AttemptInv ==
  /\ xids <= 2 * attempts
  /\ dhcp_pc = "discover" => xids + 1 <= 2 * attempts
  /\ dhcp_pc \in Dhcp!Waiting \cup {"bound"} => xids > 0

\* The connection of a DHCP request.
DhcpConnInv ==
  dhcp_pc \in Dhcp!Waiting =>
    /\ dhcp_conn \in Slots
    /\ conns[dhcp_conn] =
         [lport |-> DhcpClientPort, rport |-> DhcpServerPort, ripaddr |-> Broadcast]

\* Where netboot() is, and how far the two clients are.
Reading == {"reading", "reading args"}
Bound == {"bootfile", "reading", "args", "reading args", "giving up", "release", "overrun"}

PlaceInv ==
  /\ nb_pc = "dhcp" => dhcp_pc \in Dhcp!Waiting \cup {"idle", "failed"}
  /\ nb_pc = "dhcp" => (\A m \in net : m.data.op = "dhcp")
  /\ nb_pc = "dhcp" => (\A t \in Sessions : ~session[t].open)
  /\ nb_pc \in Bound => dhcp_pc = "bound"
  /\ nb_pc \in Bound => my_ip \in Addrs
  /\ nb_pc \notin Bound \cup {"dhcp"} => dhcp_pc \in {"released", "unreleased"}
  /\ tftp_status = Tftp!Idle <=> nb_pc \notin Reading
  /\ nb_pc = "reading" => tftp_file = bootfile
  /\ nb_pc = "reading args" => tftp_file \in ArgsFiles \ {None}

\* The ports handed out so far.
PortInv ==
  /\ tftp_reads <= MaxReads
  /\ lastport <= FirstPort + attempts + tftp_reads
       + (IF dhcp_pc \in {"released", "unreleased"} THEN 1 ELSE 0)

\* A session that has sent all of a file stays.
Sent(blocks, f) ==
  \E t \in Sessions :
    /\ session[t].open
    /\ session[t].file = f
    /\ blocks = [i \in 1 .. Tftp!LastBlock(f) |-> <<t, i>>]

LoadInv ==
  /\ nb_pc \in {"args", "reading args", "release", "boot", "returned"} =>
       Sent(payload, bootfile)
  /\ nb_pc \in {"dhcp", "bootfile", "reading", "args", "reading args"} => cmd_line = <<>>
  /\ nb_pc \in {"release", "boot", "returned"} =>
       \/ cmd_line = IF HasArgs THEN FromArgs ELSE <<>>
       \/ tftp_file \in ArgsFiles \ {None} /\ (~HasArgs \/ Sent(cmd_line, tftp_file))
  /\ nb_pc = "overrun" => FileSize[tftp_file] = 0 /\ Sent(cmd_line, tftp_file)

DhcpInv ==
  /\ PacketInv
  /\ XidInv
  /\ GrantInv
  /\ OutInv
  /\ InInv
  /\ AttemptInv
  /\ DhcpConnInv

NInv ==
  /\ NetbootTypeOK
  /\ TP!IInv
  /\ DhcpInv
  /\ PlaceInv
  /\ NetbootHasSlot
  /\ PortInv
  /\ LoadInv

-----------------------------------------------------------------------------
(***************************************************************************)
(* The two clients are those of their modules, over one table and network. *)
(***************************************************************************)
USE NetbootAssumption, DhcpAssumption, NetbootTftpAssumption, NetbootPorts, UdpAssumption
    DEF Dhcp!DhcpConstants, Tftp!TftpConstants, TP!TftpConstants

LEMMA TftpPorts == FirstPort + MaxReads < PortLimit
OBVIOUS

LEMMA SameUdp ==
  /\ Dhcp!NextPort = NextPort /\ Tftp!NextPort = NextPort /\ TP!NextPort = NextPort
  /\ Dhcp!FreeSlots = FreeSlots /\ Tftp!FreeSlots = FreeSlots /\ TP!FreeSlots = FreeSlots
  /\ Dhcp!Slots = Slots /\ Tftp!Slots = Slots /\ TP!Slots = Slots
  /\ Dhcp!ToMe = ToMe /\ Tftp!ToMe = ToMe /\ TP!ToMe = ToMe
BY DEF NextPort, Dhcp!NextPort, Tftp!NextPort, TP!NextPort, PortFree, Dhcp!PortFree, Tftp!PortFree,
   TP!PortFree, FreeSlots, Dhcp!FreeSlots, Tftp!FreeSlots, TP!FreeSlots, Slots, Dhcp!Slots,
   Tftp!Slots, TP!Slots, Dhcp!Min, Tftp!Min, TP!Min, Min, ToMe, Dhcp!ToMe, Tftp!ToMe, TP!ToMe

LEMMA SameRead ==
  ASSUME NEW f, Tftp!TftpRead(f)
  PROVE  TP!TftpRead(f)
BY SameUdp DEF Tftp!TftpRead, TP!TftpRead, Tftp!UdpNew, TP!UdpNew, Tftp!Outgoing, TP!Outgoing,
   Tftp!ReadReq, TP!ReadReq, Tftp!Idle, TP!Idle, Tftp!Failure, TP!Failure, Tftp!Pending, TP!Pending,
   Tftp!Min, TP!Min

LEMMA SameReturn ==
  ASSUME Tftp!TftpReturn
  PROVE  TP!TftpReturn
BY DEF Tftp!TftpReturn, TP!TftpReturn, Tftp!UdpRemove, TP!UdpRemove, Tftp!Idle, TP!Idle,
   Tftp!Failure, TP!Failure, Tftp!Success, TP!Success

LEMMA SameMatching ==
  ASSUME NEW m
  PROVE  /\ Tftp!Matching(m) = TP!Matching(m)
         /\ Tftp!LearnPort(m) = TP!LearnPort(m)
         /\ Tftp!Demux(m) = TP!Demux(m)
         /\ Tftp!Taken(m) = TP!Taken(m)
BY SameUdp DEF Tftp!Matching, TP!Matching, Tftp!Matches, TP!Matches, Tftp!Demux, TP!Demux,
   Tftp!LearnPort, TP!LearnPort, Tftp!Min, TP!Min, Tftp!Taken, TP!Taken

LEMMA SameResend ==
  ASSUME NEW cs, NEW packets, Tftp!Resend(cs, packets)
  PROVE  TP!Resend(cs, packets)
BY DEF Tftp!Resend, TP!Resend, Tftp!LastSent, TP!LastSent, Tftp!LastAck, TP!LastAck,
   Tftp!Unbind, TP!Unbind, Tftp!Outgoing, TP!Outgoing, Tftp!ReadReq, TP!ReadReq, Tftp!Ack, TP!Ack

LEMMA SamePoll ==
  ASSUME Tftp!PollNothing \/ \E m \in net : Tftp!Poll(m)
  PROVE  TP!PollNothing \/ \E m \in net : TP!Poll(m)
<1> USE DEF Tftp!Pending, TP!Pending, Tftp!Failure, TP!Failure, Tftp!Success, TP!Success,
        Tftp!tftpVars, TP!tftpVars, Tftp!clientVars, TP!clientVars
<1>1. Tftp!PollNothing => TP!PollNothing
  BY SameResend DEF Tftp!PollNothing, TP!PollNothing
<1>2. ASSUME NEW m \in net, Tftp!Poll(m)
      PROVE  TP!Poll(m)
  <2>1. Tftp!Expected(m) = TP!Expected(m) /\ Tftp!Fits(m) = TP!Fits(m) /\ Tftp!Short(m) = TP!Short(m)
    BY DEF Tftp!Expected, TP!Expected, Tftp!Fits, TP!Fits, Tftp!Short, TP!Short
  <2>2. ASSUME NEW rest, Tftp!PollUnmatched(m, rest)
        PROVE  TP!PollUnmatched(m, rest)
    BY <2>2, SameResend, SameMatching DEF Tftp!PollUnmatched, TP!PollUnmatched
  <2>3. ASSUME NEW rest, Tftp!PollIgnored(m, rest)
        PROVE  TP!PollIgnored(m, rest)
    BY <2>1, <2>3, SameResend, SameMatching DEF Tftp!PollIgnored, TP!PollIgnored
  <2>4. ASSUME NEW rest, Tftp!PollFailure(m, rest)
        PROVE  TP!PollFailure(m, rest)
    BY <2>1, <2>4, SameResend, SameMatching DEF Tftp!PollFailure, TP!PollFailure
  <2>5. ASSUME NEW rest, Tftp!PollBlock(m, rest)
        PROVE  TP!PollBlock(m, rest)
    <3>1. ASSUME NEW c, NEW n
          PROVE  Tftp!Outgoing(c, Tftp!Ack(n)) = TP!Outgoing(c, TP!Ack(n))
      BY SMTT(40) DEF Tftp!Outgoing, TP!Outgoing, Tftp!Ack, TP!Ack
    <3> QED BY <2>1, <2>5, <3>1, SameResend, SameMatching DEF Tftp!PollBlock, TP!PollBlock
  <2> QED BY <1>2, <2>2, <2>3, <2>4, <2>5, SameMatching, SameUdp
          DEF Tftp!Poll, TP!Poll, Tftp!PollMatched, TP!PollMatched
<1> QED BY <1>1, <1>2

LEMMA SameServer ==
  ASSUME Tftp!ServerStep
  PROVE  TP!ServerStep
BY DEF Tftp!ServerStep, TP!ServerStep, Tftp!ServerReceive, TP!ServerReceive,
   Tftp!ServerAccept, TP!ServerAccept, Tftp!ServerAck, TP!ServerAck,
   Tftp!ServerResend, TP!ServerResend, Tftp!ServerStray, TP!ServerStray,
   Tftp!CurrentData, TP!CurrentData, Tftp!FromSession, TP!FromSession, Tftp!Refused, TP!Refused,
   Tftp!NoSession, TP!NoSession, Tftp!Incoming, TP!Incoming, Tftp!Data, TP!Data,
   Tftp!Error, TP!Error, Tftp!Other, TP!Other, Tftp!BlockLen, TP!BlockLen,
   Tftp!LastBlock, TP!LastBlock, Tftp!Taken, TP!Taken, Tftp!clientVars, TP!clientVars

\* The client starts as its module says.
LEMMA InitIs == Init => TP!IInv
<1>1. Init => TP!Init
  BY DEF Init, TP!Init, UdpInit, TP!UdpInit, Tftp!TftpInit, TP!TftpInit, Slots, TP!Slots,
     FreeConn, TP!FreeConn, Tftp!NoSession, TP!NoSession, Tftp!Idle, TP!Idle
<1> QED BY <1>1, TftpPorts, TP!InitInv

-----------------------------------------------------------------------------
(***************************************************************************)
(* What one client does to the invariant of the other.                     *)
(***************************************************************************)

\* DHCP sends to its own ports and touches only connections on them.
LEMMA TftpUndisturbed ==
  ASSUME TP!IInv, UNCHANGED tftpVars,
         \A m \in net' : \/ m \in net
                         \/ m.data.op = "dhcp" /\ m.dport \in {DhcpServerPort, DhcpClientPort},
         \/ UNCHANGED conns
         \/ /\ tftp_conn = 0
            /\ \E s \in Slots :
               \E c \in [lport : {0, DhcpClientPort}, rport : {DhcpServerPort}, ripaddr : {Broadcast}] :
                 conns' = [conns EXCEPT ![s] = c],
         \/ UNCHANGED lastport
         \/ tftp_conn = 0 /\ lastport' = NextPort /\ lastport + 1 < PortLimit
  PROVE  TP!IInv' /\ (UNCHANGED lastport \/ lastport' = lastport + 1)
<1> DEFINE Types == [lport : Nat, rport : Nat, ripaddr : {Broadcast, Server}]
<1>1. /\ conns \in [Slots -> Types] /\ lastport \in TP!Ports /\ lastport \in Nat
      /\ \A s \in Slots : s # tftp_conn => TP!Elsewhere(conns[s])
      /\ TP!SharedTypeOK /\ TP!Ports = FirstPort .. PortLimit
  BY SameUdp DEF TP!IInv, TP!SharedTypeOK, TP!ConnInv, TP!Ports
<1>2. \A s \in Slots : s # 0
  BY DEF Slots
<1>3. conns' \in [Slots -> Types]
  <2>1. ASSUME NEW s, NEW c \in Types
        PROVE  [conns EXCEPT ![s] = c] \in [Slots -> Types]
    BY <1>1
  <2>2. [lport : {0, DhcpClientPort}, rport : {DhcpServerPort}, ripaddr : {Broadcast}] \subseteq Types
    OBVIOUS
  <2> QED BY <1>1, <2>1, <2>2
<1>4. \A s \in Slots : s # tftp_conn => TP!Elsewhere(conns'[s])
  BY SMTT(40), <1>1, <1>2 DEF TP!Elsewhere
<1>5. UNCHANGED lastport \/ lastport' = lastport + 1
  <2>1. ASSUME tftp_conn = 0, lastport + 1 < PortLimit
        PROVE  NextPort = lastport + 1
    <3>1. \A s \in Slots : conns[s].lport # lastport + 1
      <4>1. lastport + 1 \in TP!Ports /\ lastport + 1 # 0
        BY <1>1, <2>1
      <4> QED BY <1>1, <1>2, <2>1, <4>1 DEF TP!Elsewhere
    <3> QED BY <1>1, <2>1, <3>1, SameUdp, TftpPorts, TP!FreshPort
  <2> QED BY <2>1
<1>6. lastport' \in TP!Ports /\ lastport <= lastport'
  BY <1>1, <1>5
<1>7. \A m \in net' : m \in net \/ TP!Foreign(m)
  BY <1>1 DEF TP!Foreign
<1>8. TP!Active => conns'[tftp_conn] = conns[tftp_conn] /\ lastport' = lastport
  BY DEF TP!Active
<1>9. UNCHANGED TP!tftpVars
  BY DEF tftpVars, TP!tftpVars, TP!clientVars
<1> HIDE DEF Types
<1> QED BY <1>3, <1>4, <1>5, <1>6, <1>7, <1>8, <1>9, SameUdp, TftpPorts, TP!ForeignInv DEF Types

\* TFTP sends no packets of DHCP.
LEMMA DhcpUndisturbed ==
  ASSUME DhcpInv, UNCHANGED dhcpVars,
         \A m \in net' : m.data.op = "dhcp" => m \in net,
         dhcp_pc \in Dhcp!Waiting => UNCHANGED conns
  PROVE  DhcpInv'
<1> USE DEF DhcpInv, dhcpVars
<1>1. PacketInv' /\ XidInv'
  BY DEF PacketInv, XidInv
<1>2. GrantInv'
  BY DEF GrantInv, Granted
<1>3. OutInv' /\ InInv'
  BY DEF OutInv, InInv, Granted
<1>4. AttemptInv' /\ DhcpConnInv'
  BY DEF AttemptInv, DhcpConnInv
<1> QED BY <1>1, <1>2, <1>3, <1>4

-----------------------------------------------------------------------------
(***************************************************************************)
(* The steps of DHCP.                                                      *)
(***************************************************************************)
DhcpParts == Dhcp!DhcpTypeOK /\ TP!IInv /\ DhcpInv /\ PortInv

\* What the invariant says of the types, in one place.
LEMMA Counters ==
  ASSUME DhcpParts
  PROVE  /\ attempts \in 0 .. MaxAttempts /\ attempts \in Nat /\ xids \in 0 .. MaxAttempts * 2 /\ xids \in Nat
         /\ tftp_reads \in Nat /\ lastport \in Nat
         /\ MaxAttempts \in Nat /\ MaxReads \in Nat /\ Dhcp!MaxXid = 2 * MaxAttempts
         /\ lastport <= FirstPort + MaxAttempts + MaxReads + 1
BY DEF DhcpParts, Dhcp!DhcpTypeOK, Dhcp!MaxXid, TP!IInv, TP!SharedTypeOK, PortInv

LEMMA DhcpRequestInv ==
  ASSUME DhcpParts, Dhcp!DhcpRequest, UNCHANGED tftpVars, tftp_conn = 0
  PROVE  DhcpParts'
<1> USE DEF DhcpParts, DhcpInv
<1>1. /\ dhcp_pc \in {"idle", "failed"} /\ attempts < MaxAttempts /\ attempts' = attempts + 1
      /\ lastport' = NextPort
      /\ UNCHANGED <<dhcp_state, dhcp_in, server_id, my_ip, offered, granted, tftp_reads>>
  BY SameUdp DEF Dhcp!DhcpRequest, Dhcp!dhcpServerVars, tftpVars
<1>2. attempts' \in 0 .. MaxAttempts /\ 2 * attempts' = 2 * attempts + 2
  BY <1>1, Counters
<1>3. lastport + 1 < PortLimit
  BY <1>1, Counters DEF PortInv
<1>4. ~dhcp_in_ready /\ dhcp_state = "init"
  BY <1>1 DEF InInv, OutInv, Dhcp!Waiting
<1>5. CASE FreeSlots = {}
  <2>1. /\ dhcp_pc' = "failed"
        /\ UNCHANGED <<conns, net, dhcp_out, dhcp_in_ready, dhcp_conn, xids>>
    BY <1>5, SameUdp DEF Dhcp!DhcpRequest
  <2>2. TP!IInv' /\ (UNCHANGED lastport \/ lastport' = lastport + 1)
    BY <1>1, <1>3, <2>1, TftpUndisturbed
  <2>3. Dhcp!DhcpTypeOK'
    BY <1>1, <1>2, <2>1 DEF Dhcp!DhcpTypeOK
  <2>4. PacketInv' /\ XidInv' /\ GrantInv' /\ OutInv' /\ InInv'
    BY <1>1, <1>4, <2>1 DEF PacketInv, XidInv, GrantInv, OutInv, InInv, Asked
  <2>5. AttemptInv' /\ DhcpConnInv'
    BY <1>1, <1>2, <2>1, Counters DEF AttemptInv, DhcpConnInv, Dhcp!Waiting
  <2>6. PortInv'
    BY <1>1, <2>1, <2>2, Counters DEF PortInv
  <2> QED BY <2>2, <2>3, <2>4, <2>5, <2>6
<1>6. CASE FreeSlots # {}
  <2> DEFINE slot == Min(FreeSlots)
             c == [lport |-> DhcpClientPort, rport |-> DhcpServerPort, ripaddr |-> Broadcast]
             p == [src |-> Me, sport |-> DhcpClientPort, dst |-> Broadcast, dport |-> DhcpServerPort,
                   data |-> Dhcp!Discover(xids + 1)]
  <2>0. slot \in Slots /\ FreeSlots \subseteq Slots
    BY <1>6, SameUdp, TftpPorts, TP!FreeSlot DEF TP!Min, Min
  <2> HIDE DEF slot
  <2>1. conns' = [conns EXCEPT ![slot] = c] /\ dhcp_conn' = slot /\ dhcp_pc' = "discover"
    BY <1>6, SameUdp DEF Dhcp!DhcpRequest, Dhcp!UdpNew, Dhcp!Min, Min, slot
  <2>2. conns \in [Slots -> [lport : Nat, rport : Nat, ripaddr : {Broadcast, Server}]]
    BY SameUdp DEF TP!IInv, TP!SharedTypeOK
  <2>3. conns'[slot] = c
    BY <2>0, <2>1, <2>2
  <2>4. /\ xids' = xids + 1 /\ dhcp_in_ready' = FALSE
        /\ dhcp_out' = Dhcp!Discover(xids + 1)
    BY <1>6, SameUdp DEF Dhcp!DhcpRequest, Dhcp!SendPacket
  <2>5. net' = net \cup {p}
    <3>1. conns' = Dhcp!UdpNew(slot, DhcpClientPort, DhcpServerPort, Broadcast)
      BY <1>6, SameUdp DEF Dhcp!DhcpRequest, Dhcp!Min, Min, slot
    <3>2. net' = net \cup {Dhcp!Outgoing(conns'[slot], Dhcp!Discover(xids + 1))}
      BY <1>6, <2>4, <3>1, SameUdp DEF Dhcp!DhcpRequest, Dhcp!SendPacket, Dhcp!Min, Min, slot
    <3> QED BY <2>3, <3>2 DEF Dhcp!Outgoing
  <2>6. TP!IInv' /\ (UNCHANGED lastport \/ lastport' = lastport + 1)
    <3>1. c \in [lport : {0, DhcpClientPort}, rport : {DhcpServerPort}, ripaddr : {Broadcast}]
      OBVIOUS
    <3>2. \A m \in net' : m \in net \/ (m.data.op = "dhcp" /\ m.dport = DhcpServerPort)
      BY <2>5 DEF Dhcp!Discover
    <3> QED BY <1>1, <1>3, <2>0, <2>1, <3>1, <3>2, TftpUndisturbed
  <2>7. xids' \in Nat /\ xids' + 1 <= 2 * attempts' /\ xids' \in 0 .. Dhcp!MaxXid /\ xids' > 0
    BY <1>1, <1>2, <2>4, Counters DEF AttemptInv
  <2>8. Dhcp!Discover(xids') \in Asks /\ Dhcp!Discover(xids').type = "discover"
        /\ Dhcp!Discover(xids').xid = xids' /\ Asks \subseteq Dhcp!Packets
    BY <2>7 DEF Dhcp!Discover, Asks, Dhcp!Packets
  <2>9. Dhcp!DhcpTypeOK'
    BY <1>1, <1>2, <2>0, <2>1, <2>4, <2>7, <2>8, SameUdp DEF Dhcp!DhcpTypeOK, Dhcp!Waiting
  <2>10. PacketInv'
    BY <2>4, <2>5, <2>8 DEF PacketInv
  <2>11. XidInv'
    <3>1. \A m \in net : m.data.op = "dhcp" /\ m.data.type # "release" => m.data.xid \in 1 .. xids' - 1
      BY <2>4, Counters DEF XidInv
    <3> QED BY <2>1, <2>4, <2>5, <2>7, <2>8, <3>1 DEF XidInv, Asked
  <2>12. GrantInv' /\ OutInv' /\ InInv'
    BY <1>4, <1>1, <2>1, <2>4 DEF GrantInv, OutInv, InInv, Asked
  <2>13. AttemptInv'
    BY <1>1, <1>2, <2>1, <2>4, <2>7, Counters DEF AttemptInv, Dhcp!Waiting
  <2>14. DhcpConnInv'
    BY <2>0, <2>1, <2>3 DEF DhcpConnInv
  <2>15. PortInv'
    BY <1>1, <2>1, <2>6, Counters DEF PortInv
  <2> QED BY <2>6, <2>9, <2>10, <2>11, <2>12, <2>13, <2>14, <2>15
<1> QED BY <1>5, <1>6

\* The packet is the one that was sent before.
LEMMA DhcpResendInv ==
  ASSUME DhcpParts, Dhcp!DhcpResend, UNCHANGED tftpVars
  PROVE  DhcpParts'
<1> USE DEF DhcpParts, DhcpInv
<1> DEFINE p == [src |-> Me, sport |-> DhcpClientPort, dst |-> Broadcast, dport |-> DhcpServerPort,
                 data |-> dhcp_out]
<1>1. dhcp_pc \in Dhcp!Waiting /\ UNCHANGED <<conns, lastport, dhcpVars, tftp_reads>>
  BY DEF Dhcp!DhcpResend, Dhcp!dhcpVars, dhcpVars, Dhcp!dhcpClientVars, Dhcp!dhcpServerVars, tftpVars
<1>2. conns[dhcp_conn] = [lport |-> DhcpClientPort, rport |-> DhcpServerPort, ripaddr |-> Broadcast]
  BY <1>1 DEF DhcpConnInv
<1>3. net' = net \cup {p}
  BY <1>2 DEF Dhcp!DhcpResend, Dhcp!Outgoing
<1>4. /\ dhcp_out \in Asks /\ dhcp_out.op = "dhcp" /\ dhcp_out.type # "release"
      /\ dhcp_out.xid = xids /\ xids \in 1 .. xids
      /\ p.data = dhcp_out /\ p.dport = DhcpServerPort
      /\ dhcp_pc = "discover" => dhcp_out.type = "discover"
      /\ dhcp_pc \in Asked => dhcp_out.type = "request"
  <2>1. xids \in Nat /\ xids > 0
    BY <1>1, Counters DEF AttemptInv
  <2>2. CASE dhcp_pc = "discover"
    BY <2>1, <2>2 DEF OutInv, Dhcp!Discover, Asks, Asked
  <2>3. CASE dhcp_pc = "request"
    BY <2>1, <2>3 DEF OutInv, Asks, Asked
  <2> QED BY <1>1, <2>2, <2>3 DEF Dhcp!Waiting
<1>5. TP!IInv'
  <2>1. \A m \in net' : m \in net \/ (m.data.op = "dhcp" /\ m.dport = DhcpServerPort)
    BY <1>3, <1>4
  <2> QED BY <1>1, <2>1, TftpUndisturbed
<1>6. Dhcp!DhcpTypeOK' /\ PortInv'
  BY <1>1 DEF Dhcp!DhcpTypeOK, PortInv, dhcpVars
<1>7. PacketInv'
  BY <1>3, <1>4 DEF PacketInv
<1>8. XidInv'
  BY <1>1, <1>3, <1>4 DEF XidInv, dhcpVars, Dhcp!Waiting, Asked
<1>9. GrantInv'
  BY <1>1, <1>3, <1>4 DEF GrantInv, Granted, dhcpVars, Dhcp!Waiting, Asked
<1>10. OutInv' /\ InInv'
  BY <1>1 DEF OutInv, InInv, Granted, dhcpVars
<1>11. AttemptInv' /\ DhcpConnInv'
  BY <1>1 DEF AttemptInv, DhcpConnInv, dhcpVars
<1> QED BY <1>5, <1>6, <1>7, <1>8, <1>9, <1>10, <1>11

\* Only a reply to the latest packet, of the type that is waited for, is kept.
LEMMA DhcpPollInv ==
  ASSUME DhcpParts, NEW m \in net, m.data.op = "dhcp", Dhcp!DhcpPoll(m), UNCHANGED tftpVars
  PROVE  DhcpParts'
<1> USE DEF DhcpParts, DhcpInv
<1>1. /\ dhcp_pc \in Dhcp!Waiting /\ ~dhcp_in_ready
      /\ net' \subseteq net
      /\ UNCHANGED <<conns, lastport, dhcp_pc, dhcp_state, dhcp_out, dhcp_conn,
                     server_id, my_ip, xids, attempts, offered, granted, tftp_reads>>
      /\ \/ UNCHANGED <<dhcp_in, dhcp_in_ready>>
         \/ /\ dhcp_in_ready' = Dhcp!ValidReply(m.data)
            /\ dhcp_in' = IF dhcp_in_ready' THEN m.data ELSE None
  BY DEF Dhcp!DhcpPoll, Dhcp!Taken, Dhcp!dhcpServerVars, tftpVars
<1>2. ASSUME Dhcp!ValidReply(m.data)
      PROVE  /\ dhcp_pc = "discover" => m.data \in Offers
             /\ dhcp_pc = "request" => m.data \in Acks \cup Naks
             /\ dhcp_pc = "request" /\ m.data \in Acks => Granted(m.data)
             /\ m.data \in Dhcp!Packets
  <2>1. m.data.xid = dhcp_out.xid /\ Dhcp!RightType(m.data)
    BY <1>2 DEF Dhcp!ValidReply, Dhcp!RightXid
  <2>2. dhcp_out.xid = xids
    BY <1>1 DEF Dhcp!Waiting, OutInv, Asked, Dhcp!Discover
  <2>3. m.data \in Asks \/ m.data \in Offers \/ m.data \in Acks \/ m.data \in Naks
    BY DEF PacketInv
  <2>4. /\ m.data \in Asks => m.data.type \in {"discover", "request", "release"}
        /\ m.data \in Offers => m.data.type = "offer"
        /\ m.data \in Acks => m.data.type = "ack"
        /\ m.data \in Naks => m.data.type = "nak"
    BY DEF Asks, Offers, Acks, Naks
  <2>5. CASE dhcp_pc = "discover"
    <3>1. m.data.type = "offer"
      BY <2>1, <2>5 DEF OutInv, Dhcp!RightType
    <3>2. m.data \in Offers
      BY <2>3, <2>4, <3>1
    <3> QED BY <2>5, <3>2 DEF Offers, Dhcp!Packets
  <2>6. CASE dhcp_pc = "request"
    <3>1. m.data.type \in {"ack", "nak"}
      BY <2>1, <2>6 DEF OutInv, Dhcp!RightType
    <3>2. m.data \in Acks \cup Naks
      BY <2>3, <2>4, <3>1
    <3>3. m.data \in Acks => Granted(m.data)
      BY <2>1, <2>2, <2>4, <2>6 DEF GrantInv, Asked
    <3>4. m.data \in Dhcp!Packets
      BY <3>2 DEF Acks, Naks, Dhcp!Packets
    <3> QED BY <2>6, <3>2, <3>3, <3>4
  <2> QED BY <1>1, <2>5, <2>6 DEF Dhcp!Waiting
<1>3. dhcp_in_ready' \in BOOLEAN /\ (dhcp_in_ready' => Dhcp!ValidReply(m.data) /\ dhcp_in' = m.data)
      /\ dhcp_in' \in Dhcp!Packets \cup {None}
  <2>1. Dhcp!ValidReply(m.data) \in BOOLEAN
    <3>1. dhcp_state \in {"init", "requesting", "bound"}
      BY DEF Dhcp!DhcpTypeOK
    <3> QED BY <3>1 DEF Dhcp!ValidReply, Dhcp!RightXid, Dhcp!RightType
  <2> QED BY <1>1, <1>2, <2>1 DEF Dhcp!DhcpTypeOK
<1>4. TP!IInv'
  BY <1>1, TftpUndisturbed
<1>5. Dhcp!DhcpTypeOK' /\ PortInv'
  BY <1>1, <1>3 DEF Dhcp!DhcpTypeOK, PortInv
<1>6. PacketInv' /\ XidInv' /\ GrantInv'
  BY <1>1 DEF PacketInv, XidInv, GrantInv, Granted
<1>7. OutInv' /\ AttemptInv' /\ DhcpConnInv'
  BY <1>1 DEF OutInv, AttemptInv, DhcpConnInv
<1>8. InInv'
  BY <1>1, <1>2, <1>3 DEF InInv, Granted
<1> QED BY <1>4, <1>5, <1>6, <1>7, <1>8

\* The connection of a request is given up.
LEMMA GivenUp ==
  ASSUME DhcpParts, dhcp_pc \in Dhcp!Waiting, conns' = [conns EXCEPT ![dhcp_conn].lport = 0]
  PROVE  /\ dhcp_conn \in Slots
         /\ conns' = [conns EXCEPT ![dhcp_conn] =
                        [lport |-> 0, rport |-> DhcpServerPort, ripaddr |-> Broadcast]]
<1>1. /\ dhcp_conn \in Slots
      /\ conns[dhcp_conn] =
           [lport |-> DhcpClientPort, rport |-> DhcpServerPort, ripaddr |-> Broadcast]
  BY DEF DhcpParts, DhcpInv, DhcpConnInv
<1>2. [conns[dhcp_conn] EXCEPT !.lport = 0] =
        [lport |-> 0, rport |-> DhcpServerPort, ripaddr |-> Broadcast]
  BY <1>1
<1>3. conns' = [conns EXCEPT ![dhcp_conn] = [conns[dhcp_conn] EXCEPT !.lport = 0]]
  BY SMT
<1> QED BY <1>1, <1>2, <1>3

\* dhcp_request() returns 1, with the network and the servers as they were.
LEMMA FailInv ==
  ASSUME DhcpParts, Dhcp!Fail, dhcp_state' = "init",
         conns' = conns \/ (tftp_conn = 0 /\ conns' = [conns EXCEPT ![dhcp_conn].lport = 0]),
         dhcp_pc \in Dhcp!Waiting,
         UNCHANGED <<lastport, net, server_id, dhcp_out, my_ip, xids, attempts, offered, granted>>,
         UNCHANGED tftpVars
  PROVE  DhcpParts'
<1> USE DEF DhcpParts, DhcpInv
<1>1. dhcp_pc' = "failed" /\ dhcp_conn' = 0 /\ dhcp_in' = None /\ dhcp_in_ready' = FALSE
  BY DEF Dhcp!Fail
<1>2. UNCHANGED tftp_reads
  BY DEF tftpVars
<1>3. TP!IInv'
  <2>1. CASE conns' = [conns EXCEPT ![dhcp_conn].lport = 0]
    <3> DEFINE c == [lport |-> 0, rport |-> DhcpServerPort, ripaddr |-> Broadcast]
    <3>1. dhcp_conn \in Slots /\ conns' = [conns EXCEPT ![dhcp_conn] = c]
      BY <2>1, GivenUp
    <3>2. c \in [lport : {0, DhcpClientPort}, rport : {DhcpServerPort}, ripaddr : {Broadcast}]
      OBVIOUS
    <3> QED BY <3>1, <3>2, TftpUndisturbed
  <2> QED BY <2>1, TftpUndisturbed
<1>4. Dhcp!DhcpTypeOK'
  BY <1>1 DEF Dhcp!DhcpTypeOK
<1>5. PacketInv' /\ XidInv' /\ GrantInv' /\ OutInv' /\ InInv'
  BY <1>1 DEF PacketInv, XidInv, GrantInv, OutInv, InInv, Asked
<1>6. AttemptInv' /\ DhcpConnInv' /\ PortInv'
  BY <1>1, <1>2 DEF AttemptInv, DhcpConnInv, PortInv, Dhcp!Waiting
<1> QED BY <1>3, <1>4, <1>5, <1>6

LEMMA GotNakInv ==
  ASSUME DhcpParts, Dhcp!GotNak, UNCHANGED tftpVars
  PROVE  DhcpParts'
BY FailInv DEF Dhcp!GotNak, Dhcp!Waiting, Dhcp!dhcpServerVars

\* The request is a transaction of its own.
LEMMA GotOfferInv ==
  ASSUME DhcpParts, Dhcp!GotOffer, UNCHANGED tftpVars
  PROVE  DhcpParts'
<1> USE DEF DhcpParts, DhcpInv
<1>1. /\ dhcp_pc = "discover" /\ dhcp_in_ready
      /\ UNCHANGED <<conns, lastport, my_ip, attempts, offered, granted, tftp_reads>>
  BY DEF Dhcp!GotOffer, Dhcp!dhcpServerVars, tftpVars
<1>2. dhcp_in \in Offers /\ dhcp_state = "init"
  BY <1>1 DEF InInv, OutInv
<1>3. CASE /\ Dhcp!Fail
           /\ UNCHANGED <<net, dhcp_out, dhcp_state, server_id, xids>>
  BY <1>1, <1>2, <1>3, FailInv DEF Dhcp!Waiting
<1>4. CASE /\ dhcp_in.sid # "short"
           /\ server_id' \in
                IF dhcp_in.sid = "absent" THEN DhcpServers \cup {"garbage"} ELSE {dhcp_in.sid}
           /\ dhcp_state' = "requesting"
           /\ xids' = xids + 1
           /\ Dhcp!SendPacket(conns[dhcp_conn], Dhcp!Request(xids', dhcp_in.ip, server_id'))
           /\ dhcp_pc' = "request"
           /\ UNCHANGED <<dhcp_conn, dhcp_in>>
  <2> DEFINE p == [src |-> Me, sport |-> DhcpClientPort, dst |-> Broadcast, dport |-> DhcpServerPort,
                   data |-> dhcp_out']
  <2>1. dhcp_in.ip \in Addrs /\ dhcp_in.sid \in DhcpServers \cup {"absent", "short"}
    BY <1>2 DEF Offers
  <2>2. server_id' \in DhcpServers \cup {"garbage"}
    BY <1>4, <2>1
  <2>3. /\ dhcp_out' = Dhcp!Request(xids', dhcp_in.ip, server_id')
        /\ dhcp_in_ready' = FALSE
        /\ net' = net \cup {p}
    BY <1>1, <1>4 DEF Dhcp!SendPacket, Dhcp!Outgoing, DhcpConnInv, Dhcp!Waiting
  <2>4. xids \in Nat /\ xids' = xids + 1 /\ xids' \in 0 .. Dhcp!MaxXid /\ xids' <= 2 * attempts
    BY <1>1, <1>4, Counters DEF AttemptInv
  <2>5. /\ dhcp_out' \in Asks /\ dhcp_out'.type = "request" /\ dhcp_out'.op = "dhcp"
        /\ dhcp_out'.xid = xids' /\ dhcp_out'.sid = server_id'
        /\ p.data = dhcp_out' /\ p.dport = DhcpServerPort
    BY <2>1, <2>2, <2>3, <2>4 DEF Dhcp!Request, Asks
  <2>6. TP!IInv'
    <3>1. \A m \in net' : m \in net \/ (m.data.op = "dhcp" /\ m.dport = DhcpServerPort)
      BY <2>3, <2>5
    <3> QED BY <1>1, <3>1, TftpUndisturbed
  <2>7. Dhcp!DhcpTypeOK'
    <3>1. dhcp_out' \in Dhcp!Packets
      BY <2>5 DEF Asks, Dhcp!Packets
    <3> QED BY <1>1, <1>4, <2>2, <2>3, <2>4, <3>1 DEF Dhcp!DhcpTypeOK, Dhcp!Waiting
  <2>8. PacketInv'
    BY <2>3, <2>5 DEF PacketInv
  <2>9. \A m \in net : m.data.op = "dhcp" /\ m.data.type # "release" => m.data.xid \in 1 .. xids' - 1
    BY <2>4 DEF XidInv
  <2>10. XidInv'
    BY <1>4, <2>3, <2>4, <2>5, <2>9 DEF XidInv, Asked
  <2>11. GrantInv'
    BY <1>4, <2>3, <2>4, <2>5, <2>9 DEF GrantInv
  <2>12. OutInv' /\ InInv'
    BY <1>4, <2>3, <2>5 DEF OutInv, InInv, Asked
  <2>13. AttemptInv' /\ DhcpConnInv' /\ PortInv'
    BY <1>1, <1>4, <2>4, Counters DEF AttemptInv, DhcpConnInv, PortInv, Dhcp!Waiting
  <2> QED BY <2>6, <2>7, <2>8, <2>10, <2>11, <2>12, <2>13
<1> QED BY <1>3, <1>4 DEF Dhcp!GotOffer

\* The address is the one that was granted, and a connection is free again.
LEMMA GotAckInv ==
  ASSUME DhcpParts, Dhcp!GotAck, UNCHANGED tftpVars, tftp_conn = 0
  PROVE  /\ DhcpParts'
         /\ FreeSlots' # {}
         /\ dhcp_pc' = "bound" => my_ip' \in Addrs
<1> USE DEF DhcpParts, DhcpInv
<1>1. /\ dhcp_pc = "request" /\ dhcp_in_ready /\ dhcp_in.type # "nak"
      /\ conns' = [conns EXCEPT ![dhcp_conn].lport = 0]
      /\ dhcp_conn' = 0 /\ dhcp_in' = None /\ dhcp_in_ready' = FALSE
      /\ UNCHANGED <<lastport, net, dhcp_out, server_id, xids, attempts, offered, granted, tftp_reads>>
  BY DEF Dhcp!GotAck, Dhcp!UdpRemove, Dhcp!dhcpServerVars, tftpVars
<1>2. dhcp_in \in Acks /\ Granted(dhcp_in) /\ dhcp_in.ip \in Addrs
  <2>1. dhcp_in \in Acks
    BY <1>1 DEF InInv, Naks
  <2> QED BY <1>1, <2>1 DEF InInv, Acks
<1>3. FreeSlots' # {}
  <2>1. dhcp_conn \in Slots
    BY <1>1 DEF DhcpConnInv, Dhcp!Waiting
  <2>2. conns \in [Slots -> [lport : Nat, rport : Nat, ripaddr : {Broadcast, Server}]]
    BY SameUdp DEF TP!IInv, TP!SharedTypeOK
  <2>3. conns'[dhcp_conn].lport = 0
    BY <1>1, <2>1, <2>2
  <2> QED BY <2>1, <2>3 DEF FreeSlots
<1>4. CASE dhcp_state' = "init" /\ dhcp_pc' = "failed" /\ UNCHANGED my_ip
  <2>1. Dhcp!Fail
    BY <1>1, <1>4 DEF Dhcp!Fail
  <2> QED BY <1>1, <1>3, <1>4, <2>1, FailInv DEF Dhcp!Waiting
<1>5. CASE dhcp_state' = "bound" /\ dhcp_pc' = "bound" /\ my_ip' = dhcp_in.ip
  <2>1. TP!IInv'
    <3> DEFINE c == [lport |-> 0, rport |-> DhcpServerPort, ripaddr |-> Broadcast]
    <3>1. dhcp_conn \in Slots /\ conns' = [conns EXCEPT ![dhcp_conn] = c]
      BY <1>1, GivenUp DEF Dhcp!Waiting
    <3>2. c \in [lport : {0, DhcpClientPort}, rport : {DhcpServerPort}, ripaddr : {Broadcast}]
      OBVIOUS
    <3> QED BY <1>1, <3>1, <3>2, TftpUndisturbed
  <2>2. Dhcp!DhcpTypeOK'
    BY <1>1, <1>2, <1>5 DEF Dhcp!DhcpTypeOK
  <2>3. PacketInv' /\ XidInv'
    BY <1>1, <1>5 DEF PacketInv, XidInv, Asked
  <2>4. GrantInv'
    BY <1>1, <1>2, <1>5 DEF GrantInv, Granted, Asked
  <2>5. OutInv' /\ InInv'
    BY <1>1, <1>5 DEF OutInv, InInv, Asked
  <2>6. AttemptInv' /\ DhcpConnInv' /\ PortInv'
    BY <1>1, <1>5 DEF AttemptInv, DhcpConnInv, PortInv, Dhcp!Waiting
  <2> QED BY <1>2, <1>3, <1>5, <2>1, <2>2, <2>3, <2>4, <2>5, <2>6
<1> QED BY <1>4, <1>5 DEF Dhcp!GotAck

\* dhcp_release() sends one packet, which asks for no answer.
LEMMA DhcpReleaseInv ==
  ASSUME DhcpParts, Dhcp!DhcpRelease, UNCHANGED tftpVars, tftp_conn = 0, my_ip \in Addrs
  PROVE  DhcpParts' /\ dhcp_pc' \in {"released", "unreleased"} /\ UNCHANGED conns
<1> USE DEF DhcpParts, DhcpInv
<1>1. /\ dhcp_pc = "bound" /\ dhcp_pc' \in {"released", "unreleased"}
      /\ lastport' = NextPort
      /\ UNCHANGED <<conns, dhcp_in, dhcp_in_ready, dhcp_out, dhcp_conn, server_id,
                     my_ip, xids, attempts, offered, granted, tftp_reads>>
      /\ dhcp_state' \in {dhcp_state, "init"}
  BY SameUdp DEF Dhcp!DhcpRelease, Dhcp!dhcpServerVars, tftpVars
<1> DEFINE p == [src |-> Me, sport |-> DhcpClientPort, dst |-> server_id, dport |-> DhcpServerPort,
                 data |-> Dhcp!Release(my_ip)]
<1>2. net' = net \/ net' = net \cup {p}
  BY DEF Dhcp!DhcpRelease, Dhcp!Outgoing
<1>3. /\ p.data \in Asks /\ p.data.op = "dhcp" /\ p.data.type = "release" /\ p.dport = DhcpServerPort
  BY DEF Dhcp!Release, Asks
<1>4. ~dhcp_in_ready
  BY <1>1 DEF InInv, Dhcp!Waiting
<1>5. lastport + 1 < PortLimit
  BY <1>1, Counters DEF PortInv
<1>6. TP!IInv' /\ (UNCHANGED lastport \/ lastport' = lastport + 1)
  <2>1. \A m \in net' : m \in net \/ (m.data.op = "dhcp" /\ m.dport = DhcpServerPort)
    BY <1>2, <1>3
  <2> QED BY <1>1, <1>5, <2>1, TftpUndisturbed
<1>7. Dhcp!DhcpTypeOK'
  BY <1>1 DEF Dhcp!DhcpTypeOK
<1>8. PacketInv' /\ XidInv' /\ GrantInv'
  BY <1>1, <1>2, <1>3 DEF PacketInv, XidInv, GrantInv, Asked
<1>9. OutInv' /\ InInv'
  BY <1>1, <1>4 DEF OutInv, InInv, Asked
<1>10. AttemptInv' /\ DhcpConnInv'
  BY <1>1 DEF AttemptInv, DhcpConnInv, Dhcp!Waiting
<1>11. PortInv'
  BY <1>1, <1>6, Counters DEF PortInv
<1> QED BY <1>1, <1>6, <1>7, <1>8, <1>9, <1>10, <1>11

\* An offer is an answer to a discover.
LEMMA ServerOfferInv ==
  ASSUME DhcpParts, UNCHANGED tftpVars, NEW s \in DhcpServers, NEW m \in net,
         NEW rest \in Dhcp!Taken(m), m.data.op = "dhcp", Dhcp!ServerOffer(s, m, rest)
  PROVE  DhcpParts'
<1> USE DEF DhcpParts, DhcpInv
<1>1. /\ m.dport = DhcpServerPort /\ m.data.type = "discover" /\ rest \subseteq net
      /\ UNCHANGED <<conns, lastport, dhcp_pc, dhcp_state, dhcp_in, dhcp_in_ready, dhcp_out, dhcp_conn,
                     server_id, my_ip, xids, attempts, granted, tftp_reads>>
  BY DEF Dhcp!ServerOffer, Dhcp!Heard, Dhcp!Taken, Dhcp!dhcpClientVars, tftpVars
<1>2. PICK ip \in Addrs, sid \in {s} \cup Quirks :
        /\ offered' = [offered EXCEPT ![s] = ip]
        /\ net' = rest \cup {Dhcp!Answer(s, Dhcp!Reply("offer", m.data.xid, ip, sid, "good"))}
  BY DEF Dhcp!ServerOffer
<1> DEFINE x == m.data.xid
           p == Dhcp!Answer(s, Dhcp!Reply("offer", x, ip, sid, "good"))
<1>3. x \in 1 .. xids /\ x \in Nat /\ (x = xids => dhcp_pc \notin Asked)
  BY <1>1, Counters DEF XidInv
<1> HIDE DEF x
<1>4. /\ p.data \in Offers /\ p.data.op = "dhcp" /\ p.data.type = "offer" /\ p.data.xid = x
      /\ p.dport = DhcpClientPort
  BY <1>3 DEF Dhcp!Answer, Dhcp!Incoming, Dhcp!Reply, Offers
<1>5. net' = rest \cup {p}
  BY <1>2 DEF x
<1> HIDE DEF p
<1>6. TP!IInv'
  <2>1. \A n \in net' : n \in net \/ (n.data.op = "dhcp" /\ n.dport = DhcpClientPort)
    BY <1>1, <1>4, <1>5
  <2> QED BY <1>1, <2>1, TftpUndisturbed
<1>7. Dhcp!DhcpTypeOK' /\ PortInv'
  BY <1>1, <1>2 DEF Dhcp!DhcpTypeOK, PortInv
<1>8. PacketInv'
  BY <1>1, <1>4, <1>5 DEF PacketInv
<1>9. XidInv'
  BY <1>1, <1>3, <1>4, <1>5 DEF XidInv
<1>10. GrantInv'
  BY <1>1, <1>4, <1>5 DEF GrantInv, Granted
<1>11. OutInv' /\ InInv'
  BY <1>1 DEF OutInv, InInv, Granted
<1>12. AttemptInv' /\ DhcpConnInv'
  BY <1>1 DEF AttemptInv, DhcpConnInv
<1> QED BY <1>6, <1>7, <1>8, <1>9, <1>10, <1>11, <1>12

\* A request that is repeated is granted, or refused, once more; a grant is of what
\* the request names.
LEMMA ServerReplyInv ==
  ASSUME DhcpParts, UNCHANGED tftpVars, NEW s \in DhcpServers, NEW m \in net,
         NEW rest \in Dhcp!Taken(m), m.data.op = "dhcp", Dhcp!ServerReply(s, m, rest)
  PROVE  DhcpParts'
<1> USE DEF DhcpParts, DhcpInv
<1> DEFINE x == m.data.xid
           ip == m.data.ip
           grant == [server |-> s, ip |-> ip]
<1>1. /\ m.dport = DhcpServerPort /\ m.data.type = "request" /\ m.data.sid = s /\ rest \subseteq net
      /\ UNCHANGED <<conns, lastport, dhcp_pc, dhcp_state, dhcp_in, dhcp_in_ready, dhcp_out, dhcp_conn,
                     server_id, my_ip, xids, attempts, offered, tftp_reads>>
  BY DEF Dhcp!ServerReply, Dhcp!Heard, Dhcp!Taken, Dhcp!dhcpClientVars, tftpVars
<1>2. x \in 1 .. xids /\ x \in Nat /\ ip \in Addrs
  <2>1. m.data \in Asks
    BY <1>1 DEF PacketInv, Offers, Acks, Naks
  <2> QED BY <1>1, <2>1, Counters DEF XidInv, Asks
<1>3. x = xids => /\ dhcp_pc # "discover"
                  /\ dhcp_pc \in Asked => s = server_id /\ ip = dhcp_out.ip
  BY <1>1 DEF XidInv, OutInv
<1>4. PICK p : /\ net' = rest \cup {p} /\ p.dport = DhcpClientPort
               /\ p.data.op = "dhcp" /\ p.data.xid = x
               /\ \/ /\ granted' = [granted EXCEPT ![x] = grant]
                     /\ p.data \in Acks /\ p.data.type = "ack"
                     /\ p.data.sid = s /\ p.data.ip = ip
                  \/ /\ UNCHANGED granted
                     /\ p.data \in Naks /\ p.data.type = "nak"
  <2>1. ASSUME NEW opts \in {"good", "short"}
        PROVE  LET p == Dhcp!Answer(s, Dhcp!Reply("ack", x, ip, s, opts))
               IN  /\ p.dport = DhcpClientPort /\ p.data.op = "dhcp" /\ p.data.xid = x
                   /\ p.data \in Acks /\ p.data.type = "ack" /\ p.data.sid = s /\ p.data.ip = ip
    BY <1>2 DEF Dhcp!Answer, Dhcp!Incoming, Dhcp!Reply, Acks
  <2>2. LET p == Dhcp!Answer(s, Dhcp!Reply("nak", x, None, s, "good"))
        IN  /\ p.dport = DhcpClientPort /\ p.data.op = "dhcp" /\ p.data.xid = x
            /\ p.data \in Naks /\ p.data.type = "nak"
    BY <1>2 DEF Dhcp!Answer, Dhcp!Incoming, Dhcp!Reply, Naks
  <2> QED BY <2>1, <2>2 DEF Dhcp!ServerReply
<1> HIDE DEF x, ip
<1>5. grant \in [server : DhcpServers, ip : Addrs]
  BY <1>2
<1>6. granted \in [1 .. Dhcp!MaxXid -> [server : DhcpServers, ip : Addrs] \cup {None}]
      /\ xids \in 1 .. Dhcp!MaxXid /\ x \in 1 .. Dhcp!MaxXid
  BY SMTT(40), <1>2, Counters DEF Dhcp!DhcpTypeOK
\* The grant of the latest request is what that request asks for, every time.
<1>7. /\ x # xids => granted'[xids] = granted[xids]
      /\ p.data.type = "ack" /\ x = xids => granted'[xids] = grant
      /\ p.data.type = "nak" => granted' = granted
  BY <1>4, <1>6
<1>8. ASSUME dhcp_pc \in Asked, granted[xids] = [server |-> server_id, ip |-> dhcp_out.ip]
      PROVE  granted'[xids] = [server |-> server_id, ip |-> dhcp_out.ip]
  BY <1>3, <1>4, <1>7, <1>8
<1>9. TP!IInv'
  <2>1. \A n \in net' : n \in net \/ (n.data.op = "dhcp" /\ n.dport = DhcpClientPort)
    BY <1>1, <1>4
  <2> QED BY <1>1, <2>1, TftpUndisturbed
<1>10. Dhcp!DhcpTypeOK' /\ PortInv'
  <2>1. granted' \in [1 .. Dhcp!MaxXid -> [server : DhcpServers, ip : Addrs] \cup {None}]
    BY <1>4, <1>5, <1>6
  <2> QED BY <1>1, <2>1 DEF Dhcp!DhcpTypeOK, PortInv
<1>11. PacketInv'
  BY <1>1, <1>4 DEF PacketInv
<1>12. XidInv'
  BY <1>1, <1>2, <1>3, <1>4 DEF XidInv
<1>13. GrantInv'
  <2>1. dhcp_pc \in Asked /\ x = xids /\ p.data.type = "ack" => Granted(p.data)'
    BY <1>1, <1>3, <1>4, <1>7 DEF Granted
  <2>2. ASSUME dhcp_pc \in Asked, NEW n, Granted(n)
        PROVE  Granted(n)'
    BY <1>1, <1>8, <2>2 DEF Granted
  <2> QED BY <1>1, <1>4, <1>8, <2>1, <2>2 DEF GrantInv, Asked
<1>14. OutInv' /\ AttemptInv' /\ DhcpConnInv'
  BY <1>1 DEF OutInv, AttemptInv, DhcpConnInv
<1>15. InInv'
  BY <1>1, <1>8 DEF InInv, Granted, Asked
<1> QED BY <1>9, <1>10, <1>11, <1>12, <1>13, <1>14, <1>15

LEMMA DhcpServerInv ==
  ASSUME DhcpParts, UNCHANGED tftpVars, Dhcp!ServerStep
  PROVE  DhcpParts' /\ UNCHANGED <<conns, lastport, dhcp_pc, my_ip>>
<1>1. CASE Dhcp!ServerReceive
  BY <1>1, ServerOfferInv, ServerReplyInv
  DEF Dhcp!ServerReceive, Dhcp!ServerOffer, Dhcp!ServerReply, Dhcp!dhcpClientVars
<1>2. ASSUME NEW s \in DhcpServers, Dhcp!OfferExpires(s)
      PROVE  DhcpParts' /\ UNCHANGED <<conns, lastport, dhcp_pc, my_ip>>
  <2> USE DEF DhcpParts, DhcpInv
  <2>1. /\ UNCHANGED <<conns, lastport, net, dhcp_pc, dhcp_state, dhcp_in, dhcp_in_ready, dhcp_out,
                       dhcp_conn, server_id, my_ip, xids, attempts, granted, tftp_reads>>
        /\ offered' = [offered EXCEPT ![s] = None]
    BY <1>2 DEF Dhcp!OfferExpires, Dhcp!udpVars, Dhcp!dhcpClientVars, tftpVars
  <2>2. TP!IInv'
    BY <2>1, TftpUndisturbed
  <2>3. Dhcp!DhcpTypeOK' /\ PortInv'
    BY <2>1 DEF Dhcp!DhcpTypeOK, PortInv
  <2>4. PacketInv' /\ XidInv' /\ GrantInv' /\ OutInv' /\ InInv'
    BY <2>1 DEF PacketInv, XidInv, GrantInv, OutInv, InInv, Granted
  <2>5. AttemptInv' /\ DhcpConnInv'
    BY <2>1 DEF AttemptInv, DhcpConnInv
  <2> QED BY <2>1, <2>2, <2>3, <2>4, <2>5
<1> QED BY <1>1, <1>2 DEF Dhcp!ServerStep

-----------------------------------------------------------------------------
(***************************************************************************)
(* The steps of TFTP.                                                      *)
(***************************************************************************)
LEMMA DhcpPacketsStay ==
  ASSUME DhcpParts, TP!Next, UNCHANGED dhcpVars, dhcp_pc \notin Dhcp!Waiting \/ UNCHANGED conns
  PROVE  DhcpInv'
<1>1. \A m \in net' : m.data.op = "dhcp" => m \in net
  BY TftpPorts, TP!NewPackets
<1> QED BY <1>1, DhcpUndisturbed DEF DhcpParts

\* A call starts on a connection and a port of its own.
LEMMA ReadInv ==
  ASSUME DhcpParts, FreeSlots # {}, dhcp_pc = "bound", NEW f \in Files,
         Tftp!TftpRead(f), UNCHANGED dhcpVars
  PROVE  /\ DhcpParts'
         /\ tftp_status' = Tftp!Pending /\ tftp_file' = f
         /\ UNCHANGED session
<1>1. /\ tftp_status = Tftp!Idle /\ tftp_reads < MaxReads /\ tftp_reads' = tftp_reads + 1
      /\ lastport' = NextPort /\ tftp_status' = Tftp!Pending /\ tftp_file' = f
      /\ UNCHANGED session
  BY SameUdp DEF Tftp!TftpRead
<1>2. lastport + 1 < PortLimit
  BY <1>1, Counters DEF DhcpParts, PortInv
<1>3. TP!IInv'
  BY <1>2, SameRead, SameUdp, TftpPorts, TP!TftpReadInv DEF DhcpParts
<1>4. DhcpInv'
  BY SameRead, DhcpPacketsStay DEF TP!Next, TP!Client, Dhcp!Waiting
<1>5. lastport' = lastport + 1
  <2>1. tftp_conn = 0 /\ lastport \in TP!Ports /\ lastport + 1 \in TP!Ports
    BY <1>1, <1>2, Counters DEF DhcpParts, TP!IInv, TP!ConnInv, TP!Idle, Tftp!Idle, TP!Ports
  <2>2. \A s \in Slots : conns[s].lport # lastport + 1
    BY SMTT(40), <2>1, SameUdp DEF DhcpParts, TP!IInv, TP!ConnInv, TP!Elsewhere, Slots
  <2> QED BY <1>1, <1>2, <2>1, <2>2, SameUdp, TftpPorts, TP!FreshPort DEF DhcpParts, TP!IInv
<1>6. PortInv'
  BY <1>1, <1>5, Counters DEF DhcpParts, PortInv, dhcpVars
<1>7. Dhcp!DhcpTypeOK'
  BY DEF DhcpParts, Dhcp!DhcpTypeOK, dhcpVars
<1> QED BY <1>1, <1>3, <1>4, <1>6, <1>7 DEF DhcpParts

LEMMA PollStepInv ==
  ASSUME DhcpParts, dhcp_pc = "bound", UNCHANGED dhcpVars,
         Tftp!PollNothing \/ \E m \in net : Tftp!Poll(m)
  PROVE  /\ DhcpParts'
         /\ tftp_status' # Tftp!Idle
         /\ UNCHANGED <<session, tftp_file>>
<1>1. TP!PollNothing \/ \E m \in net : TP!Poll(m)
  BY SamePoll
<1>2. TP!IInv'
  BY <1>1, TftpPorts, TP!PollInv DEF DhcpParts
<1>3. DhcpInv'
  BY <1>1, DhcpPacketsStay DEF TP!Next, TP!Client, Dhcp!Waiting
<1>4. UNCHANGED <<session, lastport, tftp_file, tftp_reads, tftp_conn>> /\ tftp_status = TP!Pending
  BY <1>1 DEF TP!PollNothing, TP!Poll, TP!PollUnmatched, TP!PollMatched, TP!PollIgnored, TP!PollFailure,
     TP!PollBlock, TP!tftpVars, TP!clientVars
<1>5. PortInv' /\ Dhcp!DhcpTypeOK'
  BY <1>4 DEF DhcpParts, PortInv, Dhcp!DhcpTypeOK, dhcpVars
<1>6. tftp_status' # Tftp!Idle
  BY <1>2, <1>4 DEF DhcpParts, TP!IInv, TP!ConnInv, TP!Idle, Tftp!Idle, TP!Pending
<1> QED BY <1>2, <1>3, <1>4, <1>5, <1>6 DEF DhcpParts

\* A call gives its connection up.
LEMMA ReturnInv ==
  ASSUME DhcpParts, dhcp_pc = "bound", UNCHANGED dhcpVars, Tftp!TftpReturn
  PROVE  /\ DhcpParts'
         /\ FreeSlots' # {}
         /\ tftp_status' = Tftp!Idle
         /\ UNCHANGED <<session, tftp_file>>
         /\ tftp_dest \in Seq(Sessions \X Nat)
         /\ tftp_status = Tftp!Success => Sent(tftp_dest, tftp_file)
<1>1. TP!TftpReturn
  BY SameReturn
<1>2. TP!IInv'
  BY <1>1, TftpPorts, TP!TftpReturnInv DEF DhcpParts
<1>3. DhcpInv'
  BY <1>1, DhcpPacketsStay DEF TP!Next, TP!Client, Dhcp!Waiting
<1>4. /\ UNCHANGED <<session, lastport, tftp_reads, tftp_file>>
      /\ tftp_status \in {TP!Success, TP!Failure} /\ tftp_status' = Tftp!Idle
      /\ conns' = IF tftp_conn = 0 THEN conns ELSE [conns EXCEPT ![tftp_conn].lport = 0]
  BY <1>1 DEF TP!TftpReturn, TP!UdpRemove, TP!Idle, Tftp!Idle
<1>5. PortInv' /\ Dhcp!DhcpTypeOK'
  BY <1>4 DEF DhcpParts, PortInv, Dhcp!DhcpTypeOK, dhcpVars
<1>6. /\ tftp_conn \in Slots /\ tftp_conn # 0 /\ tftp_dest \in Seq(Sessions \X Nat)
      /\ conns \in [Slots -> [lport : Nat, rport : Nat, ripaddr : {Broadcast, Server}]]
  BY <1>4, SameUdp DEF DhcpParts, TP!IInv, TP!ConnInv, TP!SharedTypeOK, TP!Idle, TP!Success, TP!Failure
<1>7. FreeSlots' # {}
  <2>1. conns'[tftp_conn].lport = 0
    BY <1>4, <1>6
  <2> QED BY <1>6, <2>1 DEF FreeSlots
<1>8. tftp_status = Tftp!Success => Sent(tftp_dest, tftp_file)
  <2>1. TP!LastBlock(tftp_file) = Tftp!LastBlock(tftp_file) /\ TP!Success = Tftp!Success
    BY DEF TP!LastBlock, Tftp!LastBlock, TP!Success, Tftp!Success
  <2> QED BY <2>1, TftpPorts, TP!SuccessIsWhole DEF DhcpParts, Sent
<1> QED BY <1>2, <1>3, <1>4, <1>5, <1>6, <1>7, <1>8 DEF DhcpParts

LEMMA TftpServerInv ==
  ASSUME DhcpParts, UNCHANGED dhcpVars, Tftp!ServerStep
  PROVE  /\ DhcpParts'
         /\ UNCHANGED <<conns, lastport, tftp_status, tftp_file, tftp_reads>>
         /\ \A blocks, f : Sent(blocks, f) => Sent(blocks, f)'
<1>1. TP!ServerStep
  BY SameServer
<1>2. TP!IInv'
  BY <1>1, TftpPorts, TP!ServerStepInv DEF DhcpParts
<1>3. UNCHANGED <<conns, lastport, tftp_status, tftp_file, tftp_reads>>
  BY <1>1 DEF TP!ServerStep, TP!ServerReceive, TP!ServerAccept, TP!ServerAck, TP!ServerResend,
     TP!ServerStray, TP!clientVars
<1>4. DhcpInv'
  BY <1>1, <1>3, DhcpPacketsStay DEF TP!Next
<1>5. PortInv' /\ Dhcp!DhcpTypeOK'
  BY <1>3 DEF DhcpParts, PortInv, Dhcp!DhcpTypeOK, dhcpVars
<1>6. ASSUME NEW blocks, NEW f, Sent(blocks, f)
      PROVE  Sent(blocks, f)'
  <2>1. PICK t \in Sessions :
          session[t].open /\ session[t].file = f /\ blocks = [i \in 1 .. Tftp!LastBlock(f) |-> <<t, i>>]
    BY <1>6 DEF Sent
  <2>2. session'[t].open /\ session'[t].file = session[t].file
    BY <1>1, <2>1, TftpPorts, TP!OpenStays DEF DhcpParts, TP!Next
  <2> QED BY <2>1, <2>2 DEF Sent
<1> QED BY <1>2, <1>3, <1>4, <1>5, <1>6 DEF DhcpParts

-----------------------------------------------------------------------------
(***************************************************************************)
(* The steps of netboot().                                                 *)
(***************************************************************************)
LEMMA NetbootInit == Init => NInv
<1> SUFFICES ASSUME Init PROVE NInv
  OBVIOUS
<1> USE DEF Init, UdpInit, Dhcp!DhcpInit, Tftp!TftpInit
<1>1. TP!IInv
  BY InitIs
<1>2. NetbootTypeOK
  <2>1. 0 \in 0 .. Dhcp!MaxXid /\ 0 \in 0 .. MaxAttempts
    BY DEF Dhcp!MaxXid
  <2>2. payload \in Seq(Sessions \X Nat) /\ cmd_line \in Seq(Sessions \X Nat)
    OBVIOUS
  <2>3. Dhcp!DhcpTypeOK
    BY <2>1 DEF Dhcp!DhcpTypeOK
  <2> QED BY <2>2, <2>3 DEF NetbootTypeOK
<1>3. DhcpInv
  BY DEF DhcpInv, PacketInv, XidInv, GrantInv, OutInv, InInv, AttemptInv, DhcpConnInv, Asked, Dhcp!Waiting
<1>4. PlaceInv
  <2>1. \A t \in Sessions : ~session[t].open
    BY DEF Tftp!NoSession
  <2> QED BY <2>1 DEF PlaceInv, Bound, Reading, Dhcp!Waiting, Tftp!Idle
<1>5. PortInv
  <2>1. FirstPort <= FirstPort + 0 + 0 + 0 /\ 0 <= MaxReads
    OBVIOUS
  <2> QED BY <2>1 DEF PortInv
<1>6. NetbootHasSlot /\ LoadInv
  BY DEF NetbootHasSlot, LoadInv
<1> QED BY <1>1, <1>2, <1>3, <1>4, <1>5, <1>6 DEF NInv

LEMMA Parts == NInv => DhcpParts /\ (tftp_status = Tftp!Idle => tftp_conn = 0)
BY DEF NInv, DhcpParts, NetbootTypeOK, TP!IInv, TP!ConnInv, TP!Idle, Tftp!Idle

LEMMA DhcpStepInv ==
  ASSUME NInv, DhcpStep
  PROVE  NInv'
<1>1. /\ nb_pc = "dhcp" /\ nb_pc' = (IF dhcp_pc' = "bound" THEN "bootfile" ELSE "dhcp")
      /\ UNCHANGED <<tftpVars, payload, cmd_line>> /\ UNCHANGED <<tftp_status, session>>
  BY DEF DhcpStep, tftpVars
<1>2. DhcpParts /\ tftp_conn = 0 /\ dhcp_pc \in Dhcp!Waiting \cup {"idle", "failed"}
  BY <1>1, Parts DEF NInv, PlaceInv, Reading
<1>3. ASSUME \/ Dhcp!DhcpRequest \/ Dhcp!DhcpResend \/ Dhcp!GotOffer \/ Dhcp!GotNak
             \/ \E m \in net : Dhcp!DhcpPoll(m)
      PROVE  DhcpParts' /\ dhcp_pc' \in Dhcp!Waiting \cup {"idle", "failed"}
  <2>1. CASE Dhcp!DhcpRequest
    BY <1>1, <1>2, <2>1, DhcpRequestInv DEF Dhcp!DhcpRequest, Dhcp!Waiting
  <2>2. CASE Dhcp!DhcpResend
    BY <1>1, <1>2, <2>2, DhcpResendInv DEF Dhcp!DhcpResend, Dhcp!dhcpVars, Dhcp!dhcpClientVars
  <2>3. CASE Dhcp!GotOffer
    BY <1>1, <1>2, <2>3, GotOfferInv DEF Dhcp!GotOffer, Dhcp!Fail, Dhcp!Waiting
  <2>4. CASE Dhcp!GotNak
    BY <1>1, <1>2, <2>4, GotNakInv DEF Dhcp!GotNak, Dhcp!Fail, Dhcp!Waiting
  <2>5. CASE \E m \in net : Dhcp!DhcpPoll(m)
    <3>1. PICK m \in net : Dhcp!DhcpPoll(m)
      BY <2>5
    <3>2. m.data.op = "dhcp"
      BY <1>1 DEF NInv, PlaceInv
    <3> QED BY <1>1, <1>2, <3>1, <3>2, DhcpPollInv DEF Dhcp!DhcpPoll
  <2> QED BY <1>3, <2>1, <2>2, <2>3, <2>4, <2>5
<1>4. ASSUME Dhcp!GotAck
      PROVE  DhcpParts' /\ dhcp_pc' \in {"bound", "failed"} /\ FreeSlots' # {}
             /\ (dhcp_pc' = "bound" => my_ip' \in Addrs)
  BY <1>1, <1>2, <1>4, GotAckInv DEF Dhcp!GotAck
<1>5. /\ DhcpParts'
      /\ dhcp_pc' = "bound" => FreeSlots' # {} /\ my_ip' \in Addrs
      /\ dhcp_pc' # "bound" => dhcp_pc' \in Dhcp!Waiting \cup {"idle", "failed"}
  BY <1>3, <1>4 DEF DhcpStep, Dhcp!Waiting
<1>6. \A m \in net' : m.data.op = "dhcp"
  <2>1. \A m \in net : m.data.op = "dhcp"
    BY <1>1 DEF NInv, PlaceInv
  <2>2. ASSUME NEW c, NEW data, data.op = "dhcp", Dhcp!SendPacket(c, data)
        PROVE  \A m \in net' : m.data.op = "dhcp"
    BY <2>1, <2>2 DEF Dhcp!SendPacket, Dhcp!Outgoing
  <2>3. CASE Dhcp!DhcpRequest
    BY <2>1, <2>2, <2>3 DEF Dhcp!DhcpRequest, Dhcp!Discover
  <2>4. CASE Dhcp!DhcpResend
    <3>1. dhcp_out.op = "dhcp"
      BY <1>2, <2>4 DEF DhcpParts, DhcpInv, OutInv, Asked, Asks, Dhcp!DhcpResend, Dhcp!Waiting,
         Dhcp!Discover
    <3> QED BY <2>1, <2>4, <3>1 DEF Dhcp!DhcpResend, Dhcp!Outgoing
  <2>5. CASE Dhcp!GotOffer
    BY <2>1, <2>2, <2>5 DEF Dhcp!GotOffer, Dhcp!Request
  <2>6. CASE Dhcp!GotNak \/ Dhcp!GotAck
    BY <2>1, <2>6 DEF Dhcp!GotNak, Dhcp!GotAck
  <2>7. CASE \E m \in net : Dhcp!DhcpPoll(m)
    BY <2>1, <2>7 DEF Dhcp!DhcpPoll, Dhcp!Taken
  <2> QED BY <2>3, <2>4, <2>5, <2>6, <2>7 DEF DhcpStep
<1>7. NetbootTypeOK'
  BY <1>1, <1>5 DEF NInv, NetbootTypeOK, DhcpParts
<1>8. PlaceInv'
  BY <1>1, <1>5, <1>6 DEF NInv, PlaceInv, Bound, Reading
<1>9. NetbootHasSlot'
  BY <1>1, <1>5 DEF NetbootHasSlot
<1>10. LoadInv'
  BY <1>1 DEF NInv, LoadInv
<1> QED BY <1>5, <1>7, <1>8, <1>9, <1>10 DEF NInv, DhcpParts

LEMMA TftpStepInv ==
  ASSUME NInv, TftpStep
  PROVE  NInv'
<1>1. UNCHANGED <<dhcpVars, payload, cmd_line>> /\ UNCHANGED <<dhcp_pc, my_ip>>
  BY DEF TftpStep, dhcpVars
<1>2. DhcpParts
  BY Parts
<1>3. ASSUME NEW f \in Files, Tftp!TftpRead(f),
             \/ nb_pc = "bootfile" /\ f = bootfile /\ nb_pc' = "reading"
             \/ nb_pc = "args" /\ f \in ArgsFiles \ {None} /\ nb_pc' = "reading args"
      PROVE  NInv'
  <2>1. dhcp_pc = "bound" /\ my_ip \in Addrs /\ FreeSlots # {}
    BY <1>3 DEF NInv, PlaceInv, Bound, NetbootHasSlot
  <2>2. DhcpParts' /\ tftp_status' = Tftp!Pending /\ tftp_file' = f /\ UNCHANGED session
    BY <1>1, <1>2, <1>3, <2>1, ReadInv
  <2>3. NetbootTypeOK'
    BY <1>1, <1>3, <2>2 DEF NInv, NetbootTypeOK, DhcpParts
  <2>4. PlaceInv'
    BY <1>1, <1>3, <2>1, <2>2 DEF PlaceInv, Bound, Reading, Tftp!Pending, Tftp!Idle
  <2>5. NetbootHasSlot'
    BY <1>3 DEF NetbootHasSlot
  <2>6. LoadInv'
    BY <1>1, <1>3, <2>2 DEF NInv, LoadInv, Sent
  <2> QED BY <2>2, <2>3, <2>4, <2>5, <2>6 DEF NInv, DhcpParts
<1>4. CASE StartRead
  <2>1. bootfile \in Files /\ ArgsFiles \ {None} \subseteq Files
    OBVIOUS
  <2> QED BY <1>3, <1>4, <2>1 DEF StartRead
<1>5. CASE ReadStep
  <2>1. nb_pc \in Reading /\ UNCHANGED nb_pc
    BY <1>5 DEF ReadStep, Reading
  <2>2. dhcp_pc = "bound" /\ my_ip \in Addrs
    BY <2>1 DEF NInv, PlaceInv, Bound, Reading
  <2>3. DhcpParts' /\ tftp_status' # Tftp!Idle /\ UNCHANGED <<session, tftp_file>>
    BY <1>1, <1>2, <1>5, <2>2, PollStepInv DEF ReadStep
  <2>4. NetbootTypeOK'
    BY <1>1, <2>1, <2>3 DEF NInv, NetbootTypeOK, DhcpParts
  <2>5. PlaceInv'
    BY <1>1, <2>1, <2>2, <2>3 DEF NInv, PlaceInv, Bound, Reading
  <2>6. NetbootHasSlot'
    BY <2>1 DEF NetbootHasSlot, Reading
  <2>7. LoadInv'
    BY <1>1, <2>1, <2>3 DEF NInv, LoadInv, Sent
  <2> QED BY <2>3, <2>4, <2>5, <2>6, <2>7 DEF NInv, DhcpParts
<1> QED BY <1>4, <1>5 DEF TftpStep

LEMMA BootfileReturnsInv ==
  ASSUME NInv, BootfileReturns
  PROVE  NInv'
<1>1. /\ nb_pc = "reading" /\ payload' = tftp_dest /\ UNCHANGED cmd_line
      /\ nb_pc' = (IF tftp_status = Tftp!Success THEN "args" ELSE "giving up")
      /\ UNCHANGED dhcpVars /\ UNCHANGED <<dhcp_pc, my_ip>> /\ Tftp!TftpReturn
  BY DEF BootfileReturns, ReadOk, dhcpVars
<1>2. DhcpParts /\ dhcp_pc = "bound" /\ my_ip \in Addrs /\ tftp_file = bootfile /\ cmd_line = <<>>
  BY <1>1, Parts DEF NInv, PlaceInv, Bound, LoadInv
<1>3. /\ DhcpParts' /\ FreeSlots' # {} /\ tftp_status' = Tftp!Idle /\ UNCHANGED session
      /\ tftp_dest \in Seq(Sessions \X Nat)
      /\ tftp_status = Tftp!Success => Sent(tftp_dest, bootfile)
  BY <1>1, <1>2, ReturnInv
<1>4. NetbootTypeOK'
  BY <1>1, <1>3 DEF NInv, NetbootTypeOK, DhcpParts
<1>5. PlaceInv'
  BY <1>1, <1>2, <1>3 DEF PlaceInv, Bound, Reading
<1>6. NetbootHasSlot'
  BY <1>3 DEF NetbootHasSlot
<1>7. LoadInv'
  BY <1>1, <1>2, <1>3 DEF LoadInv, Sent
<1> QED BY <1>3, <1>4, <1>5, <1>6, <1>7 DEF NInv, DhcpParts

LEMMA ArgsReturnInv ==
  ASSUME NInv, TP!SizeIsExact, ArgsReturn
  PROVE  NInv'
<1>1. /\ nb_pc = "reading args" /\ UNCHANGED payload /\ nb_pc' \in {"release", "overrun"}
      /\ nb_pc' = "overrun" => tftp_status = Tftp!Success /\ tftp_total_size = 0
      /\ cmd_line' = (IF tftp_status = Tftp!Success THEN tftp_dest
                      ELSE IF HasArgs THEN FromArgs ELSE tftp_dest)
      /\ UNCHANGED dhcpVars /\ UNCHANGED <<dhcp_pc, my_ip>> /\ Tftp!TftpReturn
  BY DEF ArgsReturn, Strip, ReadOk, ArgsFallback, dhcpVars
<1>2. /\ DhcpParts /\ dhcp_pc = "bound" /\ my_ip \in Addrs
      /\ tftp_file \in ArgsFiles \ {None} /\ Sent(payload, bootfile)
  BY <1>1, Parts DEF NInv, PlaceInv, Bound, LoadInv
<1>3. /\ DhcpParts' /\ FreeSlots' # {} /\ tftp_status' = Tftp!Idle /\ UNCHANGED session
      /\ tftp_dest \in Seq(Sessions \X Nat) /\ UNCHANGED tftp_file
      /\ tftp_status = Tftp!Success => Sent(tftp_dest, tftp_file)
  BY <1>1, <1>2, ReturnInv
<1>4. NetbootTypeOK'
  BY <1>1, <1>3 DEF NInv, NetbootTypeOK, DhcpParts
<1>5. PlaceInv'
  BY <1>1, <1>2, <1>3 DEF PlaceInv, Bound, Reading
<1>6. NetbootHasSlot'
  BY <1>3 DEF NetbootHasSlot
<1>7. nb_pc' = "overrun" => FileSize[tftp_file] = 0
  BY <1>1 DEF TP!SizeIsExact, TP!Success, Tftp!Success
<1>8. LoadInv'
  BY <1>1, <1>2, <1>3, <1>7 DEF LoadInv, Sent
<1> QED BY <1>3, <1>4, <1>5, <1>6, <1>8 DEF NInv, DhcpParts

\* Nothing but netboot() itself has moved.
LEMMA Undisturbed ==
  ASSUME NInv, UNCHANGED <<udpVars, dhcpVars, tftpVars>>
  PROVE  DhcpParts'
<1>1. DhcpParts /\ UNCHANGED <<conns, lastport, net, tftp_reads, attempts, dhcp_pc>>
  BY Parts DEF udpVars, tftpVars, dhcpVars
<1>2. TP!IInv'
  BY <1>1, TftpUndisturbed DEF DhcpParts
<1>3. DhcpInv'
  BY <1>1, DhcpUndisturbed DEF DhcpParts
<1>4. PortInv' /\ Dhcp!DhcpTypeOK'
  BY <1>1 DEF DhcpParts, PortInv, Dhcp!DhcpTypeOK, dhcpVars
<1> QED BY <1>2, <1>3, <1>4 DEF DhcpParts

LEMMA NoArgsFileInv ==
  ASSUME NInv, NoArgsFile
  PROVE  NInv'
<1>1. /\ nb_pc = "args" /\ nb_pc' = "release" /\ UNCHANGED payload
      /\ cmd_line' = (IF HasArgs THEN FromArgs ELSE cmd_line)
      /\ UNCHANGED <<udpVars, dhcpVars, tftpVars>>
      /\ UNCHANGED <<dhcp_pc, my_ip, tftp_status, session, conns>>
  BY DEF NoArgsFile, ArgsFallback, dhcpVars, tftpVars, udpVars
<1>2. DhcpParts'
  BY <1>1, Undisturbed
<1>3. NetbootTypeOK'
  BY <1>1, <1>2 DEF NInv, NetbootTypeOK, DhcpParts
<1>4. PlaceInv'
  BY <1>1 DEF NInv, PlaceInv, Bound, Reading
<1>5. NetbootHasSlot'
  BY <1>1 DEF NInv, NetbootHasSlot, FreeSlots
<1>6. LoadInv'
  BY <1>1 DEF NInv, LoadInv, Sent
<1> QED BY <1>2, <1>3, <1>4, <1>5, <1>6 DEF NInv, DhcpParts

LEMMA ReleaseStepInv ==
  ASSUME NInv, ReleaseStep
  PROVE  NInv'
<1>1. /\ nb_pc \in {"release", "giving up"} /\ nb_pc' \in {"boot", "returned", "halted"}
      /\ nb_pc = "giving up" => nb_pc' = "halted"
      /\ Dhcp!DhcpRelease
      /\ UNCHANGED <<tftpVars, payload, cmd_line>> /\ UNCHANGED <<tftp_status, tftp_file, session>>
  BY DEF ReleaseStep, tftpVars
<1>2. DhcpParts /\ tftp_conn = 0 /\ my_ip \in Addrs /\ tftp_status = Tftp!Idle
  BY <1>1, Parts DEF NInv, PlaceInv, Reading, Bound
<1>3. DhcpParts' /\ dhcp_pc' \in {"released", "unreleased"} /\ UNCHANGED conns
  BY <1>1, <1>2, DhcpReleaseInv
<1>4. NetbootTypeOK'
  BY <1>1, <1>3 DEF NInv, NetbootTypeOK, DhcpParts
<1>5. PlaceInv'
  BY <1>1, <1>2, <1>3 DEF PlaceInv, Bound, Reading
<1>6. NetbootHasSlot'
  BY <1>1 DEF NetbootHasSlot
<1>7. LoadInv'
  BY <1>1 DEF NInv, LoadInv, Sent
<1> QED BY <1>3, <1>4, <1>5, <1>6, <1>7 DEF NInv, DhcpParts

LEMMA EnvironmentInv ==
  ASSUME NInv, Environment
  PROVE  NInv'
<1>1. UNCHANGED <<nb_pc, payload, cmd_line>>
  BY DEF Environment, netbootVars
<1>2. ASSUME DhcpParts', UNCHANGED <<conns, dhcp_pc, my_ip, tftp_status, tftp_file>>,
             nb_pc = "dhcp" => (\A m \in net' : m.data.op = "dhcp"),
             nb_pc = "dhcp" => (\A t \in Sessions : ~session'[t].open),
             \A blocks, f : Sent(blocks, f) => Sent(blocks, f)'
      PROVE  NInv'
  <2>1. NetbootTypeOK'
    BY <1>1, <1>2 DEF NInv, NetbootTypeOK, DhcpParts
  <2>2. PlaceInv'
    BY <1>1, <1>2 DEF NInv, PlaceInv
  <2>3. NetbootHasSlot'
    BY <1>1, <1>2 DEF NInv, NetbootHasSlot, FreeSlots
  <2>4. LoadInv'
    BY <1>1, <1>2 DEF NInv, LoadInv
  <2> QED BY <1>2, <2>1, <2>2, <2>3, <2>4 DEF NInv, DhcpParts
<1>3. CASE Dhcp!ServerStep /\ UNCHANGED tftpVars
  <2>1. DhcpParts' /\ UNCHANGED <<conns, lastport, dhcp_pc, my_ip>>
    BY <1>3, Parts, DhcpServerInv
  <2>2. UNCHANGED <<tftp_status, tftp_file, session>>
    BY <1>3 DEF tftpVars
  <2>3. nb_pc = "dhcp" => (\A m \in net' : m.data.op = "dhcp")
    <3>1. \A m \in net' : m \in net \/ m.data.op = "dhcp"
      <4>1. ASSUME NEW m, NEW rest \in Dhcp!Taken(m), NEW s,
                   Dhcp!ServerOffer(s, m, rest) \/ Dhcp!ServerReply(s, m, rest),
                   NEW n \in net'
            PROVE  n \in net \/ n.data.op = "dhcp"
        <5>1. rest \subseteq net
          BY DEF Dhcp!Taken
        <5>2. PICK type, x, ip, sid, opts :
                net' = rest \cup {Dhcp!Answer(s, Dhcp!Reply(type, x, ip, sid, opts))}
          BY <4>1 DEF Dhcp!ServerOffer, Dhcp!ServerReply
        <5> QED BY <5>1, <5>2 DEF Dhcp!Answer, Dhcp!Incoming, Dhcp!Reply
      <4> QED BY <1>3, <4>1 DEF Dhcp!ServerStep, Dhcp!ServerReceive, Dhcp!OfferExpires, Dhcp!udpVars
    <3> QED BY <3>1 DEF NInv, PlaceInv
  <2> QED BY <1>2, <2>1, <2>2, <2>3 DEF NInv, PlaceInv, Sent
<1>4. CASE Tftp!ServerStep /\ UNCHANGED dhcpVars
  <2>1. /\ DhcpParts'
        /\ UNCHANGED <<conns, lastport, tftp_status, tftp_file, tftp_reads>>
        /\ \A blocks, f : Sent(blocks, f) => Sent(blocks, f)'
    BY <1>4, Parts, TftpServerInv
  <2>2. UNCHANGED <<dhcp_pc, my_ip>>
    BY <1>4 DEF dhcpVars
  <2>3. nb_pc # "dhcp"
    <3> SUFFICES ASSUME nb_pc = "dhcp" PROVE FALSE
      OBVIOUS
    <3>1. (\A m \in net : m.data.op = "dhcp") /\ (\A t \in Sessions : ~session[t].open)
      BY DEF NInv, PlaceInv
    <3> QED BY <1>4, <3>1 DEF Tftp!ServerStep, Tftp!ServerReceive, Tftp!ServerAccept, Tftp!ServerAck,
         Tftp!ServerResend, Tftp!ServerStray
  <2> QED BY <1>2, <2>1, <2>2, <2>3
<1>5. CASE Lose /\ UNCHANGED <<dhcpVars, tftpVars>>
  <2>1. /\ net' \subseteq net
        /\ UNCHANGED <<conns, lastport, dhcp_pc, my_ip, attempts, tftp_status, tftp_file,
                       tftp_reads, session>>
    BY <1>5 DEF Lose, dhcpVars, tftpVars
  <2>2. TP!IInv'
    BY <1>5, <2>1, Parts, TftpUndisturbed DEF DhcpParts
  <2>3. DhcpInv'
    BY <1>5, <2>1, Parts, DhcpUndisturbed DEF DhcpParts
  <2>4. PortInv' /\ Dhcp!DhcpTypeOK'
    BY <1>5, <2>1, Parts DEF DhcpParts, PortInv, Dhcp!DhcpTypeOK, dhcpVars
  <2>5. DhcpParts'
    BY <2>2, <2>3, <2>4 DEF DhcpParts
  <2> QED BY <1>2, <2>1, <2>5 DEF NInv, PlaceInv, Sent
<1> QED BY <1>3, <1>4, <1>5 DEF Environment

\* Each call counts what it copies, as TftpProofs shows; there is a connection for it.
LEMMA SizeStepInv ==
  ASSUME NInv, TP!SizeIsExact, [Next]_vars
  PROVE  TP!SizeIsExact'
<1> USE DEF TP!SizeIsExact, TP!Success, TP!Pending, TP!Idle
<1>1. TP!IInv
  BY DEF NInv
<1>2. ASSUME NEW f \in Files, Tftp!TftpRead(f), nb_pc \in {"bootfile", "args"}
      PROVE  TP!SizeIsExact'
  <2>1. TP!FreeSlots # {}
    BY <1>2, SameUdp DEF NInv, NetbootHasSlot
  <2> QED BY <1>1, <1>2, <2>1, SameRead, TftpPorts, TP!SizeStep DEF TP!Next, TP!Client
<1>3. CASE ReadStep
  <2>1. TP!PollNothing \/ \E m \in net : TP!Poll(m)
    BY <1>3, SamePoll DEF ReadStep
  <2>2. tftp_status # TP!Idle
    BY <1>3 DEF ReadStep, NInv, PlaceInv, Reading, Tftp!Idle
  <2> QED BY <1>1, <2>1, <2>2, TftpPorts, TP!SizeStep DEF TP!Next, TP!Client
<1>4. CASE Tftp!TftpReturn
  BY <1>4 DEF Tftp!TftpReturn, Tftp!Idle
<1>5. CASE Tftp!ServerStep
  BY <1>5, SameServer DEF TP!ServerStep, TP!ServerReceive, TP!ServerAccept, TP!ServerAck,
     TP!ServerResend, TP!ServerStray, TP!clientVars
<1>6. CASE UNCHANGED tftpVars
  BY <1>6 DEF tftpVars
<1>7. CASE StartRead
  BY <1>2, <1>7 DEF StartRead
<1> QED BY <1>3, <1>4, <1>5, <1>6, <1>7 DEF Next, Client, DhcpStep, TftpStep, BootfileReturns,
        ArgsReturn, NoArgsFile, ReleaseStep, Environment, vars

LEMMA NetbootInvariance == Spec => [](NInv /\ TP!SizeIsExact)
<1>1. NInv /\ TP!SizeIsExact /\ [Next]_vars => NInv'
  <2> SUFFICES ASSUME NInv, TP!SizeIsExact, [Next]_vars PROVE NInv'
    OBVIOUS
  <2>1. CASE UNCHANGED vars
    <3>1. DhcpParts' /\ UNCHANGED <<conns, net, dhcp_pc, my_ip, tftp_status, tftp_file, session,
                                    nb_pc, payload, cmd_line>>
      BY <2>1, Undisturbed DEF vars, udpVars, dhcpVars, tftpVars, netbootVars
    <3>2. NetbootTypeOK' /\ PlaceInv'
      BY <3>1 DEF NInv, NetbootTypeOK, DhcpParts, PlaceInv
    <3>3. NetbootHasSlot' /\ LoadInv'
      BY <3>1 DEF NInv, NetbootHasSlot, FreeSlots, LoadInv, Sent
    <3> QED BY <3>1, <3>2, <3>3 DEF NInv, DhcpParts
  <2>2. CASE Client
    BY <2>2, DhcpStepInv, TftpStepInv, BootfileReturnsInv, ArgsReturnInv, NoArgsFileInv, ReleaseStepInv
    DEF Client
  <2>3. CASE Environment
    BY <2>3, EnvironmentInv
  <2> QED BY <2>1, <2>2, <2>3 DEF Next
<1>2. Init => TP!SizeIsExact
  BY DEF Init, Tftp!TftpInit, TP!SizeIsExact, Tftp!Idle, TP!Success, TP!Pending
<1>3. NInv /\ TP!SizeIsExact /\ [Next]_vars => TP!SizeIsExact'
  BY SizeStepInv
<1> QED BY <1>1, <1>2, <1>3, NetbootInit, PTL DEF Spec

-----------------------------------------------------------------------------
(***************************************************************************)
(* The theorems.                                                           *)
(***************************************************************************)

\* Every variable of netboot() and of the DHCP client keeps its type.
THEOREM NetbootTypeCorrect == Spec => []NetbootTypeOK
<1>1. NInv => NetbootTypeOK
  BY DEF NInv
<1> QED BY <1>1, NetbootInvariance, PTL

\* However many attempts were refused and left a connection behind, once an address
\* is granted there is one for every later step.
THEOREM NetbootFindsSlot == Spec => []NetbootHasSlot
<1>1. NInv => NetbootHasSlot
  BY DEF NInv
<1> QED BY <1>1, NetbootInvariance, PTL

\* While netboot() goes on with an address, it is the one granted by the server that
\* the last request named, in answer to that request.
THEOREM AddressIsGranted == Spec => []BoundToGrant
<1>1. NInv => BoundToGrant
  BY DEF NInv, DhcpInv, GrantInv, OutInv, Asked, BoundToGrant, Dhcp!BoundToGrant
<1> QED BY <1>1, NetbootInvariance, PTL

\* The kernel that is started is all of the boot file, and the command line all of the
\* file named for it or the parameter, unless there is a file for it and no parameter to
\* fall back to: then it may be the part of the file that had arrived.  The files are of
\* any size: for an empty one the code may leave its buffer, and only for that.
THEOREM BootsWholeFiles == HasArgs \/ ArgsFiles \subseteq {None} => (Spec => []BootsWhole)
<1> SUFFICES ASSUME HasArgs \/ ArgsFiles \subseteq {None}
             PROVE  Spec => []BootsWhole
  OBVIOUS
<1>1. NInv => BootsWhole
  <2>1. \A blocks, f : Sent(blocks, f) => WholeFile(blocks, f)
    BY DEF Sent, WholeFile
  <2> QED BY <2>1 DEF NInv, LoadInv, BootsWhole
<1> QED BY <1>1, NetbootInvariance, PTL
=============================================================================
