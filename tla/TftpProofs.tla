----------------------------- MODULE TftpProofs -----------------------------
(***************************************************************************)
(* Proofs about Tftp: for every number of calls, sessions and files, every *)
(* size and every width of a block number, what tftp_read() has copied is  *)
(* the start of the file it was asked for.                                 *)
(***************************************************************************)
EXTENDS Tftp, TLAPS, WellFoundedInduction

USE DEF TftpConstants

-----------------------------------------------------------------------------
(***************************************************************************)
(* The inductive invariant.  Prefix safety rests on three facts that the   *)
(* code never states: local ports are never reused, so nothing of an       *)
(* earlier call reaches this one; the connection is unbound exactly while  *)
(* the first block is awaited; and no session of this call is ahead of the *)
(* client, so a block number never reappears before the 16 bits wrap.      *)
(*                                                                         *)
(* It allows for what DHCP leaves behind when netboot() runs one client    *)
(* after the other: connections that tftp_read() does not own and packets  *)
(* that no port of its own can receive.                                    *)
(***************************************************************************)
Active == tftp_conn # 0

\* A session of the current call.
Mine(t) == session[t].open /\ session[t].port = lastport

\* The ports that uip_udp_new() hands out; a connection and a packet that have none.
Ports == FirstPort .. PortLimit
Elsewhere(c) == c.lport \notin Ports /\ (c.lport # 0 => c.rport # 0)
Foreign(m) == m.data.op = "dhcp" /\ (m.dst = Me => m.dport \notin Ports)

SharedTypeOK ==
  /\ conns \in [Slots -> [lport : Nat, rport : Nat, ripaddr : {Broadcast, Server}]]
  /\ lastport \in Nat
  /\ \A m \in net : m \in Datagrams \/ Foreign(m)
  /\ tftp_status \in {Idle, Pending, Success, Failure}
  /\ tftp_blocknum \in Nat
  /\ tftp_total_size \in Nat
  /\ tftp_dest \in Seq(Sessions \X Nat)
  /\ tftp_conn \in {0} \cup Slots
  /\ tftp_file \in Files
  /\ tftp_reads \in Nat
  /\ session \in [Sessions -> SessionStates]

\* tftp_read() has the only connection on such a port, and it is the latest.
ConnInv ==
  /\ lastport \in Ports
  /\ tftp_status = Idle <=> tftp_conn = 0
  /\ \A s \in Slots : s # tftp_conn => Elsewhere(conns[s])
  /\ Active => LocalPort = lastport /\ conns[tftp_conn].ripaddr = Server

\* What comes back goes to a port that was handed out.
ReplyInv ==
  \A m \in net : m.dst = Me => Foreign(m) \/ m.dport \in FirstPort .. lastport

\* What is in flight.
DataInv ==
  \A m \in net : m.data.op = "data" =>
    /\ m.src = Server /\ m.dst = Me
    /\ m.sport \in Sessions
    /\ session[m.sport].open
    /\ session[m.sport].port = m.dport
    /\ m.data.len <= MaxBlockSize =>
         /\ m.data.blk \in 1 .. session[m.sport].blk
         /\ m.data.len = BlockLen(session[m.sport].file, m.data.blk)

AckInv ==
  \A m \in net : m.data.op = "ack" =>
    /\ m.sport <= lastport
    /\ Active /\ m.sport = lastport =>
         /\ tftp_blocknum > 1
         /\ m.dport = RemotePort
         /\ m.data.wire \in 1 .. tftp_blocknum - 1

RequestInv ==
  \A m \in net : m.data.op = "rrq" =>
    /\ m.sport \in FirstPort .. lastport
    /\ Active /\ m.sport = lastport => m.data.file = tftp_file

\* The server's sessions.
SessionInv ==
  \A t \in Sessions :
    /\ session[t].port <= lastport
    /\ session[t].open => session[t].port >= FirstPort
    /\ session[t].open => session[t].blk \in 1 .. LastBlock(session[t].file)
    /\ Active /\ Mine(t) =>
         /\ session[t].file = tftp_file
         /\ session[t].blk <= (IF t = RemotePort THEN tftp_blocknum ELSE 1)

\* The client.
ClientInv ==
  Active =>
    /\ tftp_blocknum \in 1 .. Wire
    /\ tftp_blocknum = 1 => RemotePort = 0
    /\ tftp_blocknum > 1 =>
         /\ RemotePort \in Sessions
         /\ Mine(RemotePort)
         /\ session[RemotePort].blk >= tftp_blocknum - 1
         /\ tftp_blocknum <= LastBlock(tftp_file)

DestInv ==
  /\ tftp_status \in {Pending, Failure} =>
       tftp_dest = [i \in 1 .. tftp_blocknum - 1 |-> <<RemotePort, i>>]
  /\ tftp_status = Success =>
       /\ tftp_blocknum = LastBlock(tftp_file)
       /\ \E t \in Sessions :
            /\ session[t].open
            /\ session[t].file = tftp_file
            /\ tftp_dest = [i \in 1 .. tftp_blocknum |-> <<t, i>>]

IInv ==
  /\ SharedTypeOK
  /\ ConnInv
  /\ ReplyInv
  /\ DataInv
  /\ AckInv
  /\ RequestInv
  /\ SessionInv
  /\ ClientInv
  /\ DestInv

\* With no other client there is nothing else.
Alone ==
  /\ net \subseteq Datagrams
  /\ lastport = FirstPort + tftp_reads
  /\ tftp_reads <= MaxReads
  /\ \A s \in Slots : s # tftp_conn => conns[s].lport = 0

-----------------------------------------------------------------------------
(***************************************************************************)
(* Lemmas about the operators.                                             *)
(***************************************************************************)

\* Block numbers below the width of the wire are sent as they are, and the
\* first one that is not is sent as 0.
LEMMA WireNumbers ==
  ASSUME NEW k \in 0 .. Wire
  PROVE  k % Wire = IF k = Wire THEN 0 ELSE k
BY TftpAssumption, SMT

\* Only the last block of a file is short.
LEMMA ShortIsLast ==
  ASSUME NEW f \in Files, NEW k \in 1 .. LastBlock(f)
  PROVE  /\ LastBlock(f) \in Nat \ {0}
         /\ BlockLen(f, k) \in 0 .. MaxBlockSize
         /\ BlockLen(f, k) < MaxBlockSize <=> k = LastBlock(f)
<1>1. FileSize[f] \in Nat /\ MaxBlockSize \in Nat \ {0}
  BY TftpAssumption
<1>2. FileSize[f] % MaxBlockSize \in 0 .. MaxBlockSize - 1
  BY <1>1, SMT
<1>3. FileSize[f] \div MaxBlockSize \in Nat
  BY <1>1, SMT
<1> QED BY <1>1, <1>2, <1>3 DEF BlockLen, LastBlock

\* The least number of a set.
LEMMA MinIs ==
  ASSUME NEW S, S \subseteq Nat, S # {}
  PROVE  Min(S) \in S
<1>1. PICK x \in S : \A y \in S : ~(<<y, x>> \in OpToRel(<, Nat))
  BY NatLessThanWellFounded, WFMin, Zenon
<1>2. ASSUME NEW y \in S
      PROVE  x <= y
  <2>1. <<y, x>> \in Nat \X Nat
    OBVIOUS
  <2>2. ~(<<y, x>>[1] < <<y, x>>[2])
    BY <1>1, <2>1, Zenon DEF OpToRel
  <2> QED BY <2>2
<1>3. \E z \in S : \A y \in S : z <= y
  BY <1>2
<1> QED BY <1>3 DEF Min

\* A call gets the port after the last one.
LEMMA FreshPort ==
  ASSUME SharedTypeOK, lastport \in Ports, lastport + 1 < PortLimit,
         \A s \in Slots : conns[s].lport # lastport + 1
  PROVE  NextPort = lastport + 1
<1>1. lastport \in Nat /\ lastport + 1 < PortLimit /\ lastport > 0
  BY UdpAssumption DEF Ports
<1>2. lastport + 1 \in {p \in lastport + 1 .. PortLimit - 1 : PortFree(p)}
  BY <1>1, UdpAssumption DEF PortFree
<1> QED BY <1>1, <1>2, UdpAssumption DEF NextPort, Min

LEMMA FreeSlot ==
  ASSUME FreeSlots # {}
  PROVE  Min(FreeSlots) \in FreeSlots /\ FreeSlots \subseteq Slots /\ Min(FreeSlots) # 0
<1>1. FreeSlots \subseteq Slots /\ Slots \subseteq Nat \ {0}
  BY UdpAssumption DEF FreeSlots, Slots
<1> QED BY <1>1, MinIs

\* The port and the slot of the only client.
LEMMA FreshAlone ==
  ASSUME IInv, Alone, tftp_status = Idle, tftp_reads < MaxReads
  PROVE  lastport + 1 < PortLimit /\ FreeSlots = Slots /\ Slots # {}
<1>1. lastport + 1 < PortLimit
  BY PortsSuffice, UdpAssumption, TftpAssumption DEF Alone, IInv, SharedTypeOK
<1>2. 1 \in Slots /\ 0 \notin Slots
  BY UdpAssumption DEF Slots
<1>3. \A s \in Slots : conns[s].lport = 0
  BY <1>2 DEF IInv, ConnInv, Alone
<1> QED BY <1>1, <1>2, <1>3 DEF FreeSlots

\* What comes to one of the ports is for tftp_read()'s own connection, ...
LEMMA DemuxIsOurs ==
  ASSUME IInv, NEW m \in net, m \in Datagrams, m.dst = Me, Matching(m) # {}
  PROVE  /\ Active
         /\ Demux(m) = tftp_conn
         /\ tftp_conn \in Slots
         /\ m.dport = lastport
         /\ m.src = Server
         /\ RemotePort \in {0, m.sport}
<1>1. PICK s \in Slots : Matches(s, m)
  BY DEF Matching
<1>2. m.dport \in Ports
  <2>1. ~Foreign(m)
    BY DEF Datagrams, Foreign
  <2> QED BY <2>1, UdpAssumption DEF IInv, ReplyInv, ConnInv, Ports
<1>3. \A u \in Slots : Matches(u, m) => u = tftp_conn
  BY <1>2 DEF Matches, IInv, ConnInv, Elsewhere
<1>4. Matching(m) = {tftp_conn}
  BY <1>1, <1>3 DEF Matching
<1>5. Demux(m) = tftp_conn
  BY <1>1, <1>3, <1>4 DEF Demux, Min, Slots
<1>6. Active
  BY <1>1, <1>3, UdpAssumption DEF Active, Slots
<1> QED BY <1>1, <1>3, <1>5, <1>6, TftpAssumption DEF Matches, IInv, ConnInv, RemotePort, LocalPort

\* ... and anything else tells it nothing.
LEMMA DemuxIsForeign ==
  ASSUME IInv, NEW m \in net, Foreign(m), m.dst = Me, Matching(m) # {}
  PROVE  LearnPort(m) = conns
<1>1. Matching(m) \subseteq Slots /\ Slots \subseteq Nat
  BY UdpAssumption DEF Matching, Slots
<1>2. Demux(m) \in Matching(m)
  BY <1>1, MinIs DEF Demux
<1> DEFINE s == Demux(m)
<1>3. s \in Slots /\ conns[s].lport # 0 /\ conns[s].lport \notin Ports
  BY <1>2 DEF Matching, Matches, Foreign
<1>4. conns[s].rport # 0
  <2>1. s # tftp_conn
    BY <1>3, UdpAssumption DEF IInv, ConnInv, Active, LocalPort, Slots
  <2> QED BY <1>3, <2>1 DEF IInv, ConnInv, Elsewhere
<1> HIDE DEF s
<1>5. LearnPort(m) = [conns EXCEPT ![s].rport = IF @ = 0 THEN m.sport ELSE @]
  BY DEF LearnPort, s
<1> QED BY <1>3, <1>4, <1>5 DEF IInv, SharedTypeOK

-----------------------------------------------------------------------------
(***************************************************************************)
(* The invariant holds initially, and every action preserves it.           *)
(***************************************************************************)
LEMMA InitInv == Init => IInv
<1> SUFFICES ASSUME Init PROVE IInv
  OBVIOUS
<1>0. PortLimit \in Nat /\ FirstPort \in Nat \ {0} /\ FirstPort <= PortLimit
  BY UdpAssumption, TftpAssumption, PortsSuffice
<1> USE DEF Init, UdpInit, TftpInit
<1>1. NoSession \in SessionStates /\ NoSession.port = 0 /\ ~NoSession.open
  BY TftpAssumption DEF NoSession, SessionStates
<1>2. SharedTypeOK
  BY <1>1, UdpAssumption, TftpAssumption DEF SharedTypeOK, FreeConn, Idle
<1>3. ConnInv
  BY <1>0 DEF ConnInv, FreeConn, Active, Ports, Elsewhere
<1>4. ReplyInv /\ DataInv /\ AckInv /\ RequestInv
  BY DEF ReplyInv, DataInv, AckInv, RequestInv
<1>5. SessionInv /\ ClientInv /\ DestInv
  BY <1>1, UdpAssumption DEF SessionInv, ClientInv, DestInv, Active, Idle, Pending, Failure, Success
<1> QED BY <1>2, <1>3, <1>4, <1>5 DEF IInv

LEMMA TftpReadInv ==
  ASSUME IInv, FreeSlots # {}, lastport + 1 < PortLimit, NEW f \in Files, TftpRead(f)
  PROVE  IInv'
<1> USE DEF IInv, Idle, Pending, Success, Failure
<1>1. /\ SharedTypeOK /\ ConnInv /\ tftp_status = Idle /\ ~Active
      /\ lastport \in Nat /\ lastport \in Ports
      /\ \A s \in Slots : Elsewhere(conns[s])
  BY UdpAssumption DEF TftpRead, ConnInv, Active, SharedTypeOK, Slots
<1>2. lastport' = lastport + 1 /\ lastport' \in Ports
  <2>1. lastport + 1 \in Ports
    BY <1>1, UdpAssumption DEF Ports
  <2> QED BY <1>1, <2>1, FreshPort DEF TftpRead, Elsewhere
<1> DEFINE slot == Min(FreeSlots)
           request == Outgoing([lport |-> lastport', rport |-> TftpPort, ripaddr |-> Server],
                               ReadReq(f))
<1> HIDE DEF slot, request
<1>3. /\ tftp_conn' = slot /\ slot \in Slots /\ slot # 0
      /\ conns' = [conns EXCEPT ![slot] = [lport |-> lastport', rport |-> 0, ripaddr |-> Server]]
      /\ net' = net \cup {request}
      /\ tftp_status' = Pending
      /\ tftp_blocknum' = 1
      /\ tftp_total_size' = 0
      /\ tftp_dest' = <<>>
      /\ tftp_file' = f
      /\ tftp_reads' = tftp_reads + 1
      /\ UNCHANGED session
  BY FreeSlot DEF TftpRead, UdpNew, slot, request
<1>4. /\ request \in Datagrams /\ request.data.op = "rrq" /\ request.sport = lastport'
      /\ request.data.file = f /\ request.dst # Me
  BY <1>1, <1>2, TftpAssumption DEF request, Outgoing, ReadReq, Datagrams
<1>5. /\ conns'[slot] = [lport |-> lastport', rport |-> 0, ripaddr |-> Server]
      /\ \A s \in Slots : s # slot => Elsewhere(conns'[s])
      /\ RemotePort' = 0 /\ LocalPort' = lastport' /\ Active'
  <2>2. conns'[slot] = [lport |-> lastport', rport |-> 0, ripaddr |-> Server]
    BY <1>1, <1>3 DEF SharedTypeOK
  <2>3. \A s \in Slots : s # slot => conns'[s] = conns[s]
    BY <1>1, <1>3 DEF SharedTypeOK
  <2> QED BY <1>1, <1>3, <2>2, <2>3 DEF RemotePort, LocalPort, Active
<1>6. SharedTypeOK'
  <2>1. \A m \in net' : m \in Datagrams \/ Foreign(m)
    BY <1>1, <1>3, <1>4 DEF SharedTypeOK
  <2> QED BY <1>1, <1>2, <1>3, <1>5, <2>1 DEF SharedTypeOK, Foreign
<1>7. ConnInv'
  BY <1>1, <1>2, <1>3, <1>5 DEF ConnInv
<1>71. ReplyInv'
  BY <1>1, <1>2, <1>3, <1>4, UdpAssumption DEF ReplyInv
<1>8. DataInv'
  BY <1>3, <1>4 DEF DataInv
<1>9. AckInv'
  <2>1. \A m \in net : m.data.op = "ack" => m.sport \in Nat
    BY <1>1 DEF SharedTypeOK, Datagrams, Foreign
  <2> QED BY <1>1, <1>2, <1>3, <1>4, <2>1 DEF AckInv
<1>10. RequestInv'
  BY <1>1, <1>2, <1>3, <1>4, UdpAssumption DEF RequestInv, Ports
<1>11. SessionInv'
  BY <1>1, <1>2, <1>3 DEF SessionInv, Mine, SharedTypeOK, SessionStates
<1>12. ClientInv'
  BY <1>3, <1>5, TftpAssumption DEF ClientInv
<1>13. DestInv'
  BY <1>3 DEF DestInv
<1> QED BY <1>6, <1>7, <1>71, <1>8, <1>9, <1>10, <1>11, <1>12, <1>13

\* Sending again the request or the last acknowledgement, on the connection as
\* the packet just taken has left it, keeps what the invariant says of the
\* connection and of what is in flight.
LEMMA ResendKeeps ==
  ASSUME IInv, tftp_status = Pending,
         NEW cs, NEW packets \in SUBSET net,
         cs = conns \/ (\E m \in ToMe : Matching(m) # {} /\ cs = LearnPort(m)),
         Resend(cs, packets)
  PROVE  /\ Active /\ tftp_conn \in Slots
         /\ conns' = conns
         /\ \E p \in Datagrams :
              /\ net' = packets \cup {p} /\ p.dst # Me
              /\ \/ /\ p.data.op = "rrq" /\ p.sport = lastport
                    /\ p.data.file = tftp_file
                 \/ /\ p.data.op = "ack" /\ p.sport = lastport
                    /\ tftp_blocknum > 1
                    /\ p.dport = RemotePort
                    /\ p.data.wire \in 1 .. tftp_blocknum - 1
<1> USE DEF IInv, Idle, Pending, Success, Failure
<1>1. Active /\ tftp_conn \in Slots /\ SharedTypeOK /\ ConnInv /\ ClientInv
  BY DEF ConnInv, Active, SharedTypeOK
<1> DEFINE c == conns[tftp_conn]
<1>2. /\ c \in [lport : Nat, rport : Nat, ripaddr : {Broadcast, Server}]
      /\ c.lport = lastport /\ c.ripaddr = Server
      /\ c.rport = RemotePort
      /\ tftp_blocknum \in 1 .. Wire /\ Wire \in Nat \ {0}
      /\ lastport \in Nat \ {0} /\ tftp_file \in Files
  BY <1>1, UdpAssumption, TftpAssumption
     DEF SharedTypeOK, ConnInv, ClientInv, LocalPort, RemotePort, Ports
<1> HIDE DEF c
<1>3. \/ cs = conns
      \/ \E port \in Nat : c.rport = 0 /\ cs = [conns EXCEPT ![tftp_conn].rport = port]
  <2>1. CASE cs = conns
    BY <2>1
  <2>2. CASE \E m \in ToMe : m \in Datagrams /\ Matching(m) # {} /\ cs = LearnPort(m)
    <3>1. PICK m \in net : m.dst = Me /\ m \in Datagrams /\ Matching(m) # {} /\ cs = LearnPort(m)
      BY <2>2 DEF ToMe
    <3>2. Demux(m) = tftp_conn
      BY <3>1, DemuxIsOurs
    <3>3. m.sport \in Nat
      BY <3>1 DEF Datagrams
    <3>4. cs = [conns EXCEPT ![tftp_conn].rport = IF @ = 0 THEN m.sport ELSE @]
      BY <3>1, <3>2 DEF LearnPort
    <3>5. CASE c.rport = 0
      BY <3>3, <3>4, <3>5 DEF c
    <3>6. CASE c.rport # 0
      <4>1. cs = conns
        BY <1>1, <1>2, <3>4, <3>6 DEF c, SharedTypeOK
      <4> QED BY <4>1
    <3> QED BY <3>5, <3>6
  <2>3. CASE \E m \in ToMe : Foreign(m) /\ Matching(m) # {} /\ cs = LearnPort(m)
    BY <2>3, DemuxIsForeign DEF ToMe
  <2> QED BY <2>1, <2>2, <2>3 DEF SharedTypeOK, ToMe
<1>4. CASE tftp_blocknum = 1
  <2>1. c.rport = 0
    BY <1>1, <1>2, <1>4 DEF ClientInv
  <2>2. conns' = [cs EXCEPT ![tftp_conn].rport = 0]
    BY <1>4 DEF Resend, Unbind, LastSent
  <2>3. conns' = conns
    BY <1>1, <1>2, <1>3, <2>1, <2>2 DEF SharedTypeOK, c
  <2>4. cs[tftp_conn].lport = lastport /\ cs[tftp_conn].ripaddr = Server
        /\ cs[tftp_conn] \in [lport : Nat, rport : Nat, ripaddr : {Broadcast, Server}]
    BY <1>1, <1>2, <1>3 DEF SharedTypeOK, c
  <2> DEFINE p == Outgoing([cs[tftp_conn] EXCEPT !.rport = TftpPort], ReadReq(tftp_file))
  <2>5. net' = packets \cup {p}
    BY <1>4 DEF Resend, Unbind, LastSent
  <2>6. p \in Datagrams /\ p.data.op = "rrq" /\ p.sport = lastport /\ p.data.file = tftp_file
        /\ p.dst # Me
    BY <1>2, <2>4, TftpAssumption DEF Outgoing, ReadReq, Datagrams
  <2> QED BY <1>1, <2>3, <2>5, <2>6
<1>5. CASE tftp_blocknum # 1
  <2>1. tftp_blocknum > 1
    BY <1>2, <1>5
  <2>2. c.rport # 0 /\ c.rport \in Nat
    BY <1>1, <1>2, <2>1, TftpAssumption DEF ClientInv
  <2>3. cs = conns
    BY <1>3, <2>2
  <2>4. conns' = conns
    BY <1>5, <2>3 DEF Resend, Unbind, LastSent
  <2> DEFINE p == Outgoing(c, Ack((tftp_blocknum - 1) % Wire))
  <2>5. net' = packets \cup {p}
    BY <1>5, <2>3 DEF Resend, Unbind, LastSent, LastAck, c
  <2>6. (tftp_blocknum - 1) % Wire = tftp_blocknum - 1
    <3>1. tftp_blocknum - 1 \in 0 .. Wire /\ tftp_blocknum - 1 # Wire
      BY <1>2
    <3> QED BY <3>1, WireNumbers
  <2>7. p \in Datagrams /\ p.data.op = "ack" /\ p.sport = lastport /\ p.dport = RemotePort
        /\ p.data.wire = tftp_blocknum - 1 /\ p.dst # Me
    BY <1>2, <2>2, <2>6, TftpAssumption DEF Outgoing, Ack, Datagrams
  <2>8. p.data.wire \in 1 .. tftp_blocknum - 1
    BY <1>2, <2>1, <2>7
  <2> QED BY <1>1, <2>1, <2>4, <2>5, <2>7, <2>8
<1> QED BY <1>4, <1>5

\* A poll that accepts no block.
LEMMA NoBlockInv ==
  ASSUME IInv, tftp_status = Pending,
         NEW cs, NEW packets \in SUBSET net,
         cs = conns \/ (\E m \in ToMe : Matching(m) # {} /\ cs = LearnPort(m)),
         Resend(cs, packets),
         tftp_status' \in {Pending, Failure},
         UNCHANGED <<lastport, tftp_blocknum, tftp_total_size, tftp_dest,
                     tftp_conn, tftp_file, tftp_reads, session>>
  PROVE  IInv'
<1> USE DEF IInv, Idle, Pending, Success, Failure
<1>1. PICK p \in Datagrams :
        /\ net' = packets \cup {p} /\ p.dst # Me
        /\ \/ /\ p.data.op = "rrq" /\ p.sport = lastport
              /\ p.data.file = tftp_file
           \/ /\ p.data.op = "ack" /\ p.sport = lastport
              /\ tftp_blocknum > 1
              /\ p.dport = RemotePort
              /\ p.data.wire \in 1 .. tftp_blocknum - 1
  BY ResendKeeps
<1>2. Active /\ tftp_conn \in Slots /\ conns' = conns
  BY ResendKeeps
<1>3. lastport \in FirstPort .. lastport
  BY UdpAssumption DEF ConnInv, Ports
<1>4. SharedTypeOK'
  <2>1. \A m \in net' : m \in Datagrams \/ Foreign(m)
    BY <1>1 DEF SharedTypeOK
  <2> QED BY <1>2, <2>1 DEF SharedTypeOK, Foreign
<1>5. ConnInv'
  BY <1>2 DEF ConnInv, Active, LocalPort
<1>51. ReplyInv'
  BY <1>1 DEF ReplyInv
<1>6. DataInv'
  BY <1>1 DEF DataInv
<1>7. AckInv'
  BY <1>1, <1>2, <1>3 DEF AckInv, Active, RemotePort
<1>8. RequestInv'
  BY <1>1, <1>2, <1>3 DEF RequestInv, Active
<1>9. SessionInv' /\ ClientInv'
  BY <1>2 DEF SessionInv, ClientInv, Active, Mine, RemotePort
<1>10. DestInv'
  BY <1>2 DEF DestInv, RemotePort
<1> QED BY <1>4, <1>5, <1>51, <1>6, <1>7, <1>8, <1>9, <1>10

\* What is known of the block that a poll accepts: it is the next one of the
\* file, and it comes from the session the connection is bound to.
LEMMA ExpectedBlock ==
  ASSUME IInv, tftp_status = Pending, NEW m \in ToMe, Matching(m) # {},
         Expected(m), m.data.len <= MaxBlockSize
  PROVE  LET t == m.sport IN
         /\ t \in Sessions /\ t # 0
         /\ Mine(t)
         /\ session[t].file = tftp_file
         /\ m.data.blk = tftp_blocknum
         /\ tftp_blocknum < Wire
         /\ session[t].blk = tftp_blocknum
         /\ tftp_blocknum \in 1 .. LastBlock(tftp_file)
         /\ m.data.len = BlockLen(tftp_file, tftp_blocknum)
         /\ tftp_blocknum > 1 => t = RemotePort
         /\ tftp_dest = [i \in 1 .. tftp_blocknum - 1 |-> <<t, i>>]
<1> USE DEF IInv, Idle, Pending, Success, Failure
<1> DEFINE t == m.sport
<1>0. m \in net /\ m.dst = Me /\ m \in Datagrams
  BY DEF ToMe, Expected, SharedTypeOK, Foreign
<1>1. /\ Active /\ m.dport = lastport /\ RemotePort \in {0, t}
  BY <1>0, DemuxIsOurs
<1>2. m.data.op = "data" /\ m.data.blk % Wire = tftp_blocknum
  BY DEF Expected
<1>3. /\ t \in Sessions /\ session[t].open /\ session[t].port = lastport
      /\ m.data.blk \in 1 .. session[t].blk
      /\ m.data.len = BlockLen(session[t].file, m.data.blk)
  BY <1>0, <1>1, <1>2 DEF DataInv
<1>4. t # 0 /\ t \in Nat /\ lastport \in Nat /\ Wire \in Nat \ {0}
  BY <1>3, TftpAssumption DEF SharedTypeOK
<1>5. Mine(t)
  BY <1>3 DEF Mine
<1>6. /\ session[t].file = tftp_file
      /\ session[t].blk <= (IF t = RemotePort THEN tftp_blocknum ELSE 1)
      /\ session[t].blk \in 1 .. LastBlock(tftp_file)
  BY <1>1, <1>3, <1>5 DEF SessionInv
<1>7. tftp_blocknum \in 1 .. Wire
  BY <1>1 DEF ClientInv
<1>8. tftp_blocknum > 1 => t = RemotePort
  BY <1>1, <1>7, TftpAssumption DEF ClientInv
<1>9. session[t].blk \in Nat /\ session[t].blk <= tftp_blocknum
  BY <1>3, <1>6, <1>7 DEF SharedTypeOK, SessionStates
<1>10. m.data.blk \in 1 .. tftp_blocknum
  BY <1>3, <1>7, <1>9
<1>11. m.data.blk # Wire
  BY <1>2, <1>7, <1>10, <1>4, WireNumbers
<1>12. m.data.blk = tftp_blocknum
  <2>1. m.data.blk \in 0 .. Wire
    BY <1>4, <1>7, <1>10
  <2> QED BY <1>2, <1>11, <2>1, WireNumbers
<1>13. session[t].blk = tftp_blocknum
  BY <1>3, <1>7, <1>9, <1>12
<1>14. tftp_dest = [i \in 1 .. tftp_blocknum - 1 |-> <<t, i>>]
  <2>1. CASE tftp_blocknum = 1
    <3>1. 1 .. tftp_blocknum - 1 = {}
      BY <2>1
    <3> QED BY <3>1 DEF DestInv
  <2>2. CASE tftp_blocknum # 1
    BY <1>7, <1>8, <2>2 DEF DestInv
  <2> QED BY <2>1, <2>2
<1>15. tftp_blocknum < Wire
  BY <1>4, <1>7, <1>11, <1>12
<1>16. tftp_blocknum \in 1 .. LastBlock(tftp_file)
  BY <1>6, <1>13
<1>17. m.data.len = BlockLen(tftp_file, tftp_blocknum)
  BY <1>3, <1>6, <1>12
<1> QED BY <1>3, <1>4, <1>5, <1>6, <1>8, <1>12, <1>13, <1>14, <1>15, <1>16, <1>17

LEMMA PollBlockInv ==
  ASSUME IInv, tftp_status = Pending, NEW m \in ToMe, NEW rest \in Taken(m),
         Matching(m) # {}, PollBlock(m, rest)
  PROVE  IInv'
<1> USE DEF IInv, Idle, Pending, Success, Failure
<1> DEFINE t == m.sport
           n == tftp_blocknum
<1>0. m \in net /\ m.dst = Me /\ m \in Datagrams
  BY DEF ToMe, PollBlock, Expected, SharedTypeOK, Foreign
<1>1. /\ Expected(m) /\ m.data.len <= MaxBlockSize
      /\ tftp_dest' = Append(tftp_dest, <<t, m.data.blk>>)
      /\ tftp_total_size' = tftp_total_size + m.data.len
      /\ UNCHANGED <<lastport, tftp_conn, tftp_file, tftp_reads, session>>
      /\ rest \in SUBSET net
  BY DEF PollBlock, Taken
<1>2. /\ t \in Sessions /\ t # 0 /\ Mine(t) /\ session[t].file = tftp_file
      /\ m.data.blk = n /\ n < Wire /\ session[t].blk = n
      /\ n \in 1 .. LastBlock(tftp_file)
      /\ m.data.len = BlockLen(tftp_file, n)
      /\ n > 1 => t = RemotePort
      /\ tftp_dest = [i \in 1 .. n - 1 |-> <<t, i>>]
  BY <1>1, ExpectedBlock
<1>3. tftp_file \in Files /\ Wire \in Nat \ {0} /\ lastport \in Nat /\ t \in Nat
      /\ tftp_total_size \in Nat /\ MaxBlockSize \in Nat \ {0}
  BY <1>2, TftpAssumption DEF SharedTypeOK
<1>4. /\ LastBlock(tftp_file) \in Nat \ {0}
      /\ m.data.len \in 0 .. MaxBlockSize
      /\ m.data.len < MaxBlockSize <=> n = LastBlock(tftp_file)
  BY <1>2, <1>3, ShortIsLast
<1>5. Active /\ tftp_conn \in Slots /\ Demux(m) = tftp_conn /\ RemotePort \in {0, t}
  BY <1>0, DemuxIsOurs
<1>6. tftp_dest' = [i \in 1 .. n |-> <<t, i>>]
  <2>1. Len(tftp_dest) = n - 1
    BY <1>2
  <2>2. tftp_dest' = [i \in 1 .. n - 1 + 1 |-> IF i = n THEN <<t, n>> ELSE tftp_dest[i]]
    BY <1>1, <1>2, <2>1
  <2> QED BY <1>2, <2>2
<1>7. tftp_dest' \in Seq(Sessions \X Nat)
  BY <1>2, <1>4, <1>6
<1>8. tftp_total_size' \in Nat
  BY <1>1, <1>3, <1>4
<1>9. CASE m.data.len < MaxBlockSize
  <2>1. /\ tftp_status' = Success /\ n' = n /\ Resend(LearnPort(m), rest)
    BY <1>9 DEF PollBlock, Short
  <2>2. PICK p \in Datagrams :
          /\ net' = rest \cup {p} /\ p.dst # Me
          /\ \/ /\ p.data.op = "rrq" /\ p.sport = lastport
                /\ p.data.file = tftp_file
             \/ /\ p.data.op = "ack" /\ p.sport = lastport
                /\ n > 1
                /\ p.dport = RemotePort
                /\ p.data.wire \in 1 .. n - 1
    BY <1>1, <2>1, ResendKeeps
  <2>3. conns' = conns
    BY <1>1, <2>1, ResendKeeps
  <2>4. SharedTypeOK'
    <3>1. \A d \in net' : d \in Datagrams \/ Foreign(d)
      BY <1>1, <2>2 DEF SharedTypeOK
    <3> QED BY <1>1, <1>7, <1>8, <2>1, <2>3, <3>1 DEF SharedTypeOK, Foreign
  <2>5. ConnInv'
    BY <1>1, <1>5, <2>1, <2>3 DEF ConnInv, Active, LocalPort
  <2>51. ReplyInv'
    BY <1>1, <2>2 DEF ReplyInv
  <2>6. DataInv'
    BY <1>1, <2>2 DEF DataInv
  <2>7. AckInv'
    BY <1>1, <1>3, <1>5, <2>1, <2>2, <2>3 DEF AckInv, Active, RemotePort
  <2>8. RequestInv'
    <3>1. lastport \in FirstPort .. lastport
      BY UdpAssumption DEF ConnInv, Ports
    <3> QED BY <1>1, <1>5, <2>2, <3>1 DEF RequestInv, Active
  <2>9. SessionInv' /\ ClientInv'
    BY <1>1, <1>5, <2>1, <2>3 DEF SessionInv, ClientInv, Active, Mine, RemotePort
  <2>10. DestInv'
    BY <1>1, <1>2, <1>4, <1>6, <1>9, <2>1 DEF DestInv, Mine
  <2> QED BY <2>4, <2>5, <2>51, <2>6, <2>7, <2>8, <2>9, <2>10
<1>10. CASE ~(m.data.len < MaxBlockSize)
  <2> DEFINE ack == Outgoing(LearnPort(m)[tftp_conn], Ack(n % Wire))
  <2>1. /\ net' = rest \cup {ack} /\ conns' = LearnPort(m)
        /\ n' = n + 1 /\ tftp_status' = Pending
    BY <1>5, <1>10 DEF PollBlock, Short
  <2>2. n < LastBlock(tftp_file)
    BY <1>2, <1>3, <1>4, <1>10
  <2>3. conns' = [conns EXCEPT ![tftp_conn].rport = t]
    BY <1>5, <2>1 DEF LearnPort, RemotePort, SharedTypeOK
  <2>4. /\ conns' \in [Slots -> [lport : Nat, rport : Nat, ripaddr : {Broadcast, Server}]]
        /\ conns'[tftp_conn].rport = t
        /\ conns'[tftp_conn].lport = lastport
        /\ conns'[tftp_conn].ripaddr = Server
        /\ \A s \in Slots : s # tftp_conn => Elsewhere(conns'[s])
    BY <1>3, <1>5, <2>3 DEF SharedTypeOK, ConnInv, LocalPort
  <2>5. n % Wire = n
    BY <1>2, <1>3, WireNumbers
  <2>6. /\ ack \in Datagrams /\ ack.data.op = "ack" /\ ack.sport = lastport
        /\ ack.dport = t /\ ack.data.wire = n /\ ack.dst # Me
    BY <1>2, <1>3, <2>1, <2>4, <2>5, TftpAssumption DEF Outgoing, Ack, Datagrams
  <2> HIDE DEF ack
  <2>7. SharedTypeOK'
    <3>1. \A d \in net' : d \in Datagrams \/ Foreign(d)
      BY <1>1, <2>1, <2>6 DEF SharedTypeOK
    <3> QED BY <1>1, <1>2, <1>7, <1>8, <2>1, <2>4, <3>1 DEF SharedTypeOK, Foreign
  <2>8. ConnInv'
    BY <1>1, <1>5, <2>1, <2>4 DEF ConnInv, Active, LocalPort
  <2>81. ReplyInv'
    BY <1>1, <2>1, <2>6 DEF ReplyInv
  <2>9. DataInv'
    BY <1>1, <2>1, <2>6 DEF DataInv
  <2>10. AckInv'
    <3>1. \A a \in net : a.data.op = "ack" /\ a.sport = lastport =>
             a.dport = t /\ a.data.wire \in 1 .. n
      BY <1>2, <1>5 DEF AckInv
    <3> QED BY <1>1, <1>2, <1>3, <1>5, <2>1, <2>4, <2>6, <3>1 DEF AckInv, Active, RemotePort
  <2>11. RequestInv'
    BY <1>1, <1>5, <2>1, <2>6 DEF RequestInv, Active
  <2>12. SessionInv'
    <3>1. \A u \in Sessions : Mine(u) /\ u # t => session[u].blk <= 1
      BY <1>2, <1>5, TftpAssumption DEF SessionInv
    <3> QED BY <1>1, <1>2, <1>5, <2>1, <2>4, <3>1 DEF SessionInv, Active, Mine, RemotePort
  <2>13. ClientInv'
    BY <1>1, <1>2, <1>3, <1>4, <1>5, <2>1, <2>2, <2>4 DEF ClientInv, Active, Mine, RemotePort
  <2>14. DestInv'
    <3>1. tftp_blocknum' - 1 = n /\ tftp_conn' = tftp_conn
      BY <1>1, <1>2, <2>1
    <3>2. RemotePort' = t
      BY <2>4, <3>1 DEF RemotePort
    <3>3. tftp_dest' = [i \in 1 .. tftp_blocknum' - 1 |-> <<RemotePort', i>>]
      BY <1>6, <3>1, <3>2
    <3> QED BY <2>1, <3>3 DEF DestInv
  <2> QED BY <2>7, <2>8, <2>81, <2>9, <2>10, <2>11, <2>12, <2>13, <2>14
<1> QED BY <1>9, <1>10

LEMMA TftpReturnInv ==
  ASSUME IInv, TftpReturn
  PROVE  IInv'
<1> USE DEF IInv, Idle, Pending, Success, Failure
<1>1. /\ tftp_conn' = 0 /\ tftp_status' = Idle /\ ~Active'
      /\ UNCHANGED <<lastport, net, tftp_blocknum, tftp_total_size, tftp_dest,
                     tftp_file, tftp_reads, session>>
  BY DEF TftpReturn, Active
<1>2. tftp_conn \in Slots /\ conns' = [conns EXCEPT ![tftp_conn].lport = 0]
  BY DEF TftpReturn, UdpRemove, ConnInv, SharedTypeOK
<1>3. SharedTypeOK'
  BY <1>1, <1>2 DEF SharedTypeOK, Foreign
<1>4. ConnInv'
  <2>1. \A s \in Slots : Elsewhere(conns'[s])
    <3>1. Elsewhere(conns'[tftp_conn])
      BY <1>2, UdpAssumption DEF SharedTypeOK, Elsewhere, Ports
    <3> QED BY <1>2, <3>1 DEF ConnInv, SharedTypeOK
  <2> QED BY <1>1, <2>1 DEF ConnInv
<1>5. ReplyInv' /\ DataInv' /\ AckInv' /\ RequestInv' /\ SessionInv' /\ ClientInv'
  BY <1>1 DEF ReplyInv, DataInv, AckInv, RequestInv, SessionInv, ClientInv, Active
<1>6. DestInv'
  BY <1>1 DEF DestInv
<1> QED BY <1>3, <1>4, <1>5, <1>6

\* A step of the server or of the network that sends at most one packet to this
\* machine and changes no session.
LEMMA SameSessionsInv ==
  ASSUME IInv, UNCHANGED <<conns, lastport, clientVars, session>>,
         NEW p \in Datagrams,
         net' \in SUBSET (net \cup {p}),
         p.dst = Me => p.dport \in FirstPort .. lastport,
         \/ p \in net
         \/ p.data.op \in {"error", "other"}
         \/ /\ p.data.op = "data" /\ p.src = Server /\ p.dst = Me
            /\ p.sport \in Sessions /\ session[p.sport].open
            /\ session[p.sport].port = p.dport
            /\ p.data.len <= MaxBlockSize =>
                 /\ p.data.blk = session[p.sport].blk
                 /\ p.data.len = BlockLen(session[p.sport].file, p.data.blk)
  PROVE  IInv'
<1> USE DEF IInv, clientVars
<1>1. SharedTypeOK' /\ ReplyInv'
  BY DEF SharedTypeOK, Foreign, ReplyInv
<1>11. ConnInv' /\ SessionInv' /\ ClientInv' /\ DestInv'
  BY DEF ConnInv, SessionInv, ClientInv, DestInv, Active, Mine, LocalPort, RemotePort
<1>2. DataInv'
  <2>1. \A t \in Sessions : session[t].open => session[t].blk \in 1 .. session[t].blk
    BY TftpAssumption DEF SessionInv, SharedTypeOK, SessionStates
  <2> QED BY <2>1 DEF DataInv
<1>3. AckInv' /\ RequestInv'
  BY DEF AckInv, RequestInv, Active, RemotePort
<1> QED BY <1>1, <1>11, <1>2, <1>3

LEMMA CurrentDataIs ==
  ASSUME NEW t \in Sessions, session' \in [Sessions -> SessionStates],
         session'[t].blk \in 1 .. LastBlock(session'[t].file)
  PROVE  LET p == CurrentData(t) IN
         /\ p \in Datagrams
         /\ p.data.op = "data" /\ p.src = Server /\ p.dst = Me
         /\ p.sport = t
         /\ p.dport = session'[t].port
         /\ p.data.blk = session'[t].blk
         /\ p.data.len = BlockLen(session'[t].file, p.data.blk)
<1> DEFINE s == session'[t]
<1>1. s.file \in Files /\ s.port \in Nat /\ s.blk \in 1 .. LastBlock(s.file) /\ t \in Nat
  BY TftpAssumption DEF SessionStates
<1>2. BlockLen(s.file, s.blk) \in Nat /\ s.blk \in Nat
  BY <1>1, ShortIsLast, TftpAssumption
<1> HIDE DEF s
<1>3. CurrentData(t) = Incoming(Server, t, s.port, Data(s.blk, BlockLen(s.file, s.blk)))
  BY DEF CurrentData, s
<1> QED BY <1>1, <1>2, <1>3 DEF Incoming, Data, Datagrams, s

LEMMA ServerResendInv ==
  ASSUME IInv, NEW t \in Sessions, ServerResend(t)
  PROVE  IInv'
<1> USE DEF IInv
<1>1. /\ session[t].open /\ session' = session
      /\ net' = net \cup {CurrentData(t)}
      /\ UNCHANGED <<conns, lastport, clientVars>>
  BY DEF ServerResend
<1>2. session' \in [Sessions -> SessionStates]
      /\ session'[t].blk \in 1 .. LastBlock(session'[t].file)
  BY <1>1 DEF SharedTypeOK, SessionInv
<1>3. LET p == CurrentData(t) IN
         /\ p \in Datagrams
         /\ p.data.op = "data" /\ p.src = Server /\ p.dst = Me
         /\ p.sport = t
         /\ p.dport = session'[t].port
         /\ p.data.blk = session'[t].blk
         /\ p.data.len = BlockLen(session'[t].file, p.data.blk)
  BY <1>2, CurrentDataIs
<1>4. session'[t].port \in FirstPort .. lastport
  BY <1>1, UdpAssumption DEF SessionInv, SharedTypeOK, SessionStates
<1> QED BY <1>1, <1>3, <1>4, SameSessionsInv

LEMMA ServerStrayInv ==
  ASSUME IInv, NEW t \in Sessions, ServerStray(t)
  PROVE  IInv'
<1> USE DEF IInv
<1>1. PICK d \in {Error, Other, Data(session[t].blk, MaxBlockSize + 1)} :
        net' = net \cup {FromSession(t, d)}
  BY DEF ServerStray
<1>2. session[t].open /\ UNCHANGED <<conns, lastport, clientVars, session>>
  BY DEF ServerStray
<1> DEFINE p == FromSession(t, d)
<1>3. /\ session[t] \in SessionStates /\ t \in Nat
      /\ MaxBlockSize + 1 \in Nat /\ ~(MaxBlockSize + 1 <= MaxBlockSize)
  BY TftpAssumption DEF SharedTypeOK
<1>4. p \in Datagrams /\ p.src = Server /\ p.dst = Me /\ p.sport = t /\ p.dport = session[t].port
      /\ p.data = d
  BY <1>1, <1>3 DEF FromSession, Incoming, Error, Other, Data, Datagrams, SessionStates
<1>5. \/ d.op \in {"error", "other"}
      \/ d.op = "data" /\ ~(d.len <= MaxBlockSize)
  BY <1>1, <1>3 DEF Error, Other, Data
<1>6. session[t].port \in FirstPort .. lastport
  BY <1>2, UdpAssumption DEF SessionInv, SharedTypeOK, SessionStates
<1> HIDE DEF p
<1> QED BY <1>1, <1>2, <1>4, <1>5, <1>6, SameSessionsInv DEF p

\* A request opens a session, or is refused.
LEMMA ServerAcceptInv ==
  ASSUME IInv, NEW m \in net, NEW rest \in Taken(m), NEW t \in Sessions,
         ServerAccept(m, rest, t)
  PROVE  IInv'
<1> USE DEF IInv
<1>1. /\ m.data.op = "rrq" /\ rest \in SUBSET net
      /\ UNCHANGED <<conns, lastport, clientVars>>
      /\ ~session[t].open
  BY DEF ServerAccept, Taken, NoSession, Refused
<1>2. /\ m.sport \in FirstPort .. lastport /\ m.data.file \in Files
      /\ Active /\ m.sport = lastport => m.data.file = tftp_file
      /\ m.sport \in Nat /\ lastport \in Nat /\ t \in Nat /\ t # 0
  BY <1>1, UdpAssumption, TftpAssumption DEF RequestInv, SharedTypeOK, Datagrams, Foreign
<1>3. tftp_blocknum > 1 /\ Active => t # RemotePort
  BY <1>1 DEF ClientInv, Mine
<1>4. CASE /\ session' = [session EXCEPT ![t] =
                [open |-> TRUE, port |-> m.sport, file |-> m.data.file, blk |-> 1]]
           /\ net' = rest \cup {CurrentData(t)}
  <2>1. session' \in [Sessions -> SessionStates]
    BY <1>2, <1>4 DEF SharedTypeOK, SessionStates
  <2>2. /\ session'[t] = [open |-> TRUE, port |-> m.sport, file |-> m.data.file, blk |-> 1]
        /\ \A u \in Sessions : u # t => session'[u] = session[u]
    BY <1>4 DEF SharedTypeOK
  <2>3. LastBlock(m.data.file) \in Nat \ {0}
    <3>1. FileSize[m.data.file] \div MaxBlockSize \in Nat
      BY <1>2, TftpAssumption
    <3> QED BY <3>1 DEF LastBlock
  <2>4. session'[t].blk \in 1 .. LastBlock(session'[t].file)
    BY <2>2, <2>3
  <2> DEFINE p == CurrentData(t)
  <2>5. /\ p \in Datagrams
        /\ p.data.op = "data" /\ p.src = Server /\ p.dst = Me
        /\ p.sport = t
        /\ p.dport = session'[t].port
        /\ p.data.blk = session'[t].blk
        /\ p.data.len = BlockLen(session'[t].file, p.data.blk)
    BY <2>1, <2>4, CurrentDataIs
  <2> HIDE DEF p
  <2>6. net' = rest \cup {p}
    BY <1>4 DEF p
  <2>61. \A d \in net' : d \in Datagrams \/ Foreign(d)
    BY <1>1, <2>5, <2>6 DEF SharedTypeOK
  <2>7. SharedTypeOK' /\ ConnInv'
    BY <1>1, <2>1, <2>61 DEF SharedTypeOK, Foreign, ConnInv, Active, LocalPort, clientVars
  <2>71. ReplyInv'
    BY <1>1, <1>2, <2>2, <2>5, <2>6 DEF ReplyInv
  <2>8. DataInv'
    BY <1>1, <2>2, <2>5, <2>6 DEF DataInv
  <2>9. AckInv' /\ RequestInv'
    BY <1>1, <2>5, <2>6 DEF AckInv, RequestInv, Active, RemotePort, clientVars
  <2>10. SessionInv'
    BY <1>1, <1>2, <1>3, <2>2, <2>4, UdpAssumption, TftpAssumption
       DEF SessionInv, ClientInv, Active, Mine, RemotePort, clientVars
  <2>11. ClientInv'
    BY <1>1, <1>3, <2>2 DEF ClientInv, Active, Mine, RemotePort, clientVars
  <2>12. DestInv'
    BY <1>1, <2>2 DEF DestInv, RemotePort, clientVars
  <2> QED BY <2>7, <2>71, <2>8, <2>9, <2>10, <2>11, <2>12
<1>5. CASE /\ session' = [session EXCEPT ![t] = Refused(m.sport)]
           /\ net' = rest \cup {Incoming(Server, t, m.sport, Error)}
  <2> DEFINE p == Incoming(Server, t, m.sport, Error)
  <2>1. p \in Datagrams /\ p.data.op = "error" /\ p.dport = m.sport
    BY <1>2 DEF Incoming, Error, Datagrams
  <2> HIDE DEF p
  <2>2. net' = rest \cup {p}
    BY <1>5 DEF p
  <2>3. /\ session'[t] = Refused(m.sport)
        /\ \A u \in Sessions : u # t => session'[u] = session[u]
        /\ session' \in [Sessions -> SessionStates]
        /\ ~session'[t].open /\ session'[t].port = m.sport
    BY <1>2, <1>5, TftpAssumption DEF SharedTypeOK, SessionStates, Refused, NoSession
  <2>31. \A d \in net' : d \in Datagrams \/ Foreign(d)
    BY <1>1, <2>1, <2>2 DEF SharedTypeOK
  <2>4. SharedTypeOK' /\ ConnInv'
    BY <1>1, <2>3, <2>31 DEF SharedTypeOK, Foreign, ConnInv, Active, LocalPort, clientVars
  <2>41. ReplyInv'
    BY <1>1, <1>2, <2>1, <2>2 DEF ReplyInv
  <2>5. DataInv'
    BY <1>1, <2>1, <2>2, <2>3 DEF DataInv
  <2>6. AckInv' /\ RequestInv'
    BY <1>1, <2>1, <2>2 DEF AckInv, RequestInv, Active, RemotePort, clientVars
  <2>7. SessionInv'
    BY <1>1, <1>2, <2>3 DEF SessionInv, Active, Mine, RemotePort, clientVars
  <2>8. ClientInv'
    BY <1>1, <1>3, <2>3 DEF ClientInv, Active, Mine, RemotePort, clientVars
  <2>9. DestInv'
    BY <1>1, <2>3 DEF DestInv, RemotePort, clientVars
  <2> QED BY <2>4, <2>41, <2>5, <2>6, <2>7, <2>8, <2>9
<1> QED BY <1>4, <1>5 DEF ServerAccept

\* An acknowledgement moves a session on: it never gets ahead of the client.
LEMMA ServerAckInv ==
  ASSUME IInv, NEW m \in net, NEW rest \in Taken(m), NEW t \in Sessions,
         ServerAck(m, rest, t)
  PROVE  IInv'
<1> USE DEF IInv
<1>1. /\ m.data.op = "ack" /\ m.dport = t /\ session[t].open
      /\ m.sport = session[t].port
      /\ m.data.wire = session[t].blk % Wire
      /\ session[t].blk < LastBlock(session[t].file)
      /\ session' = [session EXCEPT ![t].blk = @ + 1]
      /\ net' = rest \cup {CurrentData(t)}
      /\ UNCHANGED <<conns, lastport, clientVars>>
      /\ rest \in SUBSET net
  BY DEF ServerAck, Taken
<1>2. /\ session[t] \in SessionStates
      /\ session[t].blk \in 1 .. LastBlock(session[t].file)
      /\ LastBlock(session[t].file) \in Nat
      /\ Wire \in Nat \ {0}
  <2>1. session[t].file \in Files
    BY DEF SharedTypeOK, SessionStates
  <2>2. FileSize[session[t].file] \in Nat
    BY <2>1, TftpAssumption
  <2>3. FileSize[session[t].file] \div MaxBlockSize \in Nat
    BY <2>2, TftpAssumption
  <2> QED BY <1>1, <2>3, TftpAssumption DEF SharedTypeOK, SessionInv, LastBlock
<1>3. /\ session'[t] = [session[t] EXCEPT !.blk = @ + 1]
      /\ \A u \in Sessions : u # t => session'[u] = session[u]
      /\ session' \in [Sessions -> SessionStates]
      /\ session'[t].blk = session[t].blk + 1
      /\ session'[t].open /\ session'[t].port = session[t].port
      /\ session'[t].file = session[t].file
      /\ session'[t].blk \in 1 .. LastBlock(session'[t].file)
  <2>1. session \in [Sessions -> SessionStates]
    BY DEF SharedTypeOK
  <2>2. /\ session'[t] = [session[t] EXCEPT !.blk = @ + 1]
        /\ \A u \in Sessions : u # t => session'[u] = session[u]
    BY <1>1, <2>1
  <2>3. /\ session'[t].blk = session[t].blk + 1
        /\ session'[t].open /\ session'[t].port = session[t].port
        /\ session'[t].file = session[t].file
    BY <1>1, <1>2, <2>2 DEF SessionStates
  <2>4. session'[t] \in SessionStates
    BY <1>2, <2>2 DEF SessionStates
  <2>5. session' \in [Sessions -> SessionStates]
    BY <1>1, <2>1, <2>2, <2>4
  <2>6. session'[t].blk \in 1 .. LastBlock(session'[t].file)
    BY <1>1, <1>2, <2>3
  <2> QED BY <2>2, <2>3, <2>5, <2>6
<1>4. ASSUME Active, Mine(t)
      PROVE  /\ tftp_blocknum > 1 /\ t = RemotePort
             /\ session[t].blk = tftp_blocknum - 1
  <2>1. /\ tftp_blocknum > 1 /\ t = RemotePort
        /\ m.data.wire \in 1 .. tftp_blocknum - 1
    BY <1>1, <1>4 DEF AckInv, Mine
  <2>2. /\ session[t].blk \in Nat
        /\ session[t].blk <= tftp_blocknum
        /\ session[t].blk >= tftp_blocknum - 1
        /\ tftp_blocknum \in 1 .. Wire
    BY <1>2, <1>4, <2>1 DEF SessionInv, ClientInv, SessionStates
  <2>3. session[t].blk % Wire = IF session[t].blk = Wire THEN 0 ELSE session[t].blk
    <3>1. session[t].blk \in 0 .. Wire
      BY <1>2, <2>2
    <3> QED BY <3>1, WireNumbers
  <2>4. session[t].blk # tftp_blocknum
    BY <1>1, <1>2, <2>1, <2>2, <2>3
  <2> QED BY <2>1, <2>2, <2>4
<1> DEFINE p == CurrentData(t)
<1>5. /\ p \in Datagrams
      /\ p.data.op = "data" /\ p.src = Server /\ p.dst = Me
      /\ p.sport = t
      /\ p.dport = session'[t].port
      /\ p.data.blk = session'[t].blk
      /\ p.data.len = BlockLen(session'[t].file, p.data.blk)
  BY <1>3, CurrentDataIs
<1> HIDE DEF p
<1>6. net' = rest \cup {p}
  BY <1>1 DEF p
<1>61. \A d \in net' : d \in Datagrams \/ Foreign(d)
  BY <1>1, <1>5, <1>6 DEF SharedTypeOK
<1>7. SharedTypeOK' /\ ConnInv'
  BY <1>1, <1>3, <1>61 DEF SharedTypeOK, Foreign, ConnInv, Active, LocalPort, clientVars
<1>71. ReplyInv'
  <2>1. session[t].port \in FirstPort .. lastport
    BY <1>1, <1>2, UdpAssumption DEF SessionInv, SharedTypeOK, SessionStates
  <2> QED BY <1>1, <1>3, <1>5, <1>6, <2>1 DEF ReplyInv
<1>8. DataInv'
  <2>1. \A u \in Sessions : /\ session[u].open => session'[u].open
                            /\ session'[u].port = session[u].port
                            /\ session'[u].file = session[u].file
                            /\ session[u].blk \in Nat /\ session'[u].blk \in Nat
                            /\ session'[u].blk >= session[u].blk
    <3>1. \A u \in Sessions : session[u].blk \in Nat
      BY DEF SharedTypeOK, SessionStates
    <3>2. session'[t].blk \in Nat /\ session'[t].blk >= session[t].blk
      BY <1>3, <3>1
    <3> QED BY <1>1, <1>3, <3>1, <3>2
  <2>2. \A d \in rest : d.data.op = "data" =>
          /\ d.src = Server /\ d.dst = Me
          /\ d.sport \in Sessions
          /\ session'[d.sport].open
          /\ session'[d.sport].port = d.dport
          /\ d.data.len <= MaxBlockSize =>
              /\ d.data.blk \in 1 .. session'[d.sport].blk
              /\ d.data.len = BlockLen(session'[d.sport].file, d.data.blk)
    BY <1>1, <2>1 DEF DataInv
  <2>3. /\ session'[t].open
        /\ p.data.blk \in 1 .. session'[t].blk
    BY <1>3, <1>5
  <2> QED BY <1>5, <1>6, <2>2, <2>3 DEF DataInv
<1>9. AckInv' /\ RequestInv'
  BY <1>1, <1>5, <1>6 DEF AckInv, RequestInv, Active, RemotePort, clientVars
<1>10. SessionInv'
  <2>1. session'[t].port <= lastport' /\ session'[t].port >= FirstPort
    BY <1>1, <1>3 DEF SessionInv
  <2>2. ASSUME Active', Mine(t)'
        PROVE  /\ session'[t].file = tftp_file'
               /\ session'[t].blk <= (IF t = RemotePort' THEN tftp_blocknum' ELSE 1)
    <3>1. Active /\ Mine(t) /\ RemotePort' = RemotePort
      BY <1>1, <1>3, <2>2 DEF Active, Mine, RemotePort, clientVars
    <3>2. tftp_blocknum \in Nat
      BY DEF SharedTypeOK
    <3> QED BY <1>1, <1>3, <1>4, <3>1, <3>2 DEF SessionInv, clientVars
  <2>3. \A u \in Sessions : u # t =>
           /\ session'[u].port <= lastport'
           /\ session'[u].open => session'[u].port >= FirstPort
           /\ session'[u].open => session'[u].blk \in 1 .. LastBlock(session'[u].file)
           /\ Active' /\ Mine(u)' =>
                /\ session'[u].file = tftp_file'
                /\ session'[u].blk <= (IF u = RemotePort' THEN tftp_blocknum' ELSE 1)
    BY <1>1, <1>3 DEF SessionInv, Active, Mine, RemotePort, clientVars
  <2> QED BY <1>3, <2>1, <2>2, <2>3 DEF SessionInv
<1>11. ClientInv'
  BY <1>1, <1>2, <1>3 DEF ClientInv, Active, Mine, RemotePort, clientVars, SharedTypeOK, SessionStates
<1>12. DestInv'
  BY <1>1, <1>3 DEF DestInv, RemotePort, clientVars
<1> QED BY <1>7, <1>71, <1>8, <1>9, <1>10, <1>11, <1>12

\* net_poll() and what tftp_read() does with it.
LEMMA PollInv ==
  ASSUME IInv, PollNothing \/ \E m \in net : Poll(m)
  PROVE  IInv'
<1>1. CASE PollNothing
  <2>1. net \in SUBSET net
    OBVIOUS
  <2> QED BY <1>1, <2>1, NoBlockInv DEF PollNothing, tftpVars, clientVars
<1>2. CASE \E m \in net : Poll(m)
  <2>1. PICK m \in ToMe : Poll(m)
    BY <1>2 DEF Poll
  <2>2. PICK rest \in Taken(m) :
          PollUnmatched(m, rest) \/ (Matching(m) # {} /\ PollMatched(m, rest))
    BY <2>1 DEF Poll
  <2>3. tftp_status = Pending /\ rest \in SUBSET net
    BY <2>1, <2>2 DEF Poll, Taken
  <2>4. CASE PollUnmatched(m, rest)
    BY <2>3, <2>4, NoBlockInv DEF PollUnmatched, tftpVars, clientVars
  <2>5. CASE Matching(m) # {} /\ PollIgnored(m, rest)
    BY <2>1, <2>3, <2>5, NoBlockInv DEF PollIgnored, tftpVars, clientVars
  <2>6. CASE Matching(m) # {} /\ PollFailure(m, rest)
    BY <2>1, <2>3, <2>6, NoBlockInv DEF PollFailure
  <2>7. CASE Matching(m) # {} /\ PollBlock(m, rest)
    BY <2>3, <2>7, PollBlockInv
  <2> QED BY <2>2, <2>4, <2>5, <2>6, <2>7 DEF PollMatched
<1> QED BY <1>1, <1>2

LEMMA ServerStepInv ==
  ASSUME IInv, ServerStep
  PROVE  IInv'
BY ServerAcceptInv, ServerAckInv, ServerResendInv, ServerStrayInv DEF ServerStep, ServerReceive

\* What another client does, to connections and with packets of its own, is nothing to
\* this one.
LEMMA ForeignInv ==
  ASSUME IInv, UNCHANGED tftpVars,
         \A m \in net' : m \in net \/ Foreign(m),
         conns' \in [Slots -> [lport : Nat, rport : Nat, ripaddr : {Broadcast, Server}]],
         \A s \in Slots : s # tftp_conn => Elsewhere(conns'[s]),
         Active => conns'[tftp_conn] = conns[tftp_conn] /\ lastport' = lastport,
         lastport' \in Ports, lastport <= lastport'
  PROVE  IInv'
<1> USE DEF IInv, tftpVars, clientVars
<1>1. lastport' \in Nat /\ lastport \in Nat /\ (Active' <=> Active)
  BY UdpAssumption DEF Ports, SharedTypeOK, Active
<1>2. Active => RemotePort' = RemotePort /\ LocalPort' = LocalPort
  BY DEF RemotePort, LocalPort
<1>3. SharedTypeOK'
  <2>1. \A m \in net' : m \in Datagrams \/ Foreign(m)
    BY DEF SharedTypeOK
  <2> QED BY <1>1, <2>1 DEF SharedTypeOK, Foreign
<1>4. ConnInv'
  BY <1>1, <1>2 DEF ConnInv, Active
<1>5. ReplyInv'
  <2>1. \A x : x \in FirstPort .. lastport => x \in FirstPort .. lastport'
    BY <1>1, UdpAssumption
  <2> QED BY <2>1 DEF ReplyInv, Foreign
<1>6. DataInv'
  BY DEF DataInv, Foreign
<1>7. AckInv'
  <2>1. \A m \in net : m.data.op = "ack" => m.sport \in Nat
    BY DEF SharedTypeOK, Datagrams, Foreign
  <2> QED BY <1>1, <1>2, <2>1 DEF AckInv, Foreign, Active
<1>8. RequestInv'
  <2>1. \A x : x \in FirstPort .. lastport => x \in FirstPort .. lastport'
    BY <1>1, UdpAssumption
  <2> QED BY <1>1, <2>1 DEF RequestInv, Foreign, Active
<1>9. SessionInv'
  <2>1. \A t \in Sessions : session[t].port \in Nat
    BY DEF SharedTypeOK, SessionStates
  <2> QED BY <1>1, <1>2, <2>1 DEF SessionInv, Mine, Active
<1>10. ClientInv'
  BY <1>1, <1>2 DEF ClientInv, Mine, Active
<1>11. DestInv'
  <2>1. tftp_status \in {Pending, Failure} => Active
    BY DEF ConnInv, Active, Idle, Pending, Failure
  <2> QED BY <1>2, <2>1 DEF DestInv
<1> QED BY <1>3, <1>4, <1>5, <1>6, <1>7, <1>8, <1>9, <1>10, <1>11

LEMMA StepInv == IInv /\ Alone /\ [Next]_vars => IInv'
<1> SUFFICES ASSUME IInv, Alone, [Next]_vars PROVE IInv'
  OBVIOUS
<1>1. CASE \E f \in Files : TftpRead(f)
  <2>1. FreeSlots # {} /\ lastport + 1 < PortLimit
    BY <1>1, FreshAlone DEF TftpRead
  <2> QED BY <1>1, <2>1, TftpReadInv
<1>2. CASE PollNothing \/ \E m \in net : Poll(m)
  BY <1>2, PollInv
<1>3. CASE TftpReturn
  BY <1>3, TftpReturnInv
<1>4. CASE ServerStep
  BY <1>4, ServerStepInv
<1>5. CASE UNCHANGED vars
  BY <1>5 DEF vars, udpVars, tftpVars, clientVars, IInv, SharedTypeOK, Foreign, ConnInv, ReplyInv,
     DataInv, AckInv, RequestInv, SessionInv, ClientInv, DestInv, Active, Mine, LocalPort, RemotePort
<1> QED BY <1>1, <1>2, <1>3, <1>4, <1>5 DEF Next, Client

\* Nothing but packets of this client and its server is sent.
LEMMA NewPackets ==
  ASSUME [Next]_vars, NEW m \in net', m \notin net
  PROVE  m.data.op # "dhcp"
<1>1. ASSUME NEW cs, NEW packets \in SUBSET net, Resend(cs, packets)
      PROVE  m.data.op # "dhcp"
  BY <1>1 DEF Resend, LastSent, Outgoing, ReadReq, LastAck, Ack
<1>2. CASE \E f \in Files : TftpRead(f)
  BY <1>2 DEF TftpRead, Outgoing, ReadReq
<1>3. CASE PollNothing
  <2>1. net \in SUBSET net
    OBVIOUS
  <2> QED BY <1>1, <1>3, <2>1 DEF PollNothing
<1>4. CASE \E d \in net : Poll(d)
  <2>1. PICK d \in net : Poll(d)
    BY <1>4
  <2>2. PICK rest \in Taken(d) :
          PollUnmatched(d, rest) \/ (Matching(d) # {} /\ PollMatched(d, rest))
    BY <2>1 DEF Poll
  <2>3. rest \in SUBSET net
    BY <2>2 DEF Taken
  <2>4. CASE PollUnmatched(d, rest) \/ PollIgnored(d, rest) \/ PollFailure(d, rest)
    BY <1>1, <2>3, <2>4 DEF PollUnmatched, PollIgnored, PollFailure
  <2>5. CASE PollBlock(d, rest)
    <3>1. CASE Short(d)
      BY <1>1, <2>3, <2>5, <3>1 DEF PollBlock
    <3>2. CASE ~Short(d)
      BY <2>3, <2>5, <3>2 DEF PollBlock, Outgoing, Ack
    <3> QED BY <3>1, <3>2
  <2> QED BY <2>2, <2>4, <2>5 DEF PollMatched
<1>5. CASE TftpReturn
  BY <1>5 DEF TftpReturn
<1>6. CASE ServerStep
  BY <1>6 DEF ServerStep, ServerReceive, ServerAccept, ServerAck, ServerResend, ServerStray,
     Taken, CurrentData, FromSession, Incoming, Data, Error, Other
<1>7. CASE UNCHANGED vars
  BY <1>7 DEF vars, udpVars
<1> QED BY <1>2, <1>3, <1>4, <1>5, <1>6, <1>7 DEF Next, Client

\* A poll changes no connection but for the remote port.
LEMMA PollKeepsPorts ==
  ASSUME IInv, PollNothing \/ \E m \in net : Poll(m)
  PROVE  \A s \in Slots : conns'[s].lport = conns[s].lport
<1>1. ASSUME NEW cs, NEW s \in Slots, NEW q \in Slots, NEW v,
             cs \in [Slots -> [lport : Nat, rport : Nat, ripaddr : {Broadcast, Server}]]
      PROVE  [cs EXCEPT ![q].rport = v][s].lport = cs[s].lport
  BY <1>1
<1>2. ASSUME tftp_status = Pending, NEW cs, NEW packets \in SUBSET net,
             cs = conns \/ (\E m \in ToMe : Matching(m) # {} /\ cs = LearnPort(m)),
             Resend(cs, packets)
      PROVE  conns' = conns
  BY <1>2, ResendKeeps
<1>3. CASE PollNothing
  <2>1. net \in SUBSET net
    OBVIOUS
  <2> QED BY <1>2, <1>3, <2>1 DEF PollNothing
<1>4. CASE \E m \in net : Poll(m)
  <2>1. PICK m \in ToMe : Poll(m)
    BY <1>4 DEF Poll
  <2>2. PICK rest \in Taken(m) :
          PollUnmatched(m, rest) \/ (Matching(m) # {} /\ PollMatched(m, rest))
    BY <2>1 DEF Poll
  <2>3. tftp_status = Pending /\ rest \in SUBSET net
    BY <2>1, <2>2 DEF Poll, Taken
  <2>4. CASE PollUnmatched(m, rest) \/ (Matching(m) # {} /\ (PollIgnored(m, rest) \/ PollFailure(m, rest)))
    BY <1>2, <2>1, <2>3, <2>4 DEF PollUnmatched, PollIgnored, PollFailure
  <2>5. CASE Matching(m) # {} /\ PollBlock(m, rest)
    <3>1. CASE Short(m)
      BY <1>2, <2>1, <2>3, <2>5, <3>1 DEF PollBlock
    <3>2. CASE ~Short(m)
      <4>1. m \in net /\ m.dst = Me /\ m \in Datagrams
        BY <2>5 DEF ToMe, PollBlock, Expected, IInv, SharedTypeOK, Foreign
      <4>2. Demux(m) = tftp_conn /\ tftp_conn \in Slots
        BY <2>5, <4>1, DemuxIsOurs
      <4> DEFINE port == IF conns[tftp_conn].rport = 0 THEN m.sport ELSE conns[tftp_conn].rport
      <4>3. conns' = [conns EXCEPT ![tftp_conn].rport = port]
        BY <2>5, <3>2, <4>2 DEF PollBlock, LearnPort
      <4> HIDE DEF port
      <4> QED BY <1>1, <4>2, <4>3 DEF IInv, SharedTypeOK
    <3> QED BY <3>1, <3>2
  <2> QED BY <2>2, <2>4, <2>5 DEF PollMatched
<1> QED BY <1>3, <1>4

LEMMA AloneStep == IInv /\ Alone /\ [Next]_vars => Alone'
<1> SUFFICES ASSUME IInv, Alone, [Next]_vars PROVE Alone'
  OBVIOUS
<1>1. net' \subseteq Datagrams
  <2>1. \A m \in net' : m \in Datagrams \/ Foreign(m)
    BY StepInv DEF IInv, SharedTypeOK, Foreign
  <2> QED BY <2>1, NewPackets DEF Alone, Foreign
<1>2. CASE \E f \in Files : TftpRead(f)
  <2>1. tftp_status = Idle /\ tftp_reads < MaxReads /\ tftp_reads' = tftp_reads + 1
        /\ lastport' = NextPort /\ tftp_conn = 0
    BY <1>2 DEF TftpRead, IInv, ConnInv
  <2>2. lastport + 1 < PortLimit /\ FreeSlots = Slots /\ FreeSlots # {}
    BY <2>1, FreshAlone
  <2>3. \A s \in Slots : conns[s].lport = 0
    BY <2>2 DEF FreeSlots
  <2>4. lastport' = lastport + 1
    <3>1. lastport \in Nat /\ lastport + 1 # 0
      BY DEF IInv, SharedTypeOK
    <3> QED BY <2>1, <2>2, <2>3, <3>1, FreshPort DEF IInv, ConnInv
  <2>5. \A s \in Slots : s # tftp_conn' => conns'[s] = conns[s]
    BY <1>2, <2>2 DEF TftpRead, UdpNew, IInv, SharedTypeOK
  <2>6. tftp_reads' <= MaxReads /\ lastport' = FirstPort + tftp_reads'
    BY <2>1, <2>4, TftpAssumption, UdpAssumption DEF Alone, IInv, SharedTypeOK
  <2> QED BY <1>1, <2>3, <2>5, <2>6 DEF Alone
<1>3. CASE PollNothing \/ \E m \in net : Poll(m)
  <2>1. UNCHANGED <<lastport, tftp_reads, tftp_conn>>
    BY <1>3 DEF PollNothing, Poll, PollUnmatched, PollMatched, PollIgnored, PollFailure, PollBlock,
       tftpVars, clientVars
  <2> QED BY <1>1, <1>3, <2>1, PollKeepsPorts DEF Alone
<1>4. CASE TftpReturn
  <2>1. tftp_conn \in Slots /\ tftp_conn' = 0 /\ conns' = [conns EXCEPT ![tftp_conn].lport = 0]
        /\ UNCHANGED <<lastport, tftp_reads>>
    BY <1>4 DEF TftpReturn, UdpRemove, IInv, ConnInv, SharedTypeOK, Idle, Success, Failure
  <2>2. \A s \in Slots : conns'[s].lport = 0
    BY <2>1 DEF Alone, IInv, SharedTypeOK
  <2> QED BY <1>1, <2>1, <2>2 DEF Alone
<1>5. CASE ServerStep
  BY <1>1, <1>5 DEF Alone, ServerStep, ServerReceive, ServerAccept, ServerAck, ServerResend, ServerStray,
     clientVars
<1>6. CASE UNCHANGED vars
  BY <1>1, <1>6 DEF Alone, vars, udpVars, tftpVars, clientVars
<1> QED BY <1>2, <1>3, <1>4, <1>5, <1>6 DEF Next, Client

\* The only client finds a connection.
LEMMA AloneFree ==
  ASSUME IInv, Alone
  PROVE  tftp_status = Idle => FreeSlots # {}
<1>1. 1 \in Slots /\ 0 \notin Slots
  BY UdpAssumption DEF Slots
<1> QED BY <1>1 DEF Alone, IInv, ConnInv, FreeSlots

LEMMA Invariance == Spec => [](IInv /\ Alone)
<1>1. Init => Alone
  <2> SUFFICES ASSUME Init PROVE Alone
    OBVIOUS
  <2>1. lastport = FirstPort /\ tftp_reads = 0 /\ net = {} /\ conns = [s \in Slots |-> FreeConn]
    BY DEF Init, UdpInit, TftpInit
  <2>2. FirstPort + 0 = FirstPort /\ 0 <= MaxReads
    BY UdpAssumption, TftpAssumption
  <2> QED BY <2>1, <2>2 DEF Alone, FreeConn
<1> QED BY <1>1, InitInv, StepInv, AloneStep, PTL DEF Spec

-----------------------------------------------------------------------------
(***************************************************************************)
(* The theorems.                                                           *)
(***************************************************************************)

\* Every variable of the client, the server and the network keeps its type.
THEOREM TypeCorrect == Spec => []TypeOK
<1>1. IInv /\ Alone => TypeOK
  BY DEF IInv, Alone, SharedTypeOK, TypeOK
<1> QED BY <1>1, Invariance, PTL

\* What tftp_read() has copied is the start of the file it was asked for, in
\* order and from one session, for every loss, repetition and reordering of
\* packets and every number of sessions the repeated requests open.
THEOREM PrefixSafety == Spec => []ReceivedIsPrefix
<1>1. IInv => ReceivedIsPrefix
  <2> SUFFICES ASSUME IInv, Active, tftp_dest # <<>>
               PROVE  StartOfFile(tftp_dest)
    BY DEF ReceivedIsPrefix, Active
  <2> USE DEF IInv, Idle, Pending, Success, Failure
  <2>1. tftp_blocknum \in 1 .. Wire /\ Wire \in Nat
    BY TftpAssumption DEF ClientInv
  <2>2. CASE tftp_status = Success
    <3>1. PICK t \in Sessions :
            /\ session[t].file = tftp_file
            /\ tftp_dest = [i \in 1 .. tftp_blocknum |-> <<t, i>>]
      BY <2>2 DEF DestInv
    <3>2. Len(tftp_dest) = tftp_blocknum
      BY <2>1, <3>1
    <3> QED BY <3>1, <3>2 DEF StartOfFile
  <2>3. CASE tftp_status # Success
    <3>1. tftp_dest = [i \in 1 .. tftp_blocknum - 1 |-> <<RemotePort, i>>]
      BY <2>3 DEF DestInv, ConnInv, SharedTypeOK, Active
    <3>2. tftp_blocknum - 1 \in Nat
      BY <2>1
    <3>3. Len(tftp_dest) = tftp_blocknum - 1
      BY <3>1, <3>2
    <3>4. tftp_blocknum > 1
      <4>1. tftp_blocknum = 1 => tftp_dest = <<>>
        BY <3>1
      <4> QED BY <2>1, <4>1
    <3>5. RemotePort \in Sessions /\ session[RemotePort].file = tftp_file
      BY <3>4 DEF ClientInv, SessionInv, Mine
    <3> QED BY <3>1, <3>3, <3>5 DEF StartOfFile
  <2> QED BY <2>2, <2>3
<1> QED BY <1>1, Invariance, PTL

\* The session a transfer is bound to is at the block the client awaits or the
\* one before: a repeated acknowledgement never makes the server skip a block.
THEOREM LockstepSafety == Spec => []Lockstep
<1>1. IInv => Lockstep
  <2> SUFFICES ASSUME IInv, tftp_status = Pending, tftp_blocknum > 1
               PROVE  /\ RemotePort \in Sessions
                      /\ session[RemotePort].port = LocalPort
                      /\ session[RemotePort].blk \in {tftp_blocknum - 1, tftp_blocknum}
    BY DEF Lockstep
  <2> USE DEF IInv, Idle, Pending
  <2>1. Active /\ LocalPort = lastport
    BY DEF ConnInv, Active
  <2>2. RemotePort \in Sessions /\ Mine(RemotePort)
    BY <2>1 DEF ClientInv
  <2>3. /\ session[RemotePort].blk \in Nat /\ tftp_blocknum \in Nat
        /\ session[RemotePort].blk <= tftp_blocknum
        /\ session[RemotePort].blk >= tftp_blocknum - 1
    BY <2>1, <2>2 DEF ClientInv, SessionInv, SharedTypeOK, SessionStates
  <2> QED BY <2>1, <2>2, <2>3 DEF Mine
<1> QED BY <1>1, Invariance, PTL

\* Between calls the table holds no connection: tftp_read() gives up its own on
\* every path.
THEOREM NoLeakedConn == Spec => []ConnReleased
<1>1. IInv /\ Alone => ConnReleased
  BY UdpAssumption DEF IInv, Alone, ConnReleased, ConnInv, FreeSlots, Slots
<1> QED BY <1>1, Invariance, PTL

-----------------------------------------------------------------------------
(***************************************************************************)
(* What is proved on top of the invariant: the steps of the client, seen   *)
(* by what they send and by what they copy.                                *)
(***************************************************************************)

\* Only the call that runs acknowledges anything.
LEMMA AcksOfThisCall ==
  ASSUME IInv, [Next]_vars, NEW a \in net', a \notin net, a.data.op = "ack"
  PROVE  Active' /\ a.sport = lastport'
<1> USE DEF IInv, Idle, Pending, Success, Failure
<1>1. ASSUME NEW f \in Files, TftpRead(f) PROVE FALSE
  <2>1. PICK c : net' = net \/ net' = net \cup {Outgoing(c, ReadReq(f))}
    BY <1>1 DEF TftpRead
  <2> QED BY <2>1 DEF Outgoing, ReadReq
<1>2. ASSUME tftp_status = Pending,
             NEW cs, NEW packets \in SUBSET net,
             cs = conns \/ (\E m \in ToMe : Matching(m) # {} /\ cs = LearnPort(m)),
             Resend(cs, packets), UNCHANGED <<lastport, tftp_conn>>
      PROVE  Active' /\ a.sport = lastport'
  <2>1. Active /\ \E p \in Datagrams : net' = packets \cup {p} /\ p.sport = lastport
    BY <1>2, ResendKeeps
  <2> QED BY <1>2, <2>1 DEF Active
<1>3. CASE PollNothing
  <2>1. net \in SUBSET net
    OBVIOUS
  <2> QED BY <1>2, <1>3, <2>1 DEF PollNothing, tftpVars, clientVars
<1>4. CASE \E m \in net : Poll(m)
  <2>1. PICK m \in ToMe : Poll(m)
    BY <1>4 DEF Poll
  <2>2. PICK rest \in Taken(m) :
          PollUnmatched(m, rest) \/ (Matching(m) # {} /\ PollMatched(m, rest))
    BY <2>1 DEF Poll
  <2>3. tftp_status = Pending /\ rest \in SUBSET net
    BY <2>1, <2>2 DEF Poll, Taken
  <2>4. CASE PollUnmatched(m, rest)
    BY <1>2, <2>3, <2>4 DEF PollUnmatched, tftpVars, clientVars
  <2>5. CASE Matching(m) # {} /\ (PollIgnored(m, rest) \/ PollFailure(m, rest))
    BY <1>2, <2>1, <2>3, <2>5 DEF PollIgnored, PollFailure, tftpVars, clientVars
  <2>6. CASE Matching(m) # {} /\ PollBlock(m, rest) /\ Short(m)
    BY <1>2, <2>1, <2>3, <2>6 DEF PollBlock
  <2>7. CASE Matching(m) # {} /\ PollBlock(m, rest) /\ ~Short(m)
    <3>0. m \in net /\ m.dst = Me /\ m \in Datagrams
      BY <2>7 DEF ToMe, PollBlock, Expected, SharedTypeOK, Foreign
    <3>1. Active /\ Demux(m) = tftp_conn /\ tftp_conn \in Slots /\ LocalPort = lastport
      BY <2>7, <3>0, DemuxIsOurs DEF ConnInv
    <3>2. LearnPort(m)[tftp_conn].lport = lastport
      BY <3>1 DEF LearnPort, LocalPort, SharedTypeOK
    <3> QED BY <2>3, <2>7, <3>1, <3>2 DEF PollBlock, Outgoing, Active
  <2> QED BY <2>2, <2>4, <2>5, <2>6, <2>7 DEF PollMatched
<1>5. CASE TftpReturn
  BY <1>5 DEF TftpReturn
<1>6. CASE ServerStep
  BY <1>6 DEF ServerStep, ServerReceive, ServerAccept, ServerAck, ServerResend, ServerStray,
     Taken, CurrentData, FromSession, Incoming, Data, Error, Other
<1>7. CASE UNCHANGED vars
  BY <1>7 DEF vars, udpVars
<1> QED BY <1>1, <1>3, <1>4, <1>5, <1>6, <1>7 DEF Next, Client

\* A step of tftp_read() that copies a block, as its caller sees it.
Copies ==
  LET n == tftp_blocknum
      len == BlockLen(tftp_file, n)
  IN  /\ tftp_status = Pending /\ n \in 1 .. LastBlock(tftp_file)
      /\ tftp_total_size' = tftp_total_size + len /\ tftp_total_size' <= MaxSize
      /\ \E t \in Sessions :
           /\ tftp_dest = [i \in 1 .. n - 1 |-> <<t, i>>]
           /\ tftp_dest' = Append(tftp_dest, <<t, n>>)
      /\ UNCHANGED tftp_file
      /\ IF n = LastBlock(tftp_file)
         THEN tftp_status' = Success
         ELSE tftp_status' = Pending /\ tftp_blocknum' = n + 1

\* ... and every step.
LEMMA CallerSees ==
  ASSUME IInv, [Next]_vars, tftp_status = Idle => FreeSlots # {}
  PROVE  \/ Copies
         \/ /\ tftp_status = Idle /\ tftp_status' = Pending
            /\ tftp_file' \in Files
            /\ tftp_dest' = <<>> /\ tftp_total_size' = 0 /\ tftp_blocknum' = 1
         \/ /\ UNCHANGED <<tftp_dest, tftp_file, tftp_total_size, tftp_blocknum>>
            /\ \/ UNCHANGED tftp_status
               \/ tftp_status = Pending /\ tftp_status' = Failure
               \/ tftp_status \in {Success, Failure} /\ tftp_status' = Idle
<1> USE DEF IInv, Idle, Pending, Success, Failure
<1>1. ASSUME NEW f \in Files, TftpRead(f)
      PROVE  /\ tftp_status = Idle /\ tftp_status' = Pending
             /\ tftp_file' \in Files
             /\ tftp_dest' = <<>> /\ tftp_total_size' = 0 /\ tftp_blocknum' = 1
  <2>1. FreeSlots # {}
    BY <1>1 DEF TftpRead
  <2> QED BY <1>1, <2>1 DEF TftpRead
<1>2. ASSUME NEW m \in ToMe, NEW rest \in Taken(m), tftp_status = Pending,
             Matching(m) # {}, PollBlock(m, rest)
      PROVE  Copies
  <2> DEFINE n == tftp_blocknum
  <2>1. /\ Expected(m) /\ m.data.len <= MaxBlockSize /\ Fits(m)
        /\ tftp_dest' = Append(tftp_dest, <<m.sport, m.data.blk>>)
        /\ tftp_total_size' = tftp_total_size + m.data.len
        /\ UNCHANGED tftp_file
    BY <1>2 DEF PollBlock
  <2>2. /\ m.sport \in Sessions /\ m.data.blk = n
        /\ n \in 1 .. LastBlock(tftp_file)
        /\ m.data.len = BlockLen(tftp_file, n)
        /\ tftp_dest = [i \in 1 .. n - 1 |-> <<m.sport, i>>]
    BY <1>2, <2>1, ExpectedBlock
  <2>3. /\ m.data.len \in Nat /\ tftp_total_size \in Nat /\ MaxSize \in Nat
        /\ m.data.len < MaxBlockSize <=> n = LastBlock(tftp_file)
    BY <2>2, ShortIsLast, TftpAssumption DEF SharedTypeOK
  <2>4. tftp_total_size' <= MaxSize
    BY <2>1, <2>3 DEF Fits
  <2> QED BY <1>2, <2>1, <2>2, <2>3, <2>4 DEF PollBlock, Short, Copies
<1>3. CASE PollNothing
  BY <1>3 DEF PollNothing, tftpVars, clientVars
<1>4. CASE \E m \in net : Poll(m)
  <2>1. PICK m \in ToMe : Poll(m)
    BY <1>4 DEF Poll
  <2>2. PICK rest \in Taken(m) :
          PollUnmatched(m, rest) \/ (Matching(m) # {} /\ PollMatched(m, rest))
    BY <2>1 DEF Poll
  <2>3. tftp_status = Pending
    BY <2>1 DEF Poll
  <2>4. CASE PollUnmatched(m, rest) \/ PollIgnored(m, rest) \/ PollFailure(m, rest)
    BY <2>3, <2>4 DEF PollUnmatched, PollIgnored, PollFailure, tftpVars, clientVars
  <2>5. CASE Matching(m) # {} /\ PollBlock(m, rest)
    BY <1>2, <2>3, <2>5
  <2> QED BY <2>2, <2>4, <2>5 DEF PollMatched
<1>5. CASE TftpReturn
  BY <1>5 DEF TftpReturn
<1>6. CASE ServerStep
  BY <1>6 DEF ServerStep, ServerReceive, ServerAccept, ServerAck, ServerResend, ServerStray, clientVars
<1>7. CASE UNCHANGED vars
  BY <1>7 DEF vars, tftpVars, clientVars
<1> QED BY <1>1, <1>3, <1>4, <1>5, <1>6, <1>7 DEF Next, Client

\* A session that is open stays open, for the same file.
LEMMA OpenStays ==
  ASSUME IInv, [Next]_vars, NEW t \in Sessions, session[t].open
  PROVE  session'[t].open /\ session'[t].file = session[t].file
<1>1. session \in [Sessions -> SessionStates]
  BY DEF IInv, SharedTypeOK
<1>2. CASE UNCHANGED session
  BY <1>2
<1>3. ASSUME NEW m, NEW rest, NEW u \in Sessions, ServerAccept(m, rest, u)
      PROVE  session'[t].open /\ session'[t].file = session[t].file
  <2>0. ~NoSession.open /\ ~Refused(m.sport).open
    BY DEF NoSession, Refused
  <2>1. ~session[u].open
    BY <1>3, <2>0 DEF ServerAccept
  <2>2. session'[t] = session[t]
    BY <1>3, <1>1, <2>1 DEF ServerAccept
  <2> QED BY <2>2
<1>4. ASSUME NEW m, NEW rest, NEW u \in Sessions, ServerAck(m, rest, u)
      PROVE  session'[t].open /\ session'[t].file = session[t].file
  BY <1>4, <1>1 DEF ServerAck, SessionStates
<1>5. CASE ServerStep
  BY <1>2, <1>3, <1>4, <1>5 DEF ServerStep, ServerReceive, ServerResend, ServerStray
<1>6. CASE Client \/ UNCHANGED vars
  BY <1>2, <1>6 DEF Client, TftpRead, PollNothing, Poll, PollUnmatched, PollMatched, PollIgnored,
     PollFailure, PollBlock, TftpReturn, vars, tftpVars
<1> QED BY <1>5, <1>6 DEF Next

\* tftp_read() succeeds with all blocks of its file, of one session.
LEMMA SuccessIsWhole ==
  ASSUME IInv, tftp_status = Success
  PROVE  \E t \in Sessions :
           /\ session[t].open
           /\ session[t].file = tftp_file
           /\ tftp_dest = [i \in 1 .. LastBlock(tftp_file) |-> <<t, i>>]
BY DEF IInv, DestInv

\* Whole blocks and what is left.
LEMMA DivMod ==
  ASSUME NEW y \in Nat, NEW a \in Nat \ {0}
  PROVE  y = (y \div a) * a + (y % a)
OBVIOUS

\* The full blocks before the one awaited have been counted, and all of the file
\* when the last one has arrived.
LEMMA SizeStep ==
  ASSUME IInv, [Next]_vars, tftp_status = Idle => FreeSlots # {}, SizeIsExact
  PROVE  SizeIsExact'
<1> USE DEF Idle, Pending, Success, Failure
<1>1. CASE Copies
  <2> DEFINE n == tftp_blocknum
             f == tftp_file
             last == FileSize[f] \div MaxBlockSize
  <2>1. /\ n \in 1 .. LastBlock(f) /\ f \in Files
        /\ FileSize[f] \in Nat /\ MaxBlockSize \in Nat \ {0} /\ last \in Nat
        /\ LastBlock(f) = last + 1
        /\ tftp_total_size = (n - 1) * MaxBlockSize
        /\ tftp_total_size' = tftp_total_size + BlockLen(f, n) /\ tftp_total_size' <= MaxSize
    BY <1>1, TftpAssumption DEF Copies, SizeIsExact, IInv, SharedTypeOK, LastBlock
  <2>2. CASE n = LastBlock(f)
    <3>1. tftp_status' = Success /\ tftp_file' = f
      BY <1>1, <2>2 DEF Copies
    <3>2. FileSize[f] = last * MaxBlockSize + (FileSize[f] % MaxBlockSize)
      BY <2>1, DivMod
    <3>3. tftp_total_size = last * MaxBlockSize
      BY <2>1, <2>2
    <3>4. BlockLen(f, n) = FileSize[f] % MaxBlockSize
      BY <2>1, <2>2 DEF BlockLen
    <3>5. Len(tftp_dest') = n
      <4>1. PICK t \in Sessions : /\ tftp_dest = [i \in 1 .. n - 1 |-> <<t, i>>]
                                  /\ tftp_dest' = Append(tftp_dest, <<t, n>>)
        BY <1>1 DEF Copies
      <4>2. tftp_dest \in Seq(Sessions \X Nat) /\ Len(tftp_dest) = n - 1
        BY <2>1, <4>1 DEF IInv, SharedTypeOK
      <4> QED BY <2>1, <4>1, <4>2
    <3>6. tftp_total_size' = FileSize[f]
      BY <2>1, <3>2, <3>3, <3>4
    <3> QED BY <2>1, <2>2, <3>1, <3>5, <3>6 DEF SizeIsExact
  <2>3. CASE n # LastBlock(f)
    <3>1. tftp_status' = Pending /\ tftp_blocknum' = n + 1
      BY <1>1, <2>3 DEF Copies
    <3>2. BlockLen(f, n) = MaxBlockSize
      BY <2>1, <2>3 DEF BlockLen
    <3>3. (n - 1) * MaxBlockSize + MaxBlockSize = n * MaxBlockSize
      BY <2>1
    <3> QED BY <2>1, <3>1, <3>2, <3>3 DEF SizeIsExact
  <2> QED BY <2>2, <2>3
<1>2. CASE /\ tftp_status' = Pending
           /\ tftp_total_size' = 0 /\ tftp_blocknum' = 1
  BY <1>2, TftpAssumption DEF SizeIsExact
<1>3. CASE /\ UNCHANGED <<tftp_dest, tftp_file, tftp_total_size, tftp_blocknum>>
           /\ tftp_status' \in {tftp_status, Failure, Idle}
  BY <1>3 DEF SizeIsExact
<1> QED BY <1>1, <1>2, <1>3, CallerSees

-----------------------------------------------------------------------------
(***************************************************************************)
(* More theorems.                                                          *)
(***************************************************************************)

\* However many sessions the repeated requests of a call open, it acknowledges
\* blocks of only one of them.
THEOREM OneSession == Spec => []OneSessionAcked
<1>1. Init => OneSessionAcked
  BY DEF Init, UdpInit, OneSessionAcked
<1>2. IInv /\ Alone /\ OneSessionAcked /\ [Next]_vars => OneSessionAcked'
  <2> SUFFICES ASSUME IInv, Alone, OneSessionAcked, [Next]_vars,
                      NEW a \in net', NEW b \in net',
                      a.data.op = "ack", b.data.op = "ack", a.sport = b.sport
               PROVE  a.dport = b.dport
    BY DEF OneSessionAcked
  <2>1. CASE a \in net /\ b \in net
    BY <2>1 DEF OneSessionAcked
  <2>2. CASE a \notin net \/ b \notin net
    <3>1. Active' /\ a.sport = lastport'
      BY <2>2, AcksOfThisCall
    <3>2. AckInv'
      BY StepInv DEF IInv
    <3> QED BY <3>1, <3>2 DEF AckInv
  <2> QED BY <2>1, <2>2
<1> QED BY <1>1, <1>2, Invariance, PTL DEF Spec

\* tftp_read() counts exactly what it has copied, never passes the end of the
\* destination and succeeds with the whole file and its size.
THEOREM SizeSafety == Spec => []SizeIsExact
<1>1. Init => SizeIsExact
  BY TftpAssumption DEF Init, TftpInit, SizeIsExact, Idle, Pending, Success
<1>2. IInv /\ Alone /\ SizeIsExact /\ [Next]_vars => SizeIsExact'
  BY SizeStep, AloneFree
<1> QED BY <1>1, <1>2, Invariance, PTL DEF Spec

\* tftp_read() implements the transfer of a file that netboot() relies on: each of
\* its steps is a step of FileTransfer or none.
THEOREM TftpIsFileTransfer == Spec => ImplementsFileTransfer
<1> USE DEF Idle, Pending, Success, Failure
<1>1. Init => Transfer!Init
  BY DEF Init, TftpInit, Transfer!Init
<1>2. IInv /\ Alone /\ SizeIsExact /\ [Next]_vars => [Transfer!Next]_(Transfer!vars)
  <2> SUFFICES ASSUME IInv, Alone, SizeIsExact, [Next]_vars
               PROVE  [Transfer!Next]_(Transfer!vars)
    OBVIOUS
  <2>1. CASE Copies
    <3> DEFINE n == tftp_blocknum
    <3>1. PICK t \in Sessions : /\ tftp_dest = [i \in 1 .. n - 1 |-> <<t, i>>]
                                /\ tftp_dest' = Append(tftp_dest, <<t, n>>)
      BY <2>1 DEF Copies
    <3>2. n \in Nat /\ n >= 1 /\ n \in 1 .. LastBlock(tftp_file) /\ tftp_file \in Files
      BY <2>1 DEF Copies, IInv, SharedTypeOK
    <3>3. Len(tftp_dest) = n - 1
      BY <3>1, <3>2
    <3>4. tftp_dest # <<>> => tftp_dest[1][1] = t
      <4>1. CASE n = 1
        BY <3>1, <4>1
      <4>2. CASE n # 1
        BY <3>1, <3>2, <4>2
      <4> QED BY <4>1, <4>2
    <3>5. RoomFor(tftp_file, n)
      <4>1. SizeIsExact'
        BY SizeStep, AloneFree
      <4>2. CASE n = LastBlock(tftp_file)
        BY <2>1, <4>1, <4>2 DEF Copies, SizeIsExact, RoomFor
      <4>3. CASE n # LastBlock(tftp_file)
        <5>1. tftp_total_size' = n * MaxBlockSize
          BY <2>1, <3>2, <4>1, <4>3 DEF Copies, SizeIsExact
        <5> QED BY <4>1, <4>3, <5>1 DEF SizeIsExact, RoomFor
      <4> QED BY <4>2, <4>3
    <3>6. Len(tftp_dest) + 1 = n /\ n <= LastBlock(tftp_file)
      <4>1. LastBlock(tftp_file) \in Nat
        BY <3>2, ShortIsLast
      <4> QED BY <3>2, <3>3, <4>1
    <3>7. Transfer!Copy(t)
      BY <2>1, <3>1, <3>4, <3>5, <3>6 DEF Copies, Transfer!Copy
    <3> QED BY <3>7 DEF Transfer!Next
  <2>2. CASE /\ tftp_status = Idle /\ tftp_status' = Pending
             /\ tftp_file' \in Files
             /\ tftp_dest' = <<>>
    BY <2>2 DEF Transfer!Next, Transfer!Begin
  <2>3. CASE /\ UNCHANGED <<tftp_dest, tftp_file>>
             /\ \/ UNCHANGED tftp_status
                \/ tftp_status = Pending /\ tftp_status' = Failure
                \/ tftp_status \in {Success, Failure} /\ tftp_status' = Idle
    BY <2>3 DEF Transfer!Next, Transfer!Fail, Transfer!Return, Transfer!vars
  <2> QED BY <2>1, <2>2, <2>3, CallerSees, AloneFree
<1> QED BY <1>1, <1>2, Invariance, SizeSafety, PTL DEF Spec, ImplementsFileTransfer, Transfer!Spec
=============================================================================
