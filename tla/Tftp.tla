-------------------------------- MODULE Tftp --------------------------------
(***************************************************************************)
(* The TFTP client of netboot/tftp.c: tftp_read() and its packet callback, *)
(* against a server that opens one transfer session, with a port of its    *)
(* own, for every read request it sees.  tftp_read() may be called several *)
(* times, as netboot() does, so packets of an earlier call can still be in *)
(* flight during a later one.                                              *)
(*                                                                         *)
(* The contents of a block are its origin, <<session, number>>: what the   *)
(* properties say is which bytes end up at the destination.                *)
(***************************************************************************)
EXTENDS UipUdp, Sequences

CONSTANTS
  Server,         \* the address of the TFTP server
  TftpPort,       \* 69
  Sessions,       \* the ports the server may use for a transfer
  Files,          \* what can be asked for
  FileSize,       \* bytes of each file
  MaxBlockSize,   \* TftpMaxBlockSize: 512
  Wire,           \* block numbers are sent modulo this: 2^16
  MaxSize,        \* max_size of tftp_read()
  MaxReads        \* bound of the model: calls of tftp_read()

\* What is assumed of them, here and by a module that instantiates this one.
TftpConstants ==
  /\ Sessions \subseteq Nat \ {0, TftpPort}
  /\ TftpPort \in Nat \ {0}
  /\ FileSize \in [Files -> Nat]
  /\ MaxBlockSize \in Nat \ {0}
  /\ Wire \in Nat \ {0}
  /\ MaxSize \in Nat
  /\ MaxReads \in Nat
  /\ Me # Server /\ Me # Broadcast /\ Server # Broadcast
  /\ Files # {}

ASSUME TftpAssumption == TftpConstants

\* There are enough ports for MaxReads calls to get one each (the code has 27904).
ASSUME PortsSuffice == FirstPort + MaxReads < PortLimit

VARIABLES
  tftp_status,      \* Idle outside tftp_read()
  tftp_blocknum,    \* an int: it is not truncated to the 16 bits of the wire
  tftp_total_size,
  tftp_dest,        \* the blocks copied so far
  tftp_conn,        \* tftp_read()'s conn, or 0
  tftp_file,        \* the file named in the request
  tftp_reads,       \* calls so far
  session           \* the server's sessions

clientVars == <<tftp_status, tftp_blocknum, tftp_total_size, tftp_dest,
                tftp_conn, tftp_file, tftp_reads>>
tftpVars == <<clientVars, session>>
vars == <<udpVars, tftpVars>>

Idle == "idle"
Pending == "pending"
Success == "success"
Failure == "failure"

-----------------------------------------------------------------------------
\* What is asked for, and what goes over the wire.

\* A file is its full blocks and one short, possibly empty, last block.
LastBlock(f) == FileSize[f] \div MaxBlockSize + 1

BlockLen(f, k) ==
  IF k < LastBlock(f) THEN MaxBlockSize ELSE FileSize[f] % MaxBlockSize

ReadReq(f) == [op |-> "rrq", file |-> f]
Data(k, len) == [op |-> "data", blk |-> k, len |-> len]
Ack(n) == [op |-> "ack", wire |-> n]
Error == [op |-> "error"]
Other == [op |-> "other"]   \* an opcode the client does not expect

-----------------------------------------------------------------------------
\* The server: one session per request, go-back-nothing, resend on a timeout.

NoSession == [open |-> FALSE, port |-> 0, file |-> CHOOSE f \in Files : TRUE, blk |-> 0]

FromSession(t, data) == Incoming(Server, t, session[t].port, data)

CurrentData(t) ==
  LET s == session'[t]
  IN  Incoming(Server, t, s.port, Data(s.blk, BlockLen(s.file, s.blk)))

Refused(port) == [NoSession EXCEPT !.port = port]

\* A request opens a session, or is refused from a fresh port; the refusal is
\* repeated for a repeated request.
ServerAccept(m, rest, t) ==
  /\ m.data.op = "rrq"
  /\ m.dst = Server /\ m.dport = TftpPort
  /\ \/ /\ session[t] = NoSession
        /\ session' = [session EXCEPT ![t] =
                [open |-> TRUE, port |-> m.sport, file |-> m.data.file, blk |-> 1]]
        /\ net' = rest \cup {CurrentData(t)}
     \/ /\ session[t] \in {NoSession, Refused(m.sport)}
        /\ session' = [session EXCEPT ![t] = Refused(m.sport)]
        /\ net' = rest \cup {Incoming(Server, t, m.sport, Error)}
  /\ UNCHANGED <<conns, lastport, clientVars>>

\* The acknowledgement of the current block moves a session to the next one.
ServerAck(m, rest, t) ==
  /\ m.data.op = "ack"
  /\ m.dst = Server /\ m.dport = t
  /\ session[t].open
  /\ m.sport = session[t].port
  /\ m.data.wire = session[t].blk % Wire
  /\ session[t].blk < LastBlock(session[t].file)
  /\ session' = [session EXCEPT ![t].blk = @ + 1]
  /\ net' = rest \cup {CurrentData(t)}
  /\ UNCHANGED <<conns, lastport, clientVars>>

ServerReceive ==
  \E m \in net : \E rest \in Taken(m) : \E t \in Sessions :
    ServerAccept(m, rest, t) \/ ServerAck(m, rest, t)

ServerResend(t) ==
  /\ session[t].open
  /\ UNCHANGED session
  /\ net' = net \cup {CurrentData(t)}
  /\ UNCHANGED <<conns, lastport, clientVars>>

\* A session reports an error in mid-transfer, or sends what tftp_callback()
\* ignores: no opcode of a reply, or a block larger than any block may be.
ServerStray(t) ==
  /\ session[t].open
  /\ \E d \in {Error, Other, Data(session[t].blk, MaxBlockSize + 1)} :
        net' = net \cup {FromSession(t, d)}
  /\ UNCHANGED <<conns, lastport, clientVars, session>>

-----------------------------------------------------------------------------
\* The client.

\* tftp_read() up to its loop: a connection, the request, the statics.  Without
\* a connection it returns -1 before it has sent anything.
TftpRead(f) ==
  /\ tftp_status = Idle
  /\ tftp_reads < MaxReads
  /\ tftp_reads' = tftp_reads + 1
  /\ tftp_file' = f
  /\ lastport' = NextPort
  /\ IF FreeSlots = {}
     THEN /\ tftp_status' = Failure
          /\ UNCHANGED <<conns, net, tftp_conn, tftp_blocknum, tftp_total_size, tftp_dest>>
     ELSE LET slot == Min(FreeSlots)
          IN  /\ tftp_conn' = slot
              /\ conns' = UdpNew(slot, lastport', 0, Server)
              /\ net' = net \cup
                   {Outgoing([lport |-> lastport', rport |-> TftpPort, ripaddr |-> Server],
                             ReadReq(f))}
              /\ tftp_status' = Pending
              /\ tftp_blocknum' = 1
              /\ tftp_total_size' = 0
              /\ tftp_dest' = <<>>
  /\ UNCHANGED session

\* The callback learns the server's port from the first packet on an unbound
\* connection, whatever the packet is.
LearnPort(m) ==
  LET s == Demux(m) IN [conns EXCEPT ![s].rport = IF @ = 0 THEN m.sport ELSE @]

\* The packet that is sent again: the request, or else the last acknowledgement.
LastAckMutant == Ack(tftp_blocknum % Wire)
LastAck == Ack((tftp_blocknum - 1) % Wire)

LastSent(c) ==
  IF tftp_blocknum = 1 THEN Outgoing([c EXCEPT !.rport = TftpPort], ReadReq(tftp_file))
                       ELSE Outgoing(c, LastAck)

\* To send the request again the connection is bound to TftpPort, and unbound.
UnbindMutant(cs) == [cs EXCEPT ![tftp_conn].rport = 0]
Unbind(cs) == IF tftp_blocknum = 1 THEN [cs EXCEPT ![tftp_conn].rport = 0] ELSE cs

\* No block was acknowledged in this poll.
ResendMutant(cs, packets) == net' = packets /\ conns' = Unbind(cs)
Resend(cs, packets) ==
  /\ net' = packets \cup {LastSent(cs[tftp_conn])}
  /\ conns' = Unbind(cs)

\* net_poll() finds nothing.
PollNothing ==
  /\ tftp_status = Pending
  /\ Resend(conns, net)
  /\ UNCHANGED <<lastport, tftpVars>>

\* No connection matches: uip_process() drops the packet without a callback.
PollUnmatched(m, rest) ==
  /\ Matching(m) = {}
  /\ Resend(conns, rest)
  /\ UNCHANGED <<lastport, tftpVars>>

\* The 16 bits of the packet are compared with the int.
ExpectedMutant(m) == m.data.op = "data"
Expected(m) == m.data.op = "data" /\ m.data.blk % Wire = tftp_blocknum

FitsMutant(m) == m.data.len <= MaxSize
Fits(m) == m.data.len <= MaxSize - tftp_total_size

ShortMutant(m) == m.data.len <= MaxBlockSize
Short(m) == m.data.len < MaxBlockSize

\* Not a block, a block that is not expected, or a block that is too big.
PollIgnored(m, rest) ==
  /\ m.data.op # "error"
  /\ Expected(m) => m.data.len > MaxBlockSize
  /\ Resend(LearnPort(m), rest)
  /\ UNCHANGED <<lastport, tftpVars>>

\* An error packet ends the transfer, and so does a block without room for it;
\* tftp_read() still sends its last packet again before the loop ends.
PollFailure(m, rest) ==
  /\ \/ m.data.op = "error"
     \/ /\ Expected(m)
        /\ m.data.len <= MaxBlockSize
        /\ ~Fits(m)
  /\ tftp_status' = Failure
  /\ Resend(LearnPort(m), rest)
  /\ UNCHANGED <<lastport, tftp_blocknum, tftp_total_size, tftp_dest,
                 tftp_conn, tftp_file, tftp_reads, session>>

\* The next block is copied.  A full one is acknowledged by the callback; a
\* short one ends the transfer, and is answered by the resend of the loop.
PollBlock(m, rest) ==
  /\ Expected(m)
  /\ m.data.len <= MaxBlockSize
  /\ Fits(m)
  /\ tftp_dest' = Append(tftp_dest, <<m.sport, m.data.blk>>)
  /\ tftp_total_size' = tftp_total_size + m.data.len
  /\ IF Short(m)
     THEN /\ tftp_status' = Success
          /\ Resend(LearnPort(m), rest)
          /\ UNCHANGED tftp_blocknum
     ELSE /\ net' = rest \cup {Outgoing(LearnPort(m)[Demux(m)], Ack(tftp_blocknum % Wire))}
          /\ conns' = LearnPort(m)
          /\ tftp_blocknum' = tftp_blocknum + 1
          /\ UNCHANGED tftp_status
  /\ UNCHANGED <<lastport, tftp_conn, tftp_file, tftp_reads, session>>

PollMatched(m, rest) ==
  PollIgnored(m, rest) \/ PollFailure(m, rest) \/ PollBlock(m, rest)

Poll(m) ==
  /\ tftp_status = Pending
  /\ m \in ToMe
  /\ \E rest \in Taken(m) :
       PollUnmatched(m, rest) \/ (Matching(m) # {} /\ PollMatched(m, rest))

\* The loop has ended: the connection is given up and the result returned.
TftpReturn ==
  /\ tftp_status \in {Success, Failure}
  /\ conns' = IF tftp_conn = 0 THEN conns ELSE UdpRemove(tftp_conn)
  /\ tftp_conn' = 0
  /\ tftp_status' = Idle
  /\ UNCHANGED <<lastport, net, tftp_blocknum, tftp_total_size, tftp_dest,
                 tftp_file, tftp_reads, session>>

-----------------------------------------------------------------------------
TftpInit ==
  /\ tftp_status = Idle
  /\ tftp_blocknum = 0
  /\ tftp_total_size = 0
  /\ tftp_dest = <<>>
  /\ tftp_conn = 0
  /\ tftp_file \in Files
  /\ tftp_reads = 0
  /\ session = [t \in Sessions |-> NoSession]

Init == UdpInit /\ TftpInit

Client == (\E f \in Files : TftpRead(f)) \/ PollNothing \/ (\E m \in net : Poll(m)) \/ TftpReturn

ServerStep == ServerReceive \/ \E t \in Sessions : ServerResend(t) \/ ServerStray(t)

\* A packet that is lost is one that is never delivered.
Next == Client \/ ServerStep

Spec == Init /\ [][Next]_vars

\* The steps of progress, for the fairness of modules that use this one: the
\* client is given a packet that its callback acts on, the server accepts what a
\* session is waiting for.
Heard == \E m \in net : Poll(m) /\ (tftp_dest' # tftp_dest \/ tftp_status' # tftp_status)

ServerAcks(t) == \E m \in net : \E rest \in Taken(m) : ServerAck(m, rest, t)

-----------------------------------------------------------------------------
\* Properties.

RemotePort == conns[tftp_conn].rport
LocalPort == conns[tftp_conn].lport

Datagrams ==
  [src : {Me, Server}, sport : Nat, dst : {Me, Server}, dport : Nat,
   data : [op : {"rrq"}, file : Files] \cup [op : {"data"}, blk : Nat, len : Nat]
            \cup [op : {"ack"}, wire : Nat] \cup [op : {"error", "other"}]]

SessionStates == [open : BOOLEAN, port : Nat, file : Files, blk : Nat]

\* Every variable holds a value of its type.
TypeOK ==
  /\ conns \in [Slots -> [lport : Nat, rport : Nat, ripaddr : {Broadcast, Server}]]
  /\ lastport \in Nat
  /\ net \subseteq Datagrams
  /\ tftp_status \in {Idle, Pending, Success, Failure}
  /\ tftp_blocknum \in Nat
  /\ tftp_total_size \in Nat
  /\ tftp_dest \in Seq(Sessions \X Nat)
  /\ tftp_conn \in {0} \cup Slots
  /\ tftp_file \in Files
  /\ tftp_reads \in Nat
  /\ session \in [Sessions -> SessionStates]

\* The first blocks of the file asked for, all of one session.
StartOfFile(blocks) ==
  \E t \in Sessions :
    /\ session[t].file = tftp_file
    /\ blocks = [i \in 1 .. Len(blocks) |-> <<t, i>>]

\* Whatever the network loses, repeats, delays or reorders, and however many
\* sessions the repeated requests open, the destination holds the first blocks
\* of the requested file, in order, from one session (tftp_callback's checks of
\* the port, the opcode and the block number).
ReceivedIsPrefix ==
  tftp_conn # 0 /\ tftp_dest # <<>> => StartOfFile(tftp_dest)

\* tftp_read() returns 0 only when the whole file has been copied, with the size of
\* the file, and until then the bytes copied are counted exactly and never pass the
\* end of the destination ("If we're out of space give up", tftp.c:153).
SizeIsExact ==
  /\ tftp_status = Success =>
       /\ Len(tftp_dest) = LastBlock(tftp_file)
       /\ tftp_total_size = FileSize[tftp_file]
  /\ tftp_total_size <= MaxSize
  /\ tftp_status = Pending => tftp_total_size = (tftp_blocknum - 1) * MaxBlockSize

\* The session a transfer is bound to is never ahead of it by more than the
\* block that is awaited, nor behind the last one acknowledged: duplicated
\* acknowledgements never make the server skip a block.
Lockstep ==
  tftp_status = Pending /\ tftp_blocknum > 1 =>
    /\ RemotePort \in Sessions
    /\ session[RemotePort].port = LocalPort
    /\ session[RemotePort].blk \in {tftp_blocknum - 1, tftp_blocknum}

\* Repeated read requests may open several sessions, but one call acknowledges
\* blocks of only one of them.
OneSessionAcked ==
  \A a, b \in net : a.data.op = "ack" /\ b.data.op = "ack" /\ a.sport = b.sport
                      => a.dport = b.dport

\* Outside tftp_read() no connection is left in the table.
ConnReleased == tftp_status = Idle => FreeSlots = Slots

\* Blocks of a file up to the k-th fit the destination.
RoomFor(f, k) == (IF k = LastBlock(f) THEN FileSize[f] ELSE k * MaxBlockSize) <= MaxSize

Transfer == INSTANCE FileTransfer WITH
  phase <- tftp_status, file <- tftp_file, copied <- tftp_dest,
  Sources <- Sessions, Blocks <- LastBlock, Room <- RoomFor

\* tftp_read() is a file transfer.
ImplementsFileTransfer == Transfer!Spec

\* "Ignore blocks which are duplicated or out of order." (tftp.c:142): the block
\* that comes next in the file, from the session the transfer is bound to, is
\* not ignored.
NextInOrder(m) ==
  /\ tftp_status = Pending
  /\ Matching(m) # {}
  /\ m.data.op = "data"
  /\ m.data.len <= MaxBlockSize
  /\ m.data.blk = Len(tftp_dest) + 1

IgnoresOnlyDuplicates ==
  [][\A m \in net : NextInOrder(m) /\ Poll(m) =>
        tftp_dest' # tftp_dest \/ tftp_status' = Failure]_vars
=============================================================================
