-------------------------------- MODULE Dhcp --------------------------------
(***************************************************************************)
(* The DHCP client of netboot/dhcp.c: dhcp_request(), dhcp_callback(),     *)
(* dhcp_send_packet() and dhcp_release(), against servers that offer,      *)
(* grant and refuse addresses, over the network of UipUdp.                 *)
(***************************************************************************)
EXTENDS UipUdp

CONSTANTS
  DhcpServers,       \* the addresses of the servers
  Addrs,             \* the addresses they may offer
  None,              \* no address, no packet, no server
  DhcpServerPort,    \* 67
  DhcpClientPort,    \* 68
  Quirks,            \* what servers may do to their options
  MaxAttempts        \* bound of the model: calls of dhcp_request()

\* What is assumed of them, by whoever instantiates this module.
DhcpConstants ==
  /\ DhcpServerPort \in Nat \ {0}
  /\ DhcpClientPort \in Nat \ {0}
  /\ MaxAttempts \in Nat
  /\ Quirks \subseteq {"absent", "short"}
  /\ None \notin DhcpServers \cup Addrs

VARIABLES
  dhcp_pc,           \* where the client is, see below
  dhcp_state,        \* DhcpInit, DhcpRequesting or DhcpBound
  dhcp_in,           \* the packet copied by the callback
  dhcp_in_ready,
  dhcp_out,          \* the packet that is sent and sent again
  dhcp_conn,         \* dhcp_request()'s conn, or 0
  server_id,         \* the server of the accepted offer
  my_ip,             \* uip_hostaddr
  xids,              \* transaction ids used so far; rand() is taken to be fresh
  attempts,          \* calls of dhcp_request() so far
  offered,           \* the servers: what each has on offer
  granted            \* and the grant that answers each transaction

dhcpClientVars == <<dhcp_pc, dhcp_state, dhcp_in, dhcp_in_ready, dhcp_out,
                    dhcp_conn, server_id, my_ip, xids, attempts>>
dhcpServerVars == <<offered, granted>>
dhcpVars == <<dhcpClientVars, dhcpServerVars>>
vars == <<udpVars, dhcpVars>>

\* dhcp_pc: outside dhcp_request(); waiting in dhcp_send_packet() for the reply
\* to the discover or the request; returned 1; returned 0; released.
Waiting == {"discover", "request"}

MaxXid == 2 * MaxAttempts

-----------------------------------------------------------------------------
\* Messages.  "sid" is the server identifier option, which a reply may lack or
\* have too short; "opts" tells whether the other options can be applied.

Discover(x) == [op |-> "dhcp", type |-> "discover", xid |-> x]
RequestMutant(x, ip, sid) ==
  [op |-> "dhcp", type |-> "request", xid |-> x, ip |-> sid, sid |-> ip]
Request(x, ip, sid) == [op |-> "dhcp", type |-> "request", xid |-> x, ip |-> ip, sid |-> sid]
Release(ip) == [op |-> "dhcp", type |-> "release", ip |-> ip]
Reply(type, x, ip, sid, opts) ==
  [op |-> "dhcp", type |-> type, xid |-> x, ip |-> ip, sid |-> sid, opts |-> opts]

-----------------------------------------------------------------------------
\* The servers.

Answer(s, data) == Incoming(s, DhcpServerPort, DhcpClientPort, data)

Heard(s, m) == m.dport = DhcpServerPort /\ m.dst \in {Broadcast, s} /\ m.src = Me

\* An offer names its server, or leaves that option out, or truncates it.
ServerOffer(s, m, rest) ==
  /\ Heard(s, m) /\ m.data.type = "discover"
  /\ \E ip \in Addrs, sid \in {s} \cup Quirks :
       /\ offered' = [offered EXCEPT ![s] = ip]
       /\ net' = rest \cup {Answer(s, Reply("offer", m.data.xid, ip, sid, "good"))}
  /\ UNCHANGED <<conns, lastport, dhcpClientVars, granted>>

\* A request for what is on offer is granted, any other refused.
ServerReply(s, m, rest) ==
  /\ Heard(s, m) /\ m.data.type = "request" /\ m.data.sid = s
  /\ LET x == m.data.xid
     IN  IF m.data.ip = offered[s]
         THEN /\ granted' = [granted EXCEPT ![x] = [server |-> s, ip |-> m.data.ip]]
              /\ \E opts \in {"good"} \cup (Quirks \cap {"short"}) :
                   net' = rest \cup {Answer(s, Reply("ack", x, m.data.ip, s, opts))}
         ELSE /\ UNCHANGED granted
              /\ net' = rest \cup {Answer(s, Reply("nak", x, None, s, "good"))}
  /\ UNCHANGED <<conns, lastport, dhcpClientVars, offered>>

ServerReceive ==
  \E s \in DhcpServers : \E m \in net : \E rest \in Taken(m) :
    m.data.op = "dhcp" /\ (ServerOffer(s, m, rest) \/ ServerReply(s, m, rest))

\* An offer that was not taken up in time is given to somebody else.
OfferExpires(s) ==
  /\ offered[s] # None
  /\ offered' = [offered EXCEPT ![s] = None]
  /\ UNCHANGED <<udpVars, dhcpClientVars, granted>>

-----------------------------------------------------------------------------
\* The client.

\* dhcp_send_packet() up to its loop.
SendPacket(c, data) ==
  /\ net' = net \cup {Outgoing(c, data)}
  /\ dhcp_out' = data
  /\ dhcp_in_ready' = FALSE

\* dhcp_request() up to the wait for an offer.  Without a connection it returns
\* 1 and has sent nothing.
DhcpRequest ==
  /\ dhcp_pc \in {"idle", "failed"}
  /\ attempts < MaxAttempts
  /\ attempts' = attempts + 1
  /\ lastport' = NextPort
  /\ IF FreeSlots = {}
     THEN /\ dhcp_pc' = "failed"
          /\ UNCHANGED <<conns, net, dhcp_out, dhcp_in_ready, dhcp_conn, xids>>
     ELSE LET slot == Min(FreeSlots)
              cs == UdpNew(slot, DhcpClientPort, DhcpServerPort, Broadcast)
          IN  /\ conns' = cs
              /\ dhcp_conn' = slot
              /\ xids' = xids + 1
              /\ SendPacket(cs[slot], Discover(xids'))
              /\ dhcp_pc' = "discover"
  /\ UNCHANGED <<dhcp_state, dhcp_in, server_id, my_ip, dhcpServerVars>>

\* What dhcp_callback() accepts: a reply to this transaction, of a type that
\* fits the state.
RightXidMutant(p) == TRUE
RightXid(p) == p.xid = dhcp_out.xid

RightType(p) ==
  CASE dhcp_state = "init" -> p.type = "offer"
    [] dhcp_state = "requesting" -> p.type \in {"ack", "nak"}
    [] dhcp_state = "bound" -> TRUE

ValidReply(p) == p.op = "dhcp" /\ RightXid(p) /\ RightType(p)

\* One net_poll() of the loop that finds a packet.  The callback copies every
\* packet over the last one before it looks at it; only a valid one is read.
DhcpPoll(m) ==
  /\ dhcp_pc \in Waiting /\ ~dhcp_in_ready
  /\ m \in ToMe
  /\ \E rest \in Taken(m) : net' = rest
  /\ IF Matching(m) = {}
     THEN UNCHANGED <<dhcp_in, dhcp_in_ready>>
     ELSE /\ dhcp_in_ready' = ValidReply(m.data)
          /\ dhcp_in' = IF dhcp_in_ready' THEN m.data ELSE None
  /\ UNCHANGED <<conns, lastport, dhcp_pc, dhcp_state, dhcp_out, dhcp_conn,
                 server_id, my_ip, xids, attempts, dhcpServerVars>>

\* DhcpRespTimeoutUs without an answer: the packet is sent again.
DhcpResendMutant ==
  /\ dhcp_pc \in Waiting /\ ~dhcp_in_ready
  /\ UNCHANGED vars
DhcpResend ==
  /\ dhcp_pc \in Waiting /\ ~dhcp_in_ready
  /\ net' = net \cup {Outgoing(conns[dhcp_conn], dhcp_out)}
  /\ UNCHANGED <<conns, lastport, dhcpVars>>

\* dhcp_request() returns 1, and its packets go with its stack frame.  Its conn is
\* forgotten too, but on these paths never given up.
Fail ==
  /\ dhcp_pc' = "failed"
  /\ dhcp_conn' = 0
  /\ dhcp_in' = None
  /\ dhcp_in_ready' = FALSE

\* An offer has arrived.  server_id is never initialised: without the option it
\* is whatever was on the stack.
GotOffer ==
  /\ dhcp_pc = "discover" /\ dhcp_in_ready
  /\ \/ /\ dhcp_in.sid = "short"
        /\ Fail
        /\ UNCHANGED <<net, dhcp_out, dhcp_state, server_id, xids>>
     \/ /\ dhcp_in.sid # "short"
        /\ server_id' \in
             IF dhcp_in.sid = "absent" THEN DhcpServers \cup {"garbage"} ELSE {dhcp_in.sid}
        /\ dhcp_state' = "requesting"
        /\ xids' = xids + 1
        /\ SendPacket(conns[dhcp_conn], Request(xids', dhcp_in.ip, server_id'))
        /\ dhcp_pc' = "request"
        /\ UNCHANGED <<dhcp_conn, dhcp_in>>
  /\ UNCHANGED <<conns, lastport, my_ip, attempts, dhcpServerVars>>

\* The request was refused.
GotNak ==
  /\ dhcp_pc = "request" /\ dhcp_in_ready
  /\ dhcp_in.type = "nak"
  /\ dhcp_state' = "init"
  /\ Fail
  /\ UNCHANGED <<conns, lastport, net, dhcp_out, server_id,
                  my_ip, xids, attempts, dhcpServerVars>>

\* The request was granted: the connection is given up and the settings applied.
GotAck ==
  /\ dhcp_pc = "request" /\ dhcp_in_ready
  /\ dhcp_in.type # "nak"
  /\ conns' = UdpRemove(dhcp_conn)
  /\ dhcp_conn' = 0
  /\ dhcp_in' = None
  /\ dhcp_in_ready' = FALSE
  /\ IF dhcp_in.opts = "good"
     THEN dhcp_state' = "bound" /\ dhcp_pc' = "bound" /\ my_ip' = dhcp_in.ip
     ELSE dhcp_state' = "init" /\ dhcp_pc' = "failed" /\ UNCHANGED my_ip
  /\ UNCHANGED <<lastport, net, dhcp_out, server_id, xids, attempts, dhcpServerVars>>

\* dhcp_release(): one packet, no answer.  Without a connection it returns 1.
DhcpRelease ==
  /\ dhcp_pc = "bound"
  /\ lastport' = NextPort
  /\ IF FreeSlots = {}
     THEN dhcp_pc' = "unreleased" /\ UNCHANGED <<net, dhcp_state>>
     ELSE /\ dhcp_pc' = "released"
          /\ net' = net \cup
               {Outgoing([lport |-> DhcpClientPort, rport |-> DhcpServerPort,
                          ripaddr |-> server_id], Release(my_ip))}
          /\ dhcp_state' = "init"
  /\ UNCHANGED <<conns, dhcp_in, dhcp_in_ready, dhcp_out, dhcp_conn, server_id,
                 my_ip, xids, attempts, dhcpServerVars>>

-----------------------------------------------------------------------------
DhcpInit ==
  /\ dhcp_pc = "idle"
  /\ dhcp_state = "init"
  /\ dhcp_in = None
  /\ dhcp_in_ready = FALSE
  /\ dhcp_out = None
  /\ dhcp_conn = 0
  /\ server_id = None
  /\ my_ip = None
  /\ xids = 0
  /\ attempts = 0
  /\ offered = [s \in DhcpServers |-> None]
  /\ granted = [x \in 1 .. MaxXid |-> None]

Init == UdpInit /\ DhcpInit

Client ==
  \/ DhcpRequest \/ (\E m \in net : DhcpPoll(m)) \/ DhcpResend
  \/ GotOffer \/ GotNak \/ GotAck \/ DhcpRelease

ServerStep == ServerReceive \/ \E s \in DhcpServers : OfferExpires(s)

\* A packet that is lost is one that is never delivered.
Next == Client \/ ServerStep

Spec == Init /\ [][Next]_vars

\* For the fairness of modules that use this one: a server answers the packet
\* that is being sent.
ServerAnswers ==
  \E s \in DhcpServers : \E m \in net : \E rest \in Taken(m) :
    m.data = dhcp_out /\ (ServerOffer(s, m, rest) \/ ServerReply(s, m, rest))

-----------------------------------------------------------------------------
\* Properties.

Packets ==
  [op : {"dhcp"}, type : {"discover"}, xid : Nat]
    \cup [op : {"dhcp"}, type : {"request"}, xid : Nat, ip : Addrs,
          sid : DhcpServers \cup {"garbage"}]
    \cup [op : {"dhcp"}, type : {"release"}, ip : Addrs]
    \cup [op : {"dhcp"}, type : {"offer", "ack", "nak"}, xid : Nat, ip : Addrs \cup {None},
          sid : DhcpServers \cup {"absent", "short"}, opts : {"good", "short"}]

\* Every variable of the client and the servers holds a value of its type.
DhcpTypeOK ==
  /\ dhcp_pc \in Waiting \cup {"idle", "failed", "bound", "released", "unreleased"}
  /\ dhcp_state \in {"init", "requesting", "bound"}
  /\ dhcp_in \in Packets \cup {None}
  /\ dhcp_in_ready \in BOOLEAN
  /\ dhcp_out \in Packets \cup {None}
  /\ dhcp_conn \in {0} \cup Slots
  /\ server_id \in DhcpServers \cup {None, "garbage"}
  /\ my_ip \in Addrs \cup {None}
  /\ xids \in 0 .. MaxXid
  /\ attempts \in 0 .. MaxAttempts
  /\ offered \in [DhcpServers -> Addrs \cup {None}]
  /\ granted \in [1 .. MaxXid -> [server : DhcpServers, ip : Addrs] \cup {None}]

\* dhcp_request() returns 0 only with an address that the server it names has
\* granted in answer to the client's last request: no reply to an earlier
\* transaction, of an earlier attempt or from another server gets in between.
BoundToGrant ==
  dhcp_pc = "bound" => granted[dhcp_out.xid] = [server |-> server_id, ip |-> my_ip]

\* "Dhcp failed, retrying." (netboot.c:72): every call of dhcp_request() asks
\* the servers again.
RetryAsks == [][attempts' # attempts => dhcp_pc' = "discover"]_vars
=============================================================================
