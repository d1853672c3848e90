------------------------------ MODULE Netboot ------------------------------
(***************************************************************************)
(* netboot() of netboot/netboot.c: the DHCP client, then the TFTP client   *)
(* for the payload and for the command line, one connection table and one  *)
(* network under both.  What DHCP leaves behind, connections in the table  *)
(* and packets in flight, is still there when TFTP runs.                   *)
(***************************************************************************)
EXTENDS UipUdp, Sequences

CONSTANTS
  DhcpServers, Addrs, None, DhcpServerPort, DhcpClientPort, Quirks, MaxAttempts,
  Server, TftpPort, Sessions, Files, FileSize, MaxBlockSize, Wire, MaxSize, MaxReads,
  bootfile,      \* the file name of the payload
  ArgsFiles,     \* what the caller may name for the command line: files, or None
  HasArgs        \* whether the caller passes a command line to fall back to

ASSUME NetbootAssumption ==
  /\ bootfile \in Files
  /\ ArgsFiles \subseteq Files \cup {None} /\ bootfile \notin ArgsFiles
  /\ HasArgs \in BOOLEAN
  /\ MaxReads >= 2

VARIABLES
  dhcp_pc, dhcp_state, dhcp_in, dhcp_in_ready, dhcp_out, dhcp_conn, server_id,
  my_ip, xids, attempts, offered, granted,
  tftp_status, tftp_blocknum, tftp_total_size, tftp_dest, tftp_conn, tftp_file,
  tftp_reads, session,
  nb_pc,         \* where netboot() is
  payload,       \* the memory at CONFIG_KERNEL_START
  cmd_line       \* what the command line was made from

Dhcp == INSTANCE Dhcp
Tftp == INSTANCE Tftp

ASSUME DhcpAssumption == Dhcp!DhcpConstants
ASSUME NetbootTftpAssumption == Tftp!TftpConstants

\* DHCP's ports, 67 and 68, are not among those uip_udp_new() hands out, and of
\* these there is one for each call the model makes (the code has 27904).
ASSUME NetbootPorts ==
  /\ DhcpClientPort # DhcpServerPort
  /\ DhcpClientPort \notin FirstPort .. PortLimit
  /\ DhcpServerPort \notin FirstPort .. PortLimit
  /\ FirstPort + MaxAttempts + MaxReads + 1 < PortLimit

dhcpVars == <<dhcp_pc, dhcp_state, dhcp_in, dhcp_in_ready, dhcp_out, dhcp_conn,
              server_id, my_ip, xids, attempts, offered, granted>>
tftpVars == <<tftp_status, tftp_blocknum, tftp_total_size, tftp_dest, tftp_conn,
              tftp_file, tftp_reads, session>>
netbootVars == <<nb_pc, payload, cmd_line>>
vars == <<udpVars, dhcpVars, tftpVars, netbootVars>>

\* cmd_line holds the blocks copied over the zeroed buffer, or the "args" string,
\* which comes from no session.
FromArgs == <<<<0, 0>>>>

-----------------------------------------------------------------------------
\* while (dhcp_request(...)): it is called until it returns 0.
DhcpStep ==
  /\ nb_pc = "dhcp"
  /\ \/ Dhcp!DhcpRequest \/ Dhcp!DhcpResend
     \/ Dhcp!GotOffer \/ Dhcp!GotNak \/ Dhcp!GotAck
     \/ \E m \in net : Dhcp!DhcpPoll(m)
  /\ nb_pc' = IF dhcp_pc' = "bound" THEN "bootfile" ELSE "dhcp"
  /\ UNCHANGED <<tftpVars, payload, cmd_line>>

\* tftp_read(payload, ...) and tftp_read(cmd_line, ...) up to their return.
StartRead ==
  \/ nb_pc = "bootfile" /\ Tftp!TftpRead(bootfile) /\ nb_pc' = "reading"
  \/ /\ nb_pc = "args" /\ nb_pc' = "reading args"
     /\ \E argsfile \in ArgsFiles \ {None} : Tftp!TftpRead(argsfile)

ReadStep ==
  /\ nb_pc \in {"reading", "reading args"}
  /\ Tftp!PollNothing \/ \E m \in net : Tftp!Poll(m)
  /\ UNCHANGED nb_pc

TftpStep ==
  /\ StartRead \/ ReadStep
  /\ UNCHANGED <<dhcpVars, payload, cmd_line>>

\* The payload has been read, or not: then netboot() gives up.
ReadOkMutant == tftp_status # Tftp!Pending
ReadOk == tftp_status = Tftp!Success

BootfileReturns ==
  /\ nb_pc = "reading"
  /\ Tftp!TftpReturn
  /\ payload' = tftp_dest
  /\ nb_pc' = IF ReadOk THEN "args" ELSE "giving up"
  /\ UNCHANGED <<dhcpVars, cmd_line>>

\* The command line has been read, or else is taken from "args" if there are
\* any.  The file was copied into cmd_line itself as it arrived.
ArgsFallbackMutant(partial) == partial
ArgsFallback(partial) == IF HasArgs THEN FromArgs ELSE partial

\* Then the white space at its end is stripped, from cmd_line[size - 1] on: of an empty
\* file that is outside the buffer.  When what happens to be there is not white space,
\* nothing is done.  When it is, the loops go on through memory and write there: the
\* behaviour ends in "overrun", for nothing can be said of what follows.
StripMutant == IF tftp_total_size = 0 THEN {"release", "overrun"} ELSE {"release"}
Strip == IF ReadOk /\ tftp_total_size = 0 THEN {"release", "overrun"} ELSE {"release"}

ArgsReturn ==
  /\ nb_pc = "reading args"
  /\ Tftp!TftpReturn
  /\ cmd_line' = IF ReadOk THEN tftp_dest ELSE ArgsFallback(tftp_dest)
  /\ nb_pc' \in Strip
  /\ UNCHANGED <<dhcpVars, payload>>

NoArgsFile ==
  /\ nb_pc = "args" /\ None \in ArgsFiles
  /\ cmd_line' = ArgsFallback(cmd_line)
  /\ nb_pc' = "release"
  /\ UNCHANGED <<udpVars, dhcpVars, tftpVars, payload>>

\* dhcp_release() after either outcome; boot() only if it succeeds, and if the
\* server's address still fits the command line.
ReleaseStep ==
  /\ nb_pc \in {"release", "giving up"}
  /\ Dhcp!DhcpRelease
  /\ nb_pc' \in IF nb_pc = "release" /\ dhcp_pc' = "released"
                THEN {"boot", "returned"} ELSE {"halted"}
  /\ UNCHANGED <<tftpVars, payload, cmd_line>>

Client ==
  \/ DhcpStep \/ TftpStep
  \/ BootfileReturns \/ ArgsReturn \/ NoArgsFile \/ ReleaseStep

Environment ==
  /\ \/ Dhcp!ServerStep /\ UNCHANGED tftpVars
     \/ Tftp!ServerStep /\ UNCHANGED dhcpVars
     \/ Lose /\ UNCHANGED <<dhcpVars, tftpVars>>
  /\ UNCHANGED netbootVars

Init ==
  /\ UdpInit
  /\ Dhcp!DhcpInit
  /\ Tftp!TftpInit
  /\ tftp_file = bootfile
  /\ nb_pc = "dhcp"
  /\ payload = <<>>
  /\ cmd_line = <<>>

Next == Client \/ Environment

Spec == Init /\ [][Next]_vars

(***************************************************************************)
(* Fairness: that of the two clients, and netboot() itself never waits.    *)
(***************************************************************************)
HeardByDhcp ==
  /\ nb_pc = "dhcp"
  /\ \E m \in net : Dhcp!DhcpPoll(m) /\ dhcp_in_ready'
  /\ UNCHANGED <<tftpVars, netbootVars>>

ResentByDhcp ==
  /\ nb_pc = "dhcp"
  /\ Dhcp!DhcpResend
  /\ UNCHANGED <<tftpVars, netbootVars>>

HeardByTftp ==
  /\ nb_pc \in {"reading", "reading args"}
  /\ Tftp!Heard
  /\ UNCHANGED <<dhcpVars, netbootVars>>

ForDhcp == Dhcp!ServerAnswers /\ UNCHANGED <<tftpVars, netbootVars>>

CurrentRead(m) == m.data.op = "rrq" /\ m.data.file = tftp_file

ForTftp ==
  /\ \E m \in net : \E rest \in Taken(m) : \E t \in Sessions :
        CurrentRead(m) /\ Tftp!ServerAccept(m, rest, t)
  /\ UNCHANGED <<dhcpVars, netbootVars>>

SessionAcks(t) == Tftp!ServerAcks(t) /\ UNCHANGED <<dhcpVars, netbootVars>>
SessionResends(t) == Tftp!ServerResend(t) /\ UNCHANGED <<dhcpVars, netbootVars>>

Fairness ==
  /\ WF_vars(Client) /\ WF_vars(ResentByDhcp)
  /\ SF_vars(HeardByDhcp) /\ SF_vars(HeardByTftp)
  /\ SF_vars(ForDhcp) /\ SF_vars(ForTftp)
  /\ \A t \in Sessions : SF_vars(SessionAcks(t)) /\ WF_vars(SessionResends(t))

FairSpec == Spec /\ Fairness

-----------------------------------------------------------------------------
\* Properties.

\* Every variable of netboot() and of the DHCP client holds a value of its type.
NetbootTypeOK ==
  /\ Dhcp!DhcpTypeOK
  /\ nb_pc \in {"dhcp", "bootfile", "reading", "args", "reading args", "giving up",
                "release", "overrun", "boot", "returned", "halted"}
  /\ payload \in Seq(Sessions \X Nat)
  /\ cmd_line \in Seq(Sessions \X Nat) \cup {FromArgs}

\* What dhcp_request() promises holds with what TFTP does in the table and the network.
BoundToGrant == Dhcp!BoundToGrant

\* All of a file, from one session.
WholeFile(blocks, f) ==
  \E t \in Sessions :
    /\ session[t].file = f
    /\ blocks = [i \in 1 .. Tftp!LastBlock(f) |-> <<t, i>>]

\* Whatever is still in flight from DHCP or from the first transfer, the kernel
\* that is started is all of the boot file.  "If that fails or file wasn't specified
\* fall back to args parameter" (netboot.c:118): the command line is all of the file
\* named for it, or the parameter; with neither it stays empty.  What is stripped from
\* the command line is outside its buffer only after all of an empty file was read.
BootsWhole ==
  /\ nb_pc \in {"boot", "returned"} =>
       /\ WholeFile(payload, bootfile)
       /\ \/ cmd_line = IF HasArgs THEN FromArgs ELSE <<>>
          \/ tftp_file \in ArgsFiles /\ WholeFile(cmd_line, tftp_file)
  /\ nb_pc = "overrun" =>
       FileSize[tftp_file] = 0 /\ WholeFile(cmd_line, tftp_file)

\* However many refused requests have leaked connections, once an address is
\* granted there is one left for each later step.
NetbootHasSlot ==
  nb_pc \in {"bootfile", "args", "release", "giving up"} => FreeSlots # {}

\* netboot() boots, returns or halts, or has left its buffer, unless every attempt at
\* DHCP was refused.
Settles ==
  <>(\/ nb_pc \in {"boot", "returned", "halted", "overrun"}
     \/ dhcp_pc = "failed" /\ attempts = MaxAttempts)
=============================================================================
