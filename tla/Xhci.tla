-------------------------------- MODULE Xhci --------------------------------
(***************************************************************************)
(* The xHCI driver (xhci.c, xhci_commands.c and xhci_events.c of           *)
(* libpayload/drivers/usb) for one device: control and bulk transfers on   *)
(* its pipes, the queue of reports of an interrupt endpoint, and the       *)
(* commands between them, against a controller that works on its own and   *)
(* answers over the event ring.                                            *)
(*                                                                         *)
(* The driver is one thread.  It waits for one kind of event at a time and *)
(* handles whatever else comes first; each event it looks at is a step, so *)
(* the controller can do anything between two of them.  The event ring is  *)
(* the queue of EventQueue, which EventRing implements.                    *)
(***************************************************************************)
EXTENDS EventQueue, Integers, FiniteSets

CONSTANTS
  Pipes,            \* the control and bulk endpoints in use
  Intr,             \* the interrupt endpoint
  Stages,           \* how many events a transfer on each pipe is waited for
  TransferRingSize, \* TRANSFER_RING_SIZE, the link at the end included
  CommandRingSize,  \* COMMAND_RING_SIZE, likewise
  ReqCounts,        \* the sizes that the interrupt queue is asked for with
  SlowCommands,     \* commands, with their endpoint, that may outlast the driver's wait
  None,
  MaxTransfers, MaxReports

Endpoints == Pipes \cup {Intr}
Slots == 0 .. TransferRingSize - 2
Bufs == 1 .. TransferRingSize

\* What the driver has called, commanded and queued, and what events tell it.
Calls == [op : {"transfer", "slot", "destroy", "poll"}, ep : Endpoints \cup {None}]
TransferEvents ==
  [type : {"transfer"}, ep : Endpoints, cc : {"success", "stall", "stopped", "empty"}, at : Nat]
CommandCodes == {"success", "context", "aborted", "ring stopped"}
CommandEvents == [type : {"command"}, cc : CommandCodes, at : Nat]
Commands ==
  [kind : {"stop", "reset", "dequeue", "slot"}, ep : Endpoints \cup {None}, trb : Nat,
   cc : CommandCodes \cup {None}]
IntrQueues == [next : Slots, ready : Slots \cup {None}, count : Nat \ {0}]

ASSUME XhciAssumption ==
  /\ Intr \notin Pipes
  /\ Stages \in [Pipes -> Nat \ {0}]
  /\ {TransferRingSize, CommandRingSize, Places} \subseteq Nat
  /\ TransferRingSize > 2 /\ CommandRingSize > 1 /\ Places > 1 /\ ReqCounts \subseteq Nat \ {0}
  /\ SlowCommands \subseteq {"stop", "reset", "dequeue", "slot"} \X (Pipes \cup {Intr, None})
  /\ None \notin Nat /\ None \notin Endpoints
  /\ None \notin Calls \cup Commands \cup IntrQueues
  /\ FullEvent \notin TransferEvents \cup CommandEvents

VARIABLES
  usb_pc,           \* "idle", or what the driver waits for
  call,             \* what was called
  stage, tds_made,  \* events the transfer has had, transfers so far
  cmd, cr_cur,      \* the command waited for, where the next one goes
  hc_cmd,           \* what the controller does with it
  ep_state,         \* the endpoint contexts
  tds,              \* what the controller still has to report on each pipe
  trb, tr_cur,      \* the transfer ring of the interrupt endpoint, where to enqueue
  hc_deq,           \* where the controller is on it
  intrq,            \* intrq_t, or None
  data, sent,       \* the report in each buffer, reports sent so far
  handed, got       \* the buffer last handed out, reports handed out so far

pipeVars == <<stage, tds_made>>
cmdVars == <<cmd, cr_cur>>
queueVars == <<trb, tr_cur, intrq, handed, got>>
driverVars == <<usb_pc, call, pipeVars, cmdVars, queueVars>>
hcVars == <<hc_cmd, ep_state, tds, hc_deq, data, sent>>
xhciVars == <<eventVars, driverVars, hcVars>>

NextTrbMutant(i) == IF i = TransferRingSize - 1 THEN 0 ELSE i + 1
NextTrb(i) == IF i + 1 \in Slots THEN i + 1 ELSE 0

TransferEvent(ep, cc, at) == [type |-> "transfer", ep |-> ep, cc |-> cc, at |-> at]
CommandEvent(cc, at) == [type |-> "command", cc |-> cc, at |-> at]
AnyEvent == queue # <<>>
Event == Head(queue)
EventType == IF Event = FullEvent THEN "host" ELSE Event.type

XhciInit ==
  /\ QueueInit
  /\ usb_pc = "idle" /\ call = None
  /\ stage = 0 /\ tds_made = 0
  /\ cmd = None /\ cr_cur = 0 /\ hc_cmd = "none"
  /\ ep_state = [ep \in Endpoints |-> "running"]
  /\ tds = [p \in Pipes |-> <<>>]
  /\ trb = [i \in Slots |-> None] /\ tr_cur = 0 /\ hc_deq = 0
  /\ intrq = None
  /\ data = [b \in Bufs |-> 0] /\ sent = 0
  /\ handed = None /\ got = 0

-----------------------------------------------------------------------------
\* The controller (external).

\* What a command does to its endpoint, if that is in the right state.
Fits(kind, ep) ==
  CASE kind = "reset" -> ep_state[ep] = "halted"
    [] kind = "dequeue" -> ep_state[ep] = "stopped"
    [] kind = "stop" -> ep_state[ep] = "running"
    [] kind = "slot" -> TRUE

Executes(kind, ep) ==
  /\ ep_state' = IF kind \in {"reset", "stop"} THEN [ep_state EXCEPT ![ep] = "stopped"] ELSE ep_state
  /\ tds' = IF kind = "dequeue" /\ ep # Intr THEN [tds EXCEPT ![ep] = <<>>] ELSE tds
  /\ hc_deq' = IF kind = "dequeue" /\ ep = Intr THEN 0 ELSE hc_deq

\* What is in progress on an endpoint that is told to stop is reported first.
Runs(ep) == ep_state[ep] = "running" /\ ~(hc_cmd = "forced" /\ cmd.ep = ep)

HcForcedStop ==
  /\ hc_cmd = "running" /\ cmd.kind = "stop" /\ Runs(cmd.ep)
  /\ \/ /\ cmd.ep \in Pipes /\ tds[cmd.ep] # <<>>
        /\ Post(TransferEvent(cmd.ep, "stopped", Head(tds[cmd.ep])))
     \/ /\ cmd.ep = Intr /\ hc_deq # tr_cur
        /\ Post(TransferEvent(Intr, "stopped", hc_deq))
  /\ hc_cmd' = "forced"
  /\ UNCHANGED <<ep_state, tds, hc_deq, data, sent>>

HcCompletes ==
  /\ hc_cmd \in {"running", "forced", "aborting"}
  /\ \/ /\ Fits(cmd.kind, cmd.ep)
        /\ Executes(cmd.kind, cmd.ep)
        /\ Post(CommandEvent("success", cmd.trb))
     \/ /\ ~Fits(cmd.kind, cmd.ep)
        /\ Post(CommandEvent("context", cmd.trb))
        /\ UNCHANGED <<ep_state, tds, hc_deq>>
  /\ hc_cmd' = IF hc_cmd = "aborting" THEN "stopping" ELSE "none"
  /\ UNCHANGED <<data, sent>>

HcAborts ==
  /\ \/ hc_cmd = "aborting" /\ Post(CommandEvent("aborted", cmd.trb)) /\ hc_cmd' = "stopping"
     \/ hc_cmd = "stopping" /\ Post(CommandEvent("ring stopped", cr_cur)) /\ hc_cmd' = "none"
  /\ UNCHANGED <<ep_state, tds, hc_deq, data, sent>>

\* The next stage of a transfer ends, or the device stalls it.
HcTransfer(p) ==
  /\ Runs(p) /\ tds[p] # <<>>
  /\ \/ /\ Post(TransferEvent(p, "success", Head(tds[p])))
        /\ tds' = [tds EXCEPT ![p] = Tail(@)]
        /\ UNCHANGED ep_state
     \/ /\ Post(TransferEvent(p, "stall", Head(tds[p])))
        /\ ep_state' = [ep_state EXCEPT ![p] = "halted"]
        /\ UNCHANGED tds
  /\ UNCHANGED <<hc_cmd, hc_deq, data, sent>>

\* A report is written to the buffer of the next entry; one without data or an
\* error leaves it alone.
HcReport ==
  /\ Runs(Intr) /\ hc_deq # tr_cur
  /\ \/ /\ sent < MaxReports
        /\ Post(TransferEvent(Intr, "success", hc_deq))
        /\ sent' = sent + 1
        /\ data' = [data EXCEPT ![trb[hc_deq].buf] = sent + 1]
        /\ UNCHANGED ep_state
     \/ /\ Post(TransferEvent(Intr, "empty", hc_deq))
        /\ UNCHANGED <<sent, data, ep_state>>
     \/ /\ Post(TransferEvent(Intr, "stall", hc_deq))
        /\ ep_state' = [ep_state EXCEPT ![Intr] = "halted"]
        /\ UNCHANGED <<sent, data>>
  /\ hc_deq' = NextTrb(hc_deq)
  /\ UNCHANGED <<hc_cmd, tds>>

\* An entry of the ring is kept for the news that it is full.
HcFull == Post(FullEvent) /\ UNCHANGED hcVars

HcCommand == HcForcedStop \/ HcCompletes \/ HcAborts

HcStep ==
  /\ HcCommand \/ HcReport \/ HcFull \/ \E p \in Pipes : HcTransfer(p)
  /\ UNCHANGED driverVars

-----------------------------------------------------------------------------
\* The driver: the parts of a wait.

Waiting(pc) == usb_pc = pc
Goes(pc) == usb_pc' = pc

\* The tests of the loops that wait for a command, its abort and a transfer.
Wanted ==
  /\ AnyEvent
  /\ \/ usb_pc \in {"command", "aborting"} /\ EventType = "command" /\ Event.at = cmd.trb
     \/ usb_pc = "stopping" /\ EventType = "command" /\ Event.cc = "ring stopped"
     \/ usb_pc = "transfer" /\ EventType = "transfer" /\ Event.ep = call.ep

\* xhci_handle_transfer_event(): a report of the interrupt queue, its length kept in
\* the entry itself; anything else is dropped.
ReportArrivesMutant(e) ==
  IF e.type = "transfer" /\ e.ep = Intr /\ intrq # None /\ e.cc = "success"
  THEN /\ intrq' = [intrq EXCEPT !.ready = e.at]
       /\ trb' = [trb EXCEPT ![e.at].len = 1]
  ELSE UNCHANGED <<intrq, trb>>
ReportArrives(e) ==
  IF e.type = "transfer" /\ e.ep = Intr /\ intrq # None
  THEN /\ intrq' = [intrq EXCEPT !.ready = e.at]
       /\ trb' = [trb EXCEPT ![e.at].len = IF e.cc = "success" THEN 1 ELSE 0]
  ELSE UNCHANGED <<intrq, trb>>

\* xhci_handle_event() on the event in front.
HandleEvent ==
  IF EventType = "host"
  THEN TakeAndGiveBack /\ UNCHANGED <<intrq, trb>>
  ELSE Take /\ ReportArrives(Event)

\* Whatever is in front and not waited for is handled.
Handles ==
  /\ usb_pc \in {"command", "aborting", "stopping", "transfer", "draining", "polling"}
  /\ AnyEvent /\ ~Wanted
  /\ HandleEvent
  /\ UNCHANGED <<usb_pc, call, pipeVars, cmdVars, tr_cur, handed, got, hcVars>>

\* The time is up only when nothing is in front.
TimesOut == ~AnyEvent /\ GiveBack

-----------------------------------------------------------------------------
\* Commands: one at a time.

NextCommand(i) == IF i = CommandRingSize - 2 THEN 0 ELSE i + 1

\* xhci_cmd_...(): put on the ring with its doorbell, then xhci_wait_for_command().
PostCommand(kind, ep) ==
  /\ cmd' = [kind |-> kind, ep |-> ep, trb |-> cr_cur, cc |-> None]
  /\ cr_cur' = NextCommand(cr_cur)
  /\ hc_cmd' = "running"
  /\ Goes("command")

\* xhci_enqueue_td() and the doorbell, which starts a stopped endpoint.
Doorbell(ep) == ep_state' = [ep_state EXCEPT ![ep] = IF @ = "stopped" THEN "running" ELSE @]

Enqueue(p) ==
  /\ tds_made' = tds_made + 1
  /\ tds' = [tds EXCEPT ![p] = @ \o [i \in 1 .. Stages[p] |-> tds_made']]
  /\ Doorbell(p)
  /\ stage' = 0
  /\ Goes("transfer")

\* The call returns, with nothing more to do for its last command and stage.
Returns == Goes("idle") /\ call' = None
Forgets == cmd' = None /\ stage' = 0 /\ UNCHANGED <<cr_cur, tds_made>>

\* What follows a command that ended with "cc": xhci_reset_endpoint() goes on to
\* the dequeue pointer and then the transfer is enqueued; a stop ends a transfer
\* that timed out; the end of an interrupt queue drains and frees.
AfterCommand(cc) ==
  LET rest == <<ep_state, tds, pipeVars>>
      fails == cmd.kind \in {"reset", "dequeue"} /\ cc # "success"
  IN  \/ /\ cmd.kind = "reset" /\ cc = "success"
         /\ PostCommand("dequeue", cmd.ep)
         /\ UNCHANGED <<rest, call, queueVars>>
      \/ /\ cmd.kind = "dequeue" /\ cc = "success" /\ call.op = "transfer"
         /\ Enqueue(cmd.ep)
         /\ UNCHANGED <<call, cmdVars, hc_cmd, queueVars>>
      \/ /\ call.op = "transfer" /\ (fails \/ cmd.kind = "stop")
         /\ Returns /\ Forgets
         /\ UNCHANGED <<ep_state, tds, hc_cmd, queueVars>>
      \/ /\ call.op = "destroy" /\ cmd.kind = "stop"
         /\ Goes("draining")
         /\ UNCHANGED <<rest, call, cmdVars, hc_cmd, queueVars>>
      \/ /\ call.op = "destroy" /\ cmd.kind = "dequeue"
         /\ Returns /\ Forgets
         /\ tr_cur' = 0
         /\ UNCHANGED <<ep_state, tds, hc_cmd, trb, intrq, handed, got>>
      \/ /\ cmd.kind = "slot"
         /\ Goes("slot")
         /\ UNCHANGED <<rest, call, cmdVars, hc_cmd, queueVars>>

\* xhci_wait_for_command_done(): clear_event is 0 for Enable Slot only, which
\* still reads the event.
CommandDone ==
  /\ Waiting("command") /\ Wanted
  /\ IF cmd.kind = "slot" THEN GiveBack ELSE TakeAndGiveBack
  /\ AfterCommand(Event.cc)
  /\ UNCHANGED <<hc_deq, data, sent>>

\* After 100 ms the command is aborted.
CommandTimeout ==
  /\ Waiting("command") /\ <<cmd.kind, cmd.ep>> \in SlowCommands /\ hc_cmd \in {"running", "forced"}
  /\ TimesOut
  /\ hc_cmd' = "aborting"
  /\ Goes("aborting")
  /\ UNCHANGED <<call, pipeVars, cmdVars, queueVars, ep_state, tds, hc_deq, data, sent>>

\* xhci_wait_for_command_aborted(): the end of the command, then that of the ring.
Aborted ==
  /\ Waiting("aborting") /\ Wanted
  /\ Take
  /\ cmd' = [cmd EXCEPT !.cc = Event.cc]
  /\ Goes("stopping")
  /\ UNCHANGED <<call, pipeVars, cr_cur, queueVars, hcVars>>

RingStopped ==
  /\ Waiting("stopping") /\ Wanted
  /\ TakeAndGiveBack
  /\ AfterCommand(cmd.cc)
  /\ UNCHANGED <<hc_deq, data, sent>>

\* After 5 s: die() if the ring still runs.
AbortTimeout ==
  /\ Waiting("aborting") \/ Waiting("stopping")
  /\ hc_cmd # "none" /\ TimesOut
  /\ Goes("dead")
  /\ UNCHANGED <<call, pipeVars, cmdVars, queueVars, hcVars>>

Died == Waiting("dead") /\ UNCHANGED xhciVars

\* xhci_cmd_enable_slot() takes the event itself, which it takes to be the one in
\* front, and handles those behind it.
EnableSlot ==
  /\ Waiting("idle")
  /\ call' = [op |-> "slot", ep |-> None]
  /\ PostCommand("slot", None)
  /\ UNCHANGED <<eventVars, pipeVars, queueVars, ep_state, tds, hc_deq, data, sent>>

SlotAdvance ==
  /\ Waiting("slot")
  /\ Take
  /\ Goes("draining")
  /\ UNCHANGED <<call, pipeVars, cmdVars, queueVars, hcVars>>

-----------------------------------------------------------------------------
\* xhci_control() and xhci_bulk().

StartTransfer(p) ==
  /\ Waiting("idle") /\ tds_made < MaxTransfers
  /\ call' = [op |-> "transfer", ep |-> p]
  /\ \/ /\ ep_state[p] = "halted"
        /\ PostCommand("reset", p)
        /\ UNCHANGED <<pipeVars, ep_state, tds>>
     \/ /\ ep_state[p] = "stopped"
        /\ PostCommand("dequeue", p)
        /\ UNCHANGED <<pipeVars, ep_state, tds>>
     \/ /\ ep_state[p] = "running"
        /\ Enqueue(p)
        /\ UNCHANGED <<cmdVars, hc_cmd>>
  /\ UNCHANGED <<eventVars, queueVars, hc_deq, data, sent>>

\* A stage has ended: the next one is waited for, or the transfer is over.
StageDone ==
  /\ Waiting("transfer") /\ Wanted
  /\ TakeAndGiveBack
  /\ IF Event.cc = "success" /\ stage + 1 < Stages[call.ep]
     THEN stage' = stage + 1 /\ UNCHANGED <<usb_pc, call, tds_made, cmdVars>>
     ELSE Returns /\ Forgets
  /\ UNCHANGED <<queueVars, hcVars>>

\* After 3 s the endpoint is stopped.
TransferTimeoutMutant ==
  /\ Waiting("transfer")
  /\ TimesOut
  /\ Returns
  /\ UNCHANGED <<cmdVars, hc_cmd, pipeVars, queueVars, ep_state, tds, hc_deq, data, sent>>
TransferTimeoutLost ==
  /\ Waiting("transfer")
  /\ TimesOut
  /\ UNCHANGED <<driverVars, hcVars>>
TransferTimeout ==
  /\ Waiting("transfer")
  /\ TimesOut
  /\ PostCommand("stop", call.ep)
  /\ UNCHANGED <<call, pipeVars, queueVars, ep_state, tds, hc_deq, data, sent>>

-----------------------------------------------------------------------------
\* The queue of an interrupt endpoint.

\* xhci_create_intr_queue(): one entry is filled and kept back, the spare one.
CreateIntrQueue(reqcount) ==
  /\ Waiting("idle") /\ intrq = None
  /\ reqcount <= TransferRingSize - 2
  /\ trb' = [i \in Slots |-> IF i < reqcount THEN [buf |-> i + 1, len |-> 1] ELSE None]
  /\ intrq' = [next |-> 0, ready |-> None, count |-> reqcount]
  /\ tr_cur' = reqcount - 1
  /\ Doorbell(Intr)
  /\ data' = [b \in Bufs |-> 0]
  /\ handed' = None /\ got' = sent
  /\ UNCHANGED <<eventVars, usb_pc, call, pipeVars, cmdVars, hc_cmd, tds, hc_deq, sent>>

\* xhci_destroy_intr_queue(): stop, take what has been reported, free, start over.
DestroyIntrQueue ==
  /\ Waiting("idle") /\ intrq # None
  /\ call' = [op |-> "destroy", ep |-> Intr]
  /\ handed' = None
  /\ IF ep_state[Intr] = "running"
     THEN PostCommand("stop", Intr)
     ELSE Goes("draining") /\ UNCHANGED <<cmdVars, hc_cmd>>
  /\ UNCHANGED <<eventVars, pipeVars, trb, tr_cur, intrq, got, ep_state, tds, hc_deq, data, sent>>

\* xhci_handle_events(): until none is in front.
Drained ==
  /\ Waiting("draining") /\ TimesOut
  /\ \/ /\ call.op = "slot"
        /\ Returns /\ Forgets
        /\ UNCHANGED <<hc_cmd, queueVars>>
     \/ /\ call.op = "destroy"
        /\ intrq' = None
        /\ trb' = [i \in Slots |-> None]
        /\ PostCommand("dequeue", Intr)
        /\ UNCHANGED <<pipeVars, call, tr_cur, handed, got>>
  /\ UNCHANGED <<ep_state, tds, hc_deq, data, sent>>

\* xhci_poll_intr_queue(): the caller is done with the last buffer, ...
PollIntrQueue ==
  /\ Waiting("idle") /\ intrq # None
  /\ call' = [op |-> "poll", ep |-> Intr]
  /\ handed' = None
  /\ data' = [b \in Bufs |-> IF b = handed THEN 0 ELSE data[b]]
  /\ Goes("polling")
  /\ UNCHANGED <<eventVars, pipeVars, cmdVars, trb, tr_cur, intrq, got>>
  /\ UNCHANGED <<hc_cmd, ep_state, tds, hc_deq, sent>>

Polled ==
  /\ Waiting("polling") /\ TimesOut
  /\ Goes("taking")
  /\ UNCHANGED <<call, pipeVars, cmdVars, queueVars, hcVars>>

\* ... the spare entry goes to the controller and the buffer of the first one that
\* is ready becomes the spare.  It is handed out if anything was transferred.  (An
\* entry that has been read, like a buffer that the caller is done with, is forgotten.)
TakeReportMutant ==
  LET next == intrq.next
      buf == trb[NextTrb(next)].buf
      spare == NextTrb(tr_cur)
      ring == [trb EXCEPT ![spare] = [buf |-> buf, len |-> 1]]
  IN  /\ Waiting("taking") /\ intrq.ready # None
      /\ tr_cur' = spare
      /\ trb' = [i \in Slots |-> IF i = next /\ i # spare THEN None ELSE ring[i]]
      /\ Doorbell(Intr)
      /\ intrq' = [intrq EXCEPT !.ready = IF @ = next THEN None ELSE @, !.next = NextTrb(next)]
      /\ IF ring[next].len = 0
         THEN UNCHANGED <<usb_pc, call, handed, got>>
         ELSE handed' = buf /\ got' = got + 1 /\ Returns
      /\ UNCHANGED <<eventVars, pipeVars, cmdVars, hc_cmd, tds, hc_deq, data, sent>>
TakeReport ==
  LET next == intrq.next
      buf == trb[next].buf
      spare == NextTrb(tr_cur)
      ring == [trb EXCEPT ![spare] = [buf |-> buf, len |-> 1]]
  IN  /\ Waiting("taking") /\ intrq.ready # None
      /\ tr_cur' = spare
      /\ trb' = [i \in Slots |-> IF i = next /\ i # spare THEN None ELSE ring[i]]
      /\ Doorbell(Intr)
      /\ intrq' = [intrq EXCEPT !.ready = IF @ = next THEN None ELSE @, !.next = NextTrb(next)]
      /\ IF ring[next].len = 0
         THEN UNCHANGED <<usb_pc, call, handed, got>>
         ELSE handed' = buf /\ got' = got + 1 /\ Returns
      /\ UNCHANGED <<eventVars, pipeVars, cmdVars, hc_cmd, tds, hc_deq, data, sent>>

NothingReady ==
  /\ Waiting("taking") /\ intrq.ready = None
  /\ Returns
  /\ UNCHANGED <<eventVars, pipeVars, cmdVars, queueVars, hcVars>>

-----------------------------------------------------------------------------
XhciCall ==
  \/ \E p \in Pipes : StartTransfer(p)
  \/ EnableSlot
  \/ \E n \in ReqCounts : CreateIntrQueue(n)
  \/ DestroyIntrQueue \/ PollIntrQueue

XhciContinues ==
  \/ Handles
  \/ CommandDone \/ CommandTimeout \/ Aborted \/ RingStopped \/ AbortTimeout
  \/ SlotAdvance \/ StageDone \/ TransferTimeout
  \/ Drained \/ Polled \/ TakeReport \/ NothingReady

XhciNext == XhciCall \/ XhciContinues \/ Died \/ HcStep

\* The driver does nothing else while it waits, and the controller carries out its
\* commands and says when the event ring is full.
XhciFairness ==
  /\ WF_xhciVars(XhciContinues)
  /\ WF_xhciVars(HcCommand /\ UNCHANGED driverVars)
  /\ WF_xhciVars(HcFull /\ UNCHANGED driverVars)

XhciSpec == XhciInit /\ [][XhciNext]_xhciVars /\ XhciFairness

-----------------------------------------------------------------------------
\* Properties.

\* Every variable has its type; an interrupt queue exists with at least one buffer.
XhciTypeOK ==
  /\ usb_pc \in {"idle", "command", "aborting", "stopping", "slot", "draining", "transfer",
                 "polling", "taking", "dead"}
  /\ (call = None) <=> (usb_pc = "idle")
  /\ call \in Calls \cup {None} /\ cmd \in Commands \cup {None}
  /\ Used \in 0 .. Places
  /\ ep_state \in [Endpoints -> {"running", "stopped", "halted"}]
  /\ hc_cmd \in {"none", "running", "forced", "aborting", "stopping"}
  /\ hc_deq \in Slots /\ tr_cur \in Slots
  /\ intrq \in IntrQueues \cup {None}

Waiters(ep) == {i \in DOMAIN queue :
                  /\ queue[i] # FullEvent
                  /\ queue[i].type = "transfer" /\ queue[i].ep = ep}

\* xhci_wait_for_transfer() knows an event by its endpoint only.  Yet while a transfer is
\* waited for, every event of its endpoint that is on its way is its own: none of an
\* earlier one that timed out or failed is taken for it.
OwnAnswer ==
  Waiting("transfer") => \A i \in Waiters(call.ep) : queue[i].at = tds_made

\* The reports of the device are handed out in order, none twice and none left out,
\* and the controller leaves a buffer alone until the next poll.
ReportsInOrder == handed # None => data[handed] = got

\* xhci_destroy_intr_queue() frees what the "count" entries from "next" on hold: that is
\* each buffer of the queue once, after any number of polls.
BuffersAccounted ==
  intrq # None =>
    LET at[i \in 0 .. intrq.count - 1] == IF i = 0 THEN intrq.next ELSE NextTrb(at[i - 1])
    IN  /\ {trb[at[i]].buf : i \in DOMAIN at} = 1 .. intrq.count
        /\ at[intrq.count - 1] = tr_cur

\* No call waits for ever: a full event ring, events of others and lost answers included.
CallReturns == usb_pc # "idle" ~> usb_pc \in {"idle", "dead"}
=============================================================================
