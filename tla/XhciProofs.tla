----------------------------- MODULE XhciProofs -----------------------------
(***************************************************************************)
(* Proofs about xHCI, for any number of pipes, rings of any size and any   *)
(* number of transfers and reports.  The driver first: a transfer gets its *)
(* own answer, and the reports of an interrupt endpoint come out in order. *)
(* Then the end of its calls: no sequence of steps goes on for ever, and   *)
(* nobody waits in vain.  Last the event ring below it, which is the queue *)
(* that it works on, and the two side by side.                             *)
(***************************************************************************)
EXTENDS MCXhci, SequenceTheorems, FiniteSetTheorems, WellFoundedInduction, TLAPS

-----------------------------------------------------------------------------
(***************************************************************************)
(* The driver.  The queue of events comes first: who waits for what.       *)
(***************************************************************************)
\* The controller may be late with a command before a transfer; any other it carries out
\* within the 100 ms that xhci_wait_for_command() gives it.  After a late "stop" the
\* driver starts the next transfer while events of the last one are still to come.
InTime == SlowCommands \subseteq {"reset", "dequeue"} \X Pipes

Items == TransferEvents \cup CommandEvents \cup {FullEvent}
IsAnswer(e) == e # FullEvent /\ e.type = "command"
IsFor(e, ep) == e # FullEvent /\ e.type = "transfer" /\ e.ep = ep
Answers == {i \in DOMAIN queue : IsAnswer(queue[i])}

QueueOK == queue \in Seq(Items) /\ taken \in Nat /\ Used \in 0 .. Places

LEMMA ItemsAre ==
  ASSUME NEW e \in Items
  PROVE  /\ e # FullEvent => e.type \in {"transfer", "command"}
         /\ e # FullEvent /\ e.type = "command" => e \in CommandEvents
         /\ e # FullEvent /\ e.type = "transfer" => e \in TransferEvents
BY DEF Items, CommandEvents, TransferEvents

LEMMA IndexesAre ==
  ASSUME QueueOK
  PROVE  /\ Answers \subseteq 1 .. Len(queue) /\ Len(queue) \in Nat
         /\ \A ep : Waiters(ep) \subseteq 1 .. Len(queue)
         /\ \A ep : \A i \in 1 .. Len(queue) : i \in Waiters(ep) <=> IsFor(queue[i], ep)
         /\ \A i \in 1 .. Len(queue) : i \in Answers <=> IsAnswer(queue[i])
         /\ \A i \in 1 .. Len(queue) : queue[i] \in Items
BY DEF QueueOK, Answers, Waiters, IsFor, IsAnswer

LEMMA Posted ==
  ASSUME QueueOK, NEW e \in Items, Post(e)
  PROVE  /\ QueueOK'
         /\ \A i \in 1 .. Len(queue) : queue'[i] = queue[i]
         /\ Len(queue') = Len(queue) + 1 /\ queue'[Len(queue) + 1] = e
         /\ Answers' = Answers \cup (IF IsAnswer(e) THEN {Len(queue) + 1} ELSE {})
         /\ \A ep : Waiters(ep)' = Waiters(ep) \cup (IF IsFor(e, ep) THEN {Len(queue) + 1} ELSE {})
<1>. DEFINE n == Len(queue)
<1>1. /\ queue' = Append(queue, e) /\ queue \in Seq(Items) /\ n \in Nat
      /\ DOMAIN queue = 1 .. n /\ taken' = taken
  BY DEF Post, QueueOK
<1>2. /\ queue' \in Seq(Items) /\ Len(queue') = n + 1 /\ DOMAIN queue' = 1 .. n + 1
      /\ \A i \in 1 .. n : queue'[i] = queue[i]
      /\ queue'[n + 1] = e
  BY <1>1
<1>3. Used' \in 0 .. Places
  BY <1>1, <1>2, XhciAssumption DEF Post, QueueOK, Used
<1>. HIDE DEF n
<1>4. 1 .. n + 1 = (1 .. n) \cup {n + 1}
  BY <1>1
<1>5. Answers' = Answers \cup (IF IsAnswer(e) THEN {n + 1} ELSE {})
  <2>1. Answers' = {i \in 1 .. n + 1 : IsAnswer(queue'[i])}
    BY <1>2 DEF Answers, IsAnswer
  <2>2. Answers = {i \in 1 .. n : IsAnswer(queue[i])}
    BY <1>1 DEF Answers, IsAnswer
  <2>. QED  BY <1>2, <1>4, <2>1, <2>2
<1>6. ASSUME NEW ep
      PROVE  Waiters(ep)' = Waiters(ep) \cup (IF IsFor(e, ep) THEN {n + 1} ELSE {})
  <2>1. Waiters(ep)' = {i \in 1 .. n + 1 : IsFor(queue'[i], ep)}
    BY <1>2 DEF Waiters, IsFor
  <2>2. Waiters(ep) = {i \in 1 .. n : IsFor(queue[i], ep)}
    BY <1>1 DEF Waiters, IsFor
  <2>. QED  BY <1>2, <1>4, <2>1, <2>2
<1>. QED  BY <1>1, <1>2, <1>3, <1>5, <1>6 DEF n, QueueOK

\* The events that are left after the first one was taken.
LEMMA TakenOff ==
  ASSUME QueueOK, queue # <<>>, queue' = Tail(queue), taken' \in {taken + 1, 0}
  PROVE  /\ QueueOK' /\ Event = queue[1] /\ Event \in Items /\ 1 \in 1 .. Len(queue)
         /\ Len(queue') = Len(queue) - 1
         /\ \A i \in 2 .. Len(queue) : queue'[i - 1] = queue[i]
         /\ Answers' = {i - 1 : i \in Answers \ {1}}
         /\ \A ep : Waiters(ep)' = {i - 1 : i \in Waiters(ep) \ {1}}
<1>. DEFINE n == Len(queue)
<1>1. /\ queue \in Seq(Items) /\ n \in Nat /\ n > 0 /\ DOMAIN queue = 1 .. n
  BY DEF QueueOK
<1>2. /\ queue' \in Seq(Items) /\ Len(queue') = n - 1 /\ DOMAIN queue' = 1 .. n - 1
      /\ \A i \in 1 .. n - 1 : queue'[i] = queue[i + 1]
      /\ Event = queue[1] /\ queue[1] \in Items
  BY <1>1 DEF Event
<1>3. QueueOK'
  BY <1>1, <1>2, XhciAssumption DEF QueueOK, Used
<1>. HIDE DEF n
<1>4. \A i \in 2 .. n : i - 1 \in 1 .. n - 1 /\ queue'[i - 1] = queue[i]
  BY <1>1, <1>2
<1>5. Answers' = {i - 1 : i \in Answers \ {1}}
  <2>1. \A i : i \in Answers' <=> i \in 1 .. n - 1 /\ IsAnswer(queue'[i])
    BY <1>2 DEF Answers, IsAnswer
  <2>2. \A i : i \in Answers <=> i \in 1 .. n /\ IsAnswer(queue[i])
    BY <1>1 DEF Answers, IsAnswer
  <2>3. ASSUME NEW i \in Answers' PROVE i + 1 \in Answers \ {1} /\ i = (i + 1) - 1
    BY <1>1, <1>2, <2>1, <2>2
  <2>4. ASSUME NEW i \in Answers \ {1} PROVE i - 1 \in Answers'
    BY <1>1, <1>2, <1>4, <2>1, <2>2
  <2>. QED  BY <2>3, <2>4
<1>6. ASSUME NEW ep
      PROVE  Waiters(ep)' = {i - 1 : i \in Waiters(ep) \ {1}}
  <2>1. \A i : i \in Waiters(ep)' <=> i \in 1 .. n - 1 /\ IsFor(queue'[i], ep)
    BY <1>2 DEF Waiters, IsFor
  <2>2. \A i : i \in Waiters(ep) <=> i \in 1 .. n /\ IsFor(queue[i], ep)
    BY <1>1 DEF Waiters, IsFor
  <2>3. ASSUME NEW i \in Waiters(ep)' PROVE i + 1 \in Waiters(ep) \ {1} /\ i = (i + 1) - 1
    BY <1>1, <1>2, <2>1, <2>2
  <2>4. ASSUME NEW i \in Waiters(ep) \ {1} PROVE i - 1 \in Waiters(ep)'
    BY <1>1, <1>2, <1>4, <2>1, <2>2
  <2>. QED  BY <2>3, <2>4
<1>. QED  BY <1>1, <1>2, <1>3, <1>4, <1>5, <1>6 DEF n

LEMMA SameQueue ==
  ASSUME QueueOK, queue' = queue, taken' \in {taken, 0}
  PROVE  /\ QueueOK' /\ Answers' = Answers /\ \A ep : Waiters(ep)' = Waiters(ep)
BY XhciAssumption DEF QueueOK, Used, Answers, Waiters, IsAnswer

LEMMA InFront ==
  ASSUME QueueOK, AnyEvent
  PROVE  /\ Event = queue[1] /\ Event \in Items /\ 1 \in 1 .. Len(queue)
         /\ EventType \in {"host", "transfer", "command"}
         /\ EventType = "command" => IsAnswer(Event) /\ 1 \in Answers /\ Event \in CommandEvents
         /\ EventType # "command" => ~IsAnswer(Event) /\ 1 \notin Answers
         /\ EventType = "transfer" => Event \in TransferEvents
         /\ \A ep : 1 \in Waiters(ep) <=> EventType = "transfer" /\ Event.ep = ep
<1>1. Event = queue[1] /\ Event \in Items /\ 1 \in 1 .. Len(queue)
  BY DEF QueueOK, AnyEvent, Event
<1>2. EventType \in {"host", "transfer", "command"}
  BY <1>1, ItemsAre DEF EventType
<1>. QED  BY <1>1, <1>2, ItemsAre, IndexesAre DEF EventType, IsAnswer, IsFor

-----------------------------------------------------------------------------
(***************************************************************************)
(* The invariant.                                                          *)
(***************************************************************************)

\* Every variable holds a value of its type.
DriverTypeOK ==
  /\ XhciTypeOK /\ QueueOK
  /\ stage \in Nat /\ tds_made \in Nat /\ cr_cur \in Nat
  /\ tds \in [Pipes -> Seq(Nat)]
  /\ DOMAIN trb = Slots /\ data \in [Bufs -> Nat] /\ sent \in Nat /\ got \in Nat
  /\ \A w \in Waiters(Intr) : queue[w].at \in Slots

\* What a call waits for, and with which commands.
Commanding == {"command", "aborting", "stopping"}
Doing(op) == call # None /\ call.op = op
OnPipe(p) == Doing("transfer") /\ call.ep = p

CallInv ==
  /\ Doing("transfer") => call.ep \in Pipes
  /\ usb_pc = "transfer" => call.op = "transfer"
  /\ usb_pc \in {"polling", "taking"} => call.op = "poll"
  /\ Doing("poll") => intrq # None
  /\ usb_pc = "slot" => call.op = "slot"
  /\ usb_pc = "draining" => call.op \in {"slot", "destroy"}
  /\ usb_pc \in Commanding \cup {"slot", "dead"} =>
       /\ cmd \in Commands
       /\ \/ call.op = "transfer" /\ cmd.kind \in {"reset", "dequeue", "stop"} /\ cmd.ep = call.ep
          \/ call.op = "destroy" /\ cmd.kind \in {"dequeue", "stop"} /\ cmd.ep = Intr
          \/ call.op = "slot" /\ cmd.kind = "slot" /\ cmd.ep = None
  /\ usb_pc \in {"aborting", "stopping", "dead"} => call.op = "transfer" /\ cmd.kind # "stop"

\* The answers on their way are those to the command that is waited for.
Ends(k) == queue[k].at = cmd.trb /\ queue[k].cc # "ring stopped"
CommandInv ==
  /\ usb_pc \notin Commanding \cup {"slot", "dead"} => hc_cmd = "none" /\ Answers = {}
  /\ usb_pc = "command" =>
       \/ hc_cmd \in {"running", "forced"} /\ Answers = {}
       \/ hc_cmd = "none" /\ \E k : Answers = {k} /\ Ends(k)
  /\ usb_pc = "aborting" =>
       \/ hc_cmd = "aborting" /\ Answers = {}
       \/ hc_cmd = "stopping" /\ \E k : Answers = {k} /\ Ends(k)
       \/ /\ hc_cmd = "none"
          /\ \E k, l : Answers = {k, l} /\ k < l /\ Ends(k) /\ queue[l].cc = "ring stopped"
  /\ usb_pc = "stopping" =>
       \/ hc_cmd = "stopping" /\ Answers = {}
       \/ hc_cmd = "none" /\ \E l : Answers = {l} /\ queue[l].cc = "ring stopped"
  /\ usb_pc = "slot" => hc_cmd = "none" /\ Answers = {1}

-----------------------------------------------------------------------------
(***************************************************************************)
(* Types.                                                                  *)
(***************************************************************************)
LEMMA EventRecords ==
  /\ \A ep \in Endpoints, cc \in {"success", "stall", "stopped", "empty"}, at \in Nat :
       /\ TransferEvent(ep, cc, at) \in Items
       /\ IsFor(TransferEvent(ep, cc, at), ep) /\ ~IsAnswer(TransferEvent(ep, cc, at))
       /\ \A p : p # ep => ~IsFor(TransferEvent(ep, cc, at), p)
  /\ \A cc \in CommandCodes, at \in Nat :
       /\ CommandEvent(cc, at) \in Items
       /\ IsAnswer(CommandEvent(cc, at)) /\ \A p : ~IsFor(CommandEvent(cc, at), p)
  /\ FullEvent \in Items /\ ~IsAnswer(FullEvent) /\ \A p : ~IsFor(FullEvent, p)
BY XhciAssumption DEF TransferEvent, CommandEvent, Items, TransferEvents, CommandEvents, IsFor, IsAnswer

LEMMA Numbers ==
  /\ TransferRingSize \in Nat /\ TransferRingSize > 2 /\ CommandRingSize \in Nat
  /\ 0 \in Slots /\ \A i \in Slots : NextTrb(i) \in Slots
  /\ None \notin Nat /\ None \notin Slots /\ None \notin Endpoints
  /\ Intr \in Endpoints /\ Intr \notin Pipes /\ Pipes \subseteq Endpoints
  /\ \A i \in Slots : i \in Nat
BY XhciAssumption DEF Slots, NextTrb, Endpoints

LEMMA TypesInit == XhciInit => DriverTypeOK
BY Numbers, XhciAssumption
   DEF XhciInit, QueueInit, DriverTypeOK, XhciTypeOK, QueueOK, Used, Waiters, Calls, Commands, IntrQueues

\* The driver's queue of reports, when the controller posts or the driver takes an event.
LEMMA WaitersPosted ==
  ASSUME DriverTypeOK, NEW e \in Items, Post(e), IsFor(e, Intr) => e.at \in Slots
  PROVE  QueueOK' /\ \A w \in Waiters(Intr)' : queue'[w].at \in Slots
BY Posted, IndexesAre DEF DriverTypeOK

LEMMA WaitersTaken ==
  ASSUME DriverTypeOK, queue # <<>>, queue' = Tail(queue), taken' \in {taken + 1, 0}
  PROVE  QueueOK' /\ \A w \in Waiters(Intr)' : queue'[w].at \in Slots
<1>1. Waiters(Intr) \subseteq 1 .. Len(queue) /\ Len(queue) \in Nat
  BY IndexesAre DEF DriverTypeOK
<1>2. QueueOK' /\ Waiters(Intr)' = {i - 1 : i \in Waiters(Intr) \ {1}}
      /\ \A i \in 2 .. Len(queue) : queue'[i - 1] = queue[i]
  BY TakenOff DEF DriverTypeOK
<1>3. ASSUME NEW w \in Waiters(Intr) \ {1}
      PROVE  queue'[w - 1].at \in Slots
  BY <1>1, <1>2 DEF DriverTypeOK
<1>. QED  BY <1>2, <1>3

\* What has a type but for the queue.
RestOK ==
  /\ usb_pc \in {"idle", "command", "aborting", "stopping", "slot", "draining", "transfer",
                 "polling", "taking", "dead"}
  /\ (call = None) <=> (usb_pc = "idle")
  /\ call \in Calls \cup {None} /\ cmd \in Commands \cup {None}
  /\ ep_state \in [Endpoints -> {"running", "stopped", "halted"}]
  /\ hc_cmd \in {"none", "running", "forced", "aborting", "stopping"}
  /\ hc_deq \in Slots /\ tr_cur \in Slots
  /\ intrq \in IntrQueues \cup {None}
  /\ stage \in Nat /\ tds_made \in Nat /\ cr_cur \in Nat
  /\ tds \in [Pipes -> Seq(Nat)]
  /\ DOMAIN trb = Slots /\ data \in [Bufs -> Nat] /\ sent \in Nat /\ got \in Nat

LEMMA TypeParts ==
  DriverTypeOK <=> RestOK /\ QueueOK /\ \A w \in Waiters(Intr) : queue[w].at \in Slots
BY DEF DriverTypeOK, RestOK, QueueOK, XhciTypeOK

LEMMA TypesTogether ==
  ASSUME RestOK', QueueOK', \A w \in Waiters(Intr)' : queue'[w].at \in Slots
  PROVE  DriverTypeOK'
BY DEF DriverTypeOK, RestOK, QueueOK, XhciTypeOK

LEMMA HcTypes ==
  ASSUME DriverTypeOK, CallInv, CommandInv, HcStep
  PROVE  DriverTypeOK'
<1>0. /\ RestOK
      /\ hc_cmd # "none" => cmd \in Commands
      /\ hc_cmd # "none" => call # None /\ (cmd.ep \in Endpoints \/ cmd.kind = "slot")
  <2>1. RestOK
    BY TypeParts
  <2>2. hc_cmd # "none" => usb_pc \in Commanding \cup {"dead"}
    BY <2>1 DEF CommandInv, RestOK, Commanding
  <2>3. ASSUME hc_cmd # "none"
        PROVE  cmd \in Commands /\ call # None /\ (cmd.ep \in Endpoints \/ cmd.kind = "slot")
    <3>1. usb_pc \in Commanding \cup {"dead"} /\ usb_pc # "idle" /\ call # None
      BY <2>1, <2>2, <2>3 DEF Commanding, RestOK
    <3>. QED  BY <3>1, Numbers DEF CallInv, Doing
  <2>. QED  BY <2>1, <2>3
<1>1. UNCHANGED <<usb_pc, call, stage, tds_made, cmd, cr_cur, trb, tr_cur, intrq, handed, got>>
  BY DEF HcStep, driverVars, pipeVars, cmdVars, queueVars
<1>2. CASE HcForcedStop
  <2>1. PICK ep \in Endpoints, at \in Nat : /\ Post(TransferEvent(ep, "stopped", at))
                                            /\ ep = Intr => at \in Slots
    <3>1. CASE /\ cmd.ep \in Pipes /\ tds[cmd.ep] # <<>>
               /\ Post(TransferEvent(cmd.ep, "stopped", Head(tds[cmd.ep])))
      BY <1>0, <3>1, Numbers DEF RestOK
    <3>2. CASE cmd.ep = Intr /\ hc_deq # tr_cur /\ Post(TransferEvent(Intr, "stopped", hc_deq))
      BY <1>0, <3>2, Numbers DEF RestOK
    <3>. QED  BY <1>2, <3>1, <3>2 DEF HcForcedStop
  <2>2. QueueOK' /\ \A w \in Waiters(Intr)' : queue'[w].at \in Slots
    BY <2>1, WaitersPosted, EventRecords DEF TransferEvent
  <2>3. RestOK'
    BY <1>0, <1>1, <1>2 DEF HcForcedStop, RestOK
  <2>. QED  BY <2>2, <2>3, TypesTogether
<1>3. CASE HcCompletes
  <2>1. PICK cc \in CommandCodes, at \in Nat : Post(CommandEvent(cc, at))
    BY <1>0, <1>3 DEF HcCompletes, CommandCodes, Commands, RestOK
  <2>2. QueueOK' /\ \A w \in Waiters(Intr)' : queue'[w].at \in Slots
    BY <2>1, WaitersPosted, EventRecords
  <2>3. RestOK'
    <3>1. ep_state' \in [Endpoints -> {"running", "stopped", "halted"}] /\ tds' \in [Pipes -> Seq(Nat)]
          /\ hc_deq' \in Slots
      <4>1. CASE Executes(cmd.kind, cmd.ep)
        <5>1. hc_deq' \in Slots
          BY <1>0, <4>1, Numbers DEF Executes, RestOK
        <5>2. ep_state' \in [Endpoints -> {"running", "stopped", "halted"}]
          BY <1>0, <4>1 DEF Executes, RestOK
        <5>3. tds' \in [Pipes -> Seq(Nat)]
          <6>1. <<>> \in Seq(Nat)
            OBVIOUS
          <6>. QED  BY <1>0, <4>1, <6>1 DEF Executes, RestOK
        <5>. QED  BY <5>1, <5>2, <5>3
      <4>2. CASE UNCHANGED <<ep_state, tds, hc_deq>>
        BY <1>0, <4>2 DEF RestOK
      <4>. QED  BY <1>3, <4>1, <4>2 DEF HcCompletes
    <3>. QED  BY <1>0, <1>1, <1>3, <3>1 DEF HcCompletes, RestOK
  <2>. QED  BY <2>2, <2>3, TypesTogether
<1>4. CASE HcAborts
  <2>1. PICK cc \in CommandCodes, at \in Nat : Post(CommandEvent(cc, at))
    BY <1>0, <1>4 DEF HcAborts, CommandCodes, Commands, RestOK
  <2>2. QueueOK' /\ \A w \in Waiters(Intr)' : queue'[w].at \in Slots
    BY <2>1, WaitersPosted, EventRecords
  <2>3. RestOK'
    BY <1>0, <1>1, <1>4 DEF HcAborts, RestOK
  <2>. QED  BY <2>2, <2>3, TypesTogether
<1>5. ASSUME NEW p \in Pipes, HcTransfer(p)
      PROVE  DriverTypeOK'
  <2>1. Head(tds[p]) \in Nat /\ Tail(tds[p]) \in Seq(Nat) /\ p \in Endpoints /\ p # Intr
    BY <1>0, <1>5, Numbers DEF HcTransfer, RestOK
  <2>2. PICK cc \in {"success", "stall"} : Post(TransferEvent(p, cc, Head(tds[p])))
    BY <1>5 DEF HcTransfer
  <2>3. QueueOK' /\ \A w \in Waiters(Intr)' : queue'[w].at \in Slots
    BY <2>1, <2>2, WaitersPosted, EventRecords
  <2>4. RestOK'
    BY <1>0, <1>1, <1>5, <2>1 DEF HcTransfer, RestOK
  <2>. QED  BY <2>3, <2>4, TypesTogether
<1>6. CASE HcReport
  <2>1. PICK cc \in {"success", "empty", "stall"} : Post(TransferEvent(Intr, cc, hc_deq))
    BY <1>6 DEF HcReport
  <2>2. QueueOK' /\ \A w \in Waiters(Intr)' : queue'[w].at \in Slots
    <3>1. TransferEvent(Intr, cc, hc_deq).at = hc_deq /\ TransferEvent(Intr, cc, hc_deq) \in Items
      BY <1>0, Numbers, EventRecords DEF TransferEvent, RestOK
    <3>. QED  BY <1>0, <2>1, <3>1, WaitersPosted DEF RestOK
  <2>3. RestOK'
    <3>1. hc_deq' \in Slots /\ sent' \in Nat /\ data' \in [Bufs -> Nat]
      BY <1>0, <1>6, Numbers DEF HcReport, RestOK
    <3>2. ep_state' \in [Endpoints -> {"running", "stopped", "halted"}]
      BY <1>0, <1>6, Numbers DEF HcReport, RestOK
    <3>3. UNCHANGED <<hc_cmd, tds>>
      BY <1>6 DEF HcReport
    <3>. QED  BY <1>0, <1>1, <3>1, <3>2, <3>3 DEF RestOK
  <2>. QED  BY <2>2, <2>3, TypesTogether
<1>7. CASE HcFull
  <2>1. QueueOK' /\ \A w \in Waiters(Intr)' : queue'[w].at \in Slots
    BY <1>7, WaitersPosted, EventRecords DEF HcFull
  <2>2. RestOK'
    BY <1>0, <1>1, <1>7 DEF HcFull, hcVars, RestOK
  <2>. QED  BY <2>1, <2>2, TypesTogether
<1>. QED  BY <1>2, <1>3, <1>4, <1>5, <1>6, <1>7 DEF HcStep, HcCommand

\* What the driver does to the queue: nothing, or it takes the event in front.
Looks ==
  \/ queue' = queue /\ taken' \in {taken, 0}
  \/ AnyEvent /\ queue' = Tail(queue) /\ taken' \in {taken + 1, 0}

LEMMA DriverLooks == XhciCall \/ XhciContinues => Looks
BY DEF Looks, XhciCall, XhciContinues, StartTransfer, EnableSlot, CreateIntrQueue, DestroyIntrQueue,
       PollIntrQueue, Handles, HandleEvent, CommandDone, CommandTimeout, Aborted, RingStopped,
       AbortTimeout, SlotAdvance, StageDone, TransferTimeout, Drained, Polled, TakeReport,
       NothingReady, eventVars, TimesOut, GiveBack, Take, TakeAndGiveBack, AnyEvent

LEMMA LooksTypes ==
  ASSUME DriverTypeOK, Looks
  PROVE  QueueOK' /\ \A w \in Waiters(Intr)' : queue'[w].at \in Slots
<1>1. CASE queue' = queue /\ taken' \in {taken, 0}
  BY <1>1, SameQueue DEF DriverTypeOK
<1>2. CASE AnyEvent /\ queue' = Tail(queue) /\ taken' \in {taken + 1, 0}
  BY <1>2, WaitersTaken DEF AnyEvent
<1>. QED  BY <1>1, <1>2 DEF Looks

LEMMA CommandPosted ==
  ASSUME RestOK, NEW kind \in {"stop", "reset", "dequeue", "slot"}, NEW ep \in Endpoints \cup {None},
         PostCommand(kind, ep)
  PROVE  /\ cmd' \in Commands /\ cmd'.kind = kind /\ cmd'.ep = ep /\ cmd'.cc = None
         /\ cr_cur' \in Nat /\ hc_cmd' = "running" /\ usb_pc' = "command"
<1>1. cr_cur' \in Nat
  BY Numbers DEF PostCommand, NextCommand, RestOK
<1>. QED  BY <1>1 DEF PostCommand, Goes, Commands, RestOK

LEMMA EnqueueTypes ==
  ASSUME RestOK, NEW p \in Pipes, Enqueue(p)
  PROVE  /\ tds_made' \in Nat /\ tds' \in [Pipes -> Seq(Nat)] /\ stage' \in Nat
         /\ ep_state' \in [Endpoints -> {"running", "stopped", "halted"}]
         /\ usb_pc' = "transfer"
<1>1. tds_made' \in Nat /\ stage' \in Nat /\ Stages[p] \in Nat
  <2>1. Stages[p] \in Nat
    BY XhciAssumption
  <2>2. tds_made' = tds_made + 1 /\ stage' = 0
    BY DEF Enqueue
  <2>. QED  BY <2>1, <2>2 DEF RestOK
<1>2. [i \in 1 .. Stages[p] |-> tds_made'] \in Seq(Nat)
  BY <1>1
<1>3. tds[p] \o [i \in 1 .. Stages[p] |-> tds_made'] \in Seq(Nat)
  BY <1>2 DEF RestOK
<1>4. tds' = [tds EXCEPT ![p] = tds[p] \o [i \in 1 .. Stages[p] |-> tds_made']]
  BY DEF Enqueue
<1>5. tds' \in [Pipes -> Seq(Nat)]
  BY <1>3, <1>4 DEF RestOK
<1>. QED  BY <1>1, <1>5 DEF Enqueue, Doorbell, Goes, RestOK

\* AfterCommand() keeps the types and the call in order.
LEMMA AfterCommandTypes ==
  ASSUME RestOK, CallInv, usb_pc \in {"command", "stopping"}, NEW cc, AfterCommand(cc),
         UNCHANGED <<hc_deq, data, sent>>
  PROVE  RestOK' /\ CallInv'
<1>1. /\ call # None /\ call \in Calls /\ cmd \in Commands
      /\ cmd.ep \in Endpoints \cup {None}
  BY DEF CallInv, Commanding, RestOK, Commands
<1>2. CASE /\ cmd.kind = "reset" /\ cc = "success" /\ PostCommand("dequeue", cmd.ep)
           /\ UNCHANGED <<ep_state, tds, pipeVars, call, queueVars>>
  <2>1. /\ cmd' \in Commands /\ cmd'.kind = "dequeue" /\ cmd'.ep = cmd.ep
        /\ cr_cur' \in Nat /\ hc_cmd' = "running" /\ usb_pc' = "command"
    BY <1>1, <1>2, CommandPosted
  <2>2. call.op = "transfer" /\ cmd.ep = call.ep
    BY <1>2 DEF CallInv, Commanding
  <2>3. RestOK'
    BY <1>1, <1>2, <2>1 DEF RestOK, pipeVars, queueVars
  <2>. QED  BY <1>1, <1>2, <2>1, <2>2, <2>3 DEF CallInv, Commanding, Doing, pipeVars, queueVars
<1>3. CASE /\ cmd.kind = "dequeue" /\ cc = "success" /\ call.op = "transfer" /\ Enqueue(cmd.ep)
           /\ UNCHANGED <<call, cmdVars, hc_cmd, queueVars>>
  <2>1. cmd.ep = call.ep /\ call.ep \in Pipes
    BY <1>1, <1>3 DEF CallInv, Commanding, Doing
  <2>2. RestOK' /\ usb_pc' = "transfer"
    BY <1>1, <1>3, <2>1, EnqueueTypes DEF RestOK, cmdVars, queueVars
  <2>. QED  BY <1>1, <1>3, <2>1, <2>2 DEF CallInv, Commanding, Doing, queueVars
<1>4. CASE /\ Returns /\ Forgets
           /\ UNCHANGED <<ep_state, tds, hc_cmd>>
           /\ UNCHANGED queueVars \/ (tr_cur' = 0 /\ UNCHANGED <<trb, intrq, handed, got>>)
  <2>1. usb_pc' = "idle" /\ call' = None
    BY <1>4 DEF Returns, Goes
  <2>2. RestOK'
    BY <1>4, <2>1, Numbers DEF RestOK, Forgets, queueVars
  <2>. QED  BY <2>1, <2>2 DEF CallInv, Commanding, Doing
<1>5. CASE /\ call.op \in {"destroy", "slot"}
           /\ \/ call.op = "destroy" /\ Goes("draining")
              \/ call.op = "slot" /\ Goes("slot")
           /\ UNCHANGED <<ep_state, tds, pipeVars, call, cmdVars, hc_cmd, queueVars>>
  <2>1. RestOK'
    BY <1>1, <1>5 DEF RestOK, Goes, pipeVars, cmdVars, queueVars
  <2>2. usb_pc \in Commanding
    BY DEF Commanding
  <2>3. usb_pc' \in {"draining", "slot"} /\ call' = call /\ cmd' = cmd /\ intrq' = intrq
    BY <1>5 DEF Goes, cmdVars, queueVars
  <2>. QED  BY <1>1, <1>5, <2>1, <2>2, <2>3 DEF CallInv, Commanding, Doing, Goes
<1>6. cmd.kind = "slot" <=> call.op = "slot"
  BY DEF CallInv, Commanding
<1>. QED  BY <1>2, <1>3, <1>4, <1>5, <1>6 DEF AfterCommand

\* An event that is handled: a report of the interrupt queue is noted.
Noted ==
  /\ EventType = "transfer" /\ Event.ep = Intr /\ intrq # None
  /\ intrq' = [intrq EXCEPT !.ready = Event.at]
  /\ trb' = [trb EXCEPT ![Event.at].len = IF Event.cc = "success" THEN 1 ELSE 0]

LEMMA HandledIs ==
  ASSUME DriverTypeOK, AnyEvent, HandleEvent
  PROVE  /\ queue' = Tail(queue) /\ taken' \in {taken + 1, 0}
         /\ \/ Noted
            \/ UNCHANGED <<intrq, trb>> /\ ~(EventType = "transfer" /\ Event.ep = Intr /\ intrq # None)
<1>1. EventType \in {"host", "transfer", "command"} /\ Event \in Items
  BY InFront DEF DriverTypeOK
<1>2. EventType # "host" => EventType = Event.type
  BY <1>1 DEF EventType
<1>. QED  BY <1>1, <1>2 DEF HandleEvent, ReportArrives, Noted, Take, TakeAndGiveBack

LEMMA NotedTypes ==
  ASSUME DriverTypeOK, AnyEvent, Noted
  PROVE  intrq' \in IntrQueues /\ DOMAIN trb' = Slots
<1>1. Event.at \in Slots
  <2>1. 1 \in Waiters(Intr) /\ Event = queue[1]
    BY InFront DEF DriverTypeOK, Noted
  <2>. QED  BY <2>1 DEF DriverTypeOK
<1>2. intrq \in IntrQueues /\ DOMAIN trb = Slots
  BY DEF DriverTypeOK, XhciTypeOK, Noted
<1>. QED  BY <1>1, <1>2 DEF Noted, IntrQueues

LEMMA ContinuesTypes ==
  ASSUME InTime, DriverTypeOK, CallInv, CommandInv, XhciContinues
  PROVE  RestOK' /\ CallInv'
<1>0. RestOK
  BY TypeParts
<1>1. CASE Handles
  <2>1. /\ intrq' \in IntrQueues \cup {None} /\ (intrq # None => intrq' # None)
        /\ DOMAIN trb' = Slots
    <3>1. CASE Noted
      BY <1>1, <3>1, NotedTypes, XhciAssumption DEF Handles
    <3>2. CASE UNCHANGED <<intrq, trb>>
      BY <1>0, <3>2 DEF RestOK
    <3>. QED  BY <1>1, <3>1, <3>2, HandledIs DEF Handles
  <2>2. UNCHANGED <<usb_pc, call, stage, tds_made, cmd, cr_cur, tr_cur, got, hc_cmd, ep_state,
                    tds, hc_deq, data, sent>>
    BY <1>1 DEF Handles, pipeVars, cmdVars, hcVars
  <2>. QED  BY <1>0, <2>1, <2>2 DEF RestOK, CallInv, Doing
<1>2. CASE CommandDone
  BY <1>0, <1>2, AfterCommandTypes DEF CommandDone, Waiting
<1>3. CASE CommandTimeout
  <2>1. /\ usb_pc = "command" /\ usb_pc' = "aborting" /\ hc_cmd' = "aborting"
        /\ UNCHANGED <<call, stage, tds_made, cmd, cr_cur, trb, tr_cur, intrq, got, ep_state,
                       tds, hc_deq, data, sent>>
    BY <1>3 DEF CommandTimeout, Waiting, Goes, pipeVars, cmdVars, queueVars
  <2>2. call.op = "transfer" /\ cmd.kind # "stop"
    <3>1. <<cmd.kind, cmd.ep>> \in {"reset", "dequeue"} \X Pipes
      BY <1>3 DEF CommandTimeout, InTime
    <3>2. cmd.kind \in {"reset", "dequeue"} /\ cmd.ep \in Pipes
      BY <3>1
    <3>. QED  BY <2>1, <3>2, Numbers DEF CallInv, Commanding
  <2>. QED  BY <1>0, <2>1, <2>2 DEF RestOK, CallInv, Doing, Commanding
<1>4. CASE Aborted
  <2>1. /\ usb_pc = "aborting" /\ usb_pc' = "stopping"
        /\ UNCHANGED <<call, stage, tds_made, cr_cur, trb, tr_cur, intrq, got, hc_cmd, ep_state,
                       tds, hc_deq, data, sent>>
    BY <1>4 DEF Aborted, Waiting, Goes, pipeVars, queueVars, hcVars
  <2>2. Event.cc \in CommandCodes
    BY <1>4, <2>1, InFront DEF Aborted, Wanted, DriverTypeOK, CommandEvents
  <2>3. cmd \in Commands
    BY <2>1 DEF CallInv, Commanding
  <2>4. cmd' \in Commands /\ cmd'.kind = cmd.kind /\ cmd'.ep = cmd.ep
    BY <1>4, <2>2, <2>3 DEF Aborted, Commands
  <2>. QED  BY <1>0, <2>1, <2>4 DEF RestOK, CallInv, Doing, Commanding
<1>5. CASE RingStopped
  BY <1>0, <1>5, AfterCommandTypes DEF RingStopped, Waiting
<1>6. CASE AbortTimeout
  <2>1. /\ usb_pc \in {"aborting", "stopping"} /\ usb_pc' = "dead"
        /\ UNCHANGED <<call, stage, tds_made, cmd, cr_cur, trb, tr_cur, intrq, got, hc_cmd, ep_state,
                       tds, hc_deq, data, sent>>
    BY <1>6 DEF AbortTimeout, Waiting, Goes, pipeVars, cmdVars, queueVars, hcVars
  <2>. QED  BY <1>0, <2>1 DEF RestOK, CallInv, Doing, Commanding
<1>7. CASE SlotAdvance
  <2>1. /\ usb_pc = "slot" /\ usb_pc' = "draining"
        /\ UNCHANGED <<call, stage, tds_made, cmd, cr_cur, trb, tr_cur, intrq, got, hc_cmd, ep_state,
                       tds, hc_deq, data, sent>>
    BY <1>7 DEF SlotAdvance, Waiting, Goes, pipeVars, cmdVars, queueVars, hcVars
  <2>. QED  BY <1>0, <2>1 DEF RestOK, CallInv, Doing, Commanding
<1>8. CASE StageDone
  <2>1. /\ usb_pc = "transfer"
        /\ UNCHANGED <<trb, tr_cur, intrq, handed, got, hc_cmd, ep_state, tds, hc_deq, data, sent>>
    BY <1>8 DEF StageDone, Waiting, queueVars, hcVars
  <2>2. CASE stage' = stage + 1 /\ UNCHANGED <<usb_pc, call, tds_made, cmdVars>>
    BY <1>0, <2>1, <2>2 DEF RestOK, CallInv, Doing, Commanding, cmdVars
  <2>3. CASE Returns /\ Forgets
    BY <1>0, <2>1, <2>3 DEF RestOK, CallInv, Doing, Commanding, Returns, Goes, Forgets
  <2>. QED  BY <1>8, <2>2, <2>3 DEF StageDone
<1>9. CASE TransferTimeout
  <2>1. /\ usb_pc = "transfer" /\ call \in Calls /\ call.op = "transfer" /\ call.ep \in Pipes
        /\ call.ep \in Endpoints
    BY <1>0, <1>9, Numbers DEF TransferTimeout, Waiting, RestOK, CallInv, Doing
  <2>2. /\ cmd' \in Commands /\ cmd'.kind = "stop" /\ cmd'.ep = call.ep
        /\ cr_cur' \in Nat /\ hc_cmd' = "running" /\ usb_pc' = "command"
    BY <1>0, <1>9, <2>1, CommandPosted DEF TransferTimeout
  <2>3. UNCHANGED <<call, stage, tds_made, trb, tr_cur, intrq, got, ep_state, tds, hc_deq, data, sent>>
    BY <1>9 DEF TransferTimeout, pipeVars, queueVars
  <2>. QED  BY <1>0, <2>1, <2>2, <2>3 DEF RestOK, CallInv, Doing, Commanding
<1>10. CASE Drained
  <2>1. usb_pc = "draining" /\ UNCHANGED <<ep_state, tds, hc_deq, data, sent>>
    BY <1>10 DEF Drained, Waiting
  <2>2. CASE call.op = "slot" /\ Returns /\ Forgets /\ UNCHANGED <<hc_cmd, queueVars>>
    BY <1>0, <2>1, <2>2 DEF RestOK, CallInv, Doing, Commanding, Returns, Goes, Forgets, queueVars
  <2>3. CASE /\ call.op = "destroy" /\ intrq' = None /\ trb' = [i \in Slots |-> None]
             /\ PostCommand("dequeue", Intr) /\ UNCHANGED <<pipeVars, call, tr_cur, handed, got>>
    <3>1. /\ cmd' \in Commands /\ cmd'.kind = "dequeue" /\ cmd'.ep = Intr
          /\ cr_cur' \in Nat /\ hc_cmd' = "running" /\ usb_pc' = "command"
      BY <1>0, <2>3, CommandPosted, Numbers
    <3>. QED  BY <1>0, <2>1, <2>3, <3>1 DEF RestOK, CallInv, Doing, Commanding, pipeVars
  <2>. QED  BY <1>10, <2>2, <2>3 DEF Drained
<1>11. CASE Polled
  <2>1. /\ usb_pc = "polling" /\ usb_pc' = "taking"
        /\ UNCHANGED <<call, stage, tds_made, cmd, cr_cur, trb, tr_cur, intrq, got, hc_cmd, ep_state,
                       tds, hc_deq, data, sent>>
    BY <1>11 DEF Polled, Waiting, Goes, pipeVars, cmdVars, queueVars, hcVars
  <2>. QED  BY <1>0, <2>1 DEF RestOK, CallInv, Doing, Commanding
<1>12. CASE TakeReport
  <2>1. /\ usb_pc = "taking" /\ intrq \in IntrQueues /\ DOMAIN trb' = Slots /\ tr_cur' \in Slots
    BY <1>0, <1>12, Numbers DEF TakeReport, Waiting, RestOK, CallInv, Doing
  <2>2. intrq' \in IntrQueues
    BY <1>12, <2>1, Numbers DEF TakeReport, IntrQueues
  <2>3. ep_state' \in [Endpoints -> {"running", "stopped", "halted"}]
    BY <1>0, <1>12 DEF TakeReport, Doorbell, RestOK
  <2>4. \/ UNCHANGED <<usb_pc, call, got>>
        \/ usb_pc' = "idle" /\ call' = None /\ got' = got + 1
    BY <1>12 DEF TakeReport, Returns, Goes
  <2>5. UNCHANGED <<stage, tds_made, cmd, cr_cur, hc_cmd, tds, hc_deq, data, sent>>
    BY <1>12 DEF TakeReport, pipeVars, cmdVars
  <2>6. intrq' # None
    BY <2>2, XhciAssumption
  <2>. QED  BY <1>0, <2>1, <2>2, <2>3, <2>4, <2>5, <2>6 DEF RestOK, CallInv, Doing, Commanding
<1>13. CASE NothingReady
  <2>1. /\ usb_pc' = "idle" /\ call' = None
        /\ UNCHANGED <<stage, tds_made, cmd, cr_cur, trb, tr_cur, intrq, got, hc_cmd, ep_state,
                       tds, hc_deq, data, sent>>
    BY <1>13 DEF NothingReady, Returns, Goes, pipeVars, cmdVars, queueVars, hcVars
  <2>. QED  BY <1>0, <2>1 DEF RestOK, CallInv, Doing, Commanding
<1>. QED  BY <1>1, <1>2, <1>3, <1>4, <1>5, <1>6, <1>7, <1>8, <1>9, <1>10, <1>11, <1>12, <1>13
          DEF XhciContinues

LEMMA CallTypes ==
  ASSUME DriverTypeOK, CallInv, XhciCall
  PROVE  RestOK' /\ CallInv'
<1>0. RestOK
  BY TypeParts
<1>1. ASSUME NEW p \in Pipes, StartTransfer(p)
      PROVE  RestOK' /\ CallInv'
  <2>0. p \in Endpoints
    BY Numbers
  <2>1. /\ call' \in Calls /\ call'.op = "transfer" /\ call'.ep = p
        /\ UNCHANGED <<trb, tr_cur, intrq, handed, got, hc_deq, data, sent>>
    BY <1>1, <2>0 DEF StartTransfer, Calls, queueVars
  <2>2. call' # None
    BY <2>1, XhciAssumption
  <2>3. ASSUME NEW kind \in {"reset", "dequeue"}, PostCommand(kind, p), UNCHANGED <<pipeVars, ep_state, tds>>
        PROVE  RestOK' /\ CallInv'
    <3>1. /\ cmd' \in Commands /\ cmd'.kind = kind /\ cmd'.ep = p
          /\ cr_cur' \in Nat /\ hc_cmd' = "running" /\ usb_pc' = "command"
      BY <1>0, <2>0, <2>3, CommandPosted
    <3>. QED  BY <1>0, <2>1, <2>2, <2>3, <3>1 DEF RestOK, CallInv, Doing, Commanding, pipeVars
  <2>4. CASE Enqueue(p) /\ UNCHANGED <<cmdVars, hc_cmd>>
    <3>1. /\ tds_made' \in Nat /\ tds' \in [Pipes -> Seq(Nat)] /\ stage' \in Nat
          /\ ep_state' \in [Endpoints -> {"running", "stopped", "halted"}]
          /\ usb_pc' = "transfer"
      BY <1>0, <2>4, EnqueueTypes
    <3>. QED  BY <1>0, <2>1, <2>2, <2>4, <3>1 DEF RestOK, CallInv, Doing, Commanding, cmdVars
  <2>. QED  BY <1>1, <2>3, <2>4 DEF StartTransfer
<1>2. CASE EnableSlot
  <2>1. /\ call' \in Calls /\ call'.op = "slot"
        /\ UNCHANGED <<stage, tds_made, trb, tr_cur, intrq, handed, got, ep_state, tds, hc_deq, data, sent>>
    BY <1>2 DEF EnableSlot, Calls, pipeVars, queueVars
  <2>2. call' # None
    BY <2>1, XhciAssumption
  <2>3. /\ cmd' \in Commands /\ cmd'.kind = "slot" /\ cmd'.ep = None
        /\ cr_cur' \in Nat /\ hc_cmd' = "running" /\ usb_pc' = "command"
    BY <1>0, <1>2, CommandPosted DEF EnableSlot
  <2>. QED  BY <1>0, <2>1, <2>2, <2>3 DEF RestOK, CallInv, Doing, Commanding
<1>3. ASSUME NEW n \in ReqCounts, CreateIntrQueue(n)
      PROVE  RestOK' /\ CallInv'
  <2>0. n \in Nat \ {0} /\ n <= TransferRingSize - 2
    BY <1>3, XhciAssumption DEF CreateIntrQueue
  <2>1. intrq' = [next |-> 0, ready |-> None, count |-> n] /\ intrq' \in IntrQueues
    BY <1>3, <2>0, Numbers DEF CreateIntrQueue, IntrQueues
  <2>2. intrq' # None
    BY <2>1, XhciAssumption
  <2>3. tr_cur' \in Slots
    BY <1>3, <2>0, Numbers DEF CreateIntrQueue, Slots
  <2>4. ep_state' \in [Endpoints -> {"running", "stopped", "halted"}]
    BY <1>0, <1>3 DEF CreateIntrQueue, Doorbell, RestOK
  <2>5. DOMAIN trb' = Slots /\ data' \in [Bufs -> Nat] /\ got' = sent
    BY <1>3 DEF CreateIntrQueue
  <2>6. UNCHANGED <<usb_pc, call, stage, tds_made, cmd, cr_cur, hc_cmd, tds, hc_deq, sent>>
    BY <1>3 DEF CreateIntrQueue, pipeVars, cmdVars
  <2>. QED  BY <1>0, <2>1, <2>2, <2>3, <2>4, <2>5, <2>6 DEF RestOK, CallInv, Doing, Commanding
<1>4. CASE DestroyIntrQueue
  <2>1. /\ call' \in Calls /\ call'.op = "destroy"
        /\ UNCHANGED <<stage, tds_made, trb, tr_cur, intrq, got, ep_state, tds, hc_deq, data, sent>>
    BY <1>4, Numbers DEF DestroyIntrQueue, Calls, pipeVars
  <2>2. call' # None
    BY <2>1, XhciAssumption
  <2>3. CASE PostCommand("stop", Intr)
    <3>1. /\ cmd' \in Commands /\ cmd'.kind = "stop" /\ cmd'.ep = Intr
          /\ cr_cur' \in Nat /\ hc_cmd' = "running" /\ usb_pc' = "command"
      BY <1>0, <2>3, CommandPosted, Numbers
    <3>. QED  BY <1>0, <2>1, <2>2, <3>1 DEF RestOK, CallInv, Doing, Commanding
  <2>4. CASE Goes("draining") /\ UNCHANGED <<cmdVars, hc_cmd>>
    BY <1>0, <2>1, <2>2, <2>4 DEF RestOK, CallInv, Doing, Commanding, Goes, cmdVars
  <2>. QED  BY <1>4, <2>3, <2>4 DEF DestroyIntrQueue
<1>5. CASE PollIntrQueue
  <2>1. /\ call' \in Calls /\ call'.op = "poll" /\ usb_pc' = "polling" /\ intrq # None
        /\ UNCHANGED <<stage, tds_made, cmd, cr_cur, trb, tr_cur, intrq, got, hc_cmd, ep_state,
                       tds, hc_deq, sent>>
    BY <1>5, Numbers DEF PollIntrQueue, Calls, Goes, pipeVars, cmdVars
  <2>2. call' # None
    BY <2>1, XhciAssumption
  <2>3. data' \in [Bufs -> Nat]
    BY <1>0, <1>5 DEF PollIntrQueue, RestOK
  <2>. QED  BY <1>0, <2>1, <2>2, <2>3 DEF RestOK, CallInv, Doing, Commanding
<1>. QED  BY <1>1, <1>2, <1>3, <1>4, <1>5 DEF XhciCall

LEMMA TypesStep ==
  ASSUME InTime, DriverTypeOK, CallInv, CommandInv, [XhciNext]_xhciVars
  PROVE  DriverTypeOK' /\ CallInv'
<1>1. CASE XhciCall \/ XhciContinues
  BY <1>1, CallTypes, ContinuesTypes, DriverLooks, LooksTypes, TypesTogether
<1>2. CASE HcStep
  <2>1. UNCHANGED <<usb_pc, call, cmd, intrq>>
    BY <1>2 DEF HcStep, driverVars, cmdVars, queueVars
  <2>. QED  BY <1>2, <2>1, HcTypes DEF CallInv, Doing
<1>3. CASE Died \/ UNCHANGED xhciVars
  <2>1. UNCHANGED xhciVars
    BY <1>3 DEF Died
  <2>2. CallInv'
    BY <2>1 DEF xhciVars, driverVars, cmdVars, queueVars, CallInv, Doing
  <2>3. DriverTypeOK'
    BY <2>1 DEF xhciVars, driverVars, pipeVars, cmdVars, queueVars, hcVars, eventVars, DriverTypeOK,
                XhciTypeOK, QueueOK, Used, Waiters
  <2>. QED  BY <2>2, <2>3
<1>. QED  BY <1>1, <1>2, <1>3 DEF XhciNext

-----------------------------------------------------------------------------
(***************************************************************************)
(* Commands: the driver takes no event for the end of a command but the    *)
(* one that the controller posted for it.                                  *)
(***************************************************************************)

\* The answers on their way stay as they are, "d" places further to the front.
AnswersKept(d) ==
  /\ Answers' = {i - d : i \in Answers}
  /\ \A i \in Answers : queue'[i - d] = queue[i]

LEMMA CommandKept ==
  ASSUME QueueOK, CommandInv, NEW d \in {0, 1}, AnswersKept(d), UNCHANGED <<usb_pc, cmd>>,
         hc_cmd' = hc_cmd \/ (hc_cmd = "running" /\ hc_cmd' = "forced"),
         usb_pc = "slot" => d = 0
  PROVE  CommandInv'
<1>0. Answers \subseteq Nat
  BY IndexesAre
<1>1. usb_pc \notin Commanding \cup {"slot", "dead"} => hc_cmd' = "none" /\ Answers' = {}
  BY DEF CommandInv, AnswersKept
<1>2. ASSUME NEW k, Answers = {k}
      PROVE  Answers' = {k - d} /\ (Ends(k) => Ends(k - d)') /\ queue'[k - d] = queue[k]
  BY <1>0, <1>2 DEF AnswersKept, Ends
<1>3. usb_pc = "command" =>
        \/ hc_cmd' \in {"running", "forced"} /\ Answers' = {}
        \/ hc_cmd' = "none" /\ \E k : Answers' = {k} /\ Ends(k)'
  <2>1. CASE hc_cmd \in {"running", "forced"} /\ Answers = {}
    BY <2>1 DEF AnswersKept
  <2>2. ASSUME NEW k, hc_cmd = "none", Answers = {k}, Ends(k)
        PROVE  hc_cmd' = "none" /\ Answers' = {k - d} /\ Ends(k - d)'
    BY <1>2, <2>2
  <2>. QED  BY <2>1, <2>2 DEF CommandInv
<1>4. usb_pc = "aborting" =>
        \/ hc_cmd' = "aborting" /\ Answers' = {}
        \/ hc_cmd' = "stopping" /\ \E k : Answers' = {k} /\ Ends(k)'
        \/ /\ hc_cmd' = "none"
           /\ \E k, l : Answers' = {k, l} /\ k < l /\ Ends(k)' /\ queue'[l].cc = "ring stopped"
  <2>1. CASE hc_cmd = "aborting" /\ Answers = {}
    BY <2>1 DEF AnswersKept
  <2>2. ASSUME NEW k, hc_cmd = "stopping", Answers = {k}, Ends(k)
        PROVE  hc_cmd' = "stopping" /\ Answers' = {k - d} /\ Ends(k - d)'
    BY <1>2, <2>2
  <2>3. ASSUME NEW k, NEW l, hc_cmd = "none", Answers = {k, l}, k < l, Ends(k),
               queue[l].cc = "ring stopped"
        PROVE  /\ hc_cmd' = "none" /\ Answers' = {k - d, l - d} /\ k - d < l - d
               /\ Ends(k - d)' /\ queue'[l - d].cc = "ring stopped"
    <3>1. k \in Nat /\ l \in Nat /\ k \in Answers /\ l \in Answers
      BY <1>0, <2>3
    <3>2. Answers' = {k - d, l - d}
      BY <2>3 DEF AnswersKept
    <3>3. queue'[k - d] = queue[k] /\ queue'[l - d] = queue[l]
      BY <3>1 DEF AnswersKept
    <3>4. k - d < l - d
      <4>1. d \in Int /\ k \in Int /\ l \in Int
        BY <3>1
      <4>2. k < l
        BY ONLY <2>3
      <4>. QED  BY <4>1, <4>2
    <3>5. Ends(k - d)'
      BY <2>3, <3>3 DEF Ends
    <3>. QED  BY <2>3, <3>2, <3>3, <3>4, <3>5
  <2>. QED  BY <2>1, <2>2, <2>3 DEF CommandInv
<1>5. usb_pc = "stopping" =>
        \/ hc_cmd' = "stopping" /\ Answers' = {}
        \/ hc_cmd' = "none" /\ \E l : Answers' = {l} /\ queue'[l].cc = "ring stopped"
  <2>1. CASE hc_cmd = "stopping" /\ Answers = {}
    BY <2>1 DEF AnswersKept
  <2>2. ASSUME NEW l, hc_cmd = "none", Answers = {l}, queue[l].cc = "ring stopped"
        PROVE  hc_cmd' = "none" /\ Answers' = {l - d} /\ queue'[l - d].cc = "ring stopped"
    BY <1>2, <2>2
  <2>. QED  BY <2>1, <2>2 DEF CommandInv
<1>6. usb_pc = "slot" => hc_cmd' = "none" /\ Answers' = {1}
  BY <1>0 DEF CommandInv, AnswersKept
<1>. QED  BY <1>1, <1>3, <1>4, <1>5, <1>6 DEF CommandInv

LEMMA HcCommands ==
  ASSUME DriverTypeOK, CallInv, CommandInv, HcStep
  PROVE  CommandInv'
<1>. PICK n : n = Len(queue)
  OBVIOUS
<1>0. /\ QueueOK /\ RestOK /\ UNCHANGED <<usb_pc, cmd>> /\ n \in Nat
      /\ Answers \subseteq 1 .. n
      /\ hc_cmd # "none" => usb_pc \in Commanding \cup {"dead"}
      /\ hc_cmd # "none" /\ usb_pc # "dead" => cmd.trb \in Nat
  BY TypeParts, IndexesAre
     DEF HcStep, driverVars, cmdVars, CommandInv, RestOK, Commanding, CallInv, Commands
<1>1. ASSUME NEW e \in Items, Post(e), ~IsAnswer(e),
             hc_cmd' = hc_cmd \/ (hc_cmd = "running" /\ hc_cmd' = "forced")
      PROVE  CommandInv'
  <2>0. /\ Answers' = Answers \cup {}
        /\ \A i \in 1 .. Len(queue) : queue'[i] = queue[i]
    BY <1>0, <1>1, Posted
  <2>1. /\ Answers' = Answers /\ \A i \in Answers : i - 0 = i
        /\ \A i \in Answers : queue'[i] = queue[i]
    BY <1>0, <2>0
  <2>2. AnswersKept(0)
    BY <2>1 DEF AnswersKept
  <2>. QED  BY <1>0, <1>1, <2>2, CommandKept
<1>2. ASSUME NEW cc \in CommandCodes, NEW at \in Nat, Post(CommandEvent(cc, at))
      PROVE  /\ Answers' = Answers \cup {n + 1}
             /\ \A i \in Answers : queue'[i] = queue[i] /\ i < n + 1
             /\ queue'[n + 1].cc = cc /\ queue'[n + 1].at = at
  <2>1. CommandEvent(cc, at) \in Items /\ IsAnswer(CommandEvent(cc, at))
        /\ CommandEvent(cc, at).cc = cc /\ CommandEvent(cc, at).at = at
    BY EventRecords DEF CommandEvent
  <2>2. /\ Answers' = Answers \cup {n + 1} /\ queue'[n + 1] = CommandEvent(cc, at)
        /\ \A i \in 1 .. n : queue'[i] = queue[i]
    BY <1>0, <1>2, <2>1, Posted
  <2>. QED  BY <1>0, <2>1, <2>2
<1>3. CASE HcForcedStop
  <2>1. PICK ep \in Endpoints, at \in Nat : Post(TransferEvent(ep, "stopped", at))
    <3>1. CASE /\ cmd.ep \in Pipes /\ tds[cmd.ep] # <<>>
               /\ Post(TransferEvent(cmd.ep, "stopped", Head(tds[cmd.ep])))
      <4>1. cmd.ep \in Endpoints /\ Head(tds[cmd.ep]) \in Nat
        BY <1>0, <3>1, Numbers DEF RestOK
      <4>. QED  BY <3>1, <4>1
    <3>2. CASE Post(TransferEvent(Intr, "stopped", hc_deq))
      BY <1>0, <3>2, Numbers DEF RestOK
    <3>. QED  BY <1>3, <3>1, <3>2 DEF HcForcedStop
  <2>. QED  BY <1>1, <1>3, <2>1, EventRecords DEF HcForcedStop
<1>4. CASE HcCompletes
  <2>1. CASE usb_pc = "dead"
    BY <1>0, <2>1 DEF CommandInv, Commanding
  <2>. SUFFICES ASSUME usb_pc # "dead" PROVE CommandInv'
    BY <2>1
  <2>2. cmd.trb \in Nat /\ hc_cmd \in {"running", "forced", "aborting"}
        /\ hc_cmd' = IF hc_cmd = "aborting" THEN "stopping" ELSE "none"
    BY <1>0, <1>4 DEF HcCompletes
  <2>3. PICK cc \in {"success", "context"} : Post(CommandEvent(cc, cmd.trb))
    BY <1>4 DEF HcCompletes
  <2>4. Answers' = Answers \cup {n + 1} /\ Ends(n + 1)'
    BY <1>0, <1>2, <2>2, <2>3 DEF Ends, CommandCodes
  <2>5. /\ Answers = {}
        /\ \/ usb_pc = "command" /\ hc_cmd' = "none"
           \/ usb_pc = "aborting" /\ hc_cmd' = "stopping"
    BY <1>0, <2>2 DEF CommandInv, Commanding
  <2>. QED  BY <1>0, <2>4, <2>5 DEF CommandInv, Commanding
<1>5. CASE HcAborts
  <2>1. CASE usb_pc = "dead"
    BY <1>0, <2>1 DEF CommandInv, Commanding
  <2>. SUFFICES ASSUME usb_pc # "dead" PROVE CommandInv'
    BY <2>1
  <2>2. CASE hc_cmd = "aborting" /\ Post(CommandEvent("aborted", cmd.trb)) /\ hc_cmd' = "stopping"
    <3>1. Answers' = Answers \cup {n + 1} /\ Ends(n + 1)'
      BY <1>0, <1>2, <2>2 DEF Ends, CommandCodes
    <3>2. usb_pc = "aborting" /\ Answers = {}
      BY <1>0, <2>2 DEF CommandInv, Commanding
    <3>. QED  BY <1>0, <2>2, <3>1, <3>2 DEF CommandInv, Commanding
  <2>3. CASE hc_cmd = "stopping" /\ Post(CommandEvent("ring stopped", cr_cur)) /\ hc_cmd' = "none"
    <3>1. /\ Answers' = Answers \cup {n + 1} /\ queue'[n + 1].cc = "ring stopped"
          /\ \A i \in Answers : queue'[i] = queue[i] /\ i < n + 1
      BY <1>0, <1>2, <2>3 DEF CommandCodes, RestOK
    <3>2. CASE usb_pc = "stopping" /\ Answers = {}
      BY <1>0, <2>3, <3>1, <3>2 DEF CommandInv, Commanding
    <3>3. ASSUME usb_pc = "aborting", NEW k, Answers = {k}, Ends(k)
          PROVE  CommandInv'
      <4>1. Answers' = {k, n + 1} /\ k < n + 1 /\ Ends(k)'
        BY <1>0, <3>1, <3>3 DEF Ends
      <4>. QED  BY <1>0, <2>3, <3>1, <3>3, <4>1 DEF CommandInv, Commanding
    <3>. QED  BY <1>0, <2>3, <3>2, <3>3 DEF CommandInv, Commanding
  <2>. QED  BY <1>5, <2>2, <2>3 DEF HcAborts
<1>6. ASSUME NEW p \in Pipes, HcTransfer(p)
      PROVE  CommandInv'
  <2>1. Head(tds[p]) \in Nat /\ p \in Endpoints
    BY <1>0, <1>6, Numbers DEF HcTransfer, RestOK
  <2>. QED  BY <1>1, <1>6, <2>1, EventRecords DEF HcTransfer
<1>7. CASE HcReport
  <2>1. hc_deq \in Nat /\ Intr \in Endpoints
    BY <1>0, Numbers DEF RestOK
  <2>. QED  BY <1>1, <1>7, <2>1, EventRecords DEF HcReport
<1>8. CASE HcFull
  BY <1>1, <1>8, EventRecords DEF HcFull, hcVars
<1>. QED  BY <1>3, <1>4, <1>5, <1>6, <1>7, <1>8 DEF HcStep, HcCommand

\* The event that is waited for is the first answer, and there is one.
LEMMA WantedIs ==
  ASSUME DriverTypeOK, CommandInv, AnyEvent
  PROVE  /\ EventType = "command" => (Wanted /\ usb_pc \in Commanding) \/ usb_pc \in {"slot", "dead"}
         /\ Wanted /\ usb_pc = "command" => hc_cmd = "none" /\ Answers = {1} /\ Ends(1)
         /\ Wanted /\ usb_pc = "aborting" =>
              \/ hc_cmd = "stopping" /\ Answers = {1}
              \/ hc_cmd = "none" /\ \E l : Answers = {1, l} /\ 1 < l /\ queue[l].cc = "ring stopped"
         /\ Wanted /\ usb_pc = "stopping" => hc_cmd = "none" /\ Answers = {1}
<1>1. /\ Event = queue[1] /\ Answers \subseteq Nat \ {0}
      /\ EventType = "command" => 1 \in Answers
  BY InFront, IndexesAre DEF DriverTypeOK
<1>2. EventType = "command" => (Wanted /\ usb_pc \in Commanding) \/ usb_pc \in {"slot", "dead"}
  <2>. SUFFICES ASSUME 1 \in Answers, EventType = "command", usb_pc \notin {"slot", "dead"}
                PROVE  Wanted /\ usb_pc \in Commanding
    BY <1>1
  <2>1. usb_pc \in Commanding
    BY DEF CommandInv
  <2>2. CASE usb_pc = "command"
    BY <1>1, <2>1, <2>2 DEF CommandInv, Wanted, Ends
  <2>3. CASE usb_pc = "aborting"
    <3>1. Ends(1)
      <4>1. CASE \E k : Answers = {k} /\ Ends(k)
        BY <1>1, <4>1
      <4>2. ASSUME NEW k, NEW l, Answers = {k, l}, k < l, Ends(k)
            PROVE  Ends(1)
        <5>1. k \in Nat \ {0} /\ l \in Nat \ {0}
          BY <1>1, <4>2
        <5>2. k = 1
          BY <4>2, <5>1
        <5>. QED  BY <4>2, <5>2
      <4>. QED  BY <2>3, <4>1, <4>2 DEF CommandInv
    <3>. QED  BY <1>1, <2>1, <2>3, <3>1 DEF Wanted, Ends
  <2>4. CASE usb_pc = "stopping"
    BY <1>1, <2>1, <2>4 DEF CommandInv, Wanted
  <2>. QED  BY <2>1, <2>2, <2>3, <2>4 DEF Commanding
<1>3. Wanted /\ usb_pc \in Commanding => 1 \in Answers
  BY <1>1 DEF Wanted, Commanding
<1>4. Wanted /\ usb_pc = "command" => hc_cmd = "none" /\ Answers = {1} /\ Ends(1)
  BY <1>3 DEF CommandInv, Commanding
<1>5. Wanted /\ usb_pc = "aborting" =>
        \/ hc_cmd = "stopping" /\ Answers = {1}
        \/ hc_cmd = "none" /\ \E l : Answers = {1, l} /\ 1 < l /\ queue[l].cc = "ring stopped"
  <2>. SUFFICES ASSUME 1 \in Answers, usb_pc = "aborting"
                PROVE  \/ hc_cmd = "stopping" /\ Answers = {1}
                       \/ hc_cmd = "none" /\ \E l : Answers = {1, l} /\ 1 < l /\ queue[l].cc = "ring stopped"
    BY <1>3 DEF Commanding
  <2>1. ASSUME NEW k, NEW l, Answers = {k, l}, k < l
        PROVE  k = 1
    <3>1. k \in Nat \ {0} /\ l \in Nat \ {0}
      BY <1>1, <2>1
    <3>. QED  BY <2>1, <3>1
  <2>. QED  BY <2>1 DEF CommandInv
<1>6. Wanted /\ usb_pc = "stopping" => hc_cmd = "none" /\ Answers = {1}
  BY <1>3 DEF CommandInv, Commanding
<1>. QED  BY <1>2, <1>4, <1>5, <1>6

\* After a command there is none, or the next one is on its way.
LEMMA AfterCommandCommands ==
  ASSUME CallInv, usb_pc \in {"command", "stopping"}, hc_cmd = "none",
         NEW cc, AfterCommand(cc),
         IF cmd.kind = "slot" THEN Answers' = {1} ELSE Answers' = {}
  PROVE  CommandInv'
<1>1. CASE /\ cmd.kind = "slot" /\ Goes("slot") /\ hc_cmd' = hc_cmd
  BY <1>1 DEF CommandInv, Commanding, Goes
<1>2. CASE /\ cmd.kind # "slot" /\ hc_cmd' = hc_cmd /\ usb_pc' \in {"idle", "draining", "transfer"}
  BY <1>2 DEF CommandInv, Commanding
<1>3. CASE cmd.kind # "slot" /\ hc_cmd' = "running" /\ usb_pc' = "command"
  BY <1>3 DEF CommandInv, Commanding
<1>4. cmd.kind = "slot" <=> call.op = "slot"
  BY DEF CallInv, Commanding
<1>. QED  BY <1>1, <1>2, <1>3, <1>4 DEF AfterCommand, PostCommand, Enqueue, Returns, Goes

LEMMA DriverCommands ==
  ASSUME InTime, DriverTypeOK, CallInv, CommandInv, XhciCall \/ XhciContinues
  PROVE  CommandInv'
<1>0. QueueOK
  BY DEF DriverTypeOK
<1>1. ASSUME queue' = queue, taken' \in {taken, 0}
      PROVE  Answers' = Answers
  BY <1>0, <1>1, SameQueue
<1>2. ASSUME AnyEvent, queue' = Tail(queue), taken' \in {taken + 1, 0}
      PROVE  /\ Answers' = {i - 1 : i \in Answers \ {1}}
             /\ \A i \in Answers \ {1} : queue'[i - 1] = queue[i]
  <2>1. Answers \subseteq 1 .. Len(queue) /\ Len(queue) \in Nat
    BY <1>0, IndexesAre
  <2>2. /\ Answers' = {i - 1 : i \in Answers \ {1}}
        /\ \A i \in 2 .. Len(queue) : queue'[i - 1] = queue[i]
    BY <1>0, <1>2, TakenOff DEF AnyEvent
  <2>. QED  BY <2>1, <2>2
<1>3. CASE Handles
  <2>1. /\ AnyEvent /\ queue' = Tail(queue) /\ taken' \in {taken + 1, 0} /\ ~Wanted
        /\ usb_pc \notin {"slot", "dead"} /\ UNCHANGED <<usb_pc, cmd, hc_cmd>>
    BY <1>3, HandledIs DEF Handles, cmdVars, hcVars
  <2>2. 1 \notin Answers
    BY <1>0, <2>1, WantedIs, InFront
  <2>3. AnswersKept(1)
    BY <1>2, <2>1, <2>2 DEF AnswersKept
  <2>. QED  BY <1>0, <2>1, <2>3, CommandKept
<1>4. CASE CommandDone
  <2>1. usb_pc = "command" /\ AnyEvent /\ hc_cmd = "none" /\ Answers = {1}
    BY <1>4, WantedIs DEF CommandDone, Waiting, Wanted
  <2>2. IF cmd.kind = "slot" THEN Answers' = {1} ELSE Answers' = {}
    BY <1>1, <1>2, <1>4, <2>1 DEF CommandDone, GiveBack, TakeAndGiveBack
  <2>. QED  BY <1>4, <2>1, <2>2, AfterCommandCommands DEF CommandDone
<1>5. CASE CommandTimeout
  <2>1. /\ queue = <<>> /\ queue' = queue /\ taken' = 0
        /\ usb_pc' = "aborting" /\ hc_cmd' = "aborting"
    BY <1>5 DEF CommandTimeout, TimesOut, GiveBack, Goes, AnyEvent
  <2>2. Answers' = {}
    BY <1>0, <1>1, <2>1, IndexesAre
  <2>. QED  BY <2>1, <2>2 DEF CommandInv, Commanding
<1>6. CASE Aborted
  <2>1. /\ usb_pc = "aborting" /\ AnyEvent /\ Wanted /\ queue' = Tail(queue)
        /\ taken' \in {taken + 1, 0} /\ usb_pc' = "stopping" /\ hc_cmd' = hc_cmd
    BY <1>6 DEF Aborted, Waiting, Wanted, Take, Goes, hcVars
  <2>2. CASE hc_cmd = "stopping" /\ Answers = {1}
    BY <1>2, <2>1, <2>2 DEF CommandInv, Commanding
  <2>3. ASSUME NEW l, hc_cmd = "none", Answers = {1, l}, 1 < l, queue[l].cc = "ring stopped"
        PROVE  CommandInv'
    <3>0. Answers \ {1} = {l} /\ l \in Answers \ {1}
      <4>1. l \in Nat /\ l # 1
        <5>1. Answers \subseteq 1 .. Len(queue) /\ l \in Answers
          BY <1>0, <2>3, IndexesAre
        <5>2. l \in Nat
          BY <5>1
        <5>3. 1 < l
          BY ONLY <2>3
        <5>. QED  BY <5>2, <5>3
      <4>. QED  BY <2>3, <4>1
    <3>1. Answers' = {l - 1} /\ queue'[l - 1] = queue[l]
      BY <1>2, <2>1, <3>0
    <3>2. \E k : Answers' = {k} /\ queue'[k].cc = "ring stopped"
      BY <2>3, <3>1
    <3>. QED  BY <2>1, <2>3, <3>2 DEF CommandInv, Commanding
  <2>. QED  BY <2>1, <2>2, <2>3, WantedIs
<1>7. CASE RingStopped
  <2>1. usb_pc = "stopping" /\ AnyEvent /\ hc_cmd = "none" /\ Answers = {1}
    BY <1>7, WantedIs DEF RingStopped, Waiting, Wanted
  <2>2. cmd.kind # "slot" /\ Answers' = {}
    BY <1>2, <1>7, <2>1 DEF RingStopped, TakeAndGiveBack, CallInv, Commanding
  <2>. QED  BY <1>7, <2>1, <2>2, AfterCommandCommands DEF RingStopped
<1>8. CASE AbortTimeout
  BY <1>8 DEF AbortTimeout, Goes, CommandInv, Commanding
<1>9. CASE SlotAdvance
  <2>1. /\ usb_pc = "slot" /\ AnyEvent /\ queue' = Tail(queue) /\ taken' \in {taken + 1, 0}
        /\ usb_pc' = "draining" /\ hc_cmd' = hc_cmd
    BY <1>9 DEF SlotAdvance, Waiting, Take, Goes, AnyEvent, hcVars
  <2>2. hc_cmd = "none" /\ Answers = {1}
    BY <2>1 DEF CommandInv
  <2>. QED  BY <1>2, <2>1, <2>2 DEF CommandInv, Commanding
<1>10. CASE StageDone
  <2>1. /\ usb_pc = "transfer" /\ AnyEvent /\ queue' = Tail(queue) /\ taken' \in {taken + 1, 0}
        /\ usb_pc' \in {"transfer", "idle"} /\ hc_cmd' = hc_cmd
    BY <1>10 DEF StageDone, Waiting, TakeAndGiveBack, Returns, Goes, AnyEvent, hcVars
  <2>2. hc_cmd = "none" /\ Answers = {}
    BY <2>1 DEF CommandInv, Commanding
  <2>. QED  BY <1>2, <2>1, <2>2 DEF CommandInv, Commanding
\* Everything else leaves the queue alone while no command is on its way.
<1>11. CASE /\ queue' = queue /\ taken' \in {taken, 0}
            /\ usb_pc \notin Commanding \cup {"slot", "dead"}
            /\ \/ usb_pc' = "command" /\ hc_cmd' = "running"
               \/ usb_pc' \notin Commanding \cup {"slot", "dead"} /\ hc_cmd' = hc_cmd
  <2>1. hc_cmd = "none" /\ Answers' = {}
    BY <1>1, <1>11 DEF CommandInv
  <2>. QED  BY <1>11, <2>1 DEF CommandInv, Commanding
<1>12. CASE TransferTimeout
  BY <1>11, <1>12 DEF TransferTimeout, TimesOut, GiveBack, Waiting, PostCommand, Goes, Commanding
<1>13. CASE Drained
  BY <1>11, <1>13 DEF Drained, TimesOut, GiveBack, Waiting, PostCommand, Returns, Goes, Commanding
<1>14. CASE Polled \/ TakeReport \/ NothingReady
  BY <1>11, <1>14 DEF Polled, TakeReport, NothingReady, TimesOut, GiveBack, Waiting, Returns, Goes,
                      Commanding, eventVars, hcVars
<1>15. ASSUME NEW p \in Pipes, StartTransfer(p)
       PROVE  CommandInv'
  BY <1>11, <1>15 DEF StartTransfer, Waiting, PostCommand, Enqueue, Goes, Commanding, eventVars
<1>16. CASE EnableSlot \/ DestroyIntrQueue \/ PollIntrQueue
  BY <1>11, <1>16 DEF EnableSlot, DestroyIntrQueue, PollIntrQueue, Waiting, PostCommand, Goes,
                      Commanding, eventVars
<1>17. ASSUME NEW m \in ReqCounts, CreateIntrQueue(m)
       PROVE  CommandInv'
  BY <1>11, <1>17 DEF CreateIntrQueue, Waiting, Commanding, eventVars
<1>. QED  BY <1>3, <1>4, <1>5, <1>6, <1>7, <1>8, <1>9, <1>10, <1>12, <1>13, <1>14, <1>15, <1>16, <1>17
          DEF XhciCall, XhciContinues

LEMMA CommandsStep ==
  ASSUME InTime, DriverTypeOK, CallInv, CommandInv, [XhciNext]_xhciVars
  PROVE  CommandInv'
<1>1. CASE Died \/ UNCHANGED xhciVars
  BY <1>1 DEF Died, xhciVars, driverVars, cmdVars, hcVars, eventVars, CommandInv, Answers, Ends
<1>. QED  BY <1>1, HcCommands, DriverCommands DEF XhciNext

LEMMA CallsInit == XhciInit => CallInv /\ CommandInv
BY DEF XhciInit, QueueInit, CallInv, CommandInv, Answers, Doing, Commanding

-----------------------------------------------------------------------------
(***************************************************************************)
(* Transfers: the answers on their way to a pipe.                          *)
(***************************************************************************)

\* The command that is waited for has been carried out.
Succeeded ==
  \/ \E k \in Answers : queue[k].cc = "success"
  \/ usb_pc = "stopping" /\ cmd.cc = "success"

\* While a transfer is waited for, what is on its way and what the controller still has
\* to report make up the stages that are left; a stall is the last answer.
Left(p) == Stages[p] - stage
Running(p) ==
  /\ ep_state[p] = "running" /\ \A i \in Waiters(p) : queue[i].cc = "success"
  /\ Cardinality(Waiters(p)) + Len(tds[p]) = Left(p)
Stalled(p) ==
  /\ ep_state[p] = "halted" /\ Len(tds[p]) > 0
  /\ \E k \in Waiters(p) : /\ queue[k].cc = "stall"
                           /\ \A i \in Waiters(p) : i # k => i < k /\ queue[i].cc = "success"
  /\ Cardinality(Waiters(p)) - 1 + Len(tds[p]) = Left(p)
Progress(p) ==
  /\ stage < Stages[p]
  /\ \A i \in Waiters(p) : queue[i].at = tds_made
  /\ \A i \in 1 .. Len(tds[p]) : tds[p][i] = tds_made
  /\ Running(p) \/ Stalled(p)

\* Before and after, nothing is on its way, and a command ends with the endpoint in the
\* state that the command is for.
Quiet(p) == Waiters(p) = {} /\ (ep_state[p] = "running" => tds[p] = <<>>)
Resetting(p) == Waiters(p) = {} /\ ep_state[p] = IF Succeeded THEN "stopped" ELSE "halted"
Emptying(p) == Waiters(p) = {} /\ ep_state[p] = "stopped" /\ (Succeeded => tds[p] = <<>>)
Stopping(p) ==
  hc_cmd = "none" => ep_state[p] # "running" /\ \A k \in Answers, w \in Waiters(p) : w < k
PipeOK(p) ==
  /\ ~OnPipe(p) => Quiet(p)
  /\ OnPipe(p) /\ usb_pc = "transfer" => Progress(p)
  /\ OnPipe(p) /\ usb_pc \in Commanding =>
       /\ cmd.kind = "reset" => Resetting(p)
       /\ cmd.kind = "dequeue" => Emptying(p)
       /\ cmd.kind = "stop" => Stopping(p)
PipeInv == usb_pc # "dead" => \A p \in Pipes : PipeOK(p)

LEMMA InvOwnAnswer == DriverTypeOK /\ CallInv /\ PipeInv => OwnAnswer
<1>. SUFFICES ASSUME DriverTypeOK, CallInv, PipeInv, usb_pc = "transfer"
              PROVE  \A i \in Waiters(call.ep) : queue[i].at = tds_made
  BY DEF OwnAnswer, Waiting
<1>1. call.op = "transfer" /\ call # None
  BY DEF CallInv, DriverTypeOK, XhciTypeOK
<1>2. call.ep \in Pipes /\ OnPipe(call.ep)
  BY <1>1 DEF CallInv, Doing, OnPipe
<1>. QED  BY <1>2 DEF PipeInv, PipeOK, Progress

-----------------------------------------------------------------------------
\* one answer fewer to come is one stage fewer left
LEMMA OneFewer ==
  ASSUME NEW c \in Int, NEW l \in Int, NEW a \in Int, NEW b \in Int, c + l = a - b
  PROVE  c - 1 + l = a - (b + 1)
OBVIOUS

LEMMA CountIs ==
  ASSUME NEW n \in Nat, NEW W \in SUBSET (1 .. n)
  PROVE  /\ IsFiniteSet(W) /\ Cardinality(W) \in Nat
         /\ Cardinality(W \cup {n + 1}) = Cardinality(W) + 1
         /\ W = {} <=> Cardinality(W) = 0
<1>1. IsFiniteSet(1 .. n)
  BY FS_Interval
<1>2. IsFiniteSet(W)
  BY <1>1, FS_Subset
<1>3. n + 1 \notin W
  OBVIOUS
<1>. QED  BY <1>2, <1>3, FS_CardinalityType, FS_AddElement, FS_EmptySet

LEMMA CountShift ==
  ASSUME NEW n \in Nat, NEW W \in SUBSET (1 .. n)
  PROVE  Cardinality({i - 1 : i \in W \ {1}}) = IF 1 \in W THEN Cardinality(W) - 1 ELSE Cardinality(W)
<1>. DEFINE S == W \ {1}
            T == {i - 1 : i \in S}
            f == [i \in S |-> i - 1]
<1>1. IsFiniteSet(S) /\ Cardinality(S) = IF 1 \in W THEN Cardinality(W) - 1 ELSE Cardinality(W)
  BY CountIs, FS_RemoveElement
<1>2. f \in Bijection(S, T)
  <2>1. f \in [S -> T]
    OBVIOUS
  <2>2. \A a, b \in S : f[a] = f[b] => a = b
    OBVIOUS
  <2>3. \A t \in T : \E s \in S : f[s] = t
    OBVIOUS
  <2>. QED  BY <2>1, <2>2, <2>3 DEF Bijection, Injection, Surjection, IsInjective
<1>3. ExistsBijection(S, T)
  BY <1>2 DEF ExistsBijection
<1>. QED  BY <1>1, <1>3, FS_Bijection

\* Events that come behind, or go in front, and are not for the pipe change nothing.
WaitersKept(p, d) ==
  /\ Waiters(p)' = {i - d : i \in Waiters(p)}
  /\ \A i \in Waiters(p) : queue'[i - d] = queue[i]

LEMMA CountKept ==
  ASSUME NEW n \in Nat, NEW W \in SUBSET (1 .. n), NEW d \in {0, 1}, d = 1 => 1 \notin W
  PROVE  Cardinality({i - d : i \in W}) = Cardinality(W)
<1>1. CASE d = 0
  <2>1. \A i \in W : i - d = i
    BY <1>1
  <2>2. {i - d : i \in W} = W
    BY <2>1
  <2>. QED  BY <2>2
<1>2. CASE d = 1
  <2>1. W \ {1} = W /\ {i - d : i \in W} = {i - 1 : i \in W}
    BY <1>2
  <2>2. {i - d : i \in W} = {i - 1 : i \in W \ {1}}
    BY <2>1
  <2>. QED  BY <1>2, <2>2, CountShift
<1>. QED  BY <1>1, <1>2

LEMMA PipeKept ==
  ASSUME QueueOK, NEW p, PipeOK(p), NEW d \in {0, 1}, WaitersKept(p, d), AnswersKept(d),
         d = 1 => 1 \notin Waiters(p),
         tds'[p] = tds[p], ep_state'[p] = ep_state[p], UNCHANGED <<usb_pc, call, cmd, stage, tds_made>>,
         hc_cmd' = hc_cmd \/ (hc_cmd = "running" /\ hc_cmd' # "none")
  PROVE  PipeOK(p)'
<1>1. Waiters(p) \subseteq 1 .. Len(queue) /\ Len(queue) \in Nat /\ Waiters(p) \subseteq Nat
      /\ Answers \subseteq Nat
  BY IndexesAre
<1>2. /\ Waiters(p)' = {i - d : i \in Waiters(p)} /\ \A i \in Waiters(p) : queue'[i - d] = queue[i]
      /\ Waiters(p) = {} => Waiters(p)' = {}
  BY DEF WaitersKept
<1>3. OnPipe(p)' = OnPipe(p)
  BY DEF OnPipe, Doing
<1>4. Succeeded' = Succeeded
  BY DEF Succeeded, AnswersKept
<1>5. Quiet(p) => Quiet(p)'
  BY <1>2 DEF Quiet
<1>6. (Resetting(p) => Resetting(p)') /\ (Emptying(p) => Emptying(p)')
  BY <1>2, <1>4 DEF Resetting, Emptying
<1>7. Stopping(p) => Stopping(p)'
  <2>. SUFFICES ASSUME Stopping(p), hc_cmd' = "none"
                PROVE  ep_state'[p] # "running" /\ \A k \in Answers', w \in Waiters(p)' : w < k
    BY DEF Stopping
  <2>1. ep_state[p] # "running" /\ \A k \in Answers, w \in Waiters(p) : w < k
    BY DEF Stopping
  <2>2. ASSUME NEW k \in Answers, NEW w \in Waiters(p)
        PROVE  w - d < k - d
    <3>1. w < k /\ w \in Nat /\ k \in Nat
      BY <1>1, <2>1
    <3>2. d \in Nat
      OBVIOUS
    <3>. QED  BY <3>1, <3>2
  <2>. QED  BY <1>2, <2>1, <2>2 DEF AnswersKept
<1>8. Progress(p) => Progress(p)'
  <2>. SUFFICES ASSUME Progress(p) PROVE Progress(p)'
    OBVIOUS
  <2>1. Cardinality(Waiters(p)') = Cardinality(Waiters(p))
    BY <1>1, <1>2, CountKept
  <2>2. \A i \in Waiters(p)' : queue'[i].at = tds_made'
    BY <1>2 DEF Progress
  <2>3. Running(p) => Running(p)'
    BY <1>2, <2>1 DEF Running, Left
  <2>4. Stalled(p) => Stalled(p)'
    <3>. SUFFICES ASSUME Stalled(p)
                  PROVE  \E k \in Waiters(p)' : /\ queue'[k].cc = "stall"
                            /\ \A i \in Waiters(p)' : i # k => i < k /\ queue'[i].cc = "success"
      BY <2>1 DEF Stalled, Left
    <3>1. PICK k \in Waiters(p) : /\ queue[k].cc = "stall"
                                  /\ \A i \in Waiters(p) : i # k => i < k /\ queue[i].cc = "success"
      BY DEF Stalled
    <3>2. k - d \in Waiters(p)' /\ queue'[k - d].cc = "stall"
      BY <1>2, <3>1
    <3>3. ASSUME NEW i \in Waiters(p), i - d # k - d
          PROVE  i - d < k - d /\ queue'[i - d].cc = "success"
      <4>1. i < k /\ queue[i].cc = "success" /\ i \in Nat /\ k \in Nat
        BY <1>1, <3>1, <3>3
      <4>2. d \in Nat
        OBVIOUS
      <4>. QED  BY <1>2, <4>1, <4>2
    <3>. QED  BY <1>2, <3>2, <3>3
  <2>. QED  BY <2>2, <2>3, <2>4 DEF Progress
<1>. QED  BY <1>3, <1>5, <1>6, <1>7, <1>8 DEF PipeOK

\* A pipe without a transfer stays as it is.
LEMMA PipeOff ==
  ASSUME NEW p, PipeOK(p), ~OnPipe(p), ~OnPipe(p)', QueueOK, Looks,
         tds'[p] = tds[p], ep_state'[p] = ep_state[p]
  PROVE  PipeOK(p)'
<1>1. Waiters(p) = {}
  BY DEF PipeOK, Quiet
<1>2. Waiters(p)' = {}
  <2>1. CASE queue' = queue /\ taken' \in {taken, 0}
    BY <1>1, <2>1, SameQueue
  <2>2. CASE AnyEvent /\ queue' = Tail(queue) /\ taken' \in {taken + 1, 0}
    BY <1>1, <2>2, TakenOff DEF AnyEvent
  <2>. QED  BY <2>1, <2>2 DEF Looks
<1>. QED  BY <1>2 DEF PipeOK, Quiet

\* What the controller posts is kept apart by its pipe.
LEMMA PostedPipe ==
  ASSUME QueueOK, NEW p, NEW e \in Items, Post(e), ~IsFor(e, p)
  PROVE  WaitersKept(p, 0)
<1>1. /\ Waiters(p)' = Waiters(p) \cup {} /\ \A i \in 1 .. Len(queue) : queue'[i] = queue[i]
      /\ Waiters(p) \subseteq 1 .. Len(queue) /\ Len(queue) \in Nat
  BY Posted, IndexesAre
<1>2. /\ Waiters(p)' = Waiters(p) /\ \A i \in Waiters(p) : i - 0 = i
      /\ \A i \in Waiters(p) : queue'[i] = queue[i]
  BY <1>1
<1>. QED  BY <1>2 DEF WaitersKept

LEMMA PostedNoAnswer ==
  ASSUME QueueOK, NEW e \in Items, Post(e), ~IsAnswer(e)
  PROVE  AnswersKept(0)
<1>1. /\ Answers' = Answers \cup {} /\ \A i \in 1 .. Len(queue) : queue'[i] = queue[i]
      /\ Answers \subseteq 1 .. Len(queue) /\ Len(queue) \in Nat
  BY Posted, IndexesAre
<1>2. /\ Answers' = Answers /\ \A i \in Answers : i - 0 = i
      /\ \A i \in Answers : queue'[i] = queue[i]
  BY <1>1
<1>. QED  BY <1>2 DEF AnswersKept

\* The answer to a command comes behind what has been reported.
LEMMA PostedAnswer ==
  ASSUME QueueOK, NEW cc \in CommandCodes, NEW at \in Nat, Post(CommandEvent(cc, at))
  PROVE  /\ Answers' = Answers \cup {Len(queue) + 1} /\ queue'[Len(queue) + 1].cc = cc
         /\ \A i \in Answers : queue'[i] = queue[i] /\ i < Len(queue) + 1
         /\ \A p : /\ Waiters(p)' = Waiters(p)
                   /\ \A i \in Waiters(p) : queue'[i] = queue[i] /\ i < Len(queue) + 1
<1>1. /\ CommandEvent(cc, at) \in Items /\ IsAnswer(CommandEvent(cc, at))
      /\ CommandEvent(cc, at).cc = cc /\ \A p : ~IsFor(CommandEvent(cc, at), p)
  BY EventRecords DEF CommandEvent
<1>2. /\ Answers \subseteq 1 .. Len(queue) /\ Len(queue) \in Nat
      /\ \A p : Waiters(p) \subseteq 1 .. Len(queue)
  BY IndexesAre
<1>3. /\ \A i \in 1 .. Len(queue) : queue'[i] = queue[i]
      /\ queue'[Len(queue) + 1] = CommandEvent(cc, at)
      /\ Answers' = Answers \cup {Len(queue) + 1}
      /\ \A p : Waiters(p)' = Waiters(p) \cup {}
  BY <1>1, Posted
<1>4. \A i \in 1 .. Len(queue) : i < Len(queue) + 1
  BY <1>2
<1>. QED  BY <1>1, <1>2, <1>3, <1>4

LEMMA HcCompletesPipe ==
  ASSUME DriverTypeOK, CallInv, CommandInv, NEW p \in Pipes, PipeOK(p), HcCompletes,
         usb_pc # "dead", UNCHANGED driverVars
  PROVE  PipeOK(p)'
<1>0. /\ QueueOK /\ RestOK /\ UNCHANGED <<usb_pc, call, cmd, stage, tds_made>>
      /\ p \in Endpoints /\ p # Intr /\ p # None
  BY TypeParts, Numbers DEF driverVars, pipeVars, cmdVars
<1>1. /\ usb_pc \in {"command", "aborting"} /\ Answers = {} /\ cmd \in Commands /\ call # None
      /\ hc_cmd # "none"
  BY <1>0 DEF HcCompletes, CommandInv, CallInv, Commanding, RestOK
<1>2. PICK cc \in {"success", "context"} :
        /\ Post(CommandEvent(cc, cmd.trb))
        /\ cc = "success" => Fits(cmd.kind, cmd.ep) /\ Executes(cmd.kind, cmd.ep)
        /\ cc = "context" => ~Fits(cmd.kind, cmd.ep) /\ UNCHANGED <<ep_state, tds>>
  BY DEF HcCompletes
<1>3. PICK k : /\ Answers' = {k} /\ queue'[k].cc = cc
               /\ Waiters(p)' = Waiters(p) /\ \A i \in Waiters(p) : i < k
  <2>1. cmd.trb \in Nat /\ cc \in CommandCodes
    BY <1>1 DEF Commands, CommandCodes
  <2>. QED  BY <1>0, <1>1, <1>2, <2>1, PostedAnswer
<1>4. OnPipe(p)' = OnPipe(p)
  BY <1>0 DEF OnPipe, Doing
<1>5. CASE ~OnPipe(p)
  <2>1. cmd.ep # p
    BY <1>0, <1>1, <1>5 DEF CallInv, OnPipe, Doing, Commanding
  <2>2. ep_state'[p] = ep_state[p] /\ tds'[p] = tds[p]
    BY <1>0, <1>2, <2>1 DEF Executes, RestOK
  <2>. QED  BY <1>3, <1>4, <1>5, <2>2 DEF PipeOK, Quiet
<1>6. CASE OnPipe(p)
  <2>1. cmd.ep = p /\ cmd.kind \in {"reset", "dequeue", "stop"}
    BY <1>1, <1>6 DEF CallInv, OnPipe, Doing, Commanding
  <2>2. ~Succeeded /\ (cc = "success" => Succeeded')
    BY <1>1, <1>3 DEF Succeeded
  <2>3. CASE cmd.kind = "reset"
    <3>1. Waiters(p) = {} /\ ep_state[p] = "halted"
      BY <1>1, <1>6, <2>2, <2>3 DEF PipeOK, Resetting, Commanding
    <3>2. cc = "success" /\ ep_state'[p] = "stopped"
      BY <1>0, <1>2, <2>1, <2>3, <3>1 DEF Fits, Executes, RestOK
    <3>3. Resetting(p)'
      BY <1>3, <2>2, <3>1, <3>2 DEF Resetting
    <3>. QED  BY <1>0, <1>1, <1>4, <1>6, <2>3, <3>3 DEF PipeOK
  <2>4. CASE cmd.kind = "dequeue"
    <3>1. Waiters(p) = {} /\ ep_state[p] = "stopped"
      BY <1>1, <1>6, <2>4 DEF PipeOK, Emptying, Commanding
    <3>2. cc = "success" /\ ep_state'[p] = "stopped" /\ tds'[p] = <<>>
      BY <1>0, <1>2, <2>1, <2>4, <3>1 DEF Fits, Executes, RestOK
    <3>3. Emptying(p)'
      BY <1>3, <3>1, <3>2 DEF Emptying
    <3>. QED  BY <1>0, <1>1, <1>4, <1>6, <2>4, <3>3 DEF PipeOK
  <2>5. CASE cmd.kind = "stop"
    <3>1. ep_state'[p] # "running"
      BY <1>0, <1>2, <2>1, <2>5 DEF Fits, Executes, RestOK
    <3>2. Stopping(p)'
      BY <1>3, <3>1 DEF Stopping
    <3>. QED  BY <1>0, <1>1, <1>4, <1>6, <2>5, <3>2 DEF PipeOK
  <2>. QED  BY <2>1, <2>3, <2>4, <2>5
<1>. QED  BY <1>5, <1>6

LEMMA HcAbortsPipe ==
  ASSUME DriverTypeOK, CallInv, CommandInv, NEW p \in Pipes, PipeOK(p), HcAborts,
         usb_pc # "dead", UNCHANGED driverVars
  PROVE  PipeOK(p)'
<1>0. /\ QueueOK /\ RestOK /\ UNCHANGED <<usb_pc, call, cmd, stage, tds_made>>
      /\ UNCHANGED <<ep_state, tds>> /\ hc_cmd \in {"aborting", "stopping"}
  BY TypeParts DEF driverVars, pipeVars, cmdVars, HcAborts
<1>1. usb_pc \in {"aborting", "stopping"} /\ call # None /\ cmd.kind # "stop" /\ cmd.trb \in Nat
  BY <1>0 DEF CommandInv, CallInv, Commanding, RestOK, Commands
<1>2. PICK cc \in {"aborted", "ring stopped"}, at \in Nat : Post(CommandEvent(cc, at))
  BY <1>0, <1>1 DEF HcAborts, RestOK
<1>3. PICK k : /\ Answers' = Answers \cup {k} /\ queue'[k].cc # "success"
               /\ \A i \in Answers : queue'[i] = queue[i]
               /\ Waiters(p)' = Waiters(p)
  BY <1>0, <1>2, PostedAnswer DEF CommandCodes
<1>4. Succeeded' = Succeeded
  BY <1>0, <1>3 DEF Succeeded
<1>5. OnPipe(p)' = OnPipe(p)
  BY <1>0 DEF OnPipe, Doing
<1>. QED  BY <1>0, <1>1, <1>3, <1>4, <1>5 DEF PipeOK, Quiet, Resetting, Emptying

\* The controller works on a pipe only while its transfer is waited for or stopped.
LEMMA RunsIs ==
  ASSUME DriverTypeOK, CallInv, CommandInv, NEW p \in Pipes, PipeOK(p), usb_pc # "dead",
         ep_state[p] = "running", tds[p] # <<>>
  PROVE  /\ OnPipe(p)
         /\ \/ usb_pc = "transfer" /\ Progress(p) /\ Running(p)
            \/ usb_pc \in Commanding /\ cmd.kind = "stop" /\ hc_cmd # "none"
<1>1. OnPipe(p)
  BY DEF PipeOK, Quiet
<1>2. usb_pc \in Commanding \cup {"transfer"}
  BY <1>1 DEF OnPipe, Doing, CallInv, Commanding, DriverTypeOK, XhciTypeOK
<1>3. CASE usb_pc = "transfer"
  BY <1>1, <1>3 DEF PipeOK, Progress, Stalled
<1>4. CASE usb_pc \in Commanding
  BY <1>1, <1>4 DEF PipeOK, Resetting, Emptying, Stopping, CallInv, OnPipe, Doing
<1>. QED  BY <1>1, <1>2, <1>3, <1>4

LEMMA HcTransferPipe ==
  ASSUME DriverTypeOK, CallInv, CommandInv, NEW p \in Pipes, PipeOK(p), HcTransfer(p),
         usb_pc # "dead", UNCHANGED driverVars
  PROVE  PipeOK(p)'
<1>. DEFINE t == tds[p]  W == Waiters(p)
<1>. PICK n : n = Len(queue)
  OBVIOUS
<1>0. /\ QueueOK /\ RestOK /\ UNCHANGED <<usb_pc, call, cmd, stage, tds_made, hc_cmd>>
      /\ p \in Endpoints /\ n \in Nat /\ W \subseteq 1 .. n
  BY TypeParts, Numbers, IndexesAre DEF driverVars, pipeVars, cmdVars, HcTransfer
<1>1. /\ ep_state[p] = "running" /\ t # <<>> /\ t \in Seq(Nat)
      /\ Head(t) = t[1] /\ Head(t) \in Nat /\ Len(t) \in Nat /\ Len(t) > 0 /\ 1 \in 1 .. Len(t)
      /\ Len(Tail(t)) = Len(t) - 1
      /\ \A i \in 1 .. Len(Tail(t)) : Tail(t)[i] = t[i + 1] /\ i + 1 \in 1 .. Len(t)
  BY <1>0 DEF HcTransfer, Runs, RestOK
<1>2. /\ OnPipe(p) /\ OnPipe(p)'
      /\ \/ usb_pc = "transfer" /\ Progress(p) /\ Running(p)
         \/ usb_pc \in Commanding /\ cmd.kind = "stop" /\ hc_cmd # "none"
  BY <1>0, <1>1, RunsIs DEF OnPipe, Doing
<1>3. CASE usb_pc \in Commanding
  BY <1>0, <1>2, <1>3 DEF PipeOK, Stopping, Commanding
<1>4. CASE usb_pc = "transfer"
  <2>1. PICK cc \in {"success", "stall"} :
          /\ Post(TransferEvent(p, cc, Head(t)))
          /\ cc = "success" => tds' = [tds EXCEPT ![p] = Tail(@)] /\ UNCHANGED ep_state
          /\ cc = "stall" => ep_state' = [ep_state EXCEPT ![p] = "halted"] /\ UNCHANGED tds
    BY DEF HcTransfer
  <2>2. /\ Waiters(p)' = W \cup {n + 1} /\ queue'[n + 1] = TransferEvent(p, cc, Head(t))
        /\ \A i \in W : queue'[i] = queue[i] /\ i < n + 1
    <3>1. TransferEvent(p, cc, Head(t)) \in Items /\ IsFor(TransferEvent(p, cc, Head(t)), p)
      BY <1>0, <1>1, EventRecords
    <3>2. /\ Waiters(p)' = W \cup {n + 1} /\ queue'[n + 1] = TransferEvent(p, cc, Head(t))
          /\ \A i \in 1 .. n : queue'[i] = queue[i]
      BY <1>0, <2>1, <3>1, Posted
    <3>. QED  BY <1>0, <3>2
  <2>3. queue'[n + 1].cc = cc /\ queue'[n + 1].at = tds_made
    <3>1. Head(t) = tds_made
      BY <1>1, <1>2, <1>4 DEF Progress, Commanding
    <3>. QED  BY <2>2, <3>1 DEF TransferEvent
  <2>4. Cardinality(Waiters(p)') = Cardinality(W) + 1 /\ Cardinality(W) \in Nat
    <3>. HIDE DEF W
    <3>1. W \in SUBSET (1 .. n) /\ n \in Nat /\ Waiters(p)' = W \cup {n + 1}
      BY <1>0, <2>2
    <3>2. Cardinality(W \cup {n + 1}) = Cardinality(W) + 1 /\ Cardinality(W) \in Nat
      BY <3>1, CountIs
    <3>. QED  BY <3>1, <3>2
  <2>5. /\ stage < Stages[p] /\ (\A i \in W : queue[i].at = tds_made /\ queue[i].cc = "success")
        /\ (\A i \in 1 .. Len(t) : t[i] = tds_made)
        /\ Cardinality(W) + Len(t) = Left(p)
    BY <1>2, <1>4 DEF Progress, Running, Commanding
  <2>6. CASE cc = "success"
    <3>1. tds'[p] = Tail(t) /\ ep_state'[p] = "running"
      BY <1>0, <1>1, <2>1, <2>6 DEF RestOK
    <3>2. Running(p)'
      <4>1. \A i \in Waiters(p)' : queue'[i].cc = "success"
        BY <2>2, <2>3, <2>5, <2>6
      <4>2. Cardinality(Waiters(p)') + Len(tds'[p]) = Left(p)'
        BY <1>0, <1>1, <2>4, <2>5, <3>1 DEF Left
      <4>. QED  BY <3>1, <4>1, <4>2 DEF Running
    <3>3. \A i \in 1 .. Len(tds'[p]) : tds'[p][i] = tds_made'
      BY <1>0, <1>1, <2>5, <3>1
    <3>4. \A i \in Waiters(p)' : queue'[i].at = tds_made'
      BY <1>0, <2>2, <2>3, <2>5
    <3>5. Progress(p)'
      BY <1>0, <2>5, <3>2, <3>3, <3>4 DEF Progress
    <3>. QED  BY <1>0, <1>2, <1>4, <3>5 DEF PipeOK, Commanding
  <2>7. CASE cc = "stall"
    <3>1. tds'[p] = t /\ ep_state'[p] = "halted"
      BY <1>0, <1>1, <2>1, <2>7 DEF RestOK
    <3>2. Stalled(p)'
      <4>1. /\ n + 1 \in Waiters(p)' /\ queue'[n + 1].cc = "stall"
            /\ \A i \in Waiters(p)' : i # n + 1 => i < n + 1 /\ queue'[i].cc = "success"
        BY <2>2, <2>3, <2>5, <2>7
      <4>2. Cardinality(Waiters(p)') - 1 + Len(tds'[p]) = Left(p)'
        BY <1>0, <1>1, <2>4, <2>5, <3>1 DEF Left
      <4>. QED  BY <1>1, <3>1, <4>1, <4>2 DEF Stalled
    <3>3. \A i \in 1 .. Len(tds'[p]) : tds'[p][i] = tds_made'
      BY <1>0, <2>5, <3>1
    <3>4. \A i \in Waiters(p)' : queue'[i].at = tds_made'
      BY <1>0, <2>2, <2>3, <2>5
    <3>5. Progress(p)'
      BY <1>0, <2>5, <3>2, <3>3, <3>4 DEF Progress
    <3>. QED  BY <1>0, <1>2, <1>4, <3>5 DEF PipeOK, Commanding
  <2>. QED  BY <2>6, <2>7
<1>. QED  BY <1>2, <1>3, <1>4

LEMMA HcPipes ==
  ASSUME DriverTypeOK, CallInv, CommandInv, PipeInv, HcStep
  PROVE  PipeInv'
<1>0. /\ QueueOK /\ RestOK /\ UNCHANGED driverVars /\ UNCHANGED <<usb_pc, call, cmd, stage, tds_made>>
  BY TypeParts DEF HcStep, driverVars, pipeVars, cmdVars
<1>. SUFFICES ASSUME usb_pc # "dead", NEW p \in Pipes, PipeOK(p)
              PROVE  PipeOK(p)'
  BY <1>0 DEF PipeInv
<1>1. p \in Endpoints /\ p # Intr
  BY Numbers
<1>2. ASSUME NEW e \in Items, Post(e), ~IsAnswer(e), ~IsFor(e, p), tds'[p] = tds[p],
             ep_state'[p] = ep_state[p], hc_cmd' = hc_cmd \/ (hc_cmd = "running" /\ hc_cmd' # "none")
      PROVE  PipeOK(p)'
  <2>1. WaitersKept(p, 0) /\ AnswersKept(0)
    BY <1>0, <1>2, PostedPipe, PostedNoAnswer
  <2>. QED  BY <1>0, <1>2, <2>1, PipeKept
<1>3. CASE HcForcedStop
  <2>1. /\ hc_cmd = "running" /\ hc_cmd' = "forced" /\ UNCHANGED <<ep_state, tds>>
        /\ cmd.kind = "stop"
    BY <1>3 DEF HcForcedStop
  <2>2. CASE cmd.ep = p
    <3>1. usb_pc = "command" /\ call # None /\ OnPipe(p)
      BY <1>0, <1>1, <2>1, <2>2 DEF CommandInv, CallInv, Commanding, RestOK, OnPipe, Doing
    <3>2. OnPipe(p)' /\ Stopping(p)'
      BY <1>0, <2>1, <3>1 DEF OnPipe, Doing, Stopping
    <3>. QED  BY <1>0, <2>1, <3>1, <3>2 DEF PipeOK
  <2>3. CASE cmd.ep # p
    <3>1. PICK ep \in Endpoints, at \in Nat : Post(TransferEvent(ep, "stopped", at)) /\ ep # p
      <4>1. CASE /\ cmd.ep \in Pipes /\ tds[cmd.ep] # <<>>
                 /\ Post(TransferEvent(cmd.ep, "stopped", Head(tds[cmd.ep])))
        <5>1. cmd.ep \in Endpoints /\ Head(tds[cmd.ep]) \in Nat
          BY <1>0, <4>1, Numbers DEF RestOK
        <5>. QED  BY <2>3, <4>1, <5>1
      <4>2. CASE cmd.ep = Intr /\ hc_deq # tr_cur /\ Post(TransferEvent(Intr, "stopped", hc_deq))
        BY <1>0, <1>1, <4>2, Numbers DEF RestOK
      <4>. QED  BY <1>3, <4>1, <4>2 DEF HcForcedStop
    <3>. QED  BY <1>2, <2>1, <3>1, EventRecords
  <2>. QED  BY <2>2, <2>3
<1>4. CASE HcCompletes
  BY <1>0, <1>4, HcCompletesPipe
<1>5. CASE HcAborts
  BY <1>0, <1>5, HcAbortsPipe
<1>6. ASSUME NEW q \in Pipes, HcTransfer(q)
      PROVE  PipeOK(p)'
  <2>1. CASE q = p
    BY <1>0, <1>6, <2>1, HcTransferPipe
  <2>2. CASE q # p
    <3>1. Head(tds[q]) \in Nat /\ q \in Endpoints
      BY <1>0, <1>6, Numbers DEF HcTransfer, RestOK
    <3>2. tds'[p] = tds[p] /\ ep_state'[p] = ep_state[p] /\ hc_cmd' = hc_cmd
      <4>1. UNCHANGED tds \/ tds' = [tds EXCEPT ![q] = Tail(@)]
        BY <1>6 DEF HcTransfer
      <4>2. UNCHANGED ep_state \/ ep_state' = [ep_state EXCEPT ![q] = "halted"]
        BY <1>6 DEF HcTransfer
      <4>3. tds'[p] = tds[p] /\ ep_state'[p] = ep_state[p]
        BY <1>0, <1>1, <2>2, <4>1, <4>2 DEF RestOK
      <4>. QED  BY <1>6, <4>3 DEF HcTransfer
    <3>3. PICK cc \in {"success", "stall"} : Post(TransferEvent(q, cc, Head(tds[q])))
      BY <1>6 DEF HcTransfer
    <3>. QED  BY <1>2, <2>2, <3>1, <3>2, <3>3, EventRecords
  <2>. QED  BY <2>1, <2>2
<1>7. CASE HcReport
  <2>1. hc_deq \in Nat /\ Intr \in Endpoints
    BY <1>0, Numbers DEF RestOK
  <2>2. tds'[p] = tds[p] /\ ep_state'[p] = ep_state[p] /\ hc_cmd' = hc_cmd
    <3>1. UNCHANGED tds /\ UNCHANGED hc_cmd
      BY <1>7 DEF HcReport
    <3>2. UNCHANGED ep_state \/ ep_state' = [ep_state EXCEPT ![Intr] = "halted"]
      BY <1>7 DEF HcReport
    <3>3. ep_state'[p] = ep_state[p]
      BY <1>0, <1>1, <3>2 DEF RestOK
    <3>. QED  BY <3>1, <3>3
  <2>3. PICK cc \in {"success", "empty", "stall"} : Post(TransferEvent(Intr, cc, hc_deq))
    BY <1>7 DEF HcReport
  <2>. QED  BY <1>1, <1>2, <2>1, <2>2, <2>3, EventRecords
<1>8. CASE HcFull
  BY <1>2, <1>8, EventRecords DEF HcFull, hcVars
<1>. QED  BY <1>3, <1>4, <1>5, <1>6, <1>7, <1>8 DEF HcStep, HcCommand

\* A transfer that is put on a ring with nothing left on it has all its stages to go.
LEMMA EnqueuePipe ==
  ASSUME RestOK, NEW p \in Pipes, Enqueue(p), Waiters(p)' = {}, tds[p] = <<>>,
         ep_state[p] \in {"stopped", "running"}, OnPipe(p)'
  PROVE  PipeOK(p)'
<1>1. p \in Endpoints /\ Stages[p] \in Nat \ {0}
  BY Numbers, XhciAssumption
<1>. PICK t : t = [i \in 1 .. Stages[p] |-> tds_made']
  OBVIOUS
<1>2. /\ tds' = [tds EXCEPT ![p] = @ \o t] /\ stage' = 0 /\ usb_pc' = "transfer"
      /\ ep_state'[p] = "running"
  BY <1>1 DEF Enqueue, Doorbell, Goes, RestOK
<1>3. tds_made' \in Nat
  BY DEF Enqueue, RestOK
<1>4. t \in Seq(Nat) /\ Len(t) = Stages[p] /\ \A i \in 1 .. Len(t) : t[i] = tds_made'
  BY <1>1, <1>3
<1>5. tds'[p] = t
  <2>1. <<>> \o t = t
    BY <1>4
  <2>. QED  BY <1>2, <2>1 DEF RestOK
<1>6. Cardinality(Waiters(p)') = 0
  BY FS_EmptySet
<1>7. Running(p)'
  BY <1>1, <1>2, <1>4, <1>5, <1>6 DEF Running, Left
<1>8. Progress(p)'
  BY <1>1, <1>2, <1>4, <1>5, <1>7 DEF Progress
<1>. QED  BY <1>2, <1>8 DEF PipeOK, Commanding

LEMMA AfterCommandPipe ==
  ASSUME RestOK, QueueOK, CallInv, NEW p \in Pipes, PipeOK(p), usb_pc \in {"command", "stopping"},
         NEW cc, AfterCommand(cc), Succeeded <=> cc = "success", Looks,
         OnPipe(p) => /\ Waiters(p)' = {} /\ Answers' = {}
                      /\ cmd.kind = "stop" => ep_state[p] # "running"
  PROVE  PipeOK(p)'
<1>0. /\ call # None /\ cmd \in Commands /\ p \in Endpoints /\ usb_pc \in Commanding
  BY Numbers DEF RestOK, CallInv, Commanding
<1>1. CASE ~OnPipe(p)
  <2>1. ~OnPipe(p)'
    BY <1>1 DEF AfterCommand, OnPipe, Doing, Returns
  <2>2. ep_state'[p] = ep_state[p] /\ tds'[p] = tds[p]
    <3>1. CASE cmd.kind = "dequeue" /\ call.op = "transfer" /\ Enqueue(cmd.ep)
      <4>1. cmd.ep \in Pipes /\ cmd.ep # p
        BY <1>0, <1>1, <3>1 DEF CallInv, OnPipe, Doing
      <4>. QED  BY <1>0, <3>1, <4>1 DEF Enqueue, Doorbell, RestOK
    <3>2. CASE UNCHANGED <<ep_state, tds>>
      BY <3>2
    <3>. QED  BY <3>1, <3>2 DEF AfterCommand
  <2>. QED  BY <1>1, <2>1, <2>2, PipeOff
<1>2. CASE OnPipe(p)
  <2>1. /\ call.op = "transfer" /\ call.ep = p /\ cmd.ep = p
        /\ cmd.kind \in {"reset", "dequeue", "stop"} /\ Waiters(p)' = {} /\ Answers' = {}
    BY <1>0, <1>2 DEF CallInv, OnPipe, Doing
  <2>2. CASE /\ cmd.kind = "reset" /\ cc = "success" /\ PostCommand("dequeue", cmd.ep)
             /\ UNCHANGED <<ep_state, tds, pipeVars, call, queueVars>>
    <3>1. ep_state[p] = "stopped"
      BY <1>0, <1>2, <2>2 DEF PipeOK, Resetting
    <3>2. cmd'.kind = "dequeue" /\ usb_pc' = "command" /\ OnPipe(p)'
      BY <1>2, <2>2 DEF PostCommand, Goes, OnPipe, Doing
    <3>3. Emptying(p)'
      BY <2>1, <2>2, <3>1, <3>2 DEF Emptying, Succeeded
    <3>. QED  BY <3>2, <3>3 DEF PipeOK
  <2>3. CASE /\ cmd.kind = "dequeue" /\ cc = "success" /\ Enqueue(cmd.ep) /\ UNCHANGED call
    <3>1. ep_state[p] = "stopped" /\ tds[p] = <<>>
      BY <1>0, <1>2, <2>3 DEF PipeOK, Emptying
    <3>2. OnPipe(p)'
      BY <1>2, <2>3 DEF OnPipe, Doing
    <3>. QED  BY <2>1, <2>3, <3>1, <3>2, EnqueuePipe
  <2>4. CASE /\ cmd.kind = "stop" \/ cc # "success"
             /\ Returns /\ UNCHANGED <<ep_state, tds>>
    <3>1. ep_state[p] # "running"
      BY <1>0, <1>2, <2>1, <2>4 DEF PipeOK, Resetting, Emptying
    <3>2. ~OnPipe(p)'
      BY <2>4 DEF OnPipe, Doing, Returns
    <3>. QED  BY <2>1, <2>4, <3>1, <3>2 DEF PipeOK, Quiet
  <2>. QED  BY <2>1, <2>2, <2>3, <2>4 DEF AfterCommand
<1>. QED  BY <1>1, <1>2

\* While its endpoint is told to stop, what arrives for a pipe is dropped.
LEMMA HandlesPipe ==
  ASSUME DriverTypeOK, CallInv, CommandInv, NEW p \in Pipes, PipeOK(p), Handles
  PROVE  PipeOK(p)'
<1>0. /\ QueueOK /\ AnyEvent /\ ~Wanted
      /\ queue' = Tail(queue) /\ taken' \in {taken + 1, 0}
      /\ UNCHANGED <<usb_pc, call, cmd, stage, tds_made, hc_cmd, ep_state, tds>>
      /\ usb_pc \notin {"slot", "dead"}
  BY HandledIs DEF Handles, pipeVars, cmdVars, hcVars, DriverTypeOK
<1>1. 1 \notin Answers
  BY <1>0, WantedIs, InFront
<1>2. /\ Waiters(p)' = {i - 1 : i \in Waiters(p) \ {1}}
      /\ Answers' = {i - 1 : i \in Answers \ {1}}
      /\ \A i \in 2 .. Len(queue) : queue'[i - 1] = queue[i]
  BY <1>0, TakenOff DEF AnyEvent
<1>3. /\ Waiters(p) \subseteq 1 .. Len(queue) /\ Answers \subseteq 1 .. Len(queue)
      /\ Len(queue) \in Nat
  BY <1>0, IndexesAre
<1>4. AnswersKept(1)
  BY <1>1, <1>2, <1>3 DEF AnswersKept
<1>5. CASE 1 \notin Waiters(p)
  <2>1. WaitersKept(p, 1)
    BY <1>2, <1>3, <1>5 DEF WaitersKept
  <2>. QED  BY <1>0, <1>4, <1>5, <2>1, PipeKept
<1>6. CASE 1 \in Waiters(p)
  <2>1. OnPipe(p)
    BY <1>6 DEF PipeOK, Quiet
  <2>2. EventType = "transfer" /\ Event.ep = p
    BY <1>0, <1>6, InFront
  <2>3. usb_pc # "transfer"
    BY <1>0, <2>1, <2>2 DEF Wanted, OnPipe
  <2>4. usb_pc \in Commanding
    BY <1>0, <2>1, <2>3 DEF Handles, Commanding, CallInv, OnPipe, Doing
  <2>5. cmd.kind = "stop"
    BY <1>6, <2>1, <2>4 DEF PipeOK, Resetting, Emptying, CallInv, OnPipe, Doing
  <2>6. Stopping(p)'
    <3>. SUFFICES ASSUME hc_cmd = "none"
                  PROVE  ep_state[p] # "running" /\ \A k \in Answers', w \in Waiters(p)' : w < k
      BY <1>0 DEF Stopping
    <3>1. ep_state[p] # "running" /\ \A k \in Answers, w \in Waiters(p) : w < k
      BY <2>1, <2>4, <2>5 DEF PipeOK, Stopping
    <3>2. ASSUME NEW k \in Answers, NEW w \in Waiters(p)
          PROVE  w - 1 < k - 1
      <4>1. w < k /\ w \in Nat /\ k \in Nat
        BY <1>3, <3>1
      <4>. QED  BY <4>1
    <3>. QED  BY <1>2, <3>1, <3>2
  <2>. QED  BY <1>0, <2>1, <2>4, <2>5, <2>6 DEF PipeOK, OnPipe, Doing, Commanding
<1>. QED  BY <1>5, <1>6

LEMMA StageDonePipe ==
  ASSUME DriverTypeOK, CallInv, CommandInv, NEW p \in Pipes, PipeOK(p), StageDone
  PROVE  PipeOK(p)'
<1>. DEFINE W == Waiters(p)
<1>. PICK n : n = Len(queue)
  OBVIOUS
<1>0. /\ QueueOK /\ RestOK /\ AnyEvent /\ usb_pc = "transfer" /\ call # None /\ call.op = "transfer"
      /\ EventType = "transfer" /\ Event.ep = call.ep
      /\ queue' = Tail(queue) /\ taken' = 0
      /\ UNCHANGED <<hc_cmd, ep_state, tds>>
      /\ n \in Nat /\ W \subseteq 1 .. n /\ Looks
  BY TypeParts, IndexesAre DEF StageDone, Waiting, Wanted, TakeAndGiveBack, hcVars, RestOK, CallInv, Looks
<1>1. CASE ~OnPipe(p)
  <2>1. ~OnPipe(p)'
    BY <1>0, <1>1 DEF StageDone, Returns, OnPipe, Doing
  <2>. QED  BY <1>0, <1>1, <2>1, PipeOff
<1>2. CASE OnPipe(p)
  <2>0. call.ep = p
    BY <1>2 DEF OnPipe
  <2>1. /\ 1 \in W /\ Event = queue[1] /\ Waiters(p)' = {i - 1 : i \in W \ {1}}
        /\ \A i \in W \ {1} : queue'[i - 1] = queue[i] /\ i \in Nat /\ i > 1
    <3>1. /\ 1 \in W /\ Event = queue[1]
      BY <1>0, <2>0, InFront
    <3>2. /\ Waiters(p)' = {i - 1 : i \in W \ {1}}
          /\ \A i \in 2 .. Len(queue) : queue'[i - 1] = queue[i]
      BY <1>0, TakenOff DEF AnyEvent
    <3>. QED  BY <1>0, <3>1, <3>2
  <2>2. /\ Cardinality(W) \in Nat /\ Cardinality(Waiters(p)') = Cardinality(W) - 1
        /\ Cardinality(W) = 1 => Waiters(p)' = {}
        /\ Cardinality(W) # 0
    <3>. HIDE DEF W
    <3>1. n \in Nat /\ W \in SUBSET (1 .. n)
      BY <1>0 DEF W
    <3>2. /\ Cardinality(W) \in Nat
          /\ Cardinality({i - 1 : i \in W \ {1}}) = Cardinality(W) - 1
      BY <2>1, <3>1, CountIs, CountShift
    <3>3. Cardinality(W) = 1 => Waiters(p)' = {}
      <4>1. IsFiniteSet(W \ {1}) /\ Cardinality(W \ {1}) = Cardinality(W) - 1
        BY <2>1, <3>1, CountIs, FS_RemoveElement
      <4>2. Cardinality(W) = 1 => W \ {1} = {}
        BY <4>1, FS_EmptySet
      <4>. QED  BY <2>1, <4>2
    <3>4. Cardinality(W) # 0
      BY <2>1, <3>1, CountIs
    <3>. QED  BY <2>1, <3>2, <3>3, <3>4
  <2>3. /\ stage < Stages[p] /\ \A i \in W : queue[i].at = tds_made
        /\ \A i \in 1 .. Len(tds[p]) : tds[p][i] = tds_made
        /\ Running(p) \/ Stalled(p)
        /\ stage \in Nat /\ Stages[p] \in Nat /\ Len(tds[p]) \in Nat /\ tds[p] \in Seq(Nat)
    BY <1>0, <1>2, XhciAssumption DEF PipeOK, Progress, RestOK
  <2>4. CASE Event.cc = "success" /\ stage + 1 < Stages[p]
    <3>1. stage' = stage + 1 /\ UNCHANGED <<usb_pc, call, tds_made>>
      BY <2>0, <2>4 DEF StageDone
    <3>2. \A i \in Waiters(p)' : queue'[i].at = tds_made'
      BY <2>1, <2>3, <3>1
    <3>3. CASE Running(p)
      <4>1. \A i \in Waiters(p)' : queue'[i].cc = "success"
        BY <2>1, <3>3 DEF Running
      <4>2. Cardinality(Waiters(p)') + Len(tds'[p]) = Left(p)'
        <5>1. Cardinality(W) + Len(tds[p]) = Stages[p] - stage
          BY <3>3 DEF Running, Left
        <5>2. Left(p)' = Stages[p] - (stage + 1) /\ tds' = tds
          BY <1>0, <3>1 DEF Left
        <5>. HIDE DEF W
        <5>3. Cardinality(W) - 1 + Len(tds[p]) = Stages[p] - (stage + 1)
          <6>1. Cardinality(W) \in Int
            BY <2>2
          <6>2. Len(tds[p]) \in Int /\ Stages[p] \in Int /\ stage \in Int
            BY <2>3
          <6>. QED  BY ONLY <5>1, <6>1, <6>2, OneFewer
        <5>4. Cardinality(Waiters(p)') = Cardinality(W) - 1
          BY <2>2
        <5>5. Len(tds'[p]) = Len(tds[p])
          BY <5>2
        <5>6. Left(p)' = Stages[p] - (stage + 1)
          BY <5>2
        <5>. QED  BY ONLY <5>3, <5>4, <5>5, <5>6
      <4>3. Running(p)'
        BY <1>0, <3>3, <4>1, <4>2 DEF Running
      <4>. QED  BY <1>0, <1>2, <2>3, <2>4, <3>1, <3>2, <4>3 DEF PipeOK, Progress, OnPipe, Doing, Commanding
    <3>4. CASE Stalled(p)
      <4>1. PICK k \in W : /\ queue[k].cc = "stall"
                           /\ \A i \in W : i # k => i < k /\ queue[i].cc = "success"
        BY <3>4 DEF Stalled
      <4>2. k # 1
        BY <2>1, <2>4, <4>1
      <4>3. k - 1 \in Waiters(p)' /\ queue'[k - 1].cc = "stall"
        BY <2>1, <4>1, <4>2
      <4>4. ASSUME NEW i \in W \ {1}, i - 1 # k - 1
            PROVE  i - 1 < k - 1 /\ queue'[i - 1].cc = "success"
        <5>1. i < k /\ queue[i].cc = "success" /\ i \in Nat /\ k \in Nat
          BY <2>1, <4>1, <4>2, <4>4
        <5>. QED  BY <2>1, <5>1
      <4>5. Cardinality(Waiters(p)') - 1 + Len(tds'[p]) = Left(p)'
        <5>1. Cardinality(W) - 1 + Len(tds[p]) = Stages[p] - stage
          BY <3>4 DEF Stalled, Left
        <5>2. Left(p)' = Stages[p] - (stage + 1) /\ tds' = tds
          BY <1>0, <3>1 DEF Left
        <5>. HIDE DEF W
        <5>3. Cardinality(W) - 1 - 1 + Len(tds[p]) = Stages[p] - (stage + 1)
          <6>1. Cardinality(W) - 1 \in Int
            BY <2>2
          <6>2. Len(tds[p]) \in Int /\ Stages[p] \in Int /\ stage \in Int
            BY <2>3
          <6>. QED  BY ONLY <5>1, <6>1, <6>2, OneFewer
        <5>4. Cardinality(Waiters(p)') = Cardinality(W) - 1
          BY <2>2
        <5>5. Len(tds'[p]) = Len(tds[p])
          BY <5>2
        <5>6. Left(p)' = Stages[p] - (stage + 1)
          BY <5>2
        <5>. QED  BY ONLY <5>3, <5>4, <5>5, <5>6
      <4>6. Stalled(p)'
        BY ZenonT(60), <1>0, <2>1, <3>4, <4>3, <4>4, <4>5 DEF Stalled
      <4>. QED  BY <1>0, <1>2, <2>3, <2>4, <3>1, <3>2, <4>6 DEF PipeOK, Progress, OnPipe, Doing, Commanding
    <3>. QED  BY <2>3, <3>3, <3>4
  <2>5. CASE ~(Event.cc = "success" /\ stage + 1 < Stages[p])
    <3>1. ~OnPipe(p)'
      BY <2>0, <2>5 DEF StageDone, Returns, OnPipe, Doing
    <3>2. Quiet(p)'
      <4>1. CASE Running(p)
        <5>1. Event.cc = "success" /\ ~(stage + 1 < Stages[p])
          BY <2>1, <2>5, <4>1 DEF Running
        <5>2. Cardinality(W) + Len(tds[p]) = 1 /\ Cardinality(W) # 0
          <6>1. Cardinality(W) + Len(tds[p]) = Stages[p] - stage
            BY <4>1 DEF Running, Left
          <6>. HIDE DEF W
          <6>2. Stages[p] - stage = 1
            BY <2>3, <5>1
          <6>. QED  BY <2>2, <6>1, <6>2
        <5>3. Cardinality(W) = 1 /\ Len(tds[p]) = 0
          BY <2>2, <2>3, <5>2
        <5>4. tds[p] = <<>>
          BY <2>3, <5>3
        <5>. QED  BY <1>0, <2>2, <5>3, <5>4 DEF Quiet
      <4>2. CASE Stalled(p)
        <5>1. PICK k \in W : /\ queue[k].cc = "stall"
                             /\ \A i \in W : i # k => i < k /\ queue[i].cc = "success"
          BY <4>2 DEF Stalled
        <5>2. CASE Event.cc = "success"
          <6>1. ~(stage + 1 < Stages[p])
            BY <2>5, <5>2
          <6>2. Cardinality(W) - 1 + Len(tds[p]) = 1 /\ Len(tds[p]) > 0
            BY <2>2, <2>3, <4>2, <6>1 DEF Stalled, Left
          <6>3. Cardinality(W) # 0
            BY <1>0, <2>1, CountIs
          <6>4. Cardinality(W) = 1
            BY <2>2, <2>3, <6>2, <6>3
          <6>. QED  BY <1>0, <2>2, <4>2, <6>4 DEF Quiet, Stalled
        <5>3. CASE Event.cc # "success"
          <6>1. k = 1
            BY <2>1, <5>1, <5>3
          <6>2. W \ {1} = {}
            BY <1>0, <2>1, <5>1, <6>1
          <6>. QED  BY <1>0, <2>1, <4>2, <6>2 DEF Quiet, Stalled
        <5>. QED  BY <5>2, <5>3
      <4>. QED  BY <2>3, <4>1, <4>2
    <3>. QED  BY <3>1, <3>2 DEF PipeOK
  <2>. QED  BY <2>4, <2>5
<1>. QED  BY <1>1, <1>2

\* A transfer is started on a pipe that is quiet.
LEMMA StartPipe ==
  ASSUME DriverTypeOK, CallInv, CommandInv, NEW p \in Pipes, PipeOK(p), NEW q \in Pipes, StartTransfer(q)
  PROVE  PipeOK(p)'
<1>0. /\ QueueOK /\ RestOK /\ usb_pc = "idle" /\ call = None
      /\ queue' = queue /\ taken' = taken /\ Looks /\ p \in Endpoints /\ q \in Endpoints
      /\ call'.op = "transfer" /\ call'.ep = q
  BY TypeParts, Numbers DEF StartTransfer, Waiting, RestOK, eventVars, Looks
<1>1. Quiet(p) /\ Waiters(p)' = {} /\ Answers' = {} /\ ~OnPipe(p)
  BY <1>0, SameQueue DEF PipeOK, OnPipe, Doing, Quiet, CommandInv, Commanding
<1>2. CASE p # q
  <2>1. ep_state'[p] = ep_state[p] /\ tds'[p] = tds[p]
    <3>1. CASE Enqueue(q)
      BY <1>0, <1>2, <3>1 DEF Enqueue, Doorbell, RestOK
    <3>2. CASE UNCHANGED <<ep_state, tds>>
      BY <3>2
    <3>. QED  BY <3>1, <3>2 DEF StartTransfer
  <2>2. ~OnPipe(p)'
    BY <1>0, <1>2 DEF OnPipe
  <2>. QED  BY <1>0, <1>1, <2>1, <2>2, PipeOff
<1>3. CASE p = q
  <2>0. OnPipe(p)'
    <3>1. call' \in Calls
      BY <1>0 DEF StartTransfer, Calls
    <3>. QED  BY <1>0, <1>3, <3>1, XhciAssumption DEF OnPipe, Doing
  <2>1. CASE ep_state[p] = "halted" /\ PostCommand("reset", p) /\ UNCHANGED <<ep_state, tds>>
    <3>1. cmd'.kind = "reset" /\ usb_pc' = "command"
      BY <2>1 DEF PostCommand, Goes
    <3>2. Resetting(p)'
      BY <1>1, <2>1, <3>1 DEF Resetting, Succeeded
    <3>. QED  BY <2>0, <3>1, <3>2 DEF PipeOK
  <2>2. CASE ep_state[p] = "stopped" /\ PostCommand("dequeue", p) /\ UNCHANGED <<ep_state, tds>>
    <3>1. cmd'.kind = "dequeue" /\ usb_pc' = "command"
      BY <2>2 DEF PostCommand, Goes
    <3>2. Emptying(p)'
      BY <1>1, <2>2, <3>1 DEF Emptying, Succeeded
    <3>. QED  BY <2>0, <3>1, <3>2 DEF PipeOK
  <2>3. CASE ep_state[p] = "running" /\ Enqueue(p)
    <3>1. tds[p] = <<>>
      BY <1>1, <2>3 DEF Quiet
    <3>. QED  BY <1>0, <1>1, <2>0, <2>3, <3>1, EnqueuePipe
  <2>. QED  BY <1>3, <2>1, <2>2, <2>3 DEF StartTransfer
<1>. QED  BY <1>2, <1>3

\* The command that is waited for is aborted, or its end is noted.
LEMMA AbortPipe ==
  ASSUME InTime, DriverTypeOK, CallInv, CommandInv, NEW p \in Pipes, PipeOK(p),
         CommandTimeout \/ Aborted
  PROVE  PipeOK(p)'
<1>0. /\ QueueOK /\ RestOK /\ Looks /\ UNCHANGED <<call, ep_state, tds>>
      /\ usb_pc \in {"command", "aborting"} /\ usb_pc' \in {"aborting", "stopping"}
      /\ call # None /\ cmd \in Commands
  BY TypeParts, DriverLooks DEF XhciContinues, CommandTimeout, Aborted, Waiting, Goes, hcVars, RestOK,
                                CallInv, Commanding
<1>1. CASE ~OnPipe(p)
  <2>1. ~OnPipe(p)'
    BY <1>0, <1>1 DEF OnPipe, Doing
  <2>. QED  BY <1>0, <1>1, <2>1, PipeOff
<1>2. CASE OnPipe(p)
  <2>1. OnPipe(p)' /\ call.op = "transfer" /\ cmd.kind \in {"reset", "dequeue", "stop"}
    BY <1>0, <1>2 DEF OnPipe, Doing, CallInv, Commanding
  <2>2. cmd.kind # "stop" /\ cmd'.kind = cmd.kind
    <3>1. CASE CommandTimeout
      <4>1. <<cmd.kind, cmd.ep>> \in {"reset", "dequeue"} \X Pipes /\ cmd' = cmd
        BY <3>1 DEF CommandTimeout, InTime, cmdVars
      <4>2. cmd.kind \in {"reset", "dequeue"}
        BY <4>1
      <4>. QED  BY <4>1, <4>2
    <3>2. CASE Aborted
      BY <1>0, <3>2 DEF Aborted, Waiting, CallInv, Commands
    <3>. QED  BY <3>1, <3>2
  <2>3. Waiters(p) = {} /\ Waiters(p)' = {}
    <3>1. Waiters(p) = {}
      BY <1>0, <1>2, <2>1, <2>2 DEF PipeOK, Resetting, Emptying, Commanding
    <3>2. CASE queue' = queue /\ taken' \in {taken, 0}
      BY <1>0, <3>1, <3>2, SameQueue
    <3>3. CASE AnyEvent /\ queue' = Tail(queue) /\ taken' \in {taken + 1, 0}
      BY <1>0, <3>1, <3>3, TakenOff DEF AnyEvent
    <3>. QED  BY <1>0, <3>1, <3>2, <3>3 DEF Looks
  <2>4. Succeeded' <=> Succeeded
    <3>1. CASE CommandTimeout
      <4>1. queue = <<>> /\ queue' = queue /\ taken' = 0 /\ usb_pc = "command" /\ usb_pc' = "aborting"
        BY <3>1 DEF CommandTimeout, TimesOut, AnyEvent, GiveBack, Waiting, Goes
      <4>2. Answers' = {} /\ Answers = {}
        BY <1>0, <4>1, SameQueue, IndexesAre
      <4>. QED  BY <4>1, <4>2 DEF Succeeded
    <3>2. CASE Aborted
      <4>1. /\ usb_pc = "aborting" /\ AnyEvent /\ Wanted /\ queue' = Tail(queue)
            /\ taken' \in {taken + 1, 0} /\ usb_pc' = "stopping" /\ cmd'.cc = Event.cc
            /\ Event = queue[1]
        BY <1>0, <3>2, InFront DEF Aborted, Waiting, Wanted, Take, Goes, Commands
      <4>2. /\ Answers' = {i - 1 : i \in Answers \ {1}} /\ Answers \subseteq 1 .. Len(queue)
            /\ \A i \in 2 .. Len(queue) : queue'[i - 1] = queue[i]
            /\ Len(queue) \in Nat
        BY <1>0, <4>1, TakenOff, IndexesAre DEF AnyEvent
      <4>3. 1 \in Answers /\ \A k \in Answers \ {1} : queue[k].cc # "success"
        BY <4>1, WantedIs
      <4>4. \A k \in Answers' : queue'[k].cc # "success"
        BY <4>2, <4>3
      <4>. QED  BY <4>1, <4>3, <4>4 DEF Succeeded
    <3>. QED  BY <3>1, <3>2
  <2>. QED  BY <1>0, <1>2, <2>1, <2>2, <2>3, <2>4 DEF PipeOK, Resetting, Emptying, Commanding
<1>. QED  BY <1>1, <1>2

LEMMA DriverPipes ==
  ASSUME InTime, DriverTypeOK, CallInv, CommandInv, PipeInv, XhciCall \/ XhciContinues
  PROVE  PipeInv'
<1>0. QueueOK /\ RestOK /\ Looks
  BY TypeParts, DriverLooks
<1>. SUFFICES ASSUME usb_pc # "dead", usb_pc' # "dead", NEW p \in Pipes, PipeOK(p)
              PROVE  PipeOK(p)'
  <2>1. usb_pc # "dead"
    BY DEF XhciCall, XhciContinues, StartTransfer, EnableSlot, CreateIntrQueue, DestroyIntrQueue,
           PollIntrQueue, Handles, CommandDone, CommandTimeout, Aborted, RingStopped, AbortTimeout,
           SlotAdvance, StageDone, TransferTimeout, Drained, Polled, TakeReport, NothingReady, Waiting
  <2>. QED  BY <2>1 DEF PipeInv
<1>1. p \in Endpoints /\ p # Intr
  BY Numbers
<1>2. CASE CommandDone
  <2>1. /\ usb_pc = "command" /\ AnyEvent /\ hc_cmd = "none" /\ Answers = {1} /\ Event = queue[1]
    BY <1>0, <1>2, WantedIs, InFront DEF CommandDone, Waiting, Wanted
  <2>2. Succeeded <=> Event.cc = "success"
    BY <2>1 DEF Succeeded
  <2>3. ASSUME OnPipe(p)
        PROVE  /\ Waiters(p)' = {} /\ Answers' = {} /\ (cmd.kind = "stop" => ep_state[p] # "running")
    <3>1. /\ cmd.kind \in {"reset", "dequeue", "stop"} /\ usb_pc \in Commanding
      BY <2>1, <2>3 DEF OnPipe, Doing, CallInv, Commanding
    <3>2. queue' = Tail(queue) /\ taken' = 0
      BY <1>2, <3>1 DEF CommandDone, TakeAndGiveBack
    <3>3. \A w \in Waiters(p) : w < 1
      BY <2>1, <2>3, <3>1 DEF PipeOK, Resetting, Emptying, Stopping
    <3>4. Waiters(p) = {}
      BY <1>0, <3>3, IndexesAre
    <3>5. Waiters(p)' = {} /\ Answers' = {}
      BY <1>0, <2>1, <3>2, <3>4, TakenOff DEF AnyEvent
    <3>6. cmd.kind = "stop" => ep_state[p] # "running"
      BY <2>1, <2>3, <3>1 DEF PipeOK, Stopping
    <3>. QED  BY <3>5, <3>6
  <2>. QED  BY <1>0, <1>2, <2>1, <2>2, <2>3, AfterCommandPipe DEF CommandDone
<1>3. CASE RingStopped
  <2>1. /\ usb_pc = "stopping" /\ AnyEvent /\ Wanted /\ hc_cmd = "none" /\ Answers = {1}
        /\ Event = queue[1] /\ Event.cc = "ring stopped" /\ queue' = Tail(queue) /\ taken' = 0
    BY <1>0, <1>3, WantedIs, InFront DEF RingStopped, Waiting, Wanted, TakeAndGiveBack
  <2>2. Succeeded <=> cmd.cc = "success"
    BY <2>1 DEF Succeeded
  <2>3. ASSUME OnPipe(p)
        PROVE  /\ Waiters(p)' = {} /\ Answers' = {} /\ (cmd.kind = "stop" => ep_state[p] # "running")
    <3>1. /\ cmd.kind \in {"reset", "dequeue"} /\ usb_pc \in Commanding
      BY <2>1, <2>3 DEF OnPipe, Doing, CallInv, Commanding
    <3>2. Waiters(p) = {}
      BY <2>3, <3>1 DEF PipeOK, Resetting, Emptying
    <3>3. Waiters(p)' = {} /\ Answers' = {}
      BY ZenonT(60), <1>0, <2>1, <3>2, TakenOff DEF AnyEvent
    <3>. QED  BY <3>1, <3>3
  <2>. QED  BY <1>0, <1>3, <2>1, <2>2, <2>3, AfterCommandPipe DEF RingStopped
<1>4. CASE TransferTimeout
  <2>1. /\ usb_pc = "transfer" /\ usb_pc' = "command" /\ cmd'.kind = "stop" /\ hc_cmd' = "running"
        /\ UNCHANGED <<call, ep_state, tds>>
    BY <1>4 DEF TransferTimeout, Waiting, PostCommand, Goes
  <2>2. CASE OnPipe(p)
    BY <2>1, <2>2 DEF PipeOK, Stopping, OnPipe, Doing
  <2>3. CASE ~OnPipe(p)
    <3>1. ~OnPipe(p)'
      BY <2>1, <2>3 DEF OnPipe, Doing
    <3>. QED  BY <1>0, <2>1, <2>3, <3>1, PipeOff
  <2>. QED  BY <2>2, <2>3
\* Everything else is done without a transfer.
<1>5. CASE /\ ~Doing("transfer") /\ ~Doing("transfer")' /\ tds' = tds
           /\ ep_state' = ep_state \/ Doorbell(Intr)
  <2>1. ep_state'[p] = ep_state[p]
    BY <1>0, <1>1, <1>5 DEF Doorbell, RestOK
  <2>2. ~OnPipe(p) /\ ~OnPipe(p)'
    BY <1>5 DEF OnPipe, Doing
  <2>. QED  BY <1>0, <1>5, <2>1, <2>2, PipeOff
<1>6. CASE SlotAdvance
  <2>1. ~Doing("transfer") /\ UNCHANGED <<call, tds, ep_state>>
    BY <1>6 DEF SlotAdvance, Waiting, CallInv, Doing, hcVars
  <2>. QED  BY <1>5, <2>1 DEF Doing
<1>7. CASE Drained
  <2>1. ~Doing("transfer") /\ UNCHANGED <<tds, ep_state>> /\ (call' = None \/ call' = call)
    BY <1>7 DEF Drained, Waiting, CallInv, Doing, Returns
  <2>. QED  BY <1>5, <2>1 DEF Doing
<1>8. CASE Polled \/ NothingReady \/ TakeReport
  <2>1. ~Doing("transfer") /\ tds' = tds /\ (call' = None \/ call' = call)
    BY <1>8 DEF Polled, NothingReady, TakeReport, Waiting, CallInv, Doing, Returns, hcVars
  <2>2. ep_state' = ep_state \/ Doorbell(Intr)
    BY <1>8 DEF Polled, NothingReady, TakeReport, hcVars
  <2>. QED  BY <1>5, <2>1, <2>2 DEF Doing
<1>9. CASE EnableSlot \/ DestroyIntrQueue \/ PollIntrQueue
  <2>1. call = None /\ call'.op \in {"slot", "destroy", "poll"} /\ UNCHANGED <<tds, ep_state>>
    BY <1>0, <1>9 DEF EnableSlot, DestroyIntrQueue, PollIntrQueue, Waiting, RestOK
  <2>. QED  BY <1>5, <2>1 DEF Doing
<1>10. ASSUME NEW m \in ReqCounts, CreateIntrQueue(m)
       PROVE  PipeOK(p)'
  <2>1. call = None /\ UNCHANGED <<call, tds>> /\ Doorbell(Intr)
    BY <1>0, <1>10 DEF CreateIntrQueue, Waiting, RestOK
  <2>. QED  BY <1>5, <2>1 DEF Doing
<1>11. CASE AbortTimeout
  BY <1>11 DEF AbortTimeout, Goes
<1>. QED  BY <1>2, <1>3, <1>4, <1>6, <1>7, <1>8, <1>9, <1>10, <1>11, HandlesPipe, StageDonePipe,
             StartPipe, AbortPipe DEF XhciCall, XhciContinues

LEMMA PipesStep ==
  ASSUME InTime, DriverTypeOK, CallInv, CommandInv, PipeInv, [XhciNext]_xhciVars
  PROVE  PipeInv'
<1>1. CASE Died \/ UNCHANGED xhciVars
  <2>1. UNCHANGED <<usb_pc, call, stage, tds_made, cmd, hc_cmd, ep_state, tds, queue>>
    BY <1>1 DEF Died, xhciVars, driverVars, pipeVars, cmdVars, hcVars, eventVars
  <2>2. Answers' = Answers /\ \A p : Waiters(p)' = Waiters(p)
    BY <2>1 DEF Answers, Waiters
  <2>3. Succeeded' = Succeeded /\ \A p : OnPipe(p)' = OnPipe(p)
    BY <2>1, <2>2 DEF Succeeded, OnPipe, Doing
  <2>4. ASSUME NEW p \in Pipes, PipeOK(p)
        PROVE  PipeOK(p)'
    BY <2>1, <2>2, <2>3, <2>4
       DEF PipeOK, Quiet, Progress, Running, Stalled, Left, Resetting, Emptying, Stopping
  <2>. QED  BY <2>1, <2>4 DEF PipeInv
<1>. QED  BY <1>1, HcPipes, DriverPipes DEF XhciNext

LEMMA PipesInit == XhciInit => PipeInv
BY Numbers DEF XhciInit, QueueInit, PipeInv, PipeOK, OnPipe, Doing, Quiet, Waiters

-----------------------------------------------------------------------------
(***************************************************************************)
(* The interrupt queue: its entries, from the first that is not taken yet. *)
(***************************************************************************)
EntryAt(a, j) == IF a + j \in Slots THEN a + j ELSE a + j - (TransferRingSize - 1)
Pos(j) == EntryAt(intrq.next, j)
BufAt(j) == trb[Pos(j)].buf
Held == 0 .. intrq.count - 1

\* The entries in use hold each buffer of the queue once; the last one is the spare.
RingHolds ==
  /\ intrq \in IntrQueues /\ intrq.count <= TransferRingSize - 2
  /\ tr_cur = Pos(intrq.count - 1)
  /\ \A j \in Held : trb[Pos(j)] \in [buf : 1 .. intrq.count, len : {0, 1}]
  /\ \A i, j \in Held : BufAt(i) = BufAt(j) => i = j
  /\ \A b \in 1 .. intrq.count : \E j \in Held : BufAt(j) = b

\* The controller is at entry "h" and the driver has noted the reports before "r": those
\* between are on their way, in order.
Reported(w, j) == queue[w].at = Pos(j)
InFlight(h, r) ==
  /\ \A w \in Waiters(Intr) : \E j \in r .. h - 1 : Reported(w, j)
  /\ \A j \in r .. h - 1 : \E w \in Waiters(Intr) : Reported(w, j)
  /\ \A v, w \in Waiters(Intr) : \A i, j \in r .. h - 1 :
       v < w /\ Reported(v, i) /\ Reported(w, j) => i < j

\* An entry carries a report, and the entries carry those that are not handed out yet.
Carries(r, j) ==
  \/ j < r /\ trb[Pos(j)].len = 1
  \/ r <= j /\ \E w \in Waiters(Intr) : Reported(w, j) /\ queue[w].cc = "success"
AllKept(h, r) ==
  /\ \A j \in 0 .. h - 1 : Carries(r, j) => data[BufAt(j)] \in got + 1 .. sent
  /\ \A i, j \in 0 .. h - 1 : i < j /\ Carries(r, i) /\ Carries(r, j) => data[BufAt(i)] < data[BufAt(j)]
  /\ \A n \in got + 1 .. sent : \E j \in 0 .. h - 1 : Carries(r, j) /\ data[BufAt(j)] = n

WorksAt(h, r) ==
  /\ h \in Held /\ r \in 0 .. h
  /\ ep_state[Intr] # "halted" => hc_deq = Pos(h)
  /\ intrq.ready = IF r = 0 THEN None ELSE Pos(r - 1)
  /\ InFlight(h, r) /\ AllKept(h, r) /\ got <= sent
QueueWorks == \E h, r : WorksAt(h, r)

\* Without a queue the endpoint starts over; while it ends the controller has stopped.
NoQueue ==
  /\ handed = None /\ Waiters(Intr) = {}
  /\ ~Doing("destroy") => tr_cur = 0 /\ (ep_state[Intr] # "halted" => hc_deq = 0)
  /\ Doing("destroy") =>
       /\ usb_pc = "command" /\ cmd.kind = "dequeue" /\ ep_state[Intr] # "running"
       /\ hc_cmd = "none" => ep_state[Intr] = "halted" \/ hc_deq = 0
EndingQueue ==
  /\ handed = None
  /\ usb_pc = "command" => cmd.kind = "stop"
  /\ usb_pc = "draining" \/ hc_cmd = "none" => ep_state[Intr] # "running"
HandedOut ==
  handed # None => /\ usb_pc \notin {"polling", "taking"}
                   /\ handed = trb[tr_cur].buf /\ data[handed] = got

IntrInv ==
  /\ intrq = None => NoQueue
  /\ intrq # None => RingHolds
  /\ intrq # None /\ Doing("destroy") => EndingQueue
  /\ intrq # None /\ ~Doing("destroy") => QueueWorks
  /\ HandedOut

LEMMA InvReportsInOrder == IntrInv => ReportsInOrder
BY DEF IntrInv, HandedOut, ReportsInOrder

-----------------------------------------------------------------------------
LEMMA PlacesAre ==
  ASSUME NEW a \in Slots
  PROVE  /\ \A j \in 0 .. TransferRingSize - 2 : EntryAt(a, j) \in Slots
         /\ \A i, j \in 0 .. TransferRingSize - 2 : EntryAt(a, i) = EntryAt(a, j) => i = j
         /\ EntryAt(a, 0) = a
         /\ \A j \in 0 .. TransferRingSize - 3 : /\ NextTrb(EntryAt(a, j)) = EntryAt(a, j + 1)
                                                 /\ EntryAt(NextTrb(a), j) = EntryAt(a, j + 1)
         /\ NextTrb(a) \in Slots
<1>1. TransferRingSize \in Nat /\ TransferRingSize > 2 /\ a \in 0 .. TransferRingSize - 2
  BY Numbers DEF Slots
<1>. QED  BY <1>1 DEF Slots, EntryAt, NextTrb

\* What holds of the ring, in one place.
LEMMA RingFacts ==
  ASSUME RingHolds
  PROVE  /\ intrq.next \in Slots /\ intrq.count \in Nat /\ 1 <= intrq.count
         /\ intrq.count <= TransferRingSize - 2 /\ TransferRingSize \in Nat
         /\ \A j \in 0 .. intrq.count : Pos(j) \in Slots
         /\ \A i, j \in 0 .. intrq.count : Pos(i) = Pos(j) => i = j
         /\ Pos(0) = intrq.next
         /\ \A j \in Held : NextTrb(Pos(j)) = Pos(j + 1) /\ EntryAt(NextTrb(intrq.next), j) = Pos(j + 1)
         /\ NextTrb(intrq.next) \in Slots
<1>1. /\ intrq.next \in Slots /\ intrq.count \in Nat /\ 1 <= intrq.count
      /\ intrq.count <= TransferRingSize - 2 /\ TransferRingSize \in Nat
  BY Numbers DEF RingHolds, IntrQueues
<1>2. 0 .. intrq.count \subseteq 0 .. TransferRingSize - 2 /\ Held \subseteq 0 .. TransferRingSize - 3
  BY <1>1 DEF Held
<1>. QED  BY <1>1, <1>2, PlacesAre DEF Pos

\* A set of numbers has a smallest one.
LEMMA LeastOf ==
  ASSUME NEW T \in SUBSET Nat, T # {}
  PROVE  \E n \in T : \A m \in T : n <= m
<1>1. PICK n \in T : \A m \in T : ~(<<m, n>> \in OpToRel(<, Nat))
  BY NatLessThanWellFounded, WFMin, Zenon
<1>2. ASSUME NEW m \in T
      PROVE  n <= m
  <2>1. <<m, n>> \in Nat \X Nat
    OBVIOUS
  <2>2. ~(<<m, n>>[1] < <<m, n>>[2])
    BY <1>1, <2>1, Zenon DEF OpToRel
  <2>. QED  BY <2>2
<1>. QED  BY <1>2

LEMMA InvBuffersAccounted == IntrInv => BuffersAccounted
<1>. SUFFICES ASSUME intrq # None, RingHolds
              PROVE  BuffersAccounted
  BY DEF IntrInv, BuffersAccounted
<1>. DEFINE rec(f) == f = [i \in 0 .. intrq.count - 1 |-> IF i = 0 THEN intrq.next ELSE NextTrb(f[i - 1])]
            at == CHOOSE f : rec(f)
            g == [i \in 0 .. intrq.count - 1 |-> Pos(i)]
<1>1. rec(g)
  <2>1. ASSUME NEW i \in 0 .. intrq.count - 1, i # 0
        PROVE  Pos(i) = NextTrb(g[i - 1])
    <3>1. i - 1 \in 0 .. intrq.count - 1 /\ (i - 1) + 1 = i
      BY <2>1, RingFacts
    <3>2. NextTrb(Pos(i - 1)) = Pos((i - 1) + 1)
      BY <3>1, RingFacts DEF Held
    <3>. QED  BY <3>1, <3>2
  <2>. QED  BY <2>1, RingFacts
<1>2. rec(at)
  BY <1>1
<1>3. \A i \in 0 .. intrq.count - 1 : at[i] = Pos(i)
  <2>. HIDE DEF at
  <2>. DEFINE bad == {i \in 0 .. intrq.count - 1 : at[i] # Pos(i)}
  <2>. SUFFICES ASSUME bad # {} PROVE FALSE
    OBVIOUS
  <2>1. PICK n \in bad : \A m \in bad : n <= m
    <3>1. bad \in SUBSET Nat
      BY RingFacts
    <3>. HIDE DEF bad
    <3>. QED  BY <3>1, LeastOf
  <2>2. n \in 0 .. intrq.count - 1 /\ at[n] = IF n = 0 THEN intrq.next ELSE NextTrb(at[n - 1])
    BY <1>2
  <2>3. n # 0
    BY <2>1, <2>2, RingFacts
  <2>4. n - 1 \in 0 .. intrq.count - 1 /\ (n - 1) + 1 = n /\ n - 1 \notin bad
    BY <2>1, <2>2, <2>3, RingFacts
  <2>5. NextTrb(Pos(n - 1)) = Pos(n)
    BY <2>4, RingFacts DEF Held
  <2>. QED  BY <2>1, <2>2, <2>3, <2>4, <2>5
<1>4. DOMAIN at = 0 .. intrq.count - 1
  <2>. HIDE DEF at
  <2>. QED  BY <1>2
<1>5. {trb[at[i]].buf : i \in DOMAIN at} = 1 .. intrq.count
  <2>. HIDE DEF at
  <2>1. \A i \in 0 .. intrq.count - 1 : trb[at[i]].buf = BufAt(i) /\ BufAt(i) \in 1 .. intrq.count
    BY <1>3 DEF RingHolds, Held, BufAt
  <2>2. \A b \in 1 .. intrq.count : \E i \in 0 .. intrq.count - 1 : BufAt(i) = b
    BY DEF RingHolds, Held
  <2>. QED  BY <1>4, <2>1, <2>2
<1>6. at[intrq.count - 1] = tr_cur
  <2>. HIDE DEF at
  <2>1. intrq.count - 1 \in 0 .. intrq.count - 1
    BY RingFacts
  <2>. QED  BY <1>3, <2>1 DEF RingHolds
<1>. QED  BY <1>5, <1>6 DEF BuffersAccounted

-----------------------------------------------------------------------------
\* The reports on their way, when events that are none of them come or go.
LEMMA QueueKept ==
  ASSUME DriverTypeOK, RingHolds, QueueWorks, NEW d \in {0, 1}, WaitersKept(Intr, d),
         UNCHANGED <<intrq, trb, got, sent, hc_deq>>, ep_state'[Intr] = ep_state[Intr],
         \A j \in 0 .. intrq.count - 2 : data'[BufAt(j)] = data[BufAt(j)]
  PROVE  QueueWorks'
<1>1. PICK h, r : WorksAt(h, r)
  BY DEF QueueWorks
<1>2. /\ Waiters(Intr)' = {w - d : w \in Waiters(Intr)}
      /\ \A w \in Waiters(Intr) : queue'[w - d] = queue[w]
      /\ Waiters(Intr) \subseteq Nat
  BY IndexesAre DEF WaitersKept, DriverTypeOK
<1>3. /\ \A j : Pos(j)' = Pos(j) /\ BufAt(j)' = BufAt(j)
      /\ Held' = Held
  BY DEF Pos, BufAt, Held
<1>4. \A w \in Waiters(Intr) : \A j : Reported(w - d, j)' <=> Reported(w, j)
  BY <1>2, <1>3 DEF Reported
<1>5. InFlight(h, r)'
  <2>0. InFlight(h, r)
    BY <1>1 DEF WorksAt
  <2>1. \A w \in Waiters(Intr)' : \E j \in r .. h - 1 : Reported(w, j)'
    BY <1>2, <1>4, <2>0 DEF InFlight
  <2>2. \A j \in r .. h - 1 : \E w \in Waiters(Intr)' : Reported(w, j)'
    BY <1>2, <1>4, <2>0 DEF InFlight
  <2>3. ASSUME NEW v \in Waiters(Intr), NEW w \in Waiters(Intr), NEW i \in r .. h - 1, NEW j \in r .. h - 1,
               v - d < w - d, Reported(v - d, i)', Reported(w - d, j)'
        PROVE  i < j
    <3>1. v \in Nat /\ w \in Nat /\ d \in Nat
      BY <1>2
    <3>2. v < w
      BY ONLY <3>1, <2>3
    <3>. QED  BY <1>4, <2>0, <2>3, <3>2 DEF InFlight
  <2>. QED  BY <1>2, <2>1, <2>2, <2>3 DEF InFlight
<1>6. \A j : Carries(r, j)' <=> Carries(r, j)
  BY <1>2, <1>3, <1>4 DEF Carries
<1>7. AllKept(h, r)'
  <2>1. AllKept(h, r) /\ \A j \in 0 .. h - 1 : j \in 0 .. intrq.count - 2
    BY <1>1, RingFacts DEF WorksAt, Held
  <2>2. \A j \in 0 .. h - 1 : data'[BufAt(j)'] = data[BufAt(j)]
    BY <1>3, <2>1
  <2>. QED  BY <1>6, <2>1, <2>2 DEF AllKept
<1>. QED  BY <1>1, <1>3, <1>5, <1>7 DEF WorksAt, QueueWorks

LEMMA RingKept ==
  ASSUME RingHolds, UNCHANGED <<intrq, trb, tr_cur>>
  PROVE  RingHolds'
BY DEF RingHolds, Pos, BufAt, Held

\* A report is on its way; another one may have been written to its buffer.
LEMMA ReportPosted ==
  ASSUME DriverTypeOK, RingHolds, QueueWorks, HcReport, UNCHANGED driverVars
  PROVE  QueueWorks'
<1>. PICK n : n = Len(queue)
  OBVIOUS
<1>0. /\ QueueOK /\ RestOK /\ n \in Nat /\ Waiters(Intr) \subseteq 1 .. n
      /\ UNCHANGED <<intrq, trb, tr_cur, got>>
      /\ ep_state[Intr] = "running" /\ hc_deq # tr_cur /\ hc_deq' = NextTrb(hc_deq)
  BY TypeParts, IndexesAre DEF driverVars, queueVars, HcReport, Runs
<1>1. PICK h, r : WorksAt(h, r)
  BY DEF QueueWorks
<1>2. /\ h \in Nat /\ r \in 0 .. h /\ h < intrq.count - 1 /\ hc_deq = Pos(h)
      /\ intrq.count \in Nat /\ h + 1 \in Held
  <2>1. hc_deq = Pos(h) /\ h \in Held /\ r \in 0 .. h /\ tr_cur = Pos(intrq.count - 1)
    BY <1>0, <1>1 DEF WorksAt, RingHolds
  <2>2. h # intrq.count - 1 /\ intrq.count \in Nat
    BY <1>0, <2>1, RingFacts
  <2>. QED  BY <2>1, <2>2 DEF Held
<1>3. PICK cc \in {"success", "empty", "stall"} :
        /\ Post(TransferEvent(Intr, cc, hc_deq))
        /\ IF cc = "success"
           THEN sent' = sent + 1 /\ data' = [data EXCEPT ![BufAt(h)] = sent + 1]
           ELSE UNCHANGED <<sent, data>>
  BY <1>2 DEF HcReport, BufAt
<1>4. /\ Waiters(Intr)' = Waiters(Intr) \cup {n + 1} /\ queue'[n + 1] = TransferEvent(Intr, cc, hc_deq)
      /\ \A w \in Waiters(Intr) : queue'[w] = queue[w] /\ w < n + 1 /\ w \in Nat
  <2>1. TransferEvent(Intr, cc, hc_deq) \in Items /\ IsFor(TransferEvent(Intr, cc, hc_deq), Intr)
    BY <1>0, Numbers, EventRecords DEF RestOK
  <2>2. /\ Waiters(Intr)' = Waiters(Intr) \cup {n + 1} /\ queue'[n + 1] = TransferEvent(Intr, cc, hc_deq)
        /\ \A i \in 1 .. n : queue'[i] = queue[i]
    BY <1>0, <1>3, <2>1, Posted
  <2>. QED  BY <1>0, <2>2
<1>5. /\ \A j : Pos(j)' = Pos(j) /\ BufAt(j)' = BufAt(j)
      /\ Held' = Held
  BY <1>0 DEF Pos, BufAt, Held
<1>6. /\ \A w \in Waiters(Intr) : \A j : Reported(w, j)' <=> Reported(w, j)
      /\ \A j \in 0 .. h : Reported(n + 1, j)' <=> j = h
      /\ queue'[n + 1].cc = cc
  <2>1. \A i, j \in 0 .. h : Pos(i) = Pos(j) => i = j
    <3>1. 0 .. h \subseteq 0 .. intrq.count
      BY <1>2
    <3>. QED  BY <3>1, RingFacts
  <2>2. queue'[n + 1].at = Pos(h) /\ queue'[n + 1].cc = cc
    BY <1>2, <1>4 DEF TransferEvent
  <2>3. h \in 0 .. h
    BY <1>2
  <2>. QED  BY <1>4, <1>5, <2>1, <2>2, <2>3 DEF Reported
<1>7. InFlight(h, r)
  BY <1>1 DEF WorksAt
<1>8. \A j \in 0 .. h - 1 : j \in 0 .. h /\ j # h
  BY <1>2
<1>9. r .. h - 1 \subseteq 0 .. h - 1 /\ r .. (h + 1) - 1 = (r .. h - 1) \cup {h}
  BY <1>2
<1>10. InFlight(h + 1, r)'
  <2>1. \A w \in Waiters(Intr)' : \E j \in r .. (h + 1) - 1 : Reported(w, j)'
    BY <1>2, <1>4, <1>6, <1>7, <1>9 DEF InFlight
  <2>2. \A j \in r .. (h + 1) - 1 : \E w \in Waiters(Intr)' : Reported(w, j)'
    BY <1>2, <1>4, <1>6, <1>7, <1>9 DEF InFlight
  <2>3. ASSUME NEW v \in Waiters(Intr)', NEW w \in Waiters(Intr)',
               NEW i \in r .. (h + 1) - 1, NEW j \in r .. (h + 1) - 1,
               v < w, Reported(v, i)', Reported(w, j)'
        PROVE  i < j
    <3>0. v < w
      BY ONLY <2>3
    <3>1. v \in Waiters(Intr)
      BY <1>0, <1>4, <3>0
    <3>2. i # h
      <4>1. PICK l \in r .. h - 1 : Reported(v, l)
        BY <1>7, <3>1 DEF InFlight
      <4>2. i \in 0 .. intrq.count /\ l \in 0 .. intrq.count /\ Pos(i) = Pos(l)
        BY <1>2, <1>5, <1>6, <2>3, <3>1, <4>1 DEF Reported
      <4>3. i = l
        BY <4>2, RingFacts
      <4>. QED  BY <1>2, <4>1, <4>3
    <3>3. CASE w = n + 1
      <4>1. j = h
        <5>1. j \in 0 .. h
          BY <1>2
        <5>. QED  BY <1>6, <2>3, <3>3, <5>1
      <4>. QED  BY <1>2, <3>2, <4>1
    <3>4. CASE w # n + 1
      <4>1. w \in Waiters(Intr)
        BY <1>4, <3>4
      <4>2. j # h
        <5>1. PICK l \in r .. h - 1 : Reported(w, l)
          BY <1>7, <4>1 DEF InFlight
        <5>2. j \in 0 .. intrq.count /\ l \in 0 .. intrq.count /\ Pos(j) = Pos(l)
          BY <1>2, <1>5, <1>6, <2>3, <4>1, <5>1 DEF Reported
        <5>3. j = l
          BY <5>2, RingFacts
        <5>. QED  BY <1>2, <5>1, <5>3
      <4>3. i \in r .. h - 1 /\ j \in r .. h - 1
        BY <1>9, <3>2, <4>2
      <4>. QED  BY <1>6, <1>7, <2>3, <3>0, <3>1, <4>1, <4>3 DEF InFlight
    <3>. QED  BY <3>3, <3>4
  <2>. QED  BY <2>1, <2>2, <2>3 DEF InFlight
<1>11. \A j \in 0 .. h - 1 : Carries(r, j)' <=> Carries(r, j)
  BY <1>0, <1>4, <1>5, <1>6, <1>8 DEF Carries
<1>12. Carries(r, h)' => cc = "success"
  <2>1. \A w \in Waiters(Intr) : ~Reported(w, h)
    <3>. SUFFICES ASSUME NEW w \in Waiters(Intr), Reported(w, h) PROVE FALSE
      OBVIOUS
    <3>1. PICK l \in r .. h - 1 : Reported(w, l)
      BY <1>7 DEF InFlight
    <3>2. h \in 0 .. intrq.count /\ l \in 0 .. intrq.count /\ Pos(h) = Pos(l)
      BY <1>2, <3>1 DEF Reported
    <3>3. h = l
      BY <3>2, RingFacts
    <3>. QED  BY <1>2, <3>1, <3>3
  <2>2. ~(h < r)
    BY <1>2
  <2>. QED  BY <1>4, <1>6, <2>1, <2>2 DEF Carries
<1>13. cc = "success" => Carries(r, h)'
  <2>1. r <= h /\ h \in 0 .. h
    BY <1>2
  <2>. QED  BY <1>4, <1>6, <2>1 DEF Carries
<1>14. AllKept(h, r) /\ got \in Nat /\ sent \in Nat /\ got <= sent
  BY <1>0, <1>1 DEF WorksAt, RestOK
<1>15. 0 .. (h + 1) - 1 = (0 .. h - 1) \cup {h}
  BY <1>2
<1>16. /\ \A j \in 0 .. h - 1 : BufAt(j) # BufAt(h) /\ BufAt(j) \in Bufs
       /\ BufAt(h) \in Bufs
  <2>1. h \in Held /\ \A j \in 0 .. h - 1 : j \in Held /\ j # h
    BY <1>2 DEF Held
  <2>2. \A j \in Held : BufAt(j) \in Bufs
    BY RingFacts DEF RingHolds, BufAt, Bufs
  <2>. QED  BY <2>1, <2>2 DEF RingHolds
<1>17. ASSUME cc = "success"
       PROVE  AllKept(h + 1, r)' /\ got' <= sent'
  <2>1. /\ sent' = sent + 1 /\ \A j \in 0 .. h - 1 : data'[BufAt(j)'] = data[BufAt(j)]
        /\ data'[BufAt(h)'] = sent + 1
    BY <1>0, <1>3, <1>5, <1>16, <1>17 DEF RestOK
  <2>2. AllKept(h + 1, r)'
    <3>1. \A j \in 0 .. (h + 1) - 1 : Carries(r, j)' => data'[BufAt(j)'] \in got' + 1 .. sent'
      <4>1. \A j \in 0 .. h - 1 : Carries(r, j)' => data'[BufAt(j)'] \in got + 1 .. sent
        BY <1>11, <1>14, <2>1 DEF AllKept
      <4>. QED  BY <1>0, <1>14, <1>15, <2>1, <4>1
    <3>2. ASSUME NEW i \in 0 .. (h + 1) - 1, NEW j \in 0 .. (h + 1) - 1,
                 i < j, Carries(r, i)', Carries(r, j)'
          PROVE  data'[BufAt(i)'] < data'[BufAt(j)']
      <4>1. i \in 0 .. h - 1
        BY <1>2, <3>2
      <4>2. CASE j = h
        <5>1. data'[BufAt(i)'] \in got + 1 .. sent
          BY <1>11, <1>14, <2>1, <3>2, <4>1 DEF AllKept
        <5>. QED  BY <1>14, <2>1, <4>2, <5>1
      <4>3. CASE j # h
        <5>1. j \in 0 .. h - 1
          BY <1>15, <4>3
        <5>. QED  BY <1>11, <1>14, <2>1, <3>2, <4>1, <5>1 DEF AllKept
      <4>. QED  BY <4>2, <4>3
    <3>3. ASSUME NEW m \in got' + 1 .. sent'
          PROVE  \E j \in 0 .. (h + 1) - 1 : Carries(r, j)' /\ data'[BufAt(j)'] = m
      <4>1. CASE m = sent + 1
        BY <1>2, <1>13, <1>15, <1>17, <2>1, <4>1
      <4>2. CASE m # sent + 1
        <5>1. m \in got + 1 .. sent
          BY <1>0, <1>14, <2>1, <4>2
        <5>2. PICK j \in 0 .. h - 1 : Carries(r, j) /\ data[BufAt(j)] = m
          BY <1>14, <5>1 DEF AllKept
        <5>. QED  BY <1>11, <1>15, <2>1, <5>2
      <4>. QED  BY <4>1, <4>2
    <3>. QED  BY <3>1, <3>2, <3>3 DEF AllKept
  <2>. QED  BY <1>0, <1>14, <2>1, <2>2
<1>18. ASSUME cc # "success"
       PROVE  AllKept(h + 1, r)' /\ got' <= sent'
  <2>1. UNCHANGED <<sent, data>> /\ ~Carries(r, h)'
    BY <1>3, <1>12, <1>18
  <2>2. AllKept(h + 1, r)'
    <3>1. \A j \in 0 .. (h + 1) - 1 : Carries(r, j)' => j \in 0 .. h - 1 /\ Carries(r, j)
      BY <1>11, <1>15, <2>1
    <3>. QED  BY <1>0, <1>5, <1>11, <1>14, <1>15, <2>1, <3>1 DEF AllKept
  <2>. QED  BY <1>0, <1>14, <2>1, <2>2
<1>19. AllKept(h + 1, r)' /\ got' <= sent'
  BY <1>17, <1>18
<1>20. WorksAt(h + 1, r)'
  <2>1. hc_deq' = Pos(h + 1)
    <3>1. h \in Held
      BY <1>2 DEF Held
    <3>. QED  BY <1>0, <1>2, <3>1, RingFacts
  <2>2. r \in 0 .. h + 1 /\ h + 1 \in Held'
    BY <1>2, <1>5
  <2>3. intrq'.ready = IF r = 0 THEN None ELSE Pos(r - 1)'
    BY <1>0, <1>1, <1>5 DEF WorksAt
  <2>. QED  BY <1>5, <1>10, <1>19, <2>1, <2>2, <2>3 DEF WorksAt
<1>. QED  BY <1>20 DEF QueueWorks

\* An entry of which only the length changes keeps the ring as it is.
LEMMA RingNoted ==
  ASSUME DriverTypeOK, AnyEvent, RingHolds, Noted, UNCHANGED tr_cur
  PROVE  /\ RingHolds'
         /\ intrq'.next = intrq.next /\ intrq'.count = intrq.count /\ intrq'.ready = Event.at
         /\ \A j : Pos(j)' = Pos(j)
         /\ \A j \in Held : /\ BufAt(j)' = BufAt(j)
                            /\ Pos(j) # Event.at => trb'[Pos(j)] = trb[Pos(j)]
                            /\ Pos(j) = Event.at =>
                                 trb'[Pos(j)].len = IF Event.cc = "success" THEN 1 ELSE 0
<1>1. Event.at \in Slots
  <2>1. 1 \in Waiters(Intr) /\ Event = queue[1]
    BY InFront DEF DriverTypeOK, Noted
  <2>. QED  BY <2>1 DEF DriverTypeOK
<1>2. /\ intrq \in IntrQueues /\ intrq' \in IntrQueues
      /\ intrq'.next = intrq.next /\ intrq'.count = intrq.count /\ intrq'.ready = Event.at
  BY <1>1 DEF RingHolds, Noted, IntrQueues
<1>3. \A j : Pos(j)' = Pos(j)
  BY <1>2 DEF Pos
<1>4. Held' = Held
  BY <1>2 DEF Held
<1>5. ASSUME NEW j \in Held
      PROVE  /\ trb'[Pos(j)] \in [buf : 1 .. intrq.count, len : {0, 1}]
             /\ trb'[Pos(j)].buf = trb[Pos(j)].buf
             /\ Pos(j) # Event.at => trb'[Pos(j)] = trb[Pos(j)]
             /\ Pos(j) = Event.at => trb'[Pos(j)].len = IF Event.cc = "success" THEN 1 ELSE 0
  <2>1. Pos(j) \in Slots /\ DOMAIN trb = Slots /\ trb[Pos(j)] \in [buf : 1 .. intrq.count, len : {0, 1}]
    BY RingFacts DEF RingHolds, Held, DriverTypeOK
  <2>2. trb' = [trb EXCEPT ![Event.at] = [trb[Event.at] EXCEPT !.len = IF Event.cc = "success" THEN 1 ELSE 0]]
    BY DEF Noted
  <2>3. CASE Pos(j) # Event.at
    BY <2>1, <2>2, <2>3
  <2>4. CASE Pos(j) = Event.at
    <3>1. trb'[Pos(j)] = [trb[Pos(j)] EXCEPT !.len = IF Event.cc = "success" THEN 1 ELSE 0]
      BY <2>1, <2>2, <2>4
    <3>. QED  BY <2>1, <2>4, <3>1
  <2>. QED  BY <2>3, <2>4
<1>6. \A j \in Held : BufAt(j)' = BufAt(j)
  BY <1>3, <1>5 DEF BufAt
<1>7. RingHolds'
  <2>1. tr_cur' = Pos(intrq.count - 1)'
    BY <1>2 DEF RingHolds, Pos
  <2>. QED  BY <1>2, <1>3, <1>4, <1>5, <1>6, <2>1 DEF RingHolds
<1>. QED  BY <1>2, <1>3, <1>5, <1>6, <1>7

\* The first report on its way is noted.
LEMMA ReportNoted ==
  ASSUME DriverTypeOK, AnyEvent, RingHolds, QueueWorks, Noted,
         queue' = Tail(queue), taken' \in {taken + 1, 0},
         UNCHANGED <<tr_cur, got, sent, hc_deq, data, ep_state>>
  PROVE  QueueWorks'
<1>1. PICK h, r : WorksAt(h, r)
  BY DEF QueueWorks
<1>2. /\ h \in Nat /\ r \in 0 .. h /\ h < intrq.count /\ intrq.count \in Nat /\ r \in Nat
      /\ 0 .. h \subseteq 0 .. intrq.count /\ \A j \in 0 .. h : j \in Held
  BY <1>1, RingFacts DEF WorksAt, Held
<1>3. /\ 1 \in Waiters(Intr) /\ Event = queue[1] /\ Waiters(Intr) \subseteq Nat \ {0}
      /\ Waiters(Intr)' = {i - 1 : i \in Waiters(Intr) \ {1}}
      /\ \A w \in Waiters(Intr) \ {1} : queue'[w - 1] = queue[w] /\ 1 < w
  <2>1. 1 \in Waiters(Intr) /\ Event = queue[1]
    BY InFront DEF DriverTypeOK, Noted
  <2>2. /\ Waiters(Intr)' = {i - 1 : i \in Waiters(Intr) \ {1}}
        /\ \A i \in 2 .. Len(queue) : queue'[i - 1] = queue[i]
    BY TakenOff DEF AnyEvent, DriverTypeOK
  <2>3. Waiters(Intr) \subseteq 1 .. Len(queue) /\ Len(queue) \in Nat
    BY IndexesAre DEF DriverTypeOK
  <2>. QED  BY <2>1, <2>2, <2>3
<1>4. /\ intrq'.next = intrq.next /\ intrq'.count = intrq.count /\ intrq'.ready = Event.at
      /\ \A j : Pos(j)' = Pos(j)
      /\ \A j \in 0 .. h : /\ BufAt(j)' = BufAt(j)
                           /\ Pos(j) # Event.at => trb'[Pos(j)] = trb[Pos(j)]
                           /\ Pos(j) = Event.at => trb'[Pos(j)].len = IF Event.cc = "success" THEN 1 ELSE 0
  BY <1>2, RingNoted
<1>5. InFlight(h, r)
  BY <1>1 DEF WorksAt
<1>6. \A i, j \in 0 .. h : Pos(i) = Pos(j) => i = j
  BY <1>2, RingFacts
<1>7. r < h /\ Reported(1, r)
  <2>1. PICK j \in r .. h - 1 : Reported(1, j)
    BY <1>3, <1>5 DEF InFlight
  <2>2. r < h /\ r \in r .. h - 1
    BY <1>2, <2>1
  <2>3. PICK w \in Waiters(Intr) : Reported(w, r)
    BY <1>5, <2>2 DEF InFlight
  <2>4. w = 1
    <3>. SUFFICES ASSUME w # 1 PROVE FALSE
      OBVIOUS
    <3>1. 1 < w
      BY <1>3
    <3>2. j < r
      BY <1>3, <1>5, <2>1, <2>2, <2>3, <3>1 DEF InFlight
    <3>. QED  BY <1>2, <2>1, <3>2
  <2>. QED  BY <2>2, <2>3, <2>4
<1>8. Event.at = Pos(r) /\ r \in 0 .. h /\ r + 1 \in 0 .. h
  BY <1>2, <1>3, <1>7 DEF Reported
<1>9. \A w \in Waiters(Intr) \ {1} : \A j : Reported(w - 1, j)' <=> Reported(w, j)
  BY <1>3, <1>4 DEF Reported
<1>10. r + 1 .. h - 1 \subseteq r .. h - 1 /\ r \in r .. h - 1 /\ r \notin r + 1 .. h - 1
       /\ \A j \in r .. h - 1 : r < j => j \in r + 1 .. h - 1
       /\ r .. h - 1 \subseteq 0 .. h
  BY <1>2, <1>7
<1>11. \A j \in 0 .. h : Reported(1, j) => j = r
  BY <1>6, <1>7, <1>8 DEF Reported
<1>12. InFlight(h, r + 1)'
  <2>1. ASSUME NEW w \in Waiters(Intr) \ {1}
        PROVE  \E j \in r + 1 .. h - 1 : Reported(w - 1, j)'
    <3>1. PICK j \in r .. h - 1 : Reported(w, j)
      BY <1>5 DEF InFlight
    <3>2. 1 < w
      BY <1>3
    <3>3. r < j
      BY <1>3, <1>5, <1>7, <1>10, <3>1, <3>2 DEF InFlight
    <3>. QED  BY <1>9, <1>10, <3>1, <3>3
  <2>2. ASSUME NEW j \in r + 1 .. h - 1
        PROVE  \E w \in Waiters(Intr) \ {1} : Reported(w - 1, j)'
    <3>1. PICK w \in Waiters(Intr) : Reported(w, j)
      BY <1>5, <1>10 DEF InFlight
    <3>2. w # 1
      BY <1>10, <1>11, <3>1
    <3>. QED  BY <1>9, <3>1, <3>2
  <2>3. ASSUME NEW v \in Waiters(Intr) \ {1}, NEW w \in Waiters(Intr) \ {1},
               NEW i \in r + 1 .. h - 1, NEW j \in r + 1 .. h - 1,
               v - 1 < w - 1, Reported(v - 1, i)', Reported(w - 1, j)'
        PROVE  i < j
    <3>0. v \in Nat /\ w \in Nat
      BY <1>3
    <3>1. v < w
      BY ONLY <3>0, <2>3
    <3>. QED  BY ZenonT(60), <1>5, <1>9, <1>10, <2>3, <3>1 DEF InFlight
  <2>. QED  BY <1>3, <2>1, <2>2, <2>3 DEF InFlight
<1>13. ASSUME NEW j \in 0 .. h - 1
       PROVE  Carries(r + 1, j)' <=> Carries(r, j)
  <2>0. j \in 0 .. h /\ r \in Nat /\ j \in Nat
    BY <1>2
  <2>1. CASE j < r
    <3>1. Pos(j) # Event.at
      BY <1>6, <1>8, <2>0, <2>1
    <3>2. trb'[Pos(j)'] = trb[Pos(j)]
      BY <1>4, <2>0, <3>1
    <3>3. j < r + 1 /\ ~(r <= j) /\ ~(r + 1 <= j)
      BY <2>0, <2>1
    <3>. QED  BY <2>1, <3>2, <3>3 DEF Carries
  <2>2. CASE j = r
    <3>1. trb'[Pos(r)'].len = IF Event.cc = "success" THEN 1 ELSE 0
      BY <1>4, <1>8
    <3>2. \A w \in Waiters(Intr) : Reported(w, r) => w = 1
      <4>. SUFFICES ASSUME NEW w \in Waiters(Intr), Reported(w, r), w # 1 PROVE FALSE
        OBVIOUS
      <4>1. 1 < w
        BY <1>3
      <4>2. r < r
        BY <1>3, <1>5, <1>7, <1>10, <4>1 DEF InFlight
      <4>. QED  BY <1>2, <4>2
    <3>3. r < r + 1 /\ ~(r < r) /\ r <= r /\ ~(r + 1 <= r)
      BY <2>0
    <3>4. Carries(r, r) <=> Event.cc = "success"
      BY <1>3, <1>7, <3>2, <3>3 DEF Carries
    <3>5. Carries(r + 1, r)' <=> Event.cc = "success"
      BY <3>1, <3>3 DEF Carries
    <3>. QED  BY <2>2, <3>4, <3>5
  <2>3. CASE j > r
    <3>1. r + 1 <= j /\ r <= j /\ ~(j < r) /\ ~(j < r + 1) /\ j # r
      BY <2>0, <2>3
    <3>2. \A w \in Waiters(Intr) : Reported(w, j) => w # 1
      BY <1>11, <2>0, <3>1
    <3>3. Carries(r + 1, j)' <=> \E w \in Waiters(Intr)' : Reported(w, j)' /\ queue'[w].cc = "success"
      BY <3>1 DEF Carries
    <3>4. Carries(r, j) <=> \E w \in Waiters(Intr) \ {1} : Reported(w, j) /\ queue[w].cc = "success"
      BY <3>1, <3>2 DEF Carries
    <3>. QED  BY <1>3, <1>9, <3>3, <3>4
  <2>. QED  BY <2>0, <2>1, <2>2, <2>3
<1>14. AllKept(h, r + 1)'
  <2>1. AllKept(h, r)
    BY <1>1 DEF WorksAt
  <2>2. \A j \in 0 .. h - 1 : j \in 0 .. h
    BY <1>2
  <2>3. \A j \in 0 .. h - 1 : data'[BufAt(j)'] = data[BufAt(j)]
    BY <1>4, <2>2
  <2>. QED  BY <1>13, <2>1, <2>3 DEF AllKept
<1>15. WorksAt(h, r + 1)'
  <2>1. h \in Held' /\ (r + 1 = 0 <=> FALSE) /\ (r + 1) - 1 = r
    BY <1>2, <1>4 DEF Held
  <2>2. intrq'.ready = Pos((r + 1) - 1)'
    BY <1>4, <1>8, <2>1
  <2>3. (ep_state[Intr] # "halted")' => hc_deq' = Pos(h)'
    BY <1>1, <1>4 DEF WorksAt
  <2>4. got' <= sent'
    BY <1>1 DEF WorksAt
  <2>. QED  BY <1>8, <1>12, <1>14, <2>1, <2>2, <2>3, <2>4 DEF WorksAt
<1>. QED  BY <1>15 DEF QueueWorks

\* The first entry that is ready is taken and the spare one goes to the controller.
LEMMA ReportTaken ==
  ASSUME DriverTypeOK, RingHolds, QueueWorks, TakeReport
  PROVE  /\ RingHolds' /\ QueueWorks'
         /\ handed' # handed => handed' = trb'[tr_cur'].buf /\ data'[handed'] = got' /\ usb_pc' = "idle"
<1>. PICK c : c = intrq.count
  OBVIOUS
<1>0. /\ RestOK /\ intrq \in IntrQueues /\ c \in Nat /\ 1 <= c
      /\ UNCHANGED <<queue, data, sent, hc_deq>>
      /\ intrq.ready # None
      /\ \A j \in 0 .. c - 1 : j \in Held /\ j + 1 \in 0 .. c /\ j \in 0 .. c
  BY TypeParts, RingFacts DEF TakeReport, RingHolds, eventVars, Held
<1>1. PICK h, r : WorksAt(h, r)
  BY DEF QueueWorks
<1>2. /\ h \in 0 .. c - 1 /\ r \in 1 .. h /\ h \in Nat /\ r \in Nat
      /\ h - 1 \in 0 .. c - 1 /\ r - 1 \in 0 .. h - 1
  <2>1. h \in 0 .. c - 1 /\ r \in 0 .. h /\ r # 0
    BY <1>0, <1>1 DEF WorksAt, Held
  <2>. QED  BY <1>0, <2>1
<1>3. /\ \A i, j \in 0 .. c : Pos(i) = Pos(j) => i = j
      /\ \A j \in 0 .. c : Pos(j) \in Slots
      /\ \A j \in 0 .. c - 1 : NextTrb(Pos(j)) = Pos(j + 1) /\ EntryAt(NextTrb(intrq.next), j) = Pos(j + 1)
      /\ Pos(0) = intrq.next /\ NextTrb(intrq.next) \in Slots
  BY RingFacts DEF Held
<1>4. tr_cur' = Pos(c) /\ Pos(c) # Pos(0) /\ tr_cur = Pos(c - 1)
  <2>1. tr_cur = Pos(c - 1) /\ tr_cur' = NextTrb(tr_cur)
    BY DEF TakeReport, RingHolds
  <2>2. c - 1 \in 0 .. c - 1 /\ (c - 1) + 1 = c /\ c \in 0 .. c /\ 0 \in 0 .. c /\ c # 0
    BY <1>0
  <2>. QED  BY <1>3, <2>1, <2>2
<1>5. /\ intrq' \in IntrQueues /\ intrq'.next = NextTrb(intrq.next) /\ intrq'.count = c
      /\ intrq'.ready = IF intrq.ready = intrq.next THEN None ELSE intrq.ready
  BY <1>0, <1>3 DEF TakeReport, IntrQueues
<1>6. /\ Held' = Held /\ Held = 0 .. c - 1
      /\ \A j \in 0 .. c - 1 : Pos(j)' = Pos(j + 1)
  BY <1>3, <1>5 DEF Pos, Held
<1>7. /\ trb'[Pos(c)] = [buf |-> BufAt(0), len |-> 1]
      /\ \A j \in 1 .. c - 1 : trb'[Pos(j)] = trb[Pos(j)]
  <2>1. trb' =
          [i \in Slots |->
             IF i = intrq.next /\ i # NextTrb(tr_cur) THEN None
             ELSE [trb EXCEPT ![NextTrb(tr_cur)] = [buf |-> trb[intrq.next].buf, len |-> 1]][i]]
    BY DEF TakeReport
  <2>2. NextTrb(tr_cur) = Pos(c) /\ Pos(c) \in Slots /\ DOMAIN trb = Slots
    BY <1>0, <1>3, <1>4 DEF TakeReport, RestOK
  <2>3. trb'[Pos(c)] = [buf |-> BufAt(0), len |-> 1]
    BY <1>3, <2>1, <2>2 DEF BufAt
  <2>4. ASSUME NEW j \in 1 .. c - 1
        PROVE  trb'[Pos(j)] = trb[Pos(j)]
    <3>1. j \in 0 .. c /\ 0 \in 0 .. c /\ c \in 0 .. c /\ j # 0 /\ j # c
      BY <1>0
    <3>2. Pos(j) \in Slots /\ Pos(j) # intrq.next /\ Pos(j) # Pos(c)
      BY <1>3, <3>1
    <3>. QED  BY <2>1, <2>2, <3>2
  <2>. QED  BY <2>3, <2>4
<1>8. /\ \A j \in 0 .. c - 2 : BufAt(j)' = BufAt(j + 1) /\ trb'[Pos(j)'] = trb[Pos(j + 1)]
      /\ BufAt(c - 1)' = BufAt(0) /\ trb'[Pos(c - 1)'] = [buf |-> BufAt(0), len |-> 1]
  <2>1. ASSUME NEW j \in 0 .. c - 2
        PROVE  BufAt(j)' = BufAt(j + 1) /\ trb'[Pos(j)'] = trb[Pos(j + 1)]
    <3>1. j \in 0 .. c - 1 /\ j + 1 \in 1 .. c - 1
      BY <1>0
    <3>. QED  BY <1>6, <1>7, <3>1 DEF BufAt
  <2>2. c - 1 \in 0 .. c - 1 /\ (c - 1) + 1 = c
    BY <1>0
  <2>. QED  BY <1>6, <1>7, <2>1, <2>2 DEF BufAt
<1>9. /\ \A j \in 0 .. c - 1 : trb[Pos(j)] \in [buf : 1 .. c, len : {0, 1}] /\ BufAt(j) \in 1 .. c
      /\ \A i, j \in 0 .. c - 1 : BufAt(i) = BufAt(j) => i = j
      /\ \A b \in 1 .. c : \E j \in 0 .. c - 1 : BufAt(j) = b
  BY DEF RingHolds, Held, BufAt
<1>10. /\ 0 \in 0 .. c - 1 /\ c - 1 \in 0 .. c - 1
       /\ \A j \in 0 .. c - 1 : j = c - 1 \/ (j \in 0 .. c - 2 /\ j + 1 \in 0 .. c - 1 /\ j + 1 # 0)
       /\ \A j \in 0 .. c - 1 : j = 0 \/ (j - 1 \in 0 .. c - 2 /\ (j - 1) + 1 = j)
       /\ \A j \in 0 .. c - 2 : j \in 0 .. c - 1
  BY <1>0
<1>11. RingHolds'
  <2>1. ASSUME NEW j \in Held'
        PROVE  trb'[Pos(j)'] \in [buf : 1 .. c, len : {0, 1}]
    <3>1. CASE j = c - 1
      BY <1>8, <1>9, <1>10, <3>1
    <3>2. CASE j # c - 1
      <4>1. j \in 0 .. c - 2 /\ j + 1 \in 0 .. c - 1
        BY <1>6, <1>10, <3>2
      <4>. QED  BY <1>8, <1>9, <4>1
    <3>. QED  BY <3>1, <3>2
  <2>2. ASSUME NEW i \in Held', NEW j \in Held', BufAt(i)' = BufAt(j)'
        PROVE  i = j
    <3>1. i \in 0 .. c - 1 /\ j \in 0 .. c - 1
      BY <1>6
    <3>2. CASE i = c - 1
      <4>1. j = c - 1
        BY <1>8, <1>9, <1>10, <2>2, <3>1, <3>2
      <4>. QED  BY <3>2, <4>1
    <3>3. CASE i # c - 1
      <4>1. i \in 0 .. c - 2 /\ i + 1 \in 0 .. c - 1 /\ i + 1 # 0
        BY <1>10, <3>1, <3>3
      <4>2. j # c - 1
        BY <1>8, <1>9, <1>10, <2>2, <4>1
      <4>3. j \in 0 .. c - 2 /\ j + 1 \in 0 .. c - 1
        BY <1>10, <3>1, <4>2
      <4>4. i + 1 = j + 1
        BY <1>8, <1>9, <2>2, <4>1, <4>3
      <4>. QED  BY <3>1, <4>4
    <3>. QED  BY <3>2, <3>3
  <2>3. ASSUME NEW b \in 1 .. c
        PROVE  \E j \in Held' : BufAt(j)' = b
    <3>1. PICK j \in 0 .. c - 1 : BufAt(j) = b
      BY <1>9
    <3>2. CASE j = 0
      BY <1>6, <1>8, <1>10, <3>1, <3>2
    <3>3. CASE j # 0
      BY <1>6, <1>8, <1>10, <3>1, <3>3
    <3>. QED  BY <3>2, <3>3
  <2>4. tr_cur' = Pos(intrq.count - 1)' /\ intrq'.count <= TransferRingSize - 2
    <3>1. Pos(intrq.count - 1)' = EntryAt(NextTrb(intrq.next), c - 1)
      BY <1>5 DEF Pos
    <3>2. EntryAt(NextTrb(intrq.next), c - 1) = Pos(c)
      <4>1. c - 1 \in 0 .. c - 1 /\ (c - 1) + 1 = c
        BY <1>0
      <4>. QED  BY <1>3, <4>1
    <3>. QED  BY <1>4, <1>5, <3>1, <3>2 DEF RingHolds
  <2>. QED  BY <1>5, <2>1, <2>2, <2>3, <2>4 DEF RingHolds
<1>12. Waiters(Intr)' = Waiters(Intr)
  BY <1>0 DEF Waiters
<1>13. \A w, j : j \in 0 .. c - 1 => (Reported(w, j)' <=> Reported(w, j + 1))
  BY <1>0, <1>6 DEF Reported
<1>14. /\ \A j \in r - 1 .. (h - 1) - 1 : j \in 0 .. c - 1 /\ j + 1 \in r .. h - 1
       /\ \A j \in r .. h - 1 : j - 1 \in r - 1 .. (h - 1) - 1 /\ (j - 1) + 1 = j
       /\ \A j \in 0 .. (h - 1) - 1 :
            j \in 0 .. c - 2 /\ j \in 0 .. c - 1 /\ j + 1 \in 0 .. h - 1 /\ j + 1 # 0
       /\ \A j \in 0 .. h - 1 : j = 0 \/ (j - 1 \in 0 .. (h - 1) - 1 /\ (j - 1) + 1 = j)
       /\ 0 \in 0 .. h - 1 /\ 0 < r /\ ~(r <= 0)
  BY <1>0, <1>2
<1>15. InFlight(h - 1, r - 1)'
  <2>0. InFlight(h, r)
    BY <1>1 DEF WorksAt
  <2>1. ASSUME NEW w \in Waiters(Intr)
        PROVE  \E j \in r - 1 .. (h - 1) - 1 : Reported(w, j)'
    <3>1. PICK j \in r .. h - 1 : Reported(w, j)
      BY <2>0 DEF InFlight
    <3>2. j - 1 \in r - 1 .. (h - 1) - 1 /\ j - 1 \in 0 .. c - 1 /\ (j - 1) + 1 = j
      BY <1>14
    <3>. QED  BY <1>13, <3>1, <3>2
  <2>2. \A j \in r - 1 .. (h - 1) - 1 : \E w \in Waiters(Intr) : Reported(w, j)'
    BY <1>13, <1>14, <2>0 DEF InFlight
  <2>3. ASSUME NEW v \in Waiters(Intr), NEW w \in Waiters(Intr),
               NEW i \in r - 1 .. (h - 1) - 1, NEW j \in r - 1 .. (h - 1) - 1,
               v < w, Reported(v, i)', Reported(w, j)'
        PROVE  i < j
    <3>0. v < w
      BY ONLY <2>3
    <3>1. i + 1 \in r .. h - 1 /\ j + 1 \in r .. h - 1 /\ Reported(v, i + 1) /\ Reported(w, j + 1)
      BY <1>13, <1>14, <2>3
    <3>2. i + 1 < j + 1
      BY <2>0, <3>0, <3>1 DEF InFlight
    <3>. QED  BY <1>14, <3>2
  <2>. QED  BY <1>12, <2>1, <2>2, <2>3 DEF InFlight
<1>16. ASSUME NEW j \in 0 .. (h - 1) - 1
       PROVE  Carries(r - 1, j)' <=> Carries(r, j + 1)
  <2>1. /\ j \in 0 .. c - 2 /\ j \in 0 .. c - 1 /\ (j < r - 1 <=> j + 1 < r) /\ (r - 1 <= j <=> r <= j + 1)
    BY <1>2, <1>14
  <2>2. trb'[Pos(j)'] = trb[Pos(j + 1)] /\ \A w : Reported(w, j)' <=> Reported(w, j + 1)
    BY <1>8, <1>13, <2>1
  <2>. QED  BY <1>0, <1>12, <2>1, <2>2 DEF Carries
<1>17. /\ AllKept(h, r) /\ got \in Nat /\ sent \in Nat /\ got <= sent
  BY <1>0, <1>1 DEF WorksAt, RestOK
<1>18. \A j \in 0 .. (h - 1) - 1 : data'[BufAt(j)'] = data[BufAt(j + 1)]
  BY <1>0, <1>8, <1>14
<1>19. Carries(r, 0) <=> trb[intrq.next].len # 0
  <2>1. trb[Pos(0)].len \in {0, 1}
    BY <1>9, <1>10
  <2>. QED  BY <1>3, <1>14, <2>1 DEF Carries
<1>20. ~(trb[intrq.next].len = 0) => handed' = BufAt(0) /\ got' = got + 1 /\ usb_pc' = "idle"
  <2>1. [trb EXCEPT ![NextTrb(tr_cur)] = [buf |-> trb[intrq.next].buf, len |-> 1]][intrq.next]
          = trb[intrq.next]
    BY <1>0, <1>3, <1>4 DEF TakeReport, RestOK, RingHolds, IntrQueues
  <2>. QED  BY <1>3, <2>1 DEF TakeReport, Returns, Goes, BufAt
<1>21. trb[intrq.next].len = 0 => handed' = handed /\ got' = got
  <2>1. [trb EXCEPT ![NextTrb(tr_cur)] = [buf |-> trb[intrq.next].buf, len |-> 1]][intrq.next]
          = trb[intrq.next]
    BY <1>0, <1>3, <1>4 DEF TakeReport, RestOK, RingHolds, IntrQueues
  <2>. QED  BY <2>1 DEF TakeReport
<1>22. Carries(r, 0) => data[BufAt(0)] = got + 1 /\ got + 1 <= sent
  <2>. SUFFICES ASSUME Carries(r, 0) PROVE data[BufAt(0)] = got + 1 /\ got + 1 <= sent
    OBVIOUS
  <2>1. data[BufAt(0)] \in got + 1 .. sent
    BY <1>14, <1>17 DEF AllKept
  <2>2. got + 1 \in got + 1 .. sent
    BY <1>17, <2>1
  <2>3. PICK j \in 0 .. h - 1 : Carries(r, j) /\ data[BufAt(j)] = got + 1
    BY <1>17, <2>2 DEF AllKept
  <2>4. j = 0
    <3>. SUFFICES ASSUME 0 < j PROVE FALSE
      BY <1>2
    <3>1. data[BufAt(0)] < got + 1
      BY <1>14, <1>17, <2>3 DEF AllKept
    <3>. QED  BY <1>17, <2>1, <3>1
  <2>. QED  BY <1>17, <2>1, <2>3, <2>4
<1>23. AllKept(h - 1, r - 1)' /\ got' <= sent'
  <2>1. ASSUME NEW j \in 0 .. (h - 1) - 1, Carries(r - 1, j)'
        PROVE  data'[BufAt(j)'] \in got' + 1 .. sent'
    <3>1. j + 1 \in 0 .. h - 1 /\ 0 \in 0 .. h - 1 /\ 0 < j + 1 /\ Carries(r, j + 1)
      BY <1>14, <1>16, <2>1
    <3>2. data[BufAt(j + 1)] \in got + 1 .. sent
      BY <1>17, <3>1 DEF AllKept
    <3>3. CASE Carries(r, 0)
      <4>1. data[BufAt(0)] < data[BufAt(j + 1)]
        BY <1>17, <3>1, <3>3 DEF AllKept
      <4>. QED  BY <1>0, <1>17, <1>18, <1>19, <1>20, <1>22, <3>2, <3>3, <4>1
    <3>4. CASE ~Carries(r, 0)
      BY <1>0, <1>17, <1>18, <1>19, <1>21, <3>2, <3>4
    <3>. QED  BY <3>3, <3>4
  <2>2. ASSUME NEW i \in 0 .. (h - 1) - 1, NEW j \in 0 .. (h - 1) - 1,
               i < j, Carries(r - 1, i)', Carries(r - 1, j)'
        PROVE  data'[BufAt(i)'] < data'[BufAt(j)']
    <3>1. /\ i + 1 \in 0 .. h - 1 /\ j + 1 \in 0 .. h - 1 /\ i + 1 < j + 1
          /\ Carries(r, i + 1) /\ Carries(r, j + 1)
      BY <1>14, <1>16, <2>2
    <3>2. data[BufAt(i + 1)] < data[BufAt(j + 1)]
      BY <1>17, <3>1 DEF AllKept
    <3>. QED  BY <1>18, <3>2
  <2>3. ASSUME NEW m \in got' + 1 .. sent'
        PROVE  \E j \in 0 .. (h - 1) - 1 : Carries(r - 1, j)' /\ data'[BufAt(j)'] = m
    <3>1. m \in got + 1 .. sent /\ (Carries(r, 0) => m # data[BufAt(0)])
      <4>1. CASE Carries(r, 0)
        BY <1>0, <1>17, <1>19, <1>20, <1>22, <4>1
      <4>2. CASE ~Carries(r, 0)
        BY <1>0, <1>17, <1>19, <1>21, <4>2
      <4>. QED  BY <4>1, <4>2
    <3>2. PICK j \in 0 .. h - 1 : Carries(r, j) /\ data[BufAt(j)] = m
      BY <1>17, <3>1 DEF AllKept
    <3>3. j # 0
      BY <3>1, <3>2
    <3>4. j - 1 \in 0 .. (h - 1) - 1 /\ (j - 1) + 1 = j
      BY <1>14, <3>3
    <3>. QED  BY <1>16, <1>18, <3>2, <3>4
  <2>4. got' <= sent'
    <3>1. CASE Carries(r, 0)
      BY <1>0, <1>19, <1>20, <1>22, <3>1
    <3>2. CASE ~Carries(r, 0)
      BY <1>0, <1>17, <1>19, <1>21, <3>2
    <3>. QED  BY <3>1, <3>2
  <2>. QED  BY <2>1, <2>2, <2>3, <2>4 DEF AllKept
<1>24. WorksAt(h - 1, r - 1)'
  <2>1. (ep_state[Intr] # "halted")' => hc_deq' = Pos(h - 1)'
    <3>1. ep_state'[Intr] # "halted" => ep_state[Intr] # "halted"
      BY <1>0, Numbers DEF TakeReport, Doorbell, RestOK
    <3>2. Pos(h - 1)' = Pos((h - 1) + 1) /\ (h - 1) + 1 = h
      BY <1>2, <1>6
    <3>. QED  BY <1>0, <1>1, <3>1, <3>2 DEF WorksAt
  <2>2. intrq'.ready = IF r - 1 = 0 THEN None ELSE Pos((r - 1) - 1)'
    <3>1. intrq.ready = Pos(r - 1)
      BY <1>1, <1>2 DEF WorksAt
    <3>2. CASE r = 1
      BY <1>3, <1>5, <3>1, <3>2
    <3>3. CASE r # 1
      <4>1. /\ (r - 1) - 1 \in 0 .. c - 1 /\ ((r - 1) - 1) + 1 = r - 1 /\ r - 1 \in 0 .. c /\ r - 1 # 0
            /\ 0 \in 0 .. c
        BY <1>0, <1>2, <3>3
      <4>2. Pos(r - 1) # intrq.next
        BY <1>3, <4>1
      <4>3. Pos((r - 1) - 1)' = Pos(r - 1)
        BY <1>6, <4>1
      <4>. QED  BY <1>5, <3>1, <4>1, <4>2, <4>3
    <3>. QED  BY <3>2, <3>3
  <2>3. h - 1 \in Held' /\ r - 1 \in 0 .. h - 1
    BY <1>2, <1>6
  <2>. QED  BY <1>15, <1>23, <2>1, <2>2, <2>3 DEF WorksAt
<1>25. handed' # handed => handed' = trb'[tr_cur'].buf /\ data'[handed'] = got' /\ usb_pc' = "idle"
  <2>1. BufAt(0) = trb'[tr_cur'].buf
    BY <1>4, <1>7
  <2>. QED  BY <1>0, <1>19, <1>20, <1>21, <1>22, <2>1
<1>. QED  BY <1>11, <1>24, <1>25 DEF QueueWorks

-----------------------------------------------------------------------------
\* The waiters of the interrupt endpoint, when nothing of theirs comes or goes.
LEMMA LooksElsewhere ==
  ASSUME QueueOK, Looks, NEW ep, queue' = queue \/ 1 \notin Waiters(ep)
  PROVE  \E d \in {0, 1} : WaitersKept(ep, d)
<1>1. CASE queue' = queue
  <2>1. Waiters(ep) \subseteq 1 .. Len(queue) /\ Len(queue) \in Nat
    BY IndexesAre
  <2>2. Waiters(ep)' = Waiters(ep) /\ \A i \in Waiters(ep) : i - 0 = i
    BY <1>1, <2>1 DEF Waiters
  <2>3. WaitersKept(ep, 0)
    BY <1>1, <2>2 DEF WaitersKept
  <2>. QED  BY <2>3
<1>2. CASE AnyEvent /\ queue' = Tail(queue) /\ taken' \in {taken + 1, 0} /\ 1 \notin Waiters(ep)
  <2>1. /\ Waiters(ep)' = {i - 1 : i \in Waiters(ep) \ {1}}
        /\ \A i \in 2 .. Len(queue) : queue'[i - 1] = queue[i]
    BY <1>2, TakenOff DEF AnyEvent
  <2>2. Waiters(ep) \subseteq 2 .. Len(queue)
    <3>1. Waiters(ep) \subseteq 1 .. Len(queue) /\ Len(queue) \in Nat
      BY IndexesAre
    <3>. QED  BY <1>2, <3>1
  <2>3. WaitersKept(ep, 1)
    BY <1>2, <2>1, <2>2 DEF WaitersKept
  <2>. QED  BY <2>3
<1>. QED  BY <1>1, <1>2 DEF Looks

\* Steps that have nothing to do with the queue or its endpoint.
LEMMA QueueLeft ==
  ASSUME DriverTypeOK, IntrInv, NEW d \in {0, 1}, WaitersKept(Intr, d),
         UNCHANGED <<intrq, trb, tr_cur, handed, got, sent, hc_deq, data>>,
         ep_state'[Intr] = ep_state[Intr],
         ~Doing("destroy"), ~Doing("destroy")', usb_pc' \notin {"polling", "taking"} \/ handed = None
  PROVE  IntrInv'
<1>1. intrq = None => NoQueue'
  BY DEF IntrInv, NoQueue, WaitersKept
<1>2. intrq # None => RingHolds'
  BY RingKept DEF IntrInv
<1>3. intrq # None => QueueWorks'
  BY QueueKept DEF IntrInv
<1>4. HandedOut'
  BY DEF IntrInv, HandedOut
<1>. QED  BY <1>1, <1>2, <1>3, <1>4 DEF IntrInv

LEMMA PostedIntr ==
  ASSUME DriverTypeOK, IntrInv, NEW e \in Items, Post(e), ~IsFor(e, Intr),
         UNCHANGED driverVars, UNCHANGED <<sent, hc_deq, data>>, ep_state'[Intr] = ep_state[Intr],
         Doing("destroy") => hc_cmd' = hc_cmd
  PROVE  IntrInv'
<1>0. /\ UNCHANGED <<usb_pc, call, cmd, intrq, trb, tr_cur, handed, got>>
      /\ Doing("destroy")' = Doing("destroy")
  BY DEF driverVars, cmdVars, queueVars, Doing
<1>1. WaitersKept(Intr, 0)
  BY PostedPipe DEF DriverTypeOK
<1>2. CASE ~Doing("destroy")
  <2>1. usb_pc \notin {"polling", "taking"} \/ handed = None
    BY DEF IntrInv, HandedOut
  <2>. QED  BY <1>0, <1>1, <1>2, <2>1, QueueLeft
<1>3. CASE Doing("destroy")
  <2>1. intrq = None => NoQueue'
    BY <1>0, <1>1, <1>3 DEF IntrInv, NoQueue, WaitersKept
  <2>2. intrq # None => RingHolds'
    BY <1>0, RingKept DEF IntrInv
  <2>3. intrq # None => EndingQueue'
    BY <1>0, <1>3 DEF IntrInv, EndingQueue
  <2>4. HandedOut'
    BY <1>0 DEF IntrInv, HandedOut
  <2>. QED  BY <1>0, <1>3, <2>1, <2>2, <2>3, <2>4 DEF IntrInv
<1>. QED  BY <1>2, <1>3

\* A command on the interrupt endpoint is part of the end of its queue.
LEMMA IntrCommand ==
  ASSUME DriverTypeOK, CallInv, CommandInv, IntrInv, hc_cmd # "none", Doing("destroy")
  PROVE  /\ usb_pc = "command" /\ cmd.ep = Intr /\ hc_cmd \in {"running", "forced"}
         /\ intrq = None => cmd.kind = "dequeue"
         /\ intrq # None => cmd.kind = "stop"
<1>1. usb_pc \in Commanding \cup {"dead"} /\ call.op = "destroy"
  BY DEF CommandInv, DriverTypeOK, XhciTypeOK, Commanding, Doing
<1>2. usb_pc = "command" /\ cmd.ep = Intr
  BY <1>1 DEF CallInv, Commanding
<1>3. hc_cmd \in {"running", "forced"}
  BY <1>2 DEF CommandInv
<1>. QED  BY <1>2, <1>3 DEF IntrInv, NoQueue, EndingQueue

LEMMA HcIntr ==
  ASSUME DriverTypeOK, CallInv, CommandInv, IntrInv, HcStep
  PROVE  IntrInv'
<1>0. /\ QueueOK /\ RestOK /\ UNCHANGED driverVars
      /\ UNCHANGED <<usb_pc, call, cmd, intrq, trb, tr_cur, handed, got>>
      /\ Doing("destroy")' = Doing("destroy") /\ Intr \in Endpoints
      /\ \A p \in Pipes : p \in Endpoints /\ p # Intr
  BY TypeParts, Numbers DEF HcStep, driverVars, cmdVars, queueVars, Doing
<1>1. HandedOut /\ (intrq # None => RingHolds')
  BY <1>0, RingKept DEF IntrInv
<1>2. CASE HcForcedStop
  <2>0. hc_cmd = "running" /\ hc_cmd' = "forced" /\ UNCHANGED <<ep_state, tds, hc_deq, data, sent>>
        /\ cmd.kind = "stop" /\ Runs(cmd.ep)
    BY <1>2 DEF HcForcedStop
  <2>1. CASE Doing("destroy")
    <3>1. /\ usb_pc = "command" /\ cmd.ep = Intr /\ intrq # None
      BY <2>0, <2>1, IntrCommand
    <3>2. EndingQueue'
      BY <1>0, <2>0, <2>1, <3>1 DEF IntrInv, EndingQueue
    <3>3. HandedOut'
      BY <1>0, <1>1, <2>0 DEF HandedOut
    <3>. QED  BY <1>0, <1>1, <2>1, <3>1, <3>2, <3>3 DEF IntrInv
  <2>2. CASE ~Doing("destroy")
    <3>1. usb_pc = "command" /\ call # None
      BY <1>0, <2>0 DEF CommandInv, CallInv, Commanding, RestOK
    <3>2. cmd.ep \in Pipes
      BY <2>0, <2>2, <3>1 DEF CallInv, Commanding, Doing
    <3>3. Head(tds[cmd.ep]) \in Nat /\ Post(TransferEvent(cmd.ep, "stopped", Head(tds[cmd.ep])))
      BY <1>0, <1>2, <3>2 DEF HcForcedStop, RestOK
    <3>. QED  BY <1>0, <2>0, <2>2, <3>2, <3>3, EventRecords, PostedIntr
  <2>. QED  BY <2>1, <2>2
<1>3. CASE HcCompletes
  <2>0. hc_cmd # "none" /\ UNCHANGED <<data, sent>>
    BY <1>3 DEF HcCompletes
  <2>1. CASE Doing("destroy")
    <3>1. /\ usb_pc = "command" /\ cmd.ep = Intr /\ hc_cmd' = "none"
          /\ intrq = None => cmd.kind = "dequeue"
          /\ intrq # None => cmd.kind = "stop"
      BY <1>3, <2>0, <2>1, IntrCommand DEF HcCompletes
    <3>2. /\ intrq = None => ep_state'[Intr] # "running" /\ (ep_state'[Intr] = "halted" \/ hc_deq' = 0)
          /\ intrq # None => ep_state'[Intr] # "running"
      BY <1>0, <1>3, <2>1, <3>1 DEF HcCompletes, Fits, Executes, RestOK, IntrInv, NoQueue
    <3>3. Waiters(Intr)' = Waiters(Intr)
      <4>1. cmd \in Commands
        BY <3>1 DEF CallInv, Commanding
      <4>2. PICK cc \in {"success", "context"} : Post(CommandEvent(cc, cmd.trb))
        BY <1>3 DEF HcCompletes
      <4>3. cmd.trb \in Nat /\ cc \in CommandCodes
        BY <4>1 DEF Commands, CommandCodes
      <4>. QED  BY <1>0, <4>2, <4>3, PostedAnswer
    <3>4. intrq = None => NoQueue'
      BY <1>0, <2>1, <3>1, <3>2, <3>3 DEF IntrInv, NoQueue
    <3>5. intrq # None => EndingQueue'
      BY <1>0, <2>1, <3>1, <3>2 DEF IntrInv, EndingQueue
    <3>6. HandedOut'
      BY <1>0, <1>1, <2>0 DEF HandedOut
    <3>. QED  BY <1>0, <1>1, <2>1, <3>4, <3>5, <3>6 DEF IntrInv
  <2>2. CASE ~Doing("destroy")
    <3>1. usb_pc \in Commanding \cup {"dead"} /\ call # None
      BY <1>0, <2>0 DEF CommandInv, CallInv, Commanding, RestOK
    <3>2. cmd \in Commands /\ cmd.ep # Intr
      BY <1>0, <2>2, <3>1, Numbers DEF CallInv, Commanding, Doing
    <3>3. ep_state'[Intr] = ep_state[Intr] /\ hc_deq' = hc_deq
      <4>1. CASE Executes(cmd.kind, cmd.ep)
        BY <1>0, <3>2, <4>1 DEF Executes, RestOK
      <4>2. CASE UNCHANGED <<ep_state, tds, hc_deq>>
        BY <4>2
      <4>. QED  BY <1>3, <4>1, <4>2 DEF HcCompletes
    <3>4. PICK cc \in CommandCodes : Post(CommandEvent(cc, cmd.trb))
      BY <1>3 DEF HcCompletes, CommandCodes
    <3>5. cmd.trb \in Nat
      BY <3>2 DEF Commands
    <3>. QED  BY <1>0, <2>0, <2>2, <3>3, <3>4, <3>5, EventRecords, PostedIntr
  <2>. QED  BY <2>1, <2>2
<1>4. CASE HcAborts
  <2>0. hc_cmd \in {"aborting", "stopping"} /\ UNCHANGED <<ep_state, hc_deq, data, sent>>
    BY <1>4 DEF HcAborts
  <2>1. ~Doing("destroy")
    BY <2>0, IntrCommand
  <2>2. hc_cmd # "none" /\ cmd.trb \in Nat
    <3>1. usb_pc \in Commanding \cup {"dead"}
      BY <1>0, <2>0 DEF CommandInv, Commanding, RestOK
    <3>2. cmd \in Commands
      BY <3>1 DEF CallInv, Commanding
    <3>. QED  BY <2>0, <3>2 DEF Commands
  <2>3. PICK cc \in CommandCodes, at \in Nat : Post(CommandEvent(cc, at))
    BY <1>0, <1>4, <2>2 DEF HcAborts, CommandCodes, RestOK
  <2>. QED  BY <1>0, <2>0, <2>1, <2>3, EventRecords, PostedIntr
<1>5. ASSUME NEW p \in Pipes, HcTransfer(p)
      PROVE  IntrInv'
  <2>1. Head(tds[p]) \in Nat /\ UNCHANGED <<hc_cmd, hc_deq, data, sent>>
    BY <1>0, <1>5 DEF HcTransfer, RestOK
  <2>2. ep_state'[Intr] = ep_state[Intr]
    <3>1. UNCHANGED ep_state \/ ep_state' = [ep_state EXCEPT ![p] = "halted"]
      BY <1>5 DEF HcTransfer
    <3>. QED  BY <1>0, <3>1 DEF RestOK
  <2>3. PICK cc \in {"success", "stall"} : Post(TransferEvent(p, cc, Head(tds[p])))
    BY <1>5 DEF HcTransfer
  <2>. QED  BY <1>0, <2>1, <2>2, <2>3, EventRecords, PostedIntr
<1>6. CASE HcReport
  <2>0. /\ ep_state[Intr] = "running" /\ hc_deq # tr_cur /\ hc_cmd' = hc_cmd
    BY <1>6 DEF HcReport, Runs
  <2>1. intrq # None
    BY <2>0 DEF IntrInv, NoQueue
  <2>2. CASE Doing("destroy")
    <3>1. usb_pc # "draining" /\ hc_cmd # "none"
      BY <2>0, <2>1, <2>2 DEF IntrInv, EndingQueue
    <3>2. EndingQueue'
      BY <1>0, <2>0, <2>1, <2>2, <3>1 DEF IntrInv, EndingQueue
    <3>3. HandedOut'
      BY <1>0, <2>1, <2>2 DEF IntrInv, EndingQueue, HandedOut
    <3>. QED  BY <1>0, <1>1, <2>1, <2>2, <3>2, <3>3 DEF IntrInv
  <2>3. CASE ~Doing("destroy")
    <3>1. QueueWorks'
      BY <1>0, <1>6, <2>1, <2>3, ReportPosted DEF IntrInv
    <3>2. HandedOut'
      <4>. SUFFICES ASSUME handed # None PROVE data'[handed] = data[handed]
        BY <1>0, <1>1 DEF HandedOut
      <4>1. PICK h, r : WorksAt(h, r)
        BY <2>1, <2>3 DEF IntrInv, QueueWorks
      <4>2. hc_deq = Pos(h) /\ h \in Held /\ intrq.count - 1 \in Held /\ h # intrq.count - 1
        BY <2>0, <2>1, <4>1, RingFacts DEF WorksAt, IntrInv, RingHolds, Held
      <4>3. trb[hc_deq].buf # handed
        BY <1>1, <2>1, <4>2 DEF HandedOut, IntrInv, RingHolds, BufAt
      <4>4. data' = data \/ data' = [data EXCEPT ![trb[hc_deq].buf] = sent + 1]
        BY <1>6 DEF HcReport
      <4>5. handed \in Bufs
        <5>1. handed \in 1 .. intrq.count /\ intrq.count <= TransferRingSize - 2
              /\ intrq.count \in Nat /\ TransferRingSize \in Nat
          BY <1>1, <2>1, <4>2, RingFacts DEF HandedOut, IntrInv, RingHolds
        <5>. QED  BY <5>1 DEF Bufs
      <4>. QED  BY <1>0, <4>3, <4>4, <4>5 DEF RestOK
    <3>. QED  BY <1>0, <1>1, <2>1, <2>3, <3>1, <3>2 DEF IntrInv
  <2>. QED  BY <2>2, <2>3
<1>7. CASE HcFull
  BY <1>0, <1>7, EventRecords, PostedIntr DEF HcFull, hcVars
<1>. QED  BY <1>2, <1>3, <1>4, <1>5, <1>6, <1>7 DEF HcStep, HcCommand

\* What follows a command: the end of the queue goes on, anything else leaves it alone.
LEMMA AfterCommandIntr ==
  ASSUME DriverTypeOK, CallInv, CommandInv, IntrInv, Looks, queue' = queue \/ 1 \notin Waiters(Intr),
         usb_pc \in {"command", "stopping"}, hc_cmd = "none",
         NEW cc, AfterCommand(cc), UNCHANGED <<hc_deq, data, sent>>
  PROVE  IntrInv'
<1>0. QueueOK /\ RestOK /\ Intr \in Endpoints /\ Intr \notin Pipes
  BY TypeParts, Numbers
<1>1. PICK d \in {0, 1} : WaitersKept(Intr, d)
  BY <1>0, LooksElsewhere
<1>2. call # None /\ usb_pc \in Commanding
  BY <1>0 DEF RestOK, Commanding
<1>3. CASE call.op # "destroy"
  <2>1. cmd.kind \in {"reset", "dequeue", "stop"} => cmd.ep \in Pipes /\ call.op = "transfer"
    BY <1>2, <1>3 DEF CallInv, Commanding, Doing
  <2>2. cmd.kind = "slot" => call.op = "slot"
    BY <1>2, <1>3 DEF CallInv, Commanding
  <2>3. /\ UNCHANGED <<intrq, trb, tr_cur, handed, got>>
        /\ call' \in {call, None} /\ usb_pc' \notin {"polling", "taking"}
    BY <1>3 DEF AfterCommand, queueVars, PostCommand, Enqueue, Returns, Goes
  <2>4. ep_state' = ep_state \/ (cmd.ep \in Pipes /\ Doorbell(cmd.ep))
    BY <1>3, <2>1 DEF AfterCommand, Enqueue
  <2>5. ep_state'[Intr] = ep_state[Intr]
    BY <1>0, <2>4 DEF Doorbell, RestOK
  <2>6. ~Doing("destroy") /\ ~Doing("destroy")'
    BY <1>3, <2>3 DEF Doing
  <2>. QED  BY <1>1, <2>3, <2>5, <2>6, QueueLeft
<1>4. CASE call.op = "destroy"
  <2>0. Doing("destroy") /\ usb_pc = "command" /\ cmd.kind \in {"dequeue", "stop"}
    BY <1>2, <1>4 DEF CallInv, Commanding, Doing
  <2>1. CASE cmd.kind = "stop"
    <3>1. /\ intrq # None /\ RingHolds /\ handed = None /\ ep_state[Intr] # "running"
      BY <2>0, <2>1 DEF IntrInv, NoQueue, EndingQueue
    <3>2. /\ UNCHANGED <<intrq, trb, tr_cur, handed, got, call, ep_state>> /\ usb_pc' = "draining"
      BY <1>4, <2>1 DEF AfterCommand, Goes, queueVars
    <3>3. RingHolds' /\ EndingQueue' /\ HandedOut' /\ Doing("destroy")'
      BY <2>0, <3>1, <3>2, RingKept DEF EndingQueue, HandedOut, Doing
    <3>. QED  BY <3>1, <3>2, <3>3 DEF IntrInv
  <2>2. CASE cmd.kind = "dequeue"
    <3>1. /\ intrq = None /\ handed = None /\ Waiters(Intr) = {}
          /\ ep_state[Intr] = "halted" \/ hc_deq = 0
      BY <2>0, <2>2 DEF IntrInv, NoQueue, EndingQueue
    <3>2. /\ UNCHANGED <<intrq, trb, handed, got, ep_state>> /\ tr_cur' = 0 /\ call' = None
      BY <1>4, <2>2 DEF AfterCommand, Returns
    <3>3. NoQueue' /\ HandedOut' /\ ~Doing("destroy")'
      BY <1>1, <3>1, <3>2 DEF NoQueue, HandedOut, Doing, WaitersKept
    <3>. QED  BY <3>1, <3>2, <3>3 DEF IntrInv
  <2>. QED  BY <2>0, <2>1, <2>2
<1>. QED  BY <1>3, <1>4

\* An event that the driver handles while it waits for something else.
LEMMA HandlesIntr ==
  ASSUME DriverTypeOK, CallInv, IntrInv, Handles
  PROVE  IntrInv'
<1>0. /\ QueueOK /\ AnyEvent
      /\ UNCHANGED <<usb_pc, call, cmd, tr_cur, handed, got, hc_cmd, ep_state, hc_deq, data, sent>>
      /\ queue' = Tail(queue) /\ taken' \in {taken + 1, 0}
      /\ \/ Noted
         \/ UNCHANGED <<intrq, trb>> /\ ~(EventType = "transfer" /\ Event.ep = Intr /\ intrq # None)
  BY TypeParts, HandledIs DEF Handles, cmdVars, hcVars
<1>1. Doing("destroy")' = Doing("destroy")
  BY <1>0 DEF Doing
<1>2. CASE Noted
  <2>1. /\ intrq # None /\ RingHolds /\ RingHolds' /\ intrq' # None
    <3>1. intrq # None /\ RingHolds
      BY <1>2 DEF Noted, IntrInv
    <3>2. intrq' \in IntrQueues
      BY <1>0, <1>2, NotedTypes
    <3>. QED  BY <1>0, <1>2, <3>1, <3>2, RingNoted, XhciAssumption
  <2>2. Doing("destroy") => EndingQueue'
    BY <1>0, <2>1 DEF IntrInv, EndingQueue
  <2>3. ~Doing("destroy") => QueueWorks'
    BY <1>0, <1>2, <2>1, ReportNoted DEF IntrInv
  <2>4. trb'[tr_cur].buf = trb[tr_cur].buf
    <3>1. intrq.count - 1 \in Held /\ tr_cur = Pos(intrq.count - 1)
      BY <2>1, RingFacts DEF RingHolds, Held
    <3>2. PICK j : j = intrq.count - 1
      OBVIOUS
    <3>3. BufAt(j)' = BufAt(j) /\ Pos(j)' = Pos(j)
      BY <1>0, <1>2, <2>1, <3>1, <3>2, RingNoted
    <3>. QED  BY <3>1, <3>2, <3>3 DEF BufAt
  <2>5. HandedOut'
    BY <1>0, <2>4 DEF IntrInv, HandedOut
  <2>. QED  BY <1>1, <2>1, <2>2, <2>3, <2>5 DEF IntrInv
<1>3. CASE UNCHANGED <<intrq, trb>> /\ ~(EventType = "transfer" /\ Event.ep = Intr /\ intrq # None)
  <2>1. 1 \notin Waiters(Intr)
    <3>1. intrq = None => Waiters(Intr) = {}
      BY DEF IntrInv, NoQueue
    <3>. QED  BY <1>0, <1>3, <3>1, InFront
  <2>2. PICK d \in {0, 1} : WaitersKept(Intr, d)
    BY <1>0, <2>1, LooksElsewhere DEF Looks
  <2>3. CASE ~Doing("destroy")
    <3>1. usb_pc \notin {"polling", "taking"} \/ handed = None
      BY DEF IntrInv, HandedOut
    <3>. QED  BY <1>0, <1>1, <1>3, <2>2, <2>3, <3>1, QueueLeft
  <2>4. CASE Doing("destroy")
    <3>1. intrq = None => NoQueue'
      BY <1>0, <1>1, <1>3, <2>2, <2>4 DEF IntrInv, NoQueue, WaitersKept
    <3>2. intrq # None => RingHolds'
      BY <1>0, <1>3, RingKept DEF IntrInv
    <3>3. intrq # None => EndingQueue'
      BY <1>0, <2>4 DEF IntrInv, EndingQueue
    <3>4. HandedOut'
      BY <1>0, <1>3 DEF IntrInv, HandedOut
    <3>. QED  BY <1>1, <1>3, <2>4, <3>1, <3>2, <3>3, <3>4 DEF IntrInv
  <2>. QED  BY <2>3, <2>4
<1>. QED  BY <1>0, <1>2, <1>3

\* The calls: only the queue's own touch it.
LEMMA CallIntr ==
  ASSUME DriverTypeOK, CommandInv, IntrInv, XhciCall
  PROVE  IntrInv'
<1>0. /\ QueueOK /\ RestOK /\ usb_pc = "idle" /\ call = None /\ hc_cmd = "none"
      /\ UNCHANGED <<queue, taken>> /\ Intr \in Endpoints /\ Intr \notin Pipes
      /\ ~Doing("destroy")
  <2>1. usb_pc = "idle" /\ UNCHANGED <<queue, taken>>
    BY DEF XhciCall, StartTransfer, EnableSlot, CreateIntrQueue, DestroyIntrQueue, PollIntrQueue,
           Waiting, eventVars
  <2>2. RestOK
    BY TypeParts
  <2>3. call = None /\ hc_cmd = "none"
    BY <2>1, <2>2 DEF CommandInv, RestOK, Commanding
  <2>. QED  BY <2>1, <2>2, <2>3, TypeParts, Numbers DEF Doing
<1>1. WaitersKept(Intr, 0) /\ Waiters(Intr)' = Waiters(Intr)
  <2>1. Waiters(Intr) \subseteq 1 .. Len(queue) /\ Len(queue) \in Nat
    BY <1>0, IndexesAre
  <2>2. Waiters(Intr)' = Waiters(Intr) /\ \A i \in Waiters(Intr) : i - 0 = i
    BY <1>0, <2>1 DEF Waiters
  <2>. QED  BY <1>0, <2>2 DEF WaitersKept
<1>2. ASSUME NEW p \in Pipes, StartTransfer(p)
      PROVE  IntrInv'
  <2>1. /\ UNCHANGED <<intrq, trb, tr_cur, handed, got, sent, hc_deq, data>>
        /\ usb_pc' \in {"command", "transfer"} /\ ~Doing("destroy")'
    BY <1>2 DEF StartTransfer, queueVars, PostCommand, Enqueue, Goes, Doing
  <2>2. ep_state' = ep_state \/ Doorbell(p)
    BY <1>2 DEF StartTransfer, Enqueue
  <2>3. ep_state'[Intr] = ep_state[Intr]
    BY <1>0, <2>2 DEF Doorbell, RestOK
  <2>. QED  BY <1>0, <1>1, <2>1, <2>3, QueueLeft
<1>3. CASE EnableSlot
  <2>1. /\ UNCHANGED <<intrq, trb, tr_cur, handed, got, sent, hc_deq, data, ep_state>>
        /\ usb_pc' = "command" /\ ~Doing("destroy")'
    BY <1>3 DEF EnableSlot, queueVars, PostCommand, Goes, Doing
  <2>. QED  BY <1>0, <1>1, <2>1, QueueLeft
<1>4. ASSUME NEW n \in ReqCounts, CreateIntrQueue(n)
      PROVE  IntrInv'
  <2>1. /\ n \in Nat /\ 1 <= n /\ n <= TransferRingSize - 2 /\ TransferRingSize \in Nat
        /\ 0 \in Slots /\ Slots = 0 .. TransferRingSize - 2
    BY <1>4, Numbers, XhciAssumption DEF CreateIntrQueue, Slots
  <2>2. /\ Waiters(Intr) = {} /\ tr_cur = 0 /\ (ep_state[Intr] # "halted" => hc_deq = 0)
    BY <1>0, <1>4 DEF CreateIntrQueue, IntrInv, NoQueue
  <2>3. /\ intrq' = [next |-> 0, ready |-> None, count |-> n] /\ tr_cur' = n - 1
        /\ trb' = [i \in Slots |-> IF i < n THEN [buf |-> i + 1, len |-> 1] ELSE None]
        /\ handed' = None /\ got' = sent /\ sent' = sent /\ hc_deq' = hc_deq /\ call' = None
    BY <1>0, <1>4 DEF CreateIntrQueue
  <2>4. /\ intrq' \in IntrQueues /\ intrq' # None
        /\ intrq'.next = 0 /\ intrq'.ready = None /\ intrq'.count = n
    <3>1. intrq' \in IntrQueues
      BY <2>1, <2>3 DEF IntrQueues
    <3>. QED  BY <2>3, <3>1, XhciAssumption
  <2>5. Held' = 0 .. n - 1 /\ Held' \subseteq Slots
    BY <2>1, <2>4 DEF Held
  <2>6. \A j \in 0 .. n - 1 : Pos(j)' = j
    BY <2>1, <2>4 DEF Pos, EntryAt
  <2>7. \A j \in 0 .. n - 1 : trb'[Pos(j)'] = [buf |-> j + 1, len |-> 1]
    BY <2>1, <2>3, <2>6
  <2>8. ASSUME NEW j \in 0 .. n - 1
        PROVE  BufAt(j)' = j + 1
    <3>1. [buf |-> j + 1, len |-> 1].buf = j + 1
      OBVIOUS
    <3>. QED  BY <2>7, <3>1, Zenon DEF BufAt
  <2>9. RingHolds'
    <3>1. tr_cur' = Pos(intrq.count - 1)'
      <4>1. PICK j : j = n - 1
        OBVIOUS
      <4>2. Pos(j)' = j
        BY <2>1, <2>6, <4>1
      <4>3. Pos(intrq.count - 1)' = EntryAt(intrq'.next, n - 1)
        BY <2>4 DEF Pos
      <4>4. Pos(j)' = EntryAt(intrq'.next, n - 1)
        BY <4>1 DEF Pos
      <4>. QED  BY <2>3, <4>1, <4>2, <4>3, <4>4
    <3>2. \A j \in Held' : trb'[Pos(j)'] \in [buf : 1 .. intrq'.count, len : {0, 1}]
      <4>1. ASSUME NEW j \in 0 .. n - 1
            PROVE  [buf |-> j + 1, len |-> 1] \in [buf : 1 .. n, len : {0, 1}]
        BY <2>1
      <4>. QED  BY ZenonT(60), <2>4, <2>5, <2>7, <4>1
    <3>3. \A i, j \in Held' : BufAt(i)' = BufAt(j)' => i = j
      BY <2>1, <2>5, <2>8
    <3>4. \A b \in 1 .. intrq'.count : \E j \in Held' : BufAt(j)' = b
      <4>1. ASSUME NEW b \in 1 .. n
            PROVE  b - 1 \in Held' /\ BufAt(b - 1)' = b
        <5>1. PICK j : j = b - 1
          OBVIOUS
        <5>2. j \in 0 .. n - 1 /\ j + 1 = b
          BY <2>1, <5>1
        <5>3. BufAt(j)' = b
          BY <2>8, <5>2
        <5>. QED  BY <2>5, <5>1, <5>2, <5>3 DEF BufAt, Pos
      <4>. QED  BY <2>4, <4>1
    <3>. QED  BY <2>1, <2>4, <3>1, <3>2, <3>3, <3>4 DEF RingHolds
  <2>10. ep_state'[Intr] # "halted" => hc_deq' = Pos(0)'
    <3>1. ep_state'[Intr] # "halted" => ep_state[Intr] # "halted"
      BY <1>0, <1>4 DEF CreateIntrQueue, Doorbell, RestOK
    <3>2. Pos(0)' = 0
      BY <2>1, <2>6
    <3>. QED  BY <2>2, <2>3, <3>1, <3>2
  <2>11. WorksAt(0, 0)'
    <3>1. InFlight(0, 0)'
      BY <1>1, <2>2 DEF InFlight
    <3>2. got' + 1 .. sent' = {} /\ got' <= sent'
      BY <1>0, <2>3 DEF RestOK
    <3>3. AllKept(0, 0)'
      BY <3>2 DEF AllKept
    <3>. QED  BY <2>1, <2>4, <2>5, <2>10, <3>1, <3>2, <3>3 DEF WorksAt
  <2>12. QueueWorks'
    BY <2>11 DEF QueueWorks
  <2>. QED  BY <2>3, <2>4, <2>9, <2>12 DEF IntrInv, HandedOut, Doing
<1>5. CASE DestroyIntrQueue
  <2>1. /\ intrq # None /\ UNCHANGED <<intrq, trb, tr_cur>> /\ handed' = None /\ ep_state' = ep_state
        /\ \/ usb_pc' = "command" /\ cmd'.kind = "stop" /\ hc_cmd' = "running"
           \/ usb_pc' = "draining" /\ ep_state[Intr] # "running"
    BY <1>5 DEF DestroyIntrQueue, PostCommand, Goes
  <2>2. Doing("destroy")'
    BY <1>5, Numbers, XhciAssumption DEF DestroyIntrQueue, Doing, Calls
  <2>3. RingHolds' /\ EndingQueue' /\ HandedOut'
    BY <2>1, RingKept DEF IntrInv, EndingQueue, HandedOut
  <2>. QED  BY <2>1, <2>2, <2>3 DEF IntrInv
<1>6. CASE PollIntrQueue
  <2>1. /\ intrq # None /\ UNCHANGED <<intrq, trb, tr_cur, got, sent, hc_deq, ep_state>> /\ handed' = None
        /\ data' = [b \in Bufs |-> IF b = handed THEN 0 ELSE data[b]] /\ ~Doing("destroy")'
    BY <1>6 DEF PollIntrQueue, Doing
  <2>2. RingHolds /\ QueueWorks
    BY <1>0, <2>1 DEF IntrInv
  <2>3. ASSUME NEW j \in 0 .. intrq.count - 2
        PROVE  data'[BufAt(j)] = data[BufAt(j)]
    <3>1. j \in Held /\ intrq.count - 1 \in Held /\ j # intrq.count - 1
      BY <2>2, RingFacts DEF Held
    <3>2. BufAt(j) \in 1 .. intrq.count /\ BufAt(j) # BufAt(intrq.count - 1)
      BY <2>2, <3>1 DEF RingHolds, BufAt
    <3>3. BufAt(j) # handed
      <4>1. handed # None => handed = BufAt(intrq.count - 1)
        BY <2>2 DEF IntrInv, HandedOut, RingHolds, BufAt
      <4>2. BufAt(j) # None
        <5>1. BufAt(j) \in Nat
          BY <2>2, <3>2, RingFacts
        <5>. QED  BY <5>1, Numbers
      <4>. QED  BY <3>2, <4>1, <4>2
    <3>4. BufAt(j) \in Bufs
      BY <2>2, <3>2, RingFacts DEF Bufs
    <3>. QED  BY <2>1, <3>3, <3>4
  <2>4. QueueWorks'
    BY <1>1, <2>1, <2>2, <2>3, QueueKept
  <2>. QED  BY <2>1, <2>2, <2>4, RingKept DEF IntrInv, HandedOut
<1>. QED  BY <1>2, <1>3, <1>4, <1>5, <1>6 DEF XhciCall

LEMMA ContinuesIntr ==
  ASSUME InTime, DriverTypeOK, CallInv, CommandInv, IntrInv, XhciContinues
  PROVE  IntrInv'
<1>0. QueueOK /\ RestOK /\ Looks /\ Intr \in Endpoints /\ Intr \notin Pipes
  BY TypeParts, Numbers, DriverLooks
\* A step of another call than one on the queue, which takes no report.
<1>1. ASSUME queue' = queue \/ 1 \notin Waiters(Intr), ~Doing("destroy"),
             usb_pc' \notin {"polling", "taking"} \/ handed = None,
             call' \in {call, None}, UNCHANGED <<queueVars, sent, hc_deq, data, ep_state>>
      PROVE  IntrInv'
  <2>1. PICK d \in {0, 1} : WaitersKept(Intr, d)
    BY <1>0, <1>1, LooksElsewhere
  <2>2. ~Doing("destroy")'
    BY <1>1 DEF Doing
  <2>. QED  BY <1>1, <2>1, <2>2, QueueLeft DEF queueVars
<1>2. ASSUME AnyEvent, EventType = "command" \/ (EventType = "transfer" /\ Event.ep \in Pipes)
      PROVE  1 \notin Waiters(Intr)
  BY <1>0, <1>2, InFront
<1>3. usb_pc \in {"aborting", "stopping", "transfer"} => ~Doing("destroy") /\ call # None
  BY <1>0 DEF CallInv, Doing, RestOK
<1>4. CASE Handles
  BY <1>4, HandlesIntr
<1>5. CASE CommandDone
  <2>1. usb_pc = "command" /\ AnyEvent /\ EventType = "command" /\ hc_cmd = "none"
    BY <1>5, WantedIs DEF CommandDone, Waiting, Wanted
  <2>. QED  BY <1>0, <1>2, <1>5, <2>1, AfterCommandIntr DEF CommandDone
<1>6. CASE RingStopped
  <2>1. usb_pc = "stopping" /\ AnyEvent /\ EventType = "command" /\ hc_cmd = "none"
    BY <1>6, WantedIs DEF RingStopped, Waiting, Wanted
  <2>. QED  BY <1>0, <1>2, <1>6, <2>1, AfterCommandIntr DEF RingStopped
<1>7. CASE CommandTimeout
  <2>1. /\ usb_pc = "command" /\ cmd.kind \in {"reset", "dequeue"} /\ cmd.ep \in Pipes
        /\ usb_pc' = "aborting" /\ queue' = queue /\ call' = call
        /\ UNCHANGED <<queueVars, sent, hc_deq, data, ep_state>>
    BY <1>7 DEF CommandTimeout, Waiting, InTime, TimesOut, GiveBack, Goes
  <2>2. ~Doing("destroy")
    BY <1>0, <2>1 DEF CallInv, Commanding, Doing
  <2>. QED  BY <1>1, <2>1, <2>2
<1>8. CASE Aborted
  <2>1. /\ usb_pc = "aborting" /\ AnyEvent /\ EventType = "command" /\ usb_pc' = "stopping" /\ call' = call
        /\ UNCHANGED <<queueVars, sent, hc_deq, data, ep_state>>
    BY <1>8 DEF Aborted, Waiting, Wanted, Goes, hcVars
  <2>. QED  BY <1>1, <1>2, <1>3, <2>1
<1>9. CASE AbortTimeout
  <2>1. /\ usb_pc \in {"aborting", "stopping"} /\ queue' = queue /\ usb_pc' = "dead" /\ call' = call
        /\ UNCHANGED <<queueVars, sent, hc_deq, data, ep_state>>
    BY <1>9 DEF AbortTimeout, Waiting, TimesOut, GiveBack, Goes, hcVars
  <2>. QED  BY <1>1, <1>3, <2>1
<1>10. CASE SlotAdvance
  <2>1. /\ usb_pc = "slot" /\ usb_pc' = "draining" /\ call' = call
        /\ UNCHANGED <<queueVars, sent, hc_deq, data, ep_state>>
    BY <1>10 DEF SlotAdvance, Waiting, Goes, hcVars
  <2>2. ~Doing("destroy") /\ 1 \in Answers
    BY <2>1 DEF CallInv, Doing, CommandInv
  <2>3. 1 \notin Waiters(Intr)
    BY <1>0, <2>2, IndexesAre DEF IsAnswer, IsFor
  <2>. QED  BY <1>1, <2>1, <2>2, <2>3
<1>11. CASE StageDone
  <2>1. /\ usb_pc = "transfer" /\ AnyEvent /\ EventType = "transfer" /\ Event.ep = call.ep
        /\ usb_pc' \in {"transfer", "idle"} /\ call' \in {call, None}
        /\ UNCHANGED <<queueVars, sent, hc_deq, data, ep_state>>
    BY <1>11 DEF StageDone, Waiting, Wanted, Returns, Goes, hcVars
  <2>2. call.ep \in Pipes
    BY <1>3, <2>1 DEF CallInv, Doing
  <2>. QED  BY <1>1, <1>2, <1>3, <2>1, <2>2
<1>12. CASE TransferTimeout
  <2>1. /\ usb_pc = "transfer" /\ queue' = queue /\ usb_pc' = "command" /\ call' = call
        /\ UNCHANGED <<queueVars, sent, hc_deq, data, ep_state>>
    BY <1>12 DEF TransferTimeout, Waiting, TimesOut, GiveBack, PostCommand, Goes
  <2>. QED  BY <1>1, <1>3, <2>1
<1>13. CASE Drained
  <2>0. /\ usb_pc = "draining" /\ queue = <<>> /\ queue' = queue /\ call # None
        /\ UNCHANGED <<sent, hc_deq, data, ep_state>>
    BY <1>0, <1>13 DEF Drained, Waiting, TimesOut, GiveBack, AnyEvent, RestOK
  <2>1. CASE call.op = "slot" /\ Returns /\ UNCHANGED queueVars
    BY <1>1, <2>0, <2>1 DEF Returns, Goes, Doing
  <2>2. CASE /\ call.op = "destroy" /\ intrq' = None /\ PostCommand("dequeue", Intr)
             /\ UNCHANGED <<call, tr_cur, handed, got>>
    <3>1. /\ intrq # None /\ handed = None /\ ep_state[Intr] # "running"
      BY <2>0, <2>2 DEF IntrInv, NoQueue, EndingQueue, Doing
    <3>2. Waiters(Intr)' = {}
      BY <2>0 DEF Waiters
    <3>3. usb_pc' = "command" /\ cmd'.kind = "dequeue" /\ hc_cmd' = "running" /\ handed' = None
      BY <2>2, <3>1 DEF PostCommand, Goes
    <3>4. NoQueue' /\ HandedOut'
      BY <2>0, <2>2, <3>1, <3>2, <3>3 DEF NoQueue, HandedOut, Doing
    <3>. QED  BY <2>2, <3>4 DEF IntrInv
  <2>. QED  BY <1>13, <2>1, <2>2 DEF Drained
<1>14. CASE Polled
  <2>1. /\ usb_pc = "polling" /\ queue' = queue /\ usb_pc' = "taking" /\ call' = call
        /\ UNCHANGED <<queueVars, sent, hc_deq, data, ep_state>>
    BY <1>14 DEF Polled, Waiting, TimesOut, GiveBack, Goes, hcVars
  <2>2. ~Doing("destroy") /\ handed = None
    BY <2>1 DEF CallInv, Doing, IntrInv, HandedOut
  <2>. QED  BY <1>1, <2>1, <2>2
<1>15. CASE TakeReport
  <2>1. /\ usb_pc = "taking" /\ call.op = "poll" /\ ~Doing("destroy") /\ handed = None
        /\ intrq.ready # None /\ call # None
    BY <1>0, <1>15 DEF TakeReport, Waiting, CallInv, Doing, IntrInv, HandedOut, RestOK
  <2>2. intrq # None /\ RingHolds /\ QueueWorks
    <3>1. intrq # None
      BY <2>1 DEF CallInv, Doing
    <3>. QED  BY <2>1, <3>1 DEF IntrInv
  <2>3. /\ RingHolds' /\ QueueWorks'
        /\ handed' # handed => handed' = trb'[tr_cur'].buf /\ data'[handed'] = got' /\ usb_pc' = "idle"
    BY <1>15, <2>2, ReportTaken
  <2>4. ~Doing("destroy")'
    BY <1>15, <2>1 DEF TakeReport, Doing, Returns
  <2>5. intrq' # None
    BY <2>3, XhciAssumption DEF RingHolds
  <2>6. HandedOut'
    BY <2>1, <2>3 DEF HandedOut
  <2>. QED  BY <2>3, <2>4, <2>5, <2>6 DEF IntrInv
<1>16. CASE NothingReady
  <2>1. /\ usb_pc = "taking" /\ queue' = queue /\ usb_pc' = "idle" /\ call' = None
        /\ UNCHANGED <<queueVars, sent, hc_deq, data, ep_state>>
    BY <1>16 DEF NothingReady, Waiting, Returns, Goes, hcVars, eventVars
  <2>2. ~Doing("destroy")
    BY <2>1 DEF CallInv, Doing
  <2>. QED  BY <1>1, <2>1, <2>2
<1>. QED  BY <1>4, <1>5, <1>6, <1>7, <1>8, <1>9, <1>10, <1>11, <1>12, <1>13, <1>14, <1>15, <1>16
          DEF XhciContinues

LEMMA IntrStep ==
  ASSUME InTime, DriverTypeOK, CallInv, CommandInv, IntrInv, [XhciNext]_xhciVars
  PROVE  IntrInv'
<1>1. CASE Died \/ UNCHANGED xhciVars
  <2>1. UNCHANGED <<usb_pc, call, cmd, hc_cmd, ep_state, hc_deq, queue, queueVars, data, sent>>
    BY <1>1 DEF Died, xhciVars, driverVars, cmdVars, hcVars, eventVars
  <2>2. UNCHANGED <<intrq, trb, tr_cur, handed, got>>
    BY <2>1 DEF queueVars
  <2>3. Waiters(Intr)' = Waiters(Intr) /\ Doing("destroy")' = Doing("destroy")
    BY <2>1 DEF Waiters, Doing
  <2>4. WaitersKept(Intr, 0)
    <3>1. Waiters(Intr) \subseteq 1 .. Len(queue) /\ Len(queue) \in Nat
      BY IndexesAre DEF DriverTypeOK
    <3>2. \A i \in Waiters(Intr) : i - 0 = i
      BY <3>1
    <3>. QED  BY <2>1, <2>3, <3>2 DEF WaitersKept
  <2>5. intrq = None => NoQueue'
    BY <2>1, <2>2, <2>3 DEF IntrInv, NoQueue
  <2>6. intrq # None => RingHolds'
    BY <2>2, RingKept DEF IntrInv
  <2>7. intrq # None /\ Doing("destroy") => EndingQueue'
    BY <2>1, <2>2 DEF IntrInv, EndingQueue
  <2>8. intrq # None /\ ~Doing("destroy") => QueueWorks'
    BY <2>1, <2>2, <2>4, QueueKept DEF IntrInv
  <2>9. HandedOut'
    BY <2>1, <2>2 DEF IntrInv, HandedOut
  <2>. QED  BY <2>2, <2>3, <2>5, <2>6, <2>7, <2>8, <2>9 DEF IntrInv
<1>. QED  BY <1>1, HcIntr, CallIntr, ContinuesIntr DEF XhciNext

LEMMA IntrInit == XhciInit => IntrInv
BY DEF XhciInit, QueueInit, IntrInv, NoQueue, HandedOut, Doing, Waiters

-----------------------------------------------------------------------------
(***************************************************************************)
(* The theorems.                                                           *)
(***************************************************************************)

\* What every reachable state satisfies.
DriverInv == DriverTypeOK /\ CallInv /\ CommandInv /\ PipeInv /\ IntrInv

LEMMA DriverInvariant == InTime => (XhciSpec => []DriverInv)
<1>. SUFFICES ASSUME InTime
              PROVE  XhciSpec => []DriverInv
  OBVIOUS
<1>1. XhciInit => DriverInv
  BY TypesInit, CallsInit, PipesInit, IntrInit DEF DriverInv
<1>2. DriverInv /\ [XhciNext]_xhciVars => DriverInv'
  BY TypesStep, CommandsStep, PipesStep, IntrStep DEF DriverInv
<1>. QED  BY <1>1, <1>2, PTL DEF XhciSpec

\* Every variable of the driver and its controller keeps its type, at most Places events
\* are on the ring, and a call is in progress exactly while the driver is not idle
\* (xhci_wait_for_event(), xhci_handle_events()).
THEOREM XhciTypeCorrect == InTime => (XhciSpec => []XhciTypeOK)
<1>1. DriverInv => XhciTypeOK
  BY DEF DriverInv, DriverTypeOK
<1>. QED  BY <1>1, DriverInvariant, PTL

\* xhci_wait_for_transfer() takes no event of an earlier transfer for the end of its
\* own: after a stall or a timeout each of them has been handled before the endpoint
\* is given the next transfer.
THEOREM TransfersGetOwnAnswer == InTime => (XhciSpec => []OwnAnswer)
<1>1. DriverInv => OwnAnswer
  BY InvOwnAnswer DEF DriverInv
<1>. QED  BY <1>1, DriverInvariant, PTL

\* xhci_poll_intr_queue() hands out the reports in the order in which the device sent
\* them, each once, from a buffer that the controller does not write meanwhile.
THEOREM ReportsAreOrdered == InTime => (XhciSpec => []ReportsInOrder)
<1>1. DriverInv => ReportsInOrder
  BY InvReportsInOrder DEF DriverInv
<1>. QED  BY <1>1, DriverInvariant, PTL

\* xhci_destroy_intr_queue() finds each buffer of the queue once on the entries from
\* "next" on, however often the queue was polled.
THEOREM BuffersAreCounted == InTime => (XhciSpec => []BuffersAccounted)
<1>1. DriverInv => BuffersAccounted
  BY InvBuffersAccounted DEF DriverInv
<1>. QED  BY <1>1, DriverInvariant, PTL

-----------------------------------------------------------------------------
(***************************************************************************)
(* The end of every call.  While one is in progress each step, of the      *)
(* driver or of the controller, makes a measure smaller, and there is      *)
(* always a step that one of the two can take.                             *)
(***************************************************************************)
\* How far "b" is ahead of "a" on the ring of the interrupt endpoint.
Turn(a, b) == IF a <= b THEN b - a ELSE b - a + (TransferRingSize - 1)

\* The waits that a command may still take, and those that follow it in its call.
Waits == IF usb_pc = "command" THEN 3 ELSE IF usb_pc = "aborting" THEN 2 ELSE 1
Follows ==
  IF call.op = "slot" THEN 2
  ELSE IF call.op = "destroy" THEN IF cmd.kind = "stop" THEN 4 ELSE 0
  ELSE IF cmd.kind = "stop" THEN 0
  ELSE IF cmd.kind = "dequeue" THEN 3 + Stages[call.ep]
  ELSE 6 + Stages[call.ep]
CallLeft ==
  IF usb_pc \in {"idle", "dead"} THEN 0
  ELSE IF usb_pc = "slot" THEN 2
  ELSE IF usb_pc = "draining" THEN IF call.op = "slot" THEN 1 ELSE 4
  ELSE IF usb_pc = "transfer" THEN 3 + Left(call.ep)
  ELSE IF usb_pc = "polling" THEN TransferRingSize + 2
  ELSE IF usb_pc = "taking"
  THEN IF intrq.ready = None THEN 1 ELSE 2 + Turn(intrq.next, intrq.ready)
  ELSE Waits + Follows

\* What the controller may still do before the driver goes on: finish the command, the
\* transfer, the reports, and say that the event ring is full.
CommandLeft ==
  IF hc_cmd = "none" THEN 0
  ELSE IF hc_cmd = "stopping" THEN 1
  ELSE IF hc_cmd = "aborting" THEN 2
  ELSE IF hc_cmd = "forced" THEN 3
  ELSE 4
TransferLeft ==
  IF Doing("transfer") /\ ep_state[call.ep] = "running" THEN Len(tds[call.ep]) + 1 ELSE 0
ReportsLeft == Turn(hc_deq, tr_cur)
EventsLeft == Len(queue) + (IF Used < Places - 1 \/ SaidFull THEN 0 ELSE 2)

Measure == <<CallLeft, CommandLeft, TransferLeft, ReportsLeft, EventsLeft>>
MeasureOK == Measure \in [1 .. 5 -> Nat]

LessThan == {ss \in Nat \X Nat : ss[1] < ss[2]}
Closer == LexProductOrdering(LessThan, Nat, 5)
Descends == <<Measure', Measure>> \in Closer

\* No five numbers can be made smaller for ever in this order.
LEMMA ClosesIn == IsWellFoundedOn(Closer, [1 .. 5 -> Nat])
<1>1. OpToRel(<, Nat) = LessThan
  BY DEF OpToRel, LessThan
<1>2. IsWellFoundedOn(LessThan, Nat)
  BY <1>1, NatLessThanWellFounded, Zenon
<1>. QED  BY <1>2, WFLexProductOrdering DEF Closer

\* One part smaller, and those before it as they were.
LEMMA DescendsBy ==
  ASSUME MeasureOK, MeasureOK', NEW j \in 1 .. 5, Measure'[j] < Measure[j],
         \A i \in 1 .. j - 1 : Measure'[i] = Measure[i]
  PROVE  Descends
BY DEF MeasureOK, Descends, Closer, LexProductOrdering, LessThan

\* Each entry that is passed is one fewer to go.
LEMMA TurnNat ==
  ASSUME NEW a \in Slots, NEW b \in Slots
  PROVE  /\ Turn(a, b) \in 0 .. TransferRingSize - 2
         /\ a # b => Turn(NextTrb(a), b) < Turn(a, b)
BY XhciAssumption DEF Turn, Slots, NextTrb

\* A transfer that is waited for has a stage left.
LEMMA StageInv ==
  ASSUME DriverInv, usb_pc = "transfer"
  PROVE  /\ OnPipe(call.ep) /\ call.ep \in Pipes
         /\ stage \in Nat /\ Stages[call.ep] \in Nat /\ stage < Stages[call.ep]
<1>0. RestOK /\ CallInv /\ PipeInv
  BY TypeParts DEF DriverInv
<1>1. OnPipe(call.ep) /\ call.ep \in Pipes
  BY <1>0 DEF CallInv, OnPipe, Doing, RestOK
<1>2. stage < Stages[call.ep] /\ Stages[call.ep] \in Nat /\ stage \in Nat
  BY <1>0, <1>1, XhciAssumption DEF PipeInv, PipeOK, Progress, RestOK
<1>. QED  BY <1>1, <1>2

\* What follows a command is a number of waits.
LEMMA CallFollows ==
  ASSUME DriverInv, usb_pc \in Commanding
  PROVE  Follows \in Nat /\ call # None
<1>0. RestOK /\ CallInv
  BY TypeParts DEF DriverInv
<1>1. /\ call.op \in {"transfer", "destroy", "slot"} /\ call # None
      /\ call.op = "transfer" => call.ep \in Pipes
  BY <1>0 DEF CallInv, Commanding, Doing, RestOK
<1>2. \A p \in Pipes : Stages[p] \in Nat
  BY XhciAssumption
<1>. QED  BY <1>1, <1>2 DEF Follows

\* So is what is left of the call.
LEMMA CallLeftNat ==
  ASSUME DriverInv
  PROVE  CallLeft \in Nat
<1>1. RestOK /\ CallInv /\ PipeInv
  BY TypeParts DEF DriverInv
<1>2. call # None => call \in Calls
  BY <1>1 DEF RestOK
<1>3. CASE usb_pc = "transfer"
  <2>2. stage < Stages[call.ep] /\ Stages[call.ep] \in Nat /\ stage \in Nat
    BY <1>3, StageInv
  <2>3. CallLeft = 3 + Left(call.ep)
    BY <1>3 DEF CallLeft, Commanding
  <2>. QED  BY <2>2, <2>3 DEF Left
<1>4. CASE usb_pc = "taking"
  <2>1. intrq \in IntrQueues
    BY <1>1, <1>4 DEF CallInv, Doing, RestOK
  <2>2. CallLeft = IF intrq.ready = None THEN 1 ELSE 2 + Turn(intrq.next, intrq.ready)
    BY <1>4 DEF CallLeft, Commanding
  <2>. QED  BY <2>1, <2>2, TurnNat DEF IntrQueues
<1>5. CASE usb_pc \in Commanding
  <2>3. Follows \in Nat
    BY <1>5, CallFollows
  <2>4. Waits \in Nat /\ CallLeft = Waits + Follows
    BY <1>5 DEF Waits, CallLeft, Commanding
  <2>. QED  BY <2>3, <2>4
<1>. QED  BY <1>1, <1>3, <1>4, <1>5, XhciAssumption DEF CallLeft, RestOK, Commanding

\* The parts of the measure are natural numbers.
LEMMA MeasureNat == DriverInv => MeasureOK
<1>. SUFFICES ASSUME DriverInv PROVE MeasureOK
  OBVIOUS
<1>1. RestOK /\ QueueOK /\ CallInv
  BY TypeParts DEF DriverInv
<1>2. CommandLeft \in Nat
  BY <1>1 DEF CommandLeft, RestOK
<1>3. TransferLeft \in Nat
  BY <1>1 DEF TransferLeft, CallInv, RestOK, Doing
<1>4. ReportsLeft \in Nat
  BY <1>1, TurnNat DEF ReportsLeft, RestOK
<1>5. EventsLeft \in Nat
  BY <1>1 DEF EventsLeft, QueueOK
<1>. QED  BY <1>2, <1>3, <1>4, <1>5, CallLeftNat DEF MeasureOK, Measure

\* What follows a command takes fewer waits than were left.
LEMMA AfterCommandDescends ==
  ASSUME DriverInv, usb_pc \in {"command", "stopping"}, NEW cc, AfterCommand(cc)
  PROVE  CallLeft' < CallLeft
<1>1. call # None /\ Follows \in Nat /\ CallLeft \in Nat /\ CallLeft > Follows
  BY CallFollows, CallLeftNat DEF CallLeft, Waits, Commanding
<1>0. RestOK /\ CallInv
  BY TypeParts DEF DriverInv
<1>2. CASE cmd.kind = "reset" /\ PostCommand("dequeue", cmd.ep) /\ UNCHANGED call
  <2>1. call.op = "transfer" /\ call.ep \in Pipes
    BY <1>0, <1>1, <1>2 DEF CallInv, Commanding, Doing
  <2>2. Stages[call.ep] \in Nat
    BY <2>1, XhciAssumption
  <2>3. usb_pc' = "command" /\ cmd'.kind = "dequeue" /\ call' = call
    BY <1>2 DEF PostCommand, Goes
  <2>4. CallLeft' = 6 + Stages[call.ep]
    BY <2>1, <2>2, <2>3 DEF CallLeft, Waits, Follows
  <2>5. Follows = 6 + Stages[call.ep]
    BY <1>2, <2>1 DEF Follows
  <2>. QED  BY <1>1, <2>2, <2>4, <2>5
<1>3. CASE cmd.kind = "dequeue" /\ call.op = "transfer" /\ Enqueue(cmd.ep) /\ UNCHANGED call
  <2>1. call.ep \in Pipes
    BY <1>0, <1>1, <1>3 DEF CallInv, Commanding, Doing
  <2>2. Stages[call.ep] \in Nat
    BY <2>1, XhciAssumption
  <2>3. usb_pc' = "transfer" /\ stage' = 0 /\ call' = call
    BY <1>3 DEF Enqueue, Goes
  <2>4. CallLeft' = 3 + Stages[call.ep]
    BY <2>2, <2>3 DEF CallLeft, Left
  <2>5. Follows = 3 + Stages[call.ep]
    BY <1>3 DEF Follows
  <2>. QED  BY <1>1, <2>2, <2>4, <2>5
<1>4. CASE Returns
  <2>1. CallLeft' = 0
    BY <1>4 DEF Returns, Goes, CallLeft
  <2>. QED  BY <1>1, <2>1
<1>5. CASE call.op = "destroy" /\ cmd.kind = "stop" /\ Goes("draining") /\ UNCHANGED call
  <2>1. CallLeft' = 4 /\ Follows = 4
    BY <1>5 DEF CallLeft, Follows, Goes
  <2>. QED  BY <1>1, <2>1
<1>6. CASE cmd.kind = "slot" /\ Goes("slot") /\ UNCHANGED call
  <2>1. call.op = "slot"
    BY <1>0, <1>6 DEF CallInv, Commanding
  <2>2. CallLeft' = 2 /\ Follows = 2
    BY <1>6, <2>1 DEF CallLeft, Follows, Goes
  <2>. QED  BY <1>1, <2>2
<1>7. \/ cmd.kind = "reset" /\ PostCommand("dequeue", cmd.ep) /\ UNCHANGED call
      \/ cmd.kind = "dequeue" /\ call.op = "transfer" /\ Enqueue(cmd.ep) /\ UNCHANGED call
      \/ Returns
      \/ call.op = "destroy" /\ cmd.kind = "stop" /\ Goes("draining") /\ UNCHANGED call
      \/ cmd.kind = "slot" /\ Goes("slot") /\ UNCHANGED call
  BY DEF AfterCommand
<1>. QED  BY <1>2, <1>3, <1>4, <1>5, <1>6, <1>7

\* Whatever the driver does but handle an event that it does not wait for.
LEMMA DriverDescends ==
  ASSUME DriverInv, XhciContinues
  PROVE  Handles \/ CallLeft' < CallLeft
<1>0. RestOK /\ CallInv /\ CallLeft \in Nat
  BY TypeParts, CallLeftNat DEF DriverInv
<1>1. CASE CommandDone \/ RingStopped
  BY <1>1, AfterCommandDescends DEF CommandDone, RingStopped, Waiting
<1>2. CASE CommandTimeout
  <2>1. usb_pc = "command" /\ usb_pc' = "aborting" /\ UNCHANGED <<call, cmd>>
    BY <1>2 DEF CommandTimeout, Waiting, Goes, cmdVars
  <2>2. Follows' = Follows /\ Follows \in Nat
    BY <2>1, CallFollows DEF Follows, Commanding
  <2>. QED  BY <2>1, <2>2 DEF CallLeft, Waits
<1>3. CASE Aborted
  <2>1. /\ usb_pc = "aborting" /\ usb_pc' = "stopping" /\ UNCHANGED call
        /\ cmd' = [cmd EXCEPT !.cc = Event.cc] /\ cmd \in Commands
    BY <1>0, <1>3 DEF Aborted, Waiting, Goes, CallInv, Commanding
  <2>2. cmd'.kind = cmd.kind
    BY <2>1 DEF Commands
  <2>3. Follows' = Follows /\ Follows \in Nat
    BY <2>1, <2>2, CallFollows DEF Follows, Commanding
  <2>. QED  BY <2>1, <2>3 DEF CallLeft, Waits
<1>4. CASE AbortTimeout
  <2>1. usb_pc \in {"aborting", "stopping"} /\ usb_pc' = "dead"
    BY <1>4 DEF AbortTimeout, Waiting, Goes
  <2>. QED  BY <2>1, CallFollows DEF CallLeft, Waits, Commanding
<1>5. CASE SlotAdvance
  <2>1. usb_pc = "slot" /\ usb_pc' = "draining" /\ call' = call /\ call.op = "slot"
    BY <1>0, <1>5 DEF SlotAdvance, Waiting, Goes, CallInv
  <2>. QED  BY <2>1 DEF CallLeft
<1>6. CASE StageDone
  <2>1. usb_pc = "transfer" /\ CallLeft = 3 + (Stages[call.ep] - stage)
    BY <1>6 DEF StageDone, Waiting, CallLeft, Left
  <2>2. stage \in Nat /\ Stages[call.ep] \in Nat /\ stage < Stages[call.ep]
    BY <2>1, StageInv
  <2>3. CASE Returns
    BY <2>1, <2>2, <2>3 DEF Returns, Goes, CallLeft
  <2>4. CASE stage' = stage + 1 /\ UNCHANGED <<usb_pc, call>>
    <3>1. CallLeft' = 3 + (Stages[call.ep] - (stage + 1))
      BY <2>1, <2>4 DEF CallLeft, Left
    <3>. QED  BY <2>1, <2>2, <3>1
  <2>. QED  BY <1>6, <2>3, <2>4 DEF StageDone
<1>7. CASE TransferTimeout
  <2>1. /\ usb_pc = "transfer" /\ call' = call /\ call.op = "transfer"
        /\ usb_pc' = "command" /\ cmd'.kind = "stop"
    BY <1>0, <1>7 DEF TransferTimeout, Waiting, PostCommand, Goes, CallInv
  <2>2. stage \in Nat /\ Stages[call.ep] \in Nat /\ stage < Stages[call.ep]
    BY <2>1, StageInv
  <2>3. CallLeft' = 3 /\ CallLeft = 3 + (Stages[call.ep] - stage)
    BY <2>1 DEF CallLeft, Left, Waits, Follows
  <2>. QED  BY <2>2, <2>3
<1>8. CASE Drained
  <2>1. usb_pc = "draining"
    BY <1>8 DEF Drained, Waiting
  <2>2. CASE call.op = "slot" /\ Returns
    BY <2>1, <2>2 DEF CallLeft, Returns, Goes
  <2>3. CASE call.op = "destroy" /\ PostCommand("dequeue", Intr) /\ UNCHANGED call
    <3>1. CallLeft' = 3 /\ CallLeft = 4
      BY <2>1, <2>3 DEF CallLeft, Waits, Follows, PostCommand, Goes
    <3>. QED  BY <3>1
  <2>. QED  BY <1>8, <2>2, <2>3 DEF Drained
<1>9. CASE Polled
  <2>1. usb_pc = "polling" /\ usb_pc' = "taking" /\ UNCHANGED <<intrq, call>> /\ call.op = "poll"
    BY <1>0, <1>9 DEF Polled, Waiting, Goes, queueVars, CallInv
  <2>2. intrq \in IntrQueues
    BY <1>0, <2>1 DEF CallInv, Doing, RestOK
  <2>3. CASE intrq.ready = None
    <3>1. CallLeft' = 1 /\ CallLeft = TransferRingSize + 2
      BY <2>1, <2>3 DEF CallLeft
    <3>. QED  BY <3>1, XhciAssumption
  <2>4. CASE intrq.ready # None
    <3>1. CallLeft' = 2 + Turn(intrq.next, intrq.ready) /\ CallLeft = TransferRingSize + 2
      BY <2>1, <2>4 DEF CallLeft, Turn
    <3>2. Turn(intrq.next, intrq.ready) \in 0 .. TransferRingSize - 2
      BY <2>2, <2>4, TurnNat DEF IntrQueues
    <3>. QED  BY <3>1, <3>2, XhciAssumption
  <2>. QED  BY <2>3, <2>4
<1>10. CASE TakeReport
  <2>1. /\ usb_pc = "taking" /\ intrq.ready # None
        /\ intrq' = [intrq EXCEPT !.ready = IF @ = intrq.next THEN None ELSE @,
                                  !.next = NextTrb(intrq.next)]
        /\ UNCHANGED <<usb_pc, call>> \/ usb_pc' = "idle"
    BY <1>10 DEF TakeReport, Waiting, Returns, Goes
  <2>2. intrq \in IntrQueues /\ intrq.next \in Slots /\ intrq.ready \in Slots
    BY <1>0, <2>1 DEF CallInv, Doing, RestOK, IntrQueues
  <2>3. /\ CallLeft = 2 + Turn(intrq.next, intrq.ready)
        /\ Turn(intrq.next, intrq.ready) \in Nat
    BY <2>1, <2>2, TurnNat DEF CallLeft
  <2>4. CASE usb_pc' = "idle"
    BY <2>3, <2>4 DEF CallLeft
  <2>5. CASE usb_pc' = usb_pc /\ intrq.ready = intrq.next
    <3>1. CallLeft' = 1
      BY <2>1, <2>2, <2>5 DEF CallLeft, IntrQueues
    <3>. QED  BY <2>3, <3>1
  <2>6. CASE usb_pc' = usb_pc /\ intrq.ready # intrq.next
    <3>1. intrq'.ready = intrq.ready /\ intrq'.next = NextTrb(intrq.next)
      BY <2>1, <2>2, <2>6 DEF IntrQueues
    <3>2. CallLeft' = 2 + Turn(NextTrb(intrq.next), intrq.ready)
      BY <2>1, <2>6, <3>1 DEF CallLeft, Turn
    <3>3. Turn(NextTrb(intrq.next), intrq.ready) < Turn(intrq.next, intrq.ready)
          /\ Turn(NextTrb(intrq.next), intrq.ready) \in Nat
      BY <2>2, <2>6, TurnNat, Numbers
    <3>. QED  BY <2>3, <3>2, <3>3
  <2>. QED  BY <2>1, <2>4, <2>5, <2>6
<1>11. CASE NothingReady
  BY <1>11 DEF NothingReady, Waiting, Returns, Goes, CallLeft
<1>. QED  BY <1>1, <1>2, <1>3, <1>4, <1>5, <1>6, <1>7, <1>8, <1>9, <1>10, <1>11 DEF XhciContinues

\* The queue stays one when the driver looks at it.
LEMMA TakenTypes ==
  ASSUME DriverInv, XhciContinues
  PROVE  QueueOK'
BY DriverLooks, LooksTypes DEF DriverInv

\* The last event stays the last when one before it is taken.
LEMMA LastStays ==
  ASSUME NEW S, NEW q \in Seq(S), Len(q) > 1
  PROVE  Tail(q) # <<>> /\ Tail(q)[Len(Tail(q))] = q[Len(q)]
<1>1. Len(q) \in Nat /\ Tail(q) \in Seq(S) /\ Len(Tail(q)) = Len(q) - 1
  OBVIOUS
<1>2. \A i \in 1 .. Len(q) - 1 : Tail(q)[i] = q[i + 1]
  OBVIOUS
<1>3. Len(q) - 1 \in 1 .. Len(q) - 1 /\ (Len(q) - 1) + 1 = Len(q)
  BY <1>1
<1>4. Tail(q)[Len(q) - 1] = q[Len(q)]
  BY <1>2, <1>3
<1>5. Tail(q) # <<>>
  <2>1. Len(Tail(q)) # Len(<<>>)
    BY <1>1
  <2>. QED  BY <2>1
<1>. QED  BY <1>1, <1>4, <1>5

\* An event that is handled is one fewer, and room for the news that the ring is full is
\* made only when that news is taken.
LEMMA HandlesDescends ==
  ASSUME DriverInv, Handles, MeasureOK, MeasureOK'
  PROVE  Descends
<1>0. RestOK /\ QueueOK /\ QueueOK' /\ AnyEvent /\ HandleEvent
      /\ Places \in Nat /\ Places > 1
  BY TypeParts, TakenTypes, XhciAssumption DEF DriverInv, Handles, XhciContinues
<1>1. UNCHANGED <<usb_pc, call, stage, cmd, tr_cur, hc_cmd, ep_state, tds, hc_deq>>
  BY DEF Handles, pipeVars, cmdVars, hcVars
<1>2. /\ CallLeft' = CallLeft /\ CommandLeft' = CommandLeft
      /\ TransferLeft' = TransferLeft /\ ReportsLeft' = ReportsLeft
  <2>1. usb_pc # "taking"
    BY DEF Handles
  <2>2. Follows' = Follows /\ Waits' = Waits /\ Left(call.ep)' = Left(call.ep)
    BY <1>1 DEF Follows, Waits, Left
  <2>. QED  BY <1>1, <2>1, <2>2 DEF CallLeft, CommandLeft, TransferLeft, Doing, ReportsLeft, Turn
<1>3. EventsLeft' < EventsLeft
  <2>1. /\ queue \in Seq(Items) /\ queue # <<>> /\ queue' = Tail(queue)
        /\ taken \in Nat /\ taken' \in {taken + 1, 0}
        /\ Len(queue) \in Nat /\ Len(queue') = Len(queue) - 1 /\ Len(queue) > 0
    BY <1>0, HandledIs DEF DriverInv, DriverTypeOK, QueueOK, AnyEvent
  <2>2. Used' \in Nat /\ Used \in Nat /\ Used' <= Used
    BY <2>1 DEF Used
  <2>3. CASE Used < Places - 1
    BY <1>0, <2>1, <2>2, <2>3 DEF EventsLeft
  <2>4. CASE SaidFull /\ Len(queue) > 1
    <3>1. SaidFull'
      <4>1. queue'[Len(queue')] = queue[Len(queue)] /\ queue' # <<>>
        BY <2>1, <2>4, LastStays
      <4>. QED  BY <2>4, <4>1 DEF SaidFull
    <3>. QED  BY <2>1, <2>4, <3>1 DEF EventsLeft
  <2>5. CASE SaidFull /\ Len(queue) = 1
    <3>1. Event = FullEvent
      BY <2>1, <2>5 DEF SaidFull, Event
    <3>2. taken' = 0
      BY <1>0, <3>1 DEF HandleEvent, EventType, TakeAndGiveBack
    <3>3. Used' = 0
      BY <2>1, <2>5, <3>2 DEF Used
    <3>. QED  BY <1>0, <2>1, <2>5, <3>3 DEF EventsLeft
  <2>6. CASE ~SaidFull /\ ~(Used < Places - 1)
    BY <2>1, <2>6 DEF EventsLeft
  <2>. QED  BY <2>1, <2>3, <2>4, <2>5, <2>6
<1>. QED  BY <1>2, <1>3, DescendsBy DEF Measure

\* A step of the controller finishes a part of what it has to do.
LEMMA HcDescends ==
  ASSUME DriverInv, HcStep, usb_pc # "dead", MeasureOK, MeasureOK'
  PROVE  Descends
<1>0. RestOK /\ QueueOK /\ CallInv /\ PipeInv /\ Places \in Nat /\ Places > 1
  BY TypeParts, XhciAssumption DEF DriverInv
<1>1. UNCHANGED <<usb_pc, call, stage, cmd, tr_cur, intrq>>
  BY DEF HcStep, driverVars, pipeVars, cmdVars, queueVars
<1>2. CallLeft' = CallLeft
  <2>1. Follows' = Follows /\ Waits' = Waits /\ Left(call.ep)' = Left(call.ep)
    BY <1>1 DEF Follows, Waits, Left
  <2>. QED  BY <1>1, <2>1 DEF CallLeft, Turn
<1>3. CASE HcCommand
  <2>1. CommandLeft' < CommandLeft
    <3>1. \/ hc_cmd = "running" /\ hc_cmd' = "forced"
          \/ hc_cmd \in {"running", "forced"} /\ hc_cmd' = "none"
          \/ hc_cmd = "aborting" /\ hc_cmd' = "stopping"
          \/ hc_cmd = "stopping" /\ hc_cmd' = "none"
      BY <1>3 DEF HcCommand, HcForcedStop, HcCompletes, HcAborts
    <3>. QED  BY <3>1 DEF CommandLeft
  <2>. QED  BY <1>2, <2>1, DescendsBy DEF Measure
<1>4. ASSUME NEW p \in Pipes, HcTransfer(p)
      PROVE  Descends
  <2>1. CommandLeft' = CommandLeft
    BY <1>4 DEF HcTransfer, CommandLeft
  <2>2. ep_state[p] = "running" /\ tds[p] # <<>>
    BY <1>4 DEF HcTransfer, Runs
  <2>3. Doing("transfer") /\ call.ep = p
    BY <1>0, <2>2 DEF PipeInv, PipeOK, Quiet, OnPipe
  <2>4. tds[p] \in Seq(Nat) /\ Len(tds[p]) \in Nat
    BY <1>0 DEF RestOK
  <2>5. TransferLeft = Len(tds[p]) + 1
    BY <2>2, <2>3 DEF TransferLeft
  <2>6. CASE tds' = [tds EXCEPT ![p] = Tail(@)] /\ UNCHANGED ep_state
    <3>1. tds'[p] = Tail(tds[p])
      BY <1>0, <2>6 DEF RestOK
    <3>2. Len(tds'[p]) = Len(tds[p]) - 1
      BY <2>2, <2>4, <3>1
    <3>3. TransferLeft' = Len(tds'[p]) + 1
      BY <1>1, <2>2, <2>3, <2>6 DEF TransferLeft, Doing
    <3>. QED  BY <1>2, <2>1, <2>4, <2>5, <3>2, <3>3, DescendsBy DEF Measure
  <2>7. CASE ep_state' = [ep_state EXCEPT ![p] = "halted"]
    <3>1. ep_state'[p] = "halted"
      BY <1>0, <2>7, Numbers DEF RestOK
    <3>2. TransferLeft' = 0
      BY <1>1, <2>3, <3>1 DEF TransferLeft
    <3>. QED  BY <1>2, <2>1, <2>4, <2>5, <3>2, DescendsBy DEF Measure
  <2>. QED  BY <1>4, <2>6, <2>7 DEF HcTransfer
<1>5. CASE HcReport
  <2>1. CommandLeft' = CommandLeft
    BY <1>5 DEF HcReport, CommandLeft
  <2>2. TransferLeft' = TransferLeft
    <3>1. /\ tds' = tds /\ call' = call
          /\ ep_state' \in {ep_state, [ep_state EXCEPT ![Intr] = "halted"]}
      BY <1>1, <1>5 DEF HcReport
    <3>2. Doing("transfer") => call.ep \in Endpoints /\ call.ep # Intr
      BY <1>0, Numbers DEF CallInv
    <3>3. Doing("transfer") => ep_state'[call.ep] = ep_state[call.ep]
      BY <1>0, <3>1, <3>2 DEF RestOK
    <3>. QED  BY <3>1, <3>3 DEF TransferLeft, Doing
  <2>3. ReportsLeft' < ReportsLeft
    <3>1. hc_deq' = NextTrb(hc_deq) /\ hc_deq # tr_cur /\ hc_deq \in Slots /\ tr_cur \in Slots
      BY <1>0, <1>5 DEF HcReport, RestOK
    <3>2. ReportsLeft' = Turn(NextTrb(hc_deq), tr_cur)
      BY <1>1, <3>1 DEF ReportsLeft, Turn
    <3>. QED  BY <3>1, <3>2, TurnNat DEF ReportsLeft
  <2>. QED  BY <1>2, <2>1, <2>2, <2>3, DescendsBy DEF Measure
<1>6. CASE HcFull
  <2>1. /\ CommandLeft' = CommandLeft /\ TransferLeft' = TransferLeft
        /\ ReportsLeft' = ReportsLeft
    BY <1>1, <1>6 DEF HcFull, hcVars, CommandLeft, TransferLeft, ReportsLeft, Turn, Doing
  <2>2. /\ Used = Places - 1 /\ ~SaidFull /\ queue' = Append(queue, FullEvent)
        /\ queue \in Seq(Items) /\ Len(queue) \in Nat /\ FullEvent \in Items
    BY <1>0, <1>6 DEF HcFull, Post, QueueOK, Items
  <2>3. Len(queue') = Len(queue) + 1 /\ queue' # <<>> /\ queue'[Len(queue')] = FullEvent
    BY <2>2
  <2>4. SaidFull'
    BY <2>3 DEF SaidFull
  <2>5. EventsLeft' = Len(queue) + 1 /\ EventsLeft = Len(queue) + 2
    BY <1>0, <2>2, <2>3, <2>4 DEF EventsLeft
  <2>. QED  BY <1>2, <2>1, <2>2, <2>5, DescendsBy DEF Measure
<1>. QED  BY <1>3, <1>4, <1>5, <1>6 DEF HcStep

\* Every step from the start of a call to its end, of the driver or of the controller,
\* brings the measure closer to its end, in an order of five numbers that has no infinite
\* descent, and the measure always is five numbers: a call of usb/xhci.c has finitely many
\* steps, those of the controller between them and timeouts, stalls, aborts and a full
\* event ring included.
THEOREM EveryStepCounts ==
  InTime =>
    (XhciSpec =>
       /\ IsWellFoundedOn(Closer, [1 .. 5 -> Nat])
       /\ [](Measure \in [1 .. 5 -> Nat])
       /\ [][usb_pc \notin {"idle", "dead"} => Descends]_xhciVars)
<1>. SUFFICES ASSUME InTime
              PROVE  XhciSpec =>
                       /\ IsWellFoundedOn(Closer, [1 .. 5 -> Nat])
                       /\ [](Measure \in [1 .. 5 -> Nat])
                       /\ [][usb_pc \notin {"idle", "dead"} => Descends]_xhciVars
  OBVIOUS
<1>1. ASSUME DriverInv, MeasureOK, MeasureOK', [XhciNext]_xhciVars
      PROVE  [usb_pc \notin {"idle", "dead"} => Descends]_xhciVars
  <2>. SUFFICES ASSUME usb_pc \notin {"idle", "dead"}, XhciNext
                PROVE  Descends \/ UNCHANGED xhciVars
    BY <1>1
  <2>1. CASE XhciCall
    BY <2>1 DEF XhciCall, StartTransfer, EnableSlot, CreateIntrQueue, DestroyIntrQueue,
                PollIntrQueue, Waiting
  <2>2. CASE XhciContinues /\ ~Handles
    <3>1. CallLeft' < CallLeft
      BY <1>1, <2>2, DriverDescends
    <3>. QED  BY <1>1, <3>1, DescendsBy DEF Measure
  <2>3. CASE Handles
    BY <1>1, <2>3, HandlesDescends
  <2>4. CASE HcStep
    BY <1>1, <2>4, HcDescends
  <2>5. CASE Died
    BY <2>5 DEF Died
  <2>. QED  BY <2>1, <2>2, <2>3, <2>4, <2>5 DEF XhciNext
<1>2. DriverInv => Measure \in [1 .. 5 -> Nat]
  BY MeasureNat DEF MeasureOK
<1>3. IsWellFoundedOn(Closer, [1 .. 5 -> Nat])
  BY ClosesIn
<1>. QED  BY <1>1, <1>2, <1>3, DriverInvariant, MeasureNat, PTL DEF XhciSpec

\* When every place is taken, the last event says so: the place is kept for it, and
\* whatever takes it gives all the places back.
RoomInv == Used < Places \/ SaidFull

TakesAll ==
  /\ queue' = Tail(queue) /\ taken' \in {taken + 1, 0}
  /\ Event = FullEvent => taken' = 0

\* The driver takes nothing, or the event in front; the news that the ring is full it takes
\* only with every place given back.
LEMMA ContinuesTake ==
  ASSUME DriverInv, XhciContinues
  PROVE  \/ queue' = queue /\ taken' \in {taken, 0}
         \/ AnyEvent /\ TakesAll
<1>0. QueueOK /\ CommandInv
  BY TypeParts DEF DriverInv
<1>1. CASE Handles
  BY <1>1, HandledIs DEF DriverInv, Handles, HandleEvent, EventType, TakeAndGiveBack, TakesAll
<1>2. CASE Wanted /\ (Take \/ TakeAndGiveBack)
  <2>1. AnyEvent /\ EventType \in {"command", "transfer"}
    BY <1>2 DEF Wanted
  <2>2. Event # FullEvent
    BY <2>1 DEF EventType
  <2>. QED  BY <1>2, <2>1, <2>2 DEF Take, TakeAndGiveBack, TakesAll
<1>3. CASE SlotAdvance
  <2>1. AnyEvent /\ Take /\ 1 \in Answers
    BY <1>0, <1>3 DEF SlotAdvance, Waiting, Take, AnyEvent, CommandInv
  <2>2. Event # FullEvent
    BY <1>0, <2>1, InFront DEF EventType
  <2>. QED  BY <2>1, <2>2 DEF Take, TakesAll
<1>4. CASE GiveBack \/ UNCHANGED eventVars
  BY <1>4 DEF GiveBack, eventVars
<1>5. Handles \/ (Wanted /\ (Take \/ TakeAndGiveBack)) \/ SlotAdvance \/ GiveBack \/ UNCHANGED eventVars
  BY DEF XhciContinues, CommandDone, CommandTimeout, Aborted, RingStopped, AbortTimeout, StageDone,
         TransferTimeout, Drained, Polled, TakeReport, NothingReady, TimesOut
<1>. QED  BY <1>1, <1>2, <1>3, <1>4, <1>5

\* A place is left, or the last event says that there is none.
LEMMA RoomStep ==
  ASSUME InTime, DriverInv, RoomInv, [XhciNext]_xhciVars
  PROVE  RoomInv'
<1>0. QueueOK /\ QueueOK' /\ CommandInv /\ Places \in Nat /\ Places > 1
  <2>1. QueueOK'
    BY TypesStep DEF DriverInv, DriverTypeOK
  <2>. QED  BY <2>1, TypeParts, XhciAssumption DEF DriverInv
<1>1. queue \in Seq(Items) /\ Len(queue) \in Nat /\ taken \in Nat
  BY <1>0 DEF QueueOK
<1>2. ASSUME NEW e, Post(e)
      PROVE  RoomInv'
  <2>1. queue' = Append(queue, e) /\ taken' = taken
    BY <1>2 DEF Post
  <2>2. Len(queue') = Len(queue) + 1 /\ queue'[Len(queue')] = e /\ queue' # <<>>
    BY <1>1, <2>1
  <2>. QED  BY <1>0, <1>1, <1>2, <2>1, <2>2 DEF Post, RoomInv, Used, SaidFull
<1>3. CASE queue' = queue /\ taken' \in {taken, 0}
  BY <1>0, <1>1, <1>3 DEF RoomInv, Used, SaidFull
<1>4. CASE AnyEvent /\ TakesAll
  <2>1. queue # <<>> /\ queue' = Tail(queue) /\ taken' \in {taken + 1, 0}
    BY <1>4 DEF TakesAll, AnyEvent
  <2>2. Len(queue) > 0 /\ Len(queue') = Len(queue) - 1
        /\ \A i \in 1 .. Len(queue') : queue'[i] = queue[i + 1]
    BY <1>1, <2>1
  <2>3. CASE Used < Places
    <3>1. Used' < Places
      BY <1>0, <1>1, <2>1, <2>2, <2>3 DEF Used
    <3>. QED  BY <3>1 DEF RoomInv
  <2>4. CASE SaidFull /\ Len(queue) > 1
    <3>1. queue'[Len(queue')] = queue[Len(queue)] /\ queue' # <<>>
      BY <1>1, <2>1, <2>4, LastStays
    <3>. QED  BY <2>4, <3>1 DEF SaidFull, RoomInv
  <2>5. CASE SaidFull /\ Len(queue) = 1
    <3>1. Event = FullEvent
      BY <1>1, <2>1, <2>5 DEF SaidFull, Event
    <3>2. taken' = 0
      BY <1>4, <3>1 DEF TakesAll
    <3>3. Used' < Places
      BY <1>0, <2>2, <2>5, <3>2 DEF Used
    <3>. QED  BY <3>3 DEF RoomInv
  <2>. QED  BY <1>1, <2>2, <2>3, <2>4, <2>5 DEF RoomInv
<1>5. CASE XhciCall
  <2>1. UNCHANGED eventVars
    BY <1>5 DEF XhciCall, StartTransfer, EnableSlot, CreateIntrQueue, DestroyIntrQueue, PollIntrQueue
  <2>. QED  BY <1>3, <2>1 DEF eventVars
<1>6. CASE XhciContinues
  BY <1>3, <1>4, <1>6, ContinuesTake
<1>7. CASE HcStep
  <2>1. \E e : Post(e)
    BY <1>7 DEF HcStep, HcCommand, HcForcedStop, HcCompletes, HcAborts, HcTransfer, HcReport, HcFull
  <2>. QED  BY <1>2, <2>1
<1>8. CASE Died \/ UNCHANGED xhciVars
  BY <1>3, <1>8 DEF Died, xhciVars, eventVars
<1>. QED  BY <1>5, <1>6, <1>7, <1>8 DEF XhciNext

\* What the driver waits for and what the controller can post, guards only: the conditions
\* under which XhciContinues, HcCompletes or HcFull may be taken.
DriverCan ==
  \/ AnyEvent
  \/ usb_pc \in {"transfer", "draining", "polling", "taking"}
  \/ usb_pc \in {"aborting", "stopping"} /\ hc_cmd # "none"
ControllerCan ==
  \/ hc_cmd \in {"running", "forced"} /\ Used < Places - 1
  \/ Used = Places - 1 /\ ~SaidFull
NoneWaitsForTheOther == usb_pc \notin {"idle", "dead"} => DriverCan \/ ControllerCan

\* Where nobody could go on, an answer would be on its way after all.
LEMMA GoesOn ==
  ASSUME DriverInv, RoomInv
  PROVE  NoneWaitsForTheOther
<1>0. RestOK /\ QueueOK /\ CommandInv /\ Places \in Nat /\ Places > 1
  BY TypeParts, XhciAssumption DEF DriverInv
<1>1. Answers # {} => AnyEvent
  BY <1>0 DEF Answers, AnyEvent, QueueOK
<1>2. CASE usb_pc = "command" /\ ~AnyEvent
  <2>1. hc_cmd \in {"running", "forced"}
    BY <1>0, <1>1, <1>2 DEF CommandInv
  <2>2. ~SaidFull /\ Used < Places /\ Used \in Nat
    BY <1>0, <1>2 DEF AnyEvent, SaidFull, RoomInv, QueueOK
  <2>. QED  BY <1>0, <2>1, <2>2 DEF ControllerCan, NoneWaitsForTheOther
<1>3. CASE usb_pc \in {"aborting", "stopping", "slot"} /\ ~AnyEvent
  BY <1>0, <1>1, <1>3 DEF CommandInv, DriverCan, NoneWaitsForTheOther
<1>. QED  BY <1>0, <1>2, <1>3 DEF RestOK, DriverCan, NoneWaitsForTheOther

\* No call is stuck: whenever one is in progress the driver has an event to look at or
\* its time is up, or the controller can post the event that it waits for.
THEOREM NobodyWaitsForEver == InTime => (XhciSpec => []NoneWaitsForTheOther)
<1>. SUFFICES ASSUME InTime
              PROVE  XhciSpec => []NoneWaitsForTheOther
  OBVIOUS
<1>1. XhciInit => RoomInv
  BY XhciAssumption DEF XhciInit, QueueInit, RoomInv, Used
<1>2. DriverInv /\ RoomInv /\ [XhciNext]_xhciVars => RoomInv'
  BY RoomStep
<1>3. DriverInv /\ RoomInv => NoneWaitsForTheOther
  BY GoesOn
<1>. QED  BY <1>1, <1>2, <1>3, DriverInvariant, PTL DEF XhciSpec
-----------------------------------------------------------------------------
(***************************************************************************)
(* The event ring: the cycle bits keep the driver and the controller in    *)
(* step, and the ring is a queue.                                          *)
(***************************************************************************)
RingTypeOK ==
  /\ cycle \in [Entries -> {0, 1}]
  /\ event \in [Entries -> Trbs \cup {FullTrb, NoTrb}]
  /\ cur \in Entries /\ enq \in Entries /\ erdp \in Entries
  /\ ccs \in {0, 1} /\ pcs \in {0, 1} /\ adv \in {0, 1}

\* The controller has written the entries before its pointer in this lap, and the
\* others in the last one.
CycleInv == \A i \in Entries : cycle[i] = IF i < enq THEN pcs ELSE 1 - pcs

\* The driver is behind the controller: in the same lap or in the one before.
LapInv == IF ccs = pcs THEN cur <= enq ELSE cur > enq

\* Going round, the register comes first, then the driver, then the controller.
OrderInv == Ahead(erdp, cur) + Ahead(cur, enq) = Ahead(erdp, enq)

\* What xhci_update_event_dq() would not tell has been told.
ToldInv == erdp # cur => adv = 1

RingInv == RingTypeOK /\ CycleInv /\ LapInv /\ OrderInv /\ ToldInv

USE EventRingAssumption

-----------------------------------------------------------------------------
LEMMA RingInitially == RingInit => RingInv
BY DEF RingInit, RingInv, RingTypeOK, CycleInv, LapInv, OrderInv, ToldInv, Entries, Ahead

\* The bits tell the truth.
LEMMA InvInStep == RingInv => InStep
BY DEF RingInv, RingTypeOK, CycleInv, LapInv, InStep, EventReady, Entries

LEMMA PostInv ==
  ASSUME RingInv, NEW e \in Trbs \cup {FullTrb}, HcPost(e), UNCHANGED driverRing
  PROVE  RingInv'
<1>1. cur \in Entries /\ enq \in Entries /\ erdp \in Entries /\ enq' = Step(enq)
  BY DEF RingInv, RingTypeOK, HcPost
<1>2. Ahead(erdp, enq) < EventRingSize - 1
  BY <1>1, EventRingAssumption DEF HcPost, Entries, Ahead
<1>3. RingTypeOK'
  BY DEF RingInv, RingTypeOK, HcPost, Step, Entries, driverRing
<1>4. CycleInv'
  <2>0. pcs \in {0, 1} /\ pcs' = (IF Step(enq) = 0 THEN 1 - pcs ELSE pcs)
    BY DEF HcPost, RingInv, RingTypeOK
  <2> SUFFICES ASSUME NEW i \in Entries
               PROVE  cycle'[i] = IF i < enq' THEN pcs' ELSE 1 - pcs'
    BY DEF CycleInv
  <2>1. cycle'[i] = IF i = enq THEN pcs ELSE cycle[i]
    BY DEF HcPost, RingInv, RingTypeOK
  <2>2. cycle[i] = IF i < enq THEN pcs ELSE 1 - pcs
    BY DEF RingInv, CycleInv
  <2> QED
    BY <1>1, <2>0, <2>1, <2>2 DEF Step, Entries
<1>5. LapInv' /\ OrderInv'
  BY <1>1, <1>2 DEF RingInv, RingTypeOK, LapInv, OrderInv, HcPost, Step, Ahead, Entries, driverRing
<1>6. ToldInv'
  BY DEF RingInv, ToldInv, driverRing
<1> QED
  BY <1>3, <1>4, <1>5, <1>6 DEF RingInv

LEMMA TakeInv ==
  ASSUME RingInv, TakeEvent \/ TakeAndUpdate
  PROVE  RingInv' /\ cur # enq /\ cur' = Step(cur) /\ erdp' \in {erdp, cur'}
<1>1. cur # enq
  BY InvInStep DEF InStep, TakeEvent, TakeAndUpdate
<1>2. /\ cur' = Step(cur)
      /\ ccs' = IF cur' = 0 THEN 1 - ccs ELSE ccs
      /\ \/ erdp' = cur' /\ adv' = 0
         \/ erdp' = erdp /\ adv' = 1
      /\ event' = [event EXCEPT ![cur] = NoTrb]
      /\ cycle' = cycle /\ enq' = enq /\ pcs' = pcs
  BY DEF TakeEvent, TakeAndUpdate, Advance, Consumed
<1>3. RingTypeOK'
  BY <1>2 DEF RingInv, RingTypeOK, Step, Entries
<1>4. CycleInv' /\ ToldInv'
  BY <1>2 DEF RingInv, CycleInv, ToldInv
<1>5. LapInv' /\ OrderInv'
  BY <1>1, <1>2 DEF RingInv, RingTypeOK, LapInv, OrderInv, Step, Ahead, Entries
<1> QED
  BY <1>1, <1>2, <1>3, <1>4, <1>5 DEF RingInv

LEMMA UpdateInv ==
  ASSUME RingInv, UpdateEventDq, UNCHANGED hcRing
  PROVE  RingInv' /\ erdp' = cur /\ cur' = cur
<1>1. erdp' = cur /\ adv' = 0 /\ cur' = cur /\ ccs' = ccs
  BY DEF UpdateEventDq, RingInv, RingTypeOK, ToldInv
<1> QED
  BY <1>1 DEF hcRing, RingInv, RingTypeOK, CycleInv, LapInv, OrderInv, ToldInv, Ahead, Entries

LEMMA RingStep == RingInv /\ [RingNext]_ringVars => RingInv'
<1> SUFFICES ASSUME RingInv, [RingNext]_ringVars
             PROVE  RingInv'
  OBVIOUS
<1>1. CASE \E e \in Trbs \cup {FullTrb} : HcPost(e) /\ UNCHANGED driverRing
  BY <1>1, PostInv
<1>2. CASE TakeEvent \/ TakeAndUpdate
  BY <1>2, TakeInv
<1>3. CASE UpdateEventDq /\ UNCHANGED hcRing
  BY <1>3, UpdateInv
<1>4. CASE UNCHANGED ringVars
  BY <1>4 DEF ringVars, driverRing, hcRing, RingInv, RingTypeOK, CycleInv, LapInv, OrderInv, ToldInv
<1> QED
  BY <1>1, <1>2, <1>3, <1>4 DEF RingNext

LEMMA RingInvariant == RingSpec => []RingInv
BY RingInitially, RingStep, PTL DEF RingSpec

\* The cycle bits alone tell the driver when there is an event, in a ring of any size
\* and over any number of laps (xhci_event_ready(), xhci_advance_event_ring()).
THEOREM AlwaysInStep == RingSpec => []InStep
BY RingInvariant, InvInStep, PTL

-----------------------------------------------------------------------------
(***************************************************************************)
(* The ring implements the queue of EventQueue.                            *)
(***************************************************************************)
Found == Trbs \cup {FullTrb, NoTrb}

LEMMA AheadNat ==
  ASSUME NEW a \in Entries, NEW b \in Entries
  PROVE  /\ Ahead(a, b) \in 0 .. EventRingSize - 1
         /\ Ahead(a, b) = 0 <=> a = b
BY DEF Ahead, Entries

PendingIsSeq ==
  /\ Pending \in Seq(Found)
  /\ Len(Pending) = Ahead(cur, enq)
  /\ \A i \in 1 .. Ahead(cur, enq) : Place(i) \in Entries /\ Pending[i] = event[Place(i)]

LEMMA PendingSeqAlways == RingInv => PendingIsSeq
<1> SUFFICES ASSUME RingInv
             PROVE  PendingIsSeq
  OBVIOUS
<1>1. cur \in Entries /\ enq \in Entries /\ event \in [Entries -> Found]
  BY DEF RingInv, RingTypeOK, Found
<1>2. Ahead(cur, enq) \in 0 .. EventRingSize - 1
  BY <1>1, AheadNat
<1>3. \A i \in 1 .. Ahead(cur, enq) : Place(i) \in Entries
  BY <1>1, <1>2 DEF Place, Entries
<1>4. Pending \in [1 .. Ahead(cur, enq) -> Found]
  BY <1>1, <1>3 DEF Pending
<1>5. Ahead(cur, enq) \in Nat
  BY <1>2
<1>6. Pending \in Seq(Found) /\ Len(Pending) = Ahead(cur, enq)
  <2> DEFINE n == Ahead(cur, enq)
             p == Pending
  <2>1. n \in Nat /\ p \in [1 .. n -> Found]
    BY <1>4, <1>5
  <2> HIDE DEF n, p
  <2>2. p \in Seq(Found) /\ Len(p) = n
    BY <2>1
  <2> QED
    BY <2>2 DEF n, p
<1> QED
  BY <1>3, <1>6 DEF Pending, PendingIsSeq

LEMMA PendingSeq ==
  ASSUME RingInv
  PROVE  PendingIsSeq
BY PendingSeqAlways

LEMMA PendingSeqNext ==
  ASSUME RingInv'
  PROVE  PendingIsSeq'
BY PendingSeqAlways, PTL

\* Posting appends.
LEMMA PostAppends ==
  ASSUME RingInv, NEW e \in Trbs \cup {FullTrb}, HcPost(e), UNCHANGED driverRing
  PROVE  Pending' = Append(Pending, e)
<1>1. RingInv'
  BY PostInv
<1>2. cur \in Entries /\ enq \in Entries /\ erdp \in Entries /\ enq' = Step(enq) /\ cur' = cur
  BY DEF RingInv, RingTypeOK, HcPost, driverRing
<1>3. Ahead(cur, enq) + 1 = Ahead(cur, enq')
  <2>1. Ahead(erdp, enq) < EventRingSize - 1
    BY <1>2, EventRingAssumption DEF HcPost, Entries, Ahead
  <2>2. Ahead(erdp, cur) + Ahead(cur, enq) = Ahead(erdp, enq)
    BY DEF RingInv, OrderInv
  <2> QED
    BY <1>2, <2>1, <2>2 DEF Ahead, Step, Entries
<1>4. e \in Found
  BY DEF Found
<1>5. /\ Pending' \in Seq(Found)
      /\ Len(Pending') = Ahead(cur, enq')
      /\ \A i \in 1 .. Ahead(cur, enq') : Place(i)' \in Entries /\ Pending'[i] = event'[Place(i)']
  BY <1>1, <1>2, PendingSeqNext DEF PendingIsSeq, Ahead
<1>6. /\ Append(Pending, e) \in Seq(Found)
      /\ Len(Append(Pending, e)) = Ahead(cur, enq')
  BY <1>3, <1>4, PendingSeq, AppendProperties DEF PendingIsSeq
<1>7. ASSUME NEW i \in 1 .. Ahead(cur, enq')
      PROVE  Pending'[i] = Append(Pending, e)[i]
  <2>1. Place(i)' = Place(i)
    BY <1>2 DEF Place
  <2>2. event' = [event EXCEPT ![enq] = e] /\ event \in [Entries -> Found]
    BY DEF HcPost, RingInv, RingTypeOK, Found
  <2>3. CASE i = Ahead(cur, enq')
    <3>1. Place(i) = enq
      BY <1>2, <1>3, <2>3 DEF Place, Ahead, Step, Entries
    <3>2. Append(Pending, e)[i] = e
      BY <1>3, <1>4, <2>3, PendingSeq, AppendProperties DEF PendingIsSeq
    <3> QED
      BY <1>2, <1>5, <2>1, <2>2, <3>1, <3>2
  <2>4. CASE i # Ahead(cur, enq')
    <3>1. Ahead(cur, enq) \in Nat
      BY <1>2, AheadNat
    <3>2. i \in 1 .. Ahead(cur, enq)
      BY <1>3, <2>4, <3>1
    <3>3. Place(i) \in Entries /\ Place(i) # enq
      BY <1>2, <3>2 DEF Place, Ahead, Entries
    <3>4. Append(Pending, e)[i] = event[Place(i)]
      BY <1>4, <3>2, PendingSeq, AppendProperties DEF PendingIsSeq
    <3> QED
      BY <1>2, <1>5, <2>1, <2>2, <3>3, <3>4
  <2> QED
    BY <2>3, <2>4
<1> QED
  BY <1>5, <1>6, <1>7, SeqEqual

\* Taking removes the first.
LEMMA TakeRemoves ==
  ASSUME RingInv, TakeEvent \/ TakeAndUpdate
  PROVE  Pending # <<>> /\ Pending' = Tail(Pending)
<1>1. RingInv' /\ cur # enq /\ cur' = Step(cur)
  BY TakeInv
<1>2. /\ cur \in Entries /\ enq \in Entries /\ enq' = enq
      /\ event' = [event EXCEPT ![cur] = NoTrb] /\ event \in [Entries -> Found]
  BY DEF RingInv, RingTypeOK, TakeEvent, TakeAndUpdate, Consumed, Found
<1>3. Ahead(cur', enq) = Ahead(cur, enq) - 1 /\ Ahead(cur, enq) \in Nat /\ Ahead(cur, enq) > 0
  BY <1>1, <1>2 DEF Ahead, Step, Entries
<1>4. Pending # <<>>
  BY <1>3, PendingSeq, EmptySeq DEF PendingIsSeq
<1>5. /\ Tail(Pending) \in Seq(Found)
      /\ Len(Tail(Pending)) = Ahead(cur', enq)
      /\ \A i \in 1 .. Ahead(cur', enq) : Tail(Pending)[i] = Pending[i + 1]
  BY <1>3, <1>4, PendingSeq, HeadTailProperties DEF PendingIsSeq
<1>6. /\ Pending' \in Seq(Found)
      /\ Len(Pending') = Ahead(cur', enq)
      /\ \A i \in 1 .. Ahead(cur', enq) : Pending'[i] = event'[Place(i)']
  BY <1>1, <1>2, PendingSeqNext DEF PendingIsSeq, Ahead
<1>7. ASSUME NEW i \in 1 .. Ahead(cur', enq)
      PROVE  Pending'[i] = Tail(Pending)[i]
  <2>1. i + 1 \in 1 .. Ahead(cur, enq) /\ i \in Nat
    BY <1>3
  <2>2. Place(i)' = Place(i + 1)
    BY <1>1, <1>2, <1>3, <2>1 DEF Place, Step, Entries, Ahead
  <2>3. Place(i + 1) # cur /\ Place(i + 1) \in Entries
    BY <1>2, <2>1 DEF Place, Entries, Ahead
  <2>4. Pending[i + 1] = event[Place(i + 1)]
    BY <2>1, PendingSeq DEF PendingIsSeq
  <2> QED
    BY <1>2, <1>5, <1>6, <2>2, <2>3, <2>4
<1> QED
  BY <1>4, <1>5, <1>6, <1>7, SeqEqual

LEMMA PostImplements ==
  ASSUME RingInv, NEW e \in Trbs \cup {FullTrb}, HcPost(e), UNCHANGED driverRing
  PROVE  Queue!Post(e)
<1>1. cur \in Entries /\ enq \in Entries /\ erdp \in Entries /\ enq' = Step(enq)
      /\ cur' = cur /\ erdp' = erdp
  BY DEF RingInv, RingTypeOK, HcPost, driverRing
<1>2. Queue!Used = Ahead(erdp, enq)
  <2>1. Ahead(erdp, cur) \in Nat /\ Ahead(cur, enq) \in Nat
    BY <1>1, AheadNat
  <2> QED
    BY <2>1, PendingSeq DEF Queue!Used, RingInv, OrderInv, PendingIsSeq
<1>3. Queue!SaidFull => RingSaidFull
  <2> SUFFICES ASSUME Queue!SaidFull
               PROVE  RingSaidFull
    OBVIOUS
  <2>1. Pending # <<>> /\ Pending[Len(Pending)] = FullTrb
    BY DEF Queue!SaidFull
  <2>2. Ahead(cur, enq) \in 1 .. Ahead(cur, enq)
    BY <1>1, <2>1, AheadNat, PendingSeq, EmptySeq DEF PendingIsSeq
  <2>3. event[Place(Ahead(cur, enq))] = FullTrb
    BY <2>1, <2>2, PendingSeq DEF PendingIsSeq
  <2>4. Place(Ahead(cur, enq)) = IF enq = 0 THEN EventRingSize - 1 ELSE enq - 1
    BY <1>1, <2>2 DEF Place, Ahead, Entries
  <2> QED
    BY <2>3, <2>4 DEF RingSaidFull
<1>4. IF e = FullTrb THEN Queue!Used = EventRingSize - 1 - 1 /\ ~Queue!SaidFull
                     ELSE Queue!Used < EventRingSize - 1 - 1
  BY <1>1, <1>2, <1>3, EventRingAssumption DEF HcPost
<1>5. Pending' = Append(Pending, e)
  BY PostAppends
<1>6. Ahead(erdp, cur)' = Ahead(erdp, cur)
  BY <1>1 DEF Ahead
<1> QED
  BY <1>4, <1>5, <1>6 DEF Queue!Post

LEMMA TakeImplements ==
  ASSUME RingInv, TakeEvent \/ TakeAndUpdate
  PROVE  Queue!Take
<1>1. cur # enq /\ cur' = Step(cur) /\ erdp' \in {erdp, cur'}
  BY TakeInv
<1>2. cur \in Entries /\ enq \in Entries /\ erdp \in Entries
  BY DEF RingInv, RingTypeOK
<1>3. Ahead(erdp, cur) + Ahead(cur, enq) = Ahead(erdp, enq)
  BY DEF RingInv, OrderInv
<1>4. Ahead(erdp, cur)' \in {Ahead(erdp, cur) + 1, 0}
  <2>1. CASE erdp' = cur'
    BY <1>1, <1>2, <2>1 DEF Ahead, Step, Entries
  <2>2. CASE erdp' = erdp
    <3>1. Ahead(erdp, Step(cur)) = Ahead(erdp, cur) + 1
      BY <1>1, <1>2, <1>3 DEF Ahead, Step, Entries
    <3> QED
      BY <1>1, <2>2, <3>1 DEF Ahead
  <2> QED
    BY <1>1, <2>1, <2>2
<1>5. Pending # <<>> /\ Pending' = Tail(Pending)
  BY TakeRemoves
<1> QED
  BY <1>4, <1>5 DEF Queue!Take

LEMMA UpdateImplements ==
  ASSUME RingInv, UpdateEventDq, UNCHANGED hcRing
  PROVE  Queue!GiveBack
<1>1. erdp' = cur /\ cur' = cur /\ cur \in Entries /\ enq' = enq /\ event' = event
  BY UpdateInv DEF hcRing, RingInv, RingTypeOK
<1>2. Ahead(erdp, cur)' = 0
  BY <1>1 DEF Ahead, Entries
<1>3. Pending' = Pending
  BY <1>1 DEF Pending, Place, Ahead
<1> QED
  BY <1>2, <1>3 DEF Queue!GiveBack

LEMMA RingStepImplements == RingInv /\ [RingNext]_ringVars => [Queue!QueueNext]_(Queue!eventVars)
<1> SUFFICES ASSUME RingInv, [RingNext]_ringVars
             PROVE  [Queue!QueueNext]_(Queue!eventVars)
  OBVIOUS
<1>1. CASE \E e \in Trbs \cup {FullTrb} : HcPost(e) /\ UNCHANGED driverRing
  BY <1>1, PostImplements DEF Queue!QueueNext
<1>2. CASE TakeEvent \/ TakeAndUpdate
  BY <1>2, TakeImplements DEF Queue!QueueNext
<1>3. CASE UpdateEventDq /\ UNCHANGED hcRing
  BY <1>3, UpdateImplements DEF Queue!QueueNext
<1>4. CASE UNCHANGED ringVars
  BY <1>4 DEF ringVars, driverRing, hcRing, Queue!eventVars, Pending, Place, Ahead
<1> QED
  BY <1>1, <1>2, <1>3, <1>4 DEF RingNext

LEMMA RingInitImplements == RingInit => Queue!QueueInit
<1> SUFFICES ASSUME RingInit
             PROVE  Queue!QueueInit
  OBVIOUS
<1>1. Ahead(cur, enq) = 0 /\ Ahead(erdp, cur) = 0
  BY DEF RingInit, Ahead
<1>2. Pending = <<>>
  BY <1>1, RingInitially, PendingSeq, EmptySeq DEF PendingIsSeq
<1> QED
  BY <1>1, <1>2 DEF Queue!QueueInit

\* In a ring of any size no event is overtaken, repeated or overwritten: the ring with
\* its two cycle bits and the register that lags behind is a queue.
THEOREM RingIsQueue == RingSpec => ImplementsEventQueue
<1>1. RingInit => Queue!QueueInit
  BY RingInitImplements
<1>2. RingInv /\ [RingNext]_ringVars => [Queue!QueueNext]_(Queue!eventVars)
  BY RingStepImplements
<1>3. RingSpec => []RingInv
  BY RingInvariant
<1> QED
  BY <1>1, <1>2, <1>3, PTL DEF RingSpec, ImplementsEventQueue, Queue!QueueSpec

-----------------------------------------------------------------------------
(***************************************************************************)
(* The ring beside the driver.                                             *)
(***************************************************************************)

\* In a behaviour of either, each keeps its types: the other leaves its variables alone.
THEOREM UsbTypeCorrect == InTime => (MCSpec => []UsbTypeOK)
<1>. SUFFICES ASSUME InTime
              PROVE  MCSpec => []UsbTypeOK
  OBVIOUS
<1>1. MCInit => RingInv /\ DriverInv
  BY RingInitially, TypesInit, CallsInit, PipesInit, IntrInit DEF MCInit, DriverInv
<1>2. RingInv /\ DriverInv /\ [MCNext]_<<ringVars, xhciVars, layer>> => RingInv' /\ DriverInv'
  <2>1. ASSUME [MCNext]_<<ringVars, xhciVars, layer>>
        PROVE  [RingNext]_ringVars /\ [XhciNext]_xhciVars
    BY <2>1 DEF MCNext
  <2>2. ASSUME DriverInv, [XhciNext]_xhciVars
        PROVE  DriverInv'
    BY <2>2, TypesStep, CommandsStep, PipesStep, IntrStep DEF DriverInv
  <2>. QED  BY <2>1, <2>2, RingStep
<1>3. RingInv /\ DriverInv => UsbTypeOK
  BY DEF RingInv, RingTypeOK, DriverInv, DriverTypeOK, UsbTypeOK
<1>. QED  BY <1>1, <1>2, <1>3, PTL DEF MCSpec
=============================================================================
