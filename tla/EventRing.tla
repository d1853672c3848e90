----------------------------- MODULE EventRing ------------------------------
(***************************************************************************)
(* The event ring between the xHCI controller and                          *)
(* libpayload/drivers/usb/xhci_events.c.  The controller writes events at  *)
(* its enqueue pointer and the driver reads them at "cur".  Neither sees   *)
(* the other's pointer: an entry is new when its cycle bit is that of the  *)
(* reader's lap, and the controller knows the driver's place only as of    *)
(* the last write to the dequeue register.                                 *)
(***************************************************************************)
EXTENDS Integers, Sequences

CONSTANTS
  EventRingSize, \* EVENT_RING_SIZE
  Trbs,          \* what the controller reports
  FullTrb, NoTrb \* "Event Ring Full Error", and nothing yet

ASSUME EventRingAssumption ==
  /\ EventRingSize \in Nat /\ EventRingSize > 2
  /\ FullTrb \notin Trbs /\ NoTrb \notin Trbs \cup {FullTrb}

VARIABLES
  cycle,         \* the cycle bit of each entry
  event,         \* what each entry reports
  cur, ccs, adv, \* event_ring_t
  erdp,          \* the dequeue register of the controller
  enq, pcs       \* the controller's enqueue pointer and cycle state

driverRing == <<cur, ccs, adv, erdp>>
hcRing == <<cycle, event, enq, pcs>>
ringVars == <<driverRing, hcRing>>

Entries == 0 .. EventRingSize - 1

\* The entry after "i", and how far "b" is ahead of "a".
Step(i) == IF i = EventRingSize - 1 THEN 0 ELSE i + 1
Ahead(a, b) == IF a <= b THEN b - a ELSE b - a + EventRingSize

\* xhci_reset_event_ring(); the controller starts with its cycle state set.
RingInit ==
  /\ cycle = [i \in Entries |-> 0]
  /\ event = [i \in Entries |-> NoTrb]
  /\ cur = 0 /\ ccs = 1 /\ adv = 1
  /\ erdp = 0
  /\ enq = 0 /\ pcs = 1

-----------------------------------------------------------------------------
\* The controller.  It stops one entry short of the dequeue register, and uses
\* the entry before that to say so.
RingSaidFull == event[IF enq = 0 THEN EventRingSize - 1 ELSE enq - 1] = FullTrb

HcPostMutant(e) ==
  /\ IF e = FullTrb
     THEN Ahead(erdp, enq) = EventRingSize - 1 /\ ~RingSaidFull
     ELSE Ahead(erdp, enq) < EventRingSize - 1
  /\ cycle' = [cycle EXCEPT ![enq] = pcs]
  /\ event' = [event EXCEPT ![enq] = e]
  /\ enq' = Step(enq)
  /\ pcs' = IF Step(enq) = 0 THEN 1 - pcs ELSE pcs
HcPost(e) ==
  /\ IF e = FullTrb
     THEN Ahead(erdp, enq) = EventRingSize - 2 /\ ~RingSaidFull
     ELSE Ahead(erdp, enq) < EventRingSize - 2
  /\ cycle' = [cycle EXCEPT ![enq] = pcs]
  /\ event' = [event EXCEPT ![enq] = e]
  /\ enq' = Step(enq)
  /\ pcs' = IF Step(enq) = 0 THEN 1 - pcs ELSE pcs

-----------------------------------------------------------------------------
\* The driver.
EventReady == cycle[cur] = ccs

\* xhci_update_event_dq().
UpdateEventDq ==
  /\ erdp' = IF adv = 1 THEN cur ELSE erdp
  /\ adv' = 0
  /\ UNCHANGED <<cur, ccs>>

\* xhci_advance_event_ring(): going round, the new place is told at once.
Advance ==
  /\ cur' = Step(cur)
  /\ ccs' = IF cur' = 0 THEN 1 - ccs ELSE ccs
  /\ IF cur' = 0 THEN erdp' = cur' /\ adv' = 0 ELSE adv' = 1 /\ UNCHANGED erdp

\* An entry that has been read is forgotten: nothing reads it again.
Consumed == event' = [event EXCEPT ![cur] = NoTrb] /\ UNCHANGED <<cycle, enq, pcs>>

\* An event is taken, or, at the end of a wait, taken and the place told.
TakeEvent == EventReady /\ Advance /\ Consumed
TakeAndUpdate ==
  /\ EventReady
  /\ cur' = Step(cur) /\ erdp' = cur' /\ adv' = 0
  /\ ccs' = IF cur' = 0 THEN 1 - ccs ELSE ccs
  /\ Consumed

RingNext ==
  \/ \E e \in Trbs \cup {FullTrb} : HcPost(e) /\ UNCHANGED driverRing
  \/ TakeEvent \/ TakeAndUpdate
  \/ UpdateEventDq /\ UNCHANGED hcRing

RingSpec == RingInit /\ [][RingNext]_ringVars

-----------------------------------------------------------------------------
\* Properties.

\* The events that the controller has posted and the driver has not yet taken.
Place(i) == IF cur + i <= EventRingSize THEN cur + i - 1 ELSE cur + i - 1 - EventRingSize
Pending == [i \in 1 .. Ahead(cur, enq) |-> event[Place(i)]]

\* The cycle bits alone tell the driver exactly when there is an event: it never
\* takes an old entry for a new one and never waits in front of one, over any
\* number of laps of both.
InStep == EventReady <=> cur # enq

\* The ring is a queue: no event is overtaken, repeated or overwritten.
Queue == INSTANCE EventQueue
           WITH queue <- Pending, taken <- Ahead(erdp, cur), Places <- EventRingSize - 1,
                Events <- Trbs, FullEvent <- FullTrb

ImplementsEventQueue == Queue!QueueSpec
=============================================================================
