----------------------------- MODULE EventQueue -----------------------------
(***************************************************************************)
(* What the xHCI driver and the controller rely on between them: events    *)
(* are taken in the order they were posted, each once, and the controller  *)
(* posts no more than there are places.  A place is free again only when   *)
(* the driver gives it back.                                               *)
(***************************************************************************)
EXTENDS Naturals, Sequences

CONSTANTS
  Events,        \* what the controller reports
  FullEvent,     \* "Event Ring Full Error", which takes the last place
  Places         \* how many events may be posted and not given back

VARIABLES
  queue,         \* posted and not yet taken
  taken          \* how many were taken and not yet given back

eventVars == <<queue, taken>>

Used == Len(queue) + taken

\* "Full" is said once until something else can be said.
SaidFull == queue # <<>> /\ queue[Len(queue)] = FullEvent

Post(e) ==
  /\ IF e = FullEvent THEN Used = Places - 1 /\ ~SaidFull ELSE Used < Places - 1
  /\ queue' = Append(queue, e)
  /\ UNCHANGED taken

Take ==
  /\ queue # <<>>
  /\ queue' = Tail(queue)
  /\ taken' \in {taken + 1, 0}

\* Taken, and every place given back.
TakeAndGiveBack ==
  /\ queue # <<>>
  /\ queue' = Tail(queue)
  /\ taken' = 0

GiveBack == taken' = 0 /\ UNCHANGED queue

QueueInit == queue = <<>> /\ taken = 0

QueueNext == (\E e \in Events \cup {FullEvent} : Post(e)) \/ Take \/ GiveBack

QueueSpec == QueueInit /\ [][QueueNext]_eventVars
=============================================================================
