------------------------------- MODULE MCXhci -------------------------------
(***************************************************************************)
(* A small instance for TLC of the event ring and of the xHCI driver,      *)
(* which works on the queue that the ring implements.  A behaviour is one  *)
(* of the ring or of the driver; the other stays where it starts.          *)
(***************************************************************************)
EXTENDS EventRing, Xhci

VARIABLE layer

\* A control transfer without data: the setup and the status stage.
MCStages == [p \in Pipes |-> 2]

\* The driver waits 100 ms for a command.  Those before a transfer may take longer.
MCSlowCommands == {"reset", "dequeue"} \X Pipes

MCInit == layer \in {"ring", "driver"} /\ RingInit /\ XhciInit

MCNext ==
  /\ \/ layer = "ring" /\ RingNext /\ UNCHANGED xhciVars
     \/ layer = "driver" /\ XhciNext /\ UNCHANGED ringVars
  /\ UNCHANGED layer

\* At the start of XhciSpec no action with fairness is enabled.
MCSpec == MCInit /\ [][MCNext]_<<ringVars, xhciVars, layer>> /\ XhciFairness

\* Every variable of the two holds a value of its type.
UsbTypeOK ==
  /\ cycle \in [Entries -> {0, 1}] /\ {cur, enq, erdp} \subseteq Entries
  /\ XhciTypeOK
=============================================================================
