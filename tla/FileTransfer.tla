---------------------------- MODULE FileTransfer ----------------------------
(***************************************************************************)
(* What netboot() relies on tftp_read() for: one call is one transfer of   *)
(* the file that was asked for; what has been copied is always the start   *)
(* of it, from one source; success is reported exactly when the last block *)
(* has been copied, and a call may fail at any time instead.               *)
(***************************************************************************)
EXTENDS Naturals, Sequences

CONSTANTS
  Sources,         \* where a file may be transferred from
  Files,
  Blocks(_),       \* the number of blocks of a file
  Room(_, _)       \* Room(f, k): the first k blocks of f fit the destination

VARIABLES phase, file, copied

vars == <<phase, file, copied>>

Init == phase = "idle" /\ file \in Files /\ copied = <<>>

Begin ==
  /\ phase = "idle"
  /\ phase' = "pending"
  /\ file' \in Files
  /\ copied' = <<>>

\* The next block, from the source of those before it.
Copy(s) ==
  LET k == Len(copied) + 1
  IN  /\ phase = "pending"
      /\ k <= Blocks(file)
      /\ Room(file, k)
      /\ copied # <<>> => copied[1][1] = s
      /\ copied' = Append(copied, <<s, k>>)
      /\ phase' = IF k = Blocks(file) THEN "success" ELSE "pending"
      /\ UNCHANGED file

Fail ==
  /\ phase = "pending"
  /\ phase' = "failure"
  /\ UNCHANGED <<file, copied>>

\* The call fails before it has asked for anything.
Refuse ==
  /\ phase = "idle"
  /\ phase' = "failure"
  /\ file' \in Files
  /\ UNCHANGED copied

Return ==
  /\ phase \in {"success", "failure"}
  /\ phase' = "idle"
  /\ UNCHANGED <<file, copied>>

Next == Begin \/ (\E s \in Sources : Copy(s)) \/ Fail \/ Refuse \/ Return

Spec == Init /\ [][Next]_vars
=============================================================================
