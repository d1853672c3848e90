----------------------------- MODULE MCNetboot -----------------------------
(***************************************************************************)
(* Small instances of Netboot for TLC.                                     *)
(***************************************************************************)
EXTENDS Netboot, TLC

CONSTANTS kernel, args, empty

MCFiles == {kernel, args, empty}

\* A payload of one short block, a command line of a full one and an empty one, and an
\* empty command line.
TwoBlocks == kernel :> 1 @@ args :> 2 @@ empty :> 0

\* A single short block each.
OneBlock == [f \in MCFiles |-> 1]

\* The DHCP servers are interchangeable.
ServerSymmetry == Permutations(DhcpServers)
=============================================================================
