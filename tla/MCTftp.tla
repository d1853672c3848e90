------------------------------- MODULE MCTftp -------------------------------
(***************************************************************************)
(* Small instances of Tftp for TLC.                                        *)
(***************************************************************************)
EXTENDS Tftp, TLC

CONSTANTS kernel, args

MCFiles == {kernel, args}

\* Three blocks, and a single short one.
LongAndShort == kernel :> 5 @@ args :> 1

\* Three blocks that do not fit in four bytes; two full blocks, which do, and an empty one.
LongAndExact == kernel :> 5 @@ args :> 4
=============================================================================
