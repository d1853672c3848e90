----------------------------- MODULE FwdbTable ------------------------------
(***************************************************************************)
(* What the firmware database promises to those who share it, image after  *)
(* image: data under a name, of a size that is fixed when it is added, and *)
(* never lost or changed by anybody else.                                  *)
(***************************************************************************)
EXTENDS Naturals, Sequences

CONSTANTS Names, Values
VARIABLE table     \* from some of Names to sequences of Values

TableInit == table = [n \in {} |-> <<>>]

\* Data is zero, or what the caller has.
Add(name, data) ==
  /\ name \notin DOMAIN table
  /\ table' = [n \in DOMAIN table \cup {name} |-> IF n = name THEN data ELSE table[n]]

Write(name, i, value) == table' = [table EXCEPT ![name][i] = value]

\* As in Add, the bound is what the step does to "table".
TableNext ==
  \/ \E name \in Names \cap DOMAIN table' : Add(name, table'[name])
  \/ \E name \in DOMAIN table : \E i \in DOMAIN table[name], v \in Values : Write(name, i, v)

TableSpec == TableInit /\ [][TableNext]_table
=============================================================================
