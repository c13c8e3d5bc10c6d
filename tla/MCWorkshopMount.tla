-------------------------- MODULE MCWorkshopMount --------------------------
(* Instances of WorkshopMount for TLC: two addons that share one file, of  *)
(* which the first has another for itself.                                 *)
EXTENDS WorkshopMount

CONSTANTS a, b, f, g

MCItems == {a, b}
MCFiles == {f, g}
MCFilesOf == [i \in MCItems |-> IF i = a THEN {f, g} ELSE {f}]

\* No file belongs to both.
Disjoint == [i \in MCItems |-> IF i = a THEN {f} ELSE {g}]
=============================================================================
