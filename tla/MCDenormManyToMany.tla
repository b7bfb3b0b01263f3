------------------------ MODULE MCDenormManyToMany --------------------------
(***************************************************************************)
(* Two related rows, one linked, and two owners.                           *)
(***************************************************************************)
EXTENDS DenormManyToMany, FiniteSetsExt, TLC

CONSTANTS i1, i2, o1, o2

MCItem(p, n) == [passes |-> p, amount |-> n]
MCContent == {MCItem(TRUE, 1), MCItem(FALSE, 1), MCItem(TRUE, 2)}
MCItem0 == [i \in Items |-> IF i = i1 THEN MCItem(TRUE, 1) ELSE Absent]
MCLinks0 == {<<i1, o1>>}

(* The number of units is the sum of the amounts.                          *)
ASSUME UnitsAssumption ==
    \A r \in [Items -> Content \cup {Absent}], L \in SUBSET Links, o \in Owners :
        FromScratch(r, L, o) =
            MapThenSumSet(LAMBDA i : r[i].amount, Linked(r, L, o))

MCSymmetry == Permutations(Tx)
=============================================================================
