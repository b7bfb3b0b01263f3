------------------------- MODULE MCDenormAggregate -------------------------
(***************************************************************************)
(* Two rows of two owners; a row may move, change its amount, stop to pass *)
(* the filter or lose its owner.                                           *)
(***************************************************************************)
EXTENDS DenormAggregate, FiniteSetsExt, TLC

CONSTANTS r1, r2, o1, o2

MCRow(o, p, n) == [parent |-> o, passes |-> p, amount |-> n]
MCContent ==
    {MCRow(o1, TRUE, 1), MCRow(o2, TRUE, 1), MCRow(o1, FALSE, 1),
     MCRow(o1, TRUE, 2), MCRow(None, TRUE, 1), MCRow(o1, TRUE, Null)}
MCContentNull == {MCRow(o1, TRUE, 1), MCRow(o1, TRUE, Null)}
MCRow0 == [r \in Rows |-> IF r = r1 THEN MCRow(o1, TRUE, 1) ELSE Absent]

(* The number of units is the sum of the amounts.                          *)
ASSUME UnitsAssumption ==
    \A rows \in [Rows -> Content \cup {Absent}], o \in Owners :
        Abstract!FromScratch(rows, o) =
            MapThenSumSet(LAMBDA r : Abstract!Amount(rows[r]), Abstract!Related(rows, o))

MCSymmetry == Permutations(Tx)
=============================================================================
