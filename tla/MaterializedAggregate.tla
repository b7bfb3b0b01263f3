----------------------- MODULE MaterializedAggregate -----------------------
(***************************************************************************)
(* What a CountField or a SumField promises: at every moment the column of *)
(* an owner is the aggregate of the related rows, as if it were computed   *)
(* from scratch (denorms/aggregate.py:396-407, 454-462: denorm.func).      *)
(***************************************************************************)
EXTENDS Integers, FiniteSets

CONSTANTS
    Rows,       \* the related rows
    Owners,     \* the rows that hold the aggregate
    Content,    \* what a row may hold: [parent, passes, amount]
    Absent,     \* a row that is not there
    Null        \* SQL NULL

VARIABLES
    row,        \* content of each row
    total       \* aggregate column of each owner

(* The rows of an owner that pass filter and exclude.                      *)
Related(rows, o) ==
    {r \in Rows : rows[r] # Absent /\ rows[r].parent = o /\ rows[r].passes}

(* SUM skips NULL and is 0 over no rows; for COUNT every amount is 1.      *)
(* (What SumDenorm.func is written to return: on Python 3 its .values()[0] *)
(* raises, denorms/aggregate.py:396-407, but nothing calls it.)            *)
Amount(v) == IF v.amount = Null THEN 0 ELSE v.amount

(* The sum of the amounts is the number of their units.                    *)
Units(rows, o) == UNION {{r} \X (1 .. Amount(rows[r])) : r \in Related(rows, o)}
FromScratch(rows, o) == Cardinality(Units(rows, o))

Exact(rows, totals) == \A o \in Owners : totals[o] = FromScratch(rows, o)

Init ==
    /\ row \in [Rows -> Content \cup {Absent}]
    /\ Exact(row, total)

Next ==
    /\ row' \in [Rows -> Content \cup {Absent}]
    /\ Exact(row', total')

Spec == Init /\ [][Next]_<<row, total>>
=============================================================================
