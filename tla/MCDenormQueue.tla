--------------------------- MODULE MCDenormQueue ---------------------------
(***************************************************************************)
(* Pairs a, b and x: the flush of a may mark b and x, without a NOTIFY,    *)
(* the flush of x raises.  The query returns x first.                      *)
(***************************************************************************)
EXTENDS DenormQueue

CONSTANTS a, b, x

MCCascade == [p \in Pairs |-> IF p = a THEN {b, x} ELSE {}]
MCOrders == {[p \in Pairs |-> CASE p = x -> 1 [] p = a -> 2 [] p = b -> 3]}
=============================================================================
