------------------------- MODULE MCDenormFlushLoop --------------------------
EXTENDS DenormFlushLoop, TLC

CONSTANTS a, b, a1, b1

MCOf == (a1 :> a) @@ (b1 :> b)
(* A chain, and two rows whose functions never settle.                     *)
MCGraphs == {(a :> {b1}) @@ (b :> {}), (a :> {b1}) @@ (b :> {a1})}
(* Of b itself.                                                            *)
MCStatements == {[rows |-> {b}, marks |-> {b1}]}
=============================================================================
