-------------------------- MODULE MCDenormDeferral --------------------------
(***************************************************************************)
(* A Profile whose full_name is safe and whose summary reads other rows,   *)
(* and a Post, not there yet, whose title has no default: blocks may name  *)
(* one column or all.                                                      *)
(***************************************************************************)
EXTENDS DenormDeferral

CONSTANTS profile, post, full_name, summary, teaser, title

MCOwner ==
    [c \in Cells |-> IF c \in {full_name, summary} THEN profile ELSE post]
MCTargets == {{full_name}, {full_name, summary}, {teaser, title}}
=============================================================================
