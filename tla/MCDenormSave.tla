---------------------------- MODULE MCDenormSave ----------------------------
(***************************************************************************)
(* Two sessions share the steps: a load, a failed save, an edit and a      *)
(* second save of one, or loads and saves of both.                         *)
(***************************************************************************)
EXTENDS DenormSave, TLC

MCSymmetry == Permutations(Sessions)
=============================================================================
