--------------------------- MODULE MCDenormFlush ---------------------------
(***************************************************************************)
(* A forum F and a post P of it, as in the test project.                   *)
(*   F.title   plain                                                       *)
(*   F.digest  denormalized, reads P.letter          (backward relation)   *)
(*   P.name    plain                                                       *)
(*   P.full    denormalized, declared on P.name      (safe self-function)  *)
(*   P.letter  denormalized, reads P.full, F.title   (chain and relation)  *)
(***************************************************************************)
EXTENDS DenormFlushInv

CONSTANTS F, P, Title, Digest, Name, Full, Letter

MCObjects == {F, P}
MCPlain == {Title, Name}
MCDenorm == {Digest, Full, Letter}
MCOwner ==
    [c \in Cells |-> IF c \in {Title, Digest} THEN F ELSE P]
MCReads ==
    [d \in Denorm |->
        CASE d = Digest -> {Letter}
          [] d = Full -> {Name}
          [] d = Letter -> {Full, Title}]
MCNoFk == [d \in Denorm |-> {}]
MCFk == [d \in Denorm |-> IF d = Letter THEN {Title} ELSE {}]
MCSafe == {Full}

(* A function tells its inputs apart: parity of the cells that are set.    *)
Bit(x) == IF x = 1 THEN 1 ELSE 0
MCCompute(d, view) ==
    CASE d = Digest -> Bit(view[Letter])
      [] d = Full -> Bit(view[Name])
      [] d = Letter -> (Bit(view[Full]) + Bit(view[Title])) % 2

MCVal0 == [c \in Cells |-> 0]
(* After denorm_rebuild: a stale post, marked as a whole.                  *)
MCValRebuild == [MCVal0 EXCEPT ![Name] = 1]
MCMarkersRebuild == {P}
=============================================================================
