---------------------------- MODULE Invalidation ----------------------------
(***************************************************************************)
(* What the marker table promises to an application, without transactions, *)
(* locks or workers (denorms/__init__.py: flush, flush_single).  A cell    *)
(* that goes stale is owed a recomputation: it is marked, or its row is.   *)
(* The application's writes may only add to what is owed; a flush settles  *)
(* one row at a time, and what it strikes off it has recomputed.  The one  *)
(* leak the protocol has is named: an invalidation may be lost.            *)
(***************************************************************************)
EXTENDS Naturals

CONSTANTS
    Objects,        \* rows
    Plain,          \* cells written by the application
    Denorm,         \* denormalized cells
    Owner,          \* the row a cell belongs to
    Promised,       \* the denormalized cells the promise is about
    Absent,         \* a cell whose row is not there
    IsOff(_, _)     \* does a cell of a database differ from its function

VARIABLES
    db,             \* the columns everybody sees
    markers,        \* the recomputations owed
    lost            \* the invalidations lost

contract == <<db, markers, lost>>

RowKeys(o) == {d \in Denorm : Owner[d] = o} \cup {o}

Off(d) == db[d] # Absent /\ IsOff(d, db)
Owed(d) == d \in markers \/ Owner[d] \in markers
Covered(d) == Off(d) => Owed(d) \/ d \in lost

Init ==
    /\ lost = {}
    /\ \A d \in Promised : Covered(d)

(* Only a marker replaces an invalidation that was lost.                   *)
NothingForgotten == lost \ lost' \subseteq markers'

(* The application changes plain columns and deletes rows: what it turns   *)
(* stale it marks, or loses.                                               *)
Write ==
    /\ \A d \in Denorm : db'[d] \in {db[d], Absent}
    /\ markers \subseteq markers'
    /\ NothingForgotten
    /\ \A d \in Promised : Off(d)' /\ ~Off(d) => Covered(d)'

(* A flush of row o writes denormalized columns of o only and takes        *)
(* markers of o only; it leaves o settled, and marks or loses what its     *)
(* new values turn stale elsewhere.                                        *)
Flush(o) ==
    /\ \A c \in Plain : db'[c] = db[c]
    /\ \A d \in Denorm : Owner[d] # o => db'[d] = db[d]
    /\ markers \ markers' \subseteq RowKeys(o)
    /\ NothingForgotten
    /\ \A d \in Promised :
        Owner[d] = o \/ (Off(d)' /\ ~Off(d)) => Covered(d)'

Next == Write \/ \E o \in Objects : Flush(o)

Spec == Init /\ [][Next]_contract

(* The promise: a stale cell is owed a recomputation, but for what is lost *)
(* (denorms/__init__.py:366-370).                                          *)
Promise == \A d \in Promised : Covered(d)
=============================================================================
