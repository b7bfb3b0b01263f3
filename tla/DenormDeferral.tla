--------------------------- MODULE DenormDeferral ---------------------------
(***************************************************************************)
(* denorm.deferred(): inside a block the targeted columns are not computed *)
(* on save, and the outermost block marks them when it exits               *)
(* (deferral.py); DENORM_ALWAYS_EAGER flushes after every save and once    *)
(* after a block (eager.py); @denorm_always_dirty marks the whole object   *)
(* on every save (always_dirty.py).  One connection runs code that nests   *)
(* deferred() blocks and atomic() blocks, and that may raise anywhere;     *)
(* another process flushes what is committed.                              *)
(***************************************************************************)
EXTENDS SequencesExt

CONSTANTS
    Objects,        \* rows
    Cells,          \* their deferrable @denormalized columns
    Owner,          \* the row a cell belongs to
    FromOwnRow,     \* cells with a trigger on plain columns of their own row
    Safe,           \* ... that are pure functions of those columns
    Required,       \* cells that are NOT NULL and have no usable default
    AlwaysDirty,    \* rows of @denorm_always_dirty models
    Targets,        \* what the deferred() calls of the program may name
    Exists0,        \* rows to begin with
    MaxDepth,       \* bound: nested blocks
    MaxOps,         \* bound: statements and exceptions
    MaxCrashes      \* bound: crashes of the process

ASSUME DeferralAssumption ==
    /\ Owner \in [Cells -> Objects]
    /\ Objects \cap Cells = {}
    /\ Safe \subseteq FromOwnRow /\ FromOwnRow \subseteq Cells
    /\ Required \subseteq Cells
    /\ AlwaysDirty \subseteq Objects
    /\ Targets \subseteq (SUBSET Cells) \ {{}}
    /\ Exists0 \subseteq Objects
    /\ {MaxDepth, MaxOps, MaxCrashes} \subseteq Nat

VARIABLES
    (* the database, as the connection sees it *)
    exists,     \* rows
    stale,      \* cells whose column is not what its function returns
    marked,     \* markers: a cell, or an object for its NULL marker
    tx,         \* "ok"; "aborted" by PostgreSQL; "doomed": needs_rollback
    (* the running code *)
    stack,      \* the deferred() and atomic() blocks it is in
    raising,    \* an exception propagates
    pending,    \* the collector the nested frames share
    eager,      \* DENORM_ALWAYS_EAGER
    ops,
    (* history *)
    orphaned,   \* stale cells whose block died between a commit and its exit
    crashes

dbVars == <<exists, stale, marked, orphaned>>
vars == <<exists, stale, marked, tx, stack, raising, pending, eager, ops,
          orphaned, crashes>>

CellsOf(o) == {c \in Cells : Owner[c] = o}
Unmarked(S, M) == {c \in S : c \notin M /\ Owner[c] \notin M}

-----------------------------------------------------------------------------
(* Blocks *)

Database ==
    [exists |-> exists, stale |-> stale, marked |-> marked, orphaned |-> orphaned]

Block(F) == [kind |-> "block", fields |-> F, saved |-> <<>>]
Atomic == [kind |-> "atomic", fields |-> {}, saved |-> Database]

Frames(kind) == {i \in 1 .. Len(stack) : stack[i].kind = kind}
Active == Frames("block") # {}
InAtomic == Frames("atomic") # {}
InTop(kind) == stack # <<>> /\ Last(stack).kind = kind
Alone(kind) == InTop(kind) /\ Frames(kind) = {Len(stack)}

(* The fields of the innermost block, which has those of the outer ones.   *)
Deferred == UNION {stack[i].fields : i \in Frames("block")}

(* What is committed: what a crash leaves behind.                          *)
IsOldest(i) == i \in Frames("atomic") /\ \A j \in Frames("atomic") : i <= j
Committed ==
    IF InAtomic THEN stack[CHOOSE i \in Frames("atomic") : IsOldest(i)].saved
    ELSE Database

Init ==
    /\ exists = Exists0
    /\ stale = {}
    /\ marked = {}
    /\ tx = "ok"
    /\ stack = <<>>
    /\ raising = FALSE
    /\ pending = {}
    /\ eager \in BOOLEAN
    /\ ops = 0
    /\ orphaned = {}
    /\ crashes = 0

(* The stale cells are now S and the markers M.                            *)
Becomes(S, M) ==
    /\ stale' = S
    /\ marked' = M
    /\ orphaned' = orphaned \cap Unmarked(S, M)

Flushed(S, M) == Becomes(Unmarked(S, M), {})

(* The eager handler is the last of post_save: one flush() after a save,   *)
(* but none while a block is active.                                       *)
EagerlyBecomes(S, M) ==
    IF eager /\ ~Active THEN Flushed(S, M) ELSE Becomes(S, M)

Running == ~raising /\ ops < MaxOps /\ ops' = ops + 1
Statement == Running /\ tx = "ok"

EnterBlock ==
    /\ Running
    /\ Len(stack) < MaxDepth
    /\ \E F \in Targets : stack' = Append(stack, Block(F \cup Deferred))
    /\ UNCHANGED <<dbVars, tx, raising, pending, eager, crashes>>

EnterAtomic ==
    /\ Statement
    /\ Len(stack) < MaxDepth
    /\ stack' = Append(stack, Atomic)
    /\ UNCHANGED <<dbVars, tx, raising, pending, eager, crashes>>

-----------------------------------------------------------------------------
(* Statements *)

AlwaysMarks(o) == {o} \cap AlwaysDirty

(* UPDATE by save() of the denormalized fields U (all of them, or those in *)
(* update_fields), which changes columns that the cells T read.  Deferred  *)
(* fields keep their value.  The triggers mark T; post_save drops the      *)
(* self-markers of the safe fields saved, computed or not; always_dirty    *)
(* marks the row.                                                          *)
Save(o) ==
    /\ Statement
    /\ o \in exists
    /\ \E U \in SUBSET CellsOf(o), T \in SUBSET (FromOwnRow \cap CellsOf(o)) :
        /\ pending' = pending \cup (U \cap Deferred)
        /\ EagerlyBecomes(
                (stale \cup T) \ (U \ Deferred),
                ((marked \cup T) \ (U \cap Safe)) \cup AlwaysMarks(o))
    /\ UNCHANGED <<exists, tx, stack, raising, eager, crashes>>

(* INSERT: a deferred field gets its default, unless it has none.  The     *)
(* insert trigger marks every cell of the row.                             *)
Insert(o) ==
    LET D == (CellsOf(o) \cap Deferred) \ Required
    IN  /\ Statement
        /\ o \notin exists
        /\ exists' = exists \cup {o}
        /\ pending' = pending \cup D
        /\ EagerlyBecomes(
                stale \cup D,
                ((marked \cup CellsOf(o)) \ (Safe \cap CellsOf(o)))
                    \cup AlwaysMarks(o))
        /\ UNCHANGED <<tx, stack, raising, eager, crashes>>

(* A row that cells of other rows read is saved: its triggers mark them.   *)
SaveRelated ==
    /\ Statement
    /\ \E c \in Cells \ Safe :
        /\ Owner[c] \in exists
        /\ EagerlyBecomes(stale \cup {c}, marked \cup {c})
    /\ UNCHANGED <<exists, tx, stack, raising, pending, eager, crashes>>

(* flush() called by the code: its own saves compute, block or not.        *)
Flush ==
    /\ Statement
    /\ Flushed(stale, marked)
    /\ UNCHANGED <<exists, tx, stack, raising, pending, eager, crashes>>

(* Another process flushes a committed row, or cleans up after one that is *)
(* gone.  The rows this connection has written in a transaction are        *)
(* locked, so only autocommit matters.                                     *)
FlushElsewhere ==
    /\ ~InAtomic
    /\ \E o \in Objects :
        LET C == CellsOf(o) \ Unmarked(CellsOf(o), marked)
        IN  /\ C # {}
            /\ Becomes(stale \ C, marked \ (CellsOf(o) \cup {o}))
    /\ UNCHANGED <<exists, tx, stack, raising, pending, eager, ops, crashes>>

-----------------------------------------------------------------------------
(* Exceptions *)

AlwaysDoomed == "doomed"
AfterSaveError == IF InAtomic THEN "doomed" ELSE "ok"

(* save() fails after pre_save: Django marks the transaction for rollback. *)
SaveFails(o) ==
    /\ Statement
    /\ o \in exists
    /\ raising' = TRUE
    /\ tx' = AfterSaveError
    /\ pending' = pending \cup (CellsOf(o) \cap Deferred)
    /\ UNCHANGED <<dbVars, stack, eager, crashes>>

(* Raw SQL fails in a transaction: PostgreSQL has aborted it, but Django   *)
(* does not know.  Or the code itself raises.                              *)
Raise ==
    /\ Running
    /\ raising' = TRUE
    /\ \/ UNCHANGED tx
       \/ InAtomic /\ tx = "ok" /\ tx' = "aborted"
    /\ UNCHANGED <<dbVars, stack, pending, eager, crashes>>

Catch ==
    /\ raising
    /\ raising' = FALSE
    /\ UNCHANGED <<dbVars, tx, stack, pending, eager, ops, crashes>>

-----------------------------------------------------------------------------
(* Exits *)

(* COMMIT or RELEASE SAVEPOINT; with an exception, in a doomed or in an    *)
(* aborted transaction, a rollback.  Releasing a savepoint of an aborted   *)
(* transaction is an error.                                                *)
ExitAtomic ==
    /\ InTop("atomic")
    /\ stack' = Front(stack)
    /\ tx' = "ok"
    /\ IF ~raising /\ tx = "ok"
       THEN UNCHANGED <<dbVars, raising>>
       ELSE LET s == Last(stack).saved
            IN  /\ exists' = s.exists
                /\ stale' = s.stale
                /\ marked' = s.marked
                /\ orphaned' = s.orphaned
                /\ raising' = (raising \/ (tx = "aborted" /\ ~Alone("atomic")))
    /\ UNCHANGED <<pending, eager, ops, crashes>>

(* An inner block only takes its targets away.                             *)
ExitInnerBlock ==
    /\ InTop("block")
    /\ ~Alone("block")
    /\ stack' = Front(stack)
    /\ UNCHANGED <<dbVars, tx, raising, pending, eager, ops, crashes>>

(* Every block leaves as if it were the outermost one.                     *)
LeaveAny ==
    /\ InTop("block")
    /\ stack' = Front(stack)
    /\ pending' = {}
    /\ UNCHANGED <<exists, eager, ops, crashes>>

LeaveOutermost ==
    /\ Alone("block")
    /\ stack' = Front(stack)
    /\ pending' = {}
    /\ UNCHANGED <<exists, eager, ops, crashes>>

FlushThenWrite ==
    IF eager THEN Becomes(Unmarked(stale, marked), pending)
    ELSE Becomes(stale, marked \cup pending)

(* One marker per pending pair, then the eager flush.                      *)
WriteThenFlush ==
    IF eager THEN Flushed(stale, marked \cup pending)
    ELSE Becomes(stale, marked \cup pending)

(* In a transaction that has failed: no marker goes into a doomed one, and *)
(* the eager flush is refused; or the query of the content type fails, or  *)
(* bulk_create does, whose atomic block then dooms an aborted one.         *)
RefusedExit ==
    /\ tx # "ok"
    /\ \/ /\ tx = "doomed" \/ pending = {}
          /\ raising' = eager
          /\ UNCHANGED tx
       \/ /\ pending # {}
          /\ raising' = TRUE
          /\ tx' \in {tx, "doomed"}
    /\ UNCHANGED <<stale, marked, orphaned>>

ExitNormally ==
    /\ ~raising
    /\ LeaveOutermost
    /\ \/ tx = "ok" /\ WriteThenFlush /\ UNCHANGED <<tx, raising>>
       \/ RefusedExit

NoMarkers == {}
MarkersAfterError == IF tx = "ok" THEN pending ELSE {}

(* On an exception the markers are written as far as possible, in a        *)
(* savepoint, because the caller may catch it and commit.                  *)
ExitOnError ==
    /\ raising
    /\ LeaveOutermost
    /\ Becomes(stale, marked \cup MarkersAfterError)
    /\ UNCHANGED <<tx, raising>>

(* The process dies: what is committed stays, pending markers do not.      *)
Crash ==
    /\ crashes < MaxCrashes
    /\ crashes' = crashes + 1
    /\ stack' = <<>>
    /\ pending' = {}
    /\ raising' = FALSE
    /\ tx' = "ok"
    /\ exists' = Committed.exists
    /\ stale' = Committed.stale
    /\ marked' = Committed.marked
    /\ orphaned' = Committed.orphaned \cup
            IF stack # <<>> /\ Head(stack).kind = "block"
            THEN pending \cap Unmarked(Committed.stale, Committed.marked)
            ELSE {}
    /\ UNCHANGED <<eager, ops>>

-----------------------------------------------------------------------------
Next ==
    \/ EnterBlock \/ EnterAtomic
    \/ \E o \in Objects : Save(o) \/ Insert(o) \/ SaveFails(o)
    \/ SaveRelated \/ Flush \/ FlushElsewhere
    \/ Raise \/ Catch
    \/ ExitAtomic \/ ExitInnerBlock \/ ExitNormally \/ ExitOnError
    \/ Crash

Spec == Init /\ [][Next]_vars
-----------------------------------------------------------------------------
(* Properties *)

Saved == [exists : SUBSET Objects, stale : SUBSET Cells,
          marked : SUBSET (Cells \cup Objects), orphaned : SUBSET Cells]

(* Types; a transaction fails only where there is one, and the collector   *)
(* is empty outside every block.                                           *)
Frame == [kind : {"block"}, fields : SUBSET Cells, saved : {<<>>}]
         \cup [kind : {"atomic"}, fields : {{}}, saved : Saved]

TypeOK ==
    /\ Database \in Saved
    /\ tx \in {"ok", "aborted", "doomed"}
    /\ stack \in Seq(Frame)
    /\ raising \in BOOLEAN
    /\ pending \subseteq Cells
    /\ eager \in BOOLEAN
    /\ ops \in 0 .. MaxOps
    /\ crashes \in 0 .. MaxCrashes
    /\ tx # "ok" => InAtomic
    /\ ~Active => pending = {}

(* A committed stale column is marked, or a block that is still open will  *)
(* mark it, whatever is caught, rolled back or nested: only the death of a *)
(* process between a commit and the exit of a block around it loses one,   *)
(* the marker its trigger had inserted included: post_save drops it        *)
(* although the save has not computed the column (fields.py:88-101).       *)
(* A block inside the transaction, as the tutorial asks for, loses nothing *)
(* (deferral.py:19-24, docs/tutorial.rst:337-340).                         *)
DeferredIsMarked ==
    Unmarked(Committed.stale, Committed.marked) \subseteq
        pending \cup Committed.orphaned

(* After a block exits normally under DENORM_ALWAYS_EAGER every column is  *)
(* settled (docs/tutorial.rst:347-349, eager.py:43-50).                    *)
NormalExit ==
    /\ eager /\ tx = "ok" /\ ~raising
    /\ Active /\ Len(stack') < Len(stack) /\ ~Active'
    /\ crashes' = crashes
EagerSettles == [][NormalExit => stale' \subseteq orphaned']_vars

-----------------------------------------------------------------------------
(* The inductive invariant of the proofs *)

(* What a snapshot of the database has stale, unmarked and not orphaned.   *)
Lost(d) == Unmarked(d.stale, d.marked) \ d.orphaned

(* Only the rows that exist have columns.                                  *)
Present(d) == \A c \in d.stale : Owner[c] \in d.exists

(* What a rollback to the savepoint of a frame brings back is what a block *)
(* around it has still to mark; a frame outside every block brings back    *)
(* nothing that is lost.                                                   *)
PendingAt(i) == {c \in pending : \E j \in Frames("block") : j < i}
SavedInv ==
    \A i \in Frames("atomic") :
        Lost(stack[i].saved) \subseteq PendingAt(i) /\ Present(stack[i].saved)

(* The same of the database, unless its transaction can only roll back.    *)
DatabaseInv ==
    /\ tx = "ok" => Lost(Database) \subseteq pending
    /\ Present(Database)

OldestInv == InAtomic => \E i \in Frames("atomic") : IsOldest(i)

(* The parts together; every step keeps them.                              *)
IInv == TypeOK /\ DatabaseInv /\ SavedInv /\ OldestInv
=============================================================================
