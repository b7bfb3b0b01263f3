--------------------------- MODULE DenormFlushLoop --------------------------
(***************************************************************************)
(* The outer loop of flush() (denorms/__init__.py:359-462) around          *)
(* flush_single, with the retries of retry.py, as the middleware, the      *)
(* management commands and application code run it: several processes at   *)
(* once, some inside a transaction of their own, while application         *)
(* transactions lock rows and add markers.                                 *)
(*                                                                         *)
(* What functions compute is left out (DenormFlush has it): flush_single   *)
(* takes a row and claims its markers, or finds it locked, recomputes it,  *)
(* and the triggers of its save insert the markers of what depends on it.  *)
(* An insert waits for the transaction that has inserted or deleted the    *)
(* same marker and has not ended (the unique index of migration 0017).     *)
(***************************************************************************)
EXTENDS Naturals, FiniteSets

CONSTANTS
    Flushers,       \* processes that call flush()
    Outer,          \* those of them that do so inside an atomic block
    Apps,           \* connections of the application's other transactions
    Rows,           \* rows with denormalized columns
    Keys,           \* what a marker may name: a function of a row
    Of,             \* marker -> its row
    Graphs,         \* the dependency graphs: row -> markers a change inserts
    Statements,     \* the application's: rows locked, markers inserted
    None,
    MaxFlushPasses, \* DENORM_MAX_FLUSH_PASSES
    MaxRetries,     \* DEFAULT_MAX_RETRIES
    MaxWrites,      \* bound: statements of the application
    MaxErrors       \* bound: failures other than a deadlock here

Tx == Flushers \cup Apps
KeysOf(r) == {k \in Keys : Of[k] = r}

(* How flush() may end.                                                    *)
Results == {"no flush", "once", "empty", "gave up", "raised"}

ASSUME LoopAssumption ==
    /\ Outer \subseteq Flushers
    /\ Of \in [Keys -> Rows]
    /\ Graphs \subseteq [Rows -> SUBSET Keys]
    /\ Statements \subseteq [rows : SUBSET Rows, marks : SUBSET Keys]
    /\ Apps \cap Flushers = {}
    /\ None \notin Tx \cup Rows \cup Results
    /\ {MaxFlushPasses, MaxRetries, MaxWrites, MaxErrors} \subseteq Nat

VARIABLES
    markers,    \* committed markers
    lock,       \* owner of each row lock
    feeds,      \* the dependency graph
    claimed,    \* markers a transaction has deleted, uncommitted
    ins,        \* markers it has inserted, uncommitted
    todo,       \* markers its last statement's triggers are still to insert
    pc, row, stream, passes, attempt, once,
    processed,  \* this pass has seen a marker
    ranOnce,
    outcome,    \* how flush() ended
    writes, errors,
    (* history *)
    owed,       \* markers when flush() began, not flushed since
    skipped     \* flush() has met a row locked elsewhere

txVars == <<claimed, ins, todo>>
tables == <<markers, lock, txVars, owed>>
loopVars == <<stream, passes, once, processed, ranOnce, outcome>>
bounds == <<writes, errors>>
vars == <<tables, feeds, pc, row, attempt, loopVars, bounds, skipped>>

(* The markers a statement of t sees.                                      *)
View(t) == (markers \ claimed[t]) \cup ins[t]

Init ==
    /\ markers \in SUBSET Keys
    /\ lock = [r \in Rows |-> None]
    /\ feeds \in Graphs
    /\ claimed = [t \in Tx |-> {}]
    /\ ins = [t \in Tx |-> {}]
    /\ todo = [t \in Tx |-> {}]
    /\ pc = [f \in Flushers |-> "idle"]
    /\ row = [f \in Flushers |-> None]
    /\ stream = [f \in Flushers |-> {}]
    /\ passes = [f \in Flushers |-> 0]
    /\ attempt = [f \in Flushers |-> 0]
    /\ once = [f \in Flushers |-> FALSE]
    /\ processed = [f \in Flushers |-> FALSE]
    /\ ranOnce = [f \in Flushers |-> FALSE]
    /\ outcome = [f \in Flushers |-> None]
    /\ writes = 0 /\ errors = 0
    /\ owed = [f \in Flushers |-> {}]
    /\ skipped = [f \in Flushers |-> FALSE]

-----------------------------------------------------------------------------
(* Transactions *)

(* A transaction ends: its locks and its uncommitted work go.              *)
Release(t) ==
    /\ claimed' = [claimed EXCEPT ![t] = {}]
    /\ ins' = [ins EXCEPT ![t] = {}]
    /\ todo' = [todo EXCEPT ![t] = {}]
    /\ lock' = [r \in Rows |-> IF lock[r] = t THEN None ELSE lock[r]]

Publish(t) ==
    /\ markers' = View(t)
    /\ owed' = [f \in Flushers |-> owed[f] \ claimed[t]]
    /\ Release(t)

Rollback(t) == Release(t) /\ UNCHANGED <<markers, owed>>

Held(k, u) == k \in ins[u] \cup claimed[u]
Blocked(t, k) == \E u \in Tx \ {t} : Held(k, u)

(* INSERT ... ON CONFLICT DO NOTHING of one trigger: it waits on the       *)
(* unique index, or finds the marker there, or inserts it.                 *)
InsertMarker(t) ==
    /\ \E k \in todo[t] :
        /\ ~Blocked(t, k)
        /\ todo' = [todo EXCEPT ![t] = @ \ {k}]
        /\ ins' = [ins EXCEPT ![t] = @ \cup ({k} \ View(t))]
    /\ UNCHANGED <<markers, lock, claimed, owed, feeds, pc, row, attempt,
                   loopVars, bounds, skipped>>

(* t can only wait for u to end.                                           *)
WaitsFor(t, u) ==
    /\ todo[t] # {} /\ \A k \in todo[t] : Blocked(t, k)
    /\ \E k \in todo[t] : u # t /\ Held(k, u)

(* Transactions that wait for each other, none of them in vain.            *)
Stuck(S) == S # {} /\ \A t \in S : \E u \in S : WaitsFor(t, u)
Deadlocked(t) ==
    \E S \in SUBSET Tx :
        /\ t \in S /\ Stuck(S)
        /\ \A R \in SUBSET S : Stuck(R) => R = S

-----------------------------------------------------------------------------
(* Transactions of the application: every statement locks rows and its     *)
(* triggers insert markers, before others see any of it.                   *)

AppStatement(a) ==
    /\ writes < MaxWrites
    /\ todo[a] = {}
    /\ \E s \in Statements :
        /\ \A r \in s.rows : lock[r] \in {None, a}
        /\ lock' = [r \in Rows |-> IF r \in s.rows THEN a ELSE lock[r]]
        /\ todo' = [todo EXCEPT ![a] = s.marks]
    /\ writes' = writes + 1
    /\ UNCHANGED <<markers, claimed, ins, owed, feeds, pc, row, attempt,
                   loopVars, errors, skipped>>

Busy(a) == ins[a] \cup todo[a] # {} \/ \E r \in Rows : lock[r] = a

AppCommit(a) ==
    /\ Busy(a) /\ todo[a] = {}
    /\ Publish(a)
    /\ UNCHANGED <<feeds, pc, row, attempt, loopVars, bounds, skipped>>

(* Its own decision, or that of the deadlock detector.                     *)
AppRollback(a) ==
    /\ Busy(a)
    /\ Rollback(a)
    /\ UNCHANGED <<feeds, pc, row, attempt, loopVars, bounds, skipped>>

-----------------------------------------------------------------------------
(* The callers of flush() *)

Begin(f, runOnce) ==
    /\ pc' = [pc EXCEPT ![f] = "loop"]
    /\ once' = [once EXCEPT ![f] = runOnce]
    /\ owed' = [owed EXCEPT ![f] = View(f)]
    /\ UNCHANGED <<markers, lock, txVars, feeds, row, attempt, stream, passes,
                   processed, ranOnce, outcome, bounds, skipped>>

(* flush() is left, and its local variables with it.                       *)
Leave(f, how) ==
    /\ outcome' = [outcome EXCEPT ![f] = how]
    /\ passes' = [passes EXCEPT ![f] = 0]
    /\ once' = [once EXCEPT ![f] = FALSE]
    /\ processed' = [processed EXCEPT ![f] = FALSE]
    /\ ranOnce' = [ranOnce EXCEPT ![f] = FALSE]
    /\ stream' = [stream EXCEPT ![f] = {}]

Stop(f, how) ==
    /\ pc' = [pc EXCEPT ![f] = IF f \in Outer THEN "commit" ELSE "done"]
    /\ Leave(f, how)

(* DenormMiddleware.process_response: in "off" mode, without markers and   *)
(* in "queue" mode (which only dispatches a task) flush() is not called.   *)
Response(f, mode) ==
    /\ pc[f] = "idle"
    /\ IF mode = "inline" /\ View(f) # {}
       THEN Begin(f, FALSE)
       ELSE /\ Stop(f, "no flush")
            /\ UNCHANGED <<tables, feeds, row, attempt, bounds, skipped>>

(* denorm_flush and application code; denorm_rebuild -v 2 runs it once.    *)
Command(f, runOnce) == pc[f] = "idle" /\ Begin(f, runOnce)

-----------------------------------------------------------------------------
(* flush() *)

(* The passes are not counted.                                             *)
PassUncounted(f) ==
    /\ pc' = [pc EXCEPT ![f] = "rows"]
    /\ passes' = passes
    /\ stream' = [stream EXCEPT ![f] = {Of[k] : k \in View(f)}]
    /\ processed' = [processed EXCEPT ![f] = FALSE]

(* The head of the loop: done, out of passes, or a new pass over a         *)
(* snapshot of the marked rows.                                            *)
Pass(f) ==
    /\ pc' = [pc EXCEPT ![f] = "rows"]
    /\ passes' = [passes EXCEPT ![f] = @ + 1]
    /\ stream' = [stream EXCEPT ![f] = {Of[k] : k \in View(f)}]
    /\ processed' = [processed EXCEPT ![f] = FALSE]

GiveUp(f) == Stop(f, "gave up")
(* It may have converged exactly on the last pass.                         *)
AtCap(f) == Stop(f, IF View(f) = {} THEN "empty" ELSE "gave up")

Loop(f) ==
    /\ pc[f] = "loop"
    /\ \/ /\ once[f] /\ ranOnce[f]
          /\ Stop(f, "once")
       \/ /\ ~(once[f] /\ ranOnce[f])
          /\ passes[f] >= MaxFlushPasses
          /\ AtCap(f)
       \/ /\ ~(once[f] /\ ranOnce[f])
          /\ passes[f] < MaxFlushPasses
          /\ Pass(f)
          /\ UNCHANGED <<outcome, once, ranOnce>>
    /\ UNCHANGED <<tables, feeds, row, attempt, bounds, skipped>>

NextRow(f) ==
    /\ pc[f] = "rows"
    /\ \E r \in stream[f] :
        /\ stream' = [stream EXCEPT ![f] = @ \ {r}]
        /\ row' = [row EXCEPT ![f] = r]
    /\ pc' = [pc EXCEPT ![f] = "single"]
    /\ attempt' = [attempt EXCEPT ![f] = 0]
    /\ UNCHANGED <<tables, feeds, passes, once, processed, ranOnce, outcome,
                   bounds, skipped>>

EndPass(f) ==
    /\ pc[f] = "rows"
    /\ stream[f] = {}
    /\ IF processed[f]
       THEN /\ pc' = [pc EXCEPT ![f] = "loop"]
            /\ ranOnce' = [ranOnce EXCEPT ![f] = TRUE]
            /\ UNCHANGED <<stream, passes, once, processed, outcome>>
       ELSE Stop(f, "empty")
    /\ UNCHANGED <<tables, feeds, row, attempt, bounds, skipped>>

-----------------------------------------------------------------------------
(* flush_single *)

(* Only a pair whose markers it has claimed counts.                        *)
CountedIfClaimed(f, claims) == processed' = [processed EXCEPT ![f] = @ \/ claims]

(* flush_single has returned, whatever it did; the loop counts it.         *)
Counted(f, claims) == processed' = [processed EXCEPT ![f] = TRUE]

Returned(f, claims) ==
    /\ Counted(f, claims)
    /\ pc' = [pc EXCEPT ![f] = "rows"]
    /\ row' = [row EXCEPT ![f] = None]
    /\ attempt' = [attempt EXCEPT ![f] = 0]

(* SELECT FOR UPDATE SKIP LOCKED finds the row locked elsewhere.           *)
SkipLocked(f) ==
    /\ pc[f] = "single"
    /\ lock[row[f]] \notin {None, f}
    /\ Returned(f, FALSE)
    /\ skipped' = [skipped EXCEPT ![f] = TRUE]
    /\ UNCHANGED <<tables, feeds, stream, passes, once, ranOnce, outcome, bounds>>

(* The markers of the row that f sees are deleted.                         *)
Claim(f) ==
    LET mine == KeysOf(row[f]) \cap View(f)
    IN /\ mine # {}
       /\ claimed' = [claimed EXCEPT ![f] = @ \cup mine]
       /\ ins' = [ins EXCEPT ![f] = @ \ mine]
       /\ pc' = [pc EXCEPT ![f] = "save"]
       /\ UNCHANGED <<row, attempt, processed>>

(* A plain SELECT: nothing keeps other processes from the row.             *)
TakeUnlocked(f) ==
    /\ pc[f] = "single"
    /\ Claim(f)
    /\ UNCHANGED <<markers, lock, todo, owed, feeds, stream, passes, once,
                   ranOnce, outcome, bounds, skipped>>

(* It takes the row and claims its markers, which may have gone in the     *)
(* meantime; the row stays locked to the end of the transaction.           *)
TakeRow(f) ==
    /\ pc[f] = "single"
    /\ lock[row[f]] \in {None, f}
    /\ IF KeysOf(row[f]) \cap View(f) # {}
       THEN Claim(f) /\ lock' = [lock EXCEPT ![row[f]] = f]
       ELSE /\ Returned(f, FALSE)
            /\ lock' = [lock EXCEPT ![row[f]] = IF f \in Outer THEN f ELSE None]
            /\ UNCHANGED <<claimed, ins>>
    /\ UNCHANGED <<markers, todo, owed, feeds, stream, passes, once, ranOnce,
                   outcome, bounds, skipped>>

(* The save; if it changes the row, its triggers mark what depends on it.  *)
Recompute(f, changed) ==
    /\ pc[f] = "save"
    /\ pc' = [pc EXCEPT ![f] = "inserts"]
    /\ todo' = [todo EXCEPT ![f] = IF changed THEN feeds[row[f]] ELSE {}]
    /\ UNCHANGED <<markers, lock, claimed, ins, owed, feeds, row, attempt,
                   loopVars, bounds, skipped>>

(* flush_single returns.  Outside an atomic block its work becomes         *)
(* visible, inside it waits for the block.                                 *)
EndSingle(f) ==
    /\ pc[f] = "inserts"
    /\ todo[f] = {}
    /\ IF f \in Outer THEN UNCHANGED tables ELSE Publish(f)
    /\ Returned(f, TRUE)
    /\ UNCHANGED <<feeds, stream, passes, once, ranOnce, outcome, bounds, skipped>>

RetryOnceMore(f) == f \notin Outer /\ attempt[f] <= MaxRetries
MayRetry(f) == f \notin Outer /\ attempt[f] < MaxRetries

Raise(f) ==
    /\ pc' = [pc EXCEPT ![f] = "done"]
    /\ Leave(f, "raised")
    /\ row' = [row EXCEPT ![f] = None]
    /\ attempt' = [attempt EXCEPT ![f] = 0]

(* retry_on_serialization_failure: outside an atomic block the call is     *)
(* tried again, at most MaxRetries times; inside one the error is raised.  *)
Retry(f) ==
    /\ pc[f] \in {"save", "inserts"}
    /\ Rollback(f)
    /\ IF MayRetry(f)
       THEN /\ attempt' = [attempt EXCEPT ![f] = @ + 1]
            /\ pc' = [pc EXCEPT ![f] = "single"]
            /\ UNCHANGED <<row, loopVars>>
       ELSE Raise(f)
    /\ UNCHANGED <<feeds, writes, skipped>>

(* The deadlock detector picks f, or it fails over tables left out here.   *)
DeadlockAbort(f) == Deadlocked(f) /\ Retry(f) /\ UNCHANGED errors
Retryable(f) == errors < MaxErrors /\ errors' = errors + 1 /\ Retry(f)

(* Any other error, of a user's function or of the save: raised at once.   *)
Fails(f) ==
    /\ pc[f] \in {"save", "inserts"}
    /\ errors < MaxErrors /\ errors' = errors + 1
    /\ Rollback(f)
    /\ Raise(f)
    /\ UNCHANGED <<feeds, writes, skipped>>

(* The atomic block around flush() commits.                                *)
OuterCommit(f) ==
    /\ pc[f] = "commit"
    /\ pc' = [pc EXCEPT ![f] = "done"]
    /\ Publish(f)
    /\ UNCHANGED <<feeds, row, attempt, loopVars, bounds, skipped>>

-----------------------------------------------------------------------------
Step(f) ==
    \/ Loop(f) \/ NextRow(f) \/ EndPass(f)
    \/ SkipLocked(f) \/ TakeRow(f)
    \/ \E changed \in BOOLEAN : Recompute(f, changed)
    \/ EndSingle(f)

Next ==
    \/ \E a \in Apps : AppStatement(a) \/ AppCommit(a) \/ AppRollback(a)
    \/ \E f \in Flushers :
        \/ \E mode \in {"inline", "queue", "off"} : Response(f, mode)
        \/ \E runOnce \in BOOLEAN : Command(f, runOnce)
        \/ Step(f)
        \/ DeadlockAbort(f) \/ Retryable(f) \/ Fails(f)
        \/ OuterCommit(f)
    \/ \E t \in Tx : InsertMarker(t)

(* A process that runs flush() goes on, one that waits on the index is     *)
(* woken in its turn, and the detector resolves a deadlock by one of its   *)
(* members.  Nothing is assumed of the application: its transactions, and  *)
(* the blocks around flush(), may stay open for ever.                      *)
Spec == Init /\ [][Next]_vars

Resolve ==
    \/ \E f \in Flushers : DeadlockAbort(f)
    \/ \E a \in Apps : Deadlocked(a) /\ AppRollback(a)
Fairness ==
    /\ \A f \in Flushers : WF_vars(Step(f)) /\ SF_vars(InsertMarker(f))
    /\ WF_vars(Resolve)

FairSpec == Spec /\ Fairness

-----------------------------------------------------------------------------
Stages ==
    {"idle", "loop", "rows", "single", "save", "inserts", "commit", "done"}

Types ==
    /\ markers \subseteq Keys
    /\ feeds \in Graphs
    /\ lock \in [Rows -> Tx \cup {None}]
    /\ claimed \in [Tx -> SUBSET Keys]
    /\ ins \in [Tx -> SUBSET Keys]
    /\ todo \in [Tx -> SUBSET Keys]
    /\ pc \in [Flushers -> Stages]
    /\ row \in [Flushers -> Rows \cup {None}]
    /\ stream \in [Flushers -> SUBSET Rows]
    /\ passes \in [Flushers -> 0 .. MaxFlushPasses]
    /\ attempt \in [Flushers -> 0 .. MaxRetries]
    /\ outcome \in [Flushers -> Results \cup {None}]
    /\ once \in [Flushers -> BOOLEAN] /\ processed \in [Flushers -> BOOLEAN]
    /\ ranOnce \in [Flushers -> BOOLEAN] /\ skipped \in [Flushers -> BOOLEAN]
    /\ writes \in 0 .. MaxWrites /\ errors \in 0 .. MaxErrors
    /\ owed \in [Flushers -> SUBSET Keys]

TypeOK ==
    /\ Types
    /\ \A f \in Flushers : pc[f] = "done" =>
        outcome[f] # None /\ \A r \in Rows : lock[r] # f

(* When flush() returns because it found no marker, every marker it saw    *)
(* when it began has been claimed and committed since, be it by another    *)
(* process that had claimed it first (denorms/__init__.py:456-460).  What  *)
(* the recomputing save had read by then is the matter of DenormFlush.     *)
ReadYourWrites ==
    \A f \in Flushers :
        pc[f] = "done" /\ outcome[f] = "empty" => owed[f] = {}

(* A layering puts every row into a layer below those of its dependents;   *)
(* there is one unless functions depend on each other in a circle or in a  *)
(* chain longer than the cap.                                              *)
Layers == 0 .. MaxFlushPasses - 1
Layering(h) == \A r \in Rows : \A k \in feeds[r] : h[r] < h[Of[k]]
Layered == \E h \in [Rows -> Layers] : Layering(h)

(* flush() gives up only because of such a circle or chain, because a row  *)
(* was locked elsewhere, or because the application has written in the     *)
(* meantime (denorms/__init__.py:403-417).                                 *)
GivesUpForCause ==
    \A f \in Flushers :
        outcome[f] = "gave up" => ~Layered \/ skipped[f] \/ writes > 0

(* f waits on the index for a transaction that may stay open for ever, or  *)
(* for other flushes that all wait for one (the least such set).           *)
Open == Apps \cup {f \in Flushers : pc[f] = "commit"}
Delayed(f) ==
    \A S \in SUBSET Flushers :
        {g \in Flushers : \E u \in Open \cup S : WaitsFor(g, u)} \subseteq S
            => f \in S

(* flush() returns or raises, also when functions never settle, rows stay  *)
(* locked and flushes run into deadlocks with each other; only an open     *)
(* transaction around it that has inserted or claimed a marker it inserts  *)
(* keeps it, and for as long as it is open (db/triggers.py:46-50).         *)
EveryFlushEnds ==
    \A f \in Flushers :
        (pc[f] # "idle" ~> pc[f] \in {"commit", "done"}) \/ <>[]Delayed(f)
-----------------------------------------------------------------------------
(* The inductive invariant of the proofs *)

Saving(f) == pc[f] \in {"save", "inserts"}

(* A process holds the row it works on and, inside an outer transaction,   *)
(* the rows it has worked on there; outside one nothing is left            *)
(* uncommitted between two rows.                                           *)
Holding(f) ==
    /\ pc[f] \in {"idle", "done"} \/ (f \notin Outer /\ ~Saving(f)) =>
        claimed[f] = {} /\ ins[f] = {} /\ \A r \in Rows : lock[r] # f
    /\ pc[f] # "inserts" => todo[f] = {}
    /\ pc[f] = "commit" => f \in Outer /\ outcome[f] # None
    /\ pc[f] = "single" \/ Saving(f) => row[f] \in Rows
    /\ Saving(f) => lock[row[f]] = f
    /\ \A k \in claimed[f] : lock[Of[k]] = f
    /\ f \notin Outer => \A r \in Rows : lock[r] = f => r = row[f]
LockInv ==
    /\ \A f \in Flushers : Holding(f)
    /\ \A a \in Apps : claimed[a] = {}

(* The row at hand, and the rows the pass has yet to see.                  *)
AtHand(f) == IF pc[f] = "single" THEN {row[f]} ELSE {}
Ahead(f) == stream[f] \cup AtHand(f)
InPass(f) == pc[f] \in {"rows", "single", "save", "inserts"}

(* What was marked when flush() began and is owed still is marked still;   *)
(* as long as a pass has looked at no pair, it is claimed by this very     *)
(* process or still ahead.                                                 *)
Owing(f) ==
    /\ owed[f] \subseteq markers
    /\ InPass(f) /\ ~processed[f] =>
        \A k \in owed[f] \ claimed[f] : Of[k] \in Ahead(f)
    /\ pc[f] = "commit" /\ outcome[f] = "empty" => owed[f] \subseteq claimed[f]
    /\ pc[f] = "done" /\ outcome[f] = "empty" => owed[f] = {}
OwedInv == \A f \in Flushers : Owing(f)

(* Pass n leaves no marker in the layers below n, whatever other processes *)
(* do: what they insert depends on a row that is marked for everybody      *)
(* until they commit.                                                      *)
Roots(f) == claimed[f] \cap markers
Caused(h, f) ==
    /\ \A k \in ins[f] \cup todo[f] : \E x \in Roots(f) : h[Of[x]] < h[Of[k]]
    /\ Saving(f) => \E x \in Roots(f) : h[Of[x]] <= h[row[f]]
Behind(h, f) == {k \in View(f) : h[Of[k]] < passes[f]}
Passing(h, f) ==
    ~skipped[f] /\ writes = 0 =>
        /\ pc[f] = "idle" => passes[f] = 0
        /\ pc[f] = "loop" => Behind(h, f) = {}
        /\ InPass(f) =>
            \A k \in Behind(h, f) : Of[k] \in Ahead(f) /\ h[Of[k]] + 1 = passes[f]
        /\ Saving(f) => passes[f] <= h[row[f]] + 1
        /\ \A k \in todo[f] : passes[f] <= h[Of[k]]
PassInv ==
    \A h \in [Rows -> Layers] : Layering(h) =>
        \A f \in Flushers : Caused(h, f) /\ Passing(h, f)

(* An application transaction that holds a row or a marker has counted as  *)
(* a write.                                                                *)
AppInv == writes = 0 => \A a \in Apps : ~Busy(a)

(* The parts together; every step keeps them.                              *)
IInv == TypeOK /\ LockInv /\ OwedInv /\ PassInv /\ GivesUpForCause /\ AppInv
=============================================================================
