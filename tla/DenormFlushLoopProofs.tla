----------------------- MODULE DenormFlushLoopProofs -----------------------
(***************************************************************************)
(* flush() keeps its word to the caller and gives up only for a cause, for *)
(* any number of processes, rows, functions and open transactions, every   *)
(* dependency graph, pass cap and retry budget.                            *)
(*                                                                         *)
(* Every step is one of a single process or application transaction.  The  *)
(* lemmas show what it leaves to the others (Apart), that this is enough   *)
(* for what the invariant says of them (OthersKeep), and, action by action,*)
(* that the one that moves keeps what the invariant says of it.            *)
(***************************************************************************)
EXTENDS DenormFlushLoop, TLAPS

(* The failures of a save: tried again, or raised.                         *)
Again(f) ==
    /\ f \notin Outer /\ attempt[f] < MaxRetries
    /\ attempt' = [attempt EXCEPT ![f] = @ + 1]
    /\ pc' = [pc EXCEPT ![f] = "single"]
    /\ UNCHANGED <<row, loopVars>>

Failure(f) ==
    /\ pc[f] \in {"save", "inserts"}
    /\ Rollback(f)
    /\ Again(f) \/ Raise(f)
    /\ errors' \in 0 .. MaxErrors
    /\ UNCHANGED <<feeds, writes, skipped>>

(* What a step of one process or application transaction is.               *)
FlushAct(f) ==
    \/ \E mode \in {"inline", "queue", "off"} : Response(f, mode)
    \/ \E runOnce \in BOOLEAN : Command(f, runOnce)
    \/ Loop(f) \/ NextRow(f) \/ EndPass(f) \/ SkipLocked(f) \/ TakeRow(f)
    \/ \E changed \in BOOLEAN : Recompute(f, changed)
    \/ EndSingle(f) \/ Failure(f) \/ OuterCommit(f) \/ InsertMarker(f)

AppAct(a) == AppStatement(a) \/ AppCommit(a) \/ AppRollback(a) \/ InsertMarker(a)

LEMMA Written ==
  ASSUME NEW w \in 0 .. MaxWrites, w # 0
  PROVE  w > 0
BY LoopAssumption

LEMMA BelowCap ==
  ASSUME NEW layer \in Layers, NEW p \in 0 .. MaxFlushPasses, p >= MaxFlushPasses
  PROVE  layer < p
BY LoopAssumption DEF Layers

LEMMA NextCases ==
  ASSUME Types, Next
  PROVE  \/ \E f \in Flushers : FlushAct(f)
         \/ \E a \in Apps : AppAct(a)
<1>1. ASSUME NEW f \in Flushers, DeadlockAbort(f) \/ Retryable(f)
      PROVE  Failure(f)
  <2>1. Retry(f) /\ errors' \in 0 .. MaxErrors
    BY <1>1, LoopAssumption DEF DeadlockAbort, Retryable, Types
  <2> QED BY <2>1 DEF Failure, Retry, MayRetry, Again
<1>2. ASSUME NEW f \in Flushers, Fails(f)
      PROVE  Failure(f)
  <2>1. errors' \in 0 .. MaxErrors
    BY <1>2, LoopAssumption DEF Fails, Types
  <2> QED BY <1>2, <2>1 DEF Failure, Fails
<1> QED BY <1>1, <1>2 DEF Next, Step, FlushAct, AppAct, Tx

-----------------------------------------------------------------------------
(* Types *)

LEMMA TypeInit == Init => Types
<1> SUFFICES ASSUME Init
             PROVE  Types
  OBVIOUS
<1>1. /\ markers \subseteq Keys /\ feeds \in Graphs
      /\ lock \in [Rows -> Tx \cup {None}]
      /\ claimed \in [Tx -> SUBSET Keys]
      /\ ins \in [Tx -> SUBSET Keys]
      /\ todo \in [Tx -> SUBSET Keys]
      /\ row \in [Flushers -> Rows \cup {None}]
      /\ stream \in [Flushers -> SUBSET Rows]
      /\ owed \in [Flushers -> SUBSET Keys]
      /\ outcome \in [Flushers -> Results \cup {None}]
  BY DEF Init
<1>2. /\ pc \in [Flushers -> Stages]
      /\ once \in [Flushers -> BOOLEAN] /\ processed \in [Flushers -> BOOLEAN]
      /\ ranOnce \in [Flushers -> BOOLEAN] /\ skipped \in [Flushers -> BOOLEAN]
  BY DEF Init, Stages
<1>3. /\ passes \in [Flushers -> 0 .. MaxFlushPasses]
      /\ attempt \in [Flushers -> 0 .. MaxRetries]
      /\ writes \in 0 .. MaxWrites /\ errors \in 0 .. MaxErrors
  BY LoopAssumption DEF Init
<1> QED BY <1>1, <1>2, <1>3 DEF Types

LEMMA ViewType ==
  ASSUME Types, NEW t \in Tx
  PROVE  View(t) \in SUBSET Keys
BY DEF View, Types

LEMMA ReleaseType ==
  ASSUME Types, NEW t \in Tx, Release(t)
  PROVE  /\ lock' \in [Rows -> Tx \cup {None}]
         /\ claimed' \in [Tx -> SUBSET Keys]
         /\ ins' \in [Tx -> SUBSET Keys]
         /\ todo' \in [Tx -> SUBSET Keys]
BY DEF Release, Types

LEMMA PublishType ==
  ASSUME Types, NEW t \in Tx, Publish(t)
  PROVE  /\ markers' \in SUBSET Keys
         /\ owed' \in [Flushers -> SUBSET Keys]
BY ViewType DEF Publish, Types

LEMMA LeaveType ==
  ASSUME Types, NEW f \in Flushers, NEW how \in Results, Leave(f, how)
  PROVE  /\ outcome' \in [Flushers -> Results \cup {None}]
         /\ passes' \in [Flushers -> 0 .. MaxFlushPasses]
         /\ once' \in [Flushers -> BOOLEAN]
         /\ processed' \in [Flushers -> BOOLEAN]
         /\ ranOnce' \in [Flushers -> BOOLEAN]
         /\ stream' \in [Flushers -> SUBSET Rows]
BY LoopAssumption DEF Leave, Types

(* flush_single has returned to the loop.                                  *)
LEMMA ReturnedType ==
  ASSUME Types, NEW f \in Flushers, NEW claims \in BOOLEAN, Returned(f, claims)
  PROVE  /\ pc' \in [Flushers -> Stages]
         /\ processed' \in [Flushers -> BOOLEAN]
         /\ row' \in [Flushers -> Rows \cup {None}]
         /\ attempt' \in [Flushers -> 0 .. MaxRetries]
BY LoopAssumption DEF Returned, Counted, Types, Stages

LEMMA InsertType ==
  ASSUME Types, NEW t \in Tx, InsertMarker(t)
  PROVE  Types'
<1>1. PICK k \in todo[t] : /\ todo' = [todo EXCEPT ![t] = @ \ {k}]
                           /\ ins' = [ins EXCEPT ![t] = @ \cup ({k} \ View(t))]
  BY DEF InsertMarker
<1>2. k \in Keys
  BY <1>1 DEF Types
<1>3. todo' \in [Tx -> SUBSET Keys] /\ ins' \in [Tx -> SUBSET Keys]
  BY <1>1, <1>2 DEF Types
<1>4. UNCHANGED <<markers, lock, claimed, owed, feeds, pc, row, attempt, stream,
                  passes, once, processed, ranOnce, outcome, writes, errors, skipped>>
  BY DEF InsertMarker, loopVars, bounds
<1> QED BY <1>3, <1>4 DEF Types

LEMMA TypeApp ==
  ASSUME Types, NEW a \in Apps, AppAct(a)
  PROVE  Types'
<1>a. a \in Tx
  BY DEF Tx
<1>1. CASE AppStatement(a)
  <2>1. PICK s \in Statements :
          /\ lock' = [r \in Rows |-> IF r \in s.rows THEN a ELSE lock[r]]
          /\ todo' = [todo EXCEPT ![a] = s.marks]
    BY <1>1 DEF AppStatement
  <2>2. s.marks \subseteq Keys
    BY LoopAssumption
  <2>3. lock' \in [Rows -> Tx \cup {None}] /\ todo' \in [Tx -> SUBSET Keys]
    BY <1>a, <2>1, <2>2 DEF Types
  <2>4. writes' \in 0 .. MaxWrites
    BY <1>1, LoopAssumption DEF AppStatement, Types
  <2>5. UNCHANGED <<markers, claimed, ins, owed, feeds, pc, row, attempt, stream,
                    passes, once, processed, ranOnce, outcome, errors, skipped>>
    BY <1>1 DEF AppStatement, loopVars
  <2> QED BY <2>3, <2>4, <2>5 DEF Types
<1>2. CASE AppCommit(a)
  <2>1. Publish(a) /\ Release(a)
    BY <1>2 DEF AppCommit, Publish
  <2>2. UNCHANGED <<feeds, pc, row, attempt, stream, passes, once, processed,
                    ranOnce, outcome, writes, errors, skipped>>
    BY <1>2 DEF AppCommit, loopVars, bounds
  <2> QED BY <1>a, <2>1, <2>2, ReleaseType, PublishType DEF Types
<1>3. CASE AppRollback(a)
  <2>1. Release(a)
    BY <1>3 DEF AppRollback, Rollback
  <2>2. UNCHANGED <<markers, owed, feeds, pc, row, attempt, stream, passes, once,
                    processed, ranOnce, outcome, writes, errors, skipped>>
    BY <1>3 DEF AppRollback, Rollback, loopVars, bounds
  <2> QED BY <1>a, <2>1, <2>2, ReleaseType DEF Types
<1> QED BY <1>a, <1>1, <1>2, <1>3, InsertType DEF AppAct

LEMMA TypeFlush ==
  ASSUME Types, LockInv, NEW f \in Flushers, FlushAct(f)
  PROVE  Types'
<1> USE LoopAssumption
<1>t. f \in Tx
  BY DEF Tx
<1>r. pc[f] = "single" \/ Saving(f) => row[f] \in Rows
  BY DEF LockInv, Holding
<1>o. /\ "no flush" \in Results /\ "once" \in Results /\ "empty" \in Results
      /\ "gave up" \in Results /\ "raised" \in Results
  BY DEF Results
<1>s. ASSUME NEW how \in Results, Stop(f, how),
             UNCHANGED <<tables, feeds, row, attempt, bounds, skipped>>
      PROVE  Types'
  <2>1. pc' \in [Flushers -> Stages] /\ Leave(f, how)
    BY <1>s DEF Stop, Types, Stages
  <2>2. UNCHANGED <<markers, lock, claimed, ins, todo, owed, feeds, row, attempt,
                    writes, errors, skipped>>
    BY <1>s DEF tables, txVars, bounds
  <2> QED BY <2>1, <2>2, LeaveType DEF Types
<1>1. ASSUME NEW runOnce \in BOOLEAN, Begin(f, runOnce)
      PROVE  Types'
  <2>1. pc' \in [Flushers -> Stages] /\ once' \in [Flushers -> BOOLEAN]
    BY <1>1 DEF Begin, Types, Stages
  <2>2. owed' \in [Flushers -> SUBSET Keys]
    BY <1>t, <1>1, ViewType DEF Begin, Types
  <2>3. UNCHANGED <<markers, lock, claimed, ins, todo, feeds, row, attempt, stream,
                    passes, processed, ranOnce, outcome, writes, errors, skipped>>
    BY <1>1 DEF Begin, txVars, bounds
  <2> QED BY <2>1, <2>2, <2>3 DEF Types
<1>2. ASSUME NEW mode \in {"inline", "queue", "off"}, Response(f, mode)
      PROVE  Types'
  BY <1>o, <1>s, <1>1, <1>2 DEF Response
<1>3. CASE Loop(f)
  <2>1. UNCHANGED <<tables, feeds, row, attempt, bounds, skipped>>
    BY <1>3 DEF Loop
  <2>2. CASE Stop(f, "once") \/ AtCap(f)
    BY <1>o, <1>s, <2>1, <2>2 DEF AtCap
  <2>3. CASE passes[f] < MaxFlushPasses /\ Pass(f) /\ UNCHANGED <<outcome, once, ranOnce>>
    <3>1. passes' \in [Flushers -> 0 .. MaxFlushPasses]
      BY <2>3 DEF Pass, Types
    <3>2. {Of[k] : k \in View(f)} \subseteq Rows
      BY <1>t, ViewType
    <3>3. stream' \in [Flushers -> SUBSET Rows]
      BY <2>3, <3>2 DEF Pass, Types
    <3>4. pc' \in [Flushers -> Stages] /\ processed' \in [Flushers -> BOOLEAN]
      BY <2>3 DEF Pass, Types, Stages
    <3>5. UNCHANGED <<markers, lock, claimed, ins, todo, owed, feeds, row, attempt,
                      writes, errors, skipped>>
      BY <2>1 DEF tables, txVars, bounds
    <3> QED BY <2>3, <3>1, <3>3, <3>4, <3>5 DEF Types
  <2> QED BY <1>3, <2>2, <2>3 DEF Loop
<1>4. CASE NextRow(f)
  <2>1. PICK r \in stream[f] : /\ stream' = [stream EXCEPT ![f] = @ \ {r}]
                               /\ row' = [row EXCEPT ![f] = r]
    BY <1>4 DEF NextRow
  <2>2. stream' \in [Flushers -> SUBSET Rows] /\ row' \in [Flushers -> Rows \cup {None}]
    BY <2>1 DEF Types
  <2>3. pc' \in [Flushers -> Stages] /\ attempt' \in [Flushers -> 0 .. MaxRetries]
    BY <1>4 DEF NextRow, Types, Stages
  <2>4. UNCHANGED <<markers, lock, claimed, ins, todo, owed, feeds, passes, once,
                    processed, ranOnce, outcome, writes, errors, skipped>>
    BY <1>4 DEF NextRow, tables, txVars, bounds
  <2> QED BY <2>2, <2>3, <2>4 DEF Types
<1>5. CASE EndPass(f)
  <2>1. UNCHANGED <<tables, feeds, row, attempt, bounds, skipped>>
    BY <1>5 DEF EndPass
  <2>2. CASE processed[f]
    <3>1. /\ pc' \in [Flushers -> Stages] /\ ranOnce' \in [Flushers -> BOOLEAN]
          /\ UNCHANGED <<stream, passes, once, processed, outcome>>
      BY <1>5, <2>2 DEF EndPass, Types, Stages
    <3>2. UNCHANGED <<markers, lock, claimed, ins, todo, owed, feeds, row, attempt,
                      writes, errors, skipped>>
      BY <2>1 DEF tables, txVars, bounds
    <3> QED BY <3>1, <3>2 DEF Types
  <2>3. CASE ~processed[f]
    BY <1>o, <1>s, <1>5, <2>1, <2>3 DEF EndPass
  <2> QED BY <2>2, <2>3
<1>6. CASE SkipLocked(f)
  <2>1. Returned(f, FALSE) /\ skipped' \in [Flushers -> BOOLEAN]
    BY <1>6 DEF SkipLocked, Types
  <2>2. UNCHANGED <<markers, lock, claimed, ins, todo, owed, feeds, stream, passes,
                    once, ranOnce, outcome, writes, errors>>
    BY <1>6 DEF SkipLocked, tables, txVars, bounds
  <2> QED BY <2>1, <2>2, ReturnedType DEF Types
<1>7. CASE TakeRow(f)
  <2>0. row[f] \in Rows
    BY <1>r, <1>7 DEF TakeRow
  <2>1. UNCHANGED <<markers, todo, owed, feeds, stream, passes, once, ranOnce,
                    outcome, writes, errors, skipped>>
    BY <1>7 DEF TakeRow, bounds
  <2>2. CASE KeysOf(row[f]) \cap View(f) # {}
    <3>1. Claim(f) /\ lock' = [lock EXCEPT ![row[f]] = f]
      BY <1>7, <2>2 DEF TakeRow
    <3>2. KeysOf(row[f]) \cap View(f) \subseteq Keys
      BY DEF KeysOf
    <3>3. /\ claimed' \in [Tx -> SUBSET Keys] /\ ins' \in [Tx -> SUBSET Keys]
          /\ pc' \in [Flushers -> Stages] /\ UNCHANGED <<row, attempt, processed>>
      BY <3>1, <3>2 DEF Claim, Types, Stages
    <3>4. lock' \in [Rows -> Tx \cup {None}]
      BY <1>t, <3>1 DEF Types
    <3> QED BY <2>1, <3>3, <3>4 DEF Types
  <2>3. CASE KeysOf(row[f]) \cap View(f) = {}
    <3>1. /\ Returned(f, FALSE) /\ UNCHANGED <<claimed, ins>>
          /\ lock' = [lock EXCEPT ![row[f]] = IF f \in Outer THEN f ELSE None]
      BY <1>7, <2>3 DEF TakeRow
    <3>2. lock' \in [Rows -> Tx \cup {None}]
      BY <1>t, <3>1 DEF Types
    <3> QED BY <2>1, <3>1, <3>2, ReturnedType DEF Types
  <2> QED BY <2>2, <2>3
<1>8. ASSUME NEW changed \in BOOLEAN, Recompute(f, changed)
      PROVE  Types'
  <2>1. row[f] \in Rows
    BY <1>r, <1>8 DEF Recompute, Saving
  <2>2. feeds[row[f]] \subseteq Keys
    BY <2>1 DEF Types
  <2>3. todo' \in [Tx -> SUBSET Keys] /\ pc' \in [Flushers -> Stages]
    BY <1>8, <2>2 DEF Recompute, Types, Stages
  <2>4. UNCHANGED <<markers, lock, claimed, ins, owed, feeds, row, attempt, stream,
                    passes, once, processed, ranOnce, outcome, writes, errors, skipped>>
    BY <1>8 DEF Recompute, loopVars, bounds
  <2> QED BY <2>3, <2>4 DEF Types
<1>9. CASE EndSingle(f)
  <2>1. /\ Returned(f, TRUE)
        /\ UNCHANGED <<feeds, stream, passes, once, ranOnce, outcome, writes, errors,
                       skipped>>
    BY <1>9 DEF EndSingle, bounds
  <2>2. CASE f \in Outer
    <3>1. UNCHANGED <<markers, lock, claimed, ins, todo, owed>>
      BY <1>9, <2>2 DEF EndSingle, tables, txVars
    <3> QED BY <2>1, <3>1, ReturnedType DEF Types
  <2>3. CASE f \notin Outer
    <3>1. Publish(f) /\ Release(f)
      BY <1>9, <2>3 DEF EndSingle, Publish
    <3> QED BY <1>t, <2>1, <3>1, ReturnedType, ReleaseType, PublishType DEF Types
  <2> QED BY <2>2, <2>3
<1>10. CASE Failure(f)
  <2>1. /\ Release(f) /\ errors' \in 0 .. MaxErrors
        /\ UNCHANGED <<markers, owed, feeds, writes, skipped>>
    BY <1>10 DEF Failure, Rollback
  <2>2. CASE Again(f)
    <3>1. attempt' \in [Flushers -> 0 .. MaxRetries] /\ pc' \in [Flushers -> Stages]
      BY <2>2 DEF Again, Types, Stages
    <3>2. UNCHANGED <<row, stream, passes, once, processed, ranOnce, outcome>>
      BY <2>2 DEF Again, loopVars
    <3> QED BY <1>t, <2>1, <3>1, <3>2, ReleaseType DEF Types
  <2>3. CASE Raise(f)
    <3>1. /\ Leave(f, "raised") /\ pc' \in [Flushers -> Stages]
          /\ row' \in [Flushers -> Rows \cup {None}]
          /\ attempt' \in [Flushers -> 0 .. MaxRetries]
      BY <2>3 DEF Raise, Types, Stages
    <3> QED BY <1>o, <1>t, <2>1, <3>1, ReleaseType, LeaveType DEF Types
  <2> QED BY <1>10, <2>2, <2>3 DEF Failure
<1>11. CASE OuterCommit(f)
  <2>1. /\ Publish(f) /\ Release(f) /\ pc' \in [Flushers -> Stages]
        /\ UNCHANGED <<feeds, row, attempt, stream, passes, once, processed, ranOnce,
                       outcome, writes, errors, skipped>>
    BY <1>11 DEF OuterCommit, Publish, loopVars, bounds, Types, Stages
  <2> QED BY <1>t, <2>1, ReleaseType, PublishType DEF Types
<1> QED
  BY <1>t, <1>1, <1>2, <1>3, <1>4, <1>5, <1>6, <1>7, <1>8, <1>9, <1>10, <1>11,
     InsertType
  DEF FlushAct, Command

-----------------------------------------------------------------------------
(* What a step leaves to the others *)

KeptTx(u) == claimed'[u] = claimed[u] /\ ins'[u] = ins[u] /\ todo'[u] = todo[u]

Kept(g) ==
    /\ KeptTx(g)
    /\ pc'[g] = pc[g] /\ row'[g] = row[g] /\ stream'[g] = stream[g]
    /\ passes'[g] = passes[g] /\ processed'[g] = processed[g]
    /\ outcome'[g] = outcome[g] /\ skipped'[g] = skipped[g]

(* It frees and takes only locks of its own, deletes only markers it has   *)
(* claimed and publishes only those it has inserted.                       *)
Tables(t) ==
    /\ \A u \in Tx \ {t} : KeptTx(u)
    /\ \A r \in Rows : lock'[r] = lock[r] \/ {lock[r], lock'[r]} \subseteq {None, t}
    /\ markers \ markers' \subseteq claimed[t]
    /\ markers' \ markers \subseteq ins[t]
    /\ \A g \in Flushers \ {t} : owed'[g] \subseteq owed[g] \ (markers \ markers')

Apart(t) ==
    /\ Tables(t)
    /\ \A g \in Flushers \ {t} : Kept(g)
    /\ feeds' = feeds

LEMMA ReleaseApart ==
  ASSUME Types, NEW t \in Tx, Release(t)
  PROVE  /\ \A u \in Tx \ {t} : KeptTx(u)
         /\ \A r \in Rows : lock'[r] = lock[r] \/ {lock[r], lock'[r]} \subseteq {None, t}
BY DEF Release, Types, KeptTx

LEMMA PublishApart ==
  ASSUME Types, NEW t \in Tx, Publish(t)
  PROVE  Tables(t)
<1>1. Release(t) /\ markers' = View(t)
  BY DEF Publish
<1>2. \A g \in Flushers : owed'[g] = owed[g] \ claimed[t]
  BY DEF Publish
<1>3. markers \ markers' \subseteq claimed[t] /\ markers' \ markers \subseteq ins[t]
  BY <1>1 DEF View
<1>4. \A g \in Flushers \ {t} : owed'[g] \subseteq owed[g] \ (markers \ markers')
  BY <1>2, <1>3
<1> QED BY <1>1, <1>3, <1>4, ReleaseApart DEF Tables

LEMMA RollbackApart ==
  ASSUME Types, NEW t \in Tx, Rollback(t)
  PROVE  Tables(t)
<1>1. Release(t) /\ UNCHANGED <<markers, owed>>
  BY DEF Rollback
<1> QED BY <1>1, ReleaseApart DEF Tables

LEMMA QuietApart ==
  ASSUME Types, NEW t \in Tx, UNCHANGED <<markers, lock>>,
         \A u \in Tx \ {t} : KeptTx(u),
         \A g \in Flushers \ {t} : owed'[g] = owed[g]
  PROVE  Tables(t)
BY DEF Tables

LEMMA InsertApart ==
  ASSUME Types, NEW t \in Tx, InsertMarker(t)
  PROVE  Apart(t)
<1>1. UNCHANGED <<markers, lock, claimed, owed, feeds, pc, row, stream, passes,
                  processed, outcome, skipped>>
  BY DEF InsertMarker, loopVars
<1>2. \A u \in Tx \ {t} : KeptTx(u)
  BY <1>1 DEF InsertMarker, Types, KeptTx
<1>3. Tables(t)
  BY <1>1, <1>2, QuietApart
<1> QED BY <1>1, <1>2, <1>3 DEF Apart, Kept, Tx

LEMMA AppApart ==
  ASSUME Types, NEW a \in Apps, AppAct(a)
  PROVE  Apart(a)
<1>a. a \in Tx /\ a \notin Flushers
  BY LoopAssumption DEF Tx
<1>1. CASE AppStatement(a)
  <2>1. UNCHANGED <<markers, claimed, ins, owed, feeds, pc, row, stream, passes,
                    processed, outcome, skipped>>
    BY <1>1 DEF AppStatement, loopVars
  <2>2. \A u \in Tx \ {a} : KeptTx(u)
    BY <1>1, <2>1 DEF AppStatement, Types, KeptTx
  <2>3. \A r \in Rows : lock'[r] = lock[r] \/ {lock[r], lock'[r]} \subseteq {None, a}
    BY <1>1 DEF AppStatement
  <2> QED BY <1>a, <2>1, <2>2, <2>3 DEF Apart, Tables, Kept, Tx
<1>2. ASSUME Tables(a), UNCHANGED <<feeds, pc, row, attempt, loopVars, bounds, skipped>>
      PROVE  Apart(a)
  BY <1>a, <1>2 DEF Apart, Tables, Kept, Tx, loopVars
<1>3. CASE AppCommit(a)
  BY <1>a, <1>2, <1>3, PublishApart DEF AppCommit
<1>4. CASE AppRollback(a)
  BY <1>a, <1>2, <1>4, RollbackApart DEF AppRollback
<1> QED BY <1>a, <1>1, <1>3, <1>4, InsertApart DEF AppAct

(* The variables of f's loop change for f alone.                           *)
LoopKept(g) ==
    /\ pc'[g] = pc[g] /\ row'[g] = row[g] /\ stream'[g] = stream[g]
    /\ passes'[g] = passes[g] /\ processed'[g] = processed[g]
    /\ outcome'[g] = outcome[g] /\ skipped'[g] = skipped[g]

LEMMA LoopApart ==
  ASSUME Types, NEW f \in Flushers, FlushAct(f), ~InsertMarker(f),
         NEW g \in Flushers \ {f}
  PROVE  LoopKept(g) /\ feeds' = feeds
<1> USE DEF Types, LoopKept
<1>s. ASSUME NEW how, Stop(f, how), UNCHANGED <<feeds, row, skipped>>
      PROVE  LoopKept(g) /\ feeds' = feeds
  BY <1>s DEF Stop, Leave
<1>1. ASSUME NEW runOnce \in BOOLEAN, Begin(f, runOnce)
      PROVE  LoopKept(g) /\ feeds' = feeds
  BY <1>1 DEF Begin
<1>2. ASSUME NEW mode \in {"inline", "queue", "off"}, Response(f, mode)
      PROVE  LoopKept(g) /\ feeds' = feeds
  BY <1>s, <1>1, <1>2 DEF Response
<1>3. CASE Loop(f)
  <2>1. UNCHANGED <<feeds, row, skipped>>
    BY <1>3 DEF Loop
  <2>2. CASE Stop(f, "once") \/ AtCap(f)
    BY <1>s, <2>1, <2>2 DEF AtCap
  <2>3. CASE Pass(f) /\ UNCHANGED <<outcome, once, ranOnce>>
    BY <2>1, <2>3 DEF Pass
  <2> QED BY <1>3, <2>2, <2>3 DEF Loop
<1>4. CASE NextRow(f)
  BY <1>4 DEF NextRow
<1>5. CASE EndPass(f)
  <2>1. CASE processed[f]
    BY <1>5, <2>1 DEF EndPass
  <2>2. CASE ~processed[f]
    BY <1>5, <1>s, <2>2 DEF EndPass
  <2> QED BY <2>1, <2>2
<1>6. CASE SkipLocked(f)
  BY <1>6 DEF SkipLocked, Returned, Counted
<1>7. CASE TakeRow(f)
  BY <1>7 DEF TakeRow, Claim, Returned, Counted
<1>8. ASSUME NEW changed \in BOOLEAN, Recompute(f, changed)
      PROVE  LoopKept(g) /\ feeds' = feeds
  BY <1>8 DEF Recompute, loopVars
<1>9. CASE EndSingle(f)
  BY <1>9 DEF EndSingle, Returned, Counted
<1>10. CASE Failure(f)
  <2>1. CASE Again(f)
    BY <1>10, <2>1 DEF Failure, Again, loopVars
  <2>2. CASE Raise(f)
    BY <1>10, <2>2 DEF Failure, Raise, Leave
  <2> QED BY <1>10, <2>1, <2>2 DEF Failure
<1>11. CASE OuterCommit(f)
  BY <1>11 DEF OuterCommit, loopVars
<1> QED
  BY <1>1, <1>2, <1>3, <1>4, <1>5, <1>6, <1>7, <1>8, <1>9, <1>10, <1>11
  DEF FlushAct, Command

LEMMA TablesApart ==
  ASSUME Types, LockInv, NEW f \in Flushers, FlushAct(f), ~InsertMarker(f)
  PROVE  Tables(f)
<1>t. f \in Tx
  BY DEF Tx
<1>q. ASSUME UNCHANGED tables
      PROVE  Tables(f)
  BY <1>q, <1>t, QuietApart DEF tables, txVars, KeptTx
<1>1. ASSUME NEW runOnce \in BOOLEAN, Begin(f, runOnce)
      PROVE  Tables(f)
  BY <1>1, <1>t, QuietApart DEF Begin, txVars, KeptTx, Types
<1>2. ASSUME NEW mode \in {"inline", "queue", "off"}, Response(f, mode)
      PROVE  Tables(f)
  BY <1>q, <1>1, <1>2 DEF Response
<1>3. CASE Loop(f) \/ NextRow(f) \/ EndPass(f) \/ SkipLocked(f)
  BY <1>3, <1>q DEF Loop, NextRow, EndPass, SkipLocked
<1>4. CASE TakeRow(f)
  <2>1. UNCHANGED <<markers, owed, todo>>
    BY <1>4 DEF TakeRow
  <2>2. \A u \in Tx \ {f} : KeptTx(u)
    BY <1>4, <2>1 DEF TakeRow, Claim, KeptTx, Types
  <2>3. \A r \in Rows : lock'[r] = lock[r] \/ {lock[r], lock'[r]} \subseteq {None, f}
    BY <1>4 DEF TakeRow, Types
  <2> QED BY <2>1, <2>2, <2>3 DEF Tables
<1>5. ASSUME NEW changed \in BOOLEAN, Recompute(f, changed)
      PROVE  Tables(f)
  BY <1>5, <1>t, QuietApart DEF Recompute, KeptTx, Types
<1>6. CASE EndSingle(f)
  BY <1>6, <1>q, <1>t, PublishApart DEF EndSingle
<1>7. CASE Failure(f)
  BY <1>7, <1>t, RollbackApart DEF Failure
<1>8. CASE OuterCommit(f)
  BY <1>8, <1>t, PublishApart DEF OuterCommit
<1> QED
  BY <1>1, <1>2, <1>3, <1>4, <1>5, <1>6, <1>7, <1>8 DEF FlushAct, Command

LEMMA FlushApart ==
  ASSUME Types, LockInv, NEW f \in Flushers, FlushAct(f)
  PROVE  Apart(f)
<1>t. f \in Tx
  BY DEF Tx
<1>1. CASE InsertMarker(f)
  BY <1>t, <1>1, InsertApart
<1>2. CASE ~InsertMarker(f)
  <2>1. Tables(f)
    BY <1>2, TablesApart
  <2>2. \A g \in Flushers \ {f} : LoopKept(g) /\ feeds' = feeds
    BY <1>2, LoopApart
  <2>3. \A g \in Flushers \ {f} : Kept(g)
    BY <2>1, <2>2 DEF Tables, Kept, LoopKept, Tx
  <2>4. feeds' = feeds
    BY <1>2
    DEF FlushAct, Response, Command, Begin, Loop, NextRow, EndPass, SkipLocked,
        TakeRow, Recompute, EndSingle, Failure, OuterCommit
  <2> QED BY <2>1, <2>3, <2>4 DEF Apart
<1> QED BY <1>1, <1>2

-----------------------------------------------------------------------------
(* What the invariant says of one process, and that the others keep it *)

Returns(f) ==
    pc[f] = "done" => outcome[f] # None /\ \A r \in Rows : lock[r] # f

Paced(f) ==
    \A h \in [Rows -> Layers] : Layering(h) => Caused(h, f) /\ Passing(h, f)

Mine(f) == Returns(f) /\ Holding(f) /\ Owing(f) /\ Paced(f)

(* What t makes visible depends on a row it has locked and whose marker    *)
(* the others see.                                                         *)
Founded(h, t) == \A k \in ins[t] : \E x \in Roots(t) : h[Of[x]] < h[Of[k]]

LEMMA ViewChange ==
  ASSUME NEW t, NEW g, Apart(t), KeptTx(g)
  PROVE  View(g)' \subseteq View(g) \cup (ins[t] \ claimed[g])
BY DEF Apart, Tables, KeptTx, View

LEMMA OthersKeep ==
  ASSUME Types, Types', LockInv, NEW t \in Tx, Apart(t),
         NEW g \in Flushers \ {t}, Mine(g),
         t \in Flushers => Holding(t),
         writes' = 0 => /\ writes = 0
                        /\ \A h \in [Rows -> Layers] : Layering(h) => Founded(h, t)
  PROVE  Mine(g)'
<1> USE LoopAssumption
<1>1. Kept(g) /\ KeptTx(g) /\ Tables(t) /\ feeds' = feeds
  BY DEF Apart, Kept
<1>2. \A r \in Rows : lock'[r] = g <=> lock[r] = g
  BY <1>1 DEF Tables, Tx
<1>3. claimed[g] \subseteq Keys /\ claimed[t] \subseteq Keys /\ ins[t] \subseteq Keys
  BY DEF Types, Tx
<1>4. claimed[g] \cap claimed[t] = {}
  <2>1. \A k \in claimed[g] : lock[Of[k]] = g
    BY DEF Mine, Holding
  <2>2. \A k \in claimed[t] : lock[Of[k]] = t
    BY DEF LockInv, Holding, Tx
  <2> QED BY <2>1, <2>2
<1>5. Roots(g)' = Roots(g) \cup (claimed[g] \cap (markers' \ markers))
  BY <1>1, <1>4 DEF Roots, Tables, KeptTx
<1>6. Returns(g)'
  BY <1>1, <1>2 DEF Mine, Returns, Kept
<1>7. Holding(g)'
  BY <1>1, <1>2, <1>3 DEF Mine, Holding, Saving, Kept, KeptTx
<1>8. Owing(g)'
  <2>1. Ahead(g)' = Ahead(g) /\ InPass(g)' = InPass(g)
    BY <1>1 DEF Kept, Ahead, AtHand, InPass
  <2>2. owed'[g] \subseteq owed[g] \ (markers \ markers') /\ claimed'[g] = claimed[g]
    BY <1>1 DEF Tables, KeptTx
  <2>3. owed'[g] \subseteq markers'
    BY <2>2 DEF Mine, Owing
  <2>4. InPass(g)' /\ ~processed'[g] => \A k \in owed'[g] \ claimed'[g] : Of[k] \in Ahead(g)'
    BY <1>1, <2>1, <2>2 DEF Mine, Owing, Kept
  <2>5. /\ pc'[g] = "commit" /\ outcome'[g] = "empty" => owed'[g] \subseteq claimed'[g]
        /\ pc'[g] = "done" /\ outcome'[g] = "empty" => owed'[g] = {}
    BY <1>1, <2>2 DEF Mine, Owing, Kept
  <2> QED BY <2>3, <2>4, <2>5 DEF Owing
<1>9. Paced(g)'
  <2> SUFFICES ASSUME NEW h \in [Rows -> Layers], Layering(h)
               PROVE  Caused(h, g)' /\ Passing(h, g)'
    BY <1>1 DEF Paced, Layering
  <2>r. \A r \in Rows : h[r] \in Nat
    BY DEF Layers
  <2>1. Caused(h, g) /\ Passing(h, g)
    BY DEF Mine, Paced
  <2>2. Caused(h, g)'
    BY <1>1, <1>5, <2>1 DEF Caused, Saving, Kept, KeptTx
  <2>3. ASSUME writes' = 0, NEW k \in Behind(h, g)', k \notin Behind(h, g)
        PROVE  \E x \in Behind(h, g) : h[Of[x]] < h[Of[k]]
    <3>1. k \in ins[t] /\ h[Of[k]] < passes[g]
      BY <1>1, <2>3, ViewChange DEF Behind, Kept
    <3>2. PICK x \in Roots(t) : h[Of[x]] < h[Of[k]]
      BY <2>3, <3>1 DEF Founded
    <3>3. x \in View(g)
      BY <1>4, <3>2 DEF Roots, View
    <3>4. x \in Keys /\ passes[g] \in Nat
      BY <1>3, <3>2 DEF Roots, Types
    <3>5. h[Of[x]] < passes[g]
      BY <1>3, <2>r, <3>1, <3>2, <3>4
    <3> QED BY <3>2, <3>3, <3>5 DEF Behind
  <2>4. Passing(h, g)'
    <3> SUFFICES ASSUME ~skipped'[g], writes' = 0
                 PROVE  /\ pc'[g] = "idle" => passes'[g] = 0
                        /\ pc'[g] = "loop" => Behind(h, g)' = {}
                        /\ InPass(g)' =>
                             \A k \in Behind(h, g)' :
                                 Of[k] \in Ahead(g)' /\ h[Of[k]] + 1 = passes'[g]
                        /\ Saving(g)' => passes'[g] <= h[row'[g]] + 1
                        /\ \A k \in todo'[g] : passes'[g] <= h[Of[k]]
      BY DEF Passing
    <3>0. ~skipped[g] /\ writes = 0
      BY <1>1 DEF Kept
    <3>1. /\ pc'[g] = "idle" => passes'[g] = 0
          /\ Saving(g)' => passes'[g] <= h[row'[g]] + 1
          /\ \A k \in todo'[g] : passes'[g] <= h[Of[k]]
      BY <1>1, <2>1, <3>0 DEF Passing, Kept, KeptTx, Saving
    <3>2. pc'[g] = "loop" => Behind(h, g)' = {}
      BY <1>1, <2>1, <2>3, <3>0 DEF Passing, Kept
    <3>3. ASSUME InPass(g)'
          PROVE  \A k \in Behind(h, g)' :
                     Of[k] \in Ahead(g)' /\ h[Of[k]] + 1 = passes'[g]
      <4>1. InPass(g) /\ Ahead(g)' = Ahead(g) /\ passes'[g] = passes[g]
        BY <1>1, <3>3 DEF Kept, Ahead, AtHand, InPass
      <4>2. \A k \in Behind(h, g) : Of[k] \in Ahead(g) /\ h[Of[k]] + 1 = passes[g]
        BY <2>1, <3>0, <4>1 DEF Passing
      <4>3. Behind(h, g)' \subseteq Behind(h, g)
        <5> SUFFICES ASSUME NEW k \in Behind(h, g)', k \notin Behind(h, g)
                     PROVE  FALSE
          OBVIOUS
        <5>1. PICK x \in Behind(h, g) : h[Of[x]] < h[Of[k]]
          BY <2>3
        <5>2. h[Of[x]] + 1 = passes[g] /\ h[Of[k]] < passes[g]
          BY <4>1, <4>2, <5>1 DEF Behind
        <5>3. x \in Keys /\ k \in Keys
          BY <1>3, ViewType DEF Behind, View, Types, Tx
        <5> QED BY <2>r, <5>1, <5>2, <5>3
      <4> QED BY <4>1, <4>2, <4>3
    <3> QED BY <3>1, <3>2, <3>3
  <2> QED BY <2>2, <2>4
<1> QED BY <1>6, <1>7, <1>8, <1>9 DEF Mine

-----------------------------------------------------------------------------
(* The loop of flush() *)

LEMMA Domains ==
  ASSUME Types
  PROVE  /\ DOMAIN pc = Flushers /\ DOMAIN row = Flushers /\ DOMAIN stream = Flushers
         /\ DOMAIN passes = Flushers /\ DOMAIN processed = Flushers
         /\ DOMAIN outcome = Flushers /\ DOMAIN skipped = Flushers
         /\ DOMAIN owed = Flushers /\ DOMAIN lock = Rows
         /\ DOMAIN claimed = Tx /\ DOMAIN ins = Tx /\ DOMAIN todo = Tx
BY DEF Types

LEMMA Numbers ==
  ASSUME Types, NEW f \in Flushers, NEW h \in [Rows -> Layers]
  PROVE  /\ passes[f] \in Nat
         /\ \A r \in Rows : h[r] \in Nat
         /\ \A k \in Keys : Of[k] \in Rows
         /\ View(f) \subseteq Keys
BY LoopAssumption, ViewType DEF Types, Layers, Tx

LEMMA BeginKeeps ==
  ASSUME Types, NEW f \in Flushers, Mine(f), pc[f] = "idle",
         NEW runOnce \in BOOLEAN, Begin(f, runOnce)
  PROVE  Mine(f)'
<1>1. /\ pc'[f] = "loop" /\ owed'[f] = View(f)
      /\ UNCHANGED <<markers, lock, claimed, ins, todo, feeds, row, stream, passes,
                     processed, outcome, writes, skipped>>
  BY Domains DEF Begin, txVars, bounds
<1>2. claimed[f] = {} /\ ins[f] = {} /\ todo[f] = {} /\ \A r \in Rows : lock[r] # f
  BY DEF Mine, Holding
<1>3. Returns(f)' /\ Holding(f)' /\ Owing(f)'
  BY <1>1, <1>2 DEF Returns, Holding, Saving, Owing, InPass, View
<1>4. Paced(f)'
  <2> SUFFICES ASSUME NEW h \in [Rows -> Layers], Layering(h)
               PROVE  Caused(h, f)' /\ Passing(h, f)'
    BY <1>1 DEF Paced, Layering
  <2>1. Passing(h, f)
    BY DEF Mine, Paced
  <2>2. Caused(h, f)'
    BY <1>1, <1>2 DEF Caused, Saving
  <2>3. ASSUME ~skipped[f], writes = 0
        PROVE  Behind(h, f)' = {}
    <3>1. passes'[f] = 0
      BY <1>1, <2>1, <2>3 DEF Passing
    <3>2. \A r \in Rows : h[r] \in Nat
      BY Numbers
    <3>3. \A k \in View(f)' : Of[k] \in Rows
      BY <1>1, Numbers DEF View
    <3> QED BY <3>1, <3>2, <3>3 DEF Behind
  <2>4. Passing(h, f)'
    BY <1>1, <1>2, <2>3 DEF Passing, Saving, InPass
  <2> QED BY <2>2, <2>4
<1> QED BY <1>3, <1>4 DEF Mine

LEMMA StopKeeps ==
  ASSUME Types, NEW f \in Flushers, Mine(f), ~Saving(f),
         NEW how \in Results, Stop(f, how),
         UNCHANGED <<tables, feeds, skipped>>,
         how = "empty" => owed[f] \subseteq claimed[f]
  PROVE  Mine(f)'
<1>1. /\ pc'[f] = IF f \in Outer THEN "commit" ELSE "done"
      /\ outcome'[f] = how /\ how # None
      /\ UNCHANGED <<markers, lock, claimed, ins, todo, owed, feeds>>
  BY Domains, LoopAssumption DEF Stop, Leave, tables, txVars
<1>2. todo[f] = {}
  BY DEF Mine, Holding, Saving
<1>3. f \notin Outer => claimed[f] = {} /\ ins[f] = {} /\ \A r \in Rows : lock[r] # f
  BY DEF Mine, Holding
<1>4. Returns(f)' /\ Holding(f)'
  BY <1>1, <1>2, <1>3 DEF Mine, Returns, Holding, Saving
<1>5. Owing(f)'
  BY <1>1, <1>3 DEF Mine, Owing, InPass
<1>6. Paced(f)'
  <2> SUFFICES ASSUME NEW h \in [Rows -> Layers], Layering(h)
               PROVE  Caused(h, f)' /\ Passing(h, f)'
    BY <1>1 DEF Paced, Layering
  <2>1. Caused(h, f)
    BY DEF Mine, Paced
  <2>2. Caused(h, f)'
    BY <1>1, <2>1 DEF Caused, Saving, Roots
  <2>3. Passing(h, f)'
    BY <1>1, <1>2 DEF Passing, Saving, InPass
  <2> QED BY <2>2, <2>3
<1> QED BY <1>4, <1>5, <1>6 DEF Mine

LEMMA ResponseKeeps ==
  ASSUME Types, NEW f \in Flushers, Mine(f),
         NEW mode \in {"inline", "queue", "off"}, Response(f, mode)
  PROVE  Mine(f)'
<1>1. CASE mode = "inline" /\ View(f) # {}
  BY <1>1, BeginKeeps DEF Response
<1>2. CASE ~(mode = "inline" /\ View(f) # {})
  <2>1. Stop(f, "no flush") /\ UNCHANGED <<tables, feeds, skipped>> /\ ~Saving(f)
    BY <1>2 DEF Response, Saving
  <2>2. "no flush" \in Results
    BY DEF Results
  <2> QED BY <2>1, <2>2, StopKeeps
<1> QED BY <1>1, <1>2

LEMMA PassKeeps ==
  ASSUME Types, NEW f \in Flushers, Mine(f), pc[f] = "loop", Pass(f),
         UNCHANGED <<tables, feeds, row, outcome, skipped, bounds>>
  PROVE  Mine(f)'
<1>1. /\ pc'[f] = "rows" /\ passes'[f] = passes[f] + 1
      /\ stream'[f] = {Of[k] : k \in View(f)}
      /\ UNCHANGED <<markers, lock, claimed, ins, todo, owed, feeds, row, outcome,
                     skipped, writes>>
  BY Domains DEF Pass, tables, txVars, bounds
<1>2. View(f)' = View(f) /\ todo[f] = {}
  BY <1>1 DEF View, Mine, Holding
<1>3. Returns(f)' /\ Holding(f)'
  BY <1>1 DEF Mine, Returns, Holding, Saving
<1>4. Owing(f)'
  <2>1. \A k \in owed[f] \ claimed[f] : Of[k] \in stream'[f]
    BY <1>1 DEF Mine, Owing, View
  <2> QED BY <1>1, <2>1 DEF Mine, Owing, InPass, Ahead
<1>5. Paced(f)'
  <2> SUFFICES ASSUME NEW h \in [Rows -> Layers], Layering(h)
               PROVE  Caused(h, f)' /\ Passing(h, f)'
    BY <1>1 DEF Paced, Layering
  <2>1. Caused(h, f) /\ Passing(h, f)
    BY DEF Mine, Paced
  <2>2. Caused(h, f)'
    BY <1>1, <2>1 DEF Caused, Saving, Roots
  <2>3. ASSUME ~skipped[f], writes = 0, NEW k \in Behind(h, f)'
        PROVE  Of[k] \in Ahead(f)' /\ h[Of[k]] + 1 = passes'[f]
    <3>1. Behind(h, f) = {}
      BY <2>1, <2>3 DEF Passing
    <3>2. k \in View(f) /\ h[Of[k]] < passes[f] + 1
      BY <1>1, <1>2, <2>3 DEF Behind
    <3>3. ~(h[Of[k]] < passes[f])
      BY <3>1, <3>2 DEF Behind
    <3>4. h[Of[k]] \in Nat /\ passes[f] \in Nat
      BY <3>2, Numbers
    <3> QED BY <1>1, <3>2, <3>3, <3>4 DEF Ahead
  <2>4. Passing(h, f)'
    BY <1>1, <1>2, <2>3 DEF Passing, Saving, InPass
  <2> QED BY <2>2, <2>4
<1> QED BY <1>3, <1>4, <1>5 DEF Mine

LEMMA LoopKeeps ==
  ASSUME Types, NEW f \in Flushers, Mine(f), Loop(f)
  PROVE  Mine(f)'
<1>1. /\ pc[f] = "loop" /\ ~Saving(f)
      /\ UNCHANGED <<tables, feeds, row, bounds, skipped>>
  BY DEF Loop, Saving
<1>2. {"once", "empty", "gave up"} \subseteq Results
  BY DEF Results
<1>3. CASE Stop(f, "once")
  BY <1>1, <1>2, <1>3, StopKeeps
<1>4. CASE AtCap(f)
  <2>1. CASE View(f) = {}
    <3>1. owed[f] \subseteq claimed[f]
      BY <2>1 DEF Mine, Owing, View
    <3>2. Stop(f, "empty")
      BY <1>4, <2>1 DEF AtCap
    <3> QED BY <1>1, <1>2, <3>1, <3>2, StopKeeps
  <2>2. CASE View(f) # {}
    <3>1. Stop(f, "gave up")
      BY <1>4, <2>2 DEF AtCap
    <3> QED BY <1>1, <1>2, <3>1, StopKeeps
  <2> QED BY <2>1, <2>2
<1>5. CASE Pass(f) /\ UNCHANGED <<outcome, once, ranOnce>>
  BY <1>1, <1>5, PassKeeps
<1> QED BY <1>3, <1>4, <1>5 DEF Loop

LEMMA NextRowKeeps ==
  ASSUME Types, NEW f \in Flushers, Mine(f), NextRow(f)
  PROVE  Mine(f)'
<1>1. PICK r \in stream[f] : stream'[f] = stream[f] \ {r} /\ row'[f] = r
  BY Domains DEF NextRow
<1>2. /\ pc[f] = "rows" /\ pc'[f] = "single"
      /\ UNCHANGED <<markers, lock, claimed, ins, todo, owed, feeds, passes,
                     processed, outcome, writes, skipped>>
  BY Domains DEF NextRow, tables, txVars, bounds
<1>3. Ahead(f)' = Ahead(f) /\ View(f)' = View(f) /\ InPass(f) /\ InPass(f)'
  BY <1>1, <1>2 DEF Ahead, AtHand, View, InPass
<1>4. r \in Rows /\ ~Saving(f) /\ ~Saving(f)'
  BY <1>2 DEF Types, Saving
<1>5. Returns(f)' /\ Holding(f)'
  BY <1>1, <1>2, <1>4 DEF Mine, Returns, Holding
<1>6. Owing(f)'
  BY <1>2, <1>3 DEF Mine, Owing
<1>7. Paced(f)'
  <2> SUFFICES ASSUME NEW h \in [Rows -> Layers], Layering(h)
               PROVE  Caused(h, f)' /\ Passing(h, f)'
    BY <1>2 DEF Paced, Layering
  <2>1. Caused(h, f) /\ Passing(h, f) /\ Behind(h, f)' = Behind(h, f)
    BY <1>2, <1>3 DEF Mine, Paced, Behind
  <2> QED BY <1>2, <1>3, <1>4, <2>1 DEF Caused, Roots, Passing
<1> QED BY <1>5, <1>6, <1>7 DEF Mine

LEMMA EndPassKeeps ==
  ASSUME Types, NEW f \in Flushers, Mine(f), EndPass(f)
  PROVE  Mine(f)'
<1>1. /\ pc[f] = "rows" /\ stream[f] = {} /\ ~Saving(f) /\ InPass(f)
      /\ UNCHANGED <<tables, feeds, row, bounds, skipped>>
  BY DEF EndPass, Saving, InPass
<1>2. Ahead(f) = {}
  BY <1>1 DEF Ahead, AtHand
<1>3. CASE ~processed[f]
  <2>1. Stop(f, "empty") /\ "empty" \in Results
    BY <1>3 DEF EndPass, Results
  <2>2. owed[f] \subseteq claimed[f]
    BY <1>1, <1>2, <1>3 DEF Mine, Owing
  <2> QED BY <1>1, <2>1, <2>2, StopKeeps
<1>4. CASE processed[f]
  <2>1. /\ pc'[f] = "loop"
        /\ UNCHANGED <<markers, lock, claimed, ins, todo, owed, feeds, row, passes,
                       outcome, writes, skipped>>
    BY <1>1, <1>4, Domains DEF EndPass, tables, txVars, bounds
  <2>2. Returns(f)' /\ Holding(f)' /\ Owing(f)'
    BY <1>1, <2>1 DEF Mine, Returns, Holding, Owing, Saving, InPass
  <2>3. Paced(f)'
    <3> SUFFICES ASSUME NEW h \in [Rows -> Layers], Layering(h)
                 PROVE  Caused(h, f)' /\ Passing(h, f)'
      BY <2>1 DEF Paced, Layering
    <3>1. Caused(h, f) /\ Passing(h, f) /\ Behind(h, f)' = Behind(h, f)
      BY <2>1 DEF Mine, Paced, Behind, View
    <3>2. Caused(h, f)'
      BY <2>1, <3>1 DEF Caused, Saving, Roots
    <3>3. ~skipped[f] /\ writes = 0 => Behind(h, f) = {}
      BY <1>1, <1>2, <3>1 DEF Passing
    <3>4. Passing(h, f)'
      BY <2>1, <3>1, <3>3 DEF Passing, Saving, InPass
    <3> QED BY <3>2, <3>4
  <2> QED BY <2>2, <2>3 DEF Mine
<1> QED BY <1>3, <1>4

-----------------------------------------------------------------------------
(* flush_single *)

(* It returns without having claimed anything.                             *)
LEMMA ReturnKeeps ==
  ASSUME Types, NEW f \in Flushers, Mine(f), pc[f] = "single",
         Returned(f, FALSE), UNCHANGED <<markers, claimed, ins, todo, owed, feeds,
                                         stream, passes, outcome, writes>>,
         \A r \in Rows : lock'[r] = f => f \in Outer,
         \A r \in Rows : lock[r] = f => lock'[r] = f \/ f \notin Outer,
         skipped'[f] \/ (skipped' = skipped /\ KeysOf(row[f]) \cap View(f) = {})
  PROVE  Mine(f)'
<1>1. pc'[f] = "rows" /\ processed'[f]
  BY Domains DEF Returned, Counted
<1>2. View(f)' = View(f) /\ InPass(f) /\ ~Saving(f) /\ ~Saving(f)'
  BY <1>1 DEF View, InPass, Saving
<1>3. claimed[f] \subseteq Keys /\ f \in Tx
  BY DEF Types, Tx
<1>4. Returns(f)' /\ Owing(f)'
  BY <1>1 DEF Mine, Returns, Owing
<1>5. Holding(f)'
  <2>1. \A k \in claimed[f] : Of[k] \in Rows /\ lock[Of[k]] = f
    BY <1>3, LoopAssumption DEF Mine, Holding
  <2>2. f \notin Outer => claimed[f] = {} /\ ins[f] = {} /\ \A r \in Rows : lock'[r] # f
    BY <1>2 DEF Mine, Holding
  <2>3. todo[f] = {}
    BY DEF Mine, Holding
  <2> QED BY <1>1, <1>2, <2>1, <2>2, <2>3 DEF Holding
<1>6. Paced(f)'
  <2> SUFFICES ASSUME NEW h \in [Rows -> Layers], Layering(h)
               PROVE  Caused(h, f)' /\ Passing(h, f)'
    BY DEF Paced, Layering
  <2>1. Caused(h, f) /\ Passing(h, f) /\ Behind(h, f)' = Behind(h, f)
    BY <1>2 DEF Mine, Paced, Behind
  <2>2. Caused(h, f)'
    BY <1>2, <2>1 DEF Caused, Roots
  <2>3. ASSUME ~skipped'[f], writes = 0, NEW k \in Behind(h, f)
        PROVE  Of[k] \in Ahead(f)' /\ h[Of[k]] + 1 = passes'[f]
    <3>1. ~skipped[f] /\ KeysOf(row[f]) \cap View(f) = {}
      BY <2>3
    <3>2. Of[k] \in Ahead(f) /\ h[Of[k]] + 1 = passes[f]
      BY <1>2, <2>1, <2>3, <3>1 DEF Passing
    <3>3. k \in View(f) /\ k \in Keys
      BY <2>3, Numbers DEF Behind
    <3>4. Of[k] # row[f]
      BY <3>1, <3>3 DEF KeysOf
    <3> QED BY <3>2, <3>4 DEF Ahead, AtHand
  <2>4. todo'[f] = {}
    BY DEF Mine, Holding
  <2>5. Passing(h, f)'
    BY <1>1, <1>2, <2>1, <2>3, <2>4 DEF Passing
  <2> QED BY <2>2, <2>5
<1> QED BY <1>4, <1>5, <1>6 DEF Mine

LEMMA SkipKeeps ==
  ASSUME Types, NEW f \in Flushers, Mine(f), SkipLocked(f)
  PROVE  Mine(f)'
<1>1. /\ pc[f] = "single" /\ Returned(f, FALSE) /\ skipped'[f]
      /\ UNCHANGED <<markers, lock, claimed, ins, todo, owed, feeds, stream, passes,
                     outcome, writes>>
  BY Domains DEF SkipLocked, tables, txVars, bounds
<1>2. \A r \in Rows : lock[r] = f => f \in Outer
  BY <1>1 DEF Mine, Holding, Saving
<1> QED BY <1>1, <1>2, ReturnKeeps

(* The row is taken and its markers are claimed.                           *)
LEMMA ClaimKeeps ==
  ASSUME Types, NEW f \in Flushers, Mine(f), pc[f] = "single",
         Claim(f), lock' = [lock EXCEPT ![row[f]] = f],
         UNCHANGED <<markers, todo, owed, feeds, stream, passes, outcome, writes,
                     skipped>>
  PROVE  Mine(f)'
<1> DEFINE mine == KeysOf(row[f]) \cap View(f)
<1>t. f \in Tx
  BY DEF Tx
<1>0. row[f] \in Rows
  BY DEF Mine, Holding
<1>1. /\ pc'[f] = "save" /\ row'[f] = row[f] /\ processed'[f] = processed[f]
      /\ claimed'[f] = claimed[f] \cup mine /\ ins'[f] = ins[f] \ mine /\ mine # {}
      /\ lock'[row[f]] = f /\ \A r \in Rows \ {row[f]} : lock'[r] = lock[r]
  BY <1>t, <1>0, Domains DEF Claim
<1>2. \A k \in mine : k \in Keys /\ Of[k] = row[f] /\ k \in View(f)
  BY DEF KeysOf
<1>3. InPass(f) /\ ~Saving(f) /\ InPass(f)' /\ Ahead(f)' = stream[f]
      /\ Ahead(f) = stream[f] \cup {row[f]}
  BY <1>1 DEF InPass, Saving, Ahead, AtHand
<1>4. View(f)' = View(f) \ mine
  BY <1>1 DEF View
<1>5. /\ claimed[f] \subseteq Keys /\ owed[f] \subseteq Keys
      /\ todo[f] = {} /\ \A k \in Keys : Of[k] \in Rows
  BY <1>t, LoopAssumption DEF Types, Mine, Holding
<1>6. Returns(f)'
  BY <1>1 DEF Returns
<1>7. Holding(f)'
  <2>1. \A k \in claimed'[f] : lock'[Of[k]] = f
    BY <1>1, <1>2, <1>5 DEF Mine, Holding
  <2>2. f \notin Outer => \A r \in Rows : lock'[r] = f => r = row[f]
    BY <1>1, <1>3 DEF Mine, Holding
  <2> QED BY <1>0, <1>1, <1>5, <2>1, <2>2 DEF Holding, Saving
<1>8. Owing(f)'
  <2>1. ASSUME ~processed[f], NEW k \in owed[f] \ claimed'[f]
        PROVE  Of[k] \in Ahead(f)'
    <3>1. k \in owed[f] \ claimed[f] /\ k \in Keys /\ k \notin mine
      BY <1>1, <1>5, <2>1
    <3>2. Of[k] \in Ahead(f)
      BY <1>3, <2>1, <3>1 DEF Mine, Owing
    <3>3. k \in View(f)
      BY <3>1 DEF Mine, Owing, View
    <3>4. Of[k] # row[f]
      BY <3>1, <3>3 DEF KeysOf
    <3> QED BY <1>3, <3>2, <3>4
  <2> QED BY <1>1, <2>1 DEF Mine, Owing
<1>9. Paced(f)'
  <2> SUFFICES ASSUME NEW h \in [Rows -> Layers], Layering(h)
               PROVE  Caused(h, f)' /\ Passing(h, f)'
    BY DEF Paced, Layering
  <2>r. passes[f] \in Nat /\ \A r \in Rows : h[r] \in Nat
    BY Numbers
  <2>1. Caused(h, f) /\ Passing(h, f)
    BY DEF Mine, Paced
  <2>2. PICK m \in mine : TRUE
    BY <1>1
  <2>3. Roots(f) \subseteq Roots(f)'
    BY <1>1 DEF Roots
  <2>4. \E x \in Roots(f)' : h[Of[x]] <= h[row[f]]
    <3>1. CASE m \in markers
      <4>1. m \in Roots(f)'
        BY <1>1, <2>2, <3>1 DEF Roots
      <4>2. h[Of[m]] <= h[row[f]]
        BY <1>0, <1>2, <2>r, <2>2
      <4> QED BY <4>1, <4>2
    <3>2. CASE m \in ins[f]
      <4>1. PICK x \in Roots(f) : h[Of[x]] < h[Of[m]]
        BY <2>1, <3>2 DEF Caused
      <4>2. x \in Keys /\ Of[m] = row[f]
        BY <1>2, <1>5, <2>2, <4>1 DEF Roots
      <4>3. h[Of[x]] <= h[row[f]]
        BY <1>0, <1>5, <2>r, <4>1, <4>2
      <4> QED BY <2>3, <4>1, <4>3
    <3> QED BY <1>2, <2>2, <3>1, <3>2 DEF View
  <2>5. Caused(h, f)'
    BY <1>1, <2>1, <2>3, <2>4 DEF Caused
  <2>6. Behind(h, f)' \subseteq Behind(h, f) \ mine
    BY <1>4 DEF Behind
  <2>7. ASSUME ~skipped[f], writes = 0
        PROVE  /\ \A k \in Behind(h, f)' : Of[k] \in Ahead(f)' /\ h[Of[k]] + 1 = passes[f]
               /\ passes[f] <= h[row[f]] + 1
    <3>1. \A k \in Behind(h, f) : Of[k] \in Ahead(f) /\ h[Of[k]] + 1 = passes[f]
      BY <1>3, <2>1, <2>7 DEF Passing
    <3>2. ASSUME NEW k \in Behind(h, f)'
          PROVE  Of[k] # row[f]
      <4>1. k \in View(f) /\ k \notin mine /\ k \in Keys
        BY <2>6, <3>2, Numbers DEF Behind
      <4> QED BY <4>1 DEF KeysOf
    <3>3. passes[f] <= h[row[f]] + 1
      <4>1. CASE h[row[f]] < passes[f]
        <5>1. m \in Behind(h, f)
          BY <1>2, <2>2, <4>1 DEF Behind
        <5>2. h[row[f]] + 1 = passes[f]
          BY <1>2, <2>2, <3>1, <5>1
        <5> QED BY <2>r, <1>0, <5>2
      <4>2. CASE ~(h[row[f]] < passes[f])
        BY <2>r, <1>0, <4>2
      <4> QED BY <4>1, <4>2
    <3> QED BY <1>3, <2>6, <3>1, <3>2, <3>3
  <2>8. Passing(h, f)'
    BY <1>1, <1>5, <2>7 DEF Passing
  <2> QED BY <2>5, <2>8
<1> QED BY <1>6, <1>7, <1>8, <1>9 DEF Mine

LEMMA TakeKeeps ==
  ASSUME Types, NEW f \in Flushers, Mine(f), TakeRow(f)
  PROVE  Mine(f)'
<1>1. /\ pc[f] = "single"
      /\ UNCHANGED <<markers, todo, owed, feeds, stream, passes, outcome, writes,
                     skipped>>
  BY DEF TakeRow, bounds
<1>2. CASE KeysOf(row[f]) \cap View(f) # {}
  <2>1. Claim(f) /\ lock' = [lock EXCEPT ![row[f]] = f]
    BY <1>2 DEF TakeRow
  <2> QED BY <1>1, <2>1, ClaimKeeps
<1>3. CASE KeysOf(row[f]) \cap View(f) = {}
  <2>1. /\ Returned(f, FALSE) /\ UNCHANGED <<claimed, ins>>
        /\ lock' = [lock EXCEPT ![row[f]] = IF f \in Outer THEN f ELSE None]
    BY <1>3 DEF TakeRow
  <2>2. \A r \in Rows : lock[r] = f => f \in Outer
    BY <1>1 DEF Mine, Holding, Saving
  <2>3. f # None
    BY LoopAssumption DEF Tx
  <2>4. \A r \in Rows : lock'[r] = f => f \in Outer
    BY <2>1, <2>2, <2>3, Domains
  <2>5. \A r \in Rows : lock[r] = f => lock'[r] = f \/ f \notin Outer
    BY <2>1, Domains
  <2> QED BY <1>1, <1>3, <2>1, <2>4, <2>5, ReturnKeeps
<1> QED BY <1>2, <1>3

LEMMA RecomputeKeeps ==
  ASSUME Types, NEW f \in Flushers, Mine(f), NEW changed \in BOOLEAN,
         Recompute(f, changed)
  PROVE  Mine(f)'
<1>t. f \in Tx
  BY DEF Tx
<1>1. /\ pc[f] = "save" /\ pc'[f] = "inserts"
      /\ todo'[f] \subseteq feeds[row[f]]
      /\ UNCHANGED <<markers, lock, claimed, ins, owed, feeds, row, stream, passes,
                     processed, outcome, writes, skipped>>
  BY <1>t, Domains DEF Recompute, loopVars, bounds
<1>2. /\ Saving(f) /\ Saving(f)' /\ InPass(f) /\ InPass(f)'
      /\ Ahead(f)' = Ahead(f) /\ View(f)' = View(f)
  BY <1>1 DEF Saving, InPass, Ahead, AtHand, View
<1>3. row[f] \in Rows
  BY <1>2 DEF Mine, Holding
<1>4. Returns(f)' /\ Holding(f)'
  BY <1>1, <1>2 DEF Mine, Returns, Holding
<1>5. Owing(f)'
  BY <1>1, <1>2 DEF Mine, Owing
<1>6. Paced(f)'
  <2> SUFFICES ASSUME NEW h \in [Rows -> Layers], Layering(h)
               PROVE  Caused(h, f)' /\ Passing(h, f)'
    BY <1>1 DEF Paced, Layering
  <2>1. Caused(h, f) /\ Passing(h, f)
    BY DEF Mine, Paced
  <2>2. PICK x \in Roots(f) : h[Of[x]] <= h[row[f]]
    BY <1>2, <2>1 DEF Caused
  <2>3. x \in Keys /\ feeds[row[f]] \subseteq Keys
    BY <1>3, <1>t, LoopAssumption DEF Roots, Types
  <2>4. ASSUME NEW k \in todo'[f]
        PROVE  h[row[f]] < h[Of[k]] /\ k \in Keys
    BY <1>1, <1>3, <2>3, <2>4 DEF Layering
  <2>5. \A k \in todo'[f] : h[Of[x]] < h[Of[k]]
    BY <1>3, <2>2, <2>3, <2>4, Numbers
  <2>6. Caused(h, f)'
    BY <1>1, <1>2, <2>1, <2>2, <2>5 DEF Caused, Roots
  <2>7. ASSUME ~skipped[f], writes = 0, NEW k \in todo'[f]
        PROVE  passes[f] <= h[Of[k]]
    <3>1. passes[f] <= h[row[f]] + 1
      BY <1>2, <2>1, <2>7 DEF Passing
    <3> QED BY <1>3, <2>4, <3>1, Numbers
  <2>8. Behind(h, f)' = Behind(h, f)
    BY <1>1, <1>2 DEF Behind
  <2>9. Passing(h, f)'
    BY <1>1, <1>2, <2>1, <2>7, <2>8 DEF Passing
  <2> QED BY <2>6, <2>9
<1> QED BY <1>4, <1>5, <1>6 DEF Mine

LEMMA InsertKeeps ==
  ASSUME Types, NEW f \in Flushers, Mine(f), InsertMarker(f)
  PROVE  Mine(f)'
<1>t. f \in Tx
  BY DEF Tx
<1>1. PICK k \in todo[f] : /\ todo'[f] = todo[f] \ {k}
                           /\ ins'[f] = ins[f] \cup ({k} \ View(f))
  BY <1>t, Domains DEF InsertMarker
<1>2. UNCHANGED <<markers, lock, claimed, owed, feeds, pc, row, stream, passes,
                  processed, outcome, writes, skipped>>
  BY DEF InsertMarker, loopVars, bounds
<1>3. pc[f] = "inserts" /\ k \in Keys
  BY <1>t, <1>1 DEF Mine, Holding, Types
<1>4. /\ Saving(f) /\ Saving(f)' /\ InPass(f) /\ InPass(f)'
      /\ Ahead(f)' = Ahead(f) /\ View(f)' \subseteq View(f) \cup {k}
  BY <1>1, <1>2, <1>3 DEF Saving, InPass, Ahead, AtHand, View
<1>5. Returns(f)' /\ Holding(f)' /\ Owing(f)'
  BY <1>2, <1>3, <1>4 DEF Mine, Returns, Holding, Owing
<1>6. Paced(f)'
  <2> SUFFICES ASSUME NEW h \in [Rows -> Layers], Layering(h)
               PROVE  Caused(h, f)' /\ Passing(h, f)'
    BY <1>2 DEF Paced, Layering
  <2>1. Caused(h, f) /\ Passing(h, f)
    BY DEF Mine, Paced
  <2>2. ins'[f] \cup todo'[f] \subseteq ins[f] \cup todo[f]
    BY <1>1
  <2>3. Caused(h, f)'
    BY <1>2, <1>4, <2>1, <2>2 DEF Caused, Roots
  <2>4. ASSUME ~skipped[f], writes = 0
        PROVE  Behind(h, f)' \subseteq Behind(h, f)
    <3>1. passes[f] <= h[Of[k]]
      BY <2>1, <2>4 DEF Passing
    <3>2. ~(h[Of[k]] < passes[f])
      BY <1>3, <3>1, Numbers
    <3> QED BY <1>2, <1>4, <3>2 DEF Behind
  <2>5. Passing(h, f)'
    BY <1>1, <1>2, <1>3, <1>4, <2>1, <2>4 DEF Passing
  <2> QED BY <2>3, <2>5
<1> QED BY <1>5, <1>6 DEF Mine

(* A transaction of f has ended.                                           *)
LEMMA Ended ==
  ASSUME Types, NEW f \in Flushers, Release(f)
  PROVE  /\ claimed'[f] = {} /\ ins'[f] = {} /\ todo'[f] = {}
         /\ \A r \in Rows : lock'[r] # f
BY LoopAssumption DEF Release, Types, Tx

LEMMA EndSingleKeeps ==
  ASSUME Types, NEW f \in Flushers, Mine(f), EndSingle(f)
  PROVE  Mine(f)'
<1>1. /\ pc[f] = "inserts" /\ pc'[f] = "rows" /\ processed'[f] /\ todo[f] = {}
      /\ UNCHANGED <<feeds, stream, passes, outcome, writes, skipped>>
  BY Domains DEF EndSingle, Returned, Counted, bounds
<1>2. /\ Saving(f) /\ ~Saving(f)' /\ InPass(f) /\ InPass(f)' /\ Ahead(f)' = Ahead(f)
  BY <1>1 DEF Saving, InPass, Ahead, AtHand
<1>3. ASSUME Holding(f)', owed'[f] \subseteq markers', View(f)' = View(f),
             todo'[f] = {},
             \A h \in [Rows -> Layers] : Caused(h, f) => Caused(h, f)'
      PROVE  Mine(f)'
  <2>1. Returns(f)' /\ Owing(f)'
    BY <1>1, <1>3 DEF Returns, Owing
  <2>2. Paced(f)'
    <3> SUFFICES ASSUME NEW h \in [Rows -> Layers], Layering(h)
                 PROVE  Caused(h, f)' /\ Passing(h, f)'
      BY <1>1 DEF Paced, Layering
    <3>1. Caused(h, f) /\ Passing(h, f) /\ Behind(h, f)' = Behind(h, f)
      BY <1>1, <1>3 DEF Mine, Paced, Behind
    <3>2. Passing(h, f)'
      BY <1>1, <1>2, <1>3, <3>1 DEF Passing
    <3> QED BY <1>3, <3>1, <3>2
  <2> QED BY <1>3, <2>1, <2>2 DEF Mine
<1>4. CASE f \in Outer
  <2>1. UNCHANGED <<markers, lock, claimed, ins, todo, owed>>
    BY <1>4 DEF EndSingle, tables, txVars
  <2>2. Holding(f)' /\ owed'[f] \subseteq markers' /\ View(f)' = View(f)
    BY <1>1, <1>2, <1>4, <2>1 DEF Mine, Holding, Owing, View
  <2>3. \A h \in [Rows -> Layers] : Caused(h, f) => Caused(h, f)'
    BY <1>2, <2>1 DEF Caused, Roots
  <2> QED BY <1>1, <1>3, <2>1, <2>2, <2>3
<1>5. CASE f \notin Outer
  <2>1. /\ Release(f) /\ markers' = View(f) /\ owed'[f] = owed[f] \ claimed[f]
    BY <1>5 DEF EndSingle, Publish
  <2>2. /\ claimed'[f] = {} /\ ins'[f] = {} /\ todo'[f] = {}
        /\ \A r \in Rows : lock'[r] # f
    BY <2>1, Ended
  <2>3. Holding(f)'
    BY <1>1, <1>2, <1>5, <2>2 DEF Holding
  <2>4. owed'[f] \subseteq markers' /\ View(f)' = View(f)
    BY <2>1, <2>2 DEF Mine, Owing, View
  <2>5. \A h \in [Rows -> Layers] : Caused(h, f)'
    BY <1>2, <2>2 DEF Caused
  <2> QED BY <1>3, <2>2, <2>3, <2>4, <2>5
<1> QED BY <1>4, <1>5

LEMMA FailureKeeps ==
  ASSUME Types, NEW f \in Flushers, Mine(f), Failure(f)
  PROVE  Mine(f)'
<1>1. /\ Saving(f) /\ InPass(f) /\ Ahead(f) = stream[f]
      /\ UNCHANGED <<markers, owed, feeds, writes, skipped>>
  BY DEF Failure, Rollback, Saving, InPass, Ahead, AtHand
<1>2. /\ claimed'[f] = {} /\ ins'[f] = {} /\ todo'[f] = {}
      /\ \A r \in Rows : lock'[r] # f
  BY Ended DEF Failure, Rollback
<1>3. View(f)' = markers
  BY <1>1, <1>2 DEF View
<1>4. row[f] \in Rows /\ claimed[f] \subseteq Keys /\ \A k \in Keys : Of[k] \in Rows
  BY <1>1, LoopAssumption DEF Mine, Holding, Types, Tx
<1>5. CASE Again(f)
  <2>1. /\ pc'[f] = "single" /\ f \notin Outer
        /\ UNCHANGED <<row, stream, passes, processed, outcome>>
    BY <1>5, Domains DEF Again, loopVars
  <2>2. ~Saving(f)' /\ Ahead(f)' = stream[f] \cup {row[f]}
    BY <2>1 DEF Saving, Ahead, AtHand
  <2>3. \A k \in claimed[f] : Of[k] = row[f]
    BY <1>4, <2>1 DEF Mine, Holding
  <2>4. Returns(f)' /\ Holding(f)'
    BY <1>2, <1>4, <2>1, <2>2 DEF Returns, Holding
  <2>5. Owing(f)'
    <3>1. ASSUME ~processed[f], NEW k \in owed[f]
          PROVE  Of[k] \in Ahead(f)'
      <4>1. CASE k \in claimed[f]
        BY <2>2, <2>3, <4>1
      <4>2. CASE k \notin claimed[f]
        BY <1>1, <2>2, <3>1, <4>2 DEF Mine, Owing
      <4> QED BY <4>1, <4>2
    <3> QED BY <1>1, <2>1, <3>1 DEF Mine, Owing
  <2>6. Paced(f)'
    <3> SUFFICES ASSUME NEW h \in [Rows -> Layers], Layering(h)
                 PROVE  Caused(h, f)' /\ Passing(h, f)'
      BY <1>1 DEF Paced, Layering
    <3>1. Caused(h, f) /\ Passing(h, f)
      BY DEF Mine, Paced
    <3>2. Caused(h, f)'
      BY <1>2, <2>2 DEF Caused
    <3>3. ASSUME ~skipped[f], writes = 0, NEW k \in Behind(h, f)'
          PROVE  Of[k] \in Ahead(f)' /\ h[Of[k]] + 1 = passes[f]
      <4>1. k \in markers /\ h[Of[k]] < passes[f]
        BY <1>3, <2>1, <3>3 DEF Behind
      <4>2. CASE k \in claimed[f]
        <5>1. Of[k] = row[f] /\ passes[f] <= h[row[f]] + 1
          BY <1>1, <2>3, <3>1, <3>3, <4>2 DEF Passing
        <5> QED BY <1>4, <2>2, <4>1, <5>1, Numbers
      <4>3. CASE k \notin claimed[f]
        <5>1. k \in Behind(h, f)
          BY <4>1, <4>3 DEF Behind, View
        <5> QED BY <1>1, <2>2, <3>1, <3>3, <5>1 DEF Passing
      <4> QED BY <4>2, <4>3
    <3>4. Passing(h, f)'
      BY <1>1, <1>2, <2>1, <2>2, <3>3 DEF Passing
    <3> QED BY <3>2, <3>4
  <2> QED BY <2>4, <2>5, <2>6 DEF Mine
<1>6. CASE Raise(f)
  <2>1. pc'[f] = "done" /\ outcome'[f] = "raised"
    BY <1>6, Domains DEF Raise, Leave
  <2>2. "raised" # None
    BY LoopAssumption DEF Results
  <2>3. Returns(f)' /\ Holding(f)' /\ Owing(f)'
    BY <1>1, <1>2, <2>1, <2>2 DEF Mine, Returns, Holding, Owing, Saving, InPass
  <2>4. Paced(f)'
    BY <1>2, <2>1 DEF Paced, Caused, Passing, Saving, InPass
  <2> QED BY <2>3, <2>4 DEF Mine
<1> QED BY <1>5, <1>6 DEF Failure

LEMMA OuterCommitKeeps ==
  ASSUME Types, NEW f \in Flushers, Mine(f), OuterCommit(f)
  PROVE  Mine(f)'
<1>1. /\ pc[f] = "commit" /\ pc'[f] = "done" /\ outcome'[f] = outcome[f]
      /\ Release(f) /\ markers' = View(f) /\ owed'[f] = owed[f] \ claimed[f]
  BY Domains DEF OuterCommit, Publish, loopVars
<1>2. /\ claimed'[f] = {} /\ ins'[f] = {} /\ todo'[f] = {}
      /\ \A r \in Rows : lock'[r] # f
  BY <1>1, Ended
<1>3. Returns(f)' /\ Holding(f)' /\ Owing(f)'
  BY <1>1, <1>2 DEF Mine, Returns, Holding, Owing, Saving, InPass, View
<1>4. Paced(f)'
  BY <1>1, <1>2 DEF Paced, Caused, Passing, Saving, InPass
<1> QED BY <1>3, <1>4 DEF Mine

LEMMA SelfKeeps ==
  ASSUME Types, NEW f \in Flushers, Mine(f), FlushAct(f)
  PROVE  Mine(f)'
<1>1. ASSUME NEW runOnce \in BOOLEAN, Command(f, runOnce)
      PROVE  Mine(f)'
  BY <1>1, BeginKeeps DEF Command
<1> QED
  BY <1>1, ResponseKeeps, LoopKeeps, NextRowKeeps, EndPassKeeps, SkipKeeps,
     TakeKeeps, RecomputeKeeps, EndSingleKeeps, FailureKeeps, OuterCommitKeeps,
     InsertKeeps
  DEF FlushAct

-----------------------------------------------------------------------------
(* Why flush() gives up *)

LEMMA CauseFlush ==
  ASSUME Types, Types', GivesUpForCause, NEW f \in Flushers, Mine(f), FlushAct(f),
         Apart(f)
  PROVE  GivesUpForCause'
<1> USE LoopAssumption
<1> SUFFICES ASSUME NEW g \in Flushers, outcome'[g] = "gave up"
             PROVE  (~Layered \/ skipped[g] \/ writes > 0)'
  BY DEF GivesUpForCause
<1>1. writes' = writes
  BY DEF FlushAct, Command, Response, Begin, Loop, NextRow, EndPass, SkipLocked,
         TakeRow, Recompute, EndSingle, Failure, OuterCommit, InsertMarker, bounds
<1>2. feeds' = feeds /\ (skipped[g] => skipped'[g])
  <2>1. skipped' = skipped \/ skipped' = [skipped EXCEPT ![f] = TRUE]
    BY DEF FlushAct, Command, Response, Begin, Loop, NextRow, EndPass, SkipLocked,
           TakeRow, Recompute, EndSingle, Failure, OuterCommit, InsertMarker
  <2> QED BY <2>1 DEF Types, Apart
<1>3. CASE outcome[g] = "gave up"
  BY <1>1, <1>2, <1>3 DEF GivesUpForCause, Layered, Layering
<1>4. CASE outcome[g] # "gave up"
  <2>1. g = f
    BY <1>4 DEF Apart, Kept
  <2>2. ~UNCHANGED outcome /\ ~UNCHANGED loopVars
    BY <1>4 DEF loopVars
  <2>3. ASSUME NEW how, Leave(f, how)
        PROVE  how = "gave up"
    BY <2>1, <2>3, Domains DEF Leave
  <2>4. Loop(f) /\ AtCap(f) /\ passes[f] >= MaxFlushPasses
    <3>1. ~Failure(f)
      BY <2>2, <2>3 DEF Failure, Again, Raise
    <3>2. ~EndPass(f) /\ \A mode : ~Response(f, mode)
      BY <2>2, <2>3 DEF EndPass, Response, Begin, Stop
    <3>3. Loop(f)
      BY <2>2, <3>1, <3>2
      DEF FlushAct, Command, Begin, NextRow, SkipLocked, TakeRow, Recompute,
          EndSingle, OuterCommit, InsertMarker
    <3> QED BY <2>2, <2>3, <3>3, Numbers DEF Loop, Stop
  <2>5. View(f) # {} /\ pc[f] = "loop"
    BY <2>3, <2>4 DEF AtCap, Stop, Loop
  <2>6. ASSUME ~skipped'[f], writes = 0, NEW h \in [Rows -> Layers], Layering(h)
        PROVE  FALSE
    <3>1. Passing(h, f) /\ ~skipped[f]
      BY <1>2, <2>1, <2>6 DEF Mine, Paced
    <3>2. Behind(h, f) = {}
      BY <2>5, <2>6, <3>1 DEF Passing
    <3>3. PICK k \in View(f) : TRUE
      BY <2>5
    <3>4. Of[k] \in Rows /\ passes[f] \in 0 .. MaxFlushPasses
      BY <3>3, Numbers DEF Types
    <3>5. h[Of[k]] < passes[f]
      BY <2>4, <3>4, BelowCap
    <3> QED BY <3>2, <3>3, <3>5 DEF Behind
  <2>7. writes = 0 \/ writes > 0
    BY Written DEF Types
  <2>8. Layered' => \E h \in [Rows -> Layers] : Layering(h)
    BY <1>2 DEF Layered, Layering
  <2> QED BY <1>1, <2>1, <2>6, <2>7, <2>8
<1> QED BY <1>3, <1>4

LEMMA CauseApp ==
  ASSUME Types, GivesUpForCause, NEW a \in Apps, AppAct(a), Apart(a)
  PROVE  GivesUpForCause'
<1>1. UNCHANGED <<outcome, skipped, feeds>>
  BY DEF AppAct, AppStatement, AppCommit, AppRollback, InsertMarker, loopVars
<1>2. writes > 0 => writes' > 0
  BY LoopAssumption
  DEF AppAct, AppStatement, AppCommit, AppRollback, InsertMarker, bounds, Types
<1> QED BY <1>1, <1>2 DEF GivesUpForCause, Layered, Layering

-----------------------------------------------------------------------------
(* Steps *)

Idle == \A a \in Apps : claimed[a] = {}

LEMMA Parts ==
  IInv <=> /\ Types /\ GivesUpForCause /\ AppInv /\ Idle
           /\ \A f \in Flushers : Mine(f)
BY DEF IInv, TypeOK, LockInv, OwedInv, PassInv, Mine, Returns, Paced, Idle

LEMMA PartsNext ==
  ASSUME Types', GivesUpForCause', AppInv', Idle', \A f \in Flushers : Mine(f)'
  PROVE  IInv'
BY DEF IInv, TypeOK, LockInv, OwedInv, PassInv, Mine, Returns, Paced, Idle

LEMMA FlushStep ==
  ASSUME IInv, NEW f \in Flushers, FlushAct(f)
  PROVE  IInv'
<1>1. /\ Types /\ GivesUpForCause /\ AppInv /\ Idle /\ LockInv
      /\ \A g \in Flushers : Mine(g)
  BY Parts DEF IInv
<1>2. Types' /\ Apart(f) /\ f \in Tx
  BY <1>1, TypeFlush, FlushApart DEF Tx
<1>3. writes' = writes
  BY DEF FlushAct, Command, Response, Begin, Loop, NextRow, EndPass, SkipLocked,
         TakeRow, Recompute, EndSingle, Failure, OuterCommit, InsertMarker, bounds
<1>4. ASSUME NEW g \in Flushers \ {f}
      PROVE  Mine(g)'
  <2>1. \A h \in [Rows -> Layers] : Layering(h) => Founded(h, f)
    BY <1>1 DEF Mine, Paced, Caused, Founded
  <2>2. Holding(f) /\ Mine(g)
    BY <1>1 DEF Mine
  <2> QED BY <1>1, <1>2, <1>3, <2>1, <2>2, OthersKeep
<1>5. Mine(f)'
  BY <1>1, SelfKeeps
<1>6. GivesUpForCause'
  BY <1>1, <1>2, CauseFlush
<1>7. ASSUME NEW a \in Apps
      PROVE  KeptTx(a) /\ \A r \in Rows : lock'[r] = a => lock[r] = a
  <2>1. a \in Tx \ {f} /\ a # None
    BY LoopAssumption DEF Tx
  <2> QED BY <1>2, <2>1 DEF Apart, Tables
<1>8. AppInv' /\ Idle'
  BY <1>1, <1>3, <1>7 DEF AppInv, Busy, Idle, KeptTx
<1> QED BY <1>2, <1>4, <1>5, <1>6, <1>8, PartsNext

LEMMA AppStep ==
  ASSUME IInv, NEW a \in Apps, AppAct(a)
  PROVE  IInv'
<1>1. /\ Types /\ GivesUpForCause /\ AppInv /\ Idle /\ LockInv
      /\ \A g \in Flushers : Mine(g)
  BY Parts DEF IInv
<1>2. Types' /\ Apart(a) /\ a \in Tx /\ a \notin Flushers
  BY <1>1, TypeApp, AppApart, LoopAssumption DEF Tx
<1>3. writes' # 0
  <2>1. CASE AppStatement(a)
    BY <2>1, <1>1, LoopAssumption DEF AppStatement, Types
  <2>2. CASE Busy(a) /\ UNCHANGED writes
    BY <2>2, <1>1 DEF AppInv
  <2>3. InsertMarker(a) => Busy(a)
    BY DEF InsertMarker, Busy
  <2> QED BY <2>1, <2>2, <2>3
          DEF AppAct, AppCommit, AppRollback, InsertMarker, bounds
<1>4. ASSUME NEW g \in Flushers
      PROVE  Mine(g)'
  BY <1>1, <1>2, <1>3, OthersKeep
<1>5. GivesUpForCause' /\ AppInv'
  BY <1>1, <1>2, <1>3, CauseApp DEF AppInv
<1>6. Idle'
  <2>1. claimed'[a] = {}
    BY <1>1, <1>2
    DEF AppAct, AppStatement, AppCommit, AppRollback, InsertMarker, Publish,
        Rollback, Release, Idle, Types
  <2>2. \A b \in Apps \ {a} : claimed'[b] = claimed[b]
    BY <1>2 DEF Apart, Tables, KeptTx, Tx
  <2> QED BY <1>1, <2>1, <2>2 DEF Idle
<1> QED BY <1>2, <1>4, <1>5, <1>6, PartsNext

LEMMA StutterStep ==
  ASSUME IInv, UNCHANGED vars
  PROVE  IInv'
<1>1. UNCHANGED <<markers, lock, feeds, claimed, ins, todo, pc, row, stream, passes,
                  attempt, once, processed, ranOnce, outcome, writes, errors, owed,
                  skipped>>
  BY DEF vars, tables, txVars, loopVars, bounds
<1>2. Types' /\ AppInv' /\ Idle' /\ GivesUpForCause'
  BY <1>1, Parts
  DEF Types, AppInv, Busy, Idle, GivesUpForCause, Layered, Layering
<1>3. ASSUME NEW f \in Flushers
      PROVE  Mine(f)'
  <2>1. View(f)' = View(f) /\ Ahead(f)' = Ahead(f) /\ InPass(f)' = InPass(f)
        /\ Saving(f)' = Saving(f) /\ Roots(f)' = Roots(f)
    BY <1>1 DEF View, Ahead, AtHand, InPass, Saving, Roots
  <2>2. Mine(f)
    BY Parts
  <2>3. Returns(f)' /\ Holding(f)' /\ Owing(f)'
    BY <1>1, <2>1, <2>2 DEF Mine, Returns, Holding, Owing
  <2>4. Paced(f)'
    <3> SUFFICES ASSUME NEW h \in [Rows -> Layers], Layering(h)
                 PROVE  Caused(h, f)' /\ Passing(h, f)'
      BY <1>1 DEF Paced, Layering
    <3>1. Caused(h, f) /\ Passing(h, f) /\ Behind(h, f)' = Behind(h, f)
      BY <1>1, <2>1, <2>2 DEF Mine, Paced, Behind
    <3> QED BY <1>1, <2>1, <3>1 DEF Caused, Passing
  <2> QED BY <2>3, <2>4 DEF Mine
<1> QED BY <1>2, <1>3, PartsNext

LEMMA InitHolds == Init => IInv
<1> SUFFICES ASSUME Init
             PROVE  IInv
  OBVIOUS
<1> USE LoopAssumption
<1>1. Types
  BY TypeInit
<1>2. \A t \in Tx : claimed[t] = {} /\ ins[t] = {} /\ todo[t] = {}
  BY DEF Init
<1>3. \A r \in Rows : lock[r] = None
  BY DEF Init
<1>4. \A f \in Flushers : /\ pc[f] = "idle" /\ outcome[f] = None
                         /\ passes[f] = 0 /\ owed[f] = {}
  BY DEF Init
<1>5. None \notin Tx /\ Flushers \subseteq Tx /\ Apps \subseteq Tx
  BY DEF Tx
<1>6. AppInv /\ Idle
  BY <1>2, <1>3, <1>5 DEF AppInv, Busy, Idle
<1>7. GivesUpForCause
  BY <1>4 DEF GivesUpForCause, Results
<1>8. ASSUME NEW f \in Flushers
      PROVE  Mine(f)
  <2>1. claimed[f] = {} /\ ins[f] = {} /\ todo[f] = {} /\ \A r \in Rows : lock[r] # f
    BY <1>2, <1>3, <1>5
  <2>2. Returns(f) /\ Holding(f) /\ Owing(f)
    BY <1>4, <2>1 DEF Returns, Holding, Owing, Saving, InPass
  <2>3. Paced(f)
    BY <1>4, <2>1 DEF Paced, Caused, Passing, Saving, InPass
  <2> QED BY <2>2, <2>3 DEF Mine
<1> QED BY <1>1, <1>6, <1>7, <1>8, Parts

LEMMA StepHolds == IInv /\ [Next]_vars => IInv'
<1> SUFFICES ASSUME IInv, [Next]_vars
             PROVE  IInv'
  OBVIOUS
<1>1. CASE Next
  <2>1. Types
    BY Parts
  <2> QED BY <1>1, <2>1, NextCases, FlushStep, AppStep
<1>2. CASE UNCHANGED vars
  BY <1>2, StutterStep
<1> QED BY <1>1, <1>2

-----------------------------------------------------------------------------
(* The theorems *)

(* Locks, uncommitted work, what is owed to the callers and how far the    *)
(* passes have come stay as the loop of flush() needs them.                *)
THEOREM LoopInvariant == Spec => []IInv
BY InitHolds, StepHolds, PTL DEF Spec

(* Every process keeps to the pass cap and the retry budget, and holds no  *)
(* lock once flush() has returned.                                         *)
THEOREM LoopTypeCorrect == Spec => []TypeOK
<1>1. IInv => TypeOK
  BY DEF IInv
<1> QED BY <1>1, LoopInvariant, PTL

(* A caller to whom flush() reports no marker reads only rows whose        *)
(* markers have been claimed and committed since, whatever other processes *)
(* and transactions do (denorms/__init__.py:456-460).                      *)
THEOREM ReadsItsWrites == Spec => []ReadYourWrites
<1>1. IInv => ReadYourWrites
  BY DEF IInv, OwedInv, Owing, ReadYourWrites
<1> QED BY <1>1, LoopInvariant, PTL

(* flush() exhausts its passes only where functions depend on each other   *)
(* in a circle or a chain longer than the cap, on a locked row, or against *)
(* writes of the application (denorms/__init__.py:403-417).                *)
THEOREM OnlyForCause == Spec => []GivesUpForCause
<1>1. IInv => GivesUpForCause
  BY DEF IInv
<1> QED BY <1>1, LoopInvariant, PTL
=============================================================================
