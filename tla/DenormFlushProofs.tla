------------------------- MODULE DenormFlushProofs -------------------------
EXTENDS DenormFlushInv, TLAPS

(* What a statement sees is a value, or Absent, for every cell.            *)
LEMMA ViewType ==
  ASSUME TypeOK, NEW t \in Tx
  PROVE  View(t) \in [Cells -> Seen]
BY SortAssumption, DependencyAssumption DEF TypeOK, View, Seen

(* So is what the in-memory instance of a worker shows.                    *)
LEMMA MemoryType ==
  ASSUME TypeOK, NEW w \in Workers
  PROVE  Memory(w) \in [Cells -> Seen]
BY ViewType DEF Memory, TypeOK, Tx, Seen

(* So is what the function of a cell is applied to.                        *)
LEMMA InputType ==
  ASSUME TypeOK, NEW w \in Workers, NEW d \in Denorm
  PROVE  Input(w, d) \in [Cells -> Seen]
BY MemoryType DEF Input, TypeOK, Seen

(* Triggers fire markers of denormalized cells only.                       *)
LEMMA FiredType ==
  ASSUME NEW t, NEW C
  PROVE  Fired(t, C) \subseteq Denorm
BY DEF Fired, FiredOnOthers, FiredOnSelf

(* COMMIT keeps the types of the database (Publish).                       *)
LEMMA PublishType ==
  ASSUME TypeOK, NEW t \in Tx, Publish(t)
  PROVE  /\ val' \in [Cells -> Value]
         /\ live' \subseteq Objects
         /\ markers' \subseteq Keys
         /\ lost' \subseteq Keys
<1>1. val' \in [Cells -> Value]
  BY DEF TypeOK, Publish
<1>2. Visible(t) \subseteq Keys
  BY DEF TypeOK, Visible
<1>3. Swallowed(t) \subseteq Keys
  BY DEF TypeOK, Swallowed
<1> QED BY <1>1, <1>2, <1>3 DEF TypeOK, Publish

(* The end of a transaction keeps the types of its local state (End).      *)
LEMMA EndType ==
  ASSUME TypeOK, NEW t \in Tx, End(t)
  PROVE  /\ lock' \in [Objects -> Tx \cup {None}]
         /\ buf' \in [Tx -> [Cells -> Value \cup {None}]]
         /\ gone' \in [Tx -> SUBSET Objects]
         /\ ins' \in [Tx -> SUBSET Keys]
         /\ del' \in [Tx -> SUBSET Keys]
         /\ coal' \in [Tx -> SUBSET Keys]
         /\ todo' \in [Tx -> SUBSET Keys]
         /\ pc' = [pc EXCEPT ![t] = "idle"]
         /\ obj' = [obj EXCEPT ![t] = None]
         /\ fields' \in [Workers -> SUBSET Denorm]
         /\ new' \in [Workers -> [Cells -> Value \cup {None}]]
         /\ cache' \in [Workers -> [Cells -> Seen \cup {None}]]
         /\ left' \in [Workers -> 0 .. MaxPasses]
BY BoundAssumption DEF TypeOK, End, NoCells

(* A commit keeps every type.                                              *)
LEMMA CommitType ==
  ASSUME TypeOK, NEW t \in Tx, Publish(t), End(t), UNCHANGED <<ops, crashes>>
  PROVE  TypeOK'
<1>1. /\ val' \in [Cells -> Value]
      /\ live' \subseteq Objects
      /\ markers' \subseteq Keys
      /\ lost' \subseteq Keys
  BY PublishType
<1>2. /\ pc' = [pc EXCEPT ![t] = "idle"]
      /\ obj' = [obj EXCEPT ![t] = None]
  BY EndType
<1>3. /\ pc' \in [Tx -> PcOfWriter \cup PcOfWorker]
      /\ \A u \in Writers : pc'[u] \in PcOfWriter
      /\ \A w \in Workers : pc'[w] \in PcOfWorker
      /\ obj' \in [Tx -> Objects \cup {None}]
      /\ \A u \in Tx : pc'[u] \notin {"idle", "open"} => obj'[u] \in Objects
  BY <1>2 DEF TypeOK, PcOfWriter, PcOfWorker, Tx
<1>4. /\ lock' \in [Objects -> Tx \cup {None}]
      /\ buf' \in [Tx -> [Cells -> Value \cup {None}]]
      /\ gone' \in [Tx -> SUBSET Objects]
      /\ ins' \in [Tx -> SUBSET Keys]
      /\ del' \in [Tx -> SUBSET Keys]
      /\ coal' \in [Tx -> SUBSET Keys]
      /\ todo' \in [Tx -> SUBSET Keys]
      /\ fields' \in [Workers -> SUBSET Denorm]
      /\ new' \in [Workers -> [Cells -> Value \cup {None}]]
      /\ cache' \in [Workers -> [Cells -> Seen \cup {None}]]
      /\ left' \in [Workers -> 0 .. MaxPasses]
  BY EndType
<1>5. ops' \in [Writers -> 0 .. MaxOps] /\ crashes' \in 0 .. MaxCrashes
  BY DEF TypeOK
<1> QED BY <1>1, <1>3, <1>4, <1>5 DEF TypeOK

(* A trigger insert keeps every type (InsertMarker).                       *)
LEMMA InsertType ==
  ASSUME TypeOK, NEW t \in Tx, InsertMarker(t)
  PROVE  TypeOK'
<1>1. PICK k \in todo[t] :
        /\ todo' = [todo EXCEPT ![t] = @ \ {k}]
        /\ ins' = ins \/ ins' = [ins EXCEPT ![t] = @ \cup {k}]
        /\ coal' = coal \/ coal' = [coal EXCEPT ![t] = @ \cup {k}]
  BY DEF InsertMarker
<1>2. k \in Keys
  BY DEF TypeOK
<1>3. todo' \in [Tx -> SUBSET Keys]
  BY <1>1 DEF TypeOK
<1>a. ins[t] \cup {k} \in SUBSET Keys /\ coal[t] \cup {k} \in SUBSET Keys
  BY <1>2 DEF TypeOK
<1>4. ins' \in [Tx -> SUBSET Keys]
  <2>1. CASE ins' = ins
    BY <2>1 DEF TypeOK
  <2>2. CASE ins' = [ins EXCEPT ![t] = @ \cup {k}]
    BY <2>2, <1>a DEF TypeOK
  <2> QED BY <1>1, <2>1, <2>2
<1>5. coal' \in [Tx -> SUBSET Keys]
  <2>1. CASE coal' = coal
    BY <2>1 DEF TypeOK
  <2>2. CASE coal' = [coal EXCEPT ![t] = @ \cup {k}]
    BY <2>2, <1>a DEF TypeOK
  <2> QED BY <1>1, <2>1, <2>2
<1> QED BY <1>3, <1>4, <1>5 DEF TypeOK, InsertMarker, dbVars, localVars

(* Taking a row lock keeps its type.                                       *)
LEMMA LockType ==
  ASSUME TypeOK, NEW w \in Workers, SelectForUpdate(w)
  PROVE  TypeOK'
<1>1. obj[w] \in Objects /\ w \in Tx
  BY DEF SelectForUpdate, Unlocked, TypeOK, Tx
<1>2. \/ lock' = lock
      \/ lock' = [lock EXCEPT ![obj[w]] = w]
  BY DEF SelectForUpdate, Unlocked
<1>3. lock' \in [Objects -> Tx \cup {None}]
  BY <1>1, <1>2 DEF TypeOK
<1>4. pc' = [pc EXCEPT ![w] = "claim"] \/ pc' = [pc EXCEPT ![w] = "missing"]
  BY DEF SelectForUpdate, Unlocked
<1> QED BY <1>1, <1>3, <1>4, SortAssumption
        DEF TypeOK, SelectForUpdate, Unlocked, dbVars, writeVars, localVars, PcOfWriter,
            PcOfWorker, Tx

(* Every step keeps the types.  The pass counter does not go below zero:   *)
(* PostSave runs with passes left.                                         *)
LEMMA TypeStep == BaseInv /\ [Next]_vars => TypeOK'
<1> SUFFICES ASSUME BaseInv, [Next]_vars PROVE TypeOK'
  OBVIOUS
<1> USE SortAssumption, DependencyAssumption, BoundAssumption
    DEF TypeOK, BaseInv, Tx, Keys, PcOfWriter, PcOfWorker, NoCells, dbVars, writeVars, localVars
<1>1. CASE Next
  <2>1. ASSUME NEW t \in Writers, WriterStatement(t)
        PROVE  TypeOK'
    BY <2>1 DEF WriterStatement, Ready
  <2>2. ASSUME NEW t \in Writers, WriterNoRow(t)
        PROVE  TypeOK'
    BY <2>2 DEF WriterNoRow
  <2>3. ASSUME NEW t \in Writers, WriterUpdate(t)
        PROVE  TypeOK'
    <3>1. PICK c \in Plain, v \in Value :
            /\ buf' = [buf EXCEPT ![t][c] = v]
            /\ todo' = [todo EXCEPT ![t] = Fired(t, {c})]
      BY <2>3 DEF WriterUpdate
    <3>2. todo' \in [Tx -> SUBSET Keys]
      BY <3>1, FiredType
    <3>3. buf' \in [Tx -> [Cells -> Value \cup {None}]]
      BY <3>1 DEF Cells
    <3> QED BY <2>3, <3>2, <3>3 DEF WriterUpdate, Grant
  <2>4. ASSUME NEW t \in Writers, WriterDelete(t)
        PROVE  TypeOK'
    <3>1. todo' \in [Tx -> SUBSET Keys]
      BY <2>4, FiredType DEF WriterDelete
    <3> QED BY <2>4, <3>1 DEF WriterDelete, Grant
  <2>5. ASSUME NEW t \in Writers, MarkDirty(t)
        PROVE  TypeOK'
    BY <2>5 DEF MarkDirty, Ready
  <2>6. ASSUME NEW t \in Writers, WriterCommit(t)
        PROVE  TypeOK'
    BY <2>6, CommitType DEF WriterCommit
  <2>7. ASSUME NEW w \in Workers, Pick(w)
        PROVE  TypeOK'
    BY <2>7 DEF Pick
  <2>8. ASSUME NEW w \in Workers, SelectForUpdate(w)
        PROVE  TypeOK'
    BY <2>8, LockType
  <2>9. ASSUME NEW w \in Workers, LockedElsewhere(w)
        PROVE  TypeOK'
    BY <2>9 DEF LockedElsewhere, Rollback, End
  <2>10. ASSUME NEW w \in Workers, RowDeleted(w)
        PROVE  TypeOK'
    BY <2>10 DEF RowDeleted
  <2>11. ASSUME NEW w \in Workers, OrphanClaim(w)
        PROVE  TypeOK'
    BY <2>11 DEF OrphanClaim, DeleteMarkers, Claimable, KeysOf, DenormOf, Visible
  <2>12. ASSUME NEW w \in Workers, Claim(w)
        PROVE  TypeOK'
    BY <2>12 DEF Claim, ClaimAndSave, DeleteMarkers, UpdateFields, Claimable, KeysOf, DenormOf, Visible
  <2>13. ASSUME NEW w \in Workers, PreSave(w)
        PROVE  TypeOK'
    <3>1. PICK d \in fields[w] :
            /\ new' = [new EXCEPT ![w][d] = Compute(d, Input(w, d))]
            /\ cache' = [cache EXCEPT ![w] =
                 [c \in Cells |->
                    IF /\ cache[w][c] = None
                       /\ \E r \in FkReads[d] : Owner[c] = Owner[r]
                    THEN View(w)[c] ELSE cache[w][c]]]
      BY <2>13 DEF PreSave
    <3>2. d \in Denorm /\ Compute(d, Input(w, d)) \in Value
      BY InputType, ComputeAssumption
    <3>3. new' \in [Workers -> [Cells -> Value \cup {None}]]
      BY <3>1, <3>2 DEF Cells
    <3>4. cache' \in [Workers -> [Cells -> Seen \cup {None}]]
      BY <3>1, ViewType
    <3> QED BY <2>13, <3>3, <3>4 DEF PreSave
  <2>14. ASSUME NEW w \in Workers, Update(w)
        PROVE  TypeOK'
    BY <2>14 DEF Update, Fired, FiredOnOthers, FiredOnSelf
  <2>15. ASSUME NEW w \in Workers, PostSave(w)
        PROVE  TypeOK'
    <3>1. left[w] \in 1 .. MaxPasses
      BY <2>15 DEF PostSave, SelfMarkers, LastPass, StageInv
    <3>2. left' \in [Workers -> 0 .. MaxPasses]
      BY <2>15, <3>1 DEF PostSave, SelfMarkers, LastPass
    <3> QED BY <2>15, <3>2 DEF PostSave, SelfMarkers, LastPass, DeleteMarkers, Visible
  <2>16. ASSUME NEW w \in Workers, Reclaim(w)
        PROVE  TypeOK'
    BY <2>16 DEF Reclaim, ClaimAndSave, DeleteMarkers, UpdateFields, Claimable, KeysOf, DenormOf, Visible
  <2>17. ASSUME NEW w \in Workers, WorkerCommit(w)
        PROVE  TypeOK'
    BY <2>17, CommitType DEF WorkerCommit
  <2>18. ASSUME NEW t \in Tx, InsertMarker(t)
        PROVE  TypeOK'
    BY <2>18, InsertType
  <2>19. ASSUME NEW t \in Tx, DeadlockAbort(t)
        PROVE  TypeOK'
    BY <2>19 DEF DeadlockAbort, Rollback, End
  <2>20. ASSUME NEW t \in Tx, Crash(t)
        PROVE  TypeOK'
    BY <2>20 DEF Crash, Rollback, End
  <2>21. QED
    BY <1>1, <2>1, <2>2, <2>3, <2>4, <2>5, <2>6, <2>7, <2>8, <2>9, <2>10, <2>11, <2>12, <2>13, <2>14, <2>15, <2>16, <2>17, <2>18, <2>19, <2>20 DEF Next, WriterStep, WorkerStep
<1>2. CASE UNCHANGED vars
  BY <1>2 DEF vars
<1> QED BY <1>1, <1>2

(* While w holds a live row nobody else has claimed a marker of it.        *)
LEMMA OwnKeys ==
  ASSUME BaseInv, NEW w \in Workers, obj[w] \in live, lock[obj[w]] = w,
         NEW u \in Tx \ {w}
  PROVE  del[u] \cap KeysOf(obj[w]) = {}
<1>1. CASE u \in Writers
  BY <1>1 DEF BaseInv, StageInv
<1>2. CASE u \in Workers /\ pc[u] \in Before
  BY <1>2 DEF BaseInv, StageInv
<1>3. CASE u \in Workers /\ pc[u] \notin Before
  <2>1. obj[u] # obj[w]
    BY <1>3, SortAssumption
    DEF BaseInv, LockInv, TypeOK, Before, Holding, PcOfWorker
  <2>2. del[u] \subseteq KeysOf(obj[u])
    BY <1>3 DEF BaseInv, StageInv
  <2>3. obj[u] \in Objects /\ obj[w] \in Objects
    BY <1>3, SortAssumption
    DEF BaseInv, TypeOK, PcOfWorker, Before, Tx
  <2> QED BY <2>1, <2>2, <2>3, SortAssumption DEF KeysOf, DenormOf, Cells
<1> QED BY <1>1, <1>2, <1>3 DEF Tx

(* Every step keeps what row locks protect (SELECT FOR UPDATE SKIP         *)
(* LOCKED).                                                                *)
LEMMA LockStep == BaseInv /\ [Next]_vars => LockInv'
<1> SUFFICES ASSUME BaseInv, [Next]_vars PROVE LockInv'
  OBVIOUS
<1> USE SortAssumption, DependencyAssumption, BoundAssumption
    DEF BaseInv, Tx, NoCells, dbVars, writeVars, localVars, Before, Holding
<1>1. CASE Next
  <2>1. ASSUME NEW t \in Writers, WriterStatement(t)
        PROVE  LockInv'
    BY <2>1 DEF WriterStatement, Ready, LockInv, StageInv, Cells, TypeOK, PcOfWriter, PcOfWorker
  <2>2. ASSUME NEW t \in Writers, WriterNoRow(t)
        PROVE  LockInv'
    BY <2>2 DEF WriterNoRow, LockInv, StageInv, Cells, TypeOK, PcOfWriter, PcOfWorker
  <2>3. ASSUME NEW t \in Writers, WriterUpdate(t)
        PROVE  LockInv'
    BY <2>3 DEF WriterUpdate, Grant, LockInv, StageInv, Cells, TypeOK, PcOfWriter, PcOfWorker
  <2>4. ASSUME NEW t \in Writers, WriterDelete(t)
        PROVE  LockInv'
    BY <2>4 DEF WriterDelete, Grant, LockInv, StageInv, Cells, TypeOK, PcOfWriter, PcOfWorker
  <2>5. ASSUME NEW t \in Writers, MarkDirty(t)
        PROVE  LockInv'
    BY <2>5 DEF MarkDirty, Ready, LockInv, StageInv, Cells, TypeOK, PcOfWriter, PcOfWorker
  <2>6. ASSUME NEW t \in Writers, WriterCommit(t)
        PROVE  LockInv'
    BY <2>6 DEF WriterCommit, Publish, End, LockInv, StageInv, Cells, TypeOK, PcOfWriter, PcOfWorker
  <2>7. ASSUME NEW w \in Workers, Pick(w)
        PROVE  LockInv'
    BY <2>7 DEF Pick, LockInv, StageInv, Cells, TypeOK, PcOfWriter, PcOfWorker
  <2>8. ASSUME NEW w \in Workers, SelectForUpdate(w)
        PROVE  LockInv'
    BY <2>8 DEF SelectForUpdate, Unlocked, LockInv, StageInv, Cells, TypeOK, PcOfWriter, PcOfWorker
  <2>9. ASSUME NEW w \in Workers, LockedElsewhere(w)
        PROVE  LockInv'
    BY <2>9 DEF LockedElsewhere, Rollback, End, LockInv, StageInv, Cells, TypeOK, PcOfWriter, PcOfWorker
  <2>10. ASSUME NEW w \in Workers, RowDeleted(w)
        PROVE  LockInv'
    BY <2>10 DEF RowDeleted, LockInv, StageInv, Cells, TypeOK, PcOfWriter, PcOfWorker
  <2>11. ASSUME NEW w \in Workers, OrphanClaim(w)
        PROVE  LockInv'
    BY <2>11 DEF OrphanClaim, DeleteMarkers, LockInv, StageInv, Cells, TypeOK, PcOfWriter, PcOfWorker
  <2>12. ASSUME NEW w \in Workers, Claim(w)
        PROVE  LockInv'
    BY <2>12 DEF Claim, ClaimAndSave, DeleteMarkers, LockInv, StageInv, Cells, TypeOK, PcOfWriter, PcOfWorker
  <2>13. ASSUME NEW w \in Workers, PreSave(w)
        PROVE  LockInv'
    BY <2>13 DEF PreSave, LockInv, StageInv, Cells, TypeOK, PcOfWriter, PcOfWorker
  <2>14. ASSUME NEW w \in Workers, Update(w)
        PROVE  LockInv'
    BY <2>14 DEF Update, LockInv, StageInv, Cells, TypeOK, PcOfWriter, PcOfWorker, DenormOf
  <2>15. ASSUME NEW w \in Workers, PostSave(w)
        PROVE  LockInv'
    BY <2>15 DEF PostSave, SelfMarkers, LastPass, DeleteMarkers, LockInv, StageInv, Cells, TypeOK, PcOfWriter, PcOfWorker
  <2>16. ASSUME NEW w \in Workers, Reclaim(w)
        PROVE  LockInv'
    BY <2>16 DEF Reclaim, ClaimAndSave, DeleteMarkers, LockInv, StageInv, Cells, TypeOK, PcOfWriter, PcOfWorker
  <2>17. ASSUME NEW w \in Workers, WorkerCommit(w)
        PROVE  LockInv'
    BY <2>17 DEF WorkerCommit, Publish, End, LockInv, StageInv, Cells, TypeOK, PcOfWriter, PcOfWorker
  <2>18. ASSUME NEW t \in Tx, InsertMarker(t)
        PROVE  LockInv'
    BY <2>18 DEF InsertMarker, LockInv, StageInv, Cells, TypeOK, PcOfWriter, PcOfWorker
  <2>19. ASSUME NEW t \in Tx, DeadlockAbort(t)
        PROVE  LockInv'
    BY <2>19 DEF DeadlockAbort, Rollback, End, LockInv, StageInv, Cells, TypeOK, PcOfWriter, PcOfWorker
  <2>20. ASSUME NEW t \in Tx, Crash(t)
        PROVE  LockInv'
    BY <2>20 DEF Crash, Rollback, End, LockInv, StageInv, Cells, TypeOK, PcOfWriter, PcOfWorker
  <2>21. QED
    BY <1>1, <2>1, <2>2, <2>3, <2>4, <2>5, <2>6, <2>7, <2>8, <2>9, <2>10, <2>11, <2>12, <2>13, <2>14, <2>15, <2>16, <2>17, <2>18, <2>19, <2>20 DEF Next, WriterStep, WorkerStep
<1>2. CASE UNCHANGED vars
  BY <1>2 DEF vars, LockInv, StageInv, Cells, TypeOK, PcOfWriter, PcOfWorker
<1> QED BY <1>1, <1>2

(* Every step leaves a transaction only the pending work of its stage.     *)
LEMMA StageStep == BaseInv /\ [Next]_vars => StageInv'
<1> SUFFICES ASSUME BaseInv, [Next]_vars PROVE StageInv'
  OBVIOUS
<1> USE SortAssumption, DependencyAssumption, BoundAssumption
    DEF BaseInv, Tx, NoCells, dbVars, writeVars, localVars, Before, Holding
<1>1. CASE Next
  <2>1. ASSUME NEW t \in Writers, WriterStatement(t)
        PROVE  StageInv'
    BY <2>1 DEF WriterStatement, Ready, StageInv, TypeOK, PcOfWriter, PcOfWorker
  <2>2. ASSUME NEW t \in Writers, WriterNoRow(t)
        PROVE  StageInv'
    BY <2>2 DEF WriterNoRow, StageInv, TypeOK, PcOfWriter, PcOfWorker
  <2>3. ASSUME NEW t \in Writers, WriterUpdate(t)
        PROVE  StageInv'
    BY <2>3 DEF WriterUpdate, Grant, StageInv, TypeOK, PcOfWriter, PcOfWorker
  <2>4. ASSUME NEW t \in Writers, WriterDelete(t)
        PROVE  StageInv'
    BY <2>4 DEF WriterDelete, Grant, StageInv, TypeOK, PcOfWriter, PcOfWorker
  <2>5. ASSUME NEW t \in Writers, MarkDirty(t)
        PROVE  StageInv'
    BY <2>5 DEF MarkDirty, Ready, StageInv, TypeOK, PcOfWriter, PcOfWorker
  <2>6. ASSUME NEW t \in Writers, WriterCommit(t)
        PROVE  StageInv'
    BY <2>6 DEF WriterCommit, Publish, End, StageInv, TypeOK, PcOfWriter, PcOfWorker
  <2>7. ASSUME NEW w \in Workers, Pick(w)
        PROVE  StageInv'
    BY <2>7 DEF Pick, StageInv, TypeOK, PcOfWriter, PcOfWorker
  <2>8. ASSUME NEW w \in Workers, SelectForUpdate(w)
        PROVE  StageInv'
    <3>1. obj[w] \in Objects /\ pc[w] = "select"
      BY <2>8 DEF SelectForUpdate, Unlocked, TypeOK
    <3>2. pc' = [pc EXCEPT ![w] = "claim"] \/ pc' = [pc EXCEPT ![w] = "missing"]
      BY <2>8 DEF SelectForUpdate, Unlocked
    <3>3. UNCHANGED <<writeVars, localVars>>
      BY <2>8 DEF SelectForUpdate, Unlocked
    <3>4. CASE pc' = [pc EXCEPT ![w] = "claim"]
      BY <3>1, <3>3, <3>4 DEF StageInv, TypeOK
    <3>5. CASE pc' = [pc EXCEPT ![w] = "missing"]
      BY <3>1, <3>3, <3>5 DEF StageInv, TypeOK
    <3> QED BY <3>2, <3>4, <3>5
  <2>9. ASSUME NEW w \in Workers, LockedElsewhere(w)
        PROVE  StageInv'
    BY <2>9 DEF LockedElsewhere, Rollback, End, StageInv, TypeOK, PcOfWriter, PcOfWorker
  <2>10. ASSUME NEW w \in Workers, RowDeleted(w)
        PROVE  StageInv'
    BY <2>10 DEF RowDeleted, StageInv, TypeOK, PcOfWriter, PcOfWorker
  <2>11. ASSUME NEW w \in Workers, OrphanClaim(w)
        PROVE  StageInv'
    BY <2>11 DEF OrphanClaim, DeleteMarkers, StageInv, TypeOK, PcOfWriter, PcOfWorker, KeysOf, DenormOf, Claimable, UpdateFields
  <2>12. ASSUME NEW w \in Workers, Claim(w)
        PROVE  StageInv'
    BY <2>12 DEF Claim, ClaimAndSave, DeleteMarkers, StageInv, TypeOK, PcOfWriter, PcOfWorker, KeysOf, DenormOf, Claimable, UpdateFields
  <2>13. ASSUME NEW w \in Workers, PreSave(w)
        PROVE  StageInv'
    BY <2>13 DEF PreSave, StageInv, TypeOK, PcOfWriter, PcOfWorker
  <2>14. ASSUME NEW w \in Workers, Update(w)
        PROVE  StageInv'
    BY <2>14 DEF Update, StageInv, TypeOK, PcOfWriter, PcOfWorker
  <2>15. ASSUME NEW w \in Workers, PostSave(w)
        PROVE  StageInv'
    BY <2>15 DEF PostSave, SelfMarkers, LastPass, DeleteMarkers, StageInv, TypeOK, PcOfWriter, PcOfWorker, KeysOf, DenormOf, Claimable, UpdateFields
  <2>16. ASSUME NEW w \in Workers, Reclaim(w)
        PROVE  StageInv'
    BY <2>16 DEF Reclaim, ClaimAndSave, DeleteMarkers, StageInv, TypeOK, PcOfWriter, PcOfWorker, KeysOf, DenormOf, Claimable, UpdateFields
  <2>17. ASSUME NEW w \in Workers, WorkerCommit(w)
        PROVE  StageInv'
    BY <2>17 DEF WorkerCommit, Publish, End, StageInv, TypeOK, PcOfWriter, PcOfWorker
  <2>18. ASSUME NEW t \in Tx, InsertMarker(t)
        PROVE  StageInv'
    BY <2>18 DEF InsertMarker, StageInv, TypeOK, PcOfWriter, PcOfWorker
  <2>19. ASSUME NEW t \in Tx, DeadlockAbort(t)
        PROVE  StageInv'
    BY <2>19 DEF DeadlockAbort, Rollback, End, StageInv, TypeOK, PcOfWriter, PcOfWorker
  <2>20. ASSUME NEW t \in Tx, Crash(t)
        PROVE  StageInv'
    BY <2>20 DEF Crash, Rollback, End, StageInv, TypeOK, PcOfWriter, PcOfWorker
  <2>21. QED
    BY <1>1, <2>1, <2>2, <2>3, <2>4, <2>5, <2>6, <2>7, <2>8, <2>9, <2>10, <2>11, <2>12, <2>13, <2>14, <2>15, <2>16, <2>17, <2>18, <2>19, <2>20 DEF Next, WriterStep, WorkerStep
<1>2. CASE UNCHANGED vars
  BY <1>2 DEF vars, StageInv, TypeOK, PcOfWriter, PcOfWorker
<1> QED BY <1>1, <1>2

(* Every step respects the unique index of the marker table (migration     *)
(* 0017).                                                                  *)
LEMMA IndexStep == BaseInv /\ [Next]_vars => IndexInv'
<1> SUFFICES ASSUME BaseInv, [Next]_vars PROVE IndexInv'
  OBVIOUS
<1> USE SortAssumption, DependencyAssumption, BoundAssumption
    DEF BaseInv, Tx, NoCells, dbVars, writeVars, localVars, Before, Holding
<1>1. CASE Next
  <2>1. ASSUME NEW t \in Writers, WriterStatement(t)
        PROVE  IndexInv'
    BY <2>1 DEF WriterStatement, Ready, IndexInv, StageInv, Visible, TypeOK, PcOfWriter, PcOfWorker
  <2>2. ASSUME NEW t \in Writers, WriterNoRow(t)
        PROVE  IndexInv'
    BY <2>2 DEF WriterNoRow, IndexInv, StageInv, Visible, TypeOK, PcOfWriter, PcOfWorker
  <2>3. ASSUME NEW t \in Writers, WriterUpdate(t)
        PROVE  IndexInv'
    BY <2>3 DEF WriterUpdate, Grant, IndexInv, StageInv, Visible, TypeOK, PcOfWriter, PcOfWorker
  <2>4. ASSUME NEW t \in Writers, WriterDelete(t)
        PROVE  IndexInv'
    BY <2>4 DEF WriterDelete, Grant, IndexInv, StageInv, Visible, TypeOK, PcOfWriter, PcOfWorker
  <2>5. ASSUME NEW t \in Writers, MarkDirty(t)
        PROVE  IndexInv'
    BY <2>5 DEF MarkDirty, Ready, IndexInv, StageInv, Visible, TypeOK, PcOfWriter, PcOfWorker
  <2>6. ASSUME NEW t \in Writers, WriterCommit(t)
        PROVE  IndexInv'
    BY <2>6 DEF WriterCommit, Publish, End, IndexInv, StageInv, Visible, TypeOK, PcOfWriter, PcOfWorker
  <2>7. ASSUME NEW w \in Workers, Pick(w)
        PROVE  IndexInv'
    BY <2>7 DEF Pick, IndexInv, StageInv, Visible, TypeOK, PcOfWriter, PcOfWorker
  <2>8. ASSUME NEW w \in Workers, SelectForUpdate(w)
        PROVE  IndexInv'
    BY <2>8 DEF SelectForUpdate, Unlocked, IndexInv, StageInv, Visible, TypeOK, PcOfWriter, PcOfWorker
  <2>9. ASSUME NEW w \in Workers, LockedElsewhere(w)
        PROVE  IndexInv'
    BY <2>9 DEF LockedElsewhere, Rollback, End, IndexInv, StageInv, Visible, TypeOK, PcOfWriter, PcOfWorker
  <2>10. ASSUME NEW w \in Workers, RowDeleted(w)
        PROVE  IndexInv'
    BY <2>10 DEF RowDeleted, IndexInv, StageInv, Visible, TypeOK, PcOfWriter, PcOfWorker
  <2>11. ASSUME NEW w \in Workers, OrphanClaim(w)
        PROVE  IndexInv'
    BY <2>11 DEF OrphanClaim, DeleteMarkers, IndexInv, StageInv, Visible, TypeOK, PcOfWriter, PcOfWorker, Claimable
  <2>12. ASSUME NEW w \in Workers, Claim(w)
        PROVE  IndexInv'
    BY <2>12 DEF Claim, ClaimAndSave, DeleteMarkers, IndexInv, StageInv, Visible, TypeOK, PcOfWriter, PcOfWorker, Claimable
  <2>13. ASSUME NEW w \in Workers, PreSave(w)
        PROVE  IndexInv'
    BY <2>13 DEF PreSave, IndexInv, StageInv, Visible, TypeOK, PcOfWriter, PcOfWorker
  <2>14. ASSUME NEW w \in Workers, Update(w)
        PROVE  IndexInv'
    BY <2>14 DEF Update, IndexInv, StageInv, Visible, TypeOK, PcOfWriter, PcOfWorker
  <2>15. ASSUME NEW w \in Workers, PostSave(w)
        PROVE  IndexInv'
    <3> DEFINE K == SelfMarkers(w)
    <3>1. /\ del' = [del EXCEPT ![w] = @ \cup (K \cap markers)]
          /\ ins' = [ins EXCEPT ![w] = @ \ K]
          /\ UNCHANGED markers
      BY <2>15 DEF PostSave, SelfMarkers, LastPass, DeleteMarkers
    <3>2. K \subseteq KeysOf(obj[w])
      BY <2>15 DEF PostSave, SelfMarkers, LastPass, StageInv, KeysOf
    <3>3. \A u \in Tx \ {w} : del[u] \cap K = {}
      BY <2>15, <3>2, OwnKeys DEF PostSave, SelfMarkers, LastPass, LockInv
    <3>4. \A u \in Tx \ {w} : ins[u] \cap (K \cap markers) = {}
      BY <3>3 DEF IndexInv
    <3> HIDE DEF K
    <3> QED BY <3>1, <3>3, <3>4 DEF IndexInv, TypeOK
  <2>16. ASSUME NEW w \in Workers, Reclaim(w)
        PROVE  IndexInv'
    BY <2>16 DEF Reclaim, ClaimAndSave, DeleteMarkers, IndexInv, StageInv, Visible, TypeOK, PcOfWriter, PcOfWorker, Claimable
  <2>17. ASSUME NEW w \in Workers, WorkerCommit(w)
        PROVE  IndexInv'
    BY <2>17 DEF WorkerCommit, Publish, End, IndexInv, StageInv, Visible, TypeOK, PcOfWriter, PcOfWorker
  <2>18. ASSUME NEW t \in Tx, InsertMarker(t)
        PROVE  IndexInv'
    <3>1. PICK k \in todo[t] :
            /\ \A u \in Tx \ {t} : k \notin ins[u] \cup del[u]
            /\ \/ ins' = ins
               \/ k \notin Visible(t) /\ ins' = [ins EXCEPT ![t] = @ \cup {k}]
            /\ UNCHANGED <<markers, del>>
      BY <2>18 DEF InsertMarker, Blocked, Held
    <3>2. CASE ins' = ins
      BY <3>1, <3>2 DEF IndexInv
    <3>3. CASE k \notin Visible(t) /\ ins' = [ins EXCEPT ![t] = @ \cup {k}]
      BY <3>1, <3>3 DEF IndexInv, Visible, TypeOK
    <3> QED BY <3>1, <3>2, <3>3
  <2>19. ASSUME NEW t \in Tx, DeadlockAbort(t)
        PROVE  IndexInv'
    BY <2>19 DEF DeadlockAbort, Rollback, End, IndexInv, StageInv, Visible, TypeOK, PcOfWriter, PcOfWorker
  <2>20. ASSUME NEW t \in Tx, Crash(t)
        PROVE  IndexInv'
    BY <2>20 DEF Crash, Rollback, End, IndexInv, StageInv, Visible, TypeOK, PcOfWriter, PcOfWorker
  <2>21. QED
    BY <1>1, <2>1, <2>2, <2>3, <2>4, <2>5, <2>6, <2>7, <2>8, <2>9, <2>10, <2>11, <2>12, <2>13, <2>14, <2>15, <2>16, <2>17, <2>18, <2>19, <2>20 DEF Next, WriterStep, WorkerStep
<1>2. CASE UNCHANGED vars
  BY <1>2 DEF vars, IndexInv, StageInv, Visible, TypeOK, PcOfWriter, PcOfWorker
<1> QED BY <1>1, <1>2

-----------------------------------------------------------------------------
(* BaseInv holds to begin with.                                            *)
LEMMA InitBase == Init => BaseInv
<1> SUFFICES ASSUME Init PROVE BaseInv
  OBVIOUS
<1>1. TypeOK
  BY SortAssumption, InitAssumption, BoundAssumption
  DEF Init, TypeOK, Tx, NoCells, Keys, PcOfWriter, PcOfWorker
<1>2. LockInv
  BY SortAssumption, DependencyAssumption
  DEF Init, LockInv, Tx, NoCells, Holding, Cells
<1>3. StageInv /\ IndexInv
  BY DEF Init, StageInv, IndexInv, Tx, NoCells, Before
<1> QED BY <1>1, <1>2, <1>3 DEF BaseInv

(* Every step keeps BaseInv.                                               *)
LEMMA BaseStep == BaseInv /\ [Next]_vars => BaseInv'
BY TypeStep, LockStep, StageStep, IndexStep DEF BaseInv

(* Types, row locks, what each stage of a transaction may have pending and *)
(* the unique index of the marker table are kept by every step.            *)
THEOREM BaseInductive == Spec => []BaseInv
BY InitBase, BaseStep, PTL DEF Spec

(* Every variable keeps its type; in particular the convergence loop never *)
(* goes below zero passes.                                                 *)
THEOREM TypeCorrect == Spec => []TypeOK
<1>1. BaseInv => TypeOK
  BY DEF BaseInv
<1> QED BY <1>1, BaseInductive, PTL

(* No two workers recompute one row at a time or claim one marker.         *)
THEOREM Exclusive == Spec => []ExclusiveRecompute
<1>1. BaseInv => ExclusiveRecompute
  <2> SUFFICES ASSUME BaseInv, NEW w \in Workers, NEW x \in Workers, w # x
               PROVE  /\ del[w] \cap del[x] = {}
                      /\ pc[w] \in {"save", "post", "again"}
                         /\ pc[x] \in {"save", "post", "again"}
                           => obj[w] # obj[x]
    BY DEF ExclusiveRecompute
  <2>1. del[w] \cap del[x] = {}
    BY DEF BaseInv, IndexInv, Tx
  <2>2. ASSUME pc[w] \in {"save", "post", "again"},
               pc[x] \in {"save", "post", "again"}
        PROVE  obj[w] # obj[x]
    BY <2>2 DEF BaseInv, LockInv, Holding
  <2> QED BY <2>1, <2>2
<1> QED BY <1>1, BaseInductive, PTL

-----------------------------------------------------------------------------
(***************************************************************************)
(* No change is lost, for every dependency graph and any number of         *)
(* writers, workers and rows; and the protocol implements Invalidation.    *)
(***************************************************************************)

(* The markers of one row are not those of another.                        *)
LEMMA ForeignKey ==
  ASSUME NEW o \in Objects, NEW d \in Denorm, Owner[d] # o
  PROVE  d \notin KeysOf(o) /\ Owner[d] \notin KeysOf(o)
BY SortAssumption, DependencyAssumption DEF KeysOf, DenormOf, Cells

(* The committed database has a value, or Absent, for every cell.          *)
LEMMA DbType ==
  ASSUME TypeOK
  PROVE  Db \in [Cells -> Seen]
BY SortAssumption, DependencyAssumption DEF TypeOK, Db, Seen

(* A transaction that has written nothing sees the committed database.     *)
LEMMA CleanView ==
  ASSUME TypeOK, NEW t \in Tx, buf[t] = NoCells, gone[t] = {}
  PROVE  View(t) = Db
BY DEF View, Db, NoCells, TypeOK

(* A commit publishes the view of t; the others see it wherever they have  *)
(* not written themselves.                                                 *)
LEMMA PublishView ==
  ASSUME BaseInv, NEW t \in Tx, Publish(t), End(t)
  PROVE  /\ Db' = View(t)
         /\ \A u \in Tx \ {t}, c \in Cells :
              /\ View(u)[c] # Db[c] => View(u)'[c] = View(u)[c] /\ Db'[c] = Db[c]
              /\ View(u)[c] = Db[c] => View(u)'[c] = Db'[c]
<1>1. Db' = View(t)
  BY DEF Db, View, Publish
<1>2. ASSUME NEW u \in Tx \ {t}, NEW c \in Cells
      PROVE  /\ View(u)[c] # Db[c] => View(u)'[c] = View(u)[c] /\ Db'[c] = Db[c]
             /\ View(u)[c] = Db[c] => View(u)'[c] = Db'[c]
  <2>1. buf'[u] = buf[u] /\ gone'[u] = gone[u] /\ Owner[c] \in Objects
    BY DependencyAssumption DEF End, BaseInv, TypeOK
  <2>2. CASE lock[Owner[c]] = u
    <3>1. buf[t][c] = None /\ Owner[c] \notin gone[t]
      BY <2>1, <2>2 DEF BaseInv, LockInv
    <3>2. val'[c] = val[c] /\ (Owner[c] \in live' <=> Owner[c] \in live)
      BY <3>1 DEF Publish
    <3> QED BY <2>1, <3>2 DEF View, Db
  <2>3. CASE lock[Owner[c]] # u
    <3>1. buf[u][c] = None /\ Owner[c] \notin gone[u]
      BY <2>1, <2>3 DEF BaseInv, LockInv
    <3> QED BY <2>1, <3>1 DEF View, Db
  <2> QED BY <2>2, <2>3
<1> QED BY <1>1, <1>2

(* A function returns the same on views that agree on what it reads.       *)
LEMMA ComputeLocal ==
  ASSUME NEW d \in Denorm, NEW v \in [Cells -> Seen], NEW x \in [Cells -> Seen],
         \A c \in Reads[d] : v[c] = x[c]
  PROVE  Compute(d, v) = Compute(d, x)
BY ComputeAssumption

(* What t has pending for d is in the marker table or in lost once t has   *)
(* committed, and no other transaction has deleted that marker.            *)
LEMMA PendingLands ==
  ASSUME IndexInv, NEW t \in Tx, Publish(t), NEW d \in ins[t] \cup coal[t]
  PROVE  \/ d \in lost'
         \/ d \in markers' /\ \A u \in Tx \ {t} : d \notin del[u]
<1>1. CASE d \in ins[t]
  BY <1>1 DEF Publish, Visible, IndexInv
<1>2. CASE d \in coal[t] /\ d \notin ins[t]
  BY <1>2 DEF Publish, Visible, Swallowed, IndexInv
<1> QED BY <1>1, <1>2

(* What another transaction's commit does to the row w is flushing.        *)
LEMMA OthersCommit ==
  ASSUME BaseInv, PendingInv, NEW t \in Tx, Publish(t), End(t), todo[t] = {},
         NEW w \in Workers, w # t,
         obj[w] \in live, lock[obj[w]] = w,
         NEW d \in Denorm, Owner[d] = obj[w]
  PROVE  /\ Covered(w, d) => Covered(w, d)'
         /\ \A c \in Reads[d] : View(w)'[c] # View(w)[c] => Covered(w, d)'
         /\ \A c \in Cells : Owner[c] = obj[w] => View(w)'[c] = View(w)[c]
         /\ obj'[w] = obj[w] /\ obj[w] \in live'
<1>1. /\ obj'[w] = obj[w] /\ del'[w] = del[w] /\ ins'[w] = ins[w]
      /\ buf'[w] = buf[w] /\ gone'[w] = gone[w]
      /\ w \in Tx
  BY DEF End, BaseInv, TypeOK, Tx
<1>2. obj[w] \notin gone[t] /\ obj[w] \in live'
  BY DEF BaseInv, LockInv, Publish
<1>3. del[t] \cap KeysOf(obj[w]) = {}
  BY <1>1, OwnKeys
<1>4. d \in KeysOf(obj[w]) /\ obj[w] \in KeysOf(obj[w])
  BY DEF KeysOf, DenormOf
<1>5. Covered(w, d) => Covered(w, d)'
  <2>1. CASE d \in Visible(w)
    BY <1>1, <1>3, <1>4, <2>1 DEF Covered, Visible, Publish
  <2>2. CASE obj[w] \in Visible(w)
    BY <1>1, <1>3, <1>4, <2>2 DEF Covered, Visible, Publish
  <2>3. CASE d \in lost
    BY <1>1, <2>3 DEF Covered, Visible, Publish, BaseInv, IndexInv
  <2> QED BY <2>1, <2>2, <2>3 DEF Covered
<1>6. ASSUME NEW c \in Reads[d], View(w)'[c] # View(w)[c]
      PROVE  Covered(w, d)'
  <2>1. c \in Cells /\ d \in Cells
    BY DependencyAssumption DEF Cells
  <2>2. View(t)[c] # Db[c]
    BY <1>1, <1>6, <2>1, PublishView
  <2>3. t \in Workers => Owner[d] # obj[t]
    <3>1. SUFFICES ASSUME t \in Workers, obj[t] = obj[w] PROVE FALSE
      OBVIOUS
    <3>2. pc[t] \in Before
      BY <3>1 DEF BaseInv, LockInv, Before, Holding, TypeOK, PcOfWorker
    <3>3. View(t) = Db
      BY <3>2, CleanView DEF BaseInv, StageInv
    <3> QED BY <3>3, <2>2
  <2>4. d \in ins[t] \cup coal[t]
    BY <1>2, <2>2, <2>3 DEF PendingInv, Changed
  <2> QED BY <1>1, <2>4, PendingLands DEF BaseInv, Covered, Visible
<1>7. ASSUME NEW c \in Cells, Owner[c] = obj[w]
      PROVE  View(w)'[c] = View(w)[c]
  <2>1. buf[t][c] = None
    BY <1>7 DEF BaseInv, LockInv
  <2> QED BY <1>1, <1>2, <1>7, <2>1 DEF View, Publish
<1> QED BY <1>1, <1>2, <1>5, <1>6, <1>7

(* A step that leaves the committed database alone keeps                   *)
(* NoLostInvalidation.                                                     *)
LEMMA NoLostFrame ==
  ASSUME NoLostInvalidation, UNCHANGED <<val, live, markers, lost>>
  PROVE  NoLostInvalidation'
BY DEF NoLostInvalidation, Stale, Marked, Db

(* A commit keeps NoLostInvalidation: what it makes stale it marks, or had *)
(* found marked.                                                           *)
LEMMA NoLostCommit ==
  ASSUME IInv, NEW t \in Tx, Publish(t), End(t), todo[t] = {},
         t \in Workers => pc[t] = "commit"
  PROVE  NoLostInvalidation'
<1> SUFFICES ASSUME NEW d \in Denorm, FkReads[d] = {}, Stale(d)'
             PROVE  Marked(d)' \/ d \in lost'
  BY DEF NoLostInvalidation
<1> USE DEF IInv, BaseInv
<1>1. /\ Owner[d] \in live \ gone[t]
      /\ Db' = View(t)
      /\ IsStale(d, View(t))
      /\ markers' = Visible(t)
      /\ d \in Cells
  BY PublishView DEF Stale, IsStale, Publish, Cells
<1>2. CASE t \in Workers /\ Owner[d] = obj[t]
  <2>1. Covered(t, d)
    BY <1>1, <1>2 DEF WorkerInv, Row
  <2> QED BY <1>1, <1>2, <2>1 DEF Covered, Marked, Publish, Visible
<1>3. CASE ~(t \in Workers /\ Owner[d] = obj[t])
  <2>1. CASE Changed(t, d)
    <3>1. d \in ins[t] \cup coal[t]
      BY <1>1, <1>3, <2>1 DEF PendingInv
    <3> QED BY <3>1, PendingLands DEF Marked
  <2>2. CASE ~Changed(t, d)
    <3>1. \A c \in Reads[d] : View(t)[c] = Db[c]
      BY <2>2 DEF Changed
    <3>2. buf[t][d] = None
      BY <1>1, <1>3 DEF LockInv, Tx
    <3>3. View(t)[d] = Db[d]
      BY <1>1, <3>2 DEF View, Db
    <3>4. Compute(d, View(t)) = Compute(d, Db)
      BY <3>1, ViewType, DbType, ComputeLocal
    <3>5. Marked(d) \/ d \in lost
      BY <1>1, <3>3, <3>4 DEF NoLostInvalidation, Stale, IsStale
    <3>6. d \notin del[t] /\ Owner[d] \notin del[t]
      <4>1. CASE t \in Writers
        BY <4>1 DEF StageInv
      <4>2. CASE t \in Workers
        <5>1. obj[t] \in Objects /\ del[t] \subseteq KeysOf(obj[t])
          BY <4>2 DEF StageInv, TypeOK
        <5> QED BY <1>3, <4>2, <5>1, ForeignKey
      <4> QED BY <4>1, <4>2 DEF Tx
    <3> QED BY <1>1, <3>5, <3>6 DEF Marked, Visible, Publish
  <2> QED BY <2>1, <2>2
<1> QED BY <1>2, <1>3

(* Every step keeps NoLostInvalidation.                                    *)
LEMMA NoLostStep == IInv /\ [Next]_vars => NoLostInvalidation'
<1> SUFFICES ASSUME IInv, [Next]_vars PROVE NoLostInvalidation'
  OBVIOUS
<1> USE DEF IInv, BaseInv
<1>1. CASE Next
  <2>1. ASSUME NEW t \in Writers, WriterStatement(t)
        PROVE  NoLostInvalidation'
    BY <2>1, NoLostFrame DEF WriterStatement, dbVars
  <2>2. ASSUME NEW t \in Writers, WriterNoRow(t)
        PROVE  NoLostInvalidation'
    BY <2>2, NoLostFrame DEF WriterNoRow, dbVars
  <2>3. ASSUME NEW t \in Writers, WriterUpdate(t)
        PROVE  NoLostInvalidation'
    BY <2>3, NoLostFrame DEF WriterUpdate, dbVars
  <2>4. ASSUME NEW t \in Writers, WriterDelete(t)
        PROVE  NoLostInvalidation'
    BY <2>4, NoLostFrame DEF WriterDelete, dbVars
  <2>5. ASSUME NEW t \in Writers, MarkDirty(t)
        PROVE  NoLostInvalidation'
    BY <2>5, NoLostFrame DEF MarkDirty, dbVars
  <2>6. ASSUME NEW t \in Writers, WriterCommit(t)
        PROVE  NoLostInvalidation'
    <3>1. t \in Tx /\ t \notin Workers
      BY SortAssumption DEF Tx
    <3> QED BY <2>6, <3>1, NoLostCommit DEF WriterCommit
  <2>7. ASSUME NEW w \in Workers, Pick(w)
        PROVE  NoLostInvalidation'
    BY <2>7, NoLostFrame DEF Pick, dbVars
  <2>8. ASSUME NEW w \in Workers, SelectForUpdate(w)
        PROVE  NoLostInvalidation'
    BY <2>8, NoLostFrame DEF SelectForUpdate, Unlocked, dbVars
  <2>9. ASSUME NEW w \in Workers, LockedElsewhere(w)
        PROVE  NoLostInvalidation'
    BY <2>9, NoLostFrame DEF LockedElsewhere, Rollback, dbVars
  <2>10. ASSUME NEW w \in Workers, RowDeleted(w)
        PROVE  NoLostInvalidation'
    BY <2>10, NoLostFrame DEF RowDeleted, dbVars
  <2>11. ASSUME NEW w \in Workers, OrphanClaim(w)
        PROVE  NoLostInvalidation'
    BY <2>11, NoLostFrame DEF OrphanClaim, dbVars
  <2>12. ASSUME NEW w \in Workers, Claim(w)
        PROVE  NoLostInvalidation'
    BY <2>12, NoLostFrame DEF Claim, dbVars
  <2>13. ASSUME NEW w \in Workers, PreSave(w)
        PROVE  NoLostInvalidation'
    BY <2>13, NoLostFrame DEF PreSave, dbVars
  <2>14. ASSUME NEW w \in Workers, Update(w)
        PROVE  NoLostInvalidation'
    BY <2>14, NoLostFrame DEF Update, dbVars
  <2>15. ASSUME NEW w \in Workers, PostSave(w)
        PROVE  NoLostInvalidation'
    BY <2>15, NoLostFrame DEF PostSave, SelfMarkers, LastPass, dbVars
  <2>16. ASSUME NEW w \in Workers, Reclaim(w)
        PROVE  NoLostInvalidation'
    BY <2>16, NoLostFrame DEF Reclaim, dbVars
  <2>17. ASSUME NEW w \in Workers, WorkerCommit(w)
        PROVE  NoLostInvalidation'
    BY <2>17, NoLostCommit DEF WorkerCommit, Tx, StageInv
  <2>18. ASSUME NEW t \in Tx, InsertMarker(t)
        PROVE  NoLostInvalidation'
    BY <2>18, NoLostFrame DEF InsertMarker, dbVars
  <2>19. ASSUME NEW t \in Tx, DeadlockAbort(t)
        PROVE  NoLostInvalidation'
    BY <2>19, NoLostFrame DEF DeadlockAbort, Rollback, dbVars
  <2>20. ASSUME NEW t \in Tx, Crash(t)
        PROVE  NoLostInvalidation'
    BY <2>20, NoLostFrame DEF Crash, Rollback, dbVars
  <2>21. QED
    BY <1>1, <2>1, <2>2, <2>3, <2>4, <2>5, <2>6, <2>7, <2>8, <2>9, <2>10, <2>11, <2>12, <2>13, <2>14, <2>15, <2>16, <2>17, <2>18, <2>19, <2>20 DEF Next, WriterStep, WorkerStep
<1>2. CASE UNCHANGED vars
  BY <1>2, NoLostFrame DEF vars
<1> QED BY <1>1, <1>2

(* A step that changes no view and takes no pending marker away keeps      *)
(* PendingInv.                                                             *)
LEMMA PendingFrame ==
  ASSUME PendingInv, UNCHANGED <<val, live, buf, gone>>,
         \A t \in Tx, d \in Denorm :
            /\ d \in ins[t] \cup coal[t] \cup todo[t]
            /\ t \in Workers => Owner[d] # obj[t]
            => d \in ins'[t] \cup coal'[t] \cup todo'[t],
         \A w \in Workers : obj'[w] = obj[w] \/ View(w) = Db
  PROVE  PendingInv'
<1>1. Db' = Db /\ \A t \in Tx : View(t)' = View(t)
  BY DEF Db, View
<1> QED BY <1>1 DEF PendingInv, Changed

(* A claim takes markers of the flushed row only, never one that a change  *)
(* this transaction made elsewhere relies on.                              *)
LEMMA PendingClaim ==
  ASSUME TypeOK, PendingInv, NEW w \in Workers, NEW K,
         K \subseteq KeysOf(obj[w]), obj[w] \in Objects, DeleteMarkers(w, K),
         UNCHANGED <<val, live, buf, gone, todo, obj>>
  PROVE  PendingInv'
<1>1. \A d \in Denorm : Owner[d] # obj[w] => d \notin K
  BY ForeignKey
<1>2. /\ ins' = [ins EXCEPT ![w] = @ \ K]
      /\ coal' = [coal EXCEPT ![w] = @ \ K]
  BY DEF DeleteMarkers
<1>3. \A t \in Tx, d \in Denorm :
        /\ d \in ins[t] \cup coal[t] \cup todo[t]
        /\ t \in Workers => Owner[d] # obj[t]
        => d \in ins'[t] \cup coal'[t] \cup todo'[t]
  BY <1>1, <1>2 DEF TypeOK
<1> QED BY <1>3, PendingFrame

(* A commit keeps PendingInv: the others see it only where they have not   *)
(* written.                                                                *)
LEMMA PendingCommit ==
  ASSUME BaseInv, PendingInv, NEW t \in Tx, Publish(t), End(t)
  PROVE  PendingInv'
<1> SUFFICES ASSUME NEW u \in Tx, NEW d \in Denorm, Changed(u, d)',
                    Owner[d] \in live' \ gone'[u],
                    u \in Workers => Owner[d] # obj'[u]
             PROVE  d \in ins'[u] \cup coal'[u] \cup todo'[u]
  BY DEF PendingInv
<1>1. CASE u = t
  <2>1. buf'[t] = NoCells /\ gone'[t] = {}
    BY DEF End, BaseInv, TypeOK
  <2>2. View(t)' = Db'
    BY <2>1 DEF View, Db, NoCells
  <2> QED BY <1>1, <2>2 DEF Changed
<1>2. CASE u # t
  <2>1. /\ ins'[u] = ins[u] /\ coal'[u] = coal[u] /\ todo'[u] = todo[u]
        /\ obj'[u] = obj[u] /\ gone'[u] = gone[u]
    BY <1>2 DEF End, BaseInv, TypeOK
  <2>2. Changed(u, d)
    <3>1. PICK c \in Reads[d] : View(u)'[c] # Db'[c]
      BY DEF Changed
    <3>2. c \in Cells
      BY DependencyAssumption
    <3> QED BY <1>2, <3>1, <3>2, PublishView DEF Changed
  <2>3. Owner[d] \in live \ gone[u]
    BY <2>1 DEF Publish
  <2> QED BY <2>1, <2>2, <2>3 DEF PendingInv
<1> QED BY <1>1, <1>2

(* A rollback keeps PendingInv.                                            *)
LEMMA PendingAbort ==
  ASSUME BaseInv, PendingInv, NEW t \in Tx, Rollback(t), End(t)
  PROVE  PendingInv'
<1> SUFFICES ASSUME NEW u \in Tx, NEW d \in Denorm, Changed(u, d)',
                    Owner[d] \in live' \ gone'[u],
                    u \in Workers => Owner[d] # obj'[u]
             PROVE  d \in ins'[u] \cup coal'[u] \cup todo'[u]
  BY DEF PendingInv
<1>0. val' = val /\ live' = live /\ Db' = Db
  BY DEF Rollback, dbVars, Db
<1>1. CASE u = t
  <2>1. buf'[t] = NoCells /\ gone'[t] = {}
    BY DEF End, BaseInv, TypeOK
  <2>2. View(t)' = Db'
    BY <2>1 DEF View, Db, NoCells
  <2> QED BY <1>1, <2>2 DEF Changed
<1>2. CASE u # t
  <2>1. /\ ins'[u] = ins[u] /\ coal'[u] = coal[u] /\ todo'[u] = todo[u]
        /\ obj'[u] = obj[u] /\ gone'[u] = gone[u] /\ buf'[u] = buf[u]
    BY <1>2 DEF End, BaseInv, TypeOK
  <2>2. View(u)' = View(u)
    BY <1>0, <2>1 DEF View
  <2> QED BY <1>0, <2>1, <2>2 DEF PendingInv, Changed
<1> QED BY <1>1, <1>2

(* A statement of t that changes some cells fires the markers of the       *)
(* functions that read them.                                               *)
LEMMA PendingStatement ==
  ASSUME BaseInv, PendingInv, NEW t \in Tx, NEW C,
         todo[t] = {}, UNCHANGED <<val, live, ins, coal, obj>>,
         \A u \in Tx \ {t} : buf'[u] = buf[u] /\ gone'[u] = gone[u]
                               /\ todo'[u] = todo[u],
         gone[t] \subseteq gone'[t],
         \A c \in Cells \ C : View(t)'[c] = View(t)[c],
         \A d \in Denorm : d \in Fired(t, C) /\ Owner[d] \notin gone'[t]
                              => d \in todo'[t]
  PROVE  PendingInv'
<1> SUFFICES ASSUME NEW u \in Tx, NEW d \in Denorm, Changed(u, d)',
                    Owner[d] \in live' \ gone'[u],
                    u \in Workers => Owner[d] # obj'[u]
             PROVE  d \in ins'[u] \cup coal'[u] \cup todo'[u]
  BY DEF PendingInv
<1>1. Db' = Db
  BY DEF Db
<1>2. CASE u # t
  <2>1. View(u)' = View(u)
    BY <1>2 DEF View
  <2> QED BY <1>1, <1>2, <2>1 DEF PendingInv, Changed
<1>3. CASE u = t
  <2>1. PICK c \in Reads[d] : View(t)'[c] # Db[c]
    BY <1>1, <1>3 DEF Changed
  <2>2. c \in Cells /\ c \in Watches[d]
    BY DependencyAssumption
  <2>3. CASE c \in C
    BY <1>3, <2>2, <2>3 DEF Fired, FiredOnOthers, FiredOnSelf
  <2>4. CASE c \notin C
    <3>1. Changed(t, d)
      BY <2>1, <2>2, <2>4 DEF Changed
    <3> QED BY <1>3, <3>1 DEF PendingInv
  <2> QED BY <2>3, <2>4
<1> QED BY <1>2, <1>3

(* Every step keeps PendingInv.                                            *)
LEMMA PendingStep == IInv /\ [Next]_vars => PendingInv'
<1> SUFFICES ASSUME IInv, [Next]_vars PROVE PendingInv'
  OBVIOUS
<1> USE DEF IInv, BaseInv
<1>1. CASE Next
  <2>1. ASSUME NEW t \in Writers, WriterStatement(t)
        PROVE  PendingInv'
    <3>1. \A x \in Workers : obj'[x] = obj[x]
      BY <2>1, SortAssumption DEF WriterStatement, TypeOK
    <3> QED BY <2>1, <3>1, PendingFrame DEF WriterStatement, dbVars, writeVars
  <2>2. ASSUME NEW t \in Writers, WriterNoRow(t)
        PROVE  PendingInv'
    BY <2>2, PendingFrame DEF WriterNoRow, dbVars, writeVars, localVars, TypeOK
  <2>3. ASSUME NEW t \in Writers, WriterUpdate(t)
        PROVE  PendingInv'
    <3>1. PICK c \in Plain, v \in Value :
            /\ buf' = [buf EXCEPT ![t][c] = v]
            /\ todo' = [todo EXCEPT ![t] = Fired(t, {c})]
      BY <2>3 DEF WriterUpdate
    <3>2. UNCHANGED <<val, live, ins, coal, obj, gone>>
      BY <2>3 DEF WriterUpdate, dbVars, localVars
    <3>3. t \in Tx /\ todo[t] = {}
      BY <2>3 DEF WriterUpdate, Grant, StageInv, Tx
    <3>4. \A x \in Cells \ {c} : View(t)'[x] = View(t)[x]
      BY <3>1, <3>2, <3>3 DEF View, TypeOK
    <3>5. todo'[t] = Fired(t, {c})
      BY <3>1, <3>3 DEF TypeOK
    <3>6. \A u \in Tx \ {t} : buf'[u] = buf[u] /\ gone'[u] = gone[u]
                               /\ todo'[u] = todo[u]
      BY <3>1, <3>2, <3>3 DEF TypeOK
    <3> QED BY <3>2, <3>3, <3>4, <3>5, <3>6, PendingStatement
  <2>4. ASSUME NEW t \in Writers, WriterDelete(t)
        PROVE  PendingInv'
    <3> DEFINE C == {c \in Cells : Owner[c] = obj[t]}
    <3>1. /\ gone' = [gone EXCEPT ![t] = @ \cup {obj[t]}]
          /\ todo' = [todo EXCEPT ![t] = Fired(t, C) \ DenormOf(obj[t])]
          /\ UNCHANGED <<val, live, ins, coal, obj, buf>>
      BY <2>4 DEF WriterDelete, dbVars, localVars
    <3>2. t \in Tx /\ todo[t] = {}
      BY <2>4 DEF WriterDelete, Grant, StageInv, Tx
    <3>3. gone'[t] = gone[t] \cup {obj[t]}
      BY <3>1, <3>2 DEF TypeOK
    <3>4. \A x \in Cells \ C : View(t)'[x] = View(t)[x]
      BY <3>1, <3>2, <3>3 DEF View
    <3>5. \A d \in Denorm : d \in Fired(t, C) /\ Owner[d] \notin gone'[t]
                              => d \in todo'[t]
      BY <3>1, <3>2, <3>3 DEF TypeOK, DenormOf
    <3>6. \A u \in Tx \ {t} : buf'[u] = buf[u] /\ gone'[u] = gone[u]
                               /\ todo'[u] = todo[u]
      BY <3>1, <3>2 DEF TypeOK
    <3> HIDE DEF C
    <3> QED BY <3>1, <3>2, <3>3, <3>4, <3>5, <3>6, PendingStatement
  <2>5. ASSUME NEW t \in Writers, MarkDirty(t)
        PROVE  PendingInv'
    <3>1. t \in Tx /\ todo[t] = {}
      BY <2>5 DEF MarkDirty, Ready, Tx
    <3>2. PICK o \in Objects : todo' = [todo EXCEPT ![t] = {o}]
      BY <2>5 DEF MarkDirty
    <3>3. \A u \in Tx, d \in Denorm : d \in todo[u] => d \in todo'[u]
      BY <3>1, <3>2 DEF TypeOK
    <3> QED BY <2>5, <3>3, PendingFrame DEF MarkDirty, dbVars, localVars
  <2>6. ASSUME NEW t \in Writers, WriterCommit(t)
        PROVE  PendingInv'
    BY <2>6, PendingCommit DEF WriterCommit, Tx
  <2>7. ASSUME NEW w \in Workers, Pick(w)
        PROVE  PendingInv'
    <3>1. View(w) = Db
      BY <2>7, CleanView DEF Pick, StageInv, Before, Tx
    <3>2. \A x \in Workers : obj'[x] = obj[x] \/ View(x) = Db
      BY <2>7, <3>1 DEF Pick, TypeOK
    <3> QED BY <2>7, <3>2, PendingFrame DEF Pick, dbVars, writeVars
  <2>8. ASSUME NEW w \in Workers, SelectForUpdate(w)
        PROVE  PendingInv'
    BY <2>8, PendingFrame DEF SelectForUpdate, Unlocked, dbVars, writeVars, localVars, TypeOK
  <2>9. ASSUME NEW w \in Workers, LockedElsewhere(w)
        PROVE  PendingInv'
    BY <2>9, PendingAbort DEF LockedElsewhere, Tx
  <2>10. ASSUME NEW w \in Workers, RowDeleted(w)
        PROVE  PendingInv'
    BY <2>10, PendingFrame DEF RowDeleted, dbVars, writeVars, localVars, TypeOK
  <2>11. ASSUME NEW w \in Workers, OrphanClaim(w)
        PROVE  PendingInv'
    <3>1. Claimable(w, obj[w]) \subseteq KeysOf(obj[w]) /\ obj[w] \in Objects
      BY <2>11 DEF OrphanClaim, Claimable, TypeOK, Tx
    <3>2. /\ DeleteMarkers(w, Claimable(w, obj[w]))
          /\ UNCHANGED <<val, live, buf, gone, todo, obj>>
      BY <2>11 DEF OrphanClaim, dbVars, localVars
    <3> QED BY <3>1, <3>2, PendingClaim
  <2>12. ASSUME NEW w \in Workers, Claim(w)
        PROVE  PendingInv'
    <3>1. Claimable(w, obj[w]) \subseteq KeysOf(obj[w]) /\ obj[w] \in Objects
      BY <2>12 DEF Claim, Claimable, TypeOK, Tx
    <3>2. /\ DeleteMarkers(w, Claimable(w, obj[w]))
          /\ UNCHANGED <<val, live, buf, gone, todo, obj>>
      BY <2>12 DEF Claim, ClaimAndSave, dbVars, localVars
    <3> QED BY <3>1, <3>2, PendingClaim
  <2>13. ASSUME NEW w \in Workers, PreSave(w)
        PROVE  PendingInv'
    BY <2>13, PendingFrame DEF PreSave, dbVars, writeVars, localVars, TypeOK
  <2>14. ASSUME NEW w \in Workers, Update(w)
        PROVE  PendingInv'
    <3> DEFINE C == {c \in fields[w] : new[w][c] # View(w)[c]}
    <3>1. /\ buf' = [buf EXCEPT ![w] =
               [c \in Cells |-> IF c \in fields[w] THEN new[w][c] ELSE buf[w][c]]]
          /\ todo' = [todo EXCEPT ![w] = Fired(w, C)]
          /\ UNCHANGED <<val, live, ins, coal, obj, gone>>
          /\ pc[w] = "save"
          /\ \A d \in fields[w] : new[w][d] # None
      BY <2>14 DEF Update, dbVars
    <3>2. w \in Tx /\ todo[w] = {} /\ fields[w] \subseteq DenormOf(obj[w])
      BY <3>1 DEF StageInv, Tx
    <3>3. obj[w] \in live /\ gone[w] = {}
      BY <3>1 DEF LockInv, Holding
    <3>4. \A x \in Cells \ C : View(w)'[x] = View(w)[x]
      BY <3>1, <3>2, <3>3 DEF View, TypeOK, DenormOf
    <3>5. todo'[w] = Fired(w, C)
      BY <3>1, <3>2 DEF TypeOK
    <3>6. \A u \in Tx \ {w} : buf'[u] = buf[u] /\ gone'[u] = gone[u]
                               /\ todo'[u] = todo[u]
      BY <3>1, <3>2 DEF TypeOK
    <3> HIDE DEF C
    <3> QED BY <3>1, <3>2, <3>4, <3>5, <3>6, PendingStatement
  <2>15. ASSUME NEW w \in Workers, PostSave(w)
        PROVE  PendingInv'
    <3>1. SelfMarkers(w) \subseteq KeysOf(obj[w]) /\ obj[w] \in Objects
      BY <2>15 DEF PostSave, SelfMarkers, StageInv, KeysOf, TypeOK, Tx
    <3>2. /\ DeleteMarkers(w, SelfMarkers(w))
          /\ UNCHANGED <<val, live, buf, gone, todo, obj>>
      BY <2>15 DEF PostSave, dbVars, localVars
    <3> QED BY <3>1, <3>2, PendingClaim
  <2>16. ASSUME NEW w \in Workers, Reclaim(w)
        PROVE  PendingInv'
    <3>1. Claimable(w, obj[w]) \subseteq KeysOf(obj[w]) /\ obj[w] \in Objects
      BY <2>16 DEF Reclaim, Claimable, TypeOK, Tx
    <3>2. /\ DeleteMarkers(w, Claimable(w, obj[w]))
          /\ UNCHANGED <<val, live, buf, gone, todo, obj>>
      BY <2>16 DEF Reclaim, ClaimAndSave, dbVars, localVars
    <3> QED BY <3>1, <3>2, PendingClaim
  <2>17. ASSUME NEW w \in Workers, WorkerCommit(w)
        PROVE  PendingInv'
    BY <2>17, PendingCommit DEF WorkerCommit, Tx
  <2>18. ASSUME NEW t \in Tx, InsertMarker(t)
        PROVE  PendingInv'
    <3>1. PICK k \in todo[t] :
            /\ todo' = [todo EXCEPT ![t] = @ \ {k}]
            /\ \/ k \in ins[t] /\ ins' = ins /\ coal' = coal
               \/ coal' = [coal EXCEPT ![t] = @ \cup {k}] /\ ins' = ins
               \/ ins' = [ins EXCEPT ![t] = @ \cup {k}] /\ coal' = coal
      BY <2>18 DEF InsertMarker
    <3>2. \A u \in Tx, d \in Denorm :
            d \in ins[u] \cup coal[u] \cup todo[u]
            => d \in ins'[u] \cup coal'[u] \cup todo'[u]
      BY <3>1 DEF TypeOK
    <3> QED BY <2>18, <3>2, PendingFrame DEF InsertMarker, dbVars, localVars
  <2>19. ASSUME NEW t \in Tx, DeadlockAbort(t)
        PROVE  PendingInv'
    BY <2>19, PendingAbort DEF DeadlockAbort, Tx
  <2>20. ASSUME NEW t \in Tx, Crash(t)
        PROVE  PendingInv'
    BY <2>20, PendingAbort DEF Crash, Tx
  <2>21. QED
    BY <1>1, <2>1, <2>2, <2>3, <2>4, <2>5, <2>6, <2>7, <2>8, <2>9, <2>10, <2>11, <2>12, <2>13, <2>14, <2>15, <2>16, <2>17, <2>18, <2>19, <2>20 DEF Next, WriterStep, WorkerStep
<1>2. CASE UNCHANGED vars
  BY <1>2, PendingFrame DEF vars
<1> QED BY <1>1, <1>2

-----------------------------------------------------------------------------
(* One worker and the row it flushes.                                      *)

(* A step of another actor leaves the transaction of w alone, and commits  *)
(* or leaves the database alone.                                           *)
LEMMA OtherStep ==
  ASSUME BaseInv, NEW t \in Tx, Step(t), NEW w \in Workers, w # t
  PROVE  /\ Commits(t) \/ UNCHANGED dbVars
         /\ buf'[w] = buf[w] /\ gone'[w] = gone[w] /\ ins'[w] = ins[w]
         /\ del'[w] = del[w] /\ todo'[w] = todo[w] /\ pc'[w] = pc[w]
         /\ obj'[w] = obj[w] /\ fields'[w] = fields[w] /\ new'[w] = new[w]
<1> DEFINE Same == /\ buf'[w] = buf[w] /\ gone'[w] = gone[w] /\ ins'[w] = ins[w]
                   /\ del'[w] = del[w] /\ todo'[w] = todo[w] /\ pc'[w] = pc[w]
                   /\ obj'[w] = obj[w] /\ fields'[w] = fields[w]
                   /\ new'[w] = new[w]
<1>0. w \in Tx /\ TypeOK
  BY DEF Tx, BaseInv
<1>1. ASSUME End(t) PROVE Same
  BY <1>0, <1>1 DEF End, TypeOK
<1>2. CASE t \in Writers /\ WriterStep(t)
  <2>1. CASE WriterStatement(t)
    BY <1>0, <2>1 DEF WriterStatement, Ready, writeVars, TypeOK
  <2>2. CASE WriterNoRow(t)
    BY <1>0, <2>2 DEF WriterNoRow, writeVars, localVars, TypeOK
  <2>3. CASE WriterUpdate(t)
    BY <1>0, <2>3 DEF WriterUpdate, Grant, localVars, TypeOK
  <2>4. CASE WriterDelete(t)
    BY <1>0, <2>4 DEF WriterDelete, Grant, localVars, TypeOK
  <2>5. CASE MarkDirty(t)
    BY <1>0, <2>5 DEF MarkDirty, Ready, localVars, TypeOK
  <2>6. CASE WriterCommit(t)
    BY <1>1, <1>2, <2>6, SortAssumption DEF WriterCommit, Commits
  <2> QED BY <1>2, <2>1, <2>2, <2>3, <2>4, <2>5, <2>6 DEF WriterStep
<1>3. CASE t \in Workers /\ (Pick(t) \/ WorkerStep(t))
  <2>1. CASE Pick(t)
    BY <1>0, <2>1 DEF Pick, writeVars, TypeOK
  <2>2. CASE SelectForUpdate(t)
    BY <1>0, <2>2 DEF SelectForUpdate, Unlocked, writeVars, localVars, TypeOK
  <2>3. CASE LockedElsewhere(t)
    BY <1>1, <2>3 DEF LockedElsewhere, Rollback
  <2>4. CASE RowDeleted(t)
    BY <1>0, <2>4 DEF RowDeleted, writeVars, localVars, TypeOK
  <2>5. CASE OrphanClaim(t)
    BY <1>0, <2>5 DEF OrphanClaim, DeleteMarkers, localVars, TypeOK
  <2>6. CASE Claim(t)
    BY <1>0, <2>6 DEF Claim, ClaimAndSave, DeleteMarkers, TypeOK
  <2>7. CASE PreSave(t)
    BY <1>0, <2>7 DEF PreSave, writeVars, TypeOK
  <2>8. CASE Update(t)
    BY <1>0, <2>8 DEF Update, TypeOK
  <2>9. CASE PostSave(t)
    BY <1>0, <2>9 DEF PostSave, SelfMarkers, LastPass, DeleteMarkers, TypeOK
  <2>10. CASE Reclaim(t)
    BY <1>0, <2>10 DEF Reclaim, ClaimAndSave, DeleteMarkers, TypeOK
  <2>11. CASE WorkerCommit(t)
    <3>1. todo[t] = {} /\ pc[t] = "commit"
      BY <1>3, <2>11 DEF WorkerCommit, BaseInv, StageInv
    <3> QED BY <1>1, <2>11, <3>1 DEF WorkerCommit, Commits
  <2> QED BY <1>3, <2>1, <2>2, <2>3, <2>4, <2>5, <2>6, <2>7, <2>8, <2>9,
             <2>10, <2>11 DEF WorkerStep
<1>4. CASE InsertMarker(t)
  <2>1. /\ \E k \in todo[t] : todo' = [todo EXCEPT ![t] = @ \ {k}]
        /\ ins' = ins \/ \E k \in todo[t] : ins' = [ins EXCEPT ![t] = @ \cup {k}]
        /\ UNCHANGED <<dbVars, buf, gone, del, pc, localVars>>
    BY <1>4 DEF InsertMarker
  <2> QED BY <1>0, <2>1 DEF localVars, TypeOK
<1>5. CASE DeadlockAbort(t)
  BY <1>1, <1>5 DEF DeadlockAbort, Rollback
<1>6. CASE Crash(t)
  BY <1>1, <1>6 DEF Crash, Rollback
<1> QED BY <1>2, <1>3, <1>4, <1>5, <1>6 DEF Step

(* A step that leaves w's view alone, and takes no marker from it.         *)
LEMMA WorkerFrame ==
  ASSUME NEW w \in Workers, StageInv, WorkerInv(w),
         pc'[w] = pc[w], obj'[w] = obj[w], fields'[w] = fields[w],
         new'[w] = new[w], View(w)' = View(w),
         obj[w] \in live' => obj[w] \in live,
         \A d \in Denorm :
            /\ Covered(w, d) => Covered(w, d)'
            /\ d \in todo[w] => d \in todo'[w] \/ Covered(w, d)'
  PROVE  WorkerInv(w)'
<1>1. Memory(w)' = Memory(w)
  BY DEF Memory
<1>2. Row(w)'
  BY DEF WorkerInv, Row, IsStale
<1>3. Fresh(w)'
  BY <1>1 DEF WorkerInv, Fresh
<1>4. SafeFresh(w)'
  BY <1>1 DEF WorkerInv, SafeFresh, IsStale
<1> QED BY <1>2, <1>3, <1>4 DEF WorkerInv

(* Another transaction commits.  What it changes in w's view it marks.     *)
LEMMA WorkerOthersCommit ==
  ASSUME BaseInv, PendingInv, NEW t \in Tx, Commits(t),
         NEW w \in Workers, w # t, WorkerInv(w), TypeOK',
         buf'[w] = buf[w], gone'[w] = gone[w], todo'[w] = todo[w],
         pc'[w] = pc[w], obj'[w] = obj[w], fields'[w] = fields[w],
         new'[w] = new[w]
  PROVE  WorkerInv(w)'
<1>1. CASE pc[w] \in {"save", "post", "again", "commit"} /\ obj[w] \in live
  <2>1. lock[obj[w]] = w
    BY <1>1 DEF BaseInv, LockInv, Holding
  <2> DEFINE Own == {d \in Denorm : Owner[d] = obj[w]}
  <2>2. \A d \in Own :
          /\ Covered(w, d) => Covered(w, d)'
          /\ \A c \in Reads[d] : View(w)'[c] # View(w)[c] => Covered(w, d)'
          /\ \A c \in Cells : Owner[c] = obj[w] => View(w)'[c] = View(w)[c]
    BY <1>1, <2>1, OthersCommit DEF Commits
  <2>3. TypeOK /\ TypeOK' /\ w \in Tx
    BY DEF BaseInv, Tx
  <2>4. /\ View(w) \in [Cells -> Seen] /\ View(w)' \in [Cells -> Seen]
        /\ Memory(w) \in [Cells -> Seen] /\ Memory(w)' \in [Cells -> Seen]
    <3>1. View(w) \in [Cells -> Seen] /\ Memory(w) \in [Cells -> Seen]
      BY <2>3, ViewType, MemoryType
    <3>2. View(w)' \in [Cells -> Seen]
      BY <2>3, SortAssumption, DependencyAssumption DEF TypeOK, View, Seen
    <3>3. Memory(w)' \in [Cells -> Seen]
      BY <2>3, <3>2 DEF TypeOK, Memory, Seen
    <3> QED BY <3>1, <3>2, <3>3
  <2>5. ASSUME NEW d \in Own, \A c \in Reads[d] : View(w)'[c] = View(w)[c]
        PROVE  /\ Compute(d, View(w)') = Compute(d, View(w))
               /\ Compute(d, Memory(w)') = Compute(d, Memory(w))
    <3>1. \A c \in Reads[d] : c \in Cells
      BY DependencyAssumption
    <3>2. \A c \in Reads[d] : Memory(w)'[c] = Memory(w)[c]
      BY <2>5, <3>1 DEF Memory
    <3> QED BY <2>4, <2>5, <3>2, ComputeLocal
  <2>6. \A d \in Own : d \in Cells /\ View(w)'[d] = View(w)[d]
    BY <2>2 DEF Cells
  <2>7. Row(w)'
    <3> SUFFICES ASSUME NEW d \in Own, FkReads[d] = {}, IsStale(d, View(w)'),
                        ~Covered(w, d)'
                 PROVE  (pc[w] = "save" /\ d \in fields[w]) \/ d \in todo[w]
      BY DEF Row, IsStale
    <3>1. IsStale(d, View(w))
      BY <2>2, <2>5, <2>6 DEF IsStale
    <3> QED BY <1>1, <2>2, <3>1 DEF WorkerInv, Row
  <2>8. Fresh(w)'
    <3> SUFFICES ASSUME NEW d \in Denorm, pc[w] = "save", new[w][d] # None,
                        FkReads[d] = {}, ~Covered(w, d)'
                 PROVE  \/ new[w][d] = Compute(d, Memory(w)')
                        \/ \E c \in Reads[d] :
                             new[w][c] # None /\ new[w][c] # View(w)'[c]
      BY DEF Fresh
    <3>1. d \in Own
      BY DEF BaseInv, StageInv, DenormOf, Cells
    <3> QED BY <2>2, <2>5, <3>1 DEF WorkerInv, Fresh
  <2>9. SafeFresh(w)'
    <3> SUFFICES ASSUME NEW d \in Safe
                 PROVE  /\ pc[w] = "save" /\ new[w][d] # None
                           => new[w][d] = Compute(d, Memory(w)')
                        /\ pc[w] = "post" /\ d \in fields[w]
                           => ~IsStale(d, View(w)')
      BY DEF SafeFresh, IsStale
    <3>1. CASE d \notin Own
      BY <3>1, SafeAssumption DEF BaseInv, StageInv, DenormOf, Cells
    <3>2. CASE d \in Own
      <4>1. \A c \in Reads[d] : View(w)'[c] = View(w)[c]
        BY <2>2, <3>2, SafeAssumption DEF Cells
      <4> QED BY <2>5, <2>6, <3>2, <4>1 DEF WorkerInv, SafeFresh, IsStale
    <3> QED BY <3>1, <3>2
  <2> QED BY <2>7, <2>8, <2>9 DEF WorkerInv
<1>2. CASE obj[w] \notin live
  <2>1. pc[w] \notin {"save", "post", "again"} /\ obj[w] \notin live'
    BY <1>2 DEF BaseInv, LockInv, Holding, Commits, Publish
  <2> QED BY <2>1 DEF WorkerInv, Row, Fresh, SafeFresh
<1>3. CASE pc[w] \notin {"save", "post", "again", "commit"}
  BY <1>3 DEF WorkerInv, Row, Fresh, SafeFresh
<1> QED BY <1>1, <1>2, <1>3

(* Claiming takes every marker of the row that w sees.                     *)
LEMMA ClaimTakes ==
  ASSUME BaseInv, NEW w \in Workers, pc[w] \in {"claim", "again"},
         ClaimAndSave(w), NEW d \in Denorm, Owner[d] = obj[w], Covered(w, d)
  PROVE  d \in lost \/ (pc'[w] = "save" /\ d \in fields'[w])
<1> DEFINE K == Claimable(w, obj[w])
<1>1. obj[w] \in live /\ lock[obj[w]] = w
  BY DEF BaseInv, LockInv, Holding
<1>2. K = KeysOf(obj[w]) \cap Visible(w)
  BY <1>1, OwnKeys DEF Claimable
<1>3. d \in KeysOf(obj[w]) /\ obj[w] \in KeysOf(obj[w])
  BY DEF KeysOf, DenormOf
<1>4. pc' = [pc EXCEPT ![w] = IF K = {} THEN "commit" ELSE "save"]
  BY DEF ClaimAndSave
<1>5. fields' = [fields EXCEPT ![w] = UpdateFields(obj[w], K)]
  BY DEF ClaimAndSave
<1> HIDE DEF K
<1> SUFFICES ASSUME d \notin lost
             PROVE  pc'[w] = "save" /\ d \in fields'[w]
  OBVIOUS
<1>6. K # {} /\ d \in UpdateFields(obj[w], K)
  BY <1>2, <1>3 DEF Covered, UpdateFields, DenormOf
<1> QED BY <1>4, <1>5, <1>6 DEF BaseInv, TypeOK, Tx

(* After a claim nothing is set in memory yet.                             *)
LEMMA WorkerClaim ==
  ASSUME BaseInv, NEW w \in Workers, pc[w] \in {"claim", "again"},
         ClaimAndSave(w), UNCHANGED <<val, live, lost, buf, gone, obj, new>>,
         \A d \in Denorm :
            /\ Owner[d] = obj[w]
            /\ FkReads[d] = {}
            /\ IsStale(d, View(w))
            => Covered(w, d)
  PROVE  WorkerInv(w)'
<1>1. View(w)' = View(w)
  BY DEF View
<1>2. new[w] = NoCells
  BY DEF BaseInv, StageInv
<1>3. pc'[w] \in {"save", "commit"}
  BY DEF ClaimAndSave, BaseInv, TypeOK, Tx
<1>4. Row(w)'
  <2> SUFFICES ASSUME NEW d \in Denorm, Owner[d] = obj[w], FkReads[d] = {},
                      IsStale(d, View(w))
               PROVE  Covered(w, d)' \/ (pc'[w] = "save" /\ d \in fields'[w])
    BY <1>1 DEF Row, IsStale
  <2> QED BY ClaimTakes DEF Covered
<1>5. Fresh(w)' /\ SafeFresh(w)'
  BY <1>2, <1>3, SafeAssumption DEF Fresh, SafeFresh, NoCells, Cells
<1> QED BY <1>4, <1>5 DEF WorkerInv

(* pre_save sets one field in memory.                                      *)
LEMMA WorkerPreSave ==
  ASSUME BaseInv, NEW w \in Workers, PreSave(w), WorkerInv(w)
  PROVE  WorkerInv(w)'
<1>1. PICK e \in fields[w] :
        /\ new[w][e] = None
        /\ new' = [new EXCEPT ![w][e] = Compute(e, Input(w, e))]
  BY DEF PreSave
<1>2. /\ pc[w] = "save" /\ e \in Denorm /\ e \in Cells /\ w \in Tx /\ TypeOK
      /\ UNCHANGED <<val, live, markers, lost, buf, gone, ins, del, todo, pc,
                     obj, fields>>
  BY <1>1 DEF PreSave, BaseInv, TypeOK, Tx, Cells, dbVars, writeVars
<1>3. View(w)' = View(w) /\ \A d \in Denorm : Covered(w, d)' <=> Covered(w, d)
  BY <1>2 DEF View, Covered, Visible
<1>4. /\ Memory(w) \in [Cells -> Seen]
      /\ Input(w, e) \in [Cells -> Seen]
  BY <1>2, MemoryType, InputType
<1>5. Compute(e, Input(w, e)) \in Value /\ None \notin Value
  BY <1>2, <1>4, ComputeAssumption, SortAssumption DEF Seen
<1>6. /\ new'[w][e] = Compute(e, Input(w, e))
      /\ \A c \in Cells \ {e} : new'[w][c] = new[w][c]
  BY <1>1, <1>2 DEF TypeOK
<1>7. /\ Memory(w)'[e] = Compute(e, Input(w, e))
      /\ Memory(w)[e] = View(w)[e]
      /\ \A c \in Cells \ {e} : Memory(w)'[c] = Memory(w)[c]
  BY <1>1, <1>2, <1>3, <1>5, <1>6 DEF Memory
<1>8. Memory(w)' \in [Cells -> Seen]
  BY <1>4, <1>5, <1>7 DEF Memory, Seen
<1>9. ASSUME NEW d \in Denorm, FkReads[d] = {}, new'[w][d] # None,
             \/ d = e
             \/ new[w][d] = Compute(d, Memory(w))
      PROVE  \/ new'[w][d] = Compute(d, Memory(w)')
             \/ e \in Reads[d] /\ new'[w][e] # View(w)[e]
  <2>1. \A c \in Reads[d] : c \in Cells /\ c # d
    BY DependencyAssumption
  <2>2. CASE d = e
    <3>1. Input(w, e) = Memory(w)
      BY <1>4, <1>9, <2>2 DEF Input, Memory
    <3>2. Compute(d, Memory(w)) = Compute(d, Memory(w)')
      BY <1>4, <1>7, <1>8, <2>1, <2>2, ComputeLocal
    <3> QED BY <1>6, <2>2, <3>1, <3>2
  <2>3. CASE d # e /\ (e \notin Reads[d] \/ new'[w][e] = View(w)[e])
    <3>1. \A c \in Reads[d] : Memory(w)'[c] = Memory(w)[c]
      BY <1>6, <1>7, <2>1, <2>3
    <3>2. Compute(d, Memory(w)) = Compute(d, Memory(w)')
      BY <1>4, <1>8, <3>1, ComputeLocal
    <3> QED BY <1>6, <1>9, <2>3, <3>2 DEF Cells
  <2> QED BY <2>2, <2>3
<1>10. Row(w)'
  BY <1>2, <1>3 DEF WorkerInv, Row, IsStale
<1>11. Fresh(w)'
  <2> SUFFICES ASSUME NEW d \in Denorm, new'[w][d] # None, FkReads[d] = {},
                      ~Covered(w, d)
               PROVE  \/ new'[w][d] = Compute(d, Memory(w)')
                      \/ \E c \in Reads[d] :
                           new'[w][c] # None /\ new'[w][c] # View(w)[c]
    BY <1>3 DEF Fresh
  <2>1. CASE d = e \/ new[w][d] = Compute(d, Memory(w))
    BY <1>5, <1>6, <1>9, <2>1
  <2>2. CASE d # e /\ new[w][d] # Compute(d, Memory(w))
    <3>1. new[w][d] # None
      BY <1>6, <2>2 DEF Cells
    <3>2. PICK c \in Reads[d] : new[w][c] # None /\ new[w][c] # View(w)[c]
      BY <1>2, <2>2, <3>1 DEF WorkerInv, Fresh
    <3>3. c \in Cells \ {e}
      BY <1>1, <3>2, DependencyAssumption
    <3> QED BY <1>6, <3>2, <3>3
  <2> QED BY <2>1, <2>2
<1>12. SafeFresh(w)'
  <2> SUFFICES ASSUME NEW d \in Safe, new'[w][d] # None
               PROVE  new'[w][d] = Compute(d, Memory(w)')
    BY <1>2 DEF SafeFresh
  <2>1. d \in Denorm /\ FkReads[d] = {} /\ e \notin Reads[d]
    BY <1>2, SafeAssumption, DependencyAssumption, SortAssumption
  <2>2. d = e \/ new[w][d] = Compute(d, Memory(w))
    BY <1>2, <1>6, <2>1 DEF WorkerInv, SafeFresh, Cells
  <2> QED BY <1>9, <2>1, <2>2
<1> QED BY <1>10, <1>11, <1>12 DEF WorkerInv

(* The UPDATE writes what is in memory, and marks what reads it.           *)
LEMMA WorkerUpdate ==
  ASSUME BaseInv, NEW w \in Workers, Update(w), WorkerInv(w)
  PROVE  WorkerInv(w)'
<1>1. /\ pc[w] = "save" /\ pc'[w] = "post"
      /\ \A d \in fields[w] : new[w][d] # None
      /\ buf' = [buf EXCEPT ![w] =
            [c \in Cells |-> IF c \in fields[w] THEN new[w][c] ELSE buf[w][c]]]
      /\ todo' = [todo EXCEPT ![w] =
            Fired(w, {c \in fields[w] : new[w][c] # View(w)[c]})]
      /\ UNCHANGED <<val, live, markers, lost, gone, ins, del, obj, fields>>
      /\ w \in Tx /\ TypeOK
  BY DEF Update, dbVars, BaseInv, TypeOK, Tx
<1>2. /\ fields[w] \subseteq DenormOf(obj[w])
      /\ todo[w] = {} /\ gone[w] = {} /\ obj[w] \in live
      /\ \A c \in Cells : new[w][c] # None => c \in fields[w]
  BY <1>1 DEF BaseInv, StageInv, LockInv, Holding
<1>3. View(w)' = Memory(w)
  <2>1. buf'[w] = [c \in Cells |-> IF c \in fields[w] THEN new[w][c]
                                   ELSE buf[w][c]]
    BY <1>1 DEF TypeOK
  <2>2. ASSUME NEW c \in Cells PROVE View(w)'[c] = Memory(w)[c]
    BY <1>1, <1>2, <2>1 DEF View, Memory, DenormOf
  <2> QED BY <2>2 DEF View, Memory
<1>4. todo'[w] = Fired(w, {c \in fields[w] : new[w][c] # View(w)[c]})
  BY <1>1 DEF TypeOK
<1>5. ASSUME NEW d \in Denorm, Owner[d] = obj[w],
             NEW c \in Reads[d], Memory(w)[c] # View(w)[c]
      PROVE  d \in todo'[w]
  <2>1. c \in Cells /\ c \in Watches[d]
    BY DependencyAssumption
  <2>2. c \in fields[w] /\ new[w][c] # View(w)[c]
    BY <1>2, <1>5, <2>1 DEF Memory
  <2> QED BY <1>2, <1>4, <1>5, <2>1, <2>2 DEF Fired, FiredOnOthers, FiredOnSelf
<1>6. Row(w)'
  <2> SUFFICES ASSUME NEW d \in Denorm, Owner[d] = obj[w], FkReads[d] = {},
                      IsStale(d, Memory(w)), d \notin todo'[w]
               PROVE  Covered(w, d)
    BY <1>1, <1>3 DEF Row, IsStale, Covered, Visible
  <2>1. \A c \in Reads[d] : Memory(w)[c] = View(w)[c] /\ c \in Cells
    BY <1>5, DependencyAssumption
  <2>2. d \in Cells
    BY DEF Cells
  <2>3. CASE d \in fields[w]
    <3>1. Memory(w)[d] = new[w][d] /\ new[w][d] # None
      BY <1>1, <2>2, <2>3 DEF Memory
    <3>2. \A c \in Reads[d] : new[w][c] # None => new[w][c] = View(w)[c]
      BY <2>1 DEF Memory
    <3> QED BY <1>1, <3>1, <3>2 DEF WorkerInv, Fresh, IsStale
  <2>4. CASE d \notin fields[w]
    <3>1. Memory(w)[d] = View(w)[d]
      BY <1>2, <2>2, <2>4 DEF Memory
    <3>2. Compute(d, Memory(w)) = Compute(d, View(w))
      BY <1>1, <2>1, ViewType, MemoryType, ComputeLocal
    <3> QED BY <1>1, <1>2, <2>4, <3>1, <3>2 DEF WorkerInv, Row, IsStale
  <2> QED BY <2>3, <2>4
<1>7. Fresh(w)'
  BY <1>1 DEF Fresh
<1>8. SafeFresh(w)'
  <2> SUFFICES ASSUME NEW d \in Safe, d \in fields[w]
               PROVE  ~IsStale(d, Memory(w))
    BY <1>1, <1>3 DEF SafeFresh, IsStale
  <2>1. Memory(w)[d] = new[w][d] /\ new[w][d] # None
    BY <1>1, SafeAssumption DEF Memory, Cells
  <2> QED BY <1>1, <2>1 DEF WorkerInv, SafeFresh, IsStale
<1> QED BY <1>6, <1>7, <1>8 DEF WorkerInv

(* What post_save drops was not needed.                                    *)
LEMMA WorkerPostSave ==
  ASSUME BaseInv, NEW w \in Workers, PostSave(w), WorkerInv(w)
  PROVE  WorkerInv(w)'
<1> DEFINE K == SelfMarkers(w)
<1>1. /\ pc[w] = "post" /\ pc'[w] \in {"again", "commit"} /\ todo[w] = {}
      /\ del' = [del EXCEPT ![w] = @ \cup (K \cap markers)]
      /\ ins' = [ins EXCEPT ![w] = @ \ K]
      /\ UNCHANGED <<val, live, markers, lost, buf, gone, todo, obj, fields, new>>
      /\ w \in Tx /\ TypeOK
  BY DEF PostSave, SelfMarkers, LastPass, DeleteMarkers, dbVars, BaseInv, TypeOK, Tx
<1>2. View(w)' = View(w)
  BY <1>1 DEF View
<1>3. ASSUME NEW k, k \in Visible(w), k \notin K PROVE k \in Visible(w)'
  <2> HIDE DEF K
  <2>1. del'[w] = del[w] \cup (K \cap markers) /\ ins'[w] = ins[w] \ K
    BY <1>1 DEF TypeOK
  <2> QED BY <1>1, <1>3, <2>1 DEF Visible
<1>4. Row(w)'
  <2> SUFFICES ASSUME NEW d \in Denorm, obj[w] \in live, Owner[d] = obj[w],
                      FkReads[d] = {}, IsStale(d, View(w))
               PROVE  Covered(w, d)'
    BY <1>1, <1>2 DEF Row, IsStale
  <2>1. Covered(w, d)
    BY <1>1 DEF WorkerInv, Row
  <2>2. d \notin K
    BY <1>1 DEF WorkerInv, SafeFresh, SelfMarkers
  <2>3. obj[w] \notin K
    BY SortAssumption, SafeAssumption, DependencyAssumption DEF Cells, SelfMarkers
  <2> QED BY <1>1, <1>3, <2>1, <2>2, <2>3 DEF Covered
<1> QED BY <1>1, <1>4 DEF WorkerInv, Fresh, SafeFresh

-----------------------------------------------------------------------------
(* Every step is a step of one actor.                                      *)
LEMMA NextStep ==
  ASSUME Next
  PROVE  \E t \in Tx : Step(t)
BY DEF Next, Step, Tx

(* The worker's own steps.                                                 *)
LEMMA WorkerOwnStep ==
  ASSUME IInv, NEW w \in Workers, Step(w)
  PROVE  WorkerInv(w)'
<1> USE DEF IInv
<1>0. TypeOK /\ BaseInv /\ w \in Tx /\ w \notin Writers /\ WorkerInv(w)
  BY SortAssumption DEF BaseInv, Tx
<1>1. ASSUME pc'[w] \in {"idle", "select", "missing", "orphan", "claim"}
      PROVE  WorkerInv(w)'
  BY <1>1 DEF WorkerInv, Row, Fresh, SafeFresh
<1>2. CASE Pick(w)
  BY <1>0, <1>1, <1>2 DEF Pick, TypeOK
<1>3. CASE SelectForUpdate(w)
  BY <1>0, <1>1, <1>3 DEF SelectForUpdate, Unlocked, TypeOK
<1>4. CASE LockedElsewhere(w) \/ WorkerCommit(w) \/ DeadlockAbort(w) \/ Crash(w)
  <2>1. End(w)
    BY <1>4 DEF LockedElsewhere, WorkerCommit, DeadlockAbort, Crash
  <2> QED BY <1>0, <1>1, <2>1 DEF End, TypeOK
<1>5. CASE RowDeleted(w)
  BY <1>0, <1>1, <1>5 DEF RowDeleted, TypeOK
<1>6. CASE OrphanClaim(w)
  <2>1. pc'[w] = "commit" /\ obj'[w] \notin live'
    BY <1>0, <1>6 DEF OrphanClaim, BaseInv, LockInv, TypeOK, dbVars, localVars
  <2> QED BY <2>1 DEF WorkerInv, Row, Fresh, SafeFresh
<1>7. CASE Claim(w)
  <2>1. /\ buf[w] = NoCells /\ gone[w] = {} /\ ins[w] = {} /\ del[w] = {}
        /\ obj[w] \in live /\ pc[w] = "claim"
    BY <1>0, <1>7 DEF Claim, BaseInv, StageInv, LockInv, Before, Holding
  <2>2. View(w) = Db /\ Visible(w) = markers
    BY <1>0, <2>1, CleanView DEF Visible
  <2>3. ASSUME NEW d \in Denorm, Owner[d] = obj[w], FkReads[d] = {},
               IsStale(d, View(w))
        PROVE  Covered(w, d)
    BY <2>1, <2>2, <2>3 DEF NoLostInvalidation, Stale, Marked, Covered
  <2> QED BY <1>0, <1>7, <2>1, <2>3, WorkerClaim DEF Claim, dbVars
<1>8. CASE PreSave(w)
  BY <1>0, <1>8, WorkerPreSave
<1>9. CASE Update(w)
  BY <1>0, <1>9, WorkerUpdate
<1>10. CASE PostSave(w)
  BY <1>0, <1>10, WorkerPostSave
<1>11. CASE Reclaim(w)
  <2>1. obj[w] \in live /\ pc[w] = "again" /\ todo[w] = {}
    BY <1>0, <1>11 DEF Reclaim, BaseInv, StageInv, LockInv, Holding
  <2>2. ASSUME NEW d \in Denorm, Owner[d] = obj[w], FkReads[d] = {},
               IsStale(d, View(w))
        PROVE  Covered(w, d)
    BY <1>0, <2>1, <2>2 DEF WorkerInv, Row
  <2> QED BY <1>0, <1>11, <2>1, <2>2, WorkerClaim DEF Reclaim, dbVars
<1>12. CASE InsertMarker(w)
  <2>1. PICK k \in todo[w] :
          /\ todo' = [todo EXCEPT ![w] = @ \ {k}]
          /\ \/ k \in ins[w] /\ ins' = ins
             \/ k \in markers \ del[w] /\ ins' = ins
             \/ ins' = [ins EXCEPT ![w] = @ \cup {k}]
          /\ UNCHANGED <<val, live, markers, lost, buf, gone, del, pc, obj,
                         fields, new>>
    BY <1>12 DEF InsertMarker, dbVars, localVars
  <2>2. Visible(w) \subseteq Visible(w)'
    BY <1>0, <2>1 DEF Visible, TypeOK
  <2>3. k \in Visible(w)' /\ todo'[w] = todo[w] \ {k}
    BY <1>0, <2>1 DEF Visible, TypeOK
  <2>4. View(w)' = View(w)
    BY <2>1 DEF View
  <2> QED BY <1>0, <2>1, <2>2, <2>3, <2>4, WorkerFrame DEF Covered, BaseInv
<1> QED BY <1>0, <1>2, <1>3, <1>4, <1>5, <1>6, <1>7, <1>8, <1>9, <1>10, <1>11,
           <1>12 DEF Step, WorkerStep

(* Every step keeps every worker's invariant.                              *)
LEMMA WorkerInvStep ==
  IInv /\ [Next]_vars => \A w \in Workers : WorkerInv(w)'
<1> SUFFICES ASSUME IInv, [Next]_vars, NEW w \in Workers
             PROVE  WorkerInv(w)'
  OBVIOUS
<1>0. BaseInv /\ PendingInv /\ WorkerInv(w) /\ TypeOK' /\ StageInv
  BY TypeStep DEF IInv, BaseInv
<1>1. ASSUME NEW t \in Tx, Step(t), t # w
      PROVE  WorkerInv(w)'
  <2>1. /\ Commits(t) \/ UNCHANGED dbVars
        /\ buf'[w] = buf[w] /\ gone'[w] = gone[w] /\ ins'[w] = ins[w]
        /\ del'[w] = del[w] /\ todo'[w] = todo[w] /\ pc'[w] = pc[w]
        /\ obj'[w] = obj[w] /\ fields'[w] = fields[w] /\ new'[w] = new[w]
    BY <1>0, <1>1, OtherStep
  <2>2. CASE Commits(t)
    BY <1>0, <1>1, <2>1, <2>2, WorkerOthersCommit
  <2>3. CASE UNCHANGED dbVars
    <3>1. View(w)' = View(w) /\ Visible(w)' = Visible(w)
      BY <2>1, <2>3 DEF View, Visible, dbVars
    <3> QED BY <1>0, <2>1, <2>3, <3>1, WorkerFrame DEF Covered, dbVars
  <2> QED BY <2>1, <2>2, <2>3
<1>2. CASE Next
  BY <1>1, <1>2, NextStep, WorkerOwnStep
<1>3. CASE UNCHANGED vars
  <2>1. View(w)' = View(w) /\ Visible(w)' = Visible(w)
    BY <1>3 DEF View, Visible, vars
  <2> QED BY <1>0, <1>3, <2>1, WorkerFrame DEF Covered, vars
<1> QED BY <1>2, <1>3

(* IInv holds to begin with: what is stale is marked, as after a rebuild.  *)
LEMMA InitIInv == Init => IInv
<1> SUFFICES ASSUME Init PROVE IInv
  OBVIOUS
<1>1. BaseInv
  BY InitBase
<1>2. \A t \in Tx : View(t) = Db
  BY <1>1, CleanView DEF Init, BaseInv
<1>3. Db = Val0
  BY InitAssumption, DependencyAssumption DEF Init, Db
<1>4. PendingInv
  BY <1>2 DEF PendingInv, Changed
<1>5. \A w \in Workers : WorkerInv(w)
  BY DEF Init, WorkerInv, Row, Fresh, SafeFresh, Tx
<1>6. NoLostInvalidation
  BY <1>3, InitAssumption
  DEF Init, NoLostInvalidation, Stale, IsStale, Marked
<1> QED BY <1>1, <1>4, <1>5, <1>6 DEF IInv

(* Everything of IInv is kept by every step.                               *)
THEOREM Inductive == Spec => []IInv
<1>1. Init => IInv
  BY InitIInv
<1>2. IInv /\ [Next]_vars => IInv'
  <2> SUFFICES ASSUME IInv, [Next]_vars PROVE IInv'
    OBVIOUS
  <2>1. BaseInv'
    BY BaseStep DEF IInv
  <2>2. PendingInv'
    BY PendingStep
  <2>3. \A w \in Workers : WorkerInv(w)'
    BY WorkerInvStep
  <2>4. NoLostInvalidation'
    BY NoLostStep
  <2> QED BY <2>1, <2>2, <2>3, <2>4 DEF IInv
<1> QED BY <1>1, <1>2, PTL DEF Spec

(* No invalidation is lost, whatever writers, workers, crashes and         *)
(* deadlocks interleave, but for the ones a claimed marker has swallowed:  *)
(* for every dependency graph without cached foreign keys on the way.      *)
THEOREM NoLost == Spec => []NoLostInvalidation
<1>1. IInv => NoLostInvalidation
  BY DEF IInv
<1> QED BY <1>1, Inductive, PTL

(* A self-marker post_save drops belongs to a column that is fresh in the  *)
(* transaction that drops it.                                              *)
THEOREM Redundant == Spec => DroppedIsRedundant
<1> DEFINE Dropped ==
      \A w \in Workers, d \in Denorm :
        /\ pc[w] = "post" /\ pc'[w] \in {"again", "commit"}
        /\ d \in Visible(w) /\ d \notin Visible(w)'
        => ~IsStale(d, View(w))
<1>1. IInv /\ [Next]_vars => Dropped
  <2> SUFFICES ASSUME IInv, [Next]_vars, NEW w \in Workers, NEW d \in Denorm,
                      pc[w] = "post", pc'[w] \in {"again", "commit"},
                      d \in Visible(w), d \notin Visible(w)'
               PROVE  ~IsStale(d, View(w))
    OBVIOUS
  <2>0. TypeOK /\ BaseInv /\ w \in Tx /\ WorkerInv(w)
    BY DEF IInv, BaseInv, Tx
  <2>1. PICK t \in Tx : Step(t)
    BY NextStep DEF vars
  <2>2. t = w
    BY <2>0, <2>1, OtherStep
  <2>3. PostSave(w)
    BY <2>0, <2>1, <2>2, SortAssumption
    DEF Step, WorkerStep, Pick, SelectForUpdate, Unlocked, LockedElsewhere, RowDeleted,
        OrphanClaim, Claim, PreSave, Update, Reclaim, WorkerCommit,
        InsertMarker, DeadlockAbort, Crash, End, TypeOK
  <2>4. d \in Safe \cap fields[w]
    BY <2>0, <2>3 DEF PostSave, SelfMarkers, LastPass, DeleteMarkers, Visible, dbVars, TypeOK
  <2> QED BY <2>0, <2>3, <2>4 DEF WorkerInv, SafeFresh, PostSave, SelfMarkers, LastPass
<1>2. IInv /\ [Next]_vars => [Dropped]_vars
  BY <1>1
<1> QED BY <1>2, Inductive, PTL DEF Spec, DroppedIsRedundant

(* While a worker holds a row nobody else changes it: the in-memory        *)
(* instance may be saved again.                                            *)
THEOREM OwnRow == Spec => OwnRowStable
<1> DEFINE Stable ==
      \A w \in Workers, c \in Cells :
        /\ pc[w] \in {"claim", "save", "post", "again"}
        /\ Owner[c] = obj[w]
        => val'[c] = val[c] /\ obj[w] \in live'
<1>1. BaseInv /\ [Next]_vars => Stable
  <2> SUFFICES ASSUME BaseInv, [Next]_vars, NEW w \in Workers, NEW c \in Cells,
                      pc[w] \in {"claim", "save", "post", "again"},
                      Owner[c] = obj[w]
               PROVE  val'[c] = val[c] /\ obj[w] \in live'
    OBVIOUS
  <2>1. w \in Tx /\ lock[obj[w]] = w /\ obj[w] \in live
    BY DEF BaseInv, LockInv, Holding, Tx
  <2>2. CASE UNCHANGED dbVars
    BY <2>1, <2>2 DEF dbVars
  <2>3. ASSUME NEW t \in Tx, Commits(t), t # w
        PROVE  val'[c] = val[c] /\ obj[w] \in live'
    <3>1. buf[t][c] = None /\ obj[w] \notin gone[t]
      BY <2>1, <2>3 DEF BaseInv, LockInv
    <3> QED BY <2>1, <2>3, <3>1 DEF Commits, Publish
  <2>4. ASSUME Step(w)
        PROVE  UNCHANGED dbVars
    BY <2>4, SortAssumption
    DEF Step, WorkerStep, Pick, SelectForUpdate, Unlocked, LockedElsewhere, RowDeleted,
        OrphanClaim, Claim, PreSave, Update, PostSave, Reclaim, WorkerCommit,
        InsertMarker, DeadlockAbort, Crash, Rollback
  <2>5. CASE Next
    BY <2>2, <2>3, <2>4, <2>5, NextStep, OtherStep
  <2>6. CASE UNCHANGED vars
    BY <2>2, <2>6 DEF vars, dbVars
  <2> QED BY <2>5, <2>6
<1>2. BaseInv /\ [Next]_vars => [Stable]_vars
  BY <1>1
<1> QED BY <1>2, BaseInductive, PTL DEF Spec, OwnRowStable

-----------------------------------------------------------------------------
(* The protocol implements the contract of Invalidation *)

(* Only a commit changes what everybody sees.                              *)
LEMMA CommitOrSame ==
  ASSUME BaseInv, NEW t \in Tx, Step(t)
  PROVE  Commits(t) \/ UNCHANGED dbVars
<1>1. CASE t \in Writers /\ WriterCommit(t)
  BY <1>1, SortAssumption DEF WriterCommit, Commits
<1>2. CASE t \in Writers /\ WriterStep(t) /\ ~WriterCommit(t)
  BY <1>2 DEF WriterStep, WriterStatement, WriterNoRow, WriterUpdate,
              WriterDelete, MarkDirty
<1>3. CASE t \in Workers /\ WorkerCommit(t)
  <2>1. todo[t] = {} /\ pc[t] = "commit"
    BY <1>3 DEF WorkerCommit, BaseInv, StageInv
  <2> QED BY <1>3, <2>1 DEF WorkerCommit, Commits
<1>4. CASE t \in Workers /\ (Pick(t) \/ WorkerStep(t)) /\ ~WorkerCommit(t)
  BY <1>4 DEF WorkerStep, Pick, SelectForUpdate, LockedElsewhere, RowDeleted,
              OrphanClaim, Claim, PreSave, Update, PostSave, Reclaim, Rollback
<1>5. CASE InsertMarker(t) \/ DeadlockAbort(t) \/ Crash(t)
  BY <1>5 DEF InsertMarker, DeadlockAbort, Crash, Rollback
<1> QED BY <1>1, <1>2, <1>3, <1>4, <1>5 DEF Step

(* A flush never writes a column of the application's.                     *)
PlainInv == \A w \in Workers, c \in Plain : buf[w][c] = None

(* It is kept by every step.                                               *)
LEMMA PlainStep == TypeOK /\ PlainInv /\ [Next]_vars => PlainInv'
<1> SUFFICES ASSUME TypeOK, PlainInv, [Next]_vars,
                    NEW w \in Workers, NEW c \in Plain
             PROVE  buf'[w][c] = None
  BY DEF PlainInv
<1>0. w \in Tx /\ c \in Cells /\ buf[w][c] = None
  BY DEF PlainInv, Tx, Cells
<1>1. CASE UNCHANGED vars
  BY <1>0, <1>1 DEF vars
<1>2. ASSUME NEW t \in Tx, End(t)
      PROVE  buf'[w][c] = None
  BY <1>0, <1>2 DEF End, NoCells, TypeOK
<1>3. CASE Next
  <2>1. PICK t \in Tx : Step(t)
    BY <1>3, NextStep
  <2>2. CASE t \in Writers /\ WriterStep(t)
    <3>1. t # w
      BY <2>2, SortAssumption
    <3>2. CASE WriterUpdate(t)
      BY <1>0, <3>1, <3>2 DEF WriterUpdate, TypeOK
    <3>3. CASE ~WriterUpdate(t)
      BY <1>0, <1>2, <2>2, <3>3
      DEF WriterStep, WriterStatement, WriterNoRow, WriterDelete, MarkDirty,
          WriterCommit, writeVars
    <3> QED BY <3>2, <3>3
  <2>3. CASE t \in Workers /\ (Pick(t) \/ WorkerStep(t))
    <3>1. CASE Update(t)
      <4>1. c \notin fields[t]
        BY <2>3, SortAssumption DEF TypeOK
      <4>2. buf'[w][c] = buf[w][c]
        BY <1>0, <2>1, <3>1, <4>1 DEF Update, TypeOK
      <4> QED BY <1>0, <4>2
    <3>2. CASE ~Update(t)
      BY <1>0, <1>2, <2>1, <2>3, <3>2
      DEF WorkerStep, Pick, SelectForUpdate, LockedElsewhere, RowDeleted,
          OrphanClaim, Claim, PreSave, PostSave, Reclaim, WorkerCommit, writeVars
    <3> QED BY <3>1, <3>2
  <2>4. CASE InsertMarker(t) \/ DeadlockAbort(t) \/ Crash(t)
    BY <1>0, <1>2, <2>1, <2>4 DEF InsertMarker, DeadlockAbort, Crash
  <2> QED BY <2>1, <2>2, <2>3, <2>4 DEF Step
<1> QED BY <1>1, <1>3

(* The keys of a row are the same in both modules.                         *)
LEMMA SameKeys ==
  ASSUME NEW o
  PROVE  Contract!RowKeys(o) = KeysOf(o)
BY DEF Contract!RowKeys, KeysOf, DenormOf

(* NoLostInvalidation is the promise.                                      *)
LEMMA PromiseKept ==
  ASSUME NoLostInvalidation, NEW d \in Followed
  PROVE  Contract!Covered(d)
<1>1. d \in Denorm /\ d \in Cells /\ FkReads[d] = {}
  BY DEF Followed, Cells
<1>2. Contract!Off(d) => Stale(d)
  BY <1>1 DEF Contract!Off, Stale, Db
<1>3. Marked(d) => Contract!Owed(d)
  BY DEF Marked, Contract!Owed
<1> QED BY <1>1, <1>2, <1>3 DEF NoLostInvalidation, Contract!Covered

(* And so it is after a step.                                              *)
LEMMA PromiseKeptNext ==
  ASSUME NoLostInvalidation', NEW d \in Followed
  PROVE  Contract!Covered(d)'
<1>1. d \in Denorm /\ d \in Cells /\ FkReads[d] = {}
  BY DEF Followed, Cells
<1>2. Contract!Off(d)' => Stale(d)'
  BY <1>1 DEF Contract!Off, Stale, Db
<1>3. Marked(d)' => Contract!Owed(d)'
  BY DEF Marked, Contract!Owed
<1> QED BY <1>1, <1>2, <1>3 DEF NoLostInvalidation, Contract!Covered

(* A commit gives up a lost invalidation only for its marker.              *)
LEMMA LostReplaced ==
  ASSUME NEW t \in Tx, Publish(t)
  PROVE  Contract!NothingForgotten
BY DEF Publish, Visible, Contract!NothingForgotten

(* The commit of an application transaction is a Write.                    *)
LEMMA WriterWrites ==
  ASSUME IInv, NoLostInvalidation', NEW t \in Writers, t \in Tx, Commits(t)
  PROVE  Contract!Write
<1> USE DEF IInv, BaseInv
<1>1. \A d \in Denorm : Db'[d] \in {Db[d], Absent}
  <2> SUFFICES ASSUME NEW d \in Denorm PROVE Db'[d] \in {Db[d], Absent}
    OBVIOUS
  <2>1. d \in Cells /\ buf[t][d] = None
    BY DEF LockInv, Cells
  <2>2. val'[d] = val[d] /\ live' \subseteq live
    BY <2>1 DEF Commits, Publish
  <2> QED BY <2>1, <2>2 DEF Db
<1>2. markers \subseteq markers'
  BY DEF StageInv, Commits, Publish, Visible
<1>3. \A d \in Followed : Contract!Covered(d)'
  BY PromiseKeptNext
<1>4. Contract!NothingForgotten
  BY LostReplaced DEF Commits
<1> QED BY <1>1, <1>2, <1>3, <1>4 DEF Contract!Write

(* The commit of a worker is a Flush of its row.                           *)
LEMMA WorkerFlushes ==
  ASSUME IInv, PlainInv, NoLostInvalidation',
         NEW w \in Workers, w \in Tx, Commits(w)
  PROVE  obj[w] \in Objects /\ Contract!Flush(obj[w])
<1> USE DEF IInv, BaseInv
<1>0. obj[w] \in Objects
  BY DEF TypeOK, Commits
<1>1. live' = live
  BY DEF LockInv, Commits, Publish, TypeOK
<1>2. \A c \in Cells : Owner[c] # obj[w] => Db'[c] = Db[c]
  <2> SUFFICES ASSUME NEW c \in Cells, Owner[c] # obj[w] PROVE Db'[c] = Db[c]
    OBVIOUS
  <2>1. buf[w][c] = None
    BY DEF LockInv
  <2> QED BY <1>1, <2>1 DEF Commits, Publish, Db
<1>3. \A c \in Plain : Db'[c] = Db[c]
  <2> SUFFICES ASSUME NEW c \in Plain PROVE Db'[c] = Db[c]
    OBVIOUS
  <2>1. c \in Cells /\ buf[w][c] = None
    BY DEF PlainInv, Cells, TypeOK
  <2> QED BY <1>1, <2>1 DEF Commits, Publish, Db
<1>4. markers \ markers' \subseteq Contract!RowKeys(obj[w])
  <2>1. del[w] \subseteq KeysOf(obj[w])
    BY DEF StageInv
  <2> QED BY <2>1, SameKeys DEF Commits, Publish, Visible
<1>5. \A d \in Followed : Contract!Covered(d)'
  BY PromiseKeptNext
<1>6. Contract!NothingForgotten
  BY LostReplaced DEF Commits
<1>7. \A d \in Denorm : Owner[d] # obj[w] => Db'[d] = Db[d]
  BY <1>2 DEF Cells
<1> QED BY <1>0, <1>3, <1>4, <1>5, <1>6, <1>7 DEF Contract!Flush

(* Every step of the protocol is a step of the contract, or none at all.   *)
LEMMA StepKeepsContract ==
  ASSUME IInv, PlainInv, NoLostInvalidation', [Next]_vars
  PROVE  [Contract!Next]_(Contract!contract)
<1>1. CASE UNCHANGED dbVars
  <2>1. Db' = Db /\ markers' = markers /\ lost' = lost
    BY <1>1 DEF dbVars, Db
  <2> QED BY <2>1 DEF Contract!contract
<1>2. CASE UNCHANGED vars
  BY <1>1, <1>2 DEF vars, dbVars
<1>3. CASE Next
  <2>1. PICK t \in Tx : Step(t)
    BY <1>3, NextStep
  <2>2. Commits(t) \/ UNCHANGED dbVars
    BY <2>1, CommitOrSame DEF IInv
  <2>3. CASE Commits(t) /\ t \in Writers
    BY <2>1, <2>3, WriterWrites DEF Contract!Next
  <2>4. CASE Commits(t) /\ t \in Workers
    <3>1. obj[t] \in Objects /\ Contract!Flush(obj[t])
      BY <2>1, <2>4, WorkerFlushes
    <3> QED BY <3>1 DEF Contract!Next
  <2> QED BY <1>1, <2>1, <2>2, <2>3, <2>4 DEF Tx
<1> QED BY <1>2, <1>3

(* The protocol implements the contract: for any number of writers,        *)
(* workers and rows and any dependency graph, application commits only add *)
(* markers, and a flush writes and strikes off one row, which it leaves    *)
(* settled (denorms/__init__.py:262-356).                                  *)
THEOREM Implements == Spec => KeepsContract
<1>1. Init => PlainInv
  BY DEF Init, PlainInv, NoCells, Cells, Tx
<1>2. Init => Contract!Init
  <2> SUFFICES ASSUME Init PROVE Contract!Init
    OBVIOUS
  <2>1. NoLostInvalidation
    BY InitIInv DEF IInv
  <2>2. \A d \in Followed : Contract!Covered(d)
    BY <2>1, PromiseKept
  <2> QED BY <2>2 DEF Init, Contract!Init
<1>3. IInv => TypeOK /\ NoLostInvalidation
  BY DEF IInv, BaseInv
<1>4. IInv /\ PlainInv /\ [Next]_vars => PlainInv'
  BY <1>3, PlainStep
<1>5. IInv /\ PlainInv /\ IInv' /\ [Next]_vars
      => [Contract!Next]_(Contract!contract)
  <2> SUFFICES ASSUME IInv, PlainInv, IInv', [Next]_vars
               PROVE  [Contract!Next]_(Contract!contract)
    OBVIOUS
  <2>1. NoLostInvalidation'
    BY DEF IInv
  <2> QED BY <2>1, StepKeepsContract
<1> QED BY <1>1, <1>2, <1>4, <1>5, Inductive, PTL
        DEF Spec, KeepsContract, Contract!Spec

-----------------------------------------------------------------------------
(* Why the contract is worth keeping: whoever keeps it keeps the promise   *)

(* Cells and rows are different things, and every cell has a row.          *)
LEMMA Sorts ==
  /\ Followed \subseteq Denorm
  /\ Owner \in [Plain \cup Denorm -> Objects]
  /\ Objects \cap Denorm = {}
BY SortAssumption, DependencyAssumption DEF Followed, Cells

(* Striking off the markers of one row does not touch another row's.       *)
LEMMA OtherRow ==
  ASSUME NEW o \in Objects, NEW d \in Followed, Owner[d] # o
  PROVE  d \notin Contract!RowKeys(o) /\ Owner[d] \notin Contract!RowKeys(o)
<1>1. d \in Denorm /\ Owner[d] \in Objects
  BY Sorts
<1> QED BY <1>1, Sorts DEF Contract!RowKeys

(* A write keeps the promise.                                              *)
LEMMA ContractWriteKeeps ==
  ASSUME Contract!Promise, Contract!Write
  PROVE  Contract!Promise'
<1> SUFFICES ASSUME NEW d \in Followed PROVE Contract!Covered(d)'
  BY DEF Contract!Promise
<1>1. CASE Contract!Off(d)' /\ ~Contract!Off(d)
  BY <1>1 DEF Contract!Write
<1>2. CASE Contract!Off(d)' /\ Contract!Off(d)
  <2>1. Contract!Owed(d) \/ d \in lost
    BY <1>2 DEF Contract!Promise, Contract!Covered
  <2>2. Contract!Owed(d)' \/ d \in lost'
    BY <2>1 DEF Contract!Write, Contract!NothingForgotten, Contract!Owed
  <2> QED BY <2>2 DEF Contract!Covered
<1> QED BY <1>1, <1>2 DEF Contract!Covered

(* So does the flush of a row.                                             *)
LEMMA ContractFlushKeeps ==
  ASSUME Contract!Promise, NEW o \in Objects, Contract!Flush(o)
  PROVE  Contract!Promise'
<1> SUFFICES ASSUME NEW d \in Followed PROVE Contract!Covered(d)'
  BY DEF Contract!Promise
<1>1. CASE Owner[d] = o \/ (Contract!Off(d)' /\ ~Contract!Off(d))
  BY <1>1 DEF Contract!Flush
<1>2. CASE Owner[d] # o /\ Contract!Off(d)' /\ Contract!Off(d)
  <2>1. Contract!Owed(d) \/ d \in lost
    BY <1>2 DEF Contract!Promise, Contract!Covered
  <2>2. Contract!Owed(d)' \/ d \in lost'
    BY <1>2, <2>1, OtherRow DEF Contract!Flush, Contract!NothingForgotten, Contract!Owed
  <2> QED BY <2>2 DEF Contract!Covered
<1> QED BY <1>1, <1>2 DEF Contract!Covered

(* The contract keeps its promise: a stale cell is owed a recomputation    *)
(* whatever is written and flushed, but for the invalidations it lost      *)
(* (denorms/__init__.py:366-370).                                          *)
THEOREM ContractKeepsPromise == Contract!Spec => []Contract!Promise
<1>1. Contract!Init => Contract!Promise
  BY DEF Contract!Init, Contract!Promise
<1>2. Contract!Promise /\ [Contract!Next]_(Contract!contract) => Contract!Promise'
  <2> SUFFICES ASSUME Contract!Promise, [Contract!Next]_(Contract!contract)
               PROVE  Contract!Promise'
    OBVIOUS
  <2>1. CASE Contract!Write
    BY <2>1, ContractWriteKeeps
  <2>2. ASSUME NEW o \in Objects, Contract!Flush(o) PROVE Contract!Promise'
    BY <2>2, ContractFlushKeeps
  <2>3. CASE UNCHANGED Contract!contract
    BY <2>3 DEF Contract!contract, Contract!Promise, Contract!Covered, Contract!Off,
                Contract!Owed
  <2> QED BY <2>1, <2>2, <2>3 DEF Contract!Next
<1> QED BY <1>1, <1>2, PTL DEF Contract!Spec

(* So the protocol keeps it, for functions that follow no cached foreign   *)
(* key.                                                                    *)
THEOREM PromiseHolds == Spec => []Contract!Promise
BY Implements, ContractKeepsPromise, PTL DEF KeepsContract
=============================================================================
