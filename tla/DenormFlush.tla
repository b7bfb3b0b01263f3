---------------------------- MODULE DenormFlush ----------------------------
(***************************************************************************)
(* The core of django-denorm-iplweb: the DirtyInstance marker table, the   *)
(* database triggers that fill it, and the flush workers that claim the    *)
(* markers of one object, recompute its denormalized columns and commit    *)
(* (denorms/__init__.py: mark_dirty, flush_single,                         *)
(* _claim_and_delete_markers; fields.py: pre_save and the post_save        *)
(* handler).  Several writers (application transactions) and several       *)
(* workers run at once on PostgreSQL READ COMMITTED.                       *)
(*                                                                         *)
(* A row is an object, a column of a row a cell.  A marker is named by     *)
(* what it asks for: a denormalized cell d stands for the marker           *)
(* (content_type, object_id, func_name) of that cell, an object o for the  *)
(* whole-object marker whose func_name is NULL.                            *)
(***************************************************************************)
EXTENDS Naturals

CONSTANTS
    Writers,        \* application transactions' connections
    Workers,        \* flush workers
    Objects,        \* rows of models that own or feed denormalized columns
    Plain,          \* cells written by the application
    Denorm,         \* denormalized cells, written by flush only
    Owner,          \* the row a cell belongs to
    Reads,          \* the cells the function of a denormalized cell reads
    Watches,        \* the cells whose change fires a marker for it
    FkReads,        \* those of Reads it reaches through a cached foreign key
    Deletable,      \* rows the application may delete
    Safe,           \* cells whose self-markers post_save drops
    Value,          \* what a column may hold
    Absent,         \* what a function sees of a row that is not there
    None,           \* "no value"
    Compute(_, _),  \* the user's function of a cell, applied to a view
    Val0,           \* the committed columns to begin with
    Markers0,       \* the committed markers to begin with
    MaxPasses,      \* DENORM_MAX_CONVERGE_PASSES
    MaxOps,         \* bound: statements of each writer
    MaxCrashes      \* bound: transactions lost to a crash

Tx == Writers \cup Workers
Cells == Plain \cup Denorm
Keys == Denorm \cup Objects
Seen == Value \cup {Absent}
DenormOf(o) == {d \in Denorm : Owner[d] = o}
EveryKey(o) == Denorm \cup Objects
KeysOf(o) == DenormOf(o) \cup {o}
NoCells == [c \in Cells |-> None]

IsStale(d, view) == view[d] # Compute(d, view)

(* Actors, cells and objects are different things.                         *)
ASSUME SortAssumption ==
    /\ Writers \cap Workers = {}
    /\ Plain \cap Denorm = {}
    /\ Objects \cap Cells = {}
    /\ None \notin Seen \cup Objects \cup Tx
    /\ Absent \notin Value

(* A function's triggers watch what it reads, except its own column        *)
(* (denorms/callback.py:101-109), which it may not read.                   *)
ASSUME DependencyAssumption ==
    /\ Owner \in [Cells -> Objects]
    /\ Reads \in [Denorm -> SUBSET Cells]
    /\ Watches \in [Denorm -> SUBSET Cells]
    /\ FkReads \in [Denorm -> SUBSET Cells]
    /\ \A d \in Denorm :
        /\ Reads[d] \subseteq Watches[d]
        /\ d \notin Watches[d]
        /\ FkReads[d] \subseteq {c \in Reads[d] : Owner[c] # Owner[d]}

(* fields.py:34-73: every dependency of a safe function is a plain column  *)
(* of its own row.                                                         *)
ASSUME SafeAssumption ==
    /\ Safe \subseteq Denorm
    /\ \A d \in Safe : Reads[d] \subseteq {c \in Plain : Owner[c] = Owner[d]}

(* A denormalized function is deterministic in the cells it reads.         *)
ASSUME ComputeAssumption ==
    \A d \in Denorm, v \in [Cells -> Seen] :
        /\ Compute(d, v) \in Value
        /\ \A w \in [Cells -> Seen] :
            (\A c \in Reads[d] : v[c] = w[c]) => Compute(d, v) = Compute(d, w)

(* What is stale to begin with is marked, as after denorm_rebuild.         *)
ASSUME InitAssumption ==
    /\ Val0 \in [Cells -> Value]
    /\ Markers0 \subseteq Keys
    /\ \A d \in Denorm :
        IsStale(d, Val0) => d \in Markers0 \/ Owner[d] \in Markers0

ASSUME BoundAssumption ==
    /\ MaxPasses \in Nat \ {0}
    /\ MaxOps \in Nat
    /\ MaxCrashes \in Nat

VARIABLES
    (* committed database *)
    val,        \* columns
    live,       \* rows that exist
    markers,    \* table denorm_dirtyinstance
    lock,       \* row lock owner
    (* uncommitted work of each transaction *)
    buf,        \* columns written
    gone,       \* rows deleted
    ins,        \* markers inserted
    del,        \* committed markers deleted
    coal,       \* inserts that found a committed marker: ON CONFLICT DO NOTHING
    todo,       \* marker inserts of the last statement's triggers, still to run
    (* local state of each transaction *)
    pc,
    obj,        \* the row its current statement is about
    ops,        \* statements a writer has run
    fields,     \* update_fields of a worker's save
    new,        \* values pre_save has set on the in-memory instance
    cache,      \* related instances cached on it by foreign-key access
    left,       \* convergence passes left
    (* history *)
    lost,       \* invalidations swallowed by a marker that was claimed first
    crashes

dbVars == <<val, live, markers, lost>>
writeVars == <<buf, gone, ins, del, coal, todo>>
localVars == <<obj, fields, new, cache, left>>
vars == <<val, live, markers, lock, buf, gone, ins, del, coal, todo,
          pc, obj, ops, fields, new, cache, left, lost, crashes>>

-----------------------------------------------------------------------------
(* Visibility under READ COMMITTED *)

Db == [c \in Cells |-> IF Owner[c] \in live THEN val[c] ELSE Absent]

(* The database as a statement of t sees it.                               *)
View(t) ==
    [c \in Cells |->
        IF Owner[c] \notin live \ gone[t] THEN Absent
        ELSE IF buf[t][c] # None THEN buf[t][c] ELSE val[c]]

Visible(t) == (markers \ del[t]) \cup ins[t]

(* The in-memory instance over the database.                               *)
Memory(w) ==
    [c \in Cells |-> IF new[w][c] # None THEN new[w][c] ELSE View(w)[c]]

(* What the function of d sees: a related instance fetched earlier is not  *)
(* fetched again.                                                          *)
Input(w, d) ==
    [c \in Cells |->
        IF c \in FkReads[d] /\ cache[w][c] # None THEN cache[w][c]
        ELSE Memory(w)[c]]

(* Markers SELECT ... FOR UPDATE SKIP LOCKED can take.                     *)
Claimable(w, o) ==
    {k \in KeysOf(o) \cap Visible(w) : \A t \in Tx \ {w} : k \notin del[t]}

(* The markers a change of the cells C by t fires: a nested SELECT of the  *)
(* rows t sees for the functions of other rows, NEW.pk for those of the    *)
(* row itself.                                                             *)
FiredOnOthers(t, C) ==
    {d \in Denorm :
        /\ \E c \in C : c \in Watches[d] /\ Owner[c] # Owner[d]
        /\ Owner[d] \in live \ gone[t]}

FiredOnSelf(t, C) ==
    {d \in Denorm :
        /\ \E c \in C : c \in Watches[d] /\ Owner[c] = Owner[d]
        /\ Owner[d] \in live \ gone[t]}

Fired(t, C) == FiredOnOthers(t, C) \cup FiredOnSelf(t, C)

(* k has an uncommitted insert or delete: the unique index makes a         *)
(* conflicting insert wait for that transaction.                           *)
Held(k, u) == k \in ins[u] \cup del[u]

Blocked(t, k) == \E u \in Tx \ {t} : Held(k, u)

-----------------------------------------------------------------------------
(* Transactions *)

Init ==
    /\ val = Val0
    /\ live = Objects
    /\ markers = Markers0
    /\ lock = [o \in Objects |-> None]
    /\ buf = [t \in Tx |-> NoCells]
    /\ gone = [t \in Tx |-> {}]
    /\ ins = [t \in Tx |-> {}]
    /\ del = [t \in Tx |-> {}]
    /\ coal = [t \in Tx |-> {}]
    /\ todo = [t \in Tx |-> {}]
    /\ pc = [t \in Tx |-> "idle"]
    /\ obj = [t \in Tx |-> None]
    /\ ops = [t \in Writers |-> 0]
    /\ fields = [w \in Workers |-> {}]
    /\ new = [w \in Workers |-> NoCells]
    /\ cache = [w \in Workers |-> NoCells]
    /\ left = [w \in Workers |-> 0]
    /\ lost = {}
    /\ crashes = 0

(* The transaction of t ends, committed or not: its locks and its local    *)
(* state go.                                                               *)
End(t) ==
    /\ lock' = [o \in Objects |-> IF lock[o] = t THEN None ELSE lock[o]]
    /\ buf' = [buf EXCEPT ![t] = NoCells]
    /\ gone' = [gone EXCEPT ![t] = {}]
    /\ ins' = [ins EXCEPT ![t] = {}]
    /\ del' = [del EXCEPT ![t] = {}]
    /\ coal' = [coal EXCEPT ![t] = {}]
    /\ todo' = [todo EXCEPT ![t] = {}]
    /\ pc' = [pc EXCEPT ![t] = "idle"]
    /\ obj' = [obj EXCEPT ![t] = None]
    /\ fields' = [w \in Workers |-> IF w = t THEN {} ELSE fields[w]]
    /\ new' = [w \in Workers |-> IF w = t THEN NoCells ELSE new[w]]
    /\ cache' = [w \in Workers |-> IF w = t THEN NoCells ELSE cache[w]]
    /\ left' = [w \in Workers |-> IF w = t THEN 0 ELSE left[w]]

(* The swallowed inserts of t whose marker has since been claimed: the     *)
(* recomputation they relied on may not have seen what t now commits.      *)
Swallowed(t) ==
    {k \in coal[t] :
        \/ k \notin Visible(t)
        \/ \E u \in Tx \ {t} : k \in del[u]}

(* COMMIT makes the columns, the deletions and the markers of t visible.   *)
Publish(t) ==
    /\ val' = [c \in Cells |-> IF buf[t][c] # None THEN buf[t][c] ELSE val[c]]
    /\ live' = live \ gone[t]
    /\ markers' = Visible(t)
    /\ lost' = (lost \cup Swallowed(t)) \ ins[t]

(* A rolled back or crashed transaction leaves nothing behind.             *)
Rollback(t) == UNCHANGED dbVars

(* One trigger insert, INSERT ... ON CONFLICT DO NOTHING                   *)
(* (db/triggers.py:34-51), or one row of mark_dirty's bulk_create.         *)
InsertMarker(t) ==
    \E k \in todo[t] :
        /\ ~Blocked(t, k)
        /\ todo' = [todo EXCEPT ![t] = @ \ {k}]
        /\ \/ /\ k \in ins[t]
              /\ UNCHANGED <<ins, coal>>
           \/ /\ k \notin ins[t]
              /\ k \in markers \ del[t]
              /\ coal' = [coal EXCEPT ![t] = @ \cup {k}]
              /\ UNCHANGED ins
           \/ /\ k \notin Visible(t)
              /\ ins' = [ins EXCEPT ![t] = @ \cup {k}]
              /\ UNCHANGED coal
        /\ UNCHANGED <<dbVars, lock, buf, gone, del, pc, localVars, ops, crashes>>

-----------------------------------------------------------------------------
(* Writers: application transactions that change rows behind the ORM's     *)
(* back (QuerySet.update, raw SQL), so that only the triggers see it.      *)

(* The last statement and its triggers are done, another may start.        *)
Ready(t) ==
    /\ pc[t] \in {"idle", "open"}
    /\ todo[t] = {}
    /\ ops[t] < MaxOps
    /\ ops' = [ops EXCEPT ![t] = @ + 1]

(* A statement on row o asks for the row's lock.                           *)
WriterStatement(t) ==
    /\ Ready(t)
    /\ pc' = [pc EXCEPT ![t] = "lock"]
    /\ \E o \in Objects : obj' = [obj EXCEPT ![t] = o]
    /\ UNCHANGED <<dbVars, lock, writeVars, fields, new, cache, left, crashes>>

(* The statement finds no row: it was deleted while it waited.             *)
WriterNoRow(t) ==
    /\ pc[t] = "lock"
    /\ obj[t] \notin live \ gone[t]
    /\ pc' = [pc EXCEPT ![t] = "open"]
    /\ UNCHANGED <<dbVars, lock, writeVars, localVars, ops, crashes>>

(* The row is there and no other transaction locks it.                     *)
Grant(t) ==
    /\ pc[t] = "lock"
    /\ obj[t] \in live \ gone[t]
    /\ lock[obj[t]] \in {None, t}
    /\ lock' = [lock EXCEPT ![obj[t]] = t]
    /\ pc' = [pc EXCEPT ![t] = "open"]

(* UPDATE of one plain column; the WHEN clause lets the triggers fire only *)
(* when the value changes.                                                 *)
WriterUpdate(t) ==
    /\ Grant(t)
    /\ \E c \in Plain, v \in Value :
        /\ Owner[c] = obj[t]
        /\ v # View(t)[c]
        /\ buf' = [buf EXCEPT ![t][c] = v]
        /\ todo' = [todo EXCEPT ![t] = Fired(t, {c})]
    /\ UNCHANGED <<dbVars, gone, ins, del, coal, localVars, ops, crashes>>

(* DELETE: the triggers mark what depended on the row.                     *)
WriterDelete(t) ==
    /\ Grant(t)
    /\ obj[t] \in Deletable
    /\ gone' = [gone EXCEPT ![t] = @ \cup {obj[t]}]
    /\ todo' = [todo EXCEPT ![t] =
            Fired(t, {c \in Cells : Owner[c] = obj[t]}) \ DenormOf(obj[t])]
    /\ UNCHANGED <<dbVars, buf, ins, del, coal, localVars, ops, crashes>>

(* denorm.mark_dirty(instance): a whole-object marker, no row lock.        *)
MarkDirty(t) ==
    /\ Ready(t)
    /\ pc' = [pc EXCEPT ![t] = "open"]
    /\ \E o \in Objects : todo' = [todo EXCEPT ![t] = {o}]
    /\ UNCHANGED <<dbVars, lock, buf, gone, ins, del, coal, localVars, crashes>>

WriterCommit(t) ==
    /\ pc[t] = "open"
    /\ todo[t] = {}
    /\ Publish(t)
    /\ End(t)
    /\ UNCHANGED <<ops, crashes>>

-----------------------------------------------------------------------------
(* Workers: flush_single *)

(* flush() streams the distinct (content_type, object_id) pairs: by the    *)
(* time the pair is flushed its markers may be gone.                       *)
Pick(w) ==
    /\ pc[w] = "idle"
    /\ \E o \in Objects :
        /\ KeysOf(o) \cap markers # {}
        /\ obj' = [obj EXCEPT ![w] = o]
    /\ pc' = [pc EXCEPT ![w] = "select"]
    /\ UNCHANGED <<dbVars, lock, writeVars, fields, new, cache, left, ops,
                   crashes>>

(* skip_locked: a row locked by anybody is not there.                      *)
NeverLocked(o) == TRUE
Unlocked(o) == lock[o] = None

(* select_for_update(of=("self",), skip_locked=True).get(pk=object_id)     *)
SelectForUpdate(w) ==
    /\ pc[w] = "select"
    /\ \/ /\ obj[w] \in live
          /\ Unlocked(obj[w])
          /\ lock' = [lock EXCEPT ![obj[w]] = w]
          /\ pc' = [pc EXCEPT ![w] = "claim"]
       \/ /\ \/ obj[w] \notin live
             \/ ~Unlocked(obj[w])
          /\ pc' = [pc EXCEPT ![w] = "missing"]
          /\ UNCHANGED lock
    /\ UNCHANGED <<dbVars, writeVars, localVars, ops, crashes>>

(* DoesNotExist, and the row exists: locked elsewhere, left to its holder. *)
LockedElsewhere(w) ==
    /\ pc[w] = "missing"
    /\ obj[w] \in live
    /\ Rollback(w)
    /\ End(w)
    /\ UNCHANGED <<ops, crashes>>

(* DoesNotExist, and the row does not exist: its markers are cleaned up    *)
(* after this second look.                                                 *)
RowDeleted(w) ==
    /\ pc[w] = "missing"
    /\ obj[w] \notin live
    /\ pc' = [pc EXCEPT ![w] = "orphan"]
    /\ UNCHANGED <<dbVars, lock, writeVars, localVars, ops, crashes>>

(* _claim_and_delete_markers in w's transaction: the claimed markers are   *)
(* deleted at claim time, own uncommitted ones vanish at once.  What w's   *)
(* own triggers had found marked by K, the recomputation to come sees.     *)
DeleteMarkers(w, K) ==
    /\ del' = [del EXCEPT ![w] = @ \cup (K \cap markers)]
    /\ ins' = [ins EXCEPT ![w] = @ \ K]
    /\ coal' = [coal EXCEPT ![w] = @ \ K]

OrphanKept(w) ==
    /\ pc[w] = "orphan"
    /\ pc' = [pc EXCEPT ![w] = "commit"]
    /\ UNCHANGED <<dbVars, lock, writeVars, localVars, ops, crashes>>

OrphanClaim(w) ==
    /\ pc[w] = "orphan"
    /\ DeleteMarkers(w, Claimable(w, obj[w]))
    /\ pc' = [pc EXCEPT ![w] = "commit"]
    /\ UNCHANGED <<dbVars, lock, buf, gone, todo, localVars, ops, crashes>>

(* _build_save_kwargs: a NULL marker asks for every denormalized field.    *)
NamedFields(o, K) == K \cap Denorm
UpdateFields(o, K) == IF o \in K THEN DenormOf(o) ELSE K \cap Denorm

(* Claim what there is.  Nothing: commit.  Else save() the claimed fields. *)
ClaimAndSave(w) ==
    LET o == obj[w]
        K == Claimable(w, o)
    IN  /\ DeleteMarkers(w, K)
        /\ fields' = [fields EXCEPT ![w] = UpdateFields(o, K)]
        /\ pc' = [pc EXCEPT ![w] = IF K = {} THEN "commit" ELSE "save"]

Claim(w) ==
    /\ pc[w] = "claim"
    /\ ClaimAndSave(w)
    /\ left' = [left EXCEPT ![w] = MaxPasses]
    /\ UNCHANGED <<dbVars, lock, buf, gone, todo, obj, new, cache, ops,
                   crashes>>

(* pre_save of one field: the function runs its queries, the instance      *)
(* keeps the value and the related instances it fetched.                   *)
PreSave(w) ==
    /\ pc[w] = "save"
    /\ \E d \in fields[w] :
        /\ new[w][d] = None
        /\ new' = [new EXCEPT ![w][d] = Compute(d, Input(w, d))]
        /\ cache' = [cache EXCEPT ![w] =
                [c \in Cells |->
                    IF /\ cache[w][c] = None
                       /\ \E r \in FkReads[d] : Owner[c] = Owner[r]
                    THEN View(w)[c] ELSE cache[w][c]]]
    /\ UNCHANGED <<dbVars, lock, writeVars, pc, obj, fields, left, ops, crashes>>

(* The UPDATE statement of save(), its triggers fire for what changed.     *)
Update(w) ==
    /\ pc[w] = "save"
    /\ \A d \in fields[w] : new[w][d] # None
    /\ buf' = [buf EXCEPT ![w] =
            [c \in Cells |-> IF c \in fields[w] THEN new[w][c] ELSE buf[w][c]]]
    /\ todo' = [todo EXCEPT ![w] =
            Fired(w, {c \in fields[w] : new[w][c] # View(w)[c]})]
    /\ new' = [new EXCEPT ![w] = NoCells]
    /\ pc' = [pc EXCEPT ![w] = "post"]
    /\ UNCHANGED <<dbVars, lock, gone, ins, del, coal, obj, fields, cache, left,
                   ops, crashes>>

(* for passes_left in range(DENORM_MAX_CONVERGE_PASSES, 0, -1)             *)
LastPassMissed(w) == left[w] = 0
LastPass(w) == left[w] = 1

(* The self-markers of safe fields this save has recomputed.               *)
AnySelfMarkers(w) == DenormOf(obj[w]) \cap Visible(w)
SelfMarkers(w) == Safe \cap fields[w] \cap Visible(w)

(* post_save: drop the redundant self-markers of the fields this save has  *)
(* recomputed; then either the pass cap is reached or markers are claimed  *)
(* again.                                                                  *)
PostSave(w) ==
    /\ pc[w] = "post"
    /\ todo[w] = {}
    /\ DeleteMarkers(w, SelfMarkers(w))
    /\ left' = [left EXCEPT ![w] = @ - 1]
    /\ pc' = [pc EXCEPT ![w] = IF LastPass(w) THEN "commit" ELSE "again"]
    /\ UNCHANGED <<dbVars, lock, buf, gone, todo, obj, fields, new, cache,
                   ops, crashes>>

Reclaim(w) ==
    /\ pc[w] = "again"
    /\ ClaimAndSave(w)
    /\ UNCHANGED <<dbVars, lock, buf, gone, todo, obj, new, cache, left,
                   ops, crashes>>

WorkerCommit(w) ==
    /\ pc[w] = "commit"
    /\ Publish(w)
    /\ End(w)
    /\ UNCHANGED <<ops, crashes>>

-----------------------------------------------------------------------------
(* Failures *)

(* t can only wait for u: every insert it has left conflicts with          *)
(* uncommitted work, or the row it wants is locked.                        *)
WaitsFor(t, u) ==
    /\ t # u
    /\ \/ /\ \A k \in todo[t] : Blocked(t, k)
          /\ \E k \in todo[t] : Held(k, u)
       \/ /\ t \in Writers
          /\ pc[t] = "lock"
          /\ lock[obj[t]] = u

Stuck(S) == S # {} /\ \A t \in S : \E u \in S : WaitsFor(t, u)

(* PostgreSQL's deadlock detector aborts a member of a cycle; a worker's   *)
(* flush_single is retried (retry.py), which is a Pick again.              *)
DeadlockAbort(t) ==
    /\ \E S \in SUBSET Tx :
        /\ t \in S
        /\ Stuck(S)
        /\ \A R \in SUBSET S : Stuck(R) => R = S
    /\ Rollback(t)
    /\ End(t)
    /\ UNCHANGED <<ops, crashes>>

(* The process or its connection dies, or the application rolls back.      *)
Crash(t) ==
    /\ pc[t] # "idle"
    /\ crashes < MaxCrashes
    /\ crashes' = crashes + 1
    /\ Rollback(t)
    /\ End(t)
    /\ UNCHANGED ops

-----------------------------------------------------------------------------
WriterStep(t) ==
    \/ WriterStatement(t)
    \/ WriterNoRow(t)
    \/ WriterUpdate(t)
    \/ WriterDelete(t)
    \/ MarkDirty(t)
    \/ WriterCommit(t)

WorkerStep(w) ==
    \/ SelectForUpdate(w)
    \/ LockedElsewhere(w)
    \/ RowDeleted(w)
    \/ OrphanClaim(w)
    \/ Claim(w)
    \/ PreSave(w)
    \/ Update(w)
    \/ PostSave(w)
    \/ Reclaim(w)
    \/ WorkerCommit(w)

Next ==
    \/ \E t \in Writers : WriterStep(t)
    \/ \E w \in Workers : Pick(w) \/ WorkerStep(w)
    \/ \E t \in Tx : InsertMarker(t) \/ DeadlockAbort(t) \/ Crash(t)

Spec == Init /\ [][Next]_vars

(* The queue daemon and its workers keep flushing while markers are left,  *)
(* application transactions end, PostgreSQL resolves deadlocks.  Strong    *)
(* for those who wait for a row or an index entry that is freed and taken  *)
(* again: PostgreSQL wakes them, and they do not lose that race for ever.  *)
Fairness ==
    /\ \A t \in Writers : SF_vars(WriterStep(t))
    /\ \A w \in Workers : WF_vars(Pick(w)) /\ WF_vars(WorkerStep(w))
    /\ \A t \in Tx : SF_vars(InsertMarker(t)) /\ WF_vars(DeadlockAbort(t))

FairSpec == Spec /\ Fairness
-----------------------------------------------------------------------------
(* Properties *)

PcOfWriter == {"idle", "open", "lock"}
PcOfWorker == {"idle", "select", "missing", "orphan", "claim", "save", "post",
               "again", "commit"}

TypeOK ==
    /\ val \in [Cells -> Value]
    /\ live \subseteq Objects
    /\ markers \subseteq Keys
    /\ lock \in [Objects -> Tx \cup {None}]
    /\ buf \in [Tx -> [Cells -> Value \cup {None}]]
    /\ gone \in [Tx -> SUBSET Objects]
    /\ ins \in [Tx -> SUBSET Keys]
    /\ del \in [Tx -> SUBSET Keys]
    /\ coal \in [Tx -> SUBSET Keys]
    /\ todo \in [Tx -> SUBSET Keys]
    /\ pc \in [Tx -> PcOfWriter \cup PcOfWorker]
    /\ \A t \in Writers : pc[t] \in PcOfWriter
    /\ \A w \in Workers : pc[w] \in PcOfWorker
    /\ obj \in [Tx -> Objects \cup {None}]
    /\ \A t \in Tx : pc[t] \notin {"idle", "open"} => obj[t] \in Objects
    /\ ops \in [Writers -> 0 .. MaxOps]
    /\ fields \in [Workers -> SUBSET Denorm]
    /\ new \in [Workers -> [Cells -> Value \cup {None}]]
    /\ cache \in [Workers -> [Cells -> Seen \cup {None}]]
    /\ left \in [Workers -> 0 .. MaxPasses]
    /\ lost \subseteq Keys
    /\ crashes \in 0 .. MaxCrashes

(* A live denormalized column whose committed value is not what its        *)
(* function returns on the committed database.                             *)
Stale(d) == Owner[d] \in live /\ IsStale(d, Db)

Marked(d) == d \in markers \/ Owner[d] \in markers

(* A stale column is marked, so some flush will recompute it.  The one     *)
(* exception the protocol has: an invalidation that found a committed      *)
(* marker (ON CONFLICT DO NOTHING) which a worker claimed before the       *)
(* invalidating transaction committed.  For functions that do not go       *)
(* through a cached foreign key (denorms/__init__.py:301-324).             *)
NoLostInvalidation ==
    \A d \in Denorm :
        FkReads[d] = {} /\ Stale(d) => Marked(d) \/ d \in lost

(* flush_single holds the row (SKIP LOCKED, so nobody queues behind it):   *)
(* no two workers recompute one row at a time, and no marker is claimed by *)
(* both (denorms/__init__.py:272-287).                                     *)
ExclusiveRecompute ==
    \A w, x \in Workers :
        w # x =>
            /\ del[w] \cap del[x] = {}
            /\ pc[w] \in {"save", "post", "again"}
               /\ pc[x] \in {"save", "post", "again"} => obj[w] # obj[x]

(* "no concurrent write can change this object's own source columns"       *)
(* (denorms/__init__.py:316-319): reusing the in-memory instance across    *)
(* convergence passes relies on it.                                        *)
OwnRowStable ==
    [][\A w \in Workers, c \in Cells :
        /\ pc[w] \in {"claim", "save", "post", "again"}
        /\ Owner[c] = obj[w]
        => val'[c] = val[c] /\ obj[w] \in live']_vars

(* A marker post_save drops is redundant: its column is fresh              *)
(* (fields.py:76-86).                                                      *)
DroppedIsRedundant ==
    [][\A w \in Workers, d \in Denorm :
        /\ pc[w] = "post" /\ pc'[w] \in {"again", "commit"}
        /\ d \in Visible(w) /\ d \notin Visible(w)'
        => ~IsStale(d, View(w))]_vars

(* Every marker is flushed in the end, whatever crashes or deadlocks       *)
(* interrupt: the table drains (denorms/__init__.py:366-370).              *)
EventuallyDrained == <>[](markers = {})

(* Functions that do not go through a cached foreign key.                  *)
Followed == {d \in Denorm : FkReads[d] = {}}

Contract == INSTANCE Invalidation WITH
    Objects <- Objects,
    Plain <- Plain,
    Denorm <- Denorm,
    Owner <- Owner,
    Promised <- Followed,
    Absent <- Absent,
    IsOff <- IsStale,
    db <- Db,
    markers <- markers,
    lost <- lost

(* The whole protocol, seen from outside, is what Invalidation promises:   *)
(* application commits only add markers, and a flush settles one row,      *)
(* whatever crashes, deadlocks or swallowed inserts happen in between      *)
(* (denorms/__init__.py:262-356).                                          *)
KeepsContract == Contract!Spec

(* ... and then every live column is what its function returns, but for    *)
(* the swallowed invalidations.                                            *)
EventuallyConsistent == <>[](\A d \in Denorm : Stale(d) => d \in lost)

-----------------------------------------------------------------------------
(* What the documentation says of the code *)

(* "After this method finishes the DirtyInstance table is empty and all    *)
(* denormalized fields have consistent data" (denorms/__init__.py:369).    *)
FlushedIsConsistent ==
    (markers = {} /\ \A t \in Tx : pc[t] = "idle") =>
        \A d \in Denorm : ~Stale(d)

(* Dependency-driven markers claimed in the convergence loop are           *)
(* "recomputed via a fresh query -- never stale in-memory source data"     *)
(* (denorms/__init__.py:321-324): no column goes stale unmarked through    *)
(* that loop.                                                              *)
NeverStaleSource ==
    \A d \in Denorm : Stale(d) => Marked(d) \/ d \in lost
=============================================================================
