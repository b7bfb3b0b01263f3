--------------------------- MODULE DenormFlushInv ---------------------------
(***************************************************************************)
(* The inductive invariant behind NoLostInvalidation.                      *)
(***************************************************************************)
EXTENDS DenormFlush

(* Before its claim a worker's transaction has written nothing.            *)
Before == {"idle", "select", "missing", "orphan", "claim"}
Holding == {"claim", "save", "post", "again"}

(* Row locks protect what a transaction has written; a worker touches only *)
(* the row it flushes.                                                     *)
LockInv ==
    /\ \A t \in Tx, c \in Cells : buf[t][c] # None => lock[Owner[c]] = t
    /\ \A t \in Tx : \A o \in gone[t] : lock[o] = t
    /\ \A t \in Writers, d \in Denorm : buf[t][d] = None
    /\ \A w \in Workers :
        /\ gone[w] = {}
        /\ pc[w] \in Holding => lock[obj[w]] = w /\ obj[w] \in live
        /\ pc[w] = "commit" /\ obj[w] \in live => lock[obj[w]] = w
        /\ pc[w] = "orphan" => obj[w] \notin live
        /\ \A c \in Cells : buf[w][c] # None => Owner[c] = obj[w]

(* What a transaction has pending, by where it is.                         *)
StageInv ==
    /\ \A t \in Tx : pc[t] \in Before =>
        buf[t] = NoCells /\ ins[t] = {} /\ del[t] = {} /\ coal[t] = {}
        /\ todo[t] = {} /\ gone[t] = {}
    /\ \A t \in Writers : del[t] = {}
    /\ \A t \in Writers : pc[t] = "lock" => todo[t] = {}
    /\ \A w \in Workers :
        /\ del[w] \subseteq KeysOf(obj[w])
        /\ pc[w] # "post" => todo[w] = {}
        /\ pc[w] # "save" => new[w] = NoCells
        /\ \A c \in Cells : new[w][c] # None => c \in fields[w]
        /\ pc[w] \in {"save", "post"} => fields[w] \subseteq DenormOf(obj[w])
        /\ pc[w] \in {"save", "post", "again"} => left[w] # 0

(* The unique index: a key is inserted or deleted by one transaction at a  *)
(* time.                                                                   *)
IndexInv ==
    \A t \in Tx :
        /\ del[t] \subseteq markers
        /\ ins[t] \cap (markers \ del[t]) = {}
        /\ \A u \in Tx \ {t} :
            /\ ins[t] \cap ins[u] = {}
            /\ ins[t] \cap del[u] = {}
            /\ del[t] \cap del[u] = {}

BaseInv ==
    /\ TypeOK
    /\ LockInv
    /\ StageInv
    /\ IndexInv

(* t has changed, for itself only, a cell the function of d reads.         *)
Changed(t, d) == \E c \in Reads[d] : View(t)[c] # Db[c]

(* Such a change has marked d, is about to, or found d marked.             *)
PendingInv ==
    \A t \in Tx, d \in Denorm :
        /\ Changed(t, d)
        /\ Owner[d] \in live \ gone[t]
        /\ t \in Workers => Owner[d] # obj[t]
        => d \in ins[t] \cup coal[t] \cup todo[t]

(* d is marked, as w sees it, or is excused.                               *)
Covered(w, d) == d \in Visible(w) \/ obj[w] \in Visible(w) \/ d \in lost

(* A column of the row w flushes that is stale in w's view is marked in    *)
(* it, or about to be recomputed or marked.                                *)
Row(w) ==
    \A d \in Denorm :
        /\ pc[w] \in {"save", "post", "again", "commit"}
        /\ obj[w] \in live
        /\ Owner[d] = obj[w]
        /\ FkReads[d] = {}
        /\ IsStale(d, View(w))
        => \/ Covered(w, d)
           \/ pc[w] = "save" /\ d \in fields[w]
           \/ d \in todo[w]

(* A value set by pre_save is up to date with the in-memory instance, or   *)
(* its column is marked, or the save is about to mark it.                  *)
Fresh(w) ==
    \A d \in Denorm :
        /\ pc[w] = "save"
        /\ new[w][d] # None
        /\ FkReads[d] = {}
        => \/ new[w][d] = Compute(d, Memory(w))
           \/ Covered(w, d)
           \/ \E c \in Reads[d] : new[w][c] # None /\ new[w][c] # View(w)[c]

(* For a safe function there is no "or".                                   *)
SafeFresh(w) ==
    \A d \in Safe :
        /\ pc[w] = "save" /\ new[w][d] # None
           => new[w][d] = Compute(d, Memory(w))
        /\ pc[w] = "post" /\ d \in fields[w] => ~IsStale(d, View(w))

WorkerInv(w) == Row(w) /\ Fresh(w) /\ SafeFresh(w)

IInv ==
    /\ BaseInv
    /\ PendingInv
    /\ \A w \in Workers : WorkerInv(w)
    /\ NoLostInvalidation

-----------------------------------------------------------------------------
(* The steps of one actor, and those of them that commit.                  *)
Step(t) ==
    \/ t \in Writers /\ WriterStep(t)
    \/ t \in Workers /\ (Pick(t) \/ WorkerStep(t))
    \/ InsertMarker(t) \/ DeadlockAbort(t) \/ Crash(t)

Commits(t) ==
    /\ Publish(t)
    /\ End(t)
    /\ todo[t] = {}
    /\ t \in Workers => pc[t] = "commit"
=============================================================================
