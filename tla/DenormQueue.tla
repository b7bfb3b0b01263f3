---------------------------- MODULE DenormQueue ----------------------------
(***************************************************************************)
(* The queue path: the denorm_queue daemon listens for the NOTIFY of the   *)
(* marker table and dispatches flush_via_queue to Celery; that task fans   *)
(* the dirty pairs out into flush_batch tasks joined by a chord, whose     *)
(* callback _flush_requeue dispatches the next pass while markers remain   *)
(* (management/commands/denorm_queue.py, tasks.py, migration 0019).        *)
(*                                                                         *)
(* The markers of one (content_type_id, object_id) are one pair here;      *)
(* DenormFlush has the flush of a pair in detail.  Celery's broker is a    *)
(* FIFO queue, celery-singleton a set of locks named by task and           *)
(* arguments, taken by delay() and dropped when the task ends.             *)
(***************************************************************************)
EXTENDS Integers, Sequences, FiniteSets

CONSTANTS
    Pairs,          \* logical (content_type_id, object_id) pairs
    Orders,         \* the orders SELECT DISTINCT may return them in, as ranks
    Cascade,        \* the pairs a flush of a pair may mark
    Poison,         \* pairs whose flush always raises
    Workers,        \* Celery worker processes
    None,
    ChunkSize,      \* DENORM_QUEUE_CHUNK_SIZE
    MaxPasses,      \* DENORM_MAX_QUEUE_PASSES
    MaxChords,      \* bound: chords with a message or a task alive
    MaxWrites,      \* bound: transactions of the application
    MaxFaults       \* bound: connections lost, workers killed in a task,
                    \* flushes that fail for a time, calls that outlive
                    \* their lock

ASSUME PairAssumption ==
    /\ IsFiniteSet(Pairs)
    /\ Cascade \in [Pairs -> SUBSET Pairs]
    /\ Poison \subseteq Pairs
    /\ Orders \subseteq [Pairs -> Nat]
    /\ \A rank \in Orders : \A p, q \in Pairs : rank[p] = rank[q] => p = q
    /\ None \notin Pairs \cup Workers

ASSUME QueueBoundAssumption ==
    /\ {ChunkSize, MaxPasses, MaxChords} \subseteq Nat \ {0}
    /\ {MaxWrites, MaxFaults} \subseteq Nat

VARIABLES
    dirty,      \* pairs with a committed marker
    busy,       \* the worker whose transaction has claimed a pair
    conn,       \* the daemon's LISTEN connection
    notified,   \* a NOTIFY waits on it
    queue,      \* Celery messages, oldest first
    locks,      \* celery-singleton locks held
    job,        \* the message a worker executes
    rest,       \* pairs its task still has to see
    spent       \* bounded events used up

vars == <<dirty, busy, conn, notified, queue, locks, job, rest, spent>>

-----------------------------------------------------------------------------
(* Messages.  A batch knows its chord and the pass that follows it.        *)

Flush(n) == [task |-> "flush_via_queue", pass |-> n, pairs |-> <<>>, chord |-> 0]
Batch(s, n, c) == [task |-> "flush_batch", pass |-> n, pairs |-> s, chord |-> c]
Requeue(n) == [task |-> "requeue", pass |-> n, pairs |-> <<>>, chord |-> 0]

(* The singleton lock of a message: its task and arguments.                *)
Key(m) ==
    [task |-> m.task, pairs |-> m.pairs,
     pass |-> IF m.task = "flush_batch" THEN 0 ELSE m.pass]

Queued == {queue[i] : i \in 1 .. Len(queue)}
Executing == {job[w] : w \in {x \in Workers : job[x] # None}}
Alive == Queued \cup Executing

(* A task without base=Singleton.                                          *)
DelayAlways(m, L) == queue' = Append(queue, m) /\ locks' = L \cup {Key(m)}

(* .delay(): nothing when the same call is queued or executing.            *)
Delay(m, L) ==
    IF Key(m) \in L THEN UNCHANGED queue /\ locks' = L
    ELSE queue' = Append(queue, m) /\ locks' = L \cup {Key(m)}

Spend(kind) == spent' = [spent EXCEPT ![kind] = @ + 1]

(* Something goes wrong.                                                   *)
Fault(kind) ==
    /\ spent["drop"] + spent["crash"] + spent["error"] + spent["expiry"] < MaxFaults
    /\ Spend(kind)

Init ==
    /\ dirty = {}
    /\ busy = [p \in Pairs |-> None]
    /\ conn = "none"
    /\ notified = FALSE
    /\ queue = <<>>
    /\ locks = {}
    /\ job = [w \in Workers |-> None]
    /\ rest = [w \in Workers |-> <<>>]
    /\ spent = [k \in {"write", "drop", "crash", "error", "expiry"} |-> 0]

-----------------------------------------------------------------------------
(* The application *)

(* A transaction marks p and commits.  The statement trigger notifies,     *)
(* whether or not the row was new; nobody listening, nobody hears it.  A   *)
(* marker claimed by a flush makes the insert wait for that flush.         *)
Write(p) ==
    /\ spent["write"] < MaxWrites
    /\ Spend("write")
    /\ busy[p] = None
    /\ dirty' = dirty \cup {p}
    /\ notified' = (notified \/ conn = "ok")
    /\ UNCHANGED <<busy, conn, queue, locks, job, rest>>

-----------------------------------------------------------------------------
(* The daemon: handle and _listen_loop *)

(* LISTEN, then one dispatch for the backlog of the time nobody listened.  *)
Listen ==
    /\ conn = "none"
    /\ conn' = "ok"
    /\ Delay(Flush(0), locks)
    /\ UNCHANGED <<dirty, busy, notified, job, rest, spent>>

(* select() returns for a NOTIFY or for the keepalive timeout: both drain  *)
(* the notifications and dispatch.                                         *)
Redispatch ==
    /\ conn = "ok"
    /\ notified' = FALSE
    /\ Delay(Flush(0), locks)
    /\ UNCHANGED <<dirty, busy, conn, job, rest, spent>>

(* Without the keepalive.                                                  *)
DispatchOnNotify == notified /\ Redispatch

Dispatch == Redispatch

(* The connection dies: its notifications are gone.                        *)
ConnectionDies ==
    /\ conn = "ok"
    /\ Fault("drop")
    /\ conn' = "dead"
    /\ notified' = FALSE
    /\ UNCHANGED <<dirty, busy, queue, locks, job, rest>>

(* poll() raises at the next timeout, handle() closes and reconnects.      *)
Reconnect ==
    /\ conn = "dead"
    /\ conn' = "none"
    /\ UNCHANGED <<dirty, busy, notified, queue, locks, job, rest, spent>>

-----------------------------------------------------------------------------
(* Celery workers *)

(* A set as a sequence, in the order of their rank.                        *)
InOrder(S, rank) ==
    {s \in [1 .. Cardinality(S) -> S] :
        \A i, j \in DOMAIN s : i < j => rank[s[i]] < rank[s[j]]}

(* Without DISTINCT a pair comes once for each of its markers.             *)
MarkerSnapshots ==
    {s \in UNION {[1 .. n -> dirty] : n \in Cardinality(dirty) .. 2 * Cardinality(dirty)} :
        \E rank \in Orders :
            \A i, j \in DOMAIN s : i < j => rank[s[i]] <= rank[s[j]]}

(* What flush_via_queue reads: the dirty pairs, in any order of the query. *)
Snapshots == UNION {InOrder(dirty, rank) : rank \in Orders}

(* A task takes its input: a batch its pairs, flush_via_queue a snapshot.  *)
Take(w) ==
    /\ job[w] = None
    /\ queue # <<>>
    /\ LET m == Head(queue)
       IN  /\ job' = [job EXCEPT ![w] = m]
           /\ \E s \in IF m.task = "flush_via_queue" THEN Snapshots ELSE {m.pairs} :
                rest' = [rest EXCEPT ![w] = s]
    /\ queue' = Tail(queue)
    /\ UNCHANGED <<dirty, busy, conn, notified, locks, spent>>

(* The chunks of DENORM_QUEUE_CHUNK_SIZE pairs.                            *)
Chunks(s) ==
    LET last(i) == IF i * ChunkSize < Len(s) THEN i * ChunkSize ELSE Len(s)
        n == (Len(s) + ChunkSize - 1) \div ChunkSize
    IN  [i \in 1 .. n |-> SubSeq(s, (i - 1) * ChunkSize + 1, last(i))]

CapPassed(n) == n > MaxPasses
CapReached(n) == n >= MaxPasses

(* An empty snapshot, or the pass cap: no chord.                           *)
FlushNothing(w) ==
    /\ job[w] # None
    /\ job[w].task = "flush_via_queue"
    /\ rest[w] = <<>> \/ CapReached(job[w].pass)
    /\ locks' = locks \ {Key(job[w])}
    /\ job' = [job EXCEPT ![w] = None]
    /\ rest' = [rest EXCEPT ![w] = <<>>]
    /\ UNCHANGED <<dirty, busy, conn, notified, queue, spent>>

(* Chords nothing alive belongs to.                                        *)
FreeChords == {c \in 1 .. MaxChords : \A m \in Alive : m.chord # c}

(* chord(flush_batch ...)(_flush_requeue): header tasks go through         *)
(* celery-singleton like any other call.  One that is dropped there never  *)
(* reports to the chord, so its callback never runs (chord 0).             *)
FanOut(w) ==
    /\ job[w] # None
    /\ job[w].task = "flush_via_queue"
    /\ rest[w] # <<>> /\ ~CapReached(job[w].pass)
    /\ FreeChords # {}
    /\ LET next == job[w].pass + 1
           chunks == Chunks(rest[w])
           sent == {i \in DOMAIN chunks : Key(Batch(chunks[i], next, 0)) \notin locks}
           chord == IF sent = DOMAIN chunks THEN CHOOSE c \in FreeChords : TRUE ELSE 0
       IN  \E e \in InOrder(sent, [i \in sent |-> i]) :
            LET batches == [k \in DOMAIN e |-> Batch(chunks[e[k]], next, chord)]
            IN  /\ queue' = queue \o batches
                /\ locks' = (locks \cup {Key(batches[k]) : k \in DOMAIN e})
                                \ {Key(job[w])}
    /\ job' = [job EXCEPT ![w] = None]
    /\ rest' = [rest EXCEPT ![w] = <<>>]
    /\ UNCHANGED <<dirty, busy, conn, notified, spent>>

InBatch(w) == job[w] # None /\ job[w].task = "flush_batch"

(* flush_single of the next pair.  Its row is locked elsewhere or it has   *)
(* no marker left: nothing to do.                                          *)
FlushSkip(w) ==
    /\ InBatch(w)
    /\ rest[w] # <<>>
    /\ LET p == Head(rest[w]) IN busy[p] \notin {None, w} \/ p \notin dirty
    /\ rest' = [rest EXCEPT ![w] = Tail(@)]
    /\ UNCHANGED <<dirty, busy, conn, notified, queue, locks, job, spent>>

FlushBegin(w) ==
    /\ InBatch(w)
    /\ rest[w] # <<>>
    /\ Head(rest[w]) \in dirty
    /\ busy[Head(rest[w])] = None
    /\ busy' = [busy EXCEPT ![Head(rest[w])] = w]
    /\ UNCHANGED <<dirty, conn, notified, queue, locks, job, rest, spent>>

(* It commits: the marker is gone, dependent pairs are marked, without     *)
(* NOTIFY (denorm.flushing).  An insert of a marker another flush has      *)
(* claimed waits for that flush.                                           *)
FlushCommit(w) ==
    /\ InBatch(w)
    /\ rest[w] # <<>>
    /\ LET p == Head(rest[w])
       IN  /\ busy[p] = w
           /\ p \notin Poison
           /\ \E C \in SUBSET Cascade[p] :
                /\ \A q \in C : busy[q] \in {None, w}
                /\ dirty' = (dirty \ {p}) \cup C
           /\ busy' = [busy EXCEPT ![p] = None]
    /\ rest' = [rest EXCEPT ![w] = Tail(@)]
    /\ UNCHANGED <<conn, notified, queue, locks, job, spent>>

(* It raises, once retries are exhausted or for good, rolls back and leaves *)
(* its marker; flush_batch goes on with the next pair.                     *)
Reraise(s) == <<>>
AfterError(s) == Tail(s)

FlushFails(w) ==
    /\ InBatch(w)
    /\ rest[w] # <<>>
    /\ LET p == Head(rest[w])
       IN  /\ busy[p] = w
           /\ \/ p \in Poison /\ UNCHANGED spent
              \/ p \notin Poison /\ Fault("error")
           /\ busy' = [busy EXCEPT ![p] = None]
    /\ rest' = [rest EXCEPT ![w] = AfterError(@)]
    /\ UNCHANGED <<dirty, conn, notified, queue, locks, job>>

(* A chord's callback is a plain task: no lock.                            *)
SendCallback(m, L) == queue' = Append(queue, m) /\ locks' = L

(* flush_batch returns; the last header task of a chord sends the callback. *)
LastOfChord(w) ==
    /\ job[w].chord # 0
    /\ \A m \in Queued \cup {job[v] : v \in {x \in Workers \ {w} : job[x] # None}} :
        m.chord # job[w].chord

BatchDone(w) ==
    /\ InBatch(w)
    /\ rest[w] = <<>>
    /\ LET L == locks \ {Key(job[w])}
       IN  IF LastOfChord(w) THEN SendCallback(Requeue(job[w].pass), L)
           ELSE UNCHANGED queue /\ locks' = L
    /\ job' = [job EXCEPT ![w] = None]
    /\ UNCHANGED <<dirty, busy, conn, notified, rest, spent>>

(* _flush_requeue: another pass while markers remain.                      *)
FlushRequeue(w) ==
    /\ job[w] # None
    /\ job[w].task = "requeue"
    /\ IF dirty = {} THEN UNCHANGED <<queue, locks>>
       ELSE Delay(Flush(job[w].pass), locks)
    /\ job' = [job EXCEPT ![w] = None]
    /\ UNCHANGED <<dirty, busy, conn, notified, rest, spent>>

(* A worker is killed in its task: its transaction rolls back, its lock    *)
(* stays, and its chord never calls back.                                  *)
WorkerCrash(w) ==
    LET dead(m) ==
          IF m = None \/ job[w].chord = 0 THEN m
          ELSE IF m.chord = job[w].chord THEN [m EXCEPT !.chord = 0] ELSE m
    IN  /\ job[w] # None
        /\ Fault("crash")
        /\ queue' = [i \in DOMAIN queue |-> dead(queue[i])]
        /\ job' = [v \in Workers |-> IF v = w THEN None ELSE dead(job[v])]
        /\ rest' = [rest EXCEPT ![w] = <<>>]
        /\ busy' = [p \in Pairs |-> IF busy[p] = w THEN None ELSE busy[p]]
        /\ UNCHANGED <<dirty, conn, notified, locks>>

(* DENORM_SINGLETON_LOCK_EXPIRY.                                           *)
LeakedLocks == locks \ {Key(m) : m \in Alive}

ExpireLeaked ==
    /\ \E k \in LeakedLocks : locks' = locks \ {k}
    /\ UNCHANGED <<dirty, busy, conn, notified, queue, job, rest, spent>>

(* The expiry runs from delay(): a call that waits or runs for longer than *)
(* that loses its lock.                                                    *)
ExpireEarly ==
    /\ Fault("expiry")
    /\ \E m \in Alive :
        /\ Key(m) \in locks
        /\ locks' = locks \ {Key(m)}
    /\ UNCHANGED <<dirty, busy, conn, notified, queue, job, rest>>

-----------------------------------------------------------------------------
Daemon == Listen \/ Dispatch \/ Reconnect

Worker(w) ==
    \/ Take(w) \/ FlushNothing(w) \/ FanOut(w)
    \/ FlushSkip(w) \/ FlushBegin(w) \/ FlushCommit(w) \/ FlushFails(w)
    \/ BatchDone(w) \/ FlushRequeue(w)

Next ==
    \/ \E p \in Pairs : Write(p)
    \/ Daemon \/ ConnectionDies
    \/ \E w \in Workers : Worker(w) \/ WorkerCrash(w)
    \/ ExpireLeaked \/ ExpireEarly

Spec == Init /\ [][Next]_vars

(* The daemon wakes up every select_timeout and reconnects, Celery workers *)
(* run, leaked locks expire.                                               *)
Fairness ==
    /\ WF_vars(Daemon)
    /\ \A w \in Workers : WF_vars(Worker(w))
    /\ WF_vars(ExpireLeaked)

FairSpec == Spec /\ Fairness
-----------------------------------------------------------------------------
(* Properties *)

Message ==
    [task : {"flush_via_queue", "flush_batch", "requeue"}, pass : Nat,
     pairs : Seq(Pairs), chord : 0 .. MaxChords]

TypeOK ==
    /\ dirty \subseteq Pairs
    /\ busy \in [Pairs -> Workers \cup {None}]
    /\ conn \in {"none", "ok", "dead"}
    /\ notified \in BOOLEAN
    /\ queue \in Seq(Message)
    /\ locks \subseteq
          [task : {"flush_via_queue", "flush_batch"}, pairs : Seq(Pairs), pass : Nat]
    /\ job \in [Workers -> Message \cup {None}]
    /\ rest \in [Workers -> Seq(Pairs)]
    /\ spent \in [{"write", "drop", "crash", "error", "expiry"} -> Nat]

(* A chain of passes, each dispatched by the callback of the one before,   *)
(* ends at DENORM_MAX_QUEUE_PASSES, even when a pair can never be flushed  *)
(* (tasks.py:122-135).                                                     *)
PassesBounded == \A m \in Alive : m.pass <= MaxPasses

(* Kicks of the daemon, keepalives and chord callbacks dispatch the same   *)
(* tasks: still there is one copy of a call at a time, unless it outlived  *)
(* its lock (tasks.py:107-109, denorm_queue.py:104).                       *)
OneCopy ==
    spent["expiry"] = 0 =>
        /\ \A m \in Alive : m.task # "requeue" => Key(m) \in locks
        /\ \A i, j \in 1 .. Len(queue) :
            i # j /\ queue[i].task # "requeue" => Key(queue[i]) # Key(queue[j])
        /\ \A w \in Workers, i \in 1 .. Len(queue) :
            job[w] # None /\ queue[i].task # "requeue" =>
                Key(job[w]) # Key(queue[i])
        /\ \A v, w \in Workers :
            v # w /\ job[v] # None /\ job[w] # None /\ job[v].task # "requeue" =>
                Key(job[v]) # Key(job[w])

(* A snapshot names every pair once, so that its chunks are different      *)
(* calls.                                                                  *)
Listed ==
    \A w \in Workers :
        job[w] # None /\ job[w].task = "flush_via_queue" =>
            \A i, j \in 1 .. Len(rest[w]) : i # j => rest[w][i] # rest[w][j]

(* The inductive invariant of the proofs.                                  *)
IInv == TypeOK /\ PassesBounded /\ OneCopy /\ Listed

(* Every marker is flushed in the end, but for those of a pair that always *)
(* fails, which holds nobody up: whatever notifications are deduplicated   *)
(* or lost with their connection, whatever chords a killed worker or a     *)
(* dropped header task leaves without callback (tasks.py:37-49,            *)
(* denorm_queue.py:131-139, conf/settings.py:29-31).                       *)
AllButPoisonDrained == <>[](dirty \subseteq Poison)
=============================================================================
