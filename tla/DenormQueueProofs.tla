-------------------------- MODULE DenormQueueProofs --------------------------
(***************************************************************************)
(* Chains of passes are bounded, and a call has one copy at a time unless  *)
(* it has outlived its lock, for any pairs, workers, chunks, faults and    *)
(* cascades.                                                               *)
(***************************************************************************)
EXTENDS DenormQueue, FiniteSetTheorems, SequenceTheorems, TLAPS

Locks == [task : {"flush_via_queue", "flush_batch"}, pairs : Seq(Pairs), pass : Nat]
Counters == {"write", "drop", "crash", "error", "expiry"}

(* Messages and their locks.                                               *)
LEMMA Keys ==
  ASSUME NEW m \in Message
  PROVE  /\ Key(m).task = m.task
         /\ m.task # "requeue" => Key(m) \in Locks
         /\ m.pass \in Nat /\ m.pairs \in Seq(Pairs) /\ m.chord \in 0 .. MaxChords
         /\ m.task \in {"flush_via_queue", "flush_batch", "requeue"}
BY DEF Message, Key, Locks

LEMMA Calls ==
  /\ \A n \in Nat : /\ Flush(n) \in Message /\ Flush(n).task = "flush_via_queue"
                    /\ Flush(n).pass = n
                    /\ Requeue(n) \in Message /\ Requeue(n).task = "requeue"
                    /\ Requeue(n).pass = n
  /\ \A n \in Nat, s \in Seq(Pairs), c \in 0 .. MaxChords :
        /\ Batch(s, n, c) \in Message /\ Batch(s, n, c).task = "flush_batch"
        /\ Batch(s, n, c).pass = n /\ Key(Batch(s, n, c)).pairs = s
        /\ Key(Batch(s, n, c)) = Key(Batch(s, n, 0))
<1>1. 0 \in 0 .. MaxChords /\ <<>> \in Seq(Pairs)
  BY QueueBoundAssumption
<1>2. \A n \in Nat : /\ Flush(n) \in Message /\ Flush(n).task = "flush_via_queue"
                     /\ Flush(n).pass = n
                     /\ Requeue(n) \in Message /\ Requeue(n).task = "requeue"
                     /\ Requeue(n).pass = n
  BY <1>1 DEF Flush, Requeue, Message
<1>3. \A n \in Nat, s \in Seq(Pairs), c \in 0 .. MaxChords :
        /\ Batch(s, n, c) \in Message /\ Batch(s, n, c).task = "flush_batch"
        /\ Batch(s, n, c).pass = n /\ Key(Batch(s, n, c)).pairs = s
        /\ Key(Batch(s, n, c)) = Key(Batch(s, n, 0))
  BY <1>1 DEF Batch, Message, Key
<1> QED BY <1>2, <1>3

LEMMA Everything ==
  /\ \A i \in 1 .. Len(queue) : queue[i] \in Alive
  /\ \A w \in Workers : job[w] # None => job[w] \in Alive
  /\ \A m \in Alive : \/ \E i \in 1 .. Len(queue) : m = queue[i]
                      \/ \E w \in Workers : job[w] # None /\ m = job[w]
BY DEF Alive, Queued, Executing

LEMMA EverythingNext ==
  \A m \in Alive' : \/ \E i \in 1 .. Len(queue') : m = queue'[i]
                    \/ \E w \in Workers : job'[w] # None /\ m = job'[w]
BY DEF Alive, Queued, Executing

-----------------------------------------------------------------------------
(* Steps that append to the queue, and let workers finish *)

LEMMA Joined ==
  ASSUME queue \in Seq(Message), NEW new \in Seq(Message), queue' = queue \o new
  PROVE  /\ Len(queue) \in Nat /\ Len(new) \in Nat
         /\ queue' \in Seq(Message)
         /\ \A i \in 1 .. Len(queue') :
              \/ i \in 1 .. Len(queue) /\ queue'[i] = queue[i]
              \/ i - Len(queue) \in 1 .. Len(new) /\ queue'[i] = new[i - Len(queue)]
<1>1. Len(queue) \in Nat /\ Len(new) \in Nat
  OBVIOUS
<1>2. /\ queue' \in Seq(Message) /\ Len(queue') = Len(queue) + Len(new)
      /\ \A i \in 1 .. Len(queue) + Len(new) :
            queue'[i] = IF i <= Len(queue) THEN queue[i] ELSE new[i - Len(queue)]
  BY ConcatProperties
<1>3. ASSUME NEW i \in 1 .. Len(queue')
      PROVE  \/ i \in 1 .. Len(queue) /\ queue'[i] = queue[i]
             \/ i - Len(queue) \in 1 .. Len(new) /\ queue'[i] = new[i - Len(queue)]
  <2>1. i \in 1 .. Len(queue) + Len(new)
    BY <1>2
  <2>2. CASE i <= Len(queue)
    <3>1. i \in 1 .. Len(queue)
      BY <1>1, <2>1, <2>2
    <3> QED BY <1>2, <2>1, <2>2, <3>1
  <2>3. CASE ~(i <= Len(queue))
    <3>1. i - Len(queue) \in 1 .. Len(new)
      BY <1>1, <2>1, <2>3
    <3> QED BY <1>2, <2>1, <2>3, <3>1
  <2> QED BY <2>2, <2>3
<1> QED BY <1>1, <1>2, <1>3

LEMMA NothingNew ==
  ASSUME queue \in Seq(Message), queue' = queue
  PROVE  \E new \in Seq(Message) :
            queue' = queue \o new /\ Len(new) = 0 /\ \A k \in 1 .. Len(new) : FALSE
<1>1. /\ <<>> \in Seq(Message) /\ queue' = queue \o <<>> /\ Len(<<>>) = 0
      /\ \A k \in 1 .. Len(<<>>) : FALSE
  OBVIOUS
<1> WITNESS <<>> \in Seq(Message)
<1> QED BY <1>1

LEMMA OnGrowth ==
  ASSUME IInv, TypeOK', NEW new \in Seq(Message), queue' = queue \o new,
         \A v \in Workers : job'[v] \in {job[v], None},
         \A v \in Workers : \/ rest'[v] = rest[v] \/ job'[v] = None
                            \/ job'[v].task # "flush_via_queue",
         spent'["expiry"] = 0 => spent["expiry"] = 0,
         \A k \in 1 .. Len(new) :
            /\ new[k].pass <= MaxPasses
            /\ new[k].task # "requeue" => Key(new[k]) \notin locks /\ Key(new[k]) \in locks',
         \A k, l \in 1 .. Len(new) : k # l => Key(new[k]) # Key(new[l]),
         spent'["expiry"] = 0 =>
            /\ \A i \in 1 .. Len(queue) : queue[i].task # "requeue" => Key(queue[i]) \in locks'
            /\ \A v \in Workers :
                job'[v] # None /\ job'[v].task # "requeue" => Key(job'[v]) \in locks'
  PROVE  IInv'
<1>t. /\ queue \in Seq(Message) /\ job \in [Workers -> Message \cup {None}]
      /\ queue' \in Seq(Message)
  BY DEF IInv, TypeOK
<1>q. /\ Len(queue) \in Nat /\ Len(new) \in Nat
      /\ \A i \in 1 .. Len(queue') :
              \/ i \in 1 .. Len(queue) /\ queue'[i] = queue[i]
              \/ i - Len(queue) \in 1 .. Len(new) /\ queue'[i] = new[i - Len(queue)]
  BY <1>t, Joined
<1>m. /\ \A i \in 1 .. Len(queue) : queue[i] \in Message
      /\ \A k \in 1 .. Len(new) : new[k] \in Message
      /\ \A v \in Workers : job[v] # None => job[v] \in Message
  BY <1>t
<1>1. PassesBounded'
  <2> SUFFICES ASSUME NEW m \in Alive'
               PROVE  m.pass <= MaxPasses
    BY DEF PassesBounded
  <2>1. CASE \E i \in 1 .. Len(queue') : m = queue'[i]
    BY <1>q, <2>1, Everything DEF IInv, PassesBounded
  <2>2. CASE \E w \in Workers : job'[w] # None /\ m = job'[w]
    BY <2>2, Everything DEF IInv, PassesBounded
  <2> QED BY <2>1, <2>2, EverythingNext
<1>2. Listed'
  <2> SUFFICES ASSUME NEW w \in Workers, job'[w] # None, job'[w].task = "flush_via_queue",
                      NEW i \in 1 .. Len(rest'[w]), NEW j \in 1 .. Len(rest'[w]), i # j
               PROVE  rest'[w][i] # rest'[w][j]
    BY DEF Listed
  <2>1. job'[w] = job[w] /\ rest'[w] = rest[w]
    OBVIOUS
  <2> QED BY <2>1 DEF IInv, Listed
<1>3. OneCopy'
  <2> SUFFICES ASSUME spent'["expiry"] = 0
               PROVE  OneCopy'
    BY DEF OneCopy
  <2>o. /\ \A m \in Alive : m.task # "requeue" => Key(m) \in locks
        /\ \A i, j \in 1 .. Len(queue) :
            i # j /\ queue[i].task # "requeue" => Key(queue[i]) # Key(queue[j])
        /\ \A w \in Workers, i \in 1 .. Len(queue) :
            job[w] # None /\ queue[i].task # "requeue" =>
                Key(job[w]) # Key(queue[i])
        /\ \A v, w \in Workers :
            v # w /\ job[v] # None /\ job[w] # None /\ job[v].task # "requeue" =>
                Key(job[v]) # Key(job[w])
    BY DEF IInv, OneCopy
  (* A new call is not yet there.                                          *)
  <2>n. ASSUME NEW m \in Message, m \in Alive, NEW k \in 1 .. Len(new),
               m.task # "requeue" \/ new[k].task # "requeue"
        PROVE  Key(m) # Key(new[k])
    <3>1. CASE m.task = new[k].task
      BY <2>n, <2>o, <3>1
    <3>2. CASE m.task # new[k].task
      BY <1>m, <3>2, Keys
    <3> QED BY <3>1, <3>2
  <2>1. ASSUME NEW m \in Alive', m.task # "requeue"
        PROVE  Key(m) \in locks'
    <3>1. CASE \E i \in 1 .. Len(queue') : m = queue'[i]
      BY <1>q, <2>1, <3>1
    <3>2. CASE \E w \in Workers : job'[w] # None /\ m = job'[w]
      BY <2>1, <3>2
    <3> QED BY <3>1, <3>2, EverythingNext
  <2>2. ASSUME NEW i \in 1 .. Len(queue'), NEW j \in 1 .. Len(queue'),
               i # j, queue'[i].task # "requeue"
        PROVE  Key(queue'[i]) # Key(queue'[j])
    <3>1. CASE i \in 1 .. Len(queue) /\ queue'[i] = queue[i]
      <4>1. CASE j \in 1 .. Len(queue) /\ queue'[j] = queue[j]
        BY <2>2, <2>o, <3>1, <4>1
      <4>2. CASE j - Len(queue) \in 1 .. Len(new) /\ queue'[j] = new[j - Len(queue)]
        <5>1. queue[i] \in Message /\ queue[i] \in Alive
          BY <1>m, <3>1, Everything
        <5> QED BY <2>2, <2>n, <3>1, <4>2, <5>1
      <4> QED BY <1>q, <4>1, <4>2
    <3>2. CASE i - Len(queue) \in 1 .. Len(new) /\ queue'[i] = new[i - Len(queue)]
      <4>1. CASE j \in 1 .. Len(queue) /\ queue'[j] = queue[j]
        <5>1. queue[j] \in Message /\ queue[j] \in Alive
          BY <1>m, <4>1, Everything
        <5> QED BY <2>2, <2>n, <3>2, <4>1, <5>1
      <4>2. CASE j - Len(queue) \in 1 .. Len(new) /\ queue'[j] = new[j - Len(queue)]
        <5>1. i - Len(queue) # j - Len(queue)
          BY <1>q, <2>2
        <5> QED BY <3>2, <4>2, <5>1
      <4> QED BY <1>q, <4>1, <4>2
    <3> QED BY <1>q, <3>1, <3>2
  <2>3. ASSUME NEW w \in Workers, NEW i \in 1 .. Len(queue'), job'[w] # None,
               queue'[i].task # "requeue"
        PROVE  Key(job'[w]) # Key(queue'[i])
    <3>1. job'[w] = job[w] /\ job[w] \in Message /\ job[w] \in Alive
      BY <1>m, <2>3, Everything
    <3>2. CASE i \in 1 .. Len(queue) /\ queue'[i] = queue[i]
      BY <2>3, <2>o, <3>1, <3>2
    <3>3. CASE i - Len(queue) \in 1 .. Len(new) /\ queue'[i] = new[i - Len(queue)]
      BY <2>3, <2>n, <3>1, <3>3
    <3> QED BY <1>q, <3>2, <3>3
  <2>4. ASSUME NEW v \in Workers, NEW w \in Workers, v # w, job'[v] # None, job'[w] # None,
               job'[v].task # "requeue"
        PROVE  Key(job'[v]) # Key(job'[w])
    BY <2>4, <2>o
  <2> QED BY <2>1, <2>2, <2>3, <2>4 DEF OneCopy
<1> QED BY <1>1, <1>2, <1>3 DEF IInv

LEMMA OnCalm ==
  ASSUME IInv, TypeOK', UNCHANGED <<queue, job>>,
         \A v \in Workers : \/ rest'[v] = rest[v] \/ job[v] = None
                            \/ job[v].task # "flush_via_queue",
         spent'["expiry"] = 0 => spent["expiry"] = 0,
         spent'["expiry"] = 0 =>
            \A m \in Alive : m.task # "requeue" => Key(m) \in locks'
  PROVE  IInv'
<1>1. /\ <<>> \in Seq(Message) /\ queue' = queue \o <<>> /\ Len(<<>>) = 0
      /\ \A k \in 1 .. Len(<<>>) : FALSE
  BY DEF IInv, TypeOK
<1> DEFINE new == <<>>
<1>2. new \in Seq(Message) /\ queue' = queue \o new /\ \A k \in 1 .. Len(new) : FALSE
  BY <1>1
<1> HIDE DEF new
<1> QED BY <1>2, OnGrowth, Everything

-----------------------------------------------------------------------------
(* The application and the daemon *)

LEMMA Spent ==
  ASSUME TypeOK, NEW k \in Counters, Spend(k)
  PROVE  /\ spent' \in [Counters -> Nat]
         /\ spent'["expiry"] = 0 => spent["expiry"] = 0
         /\ k = "expiry" => spent'["expiry"] # 0
<1>1. spent \in [Counters -> Nat] /\ "expiry" \in Counters
  BY DEF TypeOK, Counters
<1>2. spent' = [spent EXCEPT ![k] = @ + 1]
  BY DEF Spend
<1>3. spent[k] \in Nat /\ spent[k] + 1 \in Nat /\ spent[k] + 1 # 0
  BY <1>1
<1> QED BY <1>1, <1>2, <1>3

LEMMA SpentSame ==
  ASSUME TypeOK, spent' = spent
  PROVE  spent' \in [Counters -> Nat] /\ (spent'["expiry"] = 0 => spent["expiry"] = 0)
BY DEF TypeOK, Counters

LEMMA WriteStep ==
  ASSUME IInv, NEW p \in Pairs, Write(p)
  PROVE  IInv'
<1>t. TypeOK /\ "write" \in Counters
  BY DEF IInv, Counters
<1>1. /\ UNCHANGED <<busy, conn, queue, locks, job, rest>> /\ Spend("write")
      /\ dirty' = dirty \cup {p} /\ notified' = (notified \/ conn = "ok")
  BY DEF Write
<1>2. /\ spent' \in [Counters -> Nat]
      /\ spent'["expiry"] = 0 => spent["expiry"] = 0
  BY <1>t, <1>1, Spent
<1>3. TypeOK'
  BY <1>t, <1>1, <1>2 DEF TypeOK, Counters
<1> QED BY <1>1, <1>2, <1>3, OnCalm DEF IInv, OneCopy

LEMMA ConnectionDiesStep ==
  ASSUME IInv, ConnectionDies
  PROVE  IInv'
<1>t. TypeOK /\ "drop" \in Counters
  BY DEF IInv, Counters
<1>1. /\ UNCHANGED <<dirty, busy, queue, locks, job, rest>> /\ Spend("drop")
      /\ conn' = "dead" /\ notified' = FALSE
  BY DEF ConnectionDies, Fault
<1>2. /\ spent' \in [Counters -> Nat]
      /\ spent'["expiry"] = 0 => spent["expiry"] = 0
  BY <1>t, <1>1, Spent
<1>3. TypeOK'
  BY <1>t, <1>1, <1>2 DEF TypeOK, Counters
<1> QED BY <1>1, <1>2, <1>3, OnCalm DEF IInv, OneCopy

LEMMA ReconnectStep ==
  ASSUME IInv, Reconnect
  PROVE  IInv'
<1>1. /\ UNCHANGED <<dirty, busy, notified, queue, locks, job, rest, spent>>
      /\ conn' = "none"
  BY DEF Reconnect
<1>2. TypeOK'
  BY <1>1 DEF IInv, TypeOK
<1> QED BY <1>1, <1>2, OnCalm DEF IInv, OneCopy

(* .delay() of a task with a lock: nothing, or one message and its lock.   *)
LEMMA Delayed ==
  ASSUME TypeOK, NEW m \in Message, m.task # "requeue", Delay(m, locks)
  PROVE  /\ queue' \in Seq(Message) /\ locks' \subseteq Locks /\ locks \subseteq locks'
         /\ \E new \in Seq(Message) :
              /\ queue' = queue \o new
              /\ \A k \in 1 .. Len(new) :
                    new[k] = m /\ Key(m) \notin locks /\ Key(m) \in locks'
              /\ \A k, l \in 1 .. Len(new) : k = l
<1>t. queue \in Seq(Message) /\ locks \subseteq Locks
  BY DEF TypeOK, Locks
<1>1. CASE Key(m) \in locks
  <2>1. queue' = queue /\ locks' = locks
    BY <1>1 DEF Delay
  <2>2. /\ <<>> \in Seq(Message) /\ queue' = queue \o <<>>
        /\ \A k \in 1 .. Len(<<>>) : FALSE
    BY <1>t, <2>1
  <2> QED BY <1>t, <2>1, <2>2
<1>2. CASE Key(m) \notin locks
  <2>1. queue' = Append(queue, m) /\ locks' = locks \cup {Key(m)}
    BY <1>2 DEF Delay
  <2>2. Append(queue, m) = queue \o <<m>> /\ <<m>> \in Seq(Message)
    BY <1>t, AppendIsConcat
  <2>3. \A k \in 1 .. Len(<<m>>) : k = 1 /\ <<m>>[k] = m
    OBVIOUS
  <2>4. queue' \in Seq(Message) /\ locks' \subseteq Locks
    BY <1>t, <2>1, Keys
  <2> QED BY <1>2, <2>1, <2>2, <2>3, <2>4
<1> QED BY <1>1, <1>2

LEMMA OnDelay ==
  ASSUME IInv, TypeOK', NEW m \in Message, m.task # "requeue", m.pass <= MaxPasses,
         Delay(m, locks), UNCHANGED <<rest, spent>>,
         \A v \in Workers : job'[v] \in {job[v], None}
  PROVE  IInv'
<1>1. /\ locks \subseteq locks'
      /\ \E new \in Seq(Message) :
              /\ queue' = queue \o new
              /\ \A k \in 1 .. Len(new) :
                    new[k] = m /\ Key(m) \notin locks /\ Key(m) \in locks'
              /\ \A k, l \in 1 .. Len(new) : k = l
  BY Delayed DEF IInv
<1>2. PICK new \in Seq(Message) :
              /\ queue' = queue \o new
              /\ \A k \in 1 .. Len(new) :
                    new[k] = m /\ Key(m) \notin locks /\ Key(m) \in locks'
              /\ \A k, l \in 1 .. Len(new) : k = l
  BY <1>1
<1>3. spent["expiry"] = 0 => \A a \in Alive : a.task # "requeue" => Key(a) \in locks'
  BY <1>1 DEF IInv, OneCopy
<1>4. spent'["expiry"] = 0 =>
        /\ \A i \in 1 .. Len(queue) : queue[i].task # "requeue" => Key(queue[i]) \in locks'
        /\ \A v \in Workers :
            job'[v] # None /\ job'[v].task # "requeue" => Key(job'[v]) \in locks'
  BY <1>3, Everything
<1> QED BY <1>2, <1>4, OnGrowth

LEMMA ListenStep ==
  ASSUME IInv, Listen
  PROVE  IInv'
<1>t. TypeOK /\ 0 <= MaxPasses
  BY QueueBoundAssumption DEF IInv
<1>1. /\ UNCHANGED <<dirty, busy, notified, job, rest, spent>>
      /\ Delay(Flush(0), locks) /\ conn' = "ok"
  BY DEF Listen
<1>2. /\ Flush(0) \in Message /\ Flush(0).task = "flush_via_queue"
      /\ Flush(0).pass = 0
  BY Calls
<1>3. TypeOK'
  <2>1. queue' \in Seq(Message) /\ locks' \subseteq Locks
    BY <1>t, <1>1, <1>2, Delayed
  <2> QED BY <1>t, <1>1, <2>1 DEF TypeOK, Locks
<1> QED BY <1>t, <1>1, <1>2, <1>3, OnDelay

LEMMA DispatchStep ==
  ASSUME IInv, Dispatch
  PROVE  IInv'
<1>t. TypeOK /\ 0 <= MaxPasses
  BY QueueBoundAssumption DEF IInv
<1>1. /\ UNCHANGED <<dirty, busy, conn, job, rest, spent>>
      /\ Delay(Flush(0), locks) /\ notified' = FALSE
  BY DEF Dispatch, Redispatch
<1>2. /\ Flush(0) \in Message /\ Flush(0).task = "flush_via_queue"
      /\ Flush(0).pass = 0
  BY Calls
<1>3. TypeOK'
  <2>1. queue' \in Seq(Message) /\ locks' \subseteq Locks
    BY <1>t, <1>1, <1>2, Delayed
  <2> QED BY <1>t, <1>1, <2>1 DEF TypeOK, Locks
<1> QED BY <1>t, <1>1, <1>2, <1>3, OnDelay

-----------------------------------------------------------------------------
(* Flushes of the pairs of a batch, and locks that expire *)

LEMMA InBatchTask ==
  ASSUME TypeOK, NEW w \in Workers, InBatch(w), rest[w] # <<>>
  PROVE  /\ job[w].task # "flush_via_queue" /\ job[w] \in Message
         /\ Head(rest[w]) \in Pairs /\ Tail(rest[w]) \in Seq(Pairs)
         /\ rest \in [Workers -> Seq(Pairs)]
BY DEF InBatch, TypeOK

LEMMA FlushSkipStep ==
  ASSUME IInv, NEW w \in Workers, FlushSkip(w)
  PROVE  IInv'
<1>1. TypeOK /\ InBatch(w) /\ rest[w] # <<>>
  BY DEF IInv, FlushSkip
<1>2. /\ UNCHANGED <<dirty, busy, conn, notified, queue, locks, job, spent>>
      /\ rest' = [rest EXCEPT ![w] = Tail(rest[w])]
  BY DEF FlushSkip
<1>3. TypeOK'
  BY <1>1, <1>2, InBatchTask DEF TypeOK
<1>4. \A v \in Workers : rest'[v] = rest[v] \/ job[v].task # "flush_via_queue"
  BY <1>1, <1>2, InBatchTask
<1> QED BY <1>2, <1>3, <1>4, OnCalm DEF IInv, OneCopy

LEMMA FlushBeginStep ==
  ASSUME IInv, NEW w \in Workers, FlushBegin(w)
  PROVE  IInv'
<1>1. TypeOK /\ InBatch(w) /\ rest[w] # <<>>
  BY DEF IInv, FlushBegin
<1>2. /\ UNCHANGED <<dirty, conn, notified, queue, locks, job, rest, spent>>
      /\ busy' = [busy EXCEPT ![Head(rest[w])] = w]
  BY DEF FlushBegin
<1>3. TypeOK'
  BY <1>1, <1>2, InBatchTask DEF TypeOK
<1> QED BY <1>2, <1>3, OnCalm DEF IInv, OneCopy

LEMMA FlushCommitStep ==
  ASSUME IInv, NEW w \in Workers, FlushCommit(w)
  PROVE  IInv'
<1>1. TypeOK /\ InBatch(w) /\ rest[w] # <<>>
  BY DEF IInv, FlushCommit
<1> DEFINE p == Head(rest[w])
<1>2. /\ UNCHANGED <<conn, notified, queue, locks, job, spent>>
      /\ rest' = [rest EXCEPT ![w] = Tail(rest[w])]
      /\ busy' = [busy EXCEPT ![p] = None]
      /\ \E C \in SUBSET Cascade[p] : dirty' = (dirty \ {p}) \cup C
  BY DEF FlushCommit
<1>3. TypeOK'
  <2>1. p \in Pairs /\ Cascade[p] \subseteq Pairs
    BY <1>1, InBatchTask, PairAssumption
  <2>2. dirty' \subseteq Pairs
    BY <1>1, <1>2, <2>1 DEF TypeOK
  <2> HIDE DEF p
  <2> QED BY <1>1, <1>2, <2>1, <2>2, InBatchTask DEF TypeOK
<1>4. \A v \in Workers : rest'[v] = rest[v] \/ job[v].task # "flush_via_queue"
  BY <1>1, <1>2, InBatchTask
<1> QED BY <1>2, <1>3, <1>4, OnCalm DEF IInv, OneCopy

LEMMA FlushFailsStep ==
  ASSUME IInv, NEW w \in Workers, FlushFails(w)
  PROVE  IInv'
<1>1. TypeOK /\ InBatch(w) /\ rest[w] # <<>> /\ "error" \in Counters
  BY DEF IInv, FlushFails, Counters
<1>2. /\ UNCHANGED <<dirty, conn, notified, queue, locks, job>>
      /\ rest' = [rest EXCEPT ![w] = Tail(rest[w])]
      /\ busy' = [busy EXCEPT ![Head(rest[w])] = None]
      /\ spent' = spent \/ Spend("error")
  BY DEF FlushFails, AfterError, Fault
<1>3. /\ spent' \in [Counters -> Nat]
      /\ spent'["expiry"] = 0 => spent["expiry"] = 0
  BY <1>1, <1>2, Spent, SpentSame
<1>4. TypeOK'
  BY <1>1, <1>2, <1>3, InBatchTask DEF TypeOK, Counters
<1>5. \A v \in Workers : rest'[v] = rest[v] \/ job[v].task # "flush_via_queue"
  BY <1>1, <1>2, InBatchTask
<1> QED BY <1>2, <1>3, <1>4, <1>5, OnCalm DEF IInv, OneCopy

LEMMA ExpireLeakedStep ==
  ASSUME IInv, ExpireLeaked
  PROVE  IInv'
<1>1. PICK k \in LeakedLocks : locks' = locks \ {k}
  BY DEF ExpireLeaked
<1>2. UNCHANGED <<dirty, busy, conn, notified, queue, job, rest, spent>>
  BY DEF ExpireLeaked
<1>3. TypeOK'
  BY <1>1, <1>2 DEF IInv, TypeOK
<1>4. \A m \in Alive : Key(m) \in locks => Key(m) \in locks'
  BY <1>1 DEF LeakedLocks
<1> QED BY <1>2, <1>3, <1>4, OnCalm DEF IInv, OneCopy

LEMMA ExpireEarlyStep ==
  ASSUME IInv, ExpireEarly
  PROVE  IInv'
<1>t. TypeOK /\ "expiry" \in Counters
  BY DEF IInv, Counters
<1>1. /\ UNCHANGED <<dirty, busy, conn, notified, queue, job, rest>>
      /\ Spend("expiry") /\ locks' \subseteq locks
  BY DEF ExpireEarly, Fault
<1>2. spent' \in [Counters -> Nat] /\ spent'["expiry"] # 0
  BY <1>t, <1>1, Spent
<1>3. TypeOK'
  BY <1>t, <1>1, <1>2 DEF TypeOK, Counters
<1> QED BY <1>1, <1>2, <1>3, OnCalm

-----------------------------------------------------------------------------
(* Tasks that end *)

(* The lock a task drops is not the one of another call.                   *)
LEMMA LockOfOthers ==
  ASSUME IInv, spent["expiry"] = 0, NEW w \in Workers, job[w] # None
  PROVE  /\ \A i \in 1 .. Len(queue) : queue[i].task # "requeue" =>
              Key(queue[i]) \in locks \ {Key(job[w])}
         /\ \A v \in Workers : v # w /\ job[v] # None /\ job[v].task # "requeue" =>
              Key(job[v]) \in locks \ {Key(job[w])}
BY Everything DEF IInv, OneCopy

LEMMA FlushNothingStep ==
  ASSUME IInv, NEW w \in Workers, FlushNothing(w)
  PROVE  IInv'
<1>1. /\ UNCHANGED <<dirty, busy, conn, notified, queue, spent>>
      /\ job[w] # None
      /\ locks' = locks \ {Key(job[w])}
      /\ job' = [job EXCEPT ![w] = None]
      /\ rest' = [rest EXCEPT ![w] = <<>>]
  BY DEF FlushNothing
<1>2. TypeOK'
  BY <1>1 DEF IInv, TypeOK
<1>3. /\ job'[w] = None
      /\ \A v \in Workers : v # w => job'[v] = job[v] /\ rest'[v] = rest[v]
  BY <1>1 DEF IInv, TypeOK
<1>4. PICK new \in Seq(Message) :
        queue' = queue \o new /\ \A k \in 1 .. Len(new) : FALSE
  BY <1>1, NothingNew DEF IInv, TypeOK
<1>6. spent'["expiry"] = 0 =>
        /\ \A i \in 1 .. Len(queue) : queue[i].task # "requeue" => Key(queue[i]) \in locks'
        /\ \A v \in Workers :
            job'[v] # None /\ job'[v].task # "requeue" => Key(job'[v]) \in locks'
  BY <1>1, <1>3, LockOfOthers
<1>7. \A v \in Workers : job'[v] \in {job[v], None}
  BY <1>3
<1>8. \A v \in Workers : rest'[v] = rest[v] \/ job'[v] = None
  BY <1>3
<1> QED BY <1>1, <1>2, <1>4, <1>6, <1>7, <1>8, OnGrowth

LEMMA BatchDoneStep ==
  ASSUME IInv, NEW w \in Workers, BatchDone(w)
  PROVE  IInv'
<1>1. /\ UNCHANGED <<dirty, busy, conn, notified, rest, spent>>
      /\ job[w] # None
      /\ locks' = locks \ {Key(job[w])}
      /\ job' = [job EXCEPT ![w] = None]
      /\ queue' = Append(queue, Requeue(job[w].pass)) \/ queue' = queue
  BY DEF BatchDone, InBatch, SendCallback
<1>t. /\ queue \in Seq(Message) /\ job[w] \in Message /\ job[w].pass \in Nat
      /\ job[w].pass <= MaxPasses
  BY <1>1, Everything DEF IInv, TypeOK, PassesBounded, Message
<1> DEFINE m == Requeue(job[w].pass)
<1>m. m \in Message /\ m.task = "requeue" /\ m.pass <= MaxPasses
  BY <1>t, Calls
<1> HIDE DEF m
<1>4. \E new \in Seq(Message) :
        queue' = queue \o new /\ Len(new) \in {0, 1} /\ \A k \in 1 .. Len(new) : new[k] = m
  <2>1. CASE queue' = queue
    <3>1. PICK new \in Seq(Message) :
            queue' = queue \o new /\ Len(new) = 0 /\ \A k \in 1 .. Len(new) : FALSE
      BY <1>t, <2>1, NothingNew
    <3> QED BY <3>1
  <2>2. CASE queue' = Append(queue, m)
    <3>1. /\ <<m>> \in Seq(Message) /\ Len(<<m>>) = 1
          /\ \A k \in 1 .. Len(<<m>>) : <<m>>[k] = m
      BY <1>m
    <3>2. queue' = queue \o <<m>>
      BY <1>t, <1>m, <2>2, AppendIsConcat
    <3> QED BY <3>1, <3>2
  <2> QED BY <1>1, <2>1, <2>2 DEF m
<1>5. PICK new \in Seq(Message) :
        queue' = queue \o new /\ Len(new) \in {0, 1} /\ \A k \in 1 .. Len(new) : new[k] = m
  BY <1>4
<1>2. TypeOK'
  <2>1. queue' \in Seq(Message)
    BY <1>t, <1>5, Joined
  <2> QED BY <1>1, <2>1 DEF IInv, TypeOK
<1>3. /\ job'[w] = None
      /\ \A v \in Workers : v # w => job'[v] = job[v]
  BY <1>1 DEF IInv, TypeOK
<1>6. spent'["expiry"] = 0 =>
        /\ \A i \in 1 .. Len(queue) : queue[i].task # "requeue" => Key(queue[i]) \in locks'
        /\ \A v \in Workers :
            job'[v] # None /\ job'[v].task # "requeue" => Key(job'[v]) \in locks'
  BY <1>1, <1>3, LockOfOthers
<1>7. \A v \in Workers : job'[v] \in {job[v], None}
  BY <1>3
<1>8. \A k \in 1 .. Len(new) : new[k].task = "requeue" /\ new[k].pass <= MaxPasses
  BY <1>5, <1>m
<1>9. \A k, l \in 1 .. Len(new) : k = l
  BY <1>5
<1> QED BY <1>1, <1>2, <1>5, <1>6, <1>7, <1>8, <1>9, OnGrowth

LEMMA FlushRequeueStep ==
  ASSUME IInv, NEW w \in Workers, FlushRequeue(w)
  PROVE  IInv'
<1>1. /\ UNCHANGED <<dirty, busy, conn, notified, rest, spent>>
      /\ job[w] # None
      /\ job' = [job EXCEPT ![w] = None]
      /\ UNCHANGED <<queue, locks>> \/ Delay(Flush(job[w].pass), locks)
  BY DEF FlushRequeue
<1>t. /\ queue \in Seq(Message) /\ job[w] \in Message /\ job[w].pass \in Nat
      /\ job[w].pass <= MaxPasses
  BY <1>1, Everything DEF IInv, TypeOK, PassesBounded, Message
<1> DEFINE m == Flush(job[w].pass)
<1>m. m \in Message /\ m.task # "requeue" /\ m.pass <= MaxPasses
  BY <1>t, Calls
<1> HIDE DEF m
<1>3. /\ job'[w] = None
      /\ \A v \in Workers : v # w => job'[v] = job[v]
  BY <1>1 DEF IInv, TypeOK
<1>4. \A v \in Workers : job'[v] \in {job[v], None}
  BY <1>3
<1>5. CASE UNCHANGED <<queue, locks>>
  <2>1. TypeOK'
    BY <1>1, <1>5 DEF IInv, TypeOK
  <2>2. PICK new \in Seq(Message) :
          queue' = queue \o new /\ \A k \in 1 .. Len(new) : FALSE
    BY <1>t, <1>5, NothingNew
  <2>4. spent'["expiry"] = 0 =>
          /\ \A i \in 1 .. Len(queue) : queue[i].task # "requeue" => Key(queue[i]) \in locks'
          /\ \A v \in Workers :
              job'[v] # None /\ job'[v].task # "requeue" => Key(job'[v]) \in locks'
    BY <1>1, <1>3, <1>5, LockOfOthers
  <2> QED BY <1>1, <1>4, <2>1, <2>2, <2>4, OnGrowth
<1>6. CASE Delay(m, locks)
  <2>1. queue' \in Seq(Message) /\ locks' \subseteq Locks
    BY <1>m, <1>6, Delayed DEF IInv
  <2>2. TypeOK'
    BY <1>1, <2>1 DEF IInv, TypeOK, Locks
  <2> QED BY <1>1, <1>4, <1>6, <1>m, <2>2, OnDelay
<1> QED BY <1>1, <1>5, <1>6 DEF m

-----------------------------------------------------------------------------
(* Snapshots and their chunks *)

(* A set in order names each of its elements once.                         *)
LEMMA Ordered ==
  ASSUME NEW S, IsFiniteSet(S), NEW rank, NEW s \in InOrder(S, rank),
         \A x \in S : rank[x] \in Nat
  PROVE  /\ s \in Seq(S) /\ Len(s) \in Nat /\ DOMAIN s = 1 .. Len(s)
         /\ \A i, j \in 1 .. Len(s) : i # j => s[i] # s[j]
<1>1. Cardinality(S) \in Nat
  BY FS_CardinalityType
<1>2. /\ s \in [1 .. Cardinality(S) -> S]
      /\ \A i, j \in DOMAIN s : i < j => rank[s[i]] < rank[s[j]]
  BY DEF InOrder
<1>3. s \in Seq(S) /\ Len(s) = Cardinality(S) /\ DOMAIN s = 1 .. Len(s)
  BY <1>1, <1>2
<1>4. ASSUME NEW i \in 1 .. Len(s), NEW j \in 1 .. Len(s), i < j
      PROVE  s[i] # s[j]
  <2>1. rank[s[i]] < rank[s[j]] /\ rank[s[i]] \in Nat
    BY <1>2, <1>3, <1>4
  <2> QED BY <2>1
<1>5. ASSUME NEW i \in 1 .. Len(s), NEW j \in 1 .. Len(s), i # j
      PROVE  s[i] # s[j]
  <2>1. i < j \/ j < i
    BY <1>1, <1>3, <1>5
  <2> QED BY <1>4, <2>1
<1> QED BY <1>1, <1>3, <1>5

(* Chunk i starts after i - 1 full ones, inside the sequence.              *)
LEMMA ChunkStart ==
  ASSUME NEW l \in Nat, NEW c \in Nat \ {0}, NEW i \in 1 .. ((l + c - 1) \div c)
  PROVE  (i - 1) * c < l
<1>1. ((l + c - 1) \div c) * c <= l + c - 1
  OBVIOUS
<1>2. i * c <= ((l + c - 1) \div c) * c
  OBVIOUS
<1>3. (i - 1) * c = i * c - c
  OBVIOUS
<1> QED BY <1>1, <1>2, <1>3

LEMMA ChunkStarts ==
  ASSUME NEW c \in Nat \ {0}, NEW i \in Nat, NEW j \in Nat, i # j
  PROVE  i * c # j * c
<1>1. i < j => i * c < j * c
  OBVIOUS
<1>2. j < i => j * c < i * c
  OBVIOUS
<1>3. i * c \in Nat /\ j * c \in Nat
  OBVIOUS
<1> QED BY <1>1, <1>2, <1>3

LEMMA ChunkCount ==
  ASSUME NEW l \in Nat, NEW c \in Nat \ {0}
  PROVE  (l + c - 1) \div c \in Nat
OBVIOUS

(* The chunks of a snapshot are sequences of pairs, no two of them equal:  *)
(* they start with different pairs.                                        *)
LEMMA ChunksDiffer ==
  ASSUME NEW s \in Seq(Pairs), \A i, j \in 1 .. Len(s) : i # j => s[i] # s[j]
  PROVE  /\ \E n \in Nat : DOMAIN Chunks(s) = 1 .. n
         /\ \A i \in DOMAIN Chunks(s) : Chunks(s)[i] \in Seq(Pairs)
         /\ \A i, j \in DOMAIN Chunks(s) : i # j => Chunks(s)[i] # Chunks(s)[j]
<1> DEFINE l == Len(s)
           last(i) == IF i * ChunkSize < l THEN i * ChunkSize ELSE l
           n == (l + ChunkSize - 1) \div ChunkSize
           first(i) == (i - 1) * ChunkSize + 1
<1>t. l \in Nat /\ ChunkSize \in Nat \ {0} /\ \A i \in 1 .. l : s[i] \in Pairs
  BY QueueBoundAssumption
<1>n. n \in Nat
  BY <1>t, ChunkCount
<1>c. Chunks(s) = [i \in 1 .. n |-> SubSeq(s, first(i), last(i))]
  BY DEF Chunks
<1>1. ASSUME NEW i \in 1 .. n
      PROVE  first(i) \in 1 .. l /\ last(i) \in first(i) .. l
  <2>1. i \in Nat /\ i - 1 \in Nat
    BY <1>n
  <2>2. (i - 1) * ChunkSize < l
    BY <1>t, ChunkStart
  <2>3. /\ (i - 1) * ChunkSize \in Nat /\ i * ChunkSize \in Nat
        /\ (i - 1) * ChunkSize = i * ChunkSize - ChunkSize
    BY <1>t, <2>1
  <2> QED BY <1>t, <2>2, <2>3
<1>2. ASSUME NEW i \in 1 .. n
      PROVE  /\ SubSeq(s, first(i), last(i)) \in Seq(Pairs)
             /\ SubSeq(s, first(i), last(i))[1] = s[first(i)]
  <2> HIDE DEF first, last, n
  <2>1. /\ first(i) \in 1 .. l /\ last(i) \in first(i) .. l
    BY <1>1
  <2>2. /\ first(i) \in Int /\ last(i) \in Int /\ 1 \in 1 .. last(i) - first(i) + 1
        /\ first(i) + 1 - 1 = first(i)
        /\ \A k \in first(i) .. last(i) : k \in 1 .. l
    BY <1>t, <2>1
  <2>3. \A k \in first(i) .. last(i) : s[k] \in Pairs
    BY <1>t, <2>2
  <2>4. /\ SubSeq(s, first(i), last(i)) \in Seq(Pairs)
        /\ \A k \in 1 .. last(i) - first(i) + 1 :
              SubSeq(s, first(i), last(i))[k] = s[first(i) + k - 1]
    BY <2>2, <2>3, SubSeqProperties
  <2> QED BY <2>2, <2>4
<1>3. ASSUME NEW i \in 1 .. n, NEW j \in 1 .. n, i # j
      PROVE  SubSeq(s, first(i), last(i)) # SubSeq(s, first(j), last(j))
  <2>1. /\ i - 1 \in Nat /\ j - 1 \in Nat /\ i - 1 # j - 1
    BY <1>n, <1>3
  <2>2. /\ (i - 1) * ChunkSize # (j - 1) * ChunkSize
        /\ (i - 1) * ChunkSize \in Nat /\ (j - 1) * ChunkSize \in Nat
    BY <1>t, <2>1, ChunkStarts
  <2>3. first(i) # first(j)
    BY <2>2
  <2>4. s[first(i)] # s[first(j)]
    BY <1>1, <2>3
  <2> QED BY <1>2, <2>4
<1>4. /\ DOMAIN Chunks(s) = 1 .. n
      /\ \A i \in 1 .. n : Chunks(s)[i] = SubSeq(s, first(i), last(i))
  BY <1>c
<1> HIDE DEF n, first, last
<1>5. \E k \in Nat : DOMAIN Chunks(s) = 1 .. k
  BY <1>n, <1>4
<1>6. \A i \in DOMAIN Chunks(s) : Chunks(s)[i] \in Seq(Pairs)
  BY <1>2, <1>4
<1>7. \A i, j \in DOMAIN Chunks(s) : i # j => Chunks(s)[i] # Chunks(s)[j]
  BY <1>3, <1>4
<1> QED BY <1>5, <1>6, <1>7

LEMMA FanOutStep ==
  ASSUME IInv, NEW w \in Workers, FanOut(w)
  PROVE  IInv'
<1> DEFINE J == job[w]
           next == J.pass + 1
           chunks == Chunks(rest[w])
           sent == {i \in DOMAIN chunks : Key(Batch(chunks[i], next, 0)) \notin locks}
           chord == IF sent = DOMAIN chunks THEN CHOOSE c \in FreeChords : TRUE ELSE 0
           new(e) == [k \in DOMAIN e |-> Batch(chunks[e[k]], next, chord)]
<1>1. /\ UNCHANGED <<dirty, busy, conn, notified, spent>>
      /\ J # None /\ J.task = "flush_via_queue" /\ ~(J.pass >= MaxPasses)
      /\ FreeChords # {}
      /\ job' = [job EXCEPT ![w] = None]
      /\ rest' = [rest EXCEPT ![w] = <<>>]
  BY DEF FanOut, CapReached
<1>2. PICK e \in InOrder(sent, [i \in sent |-> i]) :
        /\ queue' = queue \o new(e)
        /\ locks' = (locks \cup {Key(new(e)[k]) : k \in DOMAIN e}) \ {Key(J)}
  BY DEF FanOut
<1>t. /\ queue \in Seq(Message) /\ locks \subseteq Locks /\ J \in Message /\ J.pass \in Nat
      /\ rest[w] \in Seq(Pairs)
      /\ \A i, j \in 1 .. Len(rest[w]) : i # j => rest[w][i] # rest[w][j]
  BY <1>1 DEF IInv, TypeOK, Locks, Message, Listed
<1>n. next \in Nat /\ next <= MaxPasses
  BY <1>1, <1>t, QueueBoundAssumption
<1>h. chord \in 0 .. MaxChords
  <2>1. FreeChords \subseteq 1 .. MaxChords /\ MaxChords \in Nat
    BY QueueBoundAssumption DEF FreeChords
  <2>2. (CHOOSE c \in FreeChords : TRUE) \in 1 .. MaxChords
    BY <1>1, <2>1
  <2> QED BY <2>1, <2>2
<1>c. /\ \E n \in Nat : DOMAIN chunks = 1 .. n
      /\ \A i \in DOMAIN chunks : chunks[i] \in Seq(Pairs)
      /\ \A i, j \in DOMAIN chunks : i # j => chunks[i] # chunks[j]
  BY <1>t, ChunksDiffer
<1> HIDE DEF chunks
<1>e. /\ e \in Seq(sent) /\ Len(e) \in Nat /\ DOMAIN e = 1 .. Len(e)
      /\ \A k, l \in 1 .. Len(e) : k # l => e[k] # e[l]
  <2>1. IsFiniteSet(sent) /\ \A i \in sent : i \in Nat
    <3>1. PICK n \in Nat : DOMAIN chunks = 1 .. n
      BY <1>c
    <3>2. IsFiniteSet(1 .. n) /\ sent \subseteq 1 .. n /\ \A i \in 1 .. n : i \in Nat
      BY <3>1, FS_Interval
    <3> QED BY <3>2, FS_Subset
  <2>2. \A x \in sent : [i \in sent |-> i][x] \in Nat
    BY <2>1
  <2> HIDE DEF sent
  <2> QED BY <1>2, <2>1, <2>2, Ordered
<1>s. \A k \in 1 .. Len(e) :
        /\ e[k] \in DOMAIN chunks /\ chunks[e[k]] \in Seq(Pairs)
        /\ Key(Batch(chunks[e[k]], next, 0)) \notin locks
  <2>1. \A k \in 1 .. Len(e) : e[k] \in sent
    BY <1>e
  <2> QED BY <1>c, <2>1
<1> HIDE DEF sent, next, chord
<1>b. \A k \in 1 .. Len(e) :
        /\ new(e)[k] \in Message /\ new(e)[k].task = "flush_batch"
        /\ new(e)[k].pass <= MaxPasses
        /\ Key(new(e)[k]).pairs = chunks[e[k]]
        /\ Key(new(e)[k]) = Key(Batch(chunks[e[k]], next, 0))
        /\ Key(new(e)[k]).task = "flush_batch"
  <2> TAKE k \in 1 .. Len(e)
  <2>1. new(e)[k] = Batch(chunks[e[k]], next, chord)
    BY <1>e
  <2>2. /\ Batch(chunks[e[k]], next, chord) \in Message
        /\ Batch(chunks[e[k]], next, chord).task = "flush_batch"
        /\ Batch(chunks[e[k]], next, chord).pass = next
        /\ Key(Batch(chunks[e[k]], next, chord)).pairs = chunks[e[k]]
        /\ Key(Batch(chunks[e[k]], next, chord)) = Key(Batch(chunks[e[k]], next, 0))
    BY <1>s, <1>n, <1>h, Calls
  <2> HIDE DEF new
  <2>3. Key(new(e)[k]).task = "flush_batch"
    BY <2>1, <2>2, Keys
  <2> QED BY <1>n, <2>1, <2>2, <2>3
<1>d. DOMAIN new(e) = 1 .. Len(e)
  BY <1>e
<1> DEFINE b == new(e)
<1>f. /\ queue' = queue \o b
      /\ locks' = (locks \cup {Key(b[k]) : k \in 1 .. Len(e)}) \ {Key(J)}
  BY <1>2, <1>e
<1> HIDE DEF new, b
<1>g. b \in Seq(Message) /\ Len(b) = Len(e)
  <2>1. b = [k \in 1 .. Len(e) |-> b[k]] /\ \A k \in 1 .. Len(e) : b[k] \in Message
    BY <1>b, <1>e DEF b, new
  <2> QED BY <1>e, <2>1
<1>3. Key(J).task = "flush_via_queue"
  BY <1>1, <1>t, Keys
<1>4. TypeOK'
  <2>1. queue' \in Seq(Message)
    BY <1>t, <1>f, <1>g, Joined
  <2>2. \A k \in 1 .. Len(e) : Key(b[k]) \in Locks
    BY <1>b, Keys DEF b
  <2>3. locks' \subseteq Locks
    BY <1>t, <1>f, <2>2
  <2> HIDE DEF J
  <2> QED BY <1>1, <2>1, <2>3 DEF IInv, TypeOK, Locks
<1>5. /\ job'[w] = None
      /\ \A v \in Workers : v # w => job'[v] = job[v] /\ rest'[v] = rest[v]
  BY <1>1 DEF IInv, TypeOK
<1>6. /\ \A v \in Workers : job'[v] \in {job[v], None}
      /\ \A v \in Workers : rest'[v] = rest[v] \/ job'[v] = None
  BY <1>5
<1>7. \A k \in 1 .. Len(b) :
        /\ b[k].pass <= MaxPasses
        /\ Key(b[k]) \notin locks /\ Key(b[k]) \in locks'
  <2> TAKE k \in 1 .. Len(b)
  <2>1. k \in 1 .. Len(e)
    BY <1>g
  <2>2. /\ b[k].pass <= MaxPasses /\ Key(b[k]).task = "flush_batch"
        /\ Key(b[k]) \notin locks
    BY <1>b, <1>s, <2>1 DEF b
  <2>3. Key(b[k]) # Key(J)
    BY <1>3, <2>2
  <2> QED BY <1>f, <2>1, <2>2, <2>3
<1>8. \A k, l \in 1 .. Len(b) : k # l => Key(b[k]) # Key(b[l])
  <2> SUFFICES ASSUME NEW k \in 1 .. Len(e), NEW l \in 1 .. Len(e), k # l
               PROVE  Key(b[k]) # Key(b[l])
    BY <1>g
  <2>1. chunks[e[k]] # chunks[e[l]]
    BY <1>c, <1>e, <1>s
  <2>2. Key(b[k]).pairs = chunks[e[k]] /\ Key(b[l]).pairs = chunks[e[l]]
    BY <1>b DEF b
  <2> QED BY <2>1, <2>2
<1>9. spent'["expiry"] = 0 =>
        /\ \A i \in 1 .. Len(queue) : queue[i].task # "requeue" => Key(queue[i]) \in locks'
        /\ \A v \in Workers :
            job'[v] # None /\ job'[v].task # "requeue" => Key(job'[v]) \in locks'
  BY <1>1, <1>5, <1>f, LockOfOthers
<1> QED BY <1>1, <1>4, <1>6, <1>7, <1>8, <1>9, <1>f, <1>g, OnGrowth

-----------------------------------------------------------------------------
(* A worker takes a message, or dies with it *)

LEMMA TakeStep ==
  ASSUME IInv, NEW w \in Workers, Take(w)
  PROVE  IInv'
<1> DEFINE m == Head(queue)
<1>1. /\ UNCHANGED <<dirty, busy, conn, notified, locks, spent>>
      /\ job[w] = None /\ queue # <<>>
      /\ job' = [job EXCEPT ![w] = m]
      /\ queue' = Tail(queue)
  BY DEF Take
<1>2. PICK s \in IF m.task = "flush_via_queue" THEN Snapshots ELSE {m.pairs} :
        rest' = [rest EXCEPT ![w] = s]
  BY DEF Take
<1>t. /\ queue \in Seq(Message) /\ Len(queue) \in Nat
      /\ dirty \subseteq Pairs
      /\ job \in [Workers -> Message \cup {None}] /\ rest \in [Workers -> Seq(Pairs)]
  BY DEF IInv, TypeOK
<1>q. /\ m = queue[1] /\ m \in Message /\ 1 \in 1 .. Len(queue)
      /\ queue' \in Seq(Message)
      /\ \A i \in 1 .. Len(queue') : i + 1 \in 1 .. Len(queue) /\ queue'[i] = queue[i + 1]
  <2>1. /\ m \in Message /\ Tail(queue) \in Seq(Message)
        /\ Len(Tail(queue)) = Len(queue) - 1
        /\ \A i \in 1 .. Len(Tail(queue)) : Tail(queue)[i] = queue[i + 1]
    BY <1>1, <1>t, HeadTailProperties
  <2>2. m = queue[1] /\ 1 \in 1 .. Len(queue)
    BY <1>1, <1>t
  <2> QED BY <1>1, <1>t, <2>1, <2>2
<1>j. /\ job'[w] = m /\ rest'[w] = s
      /\ \A v \in Workers : v # w => job'[v] = job[v] /\ rest'[v] = rest[v]
  BY <1>1, <1>2, <1>t
<1>s. /\ s \in Seq(Pairs)
      /\ m.task = "flush_via_queue" => \A i, j \in 1 .. Len(s) : i # j => s[i] # s[j]
  <2>1. CASE m.task = "flush_via_queue"
    <3>1. PICK rank \in Orders : s \in InOrder(dirty, rank)
      BY <1>2, <2>1 DEF Snapshots
    <3>2. IsFiniteSet(dirty) /\ \A p \in dirty : rank[p] \in Nat
      BY <1>t, PairAssumption, FS_Subset
    <3>3. s \in Seq(dirty) /\ \A i, j \in 1 .. Len(s) : i # j => s[i] # s[j]
      BY <3>1, <3>2, Ordered
    <3> QED BY <1>t, <3>3
  <2>2. CASE m.task # "flush_via_queue"
    BY <1>2, <1>q, <2>2, Keys
  <2> QED BY <2>1, <2>2
<1> HIDE DEF m
<1>3. TypeOK'
  BY <1>1, <1>2, <1>q, <1>s DEF IInv, TypeOK
<1>a. \A a \in Alive' : a \in Alive
  <2> SUFFICES ASSUME NEW a \in Alive'
               PROVE  a \in Alive
    OBVIOUS
  <2>1. CASE \E i \in 1 .. Len(queue') : a = queue'[i]
    BY <1>q, <2>1, Everything
  <2>2. CASE \E v \in Workers : job'[v] # None /\ a = job'[v]
    BY <1>j, <1>q, <2>2, Everything
  <2> QED BY <2>1, <2>2, EverythingNext
<1>4. PassesBounded'
  BY <1>a DEF IInv, PassesBounded
<1>5. Listed'
  <2> SUFFICES ASSUME NEW v \in Workers, job'[v] # None, job'[v].task = "flush_via_queue",
                      NEW i \in 1 .. Len(rest'[v]), NEW j \in 1 .. Len(rest'[v]), i # j
               PROVE  rest'[v][i] # rest'[v][j]
    BY DEF Listed
  <2>1. CASE v = w
    BY <1>j, <1>s, <2>1
  <2>2. CASE v # w
    BY <1>j, <2>2 DEF IInv, Listed
  <2> QED BY <2>1, <2>2
<1>6. OneCopy'
  <2> SUFFICES ASSUME spent'["expiry"] = 0
               PROVE  OneCopy'
    BY DEF OneCopy
  <2>o. /\ \A a \in Alive : a.task # "requeue" => Key(a) \in locks
        /\ \A i, j \in 1 .. Len(queue) :
            i # j /\ queue[i].task # "requeue" => Key(queue[i]) # Key(queue[j])
        /\ \A v \in Workers, i \in 1 .. Len(queue) :
            job[v] # None /\ queue[i].task # "requeue" =>
                Key(job[v]) # Key(queue[i])
        /\ \A u, v \in Workers :
            u # v /\ job[u] # None /\ job[v] # None /\ job[u].task # "requeue" =>
                Key(job[u]) # Key(job[v])
    BY <1>1 DEF IInv, OneCopy
  <2>1. \A a \in Alive' : a.task # "requeue" => Key(a) \in locks'
    BY <1>1, <1>a, <2>o
  <2>2. ASSUME NEW i \in 1 .. Len(queue'), NEW j \in 1 .. Len(queue'), i # j,
               queue'[i].task # "requeue"
        PROVE  Key(queue'[i]) # Key(queue'[j])
    <3>1. i + 1 # j + 1
      BY <2>2
    <3> QED BY <1>q, <2>2, <2>o, <3>1
  <2>3. ASSUME NEW v \in Workers, NEW i \in 1 .. Len(queue'), job'[v] # None,
               queue'[i].task # "requeue"
        PROVE  Key(job'[v]) # Key(queue'[i])
    <3>1. CASE v = w
      <4>1. i + 1 # 1 /\ i + 1 \in 1 .. Len(queue) /\ queue'[i] = queue[i + 1]
        BY <1>q
      <4>2. Key(queue[i + 1]) # Key(queue[1])
        BY <1>q, <2>3, <2>o, <4>1
      <4> QED BY <1>j, <1>q, <3>1, <4>1, <4>2
    <3>2. CASE v # w
      BY <1>j, <1>q, <2>3, <2>o, <3>2
    <3> QED BY <3>1, <3>2
  <2>4. ASSUME NEW u \in Workers, NEW v \in Workers, u # v, job'[u] # None, job'[v] # None,
               job'[u].task # "requeue"
        PROVE  Key(job'[u]) # Key(job'[v])
    <3>1. CASE u = w
      (* the other one runs: its call is not the one that was queued *)
      <4>1. job[v] # None /\ job'[v] = job[v] /\ queue[1].task # "requeue"
        BY <1>j, <1>q, <2>4, <3>1
      <4>2. Key(job[v]) # Key(queue[1])
        BY <1>q, <2>o, <4>1
      <4> QED BY <1>j, <1>q, <3>1, <4>1, <4>2
    <3>2. CASE v = w
      <4>1. job[u] # None /\ job'[u] = job[u] /\ job[u] \in Message
        BY <1>j, <1>t, <2>4, <3>2
      <4>2. CASE queue[1].task # "requeue"
        BY <1>j, <1>q, <2>o, <3>2, <4>1, <4>2
      <4>3. CASE queue[1].task = "requeue"
        BY <1>j, <1>q, <2>4, <3>2, <4>1, <4>3, Keys
      <4> QED BY <4>2, <4>3
    <3>3. CASE u # w /\ v # w
      BY <1>j, <2>4, <2>o, <3>3
    <3> QED BY <3>1, <3>2, <3>3
  <2> QED BY <2>1, <2>2, <2>3, <2>4 DEF OneCopy
<1> QED BY <1>3, <1>4, <1>5, <1>6 DEF IInv

(* A broken chord changes no call.                                         *)
LEMMA WorkerCrashStep ==
  ASSUME IInv, NEW w \in Workers, WorkerCrash(w)
  PROVE  IInv'
<1> DEFINE dead(m) ==
             IF m = None \/ job[w].chord = 0 THEN m
             ELSE IF m.chord = job[w].chord THEN [m EXCEPT !.chord = 0] ELSE m
<1>1. /\ UNCHANGED <<dirty, conn, notified, locks>> /\ Spend("crash")
      /\ queue' = [i \in DOMAIN queue |-> dead(queue[i])]
      /\ job' = [v \in Workers |-> IF v = w THEN None ELSE dead(job[v])]
      /\ rest' = [rest EXCEPT ![w] = <<>>]
      /\ busy' = [p \in Pairs |-> IF busy[p] = w THEN None ELSE busy[p]]
  BY DEF WorkerCrash, Fault
<1>t. /\ queue \in Seq(Message) /\ Len(queue) \in Nat /\ DOMAIN queue = 1 .. Len(queue)
      /\ job \in [Workers -> Message \cup {None}] /\ rest \in [Workers -> Seq(Pairs)]
      /\ busy \in [Pairs -> Workers \cup {None}]
      /\ TypeOK /\ "crash" \in Counters
  BY DEF IInv, TypeOK, Counters
<1>d. \A m \in Message : /\ dead(m) \in Message /\ Key(dead(m)) = Key(m)
                         /\ dead(m).task = m.task /\ dead(m).pass = m.pass
  <2>1. 0 \in 0 .. MaxChords
    BY QueueBoundAssumption
  <2>2. \A m \in Message : LET n == [m EXCEPT !.chord = 0]
                           IN  /\ n \in Message /\ n.task = m.task /\ n.pass = m.pass
                               /\ n.pairs = m.pairs
    BY <2>1 DEF Message
  <2> QED BY <2>2 DEF Key
<1>n. dead(None) = None
  OBVIOUS
<1> HIDE DEF dead
<1>q. /\ queue' \in Seq(Message) /\ Len(queue') = Len(queue)
      /\ \A i \in 1 .. Len(queue) :
            /\ queue[i] \in Message /\ queue'[i] = dead(queue[i])
  <2>1. \A i \in 1 .. Len(queue) : queue[i] \in Message
    BY <1>t
  <2>2. queue' = [i \in 1 .. Len(queue) |-> dead(queue[i])]
    BY <1>1, <1>t
  <2>3. \A i \in 1 .. Len(queue) : dead(queue[i]) \in Message
    BY <1>d, <2>1
  <2> QED BY <1>t, <2>1, <2>2, <2>3
<1>j. \A v \in Workers : job'[v] # None =>
        /\ v # w /\ job[v] # None /\ job[v] \in Message
        /\ job'[v] = dead(job[v]) /\ rest'[v] = rest[v]
  BY <1>1, <1>n, <1>t
<1>s. /\ spent' \in [Counters -> Nat]
      /\ spent'["expiry"] = 0 => spent["expiry"] = 0
  BY <1>1, <1>t, Spent
<1>2. TypeOK'
  <2>1. job' \in [Workers -> Message \cup {None}]
    BY <1>1, <1>d, <1>n, <1>t
  <2>2. busy' \in [Pairs -> Workers \cup {None}] /\ rest' \in [Workers -> Seq(Pairs)]
    BY <1>1, <1>t
  <2> QED BY <1>1, <1>q, <1>s, <1>t, <2>1, <2>2 DEF TypeOK, Counters
<1>a. \A a \in Alive' : \E b \in Alive : b \in Message /\ a = dead(b)
  <2> SUFFICES ASSUME NEW a \in Alive'
               PROVE  \E b \in Alive : b \in Message /\ a = dead(b)
    OBVIOUS
  <2>1. CASE \E i \in 1 .. Len(queue') : a = queue'[i]
    BY <1>q, <2>1, Everything
  <2>2. CASE \E v \in Workers : job'[v] # None /\ a = job'[v]
    BY <1>j, <2>2, Everything
  <2> QED BY <2>1, <2>2, EverythingNext
<1>3. PassesBounded'
  BY <1>a, <1>d DEF IInv, PassesBounded
<1>4. Listed'
  <2> SUFFICES ASSUME NEW v \in Workers, job'[v] # None, job'[v].task = "flush_via_queue",
                      NEW i \in 1 .. Len(rest'[v]), NEW j \in 1 .. Len(rest'[v]), i # j
               PROVE  rest'[v][i] # rest'[v][j]
    BY DEF Listed
  <2>1. job[v] # None /\ job[v].task = "flush_via_queue" /\ rest'[v] = rest[v]
    BY <1>d, <1>j
  <2> QED BY <2>1 DEF IInv, Listed
<1>5. OneCopy'
  <2> SUFFICES ASSUME spent'["expiry"] = 0
               PROVE  OneCopy'
    BY DEF OneCopy
  <2>o. /\ \A a \in Alive : a.task # "requeue" => Key(a) \in locks
        /\ \A i, j \in 1 .. Len(queue) :
            i # j /\ queue[i].task # "requeue" => Key(queue[i]) # Key(queue[j])
        /\ \A v \in Workers, i \in 1 .. Len(queue) :
            job[v] # None /\ queue[i].task # "requeue" =>
                Key(job[v]) # Key(queue[i])
        /\ \A u, v \in Workers :
            u # v /\ job[u] # None /\ job[v] # None /\ job[u].task # "requeue" =>
                Key(job[u]) # Key(job[v])
    BY <1>s DEF IInv, OneCopy
  <2>1. \A a \in Alive' : a.task # "requeue" => Key(a) \in locks'
    BY <1>1, <1>a, <1>d, <2>o
  <2>2. \A i, j \in 1 .. Len(queue') :
          i # j /\ queue'[i].task # "requeue" => Key(queue'[i]) # Key(queue'[j])
    BY <1>d, <1>q, <2>o
  <2>3. \A v \in Workers, i \in 1 .. Len(queue') :
          job'[v] # None /\ queue'[i].task # "requeue" => Key(job'[v]) # Key(queue'[i])
    BY <1>d, <1>j, <1>q, <2>o
  <2>4. \A u, v \in Workers :
          u # v /\ job'[u] # None /\ job'[v] # None /\ job'[u].task # "requeue" =>
              Key(job'[u]) # Key(job'[v])
    BY <1>d, <1>j, <2>o
  <2> QED BY <2>1, <2>2, <2>3, <2>4 DEF OneCopy
<1> QED BY <1>2, <1>3, <1>4, <1>5 DEF IInv

-----------------------------------------------------------------------------
(* The invariant *)

LEMMA InitHolds == Init => IInv
<1> SUFFICES ASSUME Init PROVE IInv
  OBVIOUS
<1>1. TypeOK
  <2>1. /\ queue = <<>> /\ locks = {} /\ dirty = {} /\ conn = "none" /\ notified = FALSE
        /\ busy = [p \in Pairs |-> None] /\ job = [w \in Workers |-> None]
        /\ rest = [w \in Workers |-> <<>>] /\ spent = [k \in Counters |-> 0]
    BY DEF Init, Counters
  <2>2. queue \in Seq(Message) /\ \A w \in Workers : <<>> \in Seq(Pairs)
    BY <2>1
  <2>3. /\ busy \in [Pairs -> Workers \cup {None}]
        /\ job \in [Workers -> Message \cup {None}]
        /\ rest \in [Workers -> Seq(Pairs)] /\ spent \in [Counters -> Nat]
    BY <2>1, <2>2
  <2> QED BY <2>1, <2>2, <2>3 DEF TypeOK, Counters
<1>2. /\ Len(queue) = 0 /\ \A i \in 1 .. Len(queue) : FALSE
      /\ \A w \in Workers : job[w] = None
  BY DEF Init
<1>3. \A m \in Alive : FALSE
  BY <1>2, Everything
<1> QED BY <1>1, <1>2, <1>3 DEF IInv, PassesBounded, OneCopy, Listed

LEMMA StutterKeeps ==
  ASSUME IInv, UNCHANGED vars
  PROVE  IInv'
<1>1. UNCHANGED <<dirty, busy, conn, notified, queue, locks, job, rest, spent>>
  BY DEF vars
<1>2. TypeOK'
  BY <1>1 DEF IInv, TypeOK
<1> QED BY <1>1, <1>2, OnCalm DEF IInv, OneCopy

LEMMA StepHolds == IInv /\ [Next]_vars => IInv'
<1> SUFFICES ASSUME IInv, [Next]_vars
             PROVE  IInv'
  OBVIOUS
<1>1. CASE UNCHANGED vars
  BY <1>1, StutterKeeps
<1>2. ASSUME NEW p \in Pairs, Write(p)
      PROVE  IInv'
  BY <1>2, WriteStep
<1>3. CASE Daemon
  BY <1>3, ListenStep, DispatchStep, ReconnectStep DEF Daemon
<1>4. CASE ConnectionDies
  BY <1>4, ConnectionDiesStep
<1>5. ASSUME NEW w \in Workers, Worker(w)
      PROVE  IInv'
  BY <1>5, TakeStep, FlushNothingStep, FanOutStep, FlushSkipStep, FlushBeginStep,
     FlushCommitStep, FlushFailsStep, BatchDoneStep, FlushRequeueStep DEF Worker
<1>6. ASSUME NEW w \in Workers, WorkerCrash(w)
      PROVE  IInv'
  BY <1>6, WorkerCrashStep
<1>7. CASE ExpireLeaked
  BY <1>7, ExpireLeakedStep
<1>8. CASE ExpireEarly
  BY <1>8, ExpireEarlyStep
<1> QED BY <1>1, <1>2, <1>3, <1>4, <1>5, <1>6, <1>7, <1>8 DEF Next

(* The inductive invariant holds in every reachable state, for any pairs,  *)
(* cascades, workers, chunk sizes and bounds, and whatever connections are *)
(* lost, workers killed and locks expired (denorm_queue.py:85-140,         *)
(* tasks.py:27-147).                                                       *)
THEOREM QueueInvariant == Spec => []IInv
<1> QED BY InitHolds, StepHolds, PTL DEF Spec

(* The state keeps its types: a batch is a sequence of pairs, a lock names *)
(* a call, the chord of a message is one of the chords there are           *)
(* (tasks.py:67-135).                                                      *)
THEOREM QueueTypeCorrect == Spec => []TypeOK
<1>1. IInv => TypeOK
  BY DEF IInv
<1> QED BY <1>1, QueueInvariant, PTL

(* No task belongs to a pass beyond DENORM_MAX_QUEUE_PASSES: the pass of a *)
(* batch, and of the callback it may send, comes from a flush_via_queue    *)
(* below the cap (tasks.py:122-135).                                       *)
THEOREM PassesStayBounded == Spec => []PassesBounded
<1>1. IInv => PassesBounded
  BY DEF IInv
<1> QED BY <1>1, QueueInvariant, PTL

(* Until a task outlives its lock, no two messages or running tasks are    *)
(* the same flush_via_queue or flush_batch call, whoever dispatched them   *)
(* (tasks.py:101-109, denorm_queue.py:104 and 140).                        *)
THEOREM OneCopyAtATime == Spec => []OneCopy
<1>1. IInv => OneCopy
  BY DEF IInv
<1> QED BY <1>1, QueueInvariant, PTL
=============================================================================
