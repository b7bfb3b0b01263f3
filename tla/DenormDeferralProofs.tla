------------------------ MODULE DenormDeferralProofs ------------------------
(***************************************************************************)
(* Whatever a program nests, raises, catches or rolls back, what deferred  *)
(* blocks have kept from being computed is marked when it is committed, or *)
(* will be by a block that is still open; for any rows, columns, targets   *)
(* and depth of nesting.                                                   *)
(***************************************************************************)
EXTENDS DenormDeferral, SequenceTheorems, TLAPS

(* Frames pushed and popped.                                               *)
LEMMA Kinds ==
  ASSUME NEW f \in Frame
  PROVE  \/ f.kind = "block" /\ f.fields \subseteq Cells
         \/ f.kind = "atomic" /\ f.saved \in Saved /\ f.fields = {}
BY DEF Frame

LEMMA Pushed ==
  ASSUME stack \in Seq(Frame), NEW f \in Frame, stack' = Append(stack, f)
  PROVE  /\ stack' \in Seq(Frame)
         /\ Len(stack) \in Nat
         /\ Len(stack') = Len(stack) + 1
         /\ \A i \in 1 .. Len(stack) : stack'[i] = stack[i]
         /\ stack'[Len(stack) + 1] = f
         /\ Frames(f.kind)' = Frames(f.kind) \cup {Len(stack) + 1}
         /\ \A k : k # f.kind => Frames(k)' = Frames(k)
<1>1. /\ stack' \in Seq(Frame) /\ Len(stack) \in Nat /\ Len(stack') = Len(stack) + 1
      /\ \A i \in 1 .. Len(stack) : stack'[i] = stack[i]
      /\ stack'[Len(stack) + 1] = f
  OBVIOUS
<1>2. 1 .. Len(stack') = 1 .. Len(stack) \cup {Len(stack) + 1}
      /\ Len(stack) + 1 \notin 1 .. Len(stack)
  BY <1>1
<1>3. ASSUME NEW k
      PROVE  IF k = f.kind THEN Frames(k)' = Frames(k) \cup {Len(stack) + 1}
             ELSE Frames(k)' = Frames(k)
  BY <1>1, <1>2 DEF Frames
<1> QED BY <1>1, <1>3

LEMMA LengthPopped ==
  ASSUME NEW n \in Nat, n > 0
  PROVE  (IF 1 <= n - 1 THEN n - 1 - 1 + 1 ELSE 0) = n - 1
OBVIOUS

LEMMA Popped ==
  ASSUME stack \in Seq(Frame), stack # <<>>, stack' = Front(stack)
  PROVE  /\ stack' \in Seq(Frame)
         /\ Len(stack) \in Nat /\ Len(stack) > 0
         /\ Len(stack') = Len(stack) - 1
         /\ \A i \in 1 .. Len(stack) - 1 : stack'[i] = stack[i]
         /\ \A k : Frames(k)' = Frames(k) \ {Len(stack)}
<1>1. Len(stack) \in Nat /\ Len(stack) > 0
  OBVIOUS
<1>2. stack' = SubSeq(stack, 1, Len(stack) - 1)
  BY DEF Front
<1>3. /\ stack' \in Seq(Frame) /\ Len(stack') = Len(stack) - 1
      /\ \A i \in 1 .. Len(stack) - 1 : stack'[i] = stack[i]
  <2>1. \A i \in 1 .. Len(stack) - 1 : stack[i] \in Frame
    BY <1>1
  <2>2. /\ stack' \in Seq(Frame)
        /\ Len(stack') = IF 1 <= Len(stack) - 1 THEN Len(stack) - 1 - 1 + 1 ELSE 0
        /\ \A i \in 1 .. Len(stack) - 1 - 1 + 1 : stack'[i] = stack[1 + i - 1]
    BY <1>1, <1>2, <2>1, SubSeqProperties
  <2>3. Len(stack') = Len(stack) - 1
    BY <1>1, <2>2, LengthPopped
  <2>4. ASSUME NEW i \in 1 .. Len(stack) - 1
        PROVE  stack'[i] = stack[i]
    <3>1. i \in 1 .. Len(stack) - 1 - 1 + 1 /\ 1 + i - 1 = i
      BY <1>1
    <3> QED BY <2>2, <3>1
  <2> QED BY <2>2, <2>3, <2>4
<1>4. 1 .. Len(stack') = (1 .. Len(stack)) \ {Len(stack)}
  BY <1>1, <1>3
<1>5. ASSUME NEW k
      PROVE  Frames(k)' = Frames(k) \ {Len(stack)}
  BY <1>1, <1>3, <1>4 DEF Frames
<1> QED BY <1>1, <1>3, <1>5

LEMMA TopFrame ==
  ASSUME stack \in Seq(Frame), NEW k, InTop(k)
  PROVE  /\ Len(stack) \in Frames(k) /\ Last(stack) = stack[Len(stack)]
         /\ Last(stack) \in Frame /\ Last(stack).kind = k
BY DEF InTop, Frames, Last

-----------------------------------------------------------------------------
(* The database and its snapshots *)

LEMMA DatabaseTypes ==
  /\ Database \in Saved <=> /\ exists \subseteq Objects /\ stale \subseteq Cells
                           /\ marked \subseteq Cells \cup Objects
                           /\ orphaned \subseteq Cells
  /\ Lost(Database) = Unmarked(stale, marked) \ orphaned
  /\ Present(Database) <=> \A c \in stale : Owner[c] \in exists
BY DEF Database, Saved, Lost, Present

LEMMA DatabaseTypesNext ==
  /\ (Database \in Saved)' <=> /\ exists' \subseteq Objects /\ stale' \subseteq Cells
                              /\ marked' \subseteq Cells \cup Objects
                              /\ orphaned' \subseteq Cells
  /\ Lost(Database)' = Unmarked(stale', marked') \ orphaned'
  /\ Present(Database)' <=> \A c \in stale' : Owner[c] \in exists'
BY DEF Database, Saved, Lost, Present

LEMMA DeferredTypes ==
  ASSUME stack \in Seq(Frame)
  PROVE  Deferred \subseteq Cells /\ (~Active => Deferred = {})
<1>1. \A i \in Frames("block") : stack[i] \in Frame /\ stack[i].kind = "block"
  BY DEF Frames
<1>2. \A i \in Frames("block") : stack[i].fields \subseteq Cells
  BY <1>1, Kinds
<1> QED BY <1>2 DEF Deferred, Active

(* A write of the database, with the flush that may follow: what is lost   *)
(* then is what was written stale and unmarked.                            *)
LEMMA Writes ==
  ASSUME TypeOK, NEW S \in SUBSET Cells, NEW M \in SUBSET (Cells \cup Objects),
         EagerlyBecomes(S, M) \/ Becomes(S, M) \/ Flushed(S, M)
  PROVE  /\ stale' \subseteq S /\ marked' \subseteq M
         /\ orphaned' \subseteq Cells
         /\ Lost(Database)' = Unmarked(S, M) \ orphaned
<1>1. CASE Becomes(S, M)
  BY <1>1, DatabaseTypes, DatabaseTypesNext DEF Becomes, TypeOK
<1>2. CASE Flushed(S, M)
  <2>1. Unmarked(Unmarked(S, M), {}) = Unmarked(S, M)
    BY DEF Unmarked
  <2>2. /\ stale' = Unmarked(S, M) /\ marked' = {}
        /\ orphaned' = orphaned \cap Unmarked(S, M)
    BY <1>2, <2>1 DEF Flushed, Becomes
  <2>3. Unmarked(S, M) \subseteq S
    BY DEF Unmarked
  <2> QED BY <2>1, <2>2, <2>3, DatabaseTypes, DatabaseTypesNext DEF TypeOK
<1> QED BY <1>1, <1>2 DEF EagerlyBecomes

-----------------------------------------------------------------------------
(* Steps that leave the stack, push a frame, or pop one *)

LEMMA SameStack ==
  ASSUME IInv, UNCHANGED stack, TypeOK', pending \subseteq pending',
         tx' = "ok" => Lost(Database)' \subseteq pending', Present(Database)'
  PROVE  IInv'
<1>1. \A k : Frames(k)' = Frames(k)
  BY DEF Frames
<1>2. SavedInv'
  BY <1>1 DEF IInv, SavedInv, PendingAt
<1>3. OldestInv'
  BY <1>1 DEF IInv, OldestInv, IsOldest, InAtomic
<1> QED BY <1>2, <1>3 DEF IInv, DatabaseInv

LEMMA OnPush ==
  ASSUME IInv, NEW f \in Frame, stack' = Append(stack, f),
         UNCHANGED <<exists, stale, marked, orphaned, tx, pending>>, TypeOK',
         f.kind = "atomic" => tx = "ok" /\ f.saved = Database
  PROVE  IInv'
<1>1. stack \in Seq(Frame) /\ (~Active => pending = {})
  BY DEF IInv, TypeOK
<1>2. /\ Len(stack) \in Nat
      /\ \A i \in 1 .. Len(stack) : stack'[i] = stack[i]
      /\ stack'[Len(stack) + 1] = f
      /\ Frames(f.kind)' = Frames(f.kind) \cup {Len(stack) + 1}
      /\ \A k : k # f.kind => Frames(k)' = Frames(k)
  BY <1>1, Pushed
<1>k. /\ \A j \in Frames("block") : j \in Frames("block")'
      /\ \A j \in Frames("atomic") : j \in Frames("atomic")'
      /\ \A j \in Frames("atomic")' :
            j \in Frames("atomic") \/ (f.kind = "atomic" /\ j = Len(stack) + 1)
  BY <1>2
<1>3. \A k : Frames(k) \subseteq 1 .. Len(stack)
  BY DEF Frames
<1>4. \A i \in 1 .. Len(stack) : PendingAt(i) \subseteq PendingAt(i)'
  BY <1>k DEF PendingAt
<1>5. SavedInv'
  <2> SUFFICES ASSUME NEW i \in Frames("atomic")'
               PROVE  /\ Lost(stack'[i].saved) \subseteq PendingAt(i)'
                      /\ Present(stack'[i].saved)
    BY DEF SavedInv, Lost, Present
  <2>1. CASE i \in Frames("atomic")
    <3>1. stack'[i] = stack[i] /\ PendingAt(i) \subseteq PendingAt(i)'
      BY <1>2, <1>3, <1>4, <2>1
    <3> QED BY <2>1, <3>1 DEF IInv, SavedInv
  <2>2. CASE f.kind = "atomic" /\ i = Len(stack) + 1
    <3>1. stack'[i].saved = Database /\ tx = "ok"
      BY <1>2, <2>2
    <3>2. Lost(Database) \subseteq pending /\ Present(Database)
      BY <3>1 DEF IInv, DatabaseInv
    <3>3. \A j \in Frames("block") : j < i /\ j \in Frames("block")'
      BY <1>2, <1>k, <1>3, <2>2
    <3>4. pending \subseteq PendingAt(i)'
      BY <1>1, <3>3 DEF PendingAt, Active
    <3> QED BY <3>1, <3>2, <3>4
  <2> QED BY <1>k, <2>1, <2>2
<1>6. OldestInv'
  <2>1. CASE InAtomic
    <3>1. PICK i \in Frames("atomic") : IsOldest(i)
      BY <2>1 DEF IInv, OldestInv
    <3>2. i \in 1 .. Len(stack)
      BY <1>3, <3>1
    <3>3. i \in Frames("atomic")' /\ \A j \in Frames("atomic")' : i <= j
      <4>1. i <= Len(stack) + 1
        BY <1>2, <3>2
      <4> QED BY <1>k, <3>1, <4>1 DEF IsOldest
    <3> QED BY <3>3 DEF OldestInv, IsOldest
  <2>2. CASE ~InAtomic
    <3>1. Frames("atomic")' \subseteq {Len(stack) + 1} /\ Len(stack) + 1 <= Len(stack) + 1
      BY <1>2, <1>k, <2>2 DEF InAtomic
    <3> QED BY <3>1 DEF OldestInv, IsOldest, InAtomic
  <2> QED BY <2>1, <2>2
<1>7. DatabaseInv'
  BY DEF IInv, DatabaseInv, Database
<1> QED BY <1>5, <1>6, <1>7 DEF IInv

LEMMA OnPop ==
  ASSUME IInv, stack # <<>>, stack' = Front(stack), TypeOK',
         pending' = pending \/ Frames("block") = {Len(stack)},
         tx' = "ok" => Lost(Database)' \subseteq pending', Present(Database)'
  PROVE  IInv'
<1>1. stack \in Seq(Frame)
  BY DEF IInv, TypeOK
<1>2. /\ Len(stack) \in Nat /\ Len(stack) > 0
      /\ \A i \in 1 .. Len(stack) - 1 : stack'[i] = stack[i]
      /\ \A k : Frames(k)' = Frames(k) \ {Len(stack)}
  BY <1>1, Popped
<1>3. \A k : Frames(k) \subseteq 1 .. Len(stack)
  BY DEF Frames
<1>4. SavedInv'
  <2> SUFFICES ASSUME NEW i \in Frames("atomic")'
               PROVE  /\ Lost(stack'[i].saved) \subseteq PendingAt(i)'
                      /\ Present(stack'[i].saved)
    BY DEF SavedInv, Lost, Present
  <2>1. i \in Frames("atomic") /\ i \in 1 .. Len(stack) - 1
    BY <1>2, <1>3
  <2>2. Lost(stack[i].saved) \subseteq PendingAt(i) /\ Present(stack[i].saved)
    BY <2>1 DEF IInv, SavedInv
  <2>3. PendingAt(i) \subseteq PendingAt(i)'
    <3> SUFFICES ASSUME NEW c \in pending, NEW j \in Frames("block"), j < i
                 PROVE  c \in PendingAt(i)'
      BY DEF PendingAt
    <3>1. j # Len(stack)
      BY <1>2, <1>3, <2>1
    <3>2. j \in Frames("block")' /\ pending' = pending
      BY <1>2, <3>1
    <3> QED BY <3>2 DEF PendingAt
  <2> QED BY <1>2, <2>1, <2>2, <2>3
<1>5. OldestInv'
  <2> SUFFICES ASSUME NEW j \in Frames("atomic")'
               PROVE  \E i \in Frames("atomic")' : IsOldest(i)'
    BY DEF OldestInv, InAtomic
  <2>1. j \in Frames("atomic") /\ j \in 1 .. Len(stack) - 1
    BY <1>2, <1>3
  <2>2. PICK i \in Frames("atomic") : IsOldest(i)
    BY <2>1 DEF IInv, OldestInv, InAtomic
  <2>3. i <= j /\ i \in 1 .. Len(stack)
    BY <1>3, <2>1, <2>2 DEF IsOldest
  <2>4. i # Len(stack)
    BY <1>2, <2>1, <2>3
  <2>5. i \in Frames("atomic")' /\ IsOldest(i)'
    BY <1>2, <2>2, <2>4 DEF IsOldest
  <2> QED BY <2>5
<1> QED BY <1>4, <1>5 DEF IInv, DatabaseInv

-----------------------------------------------------------------------------
(* Statements *)

LEMMA Counted ==
  ASSUME TypeOK, Running
  PROVE  ops' \in 0 .. MaxOps
BY DeferralAssumption DEF TypeOK, Running

(* What was stale and unmarked is lost only as far as history says.        *)
LEMMA NothingLost ==
  ASSUME IInv, tx = "ok", NEW c \in stale, c \notin marked, Owner[c] \notin marked
  PROVE  c \in orphaned \/ c \in pending
<1>1. c \in Unmarked(stale, marked)
  BY DEF Unmarked
<1> QED BY <1>1, DatabaseTypes DEF IInv, DatabaseInv

LEMMA WriteStep ==
  ASSUME IInv, NEW S \in SUBSET Cells, NEW M \in SUBSET (Cells \cup Objects),
         EagerlyBecomes(S, M) \/ Becomes(S, M) \/ Flushed(S, M),
         UNCHANGED <<tx, stack, raising, eager, crashes>>, ops' \in 0 .. MaxOps,
         exists' \in SUBSET Objects,
         pending \subseteq pending', pending' \in SUBSET Cells, ~Active => pending' = {},
         \A c \in S : Owner[c] \in exists',
         \A c \in S : c \in M \/ Owner[c] \in M \/ c \in orphaned \/ c \in pending'
  PROVE  IInv'
<1>t. TypeOK
  BY DEF IInv
<1>1. /\ stale' \subseteq S /\ marked' \subseteq M
      /\ orphaned' \subseteq Cells
      /\ Lost(Database)' = Unmarked(S, M) \ orphaned
  BY <1>t, Writes
<1>2. (Database \in Saved)' /\ Present(Database)'
  BY <1>1, DatabaseTypesNext
<1>3. Lost(Database)' \subseteq pending'
  BY <1>1 DEF Unmarked
<1>4. Active' = Active /\ InAtomic' = InAtomic
  BY DEF Active, InAtomic, Frames
<1>5. TypeOK'
  BY <1>t, <1>2, <1>4 DEF TypeOK
<1> QED BY <1>2, <1>3, <1>5, SameStack

LEMMA CellTypes ==
  ASSUME NEW o \in Objects
  PROVE  /\ CellsOf(o) \subseteq Cells /\ \A c \in CellsOf(o) : Owner[c] = o
         /\ \A c \in Cells : Owner[c] \in Objects /\ Owner[c] \notin Cells
         /\ AlwaysMarks(o) \subseteq Objects /\ Safe \subseteq Cells
         /\ FromOwnRow \subseteq Cells
BY DeferralAssumption DEF CellsOf, AlwaysMarks

LEMMA SaveStep ==
  ASSUME IInv, NEW o \in Objects, Save(o)
  PROVE  IInv'
<1>t. /\ TypeOK /\ stack \in Seq(Frame) /\ exists \subseteq Objects /\ stale \subseteq Cells
      /\ marked \subseteq Cells \cup Objects /\ pending \subseteq Cells
      /\ \A c \in stale : Owner[c] \in exists
      /\ ~Active => pending = {}
  BY DatabaseTypes DEF IInv, TypeOK, DatabaseInv
<1>1. PICK U \in SUBSET CellsOf(o), T \in SUBSET (FromOwnRow \cap CellsOf(o)) :
        /\ pending' = pending \cup (U \cap Deferred)
        /\ EagerlyBecomes(
                (stale \cup T) \ (U \ Deferred),
                ((marked \cup T) \ (U \cap Safe)) \cup AlwaysMarks(o))
  BY DEF Save
<1>2. /\ o \in exists /\ tx = "ok" /\ ops' \in 0 .. MaxOps
      /\ UNCHANGED <<exists, tx, stack, raising, eager, crashes>>
  BY <1>t, Counted DEF Save, Statement
<1> DEFINE S == (stale \cup T) \ (U \ Deferred)
           M == ((marked \cup T) \ (U \cap Safe)) \cup AlwaysMarks(o)
<1>3. S \in SUBSET Cells /\ M \in SUBSET (Cells \cup Objects)
  BY <1>t, CellTypes
<1>4. \A c \in S : Owner[c] \in exists'
  BY <1>t, <1>2, CellTypes
<1>5. pending' \in SUBSET Cells /\ (~Active => pending' = {})
  BY <1>t, <1>1, DeferredTypes
<1>6. ASSUME NEW c \in S, c \notin M, Owner[c] \notin M
      PROVE  c \in orphaned \/ c \in pending'
  <2>1. CASE c \in U \cap Safe
    BY <1>1, <2>1
  <2>2. CASE c \notin U \cap Safe
    <3>1. c \in stale /\ c \notin marked
      BY <1>6, <2>2
    <3>2. Owner[c] \notin marked
      BY <1>3, <1>6, CellTypes
    <3> QED BY <1>1, <1>2, <3>1, <3>2, NothingLost
  <2> QED BY <2>1, <2>2
<1>7. EagerlyBecomes(S, M)
  BY <1>1
<1> HIDE DEF S, M
<1> QED BY <1>t, <1>1, <1>2, <1>3, <1>4, <1>5, <1>6, <1>7, WriteStep

LEMMA InsertStep ==
  ASSUME IInv, NEW o \in Objects, Insert(o)
  PROVE  IInv'
<1>t. /\ TypeOK /\ stack \in Seq(Frame) /\ exists \subseteq Objects /\ stale \subseteq Cells
      /\ marked \subseteq Cells \cup Objects /\ pending \subseteq Cells
      /\ \A c \in stale : Owner[c] \in exists
      /\ ~Active => pending = {}
  BY DatabaseTypes DEF IInv, TypeOK, DatabaseInv
<1> DEFINE D == (CellsOf(o) \cap Deferred) \ Required
           S == stale \cup D
           M == ((marked \cup CellsOf(o)) \ (Safe \cap CellsOf(o))) \cup AlwaysMarks(o)
<1>1. /\ o \notin exists /\ exists' = exists \cup {o}
      /\ pending' = pending \cup D
      /\ EagerlyBecomes(S, M)
      /\ tx = "ok" /\ ops' \in 0 .. MaxOps
      /\ UNCHANGED <<tx, stack, raising, eager, crashes>>
  BY <1>t, Counted DEF Insert, Statement
<1>3. S \in SUBSET Cells /\ M \in SUBSET (Cells \cup Objects)
  BY <1>t, CellTypes
<1>4. \A c \in S : Owner[c] \in exists'
  BY <1>t, <1>1, CellTypes
<1>5. pending' \in SUBSET Cells /\ (~Active => pending' = {})
  BY <1>t, <1>1, <1>3, DeferredTypes
<1>6. ASSUME NEW c \in S, c \notin M, Owner[c] \notin M
      PROVE  c \in orphaned \/ c \in pending'
  <2>1. CASE c \in D
    BY <1>1, <2>1
  <2>2. CASE c \in stale
    <3>1. c \notin CellsOf(o)
      BY <1>t, <1>1, <2>2, CellTypes
    <3>2. c \notin marked /\ Owner[c] \notin marked
      BY <1>3, <1>6, <3>1, CellTypes
    <3> QED BY <1>1, <2>2, <3>2, NothingLost
  <2> QED BY <2>1, <2>2
<1> HIDE DEF S, M
<1> QED BY <1>t, <1>1, <1>3, <1>4, <1>5, <1>6, WriteStep

LEMMA SaveRelatedStep ==
  ASSUME IInv, SaveRelated
  PROVE  IInv'
<1>t. /\ TypeOK /\ exists \subseteq Objects /\ stale \subseteq Cells
      /\ marked \subseteq Cells \cup Objects /\ pending \subseteq Cells
      /\ \A c \in stale : Owner[c] \in exists
      /\ ~Active => pending = {}
  BY DatabaseTypes DEF IInv, TypeOK, DatabaseInv
<1>1. PICK c \in Cells : /\ Owner[c] \in exists
                       /\ EagerlyBecomes(stale \cup {c}, marked \cup {c})
  BY DEF SaveRelated
<1>2. /\ tx = "ok" /\ ops' \in 0 .. MaxOps
      /\ UNCHANGED <<exists, tx, stack, raising, pending, eager, crashes>>
  BY <1>t, Counted DEF SaveRelated, Statement
<1>3. stale \cup {c} \in SUBSET Cells /\ marked \cup {c} \in SUBSET (Cells \cup Objects)
  BY <1>t
<1>4. \A d \in stale \cup {c} : Owner[d] \in exists'
  BY <1>t, <1>1, <1>2
<1>5. \A d \in stale \cup {c} : \/ d \in marked \cup {c} \/ Owner[d] \in marked \cup {c}
                               \/ d \in orphaned \/ d \in pending'
  BY <1>2, NothingLost
<1> QED BY <1>t, <1>1, <1>2, <1>3, <1>4, <1>5, WriteStep

LEMMA FlushStep ==
  ASSUME IInv, Flush
  PROVE  IInv'
<1>t. /\ TypeOK /\ exists \subseteq Objects /\ stale \in SUBSET Cells
      /\ marked \in SUBSET (Cells \cup Objects) /\ pending \subseteq Cells
      /\ \A c \in stale : Owner[c] \in exists
      /\ ~Active => pending = {}
  BY DatabaseTypes DEF IInv, TypeOK, DatabaseInv
<1>1. /\ tx = "ok" /\ ops' \in 0 .. MaxOps /\ Flushed(stale, marked)
      /\ UNCHANGED <<exists, tx, stack, raising, pending, eager, crashes>>
  BY <1>t, Counted DEF Flush, Statement
<1>2. \A d \in stale : \/ d \in marked \/ Owner[d] \in marked
                       \/ d \in orphaned \/ d \in pending'
  BY <1>1, NothingLost
<1> QED BY <1>t, <1>1, <1>2, WriteStep

LEMMA FlushElsewhereStep ==
  ASSUME IInv, FlushElsewhere
  PROVE  IInv'
<1>t. /\ TypeOK /\ exists \subseteq Objects /\ stale \subseteq Cells
      /\ marked \subseteq Cells \cup Objects /\ pending \subseteq Cells
      /\ ops \in 0 .. MaxOps
      /\ \A c \in stale : Owner[c] \in exists
      /\ ~Active => pending = {}
  BY DatabaseTypes DEF IInv, TypeOK, DatabaseInv
<1>1. PICK o \in Objects :
        LET C == CellsOf(o) \ Unmarked(CellsOf(o), marked)
        IN  C # {} /\ Becomes(stale \ C, marked \ (CellsOf(o) \cup {o}))
  BY DEF FlushElsewhere
<1> DEFINE C == CellsOf(o) \ Unmarked(CellsOf(o), marked)
           S == stale \ C
           M == marked \ (CellsOf(o) \cup {o})
<1>2. /\ tx = "ok" /\ Becomes(S, M)
      /\ UNCHANGED <<exists, tx, stack, raising, pending, eager, ops, crashes>>
  BY <1>1 DEF FlushElsewhere, IInv, TypeOK
<1>3. S \in SUBSET Cells /\ M \in SUBSET (Cells \cup Objects)
  BY <1>t
<1>4. \A c \in S : Owner[c] \in exists'
  BY <1>t, <1>2
<1>5. ASSUME NEW c \in S, c \notin M, Owner[c] \notin M
      PROVE  c \in orphaned \/ c \in pending'
  <2>1. c \notin marked /\ Owner[c] \notin marked
    <3>1. CASE Owner[c] = o
      <4>1. c \in CellsOf(o)
        BY <1>3, <3>1 DEF CellsOf
      <4>2. c \in Unmarked(CellsOf(o), marked)
        BY <4>1
      <4> QED BY <4>2 DEF Unmarked
    <3>2. CASE Owner[c] # o
      <4>1. c \notin CellsOf(o) /\ c # o /\ Owner[c] \notin CellsOf(o)
        BY <1>3, <3>2, CellTypes, DeferralAssumption
      <4> QED BY <1>5, <3>2, <4>1
    <3> QED BY <3>1, <3>2
  <2> QED BY <1>2, <2>1, NothingLost
<1> HIDE DEF S, M
<1> QED BY <1>t, <1>2, <1>3, <1>4, <1>5, WriteStep

-----------------------------------------------------------------------------
(* Blocks and exceptions *)

LEMMA EnterBlockStep ==
  ASSUME IInv, EnterBlock
  PROVE  IInv'
<1>t. TypeOK /\ stack \in Seq(Frame)
  BY DEF IInv, TypeOK
<1>1. PICK F \in Targets : stack' = Append(stack, Block(F \cup Deferred))
  BY DEF EnterBlock
<1>2. /\ ops' \in 0 .. MaxOps
      /\ UNCHANGED <<exists, stale, marked, orphaned, tx, raising, pending, eager, crashes>>
  BY <1>t, Counted DEF EnterBlock, dbVars
<1>3. F \cup Deferred \subseteq Cells
  BY <1>t, DeferredTypes, DeferralAssumption
<1>4. /\ Block(F \cup Deferred) \in Frame
      /\ Block(F \cup Deferred).kind = "block"
  BY <1>3 DEF Block, Frame
<1> HIDE DEF Block
<1>5. TypeOK'
  <2>1. /\ stack' \in Seq(Frame) /\ Active' /\ (InAtomic => InAtomic')
    BY <1>t, <1>1, <1>4, Pushed DEF Active, InAtomic
  <2>2. (Database \in Saved)'
    BY <1>t, <1>2 DEF TypeOK, Database
  <2> QED BY <1>t, <1>2, <2>1, <2>2 DEF TypeOK
<1> QED BY <1>1, <1>2, <1>4, <1>5, OnPush

LEMMA EnterAtomicStep ==
  ASSUME IInv, EnterAtomic
  PROVE  IInv'
<1>t. TypeOK /\ stack \in Seq(Frame)
  BY DEF IInv, TypeOK
<1>1. /\ stack' = Append(stack, Atomic) /\ ops' \in 0 .. MaxOps /\ tx = "ok"
      /\ UNCHANGED <<exists, stale, marked, orphaned, tx, raising, pending, eager, crashes>>
  BY <1>t, Counted DEF EnterAtomic, Statement, dbVars
<1>2. /\ Atomic \in Frame
      /\ Atomic.kind = "atomic" /\ Atomic.saved = Database
  <2>1. Database \in Saved
    BY <1>t DEF TypeOK
  <2> QED BY <2>1 DEF Atomic, Frame
<1>3. TypeOK'
  <2>1. /\ stack' \in Seq(Frame) /\ Frames("block")' = Frames("block")
    BY <1>t, <1>1, <1>2, Pushed
  <2>2. (Database \in Saved)'
    BY <1>t, <1>1 DEF TypeOK, Database
  <2> QED BY <1>t, <1>1, <2>1, <2>2 DEF TypeOK, Active
<1> QED BY <1>1, <1>2, <1>3, OnPush

(* Steps that touch neither the database nor the stack.                    *)
LEMMA QuietStep ==
  ASSUME IInv, UNCHANGED <<exists, stale, marked, orphaned, stack, eager, crashes>>,
         raising' \in BOOLEAN, ops' \in 0 .. MaxOps,
         pending \subseteq pending', pending' \in SUBSET Cells, ~Active => pending' = {},
         tx' = tx \/ (tx' \in {"aborted", "doomed"} /\ InAtomic)
  PROVE  IInv'
<1>1. Database' = Database /\ Active' = Active /\ InAtomic' = InAtomic
  BY DEF Database, Active, InAtomic, Frames
<1>2. TypeOK'
  BY <1>1 DEF IInv, TypeOK
<1>3. Lost(Database)' = Lost(Database) /\ (Present(Database)' <=> Present(Database))
  BY <1>1 DEF Lost, Present
<1>4. (tx' = "ok" => Lost(Database)' \subseteq pending') /\ Present(Database)'
  BY <1>3 DEF IInv, DatabaseInv
<1> QED BY <1>2, <1>4, SameStack

LEMMA SaveFailsStep ==
  ASSUME IInv, NEW o \in Objects, SaveFails(o)
  PROVE  IInv'
<1>1. /\ TypeOK /\ stack \in Seq(Frame) /\ pending \subseteq Cells
      /\ (~Active => pending = {})
  BY DEF IInv, TypeOK
<1>2. /\ ops' \in 0 .. MaxOps /\ raising' = TRUE
      /\ pending' = pending \cup (CellsOf(o) \cap Deferred)
      /\ UNCHANGED <<exists, stale, marked, orphaned, stack, eager, crashes>>
  BY <1>1, Counted DEF SaveFails, Statement, dbVars
<1>3. tx' = tx \/ (tx' \in {"aborted", "doomed"} /\ InAtomic)
  BY DEF SaveFails, Statement, AfterSaveError
<1>4. pending' \in SUBSET Cells /\ (~Active => pending' = {})
  BY <1>1, <1>2, DeferredTypes, CellTypes
<1> QED BY <1>2, <1>3, <1>4, QuietStep

LEMMA RaiseStep ==
  ASSUME IInv, Raise
  PROVE  IInv'
<1>1. TypeOK /\ pending \in SUBSET Cells /\ (~Active => pending = {})
  BY DEF IInv, TypeOK
<1>2. /\ ops' \in 0 .. MaxOps /\ raising' = TRUE
      /\ UNCHANGED <<exists, stale, marked, orphaned, pending, stack, eager, crashes>>
      /\ tx' = tx \/ (tx' \in {"aborted", "doomed"} /\ InAtomic)
  BY <1>1, Counted DEF Raise, dbVars
<1> QED BY <1>1, <1>2, QuietStep

LEMMA CatchStep ==
  ASSUME IInv, Catch
  PROVE  IInv'
<1>1. /\ pending \in SUBSET Cells /\ (~Active => pending = {})
      /\ ops \in 0 .. MaxOps
  BY DEF IInv, TypeOK
<1>2. /\ raising' = FALSE
      /\ UNCHANGED <<exists, stale, marked, orphaned, tx, pending, stack, eager, ops, crashes>>
  BY DEF Catch, dbVars
<1> QED BY <1>1, <1>2, QuietStep

-----------------------------------------------------------------------------
(* Exits *)

LEMMA ExitAtomicStep ==
  ASSUME IInv, ExitAtomic
  PROVE  IInv'
<1>t. TypeOK /\ stack \in Seq(Frame)
  BY DEF IInv, TypeOK
<1> DEFINE s == stack[Len(stack)].saved
<1>1. /\ stack # <<>> /\ stack' = Front(stack) /\ tx' = "ok"
      /\ UNCHANGED <<pending, eager, ops, crashes>>
      /\ Len(stack) \in Frames("atomic") /\ Last(stack).saved = s /\ s \in Saved
  BY <1>t, TopFrame, Kinds DEF ExitAtomic, InTop
<1>2. /\ stack' \in Seq(Frame) /\ Frames("block")' = Frames("block")
  BY <1>t, <1>1, Popped DEF Frames
<1>3. /\ raising' \in BOOLEAN
      /\ \/ tx = "ok" /\ UNCHANGED <<exists, stale, marked, orphaned>>
         \/ /\ exists' = s.exists /\ stale' = s.stale
            /\ marked' = s.marked /\ orphaned' = s.orphaned
  BY <1>t, <1>1 DEF ExitAtomic, TypeOK, dbVars
<1>4. /\ Lost(s) \subseteq pending /\ Present(s)
  BY <1>1 DEF IInv, SavedInv, PendingAt
<1>5. /\ Lost(Database)' \subseteq pending' /\ Present(Database)'
      /\ (Database \in Saved)'
  <2>1. CASE tx = "ok" /\ UNCHANGED <<exists, stale, marked, orphaned>>
    BY <1>1, <2>1 DEF IInv, TypeOK, DatabaseInv, Database
  <2>2. CASE /\ exists' = s.exists /\ stale' = s.stale
             /\ marked' = s.marked /\ orphaned' = s.orphaned
    <3>1. Lost(s) = Unmarked(s.stale, s.marked) \ s.orphaned
      BY DEF Lost
    <3>2. /\ s.exists \subseteq Objects /\ s.stale \subseteq Cells
          /\ s.marked \subseteq Cells \cup Objects /\ s.orphaned \subseteq Cells
          /\ \A c \in s.stale : Owner[c] \in s.exists
      BY <1>1, <1>4 DEF Saved, Present
    <3> HIDE DEF s
    <3> QED BY <1>1, <1>4, <2>2, <3>1, <3>2, DatabaseTypesNext
  <2> QED BY <1>3, <2>1, <2>2
<1>6. TypeOK'
  BY <1>t, <1>1, <1>2, <1>3, <1>5 DEF TypeOK, Active
<1> QED BY <1>1, <1>5, <1>6, OnPop

LEMMA ExitInnerBlockStep ==
  ASSUME IInv, ExitInnerBlock
  PROVE  IInv'
<1>t. TypeOK /\ stack \in Seq(Frame)
  BY DEF IInv, TypeOK
<1>1. /\ stack # <<>> /\ stack' = Front(stack)
      /\ UNCHANGED <<exists, stale, marked, orphaned, tx, raising, pending, eager, ops, crashes>>
      /\ Len(stack) \in Frames("block") /\ Frames("block") # {Len(stack)}
  BY <1>t, TopFrame DEF ExitInnerBlock, InTop, Alone, dbVars
<1>2. /\ stack' \in Seq(Frame) /\ Active' /\ Frames("atomic")' = Frames("atomic")
  BY <1>t, <1>1, Popped DEF Frames, Active
<1>3. Database' = Database
  BY <1>1 DEF Database
<1>4. TypeOK'
  BY <1>t, <1>1, <1>2, <1>3 DEF TypeOK, InAtomic
<1>5. (tx' = "ok" => Lost(Database)' \subseteq pending') /\ Present(Database)'
  BY <1>1, <1>3 DEF IInv, DatabaseInv, Lost, Present
<1> QED BY <1>1, <1>4, <1>5, OnPop

(* The outermost block leaves nothing to mark behind, or a transaction     *)
(* that will roll back.                                                    *)
LEMMA LeaveStep ==
  ASSUME IInv, LeaveOutermost, raising' \in BOOLEAN,
         tx' = tx \/ (tx # "ok" /\ tx' = "doomed"),
         stale' \subseteq stale, marked' \subseteq Cells \cup Objects, orphaned' \subseteq Cells,
         tx = "ok" => Lost(Database)' = {}
  PROVE  IInv'
<1>t. TypeOK /\ stack \in Seq(Frame)
  BY DEF IInv, TypeOK
<1>1. /\ stack # <<>> /\ stack' = Front(stack) /\ pending' = {}
      /\ UNCHANGED <<exists, eager, ops, crashes>>
      /\ Len(stack) \in Frames("block") /\ Frames("block") = {Len(stack)}
  BY <1>t, TopFrame DEF LeaveOutermost, Alone, InTop
<1>2. /\ stack' \in Seq(Frame) /\ Frames("atomic")' = Frames("atomic")
  BY <1>t, <1>1, Popped DEF Frames
<1>3. (Database \in Saved)' /\ Present(Database)'
  BY <1>1, DatabaseTypes, DatabaseTypesNext DEF IInv, TypeOK, DatabaseInv
<1>4. TypeOK'
  BY <1>t, <1>1, <1>2, <1>3 DEF TypeOK, InAtomic
<1> QED BY <1>1, <1>3, <1>4, OnPop

(* With the pending markers nothing is lost.                               *)
LEMMA MarkedPending ==
  ASSUME IInv, tx = "ok"
  PROVE  Unmarked(stale, marked \cup pending) \subseteq orphaned
<1> SUFFICES ASSUME NEW c \in Unmarked(stale, marked \cup pending)
             PROVE  c \in orphaned
  OBVIOUS
<1>1. c \in stale /\ c \notin marked /\ c \notin pending /\ Owner[c] \notin marked
  BY DEF Unmarked
<1> QED BY <1>1, NothingLost

LEMMA ExitNormallyStep ==
  ASSUME IInv, ExitNormally
  PROVE  IInv'
<1>t. /\ TypeOK /\ stale \in SUBSET Cells /\ orphaned \subseteq Cells
      /\ marked \subseteq Cells \cup Objects /\ pending \subseteq Cells
      /\ eager \in BOOLEAN /\ raising \in BOOLEAN
  BY DatabaseTypes DEF IInv, TypeOK
<1>1. /\ LeaveOutermost /\ raising' \in BOOLEAN
      /\ tx' = tx \/ (tx # "ok" /\ tx' = "doomed")
  BY <1>t DEF ExitNormally, RefusedExit
<1>2. CASE tx = "ok" /\ WriteThenFlush
  <2>1. /\ marked \cup pending \in SUBSET (Cells \cup Objects)
        /\ \/ Flushed(stale, marked \cup pending)
           \/ Becomes(stale, marked \cup pending)
    BY <1>t, <1>2 DEF WriteThenFlush
  <2>2. /\ stale' \subseteq stale /\ marked' \subseteq marked \cup pending
        /\ orphaned' \subseteq Cells
        /\ Lost(Database)' = Unmarked(stale, marked \cup pending) \ orphaned
    BY <1>t, <2>1, Writes
  <2>3. Lost(Database)' = {}
    BY <1>2, <2>2, MarkedPending
  <2> QED BY <1>1, <2>1, <2>2, <2>3, LeaveStep
<1>3. CASE tx # "ok" /\ UNCHANGED <<stale, marked, orphaned>>
  BY <1>t, <1>1, <1>3, LeaveStep
<1> QED BY <1>2, <1>3 DEF ExitNormally, RefusedExit

LEMMA ExitOnErrorStep ==
  ASSUME IInv, ExitOnError
  PROVE  IInv'
<1>t. /\ TypeOK /\ stale \in SUBSET Cells /\ marked \subseteq Cells \cup Objects
      /\ pending \subseteq Cells /\ raising \in BOOLEAN
  BY DatabaseTypes DEF IInv, TypeOK
<1>1. /\ LeaveOutermost /\ raising' = raising /\ tx' = tx
      /\ Becomes(stale, marked \cup MarkersAfterError)
  BY DEF ExitOnError
<1>2. marked \cup MarkersAfterError \in SUBSET (Cells \cup Objects)
  BY <1>t DEF MarkersAfterError
<1>3. /\ stale' \subseteq stale /\ marked' \subseteq marked \cup MarkersAfterError
      /\ orphaned' \subseteq Cells
      /\ Lost(Database)' = Unmarked(stale, marked \cup MarkersAfterError) \ orphaned
  BY <1>t, <1>1, <1>2, Writes
<1>4. tx = "ok" => Lost(Database)' = {}
  BY <1>3, MarkedPending DEF MarkersAfterError
<1> QED BY <1>t, <1>1, <1>2, <1>3, <1>4, LeaveStep

-----------------------------------------------------------------------------
(* What is committed *)

LEMMA CommittedIs ==
  ASSUME IInv
  PROVE  /\ Committed \in Saved /\ Present(Committed)
         /\ Lost(Committed) \subseteq pending
         /\ stack # <<>> /\ Head(stack).kind = "atomic" => Lost(Committed) = {}
<1>t. TypeOK /\ stack \in Seq(Frame)
  BY DEF IInv, TypeOK
<1>1. CASE InAtomic
  <2> DEFINE i == CHOOSE j \in Frames("atomic") : IsOldest(j)
  <2>1. i \in Frames("atomic") /\ IsOldest(i)
    BY <1>1 DEF IInv, OldestInv
  <2>2. Committed = stack[i].saved
    BY <1>1 DEF Committed
  <2> HIDE DEF i
  <2>3. /\ Lost(Committed) \subseteq PendingAt(i) /\ Present(Committed)
    BY <2>1, <2>2 DEF IInv, SavedInv
  <2>4. Committed \in Saved
    BY <1>t, <2>1, <2>2, Kinds DEF Frames
  <2>5. ASSUME stack # <<>>, Head(stack).kind = "atomic"
        PROVE  PendingAt(i) = {}
    <3>1. 1 \in Frames("atomic")
      BY <1>t, <2>5 DEF Frames
    <3>2. i = 1
      BY <2>1, <3>1 DEF IsOldest, Frames
    <3> QED BY <3>2 DEF PendingAt, Frames
  <2> QED BY <2>3, <2>4, <2>5 DEF PendingAt
<1>2. CASE ~InAtomic
  <2>1. Committed = Database /\ tx = "ok"
    BY <1>t, <1>2 DEF Committed, TypeOK
  <2>2. stack # <<>> => Head(stack).kind # "atomic"
    BY <1>t, <1>2 DEF InAtomic, Frames
  <2> QED BY <1>t, <2>1, <2>2 DEF TypeOK, IInv, DatabaseInv
<1> QED BY <1>1, <1>2

LEMMA EmptyStack ==
  ASSUME stack = <<>>
  PROVE  stack \in Seq(Frame) /\ \A k : Frames(k) = {}
BY DEF Frames

LEMMA CrashStep ==
  ASSUME IInv, Crash
  PROVE  IInv'
<1>t. TypeOK /\ stack \in Seq(Frame) /\ pending \subseteq Cells
  BY DEF IInv, TypeOK
<1> DEFINE dying == IF stack # <<>> /\ Head(stack).kind = "block"
                    THEN pending \cap Unmarked(Committed.stale, Committed.marked)
                    ELSE {}
<1>1. /\ crashes < MaxCrashes /\ crashes' = crashes + 1
      /\ stack' = <<>> /\ pending' = {} /\ raising' = FALSE /\ tx' = "ok"
      /\ exists' = Committed.exists /\ stale' = Committed.stale
      /\ marked' = Committed.marked
      /\ orphaned' = Committed.orphaned \cup dying
      /\ UNCHANGED <<eager, ops>>
  BY DEF Crash
<1>2. /\ Committed.exists \subseteq Objects /\ Committed.stale \subseteq Cells
      /\ Committed.marked \subseteq Cells \cup Objects
      /\ Committed.orphaned \subseteq Cells
      /\ \A c \in Committed.stale : Owner[c] \in Committed.exists
  BY CommittedIs DEF Saved, Present
<1>3. Lost(Committed) = Unmarked(Committed.stale, Committed.marked) \ Committed.orphaned
  BY DEF Lost
<1>4. Unmarked(Committed.stale, Committed.marked) \subseteq Committed.orphaned \cup dying
  <2>1. CASE stack = <<>>
    <3>1. pending = {}
      BY <1>t, <2>1, EmptyStack DEF TypeOK, Active
    <3> QED BY <1>3, <3>1, CommittedIs
  <2>2. CASE stack # <<>> /\ Head(stack).kind = "block"
    BY <1>3, <2>2, CommittedIs
  <2>3. CASE stack # <<>> /\ Head(stack).kind # "block"
    <3>1. Head(stack) \in Frame
      BY <1>t, <2>3
    <3>2. Head(stack).kind = "atomic"
      BY <2>3, <3>1, Kinds
    <3> QED BY <1>3, <2>3, <3>2, CommittedIs
  <2> QED BY <2>1, <2>2, <2>3
<1>5. dying \subseteq Cells
  BY <1>t
<1> HIDE DEF dying
<1>6. stack' \in Seq(Frame) /\ \A k : Frames(k)' = {}
  BY <1>1 DEF Frames
<1>7. (Database \in Saved)' /\ Present(Database)' /\ Lost(Database)' = {}
  BY <1>1, <1>2, <1>4, <1>5, DatabaseTypesNext
<1>8. crashes' \in 0 .. MaxCrashes
  BY <1>t, <1>1, DeferralAssumption DEF TypeOK
<1>9. TypeOK'
  BY <1>t, <1>1, <1>6, <1>7, <1>8 DEF TypeOK
<1> QED BY <1>1, <1>6, <1>7, <1>9 DEF IInv, DatabaseInv, SavedInv, OldestInv, InAtomic

-----------------------------------------------------------------------------

LEMMA InitHolds == Init => IInv
<1> SUFFICES ASSUME Init
             PROVE  IInv
  OBVIOUS
<1>1. /\ exists = Exists0 /\ stale = {} /\ marked = {} /\ orphaned = {} /\ tx = "ok"
      /\ stack = <<>> /\ pending = {} /\ raising = FALSE /\ eager \in BOOLEAN
      /\ ops = 0 /\ crashes = 0
  BY DEF Init
<1>2. stack \in Seq(Frame) /\ \A k : Frames(k) = {}
  BY <1>1, EmptyStack
<1>3. Database \in Saved /\ Present(Database) /\ Lost(Database) = {}
  <2>1. Unmarked({}, {}) = {}
    BY DEF Unmarked
  <2> QED BY <1>1, <2>1, DatabaseTypes, DeferralAssumption
<1>4. ops \in 0 .. MaxOps /\ crashes \in 0 .. MaxCrashes
  BY <1>1, DeferralAssumption
<1>5. TypeOK
  BY <1>1, <1>2, <1>3, <1>4 DEF TypeOK
<1> QED BY <1>1, <1>2, <1>3, <1>5 DEF IInv, DatabaseInv, SavedInv, OldestInv, InAtomic

LEMMA StutterKeeps ==
  ASSUME IInv, UNCHANGED vars
  PROVE  IInv'
BY DEF vars, IInv, TypeOK, DatabaseInv, SavedInv, OldestInv, PendingAt, Database, Lost,
       Present, Active, InAtomic, IsOldest, Frames

LEMMA StepHolds ==
  ASSUME IInv, [Next]_vars
  PROVE  IInv'
<1>1. ASSUME NEW o \in Objects, Save(o) \/ Insert(o) \/ SaveFails(o)
      PROVE  IInv'
  BY <1>1, SaveStep, InsertStep, SaveFailsStep
<1>2. CASE EnterBlock \/ EnterAtomic
  BY <1>2, EnterBlockStep, EnterAtomicStep
<1>3. CASE SaveRelated \/ Flush \/ FlushElsewhere
  BY <1>3, SaveRelatedStep, FlushStep, FlushElsewhereStep
<1>4. CASE Raise \/ Catch
  BY <1>4, RaiseStep, CatchStep
<1>5. CASE ExitAtomic \/ ExitInnerBlock \/ ExitNormally \/ ExitOnError
  BY <1>5, ExitAtomicStep, ExitInnerBlockStep, ExitNormallyStep, ExitOnErrorStep
<1>6. CASE Crash
  BY <1>6, CrashStep
<1>7. CASE UNCHANGED vars
  BY <1>7, StutterKeeps
<1> QED BY <1>1, <1>2, <1>3, <1>4, <1>5, <1>6, <1>7 DEF Next

(* The inductive invariant holds in every state: what the database, or a   *)
(* savepoint on the stack, has lost is still pending in a block around it. *)
THEOREM DeferralInvariant == Spec => []IInv
<1>1. Init => IInv
  BY InitHolds
<1>2. IInv /\ [Next]_vars => IInv'
  BY StepHolds
<1> QED BY <1>1, <1>2, PTL DEF Spec

(* Types; a transaction fails only where there is one, and the collector   *)
(* is empty outside every block (deferral.py:248-262).                     *)
THEOREM DeferralTypeCorrect == Spec => []TypeOK
<1>1. IInv => TypeOK
  BY DEF IInv
<1> QED BY <1>1, DeferralInvariant, PTL

(* What is committed stale is marked, or a block that is still open will   *)
(* mark it; only the death of a process between a commit and the exit of a *)
(* block around it loses a marker (deferral.py:159-216).                   *)
THEOREM DeferralLosesNothing == Spec => []DeferredIsMarked
<1>1. IInv => DeferredIsMarked
  BY CommittedIs DEF DeferredIsMarked, Lost
<1> QED BY <1>1, DeferralInvariant, PTL

-----------------------------------------------------------------------------
(* The eager flush *)

LEMMA OnlyThisExit ==
  ASSUME IInv, Next, NormalExit
  PROVE  ExitNormally
<1>t. stack \in Seq(Frame)
  BY DEF IInv, TypeOK
<1>1. stack' # stack
  BY DEF NormalExit
<1>2. ASSUME NEW f \in Frame, stack' = Append(stack, f)
      PROVE  FALSE
  BY <1>t, <1>2, Pushed DEF NormalExit
<1>3. ~EnterBlock
  <2> SUFFICES ASSUME NEW F \in Targets, stack' = Append(stack, Block(F \cup Deferred))
               PROVE  FALSE
    BY DEF EnterBlock
  <2>1. F \cup Deferred \subseteq Cells
    BY <1>t, DeferredTypes, DeferralAssumption
  <2>2. Block(F \cup Deferred) \in Frame
    BY <2>1 DEF Block, Frame
  <2> QED BY <1>2, <2>2
<1>4. ~EnterAtomic
  <2>1. Atomic \in Frame
    BY DEF IInv, TypeOK, Atomic, Frame
  <2> QED BY <1>2, <2>1 DEF EnterAtomic
<1>5. ASSUME NEW o \in Objects, Save(o) \/ Insert(o) \/ SaveFails(o)
      PROVE  FALSE
  BY <1>1, <1>5 DEF Save, Insert, SaveFails
<1>6. ~SaveRelated /\ ~Flush /\ ~FlushElsewhere /\ ~Raise /\ ~Catch
  BY <1>1 DEF SaveRelated, Flush, FlushElsewhere, Raise, Catch
<1>7. ~ExitAtomic
  <2> SUFFICES ASSUME ExitAtomic
               PROVE  FALSE
    OBVIOUS
  <2>1. /\ stack # <<>> /\ stack' = Front(stack) /\ stack[Len(stack)].kind = "atomic"
    BY <1>t, TopFrame DEF ExitAtomic, InTop
  <2>2. Frames("block")' = Frames("block")
    BY <1>t, <2>1, Popped DEF Frames
  <2> QED BY <2>2 DEF NormalExit, Active
<1>8. ~ExitInnerBlock
  <2> SUFFICES ASSUME ExitInnerBlock
               PROVE  FALSE
    OBVIOUS
  <2>1. /\ stack # <<>> /\ stack' = Front(stack)
        /\ Len(stack) \in Frames("block") /\ Frames("block") # {Len(stack)}
    BY <1>t, TopFrame DEF ExitInnerBlock, InTop, Alone
  <2>2. Frames("block")' # {}
    BY <1>t, <2>1, Popped
  <2> QED BY <2>2 DEF NormalExit, Active
<1>9. ~ExitOnError
  BY DEF ExitOnError, NormalExit
<1>10. ~Crash
  <2>1. crashes \in Nat
    BY DeferralAssumption DEF IInv, TypeOK
  <2>2. Crash => crashes' # crashes
    BY <2>1 DEF Crash
  <2> QED BY <2>2 DEF NormalExit
<1> QED BY <1>3, <1>4, <1>5, <1>6, <1>7, <1>8, <1>9, <1>10 DEF Next

(* When the outermost block is left without an exception and                *)
(* DENORM_ALWAYS_EAGER is set, no column stays stale: the flush comes after *)
(* the markers of the block (deferral.py:264-276, eager.py:43-62).          *)
THEOREM EagerBlocksSettle == Spec => EagerSettles
<1>1. IInv /\ [Next]_vars => [NormalExit => stale' \subseteq orphaned']_vars
  <2> SUFFICES ASSUME IInv, Next, NormalExit
               PROVE  stale' \subseteq orphaned'
    OBVIOUS
  <2>1. Flushed(stale, marked \cup pending) /\ tx = "ok"
    BY OnlyThisExit DEF ExitNormally, RefusedExit, WriteThenFlush, NormalExit
  <2> DEFINE S == Unmarked(stale, marked \cup pending)
  <2>2. stale' = S /\ orphaned' = orphaned \cap Unmarked(S, {})
    BY <2>1 DEF Flushed, Becomes
  <2>3. Unmarked(S, {}) = S
    BY DEF Unmarked
  <2>4. S \subseteq orphaned
    BY <2>1, MarkedPending
  <2> QED BY <2>2, <2>3, <2>4
<1> QED BY <1>1, DeferralInvariant, PTL DEF Spec, EagerSettles
=============================================================================
