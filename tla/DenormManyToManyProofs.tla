----------------------- MODULE DenormManyToManyProofs -----------------------
(***************************************************************************)
(* Over a ManyToMany relation, an aggregate column drifts from its rows,   *)
(* and a decrement is refused, only after a link and its row were written  *)
(* by two transactions at once: for any finite set of related rows and any *)
(* connections, owners and contents.                                       *)
(***************************************************************************)
EXTENDS DenormManyToMany, FiniteSetTheorems, SequenceTheorems, TLAPS

Value == Content \cup {Absent}
Tables == [Items -> Value]

(* What every related row adds to the column of one owner.                 *)
Columns == [Items -> Nat]
Share(v, L, i, o) == IF <<i, o>> \in L /\ Passes(v) THEN v.amount ELSE 0
Column(V, L, o) == [i \in Items |-> Share(V[i], L, i, o)]

LEMMA Amounts ==
  ASSUME NEW v \in Content
  PROVE  v.amount \in Nat /\ v.passes \in BOOLEAN /\ v # Absent /\ v # Same /\ v # None
BY ManyToManyAssumption

LEMMA Shares ==
  ASSUME NEW v \in Value, NEW L, NEW i, NEW o
  PROVE  Share(v, L, i, o) \in Nat
BY Amounts DEF Share, Value, Passes

LEMMA ColumnType ==
  ASSUME NEW V \in Tables, NEW L, NEW o
  PROVE  Column(V, L, o) \in Columns
BY Shares DEF Column, Columns, Tables

-----------------------------------------------------------------------------
(* Units: the sums of this module count them *)

Cells(f) == UNION {{i} \X (1 .. f[i]) : i \in Items}
Size(f) == Cardinality(Cells(f))

LEMMA RowUnits ==
  ASSUME NEW r, NEW n \in Nat
  PROVE  IsFiniteSet({r} \X (1 .. n)) /\ Cardinality({r} \X (1 .. n)) = n
<1>1. IsFiniteSet(1 .. n) /\ Cardinality(1 .. n) = n
  <2>1. 1 \in Int /\ n \in Int /\ (n >= 1 => n - 1 + 1 = n) /\ (1 > n => n = 0)
    OBVIOUS
  <2>2. /\ IsFiniteSet(1 .. n)
        /\ Cardinality(1 .. n) = IF 1 > n THEN 0 ELSE n - 1 + 1
    BY <2>1, FS_Interval
  <2> QED BY <2>1, <2>2
<1>2. IsFiniteSet({r}) /\ Cardinality({r}) = 1
  BY FS_Singleton
<1> DEFINE S == {r}
           T == 1 .. n
<1> HIDE DEF S, T
<1>3. IsFiniteSet(S) /\ Cardinality(S) = 1 /\ IsFiniteSet(T) /\ Cardinality(T) = n
  BY <1>1, <1>2 DEF S, T
<1>4. IsFiniteSet(S \X T) /\ Cardinality(S \X T) = Cardinality(S) * Cardinality(T)
  BY <1>3, FS_Product
<1>5. Cardinality(S \X T) = n
  BY <1>3, <1>4
<1> QED BY <1>4, <1>5 DEF S, T

LEMMA CellOf ==
  ASSUME NEW f, NEW x
  PROVE  x \in Cells(f) <=> \E i \in Items : x \in {i} \X (1 .. f[i])
BY DEF Cells

LEMMA CellsFinite ==
  ASSUME NEW f \in Columns
  PROVE  IsFiniteSet(Cells(f)) /\ Size(f) \in Nat
<1> DEFINE g == [i \in Items |-> {i} \X (1 .. f[i])]
           S == {g[i] : i \in Items}
<1>1. IsFiniteSet(Items)
  BY ManyToManyAssumption
<1>2. \A i \in Items : IsFiniteSet(g[i])
  BY RowUnits DEF Columns
<1>3. Cells(f) = UNION S
  BY DEF Cells
<1>4. g \in Surjection(Items, S)
  BY DEF Surjection
<1>5. IsFiniteSet(S)
  BY <1>1, <1>4, FS_Surjection
<1>6. \A T \in S : IsFiniteSet(T)
  BY <1>2
<1> HIDE DEF S
<1>7. IsFiniteSet(UNION S)
  BY <1>5, <1>6, FS_UNION
<1> DEFINE U == Cells(f)
<1>8. IsFiniteSet(U)
  BY <1>3, <1>7
<1> HIDE DEF U
<1>9. Cardinality(U) \in Nat
  BY <1>8, FS_CardinalityType
<1> QED BY <1>8, <1>9 DEF U, Size

(* The units of the rows in W.                                             *)
Part(f, W) == {x \in Cells(f) : x[1] \in W}

LEMMA Parts ==
  ASSUME NEW f \in Columns, NEW W
  PROVE  /\ Cardinality(Part(f, W)) \in Nat
         /\ Cardinality(Part(f, Items \ W)) \in Nat
         /\ Size(f) = Cardinality(Part(f, W)) + Cardinality(Part(f, Items \ W))
<1> DEFINE U == Cells(f)
           P == Part(f, W)
           Q == Part(f, Items \ W)
<1>1. \A x \in U : x[1] \in Items
  <2> TAKE x \in U
  <2>1. PICK i \in Items : x \in {i} \X (1 .. f[i])
    BY CellOf
  <2> QED BY <2>1
<1>2. P \subseteq U /\ Q \subseteq U /\ U = P \cup Q /\ P \cap Q = {}
  BY <1>1 DEF Part
<1>3. IsFiniteSet(U)
  BY CellsFinite
<1> HIDE DEF U, P, Q
<1>4. IsFiniteSet(P) /\ IsFiniteSet(Q)
  BY <1>2, <1>3, FS_Subset
<1>5. /\ Cardinality(P) \in Nat /\ Cardinality(Q) \in Nat
      /\ Cardinality(P \cap Q) = 0
      /\ Cardinality(P \cup Q) = Cardinality(P) + Cardinality(Q) - Cardinality(P \cap Q)
  BY <1>2, <1>4, FS_CardinalityType, FS_EmptySet, FS_Union
<1>6. Cardinality(U) = Cardinality(P) + Cardinality(Q)
  BY <1>2, <1>5
<1> QED BY <1>5, <1>6 DEF U, P, Q, Size

LEMMA SamePart ==
  ASSUME NEW f \in Columns, NEW g \in Columns, NEW W,
         \A i \in Items \cap W : f[i] = g[i]
  PROVE  Part(f, W) = Part(g, W)
<1>1. ASSUME NEW x, NEW h
      PROVE  x \in Part(h, W) <=> \E i \in Items \cap W : x \in {i} \X (1 .. h[i])
  BY CellOf DEF Part
<1>2. \A x : x \in Part(f, W) <=> x \in Part(g, W)
  <2> TAKE x
  <2> DEFINE In(h) == \E i \in Items \cap W : x \in {i} \X (1 .. h[i])
  <2>1. In(f) <=> In(g)
    OBVIOUS
  <2>2. (x \in Part(f, W) <=> In(f)) /\ (x \in Part(g, W) <=> In(g))
    BY <1>1
  <2> QED BY <2>1, <2>2
<1> QED BY <1>2 DEF Part

(* One change turns the column from R to A in the rows of W, another one   *)
(* from R to U elsewhere: N has both, and both make up its difference.     *)
Joined(R, A, U, N, W) ==
    /\ \A i \in Items \cap W : N[i] = A[i] /\ U[i] = R[i]
    /\ \A i \in Items \ W : N[i] = U[i] /\ A[i] = R[i]

Additive(R, A, U, N) == Size(N) + Size(R) = Size(A) + Size(U)

LEMMA Apart ==
  ASSUME NEW R \in Columns, NEW A \in Columns, NEW U \in Columns, NEW N \in Columns,
         NEW W, Joined(R, A, U, N, W)
  PROVE  Additive(R, A, U, N)
<1>1. /\ Part(N, W) = Part(A, W) /\ Part(U, W) = Part(R, W)
      /\ Part(N, Items \ W) = Part(U, Items \ W)
      /\ Part(A, Items \ W) = Part(R, Items \ W)
  BY SamePart DEF Joined
<1> QED BY <1>1, Parts DEF Additive

(* One row changes.                                                        *)
LEMMA OneItem ==
  ASSUME NEW f \in Columns, NEW g \in Columns, NEW i \in Items,
         \A j \in Items \ {i} : g[j] = f[j]
  PROVE  Size(g) = Size(f) - f[i] + g[i]
<1>1. Part(g, Items \ {i}) = Part(f, Items \ {i})
  BY SamePart
<1>2. ASSUME NEW h \in Columns
      PROVE  Cardinality(Part(h, {i})) = h[i] /\ h[i] \in Nat
  <2>1. Part(h, {i}) = {i} \X (1 .. h[i])
    BY CellOf DEF Part
  <2>2. h[i] \in Nat
    BY DEF Columns
  <2>3. Cardinality({i} \X (1 .. h[i])) = h[i]
    BY <2>2, RowUnits
  <2> QED BY <2>1, <2>2, <2>3
<1>3. /\ Cardinality(Part(f, {i})) = f[i] /\ f[i] \in Nat
      /\ Cardinality(Part(g, {i})) = g[i] /\ g[i] \in Nat
  BY <1>2
<1>4. /\ Cardinality(Part(f, Items \ {i})) \in Nat
      /\ Size(f) = Cardinality(Part(f, {i})) + Cardinality(Part(f, Items \ {i}))
      /\ Size(g) = Cardinality(Part(g, {i})) + Cardinality(Part(g, Items \ {i}))
  BY Parts
<1> QED BY <1>1, <1>3, <1>4

(* The aggregate of the model is the size of its column.                   *)
LEMMA Counted ==
  ASSUME NEW V \in Tables, NEW L, NEW o
  PROVE  /\ FromScratch(V, L, o) = Size(Column(V, L, o))
         /\ FromScratch(V, L, o) \in Nat
<1> DEFINE f == Column(V, L, o)
<1>1. ASSUME NEW x
      PROVE  x \in Units(V, L, o) <=> x \in Cells(f)
  <2>1. \A i \in Linked(V, L, o) : i \in Items /\ f[i] = V[i].amount
    BY DEF Linked, Column, Share
  <2>2. \A i \in Items \ Linked(V, L, o) : {i} \X (1 .. f[i]) = {}
    <3> TAKE i \in Items \ Linked(V, L, o)
    <3>1. f[i] = 0
      BY DEF Linked, Column, Share
    <3>2. 1 .. 0 = {}
      OBVIOUS
    <3> QED BY <3>1, <3>2
  <2>3. x \in Units(V, L, o) <=>
          \E i \in Linked(V, L, o) : x \in {i} \X (1 .. V[i].amount)
    BY DEF Units
  <2> HIDE DEF f
  <2> QED BY <2>1, <2>2, <2>3, CellOf
<1>2. Units(V, L, o) = Cells(f)
  BY <1>1
<1>3. f \in Columns
  BY ColumnType
<1> HIDE DEF f
<1>4. Size(f) \in Nat /\ FromScratch(V, L, o) = Size(f)
  BY <1>2, <1>3, CellsFinite DEF FromScratch, Size
<1> QED BY <1>4 DEF f

(* One row, or the links of one row, change.                               *)
SameBut(V, L, N, M, i, o) ==
    \A j \in Items \ {i} : N[j] = V[j] /\ (<<j, o>> \in M <=> <<j, o>> \in L)

ChangedBy(V, L, N, M, i, o) ==
    FromScratch(N, M, o) =
      FromScratch(V, L, o) - Share(V[i], L, i, o) + Share(N[i], M, i, o)

LEMMA OneChange ==
  ASSUME NEW V \in Tables, NEW L, NEW N \in Tables, NEW M, NEW i \in Items, NEW o,
         SameBut(V, L, N, M, i, o)
  PROVE  ChangedBy(V, L, N, M, i, o)
<1> DEFINE f == Column(V, L, o)
           g == Column(N, M, o)
<1>1. f \in Columns /\ g \in Columns
  BY ColumnType
<1>2. \A j \in Items \ {i} : g[j] = f[j]
  BY DEF Column, Share, SameBut
<1>3. f[i] = Share(V[i], L, i, o) /\ g[i] = Share(N[i], M, i, o)
  BY DEF Column
<1>4. FromScratch(V, L, o) = Size(f) /\ FromScratch(N, M, o) = Size(g)
  BY Counted
<1> HIDE DEF f, g
<1>5. Size(g) = Size(f) - f[i] + g[i]
  BY <1>1, <1>2, OneItem
<1> QED BY <1>3, <1>4, <1>5 DEF ChangedBy

LEMMA LinkOf ==
  ASSUME NEW l \in Links
  PROVE  l[1] \in Items /\ l[2] \in Owners /\ l = <<l[1], l[2]>>
BY DEF Links

(* What one link adds to the column of its owner.                          *)
Worth(V, l, o) ==
    IF o = l[2] /\ Passes(V[l[1]]) THEN V[l[1]].amount ELSE 0

LEMMA LinkComes ==
  ASSUME NEW V \in Tables, NEW K, NEW l \in Links, l \notin K, NEW o
  PROVE  /\ FromScratch(V, K \cup {l}, o) = FromScratch(V, K, o) + Worth(V, l, o)
         /\ FromScratch(V, K, o) \in Nat /\ Worth(V, l, o) \in Nat
<1> DEFINE i == l[1]
           M == K \cup {l}
<1>1. i \in Items /\ V[i] \in Value /\ (<<i, o>> = l <=> o = l[2])
  BY LinkOf DEF Tables
<1>2. SameBut(V, K, V, M, i, o)
  <2>1. ASSUME NEW j \in Items \ {i}
        PROVE  <<j, o>> # l
    <3>1. <<j, o>>[1] = j
      OBVIOUS
    <3> QED BY <3>1
  <2> QED BY <2>1 DEF SameBut
<1>3. /\ <<i, o>> \in M <=> <<i, o>> \in K \/ o = l[2]
      /\ o = l[2] => <<i, o>> \notin K
  BY <1>1
<1>4. Share(V[i], M, i, o) = Share(V[i], K, i, o) + Worth(V, l, o)
  <2>1. Passes(V[i]) => V[i].amount \in Nat
    BY <1>1, Amounts DEF Passes, Value
  <2> HIDE DEF M
  <2> QED BY <1>3, <2>1 DEF Share, Worth
<1>5. Share(V[i], K, i, o) \in Nat /\ Worth(V, l, o) \in Nat
  <2>1. Passes(V[i]) => V[i].amount \in Nat
    BY <1>1, Amounts DEF Passes, Value
  <2> QED BY <1>1, <2>1, Shares DEF Worth
<1> HIDE DEF i, M
<1>6. FromScratch(V, K, o) \in Nat
  BY Counted
<1>7. ChangedBy(V, K, V, M, i, o)
  BY <1>1, <1>2, OneChange, Zenon
<1>8. FromScratch(V, M, o) = FromScratch(V, K, o) + Worth(V, l, o)
  BY <1>4, <1>5, <1>6, <1>7 DEF ChangedBy
<1> QED BY <1>5, <1>6, <1>8 DEF M

-----------------------------------------------------------------------------
(* Actions, in the rows and links a transaction sees *)

Gain(V, L, a, o) ==
    LET v == IF a.content # None THEN a.content ELSE V[a.item]
    IN  IF /\ IF a.owner # None THEN o = a.owner ELSE <<a.item, o>> \in L
           /\ Passes(v)
        THEN a.sign * v.amount ELSE 0
Pending(V, L, q, o) ==
    IF q = <<>> THEN 0
    ELSE Gain(V, L, q[1], o) + (IF Len(q) = 2 THEN Gain(V, L, q[2], o) ELSE 0)

LEMMA EffectIsGain ==
  ASSUME NEW t, NEW a, NEW o \in Owners
  PROVE  /\ Effect(t, a, o) = Gain(View(t), ViewLinks(t), a, o)
         /\ Effect(t, a, o)' = Gain(View(t)', ViewLinks(t)', a, o)
BY DEF Effect, Found, Counts, Subject, Gain

LEMMA QueuedIsPending ==
  ASSUME NEW t, NEW o \in Owners
  PROVE  /\ Queued(t, o) = Pending(View(t), ViewLinks(t), todo[t], o)
         /\ Queued(t, o)' = Pending(View(t)', ViewLinks(t)', todo'[t], o)
<1>1. \A a : Effect(t, a, o) = Gain(View(t), ViewLinks(t), a, o)
  BY EffectIsGain
<1>2. Queued(t, o) = Pending(View(t), ViewLinks(t), todo[t], o)
  BY <1>1 DEF Queued, Pending
<1>3. \A a : Effect(t, a, o)' = Gain(View(t)', ViewLinks(t)', a, o)
  BY EffectIsGain
<1>4. Queued(t, o)' = Pending(View(t)', ViewLinks(t)', todo'[t], o)
  BY <1>3 DEF Queued, Pending, Effect, Found, Counts, Subject, Gain
<1> QED BY <1>2, <1>4

LEMMA Gains ==
  ASSUME NEW V \in Tables, NEW L, NEW a \in Action, NEW o
  PROVE  /\ Gain(V, L, a, o) \in Int
         /\ a.sign = -1 => Gain(V, L, a, o) <= 0
<1> DEFINE v == IF a.content # None THEN a.content ELSE V[a.item]
<1>1. v \in Value /\ a.sign \in {-1, 1}
  BY DEF Action, Tables, Value
<1>2. Gain(V, L, a, o) = 0 \/ (Passes(v) /\ Gain(V, L, a, o) = a.sign * v.amount)
  BY DEF Gain
<1> HIDE DEF v
<1>3. Passes(v) => v.amount \in Nat
  BY <1>1, Amounts DEF Passes, Value
<1>4. Passes(v) => /\ a.sign * v.amount \in Int
                   /\ a.sign = -1 => a.sign * v.amount <= 0
  BY <1>1, <1>3
<1> QED BY <1>2, <1>4

LEMMA GainOfItem ==
  ASSUME NEW V, NEW L, NEW sign \in {-1, 1}, NEW i \in Items, NEW v \in Content, NEW o
  PROVE  /\ OfItem(sign, i, v) \in Action /\ OfItem(sign, i, v).sign = sign
         /\ Gain(V, L, OfItem(sign, i, v), o) = sign * Share(v, L, i, o)
<1> DEFINE a == OfItem(sign, i, v)
<1>1. /\ a.sign = sign /\ a.content = v /\ a.owner = None /\ a.item = i
      /\ a \in Action
  BY DEF OfItem, Action
<1>2. v # None /\ v.amount \in Nat /\ sign * 0 = 0
  BY Amounts
<1> HIDE DEF a
<1>3. Gain(V, L, a, o) = IF <<i, o>> \in L /\ Passes(v) THEN sign * v.amount ELSE 0
  BY <1>1, <1>2 DEF Gain
<1>4. Gain(V, L, a, o) = sign * Share(v, L, i, o)
  BY <1>2, <1>3 DEF Share
<1> QED BY <1>1, <1>4 DEF a

LEMMA GainOfLink ==
  ASSUME NEW V, NEW L, NEW sign \in {-1, 1}, NEW l \in Links, NEW o
  PROVE  /\ OfLink(sign, l) \in Action /\ OfLink(sign, l).sign = sign
         /\ OfLink(sign, l).content = None /\ OfLink(sign, l).owner \in Owners
         /\ <<OfLink(sign, l).item, OfLink(sign, l).owner>> = l
         /\ Gain(V, L, OfLink(sign, l), o) =
              IF o = l[2] /\ Passes(V[l[1]]) THEN sign * V[l[1]].amount ELSE 0
<1> DEFINE a == OfLink(sign, l)
           i == l[1]
           p == l[2]
<1>1. i \in Items /\ p \in Owners /\ l = <<i, p>>
  BY LinkOf
<1> HIDE DEF i, p
<1>2. /\ a.sign = sign /\ a.content = None /\ a.owner = p /\ a.item = i
      /\ a \in Action
  BY <1>1 DEF OfLink, Action, i, p
<1>3. p # None
  BY <1>1, ManyToManyAssumption
<1> HIDE DEF a
<1>4. Gain(V, L, a, o) = IF o = p /\ Passes(V[i]) THEN sign * V[i].amount ELSE 0
  BY <1>2, <1>3 DEF Gain
<1> QED BY <1>1, <1>2, <1>4 DEF a, i, p

(* A trigger's queue adds before it subtracts.                             *)
Actions(q) == /\ q \in Seq(Action) /\ Len(q) <= 2
              /\ Len(q) = 2 => q[1].sign = 1 /\ q[2].sign = -1

LEMMA OneAction ==
  ASSUME NEW a \in Action
  PROVE  /\ Actions(<<a>>)
         /\ \A V, L, o : Pending(V, L, <<a>>, o) = Gain(V, L, a, o) + 0
         /\ \A n \in 1 .. Len(<<a>>) : <<a>>[n] = a
<1>1. <<a>> \in Seq(Action) /\ Len(<<a>>) = 1 /\ <<a>>[1] = a /\ <<a>> # <<>>
  OBVIOUS
<1> QED BY <1>1 DEF Actions, Pending

LEMMA TwoActions ==
  ASSUME NEW a \in Action, NEW b \in Action, a.sign = 1, b.sign = -1
  PROVE  /\ Actions(<<a, b>>)
         /\ \A V, L, o : Pending(V, L, <<a, b>>, o) = Gain(V, L, a, o) + Gain(V, L, b, o)
         /\ \A n \in 1 .. Len(<<a, b>>) : <<a, b>>[n] \in {a, b}
<1>1. /\ <<a, b>> \in Seq(Action) /\ Len(<<a, b>>) = 2
      /\ <<a, b>>[1] = a /\ <<a, b>>[2] = b /\ <<a, b>> # <<>>
  OBVIOUS
<1> QED BY <1>1 DEF Actions, Pending

LEMMA NoAction == /\ \A V, L, o : Pending(V, L, <<>>, o) = 0
                  /\ <<>> \in Seq(Action) /\ Len(<<>>) = 0
BY DEF Pending

(* The first queued action and the rest of the queue.                      *)
LEMMA Queue ==
  ASSUME NEW q, Actions(q), q # <<>>
  PROVE  /\ q[1] = Head(q) /\ Head(q) \in Action /\ Actions(Tail(q))
         /\ Len(q) \in {1, 2} /\ Len(Tail(q)) = Len(q) - 1
         /\ Len(q) = 1 => Tail(q) = <<>>
         /\ Len(q) = 2 => /\ q[2] \in Action /\ Tail(q)[1] = q[2] /\ Tail(q) # <<>>
                          /\ q[1].sign = 1 /\ q[2].sign = -1
<1>1. q \in Seq(Action) /\ Len(q) <= 2
  BY DEF Actions
<1>e. \A s \in Seq(Action) : Len(s) \in Nat /\ (Len(s) = 0 <=> s = <<>>)
  <2> TAKE s \in Seq(Action)
  <2> QED BY EmptySeq, LenProperties
<1>2. /\ Head(q) = q[1] /\ Head(q) \in Action /\ Tail(q) \in Seq(Action)
      /\ Len(Tail(q)) = Len(q) - 1
      /\ \A i \in 1 .. Len(Tail(q)) : Tail(q)[i] = q[i + 1]
  BY <1>1, HeadTailProperties, Z3
<1>3. Len(q) \in {1, 2}
  <2> DEFINE n == Len(q)
  <2>1. n \in Nat /\ n # 0 /\ n <= 2
    BY <1>1, <1>e
  <2> HIDE DEF n
  <2>2. n \in {1, 2}
    BY <2>1
  <2> QED BY <2>2 DEF n
<1>4. ASSUME Len(q) = 1
      PROVE  Tail(q) = <<>>
  <2>1. Len(Tail(q)) = 0
    BY <1>2, <1>4
  <2> QED BY <1>2, <2>1, <1>e, Zenon
<1>5. ASSUME Len(q) = 2
      PROVE  /\ q[2] \in Action /\ Tail(q)[1] = q[2] /\ Tail(q) # <<>>
             /\ q[1].sign = 1 /\ q[2].sign = -1
  <2>0. /\ 2 \in 1 .. 2 /\ 1 \in 1 .. 1 /\ 1 + 1 = 2 /\ 2 - 1 = 1 /\ 1 # 0
    OBVIOUS
  <2>1. /\ 2 \in 1 .. Len(q) /\ 1 \in 1 .. Len(Tail(q)) /\ 1 + 1 = 2
        /\ Len(Tail(q)) # 0
    BY <1>2, <1>5, <2>0, Zenon
  <2>2. q[2] \in Action
    BY <1>1, <2>1, ElementOfSeq, Z3
  <2>3. Tail(q) # <<>>
    BY <1>2, <2>1, <1>e, Zenon
  <2> QED BY <1>2, <1>5, <2>1, <2>2, <2>3 DEF Actions
<1>6. Actions(Tail(q))
  <2>1. Len(Tail(q)) <= 1
    BY <1>2, <1>3
  <2>2. Len(Tail(q)) <= 2 /\ Len(Tail(q)) # 2
    BY <1>2, <1>3
  <2> QED BY <1>2, <2>2 DEF Actions
<1> QED BY <1>2, <1>3, <1>4, <1>5, <1>6

(* Its effect, taken apart: what follows the first action only subtracts.  *)
LEMMA Pendings ==
  ASSUME NEW V \in Tables, NEW L, NEW q, Actions(q), NEW o
  PROVE  /\ Pending(V, L, q, o) \in Int
         /\ q # <<>> =>
              Pending(V, L, q, o) =
                Gain(V, L, Head(q), o) + Pending(V, L, Tail(q), o)
         /\ Len(q) = 1 /\ q[1].sign = -1 => Pending(V, L, q, o) <= 0
<1>1. CASE q = <<>>
  <2>1. Len(q) # 1 /\ Pending(V, L, q, o) = 0
    BY <1>1, NoAction
  <2> QED BY <1>1, <2>1
<1>2. CASE q # <<>> /\ Len(q) = 1
  <2>1. Tail(q) = <<>> /\ q[1] \in Action /\ q[1] = Head(q)
    BY <1>2, Queue
  <2>2. /\ Gain(V, L, q[1], o) \in Int
        /\ q[1].sign = -1 => Gain(V, L, q[1], o) <= 0
    BY <2>1, Gains
  <2>3. Pending(V, L, q, o) = Gain(V, L, q[1], o) + 0
    BY <1>2 DEF Pending
  <2>4. Pending(V, L, Tail(q), o) = 0
    BY <2>1, NoAction
  <2> QED BY <1>2, <2>1, <2>2, <2>3, <2>4
<1>3. CASE q # <<>> /\ Len(q) = 2
  <2>1. /\ q[1] \in Action /\ q[1] = Head(q) /\ q[2] \in Action
        /\ Tail(q)[1] = q[2] /\ Tail(q) # <<>> /\ Len(Tail(q)) # 2
    <3>1. Len(Tail(q)) = Len(q) - 1
      BY <1>3, Queue
    <3>2. 2 - 1 # 2
      OBVIOUS
    <3> QED BY <1>3, <3>2, Queue
  <2>2. Gain(V, L, q[1], o) \in Int /\ Gain(V, L, q[2], o) \in Int
    BY <2>1, Gains
  <2>3. Pending(V, L, q, o) = Gain(V, L, q[1], o) + Gain(V, L, q[2], o)
    BY <1>3 DEF Pending
  <2>4. Pending(V, L, Tail(q), o) = Gain(V, L, q[2], o) + 0
    BY <2>1 DEF Pending
  <2>5. Pending(V, L, Tail(q), o) = Gain(V, L, q[2], o)
    BY <2>2, <2>4
  <2>6. Len(q) # 1
    BY <1>3
  <2> QED BY <1>3, <2>1, <2>2, <2>3, <2>5, <2>6
<1> QED BY <1>1, <1>2, <1>3, Queue

-----------------------------------------------------------------------------
(* The invariant *)

LEMMA Views ==
  ASSUME TypeOK, NEW t \in Tx
  PROVE  View(t) \in Tables /\ item \in Tables
<1>0. /\ item \in [Items -> Value]
      /\ buf \in [Tx -> [Items -> Content \cup {Absent, Same}]]
  BY DEF TypeOK, Value
<1>1. \A i \in Items : item[i] \in Value /\ buf[t][i] \in Value \cup {Same}
  BY <1>0 DEF Value
<1>2. \A i \in Items : (IF buf[t][i] = Same THEN item[i] ELSE buf[t][i]) \in Value
  BY <1>1
<1> QED BY <1>0, <1>2 DEF View, Tables

LEMMA ViewsNext ==
  ASSUME TypeOK', NEW t \in Tx
  PROVE  View(t)' \in Tables /\ item' \in Tables
<1>0. /\ item' \in [Items -> Value]
      /\ buf' \in [Tx -> [Items -> Content \cup {Absent, Same}]]
  BY DEF TypeOK, Value
<1>1. \A i \in Items : item'[i] \in Value /\ buf'[t][i] \in Value \cup {Same}
  BY <1>0 DEF Value
<1>2. \A i \in Items : (IF buf'[t][i] = Same THEN item'[i] ELSE buf'[t][i]) \in Value
  BY <1>1
<1> QED BY <1>0, <1>2 DEF View, Tables

(* The parts of OrderInv, for one transaction.                             *)
Signed(t) ==
    /\ Len(todo[t]) <= 2
    /\ Len(todo[t]) = 2 =>
        upd[t].owners = {} /\ todo[t][1].sign = 1 /\ todo[t][2].sign = -1
    /\ Len(todo[t]) = 1 /\ upd[t].owners # {} => todo[t][1].sign = -1
Holding(t) == \A n \in 1 .. Len(todo[t]) : Held(t, todo[t][n])

LEMMA Orders ==
  /\ OrderInv <=> \A t \in Tx : Signed(t) /\ Holding(t)
  /\ OrderInv' <=> \A t \in Tx : Signed(t)' /\ Holding(t)'
BY DEF OrderInv, Signed, Holding

LEMMA HoldingStays ==
  ASSUME TypeOK, NEW t \in Tx, Holding(t), todo'[t] = todo[t], buf'[t] = buf[t],
         \A l \in Links : lock[l] = t => lock'[l] = t
  PROVE  Holding(t)'
<1> SUFFICES ASSUME NEW n \in 1 .. Len(todo'[t])
             PROVE  LET a == todo'[t][n]
                    IN  \/ /\ a.content \in Content /\ a.owner = None
                           /\ buf'[t][a.item] # Same
                        \/ /\ a.content = None /\ a.owner \in Owners
                           /\ lock'[<<a.item, a.owner>>] = t
  BY DEF Holding, Held
<1> DEFINE a == todo[t][n]
<1>1. a \in Action /\ Held(t, a)
  <2>1. todo[t] \in Seq(Action) /\ n \in 1 .. Len(todo[t])
    BY DEF TypeOK
  <2> QED BY <2>1, ElementOfSeq DEF Holding
<1> HIDE DEF a
<1>2. a.owner \in Owners => <<a.item, a.owner>> \in Links
  BY <1>1 DEF Action, Links
<1>3. \/ /\ a.content \in Content /\ a.owner = None
         /\ buf'[t][a.item] # Same
      \/ /\ a.content = None /\ a.owner \in Owners
         /\ lock'[<<a.item, a.owner>>] = t
  BY <1>1, <1>2 DEF Held
<1> QED BY <1>3 DEF a

LEMMA QueueOf ==
  ASSUME TypeOK, OrderInv, NEW t \in Tx
  PROVE  Actions(todo[t])
BY DEF TypeOK, OrderInv, Actions

LEMMA Arithmetic ==
  /\ \A n \in Int : n + 0 = n /\ (n + 0) + 0 = n /\ n - 0 = n
  /\ \A a \in Int, b \in Int : a + b \in Int /\ a - b \in Int
OBVIOUS

(* The column a transaction sees, with what its triggers still add.        *)
LEMMA Balanced ==
  ASSUME IInv, NEW t \in Tx, NEW o \in Owners
  PROVE  /\ total[o] \in Nat /\ acc[t][o] \in Int
         /\ Total(t, o) = total[o] + acc[t][o] /\ Total(t, o) \in Nat
         /\ Running(t, o) \in Int /\ Queued(t, o) \in Int
         /\ FromScratch(View(t), ViewLinks(t), o) \in Nat
         /\ Quiet(t) => Running(t, o) = 0 /\ Queued(t, o) = 0
         /\ o \notin raced =>
              /\ total[o] = FromScratch(item, links, o)
              /\ Total(t, o) + Running(t, o) + Queued(t, o) =
                    FromScratch(View(t), ViewLinks(t), o)
              /\ Quiet(t) => Total(t, o) = FromScratch(View(t), ViewLinks(t), o)
<1>1. total[o] \in Nat /\ acc[t][o] \in Int
  BY DEF IInv, TypeOK
<1>2. Total(t, o) = total[o] + acc[t][o] /\ Total(t, o) \in Nat
  <2>1. Total(t, o) = total[o] + acc[t][o]
    BY DEF Total
  <2>2. Total(t, o) >= 0
    BY DEF IInv, FloorInv
  <2>3. Total(t, o) \in Int
    BY <1>1, <2>1
  <2> QED BY <2>1, <2>2, <2>3
<1>3. Running(t, o) \in Int
  <2>1. upd[t].amount \in Int
    BY DEF IInv, TypeOK
  <2> QED BY <2>1 DEF Running
<1>4. View(t) \in Tables /\ Actions(todo[t])
  BY Views, QueueOf DEF IInv
<1>5. Queued(t, o) \in Int /\ FromScratch(View(t), ViewLinks(t), o) \in Nat
  BY <1>4, QueuedIsPending, Pendings, Counted
<1>6. Quiet(t) => Running(t, o) = 0 /\ Queued(t, o) = 0
  BY DEF Quiet, Running, Queued
<1>7. ASSUME o \notin raced
      PROVE  /\ total[o] = FromScratch(item, links, o)
             /\ Total(t, o) + Running(t, o) + Queued(t, o) =
                   FromScratch(View(t), ViewLinks(t), o)
  BY <1>7 DEF IInv, DriftsOnlyByRace, BalanceInv
<1>8. ASSUME o \notin raced, Quiet(t)
      PROVE  Total(t, o) = FromScratch(View(t), ViewLinks(t), o)
  <2>1. (Total(t, o) + 0) + 0 = FromScratch(View(t), ViewLinks(t), o)
    BY <1>6, <1>7, <1>8
  <2> QED BY <1>2, <2>1
<1> QED BY <1>1, <1>2, <1>3, <1>5, <1>6, <1>7, <1>8

LEMMA Beginnings ==
  /\ Zero \in [Owners -> Int] /\ \A o \in Owners : Zero[o] = 0
  /\ Done.owners = {} /\ Done.amount = 0
  /\ Done \in [owners : SUBSET Owners, amount : Int]
  /\ Untouched \in [Items -> Content \cup {Absent, Same}]
  /\ \A i \in Items : Untouched[i] = Same
BY DEF Zero, Done, Untouched

LEMMA InitIInv == Init => IInv
<1> SUFFICES ASSUME Init PROVE IInv
  OBVIOUS
<1>1. Item0 \in Tables /\ Links0 \subseteq {l \in Links : Item0[l[1]] # Absent}
  BY ManyToManyAssumption DEF Tables, Value
<1>2. \A o \in Owners : total[o] = FromScratch(Item0, Links0, o) /\ total[o] \in Nat
  BY <1>1, Counted DEF Init
<1>3. TypeOK
  <2>1. /\ item \in [Items -> Content \cup {Absent}]
        /\ links \subseteq {l \in Links : item[l[1]] # Absent}
    BY <1>1 DEF Init, Tables, Value
  <2>2. total \in [Owners -> Nat]
    BY <1>2 DEF Init
  <2>3. /\ lock \in [Items \cup Links \cup Owners -> Tx \cup {None}]
        /\ buf \in [Tx -> [Items -> Content \cup {Absent, Same}]]
        /\ add \in [Tx -> SUBSET Links] /\ rem \in [Tx -> SUBSET Links]
        /\ acc \in [Tx -> [Owners -> Int]]
        /\ upd \in [Tx -> [owners : SUBSET Owners, amount : Int]]
        /\ rejected \subseteq Owners /\ raced \subseteq Owners
    BY Beginnings DEF Init
  <2>4. todo \in [Tx -> Seq(Action)]
    BY NoAction DEF Init
  <2>5. ops \in [Tx -> 0 .. MaxOps]
    BY ManyToManyAssumption DEF Init
  <2>6. \A t \in Tx :
          /\ add[t] \cap links = {} /\ rem[t] \subseteq links
          /\ \A i \in Items : buf[t][i] # Same => lock[i] = t
          /\ \A l \in add[t] \cup rem[t] : lock[l] = t
          /\ \A o \in Owners : acc[t][o] # 0 => lock[o] = t
    BY Beginnings DEF Init
  <2> QED BY <2>1, <2>2, <2>3, <2>4, <2>5, <2>6 DEF TypeOK
<1>4. \A t \in Tx : View(t) = Item0 /\ ViewLinks(t) = Links0
  BY <1>1, Beginnings DEF Init, View, ViewLinks, Tables
<1>5. \A t \in Tx, o \in Owners : Total(t, o) = total[o] + 0
  BY Beginnings DEF Init, Total
<1>6. OrderInv
  <2> SUFFICES ASSUME NEW t \in Tx
               PROVE  Len(todo[t]) = 0
    BY DEF OrderInv
  <2> QED BY NoAction DEF Init
<1>7. FloorInv
  BY <1>2, <1>5 DEF FloorInv
<1>8. RaceInv
  <2> SUFFICES ASSUME NEW t \in Tx, NEW i \in Items, NEW o \in Owners
               PROVE  lock[<<i, o>>] # t
    BY DEF RaceInv
  <2>1. <<i, o>> \in Items \cup Links \cup Owners
    BY DEF Links
  <2>2. lock[<<i, o>>] = None
    BY <2>1 DEF Init
  <2> QED BY <2>2, ManyToManyAssumption
<1>9. BalanceInv
  <2> SUFFICES ASSUME NEW t \in Tx, NEW o \in Owners
               PROVE  Total(t, o) + Running(t, o) + Queued(t, o) =
                        FromScratch(View(t), ViewLinks(t), o)
    BY DEF BalanceInv
  <2>1. Running(t, o) = 0 /\ Queued(t, o) = 0
    BY Beginnings DEF Init, Running, Queued
  <2>2. ((total[o] + 0) + 0) + 0 = FromScratch(Item0, Links0, o)
    BY <1>2
  <2> QED BY <1>4, <1>5, <2>1, <2>2
<1>10. DriftsOnlyByRace /\ RejectsOnlyByRace
  BY <1>2 DEF Init, DriftsOnlyByRace, RejectsOnlyByRace
<1> QED BY <1>3, <1>6, <1>7, <1>8, <1>9, <1>10 DEF IInv

(* A statement that changes the rows and links its transaction sees by as  *)
(* much as it queues.                                                      *)
LEMMA StatementStep ==
  ASSUME IInv, NEW t \in Tx, NEW q, Actions(q), TypeOK', RaceInv', Quiet(t),
         UNCHANGED <<item, links, total, acc, upd, rejected>>,
         raced \subseteq raced',
         todo'[t] = q, \A n \in 1 .. Len(q) : Held(t, q[n])',
         \A u \in Tx \ {t} :
            /\ todo'[u] = todo[u] /\ buf'[u] = buf[u]
            /\ add'[u] = add[u] /\ rem'[u] = rem[u]
            /\ \A l \in Links : lock[l] = u => lock'[l] = u,
         \A o \in Owners :
            FromScratch(View(t)', ViewLinks(t)', o) =
               FromScratch(View(t), ViewLinks(t), o)
                 + Pending(View(t)', ViewLinks(t)', q, o)
  PROVE  IInv'
<1>1. OrderInv'
  <2>1. Signed(t)' /\ Holding(t)'
    BY DEF Actions, Quiet, Signed, Holding, Held
  <2>2. ASSUME NEW u \in Tx \ {t}
        PROVE  Signed(u)' /\ Holding(u)'
    <3>1. Signed(u) /\ Holding(u)
      BY Orders DEF IInv
    <3>2. Signed(u)'
      BY <3>1 DEF Signed
    <3>3. Holding(u)'
      BY <3>1, HoldingStays DEF IInv
    <3> QED BY <3>2, <3>3
  <2> QED BY <2>1, <2>2, Orders
<1>2. \A u \in Tx, o \in Owners :
         Total(u, o)' = Total(u, o) /\ Running(u, o)' = Running(u, o)
  BY DEF Total, Running
<1>3. FloorInv'
  BY <1>2 DEF IInv, FloorInv
<1>4. BalanceInv'
  <2> SUFFICES ASSUME NEW u \in Tx, NEW o \in Owners \ raced'
               PROVE  Total(u, o)' + Running(u, o)' + Queued(u, o)' =
                        FromScratch(View(u)', ViewLinks(u)', o)
    BY DEF BalanceInv
  <2>1. o \in Owners /\ o \notin raced
    OBVIOUS
  <2>2. CASE u = t
    <3>1. Queued(t, o)' = Pending(View(t)', ViewLinks(t)', q, o)
      BY <2>1, QueuedIsPending
    <3>2. View(t)' \in Tables
      BY ViewsNext
    <3>3. Queued(t, o)' \in Int
      BY <3>1, <3>2, Pendings
    <3>4. /\ Total(t, o) \in Nat /\ Running(t, o) = 0
          /\ Total(t, o) = FromScratch(View(t), ViewLinks(t), o)
      BY <2>1, Balanced
    <3>5. (Total(t, o) + 0) + Queued(t, o)' = Total(t, o) + Queued(t, o)'
      BY <3>3, <3>4
    <3> QED BY <1>2, <2>1, <2>2, <3>1, <3>4, <3>5
  <2>3. CASE u # t
    <3>1. View(u)' = View(u) /\ ViewLinks(u)' = ViewLinks(u) /\ todo'[u] = todo[u]
      BY <2>3 DEF View, ViewLinks
    <3>2. Queued(u, o)' = Queued(u, o)
      BY <2>1, <3>1, QueuedIsPending
    <3>3. Total(u, o) + Running(u, o) + Queued(u, o) =
             FromScratch(View(u), ViewLinks(u), o)
      BY <2>1, Balanced
    <3> QED BY <1>2, <2>1, <3>1, <3>2, <3>3
  <2> QED BY <2>2, <2>3
<1>5. DriftsOnlyByRace' /\ RejectsOnlyByRace'
  BY DEF IInv, DriftsOnlyByRace, RejectsOnlyByRace
<1> QED BY <1>1, <1>3, <1>4, <1>5 DEF IInv

LEMMA ReadyTypes ==
  ASSUME TypeOK, NEW t \in Tx, NEW q, Actions(q), Ready(t),
         todo' = [todo EXCEPT ![t] = q]
  PROVE  /\ ops' \in [Tx -> 0 .. MaxOps] /\ todo' \in [Tx -> Seq(Action)]
         /\ todo'[t] = q /\ \A u \in Tx \ {t} : todo'[u] = todo[u]
<1>1. /\ ops \in [Tx -> 0 .. MaxOps] /\ ops[t] < MaxOps
      /\ ops' = [ops EXCEPT ![t] = @ + 1] /\ MaxOps \in Nat
  BY ManyToManyAssumption DEF TypeOK, Ready
<1>2. ops[t] + 1 \in 0 .. MaxOps
  BY <1>1
<1>3. todo \in [Tx -> Seq(Action)] /\ q \in Seq(Action)
  BY DEF TypeOK, Actions
<1> QED BY <1>1, <1>2, <1>3

(* What belongs to one transaction: the last part of TypeOK.               *)
Own(t) ==
    /\ add[t] \cap links = {} /\ rem[t] \subseteq links
    /\ \A i \in Items : buf[t][i] # Same => lock[i] = t
    /\ \A l \in add[t] \cup rem[t] : lock[l] = t
    /\ \A o \in Owners : acc[t][o] # 0 => lock[o] = t

Shapes ==
    /\ item \in [Items -> Content \cup {Absent}]
    /\ links \subseteq {l \in Links : item[l[1]] # Absent}
    /\ total \in [Owners -> Nat]
    /\ lock \in [Items \cup Links \cup Owners -> Tx \cup {None}]
    /\ buf \in [Tx -> [Items -> Content \cup {Absent, Same}]]
    /\ add \in [Tx -> SUBSET Links] /\ rem \in [Tx -> SUBSET Links]
    /\ acc \in [Tx -> [Owners -> Int]]
    /\ todo \in [Tx -> Seq(Action)]
    /\ upd \in [Tx -> [owners : SUBSET Owners, amount : Int]]
    /\ ops \in [Tx -> 0 .. MaxOps]
    /\ rejected \subseteq Owners /\ raced \subseteq Owners

LEMMA TypeParts ==
  /\ TypeOK <=> Shapes /\ \A t \in Tx : Own(t)
  /\ TypeOK' <=> Shapes' /\ \A t \in Tx : Own(t)'
BY DEF TypeOK, Shapes, Own

LEMMA WriteItemStep ==
  ASSUME IInv, NEW t \in Tx, NEW i \in Items, NEW v \in Value, NEW q, Actions(q),
         WriteItem(t, i, v, q),
         \A n \in 1 .. Len(q) :
            q[n].content \in Content /\ q[n].owner = None /\ q[n].item = i,
         \A o \in Owners :
            Pending([View(t) EXCEPT ![i] = v], ViewLinks(t), q, o) =
               Share(v, ViewLinks(t), i, o) - Share(View(t)[i], ViewLinks(t), i, o)
  PROVE  IInv'
<1>1. /\ Ready(t) /\ Free(t, i) /\ Quiet(t)
      /\ lock' = [lock EXCEPT ![i] = t]
      /\ buf' = [buf EXCEPT ![t][i] = v]
      /\ todo' = [todo EXCEPT ![t] = q]
      /\ raced' = raced \cup {o \in Owners : ~Free(t, <<i, o>>)}
      /\ UNCHANGED <<item, links, total, add, rem, acc, upd, rejected>>
  BY DEF WriteItem, Ready, committed
<1>v. v # Same /\ v \in Content \cup {Absent}
  BY ManyToManyAssumption DEF Value
<1>t. TypeOK /\ Shapes /\ \A u \in Tx : Own(u)
  BY TypeParts DEF IInv
<1>2. /\ ops' \in [Tx -> 0 .. MaxOps] /\ todo' \in [Tx -> Seq(Action)]
      /\ todo'[t] = q /\ \A u \in Tx \ {t} : todo'[u] = todo[u]
  BY <1>1, <1>t, ReadyTypes
<1>3. /\ buf' \in [Tx -> [Items -> Content \cup {Absent, Same}]]
      /\ buf'[t] = [buf[t] EXCEPT ![i] = v]
      /\ \A u \in Tx \ {t} : buf'[u] = buf[u]
  <2>1. buf \in [Tx -> [Items -> Content \cup {Absent, Same}]]
    BY <1>t DEF Shapes
  <2> QED BY <1>1, <1>v, <2>1
<1>4. /\ lock' \in [Items \cup Links \cup Owners -> Tx \cup {None}]
      /\ lock'[i] = t
      /\ \A x \in Items \cup Links \cup Owners : x # i => lock'[x] = lock[x]
      /\ \A l \in Links : l # i /\ lock'[l] = lock[l]
      /\ \A o \in Owners : o # i
      /\ lock[i] \in {None, t}
  <2>1. lock \in [Items \cup Links \cup Owners -> Tx \cup {None}]
    BY <1>t DEF Shapes
  <2>2. \A l \in Links : l # i
    BY ManyToManyAssumption
  <2>3. \A o \in Owners : o # i
    BY ManyToManyAssumption
  <2> QED BY <1>1, <2>1, <2>2, <2>3 DEF Free
<1>5. TypeOK'
  <2>1. Shapes'
    BY <1>1, <1>2, <1>3, <1>4, <1>t DEF Shapes
  <2>2. ASSUME NEW u \in Tx
        PROVE  Own(u)'
    <3>1. /\ add[u] \cap links = {} /\ rem[u] \subseteq links
          /\ \A j \in Items : buf[u][j] # Same => lock[j] = u
          /\ \A l \in add[u] \cup rem[u] : lock[l] = u
          /\ \A o \in Owners : acc[u][o] # 0 => lock[o] = u
      BY <1>t DEF Own
    <3>2. \A l \in add[u] \cup rem[u] : l \in Links
      BY <1>t DEF Shapes
    <3>3. ASSUME NEW j \in Items, buf'[u][j] # Same
          PROVE  lock'[j] = u
      <4>1. CASE u = t /\ j = i
        BY <1>4, <4>1
      <4>2. CASE ~(u = t /\ j = i)
        <5>1. buf[u][j] # Same
          <6>1. buf[t] \in [Items -> Content \cup {Absent, Same}]
            BY <1>t DEF Shapes
          <6> QED BY <1>3, <3>3, <4>2, <6>1
        <5>2. lock[j] = u /\ u # None
          BY <3>1, <5>1, ManyToManyAssumption
        <5> QED BY <1>4, <4>2, <5>2
      <4> QED BY <4>1, <4>2
    <3>4. \A o \in Owners : acc'[u][o] # 0 => lock'[o] = u
      BY <1>1, <1>4, <3>1
    <3> QED BY <1>1, <1>4, <3>1, <3>2, <3>3, <3>4 DEF Own
  <2> QED BY <2>1, <2>2, TypeParts
<1>6. RaceInv'
  <2> SUFFICES ASSUME NEW s \in Tx, NEW u \in Tx, NEW j \in Items, NEW o \in Owners,
                      s # u, o \notin raced', lock'[<<j, o>>] = s
               PROVE  buf'[u][j] = Same
    BY DEF RaceInv
  <2>0. <<j, o>> \in Links
    BY DEF Links
  <2>1. lock[<<j, o>>] = s /\ o \notin raced
    BY <1>1, <1>4, <2>0
  <2>2. buf[u][j] = Same
    BY <2>1 DEF IInv, RaceInv
  <2>3. ~(u = t /\ j = i)
    <3> SUFFICES ASSUME u = t, j = i PROVE FALSE
      OBVIOUS
    <3>1. Free(t, <<i, o>>)
      BY <1>1
    <3> QED BY <2>1, <3>1, ManyToManyAssumption DEF Free
  <2>4. buf[t] \in [Items -> Content \cup {Absent, Same}]
    BY <1>t DEF Shapes
  <2> QED BY <1>3, <2>2, <2>3, <2>4
<1>7. View(t)' = [View(t) EXCEPT ![i] = v] /\ ViewLinks(t)' = ViewLinks(t)
  <2>1. buf[t] \in [Items -> Content \cup {Absent, Same}]
    BY <1>t DEF Shapes
  <2> QED BY <1>1, <1>3, <1>v, <2>1 DEF View, ViewLinks
<1>8. ASSUME NEW o \in Owners
      PROVE  FromScratch(View(t)', ViewLinks(t)', o) =
               FromScratch(View(t), ViewLinks(t), o)
                 + Pending(View(t)', ViewLinks(t)', q, o)
  <2> DEFINE N == View(t)'
             V == View(t)
             L == ViewLinks(t)
  <2>1. V \in Tables /\ N \in Tables
    BY <1>5, <1>t, Views, ViewsNext
  <2>2. N = [V EXCEPT ![i] = v] /\ ViewLinks(t)' = L
    BY <1>7
  <2>3. Pending(N, L, q, o) = Share(v, L, i, o) - Share(V[i], L, i, o)
    BY <2>2
  <2> HIDE DEF N, V, L
  <2>4. N[i] = v /\ \A j \in Items \ {i} : N[j] = V[j]
    BY <2>1, <2>2 DEF Tables
  <2>5. FromScratch(N, L, o) =
          FromScratch(V, L, o) - Share(V[i], L, i, o) + Share(v, L, i, o)
    <3>1. SameBut(V, L, N, L, i, o)
      BY <2>4 DEF SameBut
    <3>2. ChangedBy(V, L, N, L, i, o)
      BY <2>1, <3>1, OneChange, Zenon
    <3> QED BY <2>4, <3>2 DEF ChangedBy
  <2>6. V[i] \in Value
    BY <2>1 DEF Tables
  <2>7. /\ FromScratch(V, L, o) \in Nat
        /\ Share(V[i], L, i, o) \in Nat /\ Share(v, L, i, o) \in Nat
    BY <2>1, <2>6, Counted, Shares
  <2>8. FromScratch(N, L, o) = FromScratch(V, L, o) + Pending(N, L, q, o)
    BY <2>3, <2>5, <2>7
  <2> QED BY <2>2, <2>8 DEF N, V, L
<1>9. \A n \in 1 .. Len(q) : Held(t, q[n])'
  <2>1. buf'[t][i] # Same
    <3>1. buf[t] \in [Items -> Content \cup {Absent, Same}]
      BY <1>t DEF Shapes
    <3> QED BY <1>3, <1>v, <3>1
  <2> QED BY <2>1 DEF Held
<1>10. \A u \in Tx \ {t} :
            /\ todo'[u] = todo[u] /\ buf'[u] = buf[u]
            /\ add'[u] = add[u] /\ rem'[u] = rem[u]
            /\ \A l \in Links : lock[l] = u => lock'[l] = u
  BY <1>1, <1>2, <1>3, <1>4
<1> QED BY <1>1, <1>2, <1>5, <1>6, <1>8, <1>9, <1>10, StatementStep

LEMMA InsertItemStep ==
  ASSUME IInv, NEW t \in Tx, InsertItem(t)
  PROVE  IInv'
<1>1. PICK i \in Items, new \in Content :
        /\ View(t)[i] = Absent
        /\ WriteItem(t, i, new, <<OfItem(1, i, new)>>)
  BY DEF InsertItem
<1> DEFINE a == OfItem(1, i, new)
           L == ViewLinks(t)
           N == [View(t) EXCEPT ![i] = new]
<1>2. /\ a \in Action
      /\ \A V, o : Gain(V, L, a, o) = 1 * Share(new, L, i, o)
      /\ a.content = new /\ a.owner = None /\ a.item = i
  <2>1. 1 \in {-1, 1}
    OBVIOUS
  <2> QED BY <2>1, GainOfItem DEF OfItem
<1> HIDE DEF a, L, N
<1>3. /\ Actions(<<a>>)
      /\ \A o : Pending(N, L, <<a>>, o) = Gain(N, L, a, o) + 0
      /\ \A n \in 1 .. Len(<<a>>) : <<a>>[n] = a
  BY <1>2, OneAction
<1>4. new \in Value
  BY DEF Value
<1>5. ASSUME NEW o \in Owners
      PROVE  Pending(N, L, <<a>>, o) = Share(new, L, i, o) - Share(View(t)[i], L, i, o)
  <2>1. Share(View(t)[i], L, i, o) = 0
    BY <1>1 DEF Share, Passes
  <2>2. Share(new, L, i, o) \in Nat
    BY <1>4, Shares
  <2>3. Pending(N, L, <<a>>, o) = 1 * Share(new, L, i, o) + 0
    BY <1>2, <1>3
  <2> QED BY <2>1, <2>2, <2>3
<1>6. \A n \in 1 .. Len(<<a>>) :
        <<a>>[n].content \in Content /\ <<a>>[n].owner = None /\ <<a>>[n].item = i
  BY <1>2, <1>3
<1> QED BY <1>1, <1>3, <1>4, <1>5, <1>6, WriteItemStep DEF a, L, N

LEMMA UpdateItemStep ==
  ASSUME IInv, NEW t \in Tx, UpdateItem(t)
  PROVE  IInv'
<1>1. PICK i \in Items, new \in Content :
        /\ View(t)[i] \notin {Absent, new}
        /\ WriteItem(t, i, new, <<OfItem(1, i, new), OfItem(-1, i, View(t)[i])>>)
  BY DEF UpdateItem
<1> DEFINE old == View(t)[i]
           a == OfItem(1, i, new)
           b == OfItem(-1, i, old)
           L == ViewLinks(t)
           N == [View(t) EXCEPT ![i] = new]
<1>v. old \in Content
  BY <1>1, Views DEF IInv, Tables, Value
<1> HIDE DEF old
<1>2. /\ a \in Action /\ a.sign = 1
      /\ \A V, o : Gain(V, L, a, o) = 1 * Share(new, L, i, o)
      /\ a.content = new /\ a.owner = None /\ a.item = i
  <2>1. 1 \in {-1, 1}
    OBVIOUS
  <2> QED BY <2>1, GainOfItem DEF OfItem
<1>3. /\ b \in Action /\ b.sign = -1
      /\ \A V, o : Gain(V, L, b, o) = (-1) * Share(old, L, i, o)
      /\ b.content = old /\ b.owner = None /\ b.item = i
  <2>1. -1 \in {-1, 1}
    OBVIOUS
  <2> QED BY <1>v, <2>1, GainOfItem DEF OfItem
<1> HIDE DEF a, b, L, N
<1>4. /\ Actions(<<a, b>>)
      /\ \A o : Pending(N, L, <<a, b>>, o) = Gain(N, L, a, o) + Gain(N, L, b, o)
      /\ \A n \in 1 .. Len(<<a, b>>) : <<a, b>>[n] \in {a, b}
  BY <1>2, <1>3, TwoActions
<1>5. new \in Value /\ old \in Value
  BY <1>v DEF Value
<1>6. ASSUME NEW o \in Owners
      PROVE  Pending(N, L, <<a, b>>, o) = Share(new, L, i, o) - Share(old, L, i, o)
  <2>1. Share(old, L, i, o) \in Nat /\ Share(new, L, i, o) \in Nat
    BY <1>5, Shares
  <2>2. Pending(N, L, <<a, b>>, o) =
          1 * Share(new, L, i, o) + (-1) * Share(old, L, i, o)
    BY <1>2, <1>3, <1>4
  <2> QED BY <2>1, <2>2
<1>7. \A n \in 1 .. Len(<<a, b>>) :
        /\ <<a, b>>[n].content \in Content /\ <<a, b>>[n].owner = None
        /\ <<a, b>>[n].item = i
  BY <1>v, <1>2, <1>3, <1>4
<1>8. WriteItem(t, i, new, <<a, b>>)
  BY <1>1 DEF a, b, old
<1> QED BY <1>4, <1>5, <1>6, <1>7, <1>8, WriteItemStep DEF L, N, old

LEMMA DeleteItemStep ==
  ASSUME IInv, NEW t \in Tx, DeleteItem(t)
  PROVE  IInv'
<1>1. PICK i \in Items :
        /\ View(t)[i] # Absent
        /\ WriteItem(t, i, Absent, <<OfItem(-1, i, View(t)[i])>>)
  BY DEF DeleteItem
<1> DEFINE old == View(t)[i]
           a == OfItem(-1, i, old)
           L == ViewLinks(t)
           N == [View(t) EXCEPT ![i] = Absent]
<1>v. old \in Content
  BY <1>1, Views DEF IInv, Tables, Value
<1> HIDE DEF old
<1>2. /\ a \in Action
      /\ \A V, o : Gain(V, L, a, o) = (-1) * Share(old, L, i, o)
      /\ a.content = old /\ a.owner = None /\ a.item = i
  <2>1. -1 \in {-1, 1}
    OBVIOUS
  <2> QED BY <1>v, <2>1, GainOfItem DEF OfItem
<1> HIDE DEF a, L, N
<1>3. /\ Actions(<<a>>)
      /\ \A o : Pending(N, L, <<a>>, o) = Gain(N, L, a, o) + 0
      /\ \A n \in 1 .. Len(<<a>>) : <<a>>[n] = a
  BY <1>2, OneAction
<1>4. Absent \in Value /\ old \in Value
  BY <1>v DEF Value
<1>5. ASSUME NEW o \in Owners
      PROVE  Pending(N, L, <<a>>, o) = Share(Absent, L, i, o) - Share(old, L, i, o)
  <2>1. Share(Absent, L, i, o) = 0
    BY DEF Share, Passes
  <2>2. Share(old, L, i, o) \in Nat
    BY <1>4, Shares
  <2>3. Pending(N, L, <<a>>, o) = (-1) * Share(old, L, i, o) + 0
    BY <1>2, <1>3
  <2> QED BY <2>1, <2>2, <2>3
<1>6. \A n \in 1 .. Len(<<a>>) :
        <<a>>[n].content \in Content /\ <<a>>[n].owner = None /\ <<a>>[n].item = i
  BY <1>v, <1>2, <1>3
<1>7. WriteItem(t, i, Absent, <<a>>)
  BY <1>1 DEF a, old
<1> QED BY <1>3, <1>4, <1>5, <1>6, <1>7, WriteItemStep DEF L, N, old

(* The links of one related row.                                           *)
LEMMA WriteLinksStep ==
  ASSUME IInv, NEW t \in Tx, NEW L \in SUBSET Links, NEW M \in SUBSET Links,
         NEW q, Actions(q), WriteLinks(t, L, M, q),
         \A n \in 1 .. Len(q) :
            /\ q[n].content = None /\ q[n].owner \in Owners
            /\ <<q[n].item, q[n].owner>> \in L \cup M,
         \A o \in Owners :
            FromScratch(View(t), (ViewLinks(t) \ L) \cup M, o) =
               FromScratch(View(t), ViewLinks(t), o)
                 + Pending(View(t), (ViewLinks(t) \ L) \cup M, q, o)
  PROVE  IInv'
<1>1. /\ Ready(t) /\ Quiet(t)
      /\ L \subseteq ViewLinks(t) /\ M \cap ViewLinks(t) = {}
      /\ \A l \in L \cup M : Free(t, l)
      /\ lock' = [x \in DOMAIN lock |-> IF x \in L \cup M THEN t ELSE lock[x]]
      /\ add' = [add EXCEPT ![t] = (@ \ L) \cup (M \ links)]
      /\ rem' = [rem EXCEPT ![t] = (@ \ M) \cup (L \cap links)]
      /\ todo' = [todo EXCEPT ![t] = q]
      /\ raced' = raced \cup
              {o \in Owners : \E l \in L \cup M, u \in Tx \ {t} :
                  l[2] = o /\ buf[u][l[1]] # Same}
      /\ UNCHANGED <<item, links, total, buf, acc, upd, rejected>>
  BY DEF WriteLinks, Ready, committed
<1>t. TypeOK /\ Shapes /\ \A u \in Tx : Own(u)
  BY TypeParts DEF IInv
<1>2. /\ ops' \in [Tx -> 0 .. MaxOps] /\ todo' \in [Tx -> Seq(Action)]
      /\ todo'[t] = q /\ \A u \in Tx \ {t} : todo'[u] = todo[u]
  BY <1>1, <1>t, ReadyTypes
<1>3. /\ add' \in [Tx -> SUBSET Links] /\ rem' \in [Tx -> SUBSET Links]
      /\ add'[t] = (add[t] \ L) \cup (M \ links)
      /\ rem'[t] = (rem[t] \ M) \cup (L \cap links)
      /\ \A u \in Tx \ {t} : add'[u] = add[u] /\ rem'[u] = rem[u]
  <2>1. add \in [Tx -> SUBSET Links] /\ rem \in [Tx -> SUBSET Links]
    BY <1>t DEF Shapes
  <2>2. /\ (add[t] \ L) \cup (M \ links) \in SUBSET Links
        /\ (rem[t] \ M) \cup (L \cap links) \in SUBSET Links
    BY <2>1
  <2> QED BY <1>1, <2>1, <2>2
<1>4. /\ lock' \in [Items \cup Links \cup Owners -> Tx \cup {None}]
      /\ \A l \in L \cup M : lock'[l] = t /\ lock[l] \in {None, t}
      /\ \A l \in Links : l \notin L \cup M => lock'[l] = lock[l]
      /\ \A j \in Items : lock'[j] = lock[j]
      /\ \A o \in Owners : lock'[o] = lock[o]
  <2>1. lock \in [Items \cup Links \cup Owners -> Tx \cup {None}]
    BY <1>t DEF Shapes
  <2>2. \A l \in L \cup M : l \in Links /\ l \notin Items /\ l \notin Owners
    BY ManyToManyAssumption
  <2> QED BY <1>1, <2>1, <2>2 DEF Free
<1>5. TypeOK'
  <2>1. Shapes'
    <3>1. raced' \subseteq Owners
      BY <1>1, <1>t DEF Shapes
    <3> QED BY <1>1, <1>2, <1>3, <1>4, <1>t, <3>1 DEF Shapes
  <2>2. ASSUME NEW u \in Tx
        PROVE  Own(u)'
    <3>1. /\ add[u] \cap links = {} /\ rem[u] \subseteq links
          /\ \A j \in Items : buf[u][j] # Same => lock[j] = u
          /\ \A l \in add[u] \cup rem[u] : lock[l] = u
          /\ \A o \in Owners : acc[u][o] # 0 => lock[o] = u
      BY <1>t DEF Own
    <3>2. add'[u] \cap links = {} /\ rem'[u] \subseteq links
      BY <1>3, <3>1
    <3>3. ASSUME NEW l \in add'[u] \cup rem'[u]
          PROVE  lock'[l] = u
      <4>1. CASE l \in L \cup M /\ u = t
        BY <1>4, <4>1
      <4>2. CASE ~(l \in L \cup M /\ u = t)
        <5>1. l \in add[u] \cup rem[u] /\ l \in Links
          BY <1>3, <3>3, <4>2
        <5>2. lock[l] = u /\ u # None
          BY <3>1, <5>1, ManyToManyAssumption
        <5> QED BY <1>4, <4>2, <5>1, <5>2
      <4> QED BY <4>1, <4>2
    <3>4. \A j \in Items : buf'[u][j] # Same => lock'[j] = u
      BY <1>1, <1>4, <3>1
    <3>5. \A o \in Owners : acc'[u][o] # 0 => lock'[o] = u
      BY <1>1, <1>4, <3>1
    <3> QED BY <1>1, <3>2, <3>3, <3>4, <3>5 DEF Own
  <2> QED BY <2>1, <2>2, TypeParts
<1>6. RaceInv'
  <2> SUFFICES ASSUME NEW s \in Tx, NEW u \in Tx, NEW j \in Items, NEW o \in Owners,
                      s # u, o \notin raced', lock'[<<j, o>>] = s
               PROVE  buf'[u][j] = Same
    BY DEF RaceInv
  <2>0. <<j, o>> \in Links /\ <<j, o>>[1] = j /\ <<j, o>>[2] = o
    BY DEF Links
  <2>1. CASE <<j, o>> \in L \cup M
    <3>1. s = t
      BY <1>4, <2>1
    <3>2. u \in Tx \ {t}
      BY <3>1
    <3> QED BY <1>1, <2>0, <2>1, <3>2
  <2>2. CASE <<j, o>> \notin L \cup M
    <3>1. lock[<<j, o>>] = s /\ o \notin raced
      BY <1>1, <1>4, <2>0, <2>2
    <3>2. buf[u][j] = Same
      BY <3>1 DEF IInv, RaceInv
    <3> QED BY <1>1, <3>2
  <2> QED BY <2>1, <2>2
<1>7. View(t)' = View(t) /\ ViewLinks(t)' = (ViewLinks(t) \ L) \cup M
  <2>1. View(t)' = View(t)
    BY <1>1 DEF View
  <2>2. add[t] \cap links = {} /\ rem[t] \subseteq links
    BY <1>t DEF Own
  <2>3. ViewLinks(t) = (links \ rem[t]) \cup add[t]
    BY DEF ViewLinks
  <2>4. ViewLinks(t)' =
          (links \ ((rem[t] \ M) \cup (L \cap links)))
            \cup ((add[t] \ L) \cup (M \ links))
    BY <1>1, <1>3 DEF ViewLinks
  <2> QED BY <1>1, <2>1, <2>2, <2>3, <2>4
<1>8. ASSUME NEW o \in Owners
      PROVE  FromScratch(View(t)', ViewLinks(t)', o) =
               FromScratch(View(t), ViewLinks(t), o)
                 + Pending(View(t)', ViewLinks(t)', q, o)
  BY <1>7
<1>9. \A n \in 1 .. Len(q) : Held(t, q[n])'
  BY <1>4 DEF Held
<1>10. \A u \in Tx \ {t} :
            /\ todo'[u] = todo[u] /\ buf'[u] = buf[u]
            /\ add'[u] = add[u] /\ rem'[u] = rem[u]
            /\ \A l \in Links : lock[l] = u => lock'[l] = u
  <2> TAKE u \in Tx \ {t}
  <2>1. \A l \in Links : lock[l] = u => lock'[l] = u
    BY <1>4, ManyToManyAssumption
  <2> QED BY <1>1, <1>2, <1>3, <2>1
<1> QED BY <1>1, <1>2, <1>5, <1>6, <1>8, <1>9, <1>10, StatementStep

LEMMA AddLinkStep ==
  ASSUME IInv, NEW t \in Tx, AddLink(t)
  PROVE  IInv'
<1>1. PICK l \in Links : WriteLinks(t, {}, {l}, <<OfLink(1, l)>>)
  BY DEF AddLink
<1> DEFINE a == OfLink(1, l)
           V == View(t)
           K == ViewLinks(t)
           N == (K \ {}) \cup {l}
<1>2. l \notin K /\ V \in Tables
  BY <1>1, Views DEF WriteLinks, IInv
<1>3. /\ a \in Action /\ a.content = None /\ a.owner \in Owners
      /\ <<a.item, a.owner>> = l
      /\ \A o : Gain(V, N, a, o) =
            IF o = l[2] /\ Passes(V[l[1]]) THEN 1 * V[l[1]].amount ELSE 0
  <2>1. 1 \in {-1, 1}
    OBVIOUS
  <2> HIDE DEF N, V
  <2> QED BY <2>1, GainOfLink
<1>4. \A o : /\ FromScratch(V, N, o) = FromScratch(V, K, o) + Worth(V, l, o)
             /\ FromScratch(V, K, o) \in Nat /\ Worth(V, l, o) \in Nat
  <2>1. N = K \cup {l}
    OBVIOUS
  <2> HIDE DEF N, K, V
  <2> QED BY <1>2, <2>1, LinkComes
<1>5. WriteLinks(t, {}, {l}, <<a>>)
  BY <1>1
<1> HIDE DEF a, V, K, N
<1>6. /\ Actions(<<a>>)
      /\ \A o : Pending(V, N, <<a>>, o) = Gain(V, N, a, o) + 0
      /\ \A n \in 1 .. Len(<<a>>) : <<a>>[n] = a
  BY <1>3, OneAction
<1>7. ASSUME NEW o \in Owners
      PROVE  FromScratch(V, N, o) = FromScratch(V, K, o) + Pending(V, N, <<a>>, o)
  BY <1>3, <1>4, <1>6 DEF Worth
<1>8. \A n \in 1 .. Len(<<a>>) :
        /\ <<a>>[n].content = None /\ <<a>>[n].owner \in Owners
        /\ <<<<a>>[n].item, <<a>>[n].owner>> \in {} \cup {l}
  BY <1>3, <1>6
<1>9. {} \in SUBSET Links /\ {l} \in SUBSET Links
  OBVIOUS
<1> QED BY <1>5, <1>6, <1>7, <1>8, <1>9, WriteLinksStep DEF V, K, N

LEMMA RemoveLinkStep ==
  ASSUME IInv, NEW t \in Tx, RemoveLink(t)
  PROVE  IInv'
<1>1. PICK l \in Links : WriteLinks(t, {l}, {}, <<OfLink(-1, l)>>)
  BY DEF RemoveLink
<1> DEFINE a == OfLink(-1, l)
           V == View(t)
           K == ViewLinks(t)
           N == (K \ {l}) \cup {}
<1>2. l \in K /\ V \in Tables
  BY <1>1, Views DEF WriteLinks, IInv
<1>3. /\ a \in Action /\ a.content = None /\ a.owner \in Owners
      /\ <<a.item, a.owner>> = l
      /\ \A o : Gain(V, N, a, o) =
            IF o = l[2] /\ Passes(V[l[1]]) THEN (-1) * V[l[1]].amount ELSE 0
  <2>1. -1 \in {-1, 1}
    OBVIOUS
  <2> HIDE DEF N, V
  <2> QED BY <2>1, GainOfLink
<1>4. \A o : /\ FromScratch(V, K, o) = FromScratch(V, N, o) + Worth(V, l, o)
             /\ FromScratch(V, N, o) \in Nat /\ Worth(V, l, o) \in Nat
  <2>1. K = N \cup {l} /\ l \notin N
    BY <1>2
  <2> HIDE DEF N, K, V
  <2> QED BY <1>2, <2>1, LinkComes
<1>5. WriteLinks(t, {l}, {}, <<a>>)
  BY <1>1
<1> HIDE DEF a, V, K, N
<1>6. /\ Actions(<<a>>)
      /\ \A o : Pending(V, N, <<a>>, o) = Gain(V, N, a, o) + 0
      /\ \A n \in 1 .. Len(<<a>>) : <<a>>[n] = a
  BY <1>3, OneAction
<1>7. ASSUME NEW o \in Owners
      PROVE  FromScratch(V, N, o) = FromScratch(V, K, o) + Pending(V, N, <<a>>, o)
  BY <1>3, <1>4, <1>6 DEF Worth
<1>8. \A n \in 1 .. Len(<<a>>) :
        /\ <<a>>[n].content = None /\ <<a>>[n].owner \in Owners
        /\ <<<<a>>[n].item, <<a>>[n].owner>> \in {l} \cup {}
  BY <1>3, <1>6
<1>9. {} \in SUBSET Links /\ {l} \in SUBSET Links
  OBVIOUS
<1> QED BY <1>5, <1>6, <1>7, <1>8, <1>9, WriteLinksStep DEF V, K, N

LEMMA MoveLinkStep ==
  ASSUME IInv, NEW t \in Tx, MoveLink(t)
  PROVE  IInv'
<1>1. PICK l \in Links : \E m \in Links \ {l} :
          WriteLinks(t, {l}, {m}, <<OfLink(1, m), OfLink(-1, l)>>)
  BY DEF MoveLink
<1>2. PICK m \in Links \ {l} :
          WriteLinks(t, {l}, {m}, <<OfLink(1, m), OfLink(-1, l)>>)
  BY <1>1
<1> DEFINE a == OfLink(1, m)
           b == OfLink(-1, l)
           V == View(t)
           K == ViewLinks(t)
           G == K \ {l}
           N == (K \ {l}) \cup {m}
<1>3. l \in K /\ m \notin K /\ V \in Tables
  BY <1>2, Views DEF WriteLinks, IInv
<1>4. /\ a \in Action /\ a.sign = 1 /\ a.content = None /\ a.owner \in Owners
      /\ <<a.item, a.owner>> = m
      /\ \A o : Gain(V, N, a, o) =
            IF o = m[2] /\ Passes(V[m[1]]) THEN 1 * V[m[1]].amount ELSE 0
  <2>1. 1 \in {-1, 1}
    OBVIOUS
  <2> HIDE DEF N, V
  <2> QED BY <2>1, GainOfLink
<1>5. /\ b \in Action /\ b.sign = -1 /\ b.content = None /\ b.owner \in Owners
      /\ <<b.item, b.owner>> = l
      /\ \A o : Gain(V, N, b, o) =
            IF o = l[2] /\ Passes(V[l[1]]) THEN (-1) * V[l[1]].amount ELSE 0
  <2>1. -1 \in {-1, 1}
    OBVIOUS
  <2> HIDE DEF N, V
  <2> QED BY <2>1, GainOfLink
<1>6. /\ K = G \cup {l} /\ l \notin G
      /\ N = G \cup {m} /\ m \notin G
  BY <1>3
<1>7. WriteLinks(t, {l}, {m}, <<a, b>>)
  BY <1>2
<1> HIDE DEF a, b, V, K, N, G
<1>8. \A o : /\ FromScratch(V, K, o) = FromScratch(V, G, o) + Worth(V, l, o)
             /\ FromScratch(V, N, o) = FromScratch(V, G, o) + Worth(V, m, o)
             /\ FromScratch(V, G, o) \in Nat
             /\ Worth(V, l, o) \in Nat /\ Worth(V, m, o) \in Nat
  BY <1>3, <1>6, LinkComes
<1>9. /\ Actions(<<a, b>>)
      /\ \A o : Pending(V, N, <<a, b>>, o) = Gain(V, N, a, o) + Gain(V, N, b, o)
      /\ \A n \in 1 .. Len(<<a, b>>) : <<a, b>>[n] \in {a, b}
  BY <1>4, <1>5, TwoActions
<1>10. ASSUME NEW o \in Owners
       PROVE  FromScratch(V, N, o) = FromScratch(V, K, o) + Pending(V, N, <<a, b>>, o)
  <2>1. Gain(V, N, a, o) = Worth(V, m, o)
    BY <1>4, <1>8 DEF Worth
  <2>2. Gain(V, N, b, o) = 0 - Worth(V, l, o)
    BY <1>5, <1>8 DEF Worth
  <2> QED BY <1>8, <1>9, <2>1, <2>2
<1>11. \A n \in 1 .. Len(<<a, b>>) :
        /\ <<a, b>>[n].content = None /\ <<a, b>>[n].owner \in Owners
        /\ <<<<a, b>>[n].item, <<a, b>>[n].owner>> \in {l} \cup {m}
  BY <1>4, <1>5, <1>9
<1>12. {l} \in SUBSET Links /\ {m} \in SUBSET Links
  OBVIOUS
<1> QED BY <1>7, <1>9, <1>10, <1>11, <1>12, WriteLinksStep DEF V, K, N

(* The rows, links and columns a transaction sees are unchanged, but for   *)
(* what moves from its triggers to the columns.                            *)
LEMMA SameViews ==
  ASSUME IInv, TypeOK', OrderInv', FloorInv',
         UNCHANGED <<item, links, total, buf, add, rem, rejected, raced>>,
         \A l \in Links : lock'[l] = lock[l],
         \A t \in Tx, o \in Owners :
            Total(t, o)' + Running(t, o)' + Queued(t, o)' =
               Total(t, o) + Running(t, o) + Queued(t, o)
  PROVE  IInv'
<1>1. BalanceInv'
  <2> SUFFICES ASSUME NEW t \in Tx, NEW o \in Owners \ raced
               PROVE  Total(t, o)' + Running(t, o)' + Queued(t, o)' =
                        FromScratch(View(t)', ViewLinks(t)', o)
    BY DEF BalanceInv
  <2>1. View(t)' = View(t) /\ ViewLinks(t)' = ViewLinks(t)
    BY DEF View, ViewLinks
  <2> QED BY <2>1, Balanced
<1>2. RaceInv'
  BY DEF IInv, RaceInv, Links
<1>3. DriftsOnlyByRace' /\ RejectsOnlyByRace'
  BY DEF IInv, DriftsOnlyByRace, RejectsOnlyByRace
<1> QED BY <1>1, <1>2, <1>3 DEF IInv

LEMMA SelectStep ==
  ASSUME IInv, NEW t \in Tx, Select(t)
  PROVE  IInv'
<1> DEFINE q == todo[t]
           a == Head(q)
           V == View(t)
           L == ViewLinks(t)
<1>1. /\ q # <<>> /\ upd[t].owners = {}
      /\ todo' = [todo EXCEPT ![t] = Tail(@)]
      /\ upd' = [upd EXCEPT ![t] =
            IF Counts(a, Subject(t, a))
            THEN [owners |-> Found(t, a), amount |-> a.sign * Subject(t, a).amount]
            ELSE Done]
      /\ UNCHANGED <<item, links, total, lock, buf, add, rem, acc, ops, rejected, raced>>
  BY DEF Select, committed
<1>t. TypeOK /\ OrderInv
  BY DEF IInv
<1>2. V \in Tables /\ Actions(q)
  BY <1>t, Views, QueueOf
<1>3. /\ q[1] = a /\ a \in Action /\ Actions(Tail(q))
      /\ Len(q) \in {1, 2} /\ Len(Tail(q)) = Len(q) - 1
      /\ Len(q) = 1 => Tail(q) = <<>>
      /\ Len(q) = 2 => /\ Tail(q)[1] = q[2] /\ q[2].sign = -1
  BY <1>1, <1>2, Queue
<1>4. todo'[t] = Tail(q) /\ \A u \in Tx \ {t} : todo'[u] = todo[u]
  <2>1. todo \in [Tx -> Seq(Action)]
    BY <1>t DEF TypeOK
  <2> QED BY <1>1, <2>1
<1>5. /\ upd' \in [Tx -> [owners : SUBSET Owners, amount : Int]]
      /\ \A o \in Owners : Running(t, o)' = Gain(V, L, a, o)
      /\ \A u \in Tx \ {t} : upd'[u] = upd[u]
  <2>0. upd \in [Tx -> [owners : SUBSET Owners, amount : Int]]
    BY <1>t DEF TypeOK
  <2>1. CASE Counts(a, Subject(t, a))
    <3> DEFINE v == Subject(t, a)
    <3>1. Found(t, a) \in SUBSET Owners
      BY <1>3 DEF Found, Action
    <3>2. v \in Value
      BY <1>2, <1>3 DEF Subject, Action, Tables, Value
    <3> HIDE DEF v
    <3>3. v.amount \in Nat
      BY <2>1, <3>2, Amounts DEF v, Counts, Passes, Value
    <3>4. a.sign * v.amount \in Int
      BY <1>3, <3>3 DEF Action
    <3>5. upd' = [upd EXCEPT ![t] = [owners |-> Found(t, a), amount |-> a.sign * v.amount]]
      BY <1>1, <2>1 DEF v
    <3>6. /\ upd' \in [Tx -> [owners : SUBSET Owners, amount : Int]]
          /\ upd'[t].owners = Found(t, a) /\ upd'[t].amount = a.sign * v.amount
          /\ \A u \in Tx \ {t} : upd'[u] = upd[u]
      BY <2>0, <3>1, <3>4, <3>5
    <3>7. ASSUME NEW o \in Owners
          PROVE  Running(t, o)' = Gain(V, L, a, o)
      <4>1. Running(t, o)' = Effect(t, a, o)
        BY <2>1, <3>6 DEF Running, Effect, v
      <4> QED BY <4>1, EffectIsGain
    <3> QED BY <3>6, <3>7
  <2>2. CASE ~Counts(a, Subject(t, a))
    <3>1. upd' = [upd EXCEPT ![t] = Done]
      BY <1>1, <2>2
    <3>2. /\ upd' \in [Tx -> [owners : SUBSET Owners, amount : Int]]
          /\ upd'[t].owners = {}
          /\ \A u \in Tx \ {t} : upd'[u] = upd[u]
      BY <2>0, <3>1, Beginnings
    <3>3. ASSUME NEW o \in Owners
          PROVE  Running(t, o)' = Gain(V, L, a, o)
      <4>1. Running(t, o)' = 0 /\ Effect(t, a, o) = 0
        BY <2>2, <3>2 DEF Running, Effect
      <4> QED BY <4>1, EffectIsGain
    <3> QED BY <3>2, <3>3
  <2> QED BY <2>1, <2>2
<1>6. TypeOK'
  <2>1. todo' \in [Tx -> Seq(Action)]
    <3>1. todo \in [Tx -> Seq(Action)] /\ Tail(q) \in Seq(Action)
      BY <1>t, <1>3 DEF TypeOK, Actions
    <3> QED BY <1>1, <3>1
  <2> QED BY <1>1, <1>5, <1>t, <2>1 DEF TypeOK
<1>7. OrderInv'
  <2>1. ASSUME NEW u \in Tx \ {t}
        PROVE  Signed(u)' /\ Holding(u)'
    <3>1. Signed(u) /\ Holding(u)
      BY <1>t, Orders
    <3>2. Signed(u)'
      BY <1>4, <1>5, <3>1 DEF Signed
    <3>3. Holding(u)'
      BY <1>1, <1>4, <1>t, <3>1, HoldingStays
    <3> QED BY <3>2, <3>3
  <2>2. Holding(t)
    BY <1>t, Orders
  <2> HIDE DEF q
  <2>3. CASE Len(q) = 1
    <3>1. todo'[t] = <<>> /\ Len(todo'[t]) = 0
      BY <1>3, <1>4, <2>3, NoAction
    <3>2. Signed(t)' /\ Holding(t)'
      BY <3>1 DEF Signed, Holding
    <3> QED BY <2>1, <3>2, Orders
  <2>4. CASE Len(q) = 2
    <3>1. Len(todo'[t]) = 1 /\ todo'[t][1] = q[2] /\ q[2].sign = -1
      <4>1. 2 - 1 = 1
        OBVIOUS
      <4> QED BY <1>3, <1>4, <2>4, <4>1, Zenon
    <3>2. Signed(t)'
      BY <3>1 DEF Signed
    <3>3. Held(t, q[2])
      <4>1. 2 \in 1 .. 2
        OBVIOUS
      <4>2. 2 \in 1 .. Len(q)
        BY <2>4, <4>1, Zenon
      <4> QED BY <2>2, <4>2 DEF Holding, q
    <3>4. Holding(t)'
      <4>1. \A n \in 1 .. Len(todo'[t]) : todo'[t][n] = q[2]
        BY <3>1
      <4> QED BY <1>1, <3>3, <4>1 DEF Holding, Held
    <3> QED BY <2>1, <3>2, <3>4, Orders
  <2> QED BY <1>3, <2>3, <2>4
<1>8. ASSUME NEW u \in Tx, NEW o \in Owners
      PROVE  /\ Total(u, o)' = Total(u, o)
             /\ Total(u, o)' + Running(u, o)' + Queued(u, o)' =
                   Total(u, o) + Running(u, o) + Queued(u, o)
  <2>1. Total(u, o)' = Total(u, o) /\ Total(u, o) \in Nat
    BY <1>1, Balanced DEF Total
  <2>2. View(u)' = View(u) /\ ViewLinks(u)' = ViewLinks(u)
    BY <1>1 DEF View, ViewLinks
  <2>3. /\ Queued(u, o) = Pending(View(u), ViewLinks(u), todo[u], o)
        /\ Queued(u, o)' = Pending(View(u), ViewLinks(u), todo'[u], o)
    BY <2>2, QueuedIsPending
  <2>4. CASE u = t
    <3>1. Running(t, o) = 0
      BY <1>1 DEF Running
    <3>2. /\ Pending(V, L, Tail(q), o) \in Int
          /\ Pending(V, L, q, o) = Gain(V, L, a, o) + Pending(V, L, Tail(q), o)
      BY <1>1, <1>2, <1>3, Pendings
    <3>3. Gain(V, L, a, o) \in Int
      BY <1>2, <1>3, Gains
    <3>4. /\ Queued(t, o) = Pending(V, L, q, o)
          /\ Queued(t, o)' = Pending(V, L, Tail(q), o)
          /\ Running(t, o)' = Gain(V, L, a, o)
      BY <1>4, <1>5, <2>3, <2>4
    <3> HIDE DEF q, a, V, L
    <3>5. Total(t, o) + Gain(V, L, a, o) + Pending(V, L, Tail(q), o) =
             Total(t, o) + 0 + Pending(V, L, q, o)
      BY <2>1, <2>4, <3>2, <3>3
    <3> QED BY <2>1, <2>4, <3>1, <3>4, <3>5
  <2>5. CASE u # t
    <3>1. Running(u, o)' = Running(u, o) /\ Queued(u, o)' = Queued(u, o)
      BY <1>4, <1>5, <2>3, <2>5 DEF Running
    <3> QED BY <2>1, <3>1
  <2> QED BY <2>1, <2>4, <2>5
<1>9. FloorInv'
  BY <1>8 DEF IInv, FloorInv
<1> QED BY <1>1, <1>6, <1>7, <1>8, <1>9, SameViews

LEMMA ApplyStep ==
  ASSUME IInv, NEW t \in Tx, Apply(t)
  PROVE  IInv'
<1>1. PICK p \in upd[t].owners :
        /\ Free(t, p)
        /\ Total(t, p) + upd[t].amount >= 0
        /\ lock' = [lock EXCEPT ![p] = t]
        /\ acc' = [acc EXCEPT ![t][p] = @ + upd[t].amount]
        /\ upd' = [upd EXCEPT ![t] = Rest(@, p)]
  BY DEF Apply
<1>2. UNCHANGED <<item, links, total, buf, add, rem, todo, ops, rejected, raced>>
  BY DEF Apply, committed
<1>t. TypeOK /\ Shapes /\ \A u \in Tx : Own(u)
  BY TypeParts DEF IInv
<1>3. /\ upd[t].owners \in SUBSET Owners /\ upd[t].amount \in Int
      /\ upd[t] \in [owners : SUBSET Owners, amount : Int] /\ p \in Owners
  BY <1>t, <1>1 DEF Shapes
<1>4. /\ upd' \in [Tx -> [owners : SUBSET Owners, amount : Int]]
      /\ upd'[t].owners = upd[t].owners \ {p}
      /\ upd'[t].owners # {} => upd'[t].amount = upd[t].amount
      /\ \A u \in Tx \ {t} : upd'[u] = upd[u]
  <2>1. /\ Rest(upd[t], p) \in [owners : SUBSET Owners, amount : Int]
        /\ Rest(upd[t], p).owners = upd[t].owners \ {p}
        /\ Rest(upd[t], p).owners # {} => Rest(upd[t], p).amount = upd[t].amount
    BY <1>1, <1>3, Beginnings DEF Rest
  <2>2. upd \in [Tx -> [owners : SUBSET Owners, amount : Int]]
    BY <1>t DEF Shapes
  <2> QED BY <1>1, <2>1, <2>2
<1>5. /\ acc' \in [Tx -> [Owners -> Int]]
      /\ acc'[t][p] = acc[t][p] + upd[t].amount
      /\ \A u \in Tx, o \in Owners : u # t \/ o # p => acc'[u][o] = acc[u][o]
  <2>1. acc \in [Tx -> [Owners -> Int]]
    BY <1>t DEF Shapes
  <2>2. acc[t][p] + upd[t].amount \in Int
    BY <1>3, <2>1
  <2> QED BY <1>1, <1>3, <2>1, <2>2
<1>6. /\ lock' \in [Items \cup Links \cup Owners -> Tx \cup {None}]
      /\ lock'[p] = t /\ lock[p] \in {None, t}
      /\ \A x \in Items \cup Links : lock'[x] = lock[x]
      /\ \A o \in Owners : o # p => lock'[o] = lock[o]
  <2>1. lock \in [Items \cup Links \cup Owners -> Tx \cup {None}]
    BY <1>t DEF Shapes
  <2>2. p \notin Items /\ p \notin Links
    BY <1>3, ManyToManyAssumption
  <2> QED BY <1>1, <1>3, <2>1, <2>2 DEF Free
<1>7. TypeOK'
  <2>1. Shapes'
    BY <1>2, <1>4, <1>5, <1>6, <1>t DEF Shapes
  <2>2. ASSUME NEW u \in Tx
        PROVE  Own(u)'
    <3>1. /\ add[u] \cap links = {} /\ rem[u] \subseteq links
          /\ \A j \in Items : buf[u][j] # Same => lock[j] = u
          /\ \A l \in add[u] \cup rem[u] : lock[l] = u
          /\ \A o \in Owners : acc[u][o] # 0 => lock[o] = u
      BY <1>t DEF Own
    <3>2. \A l \in add[u] \cup rem[u] : l \in Links
      BY <1>t DEF Shapes
    <3>3. ASSUME NEW o \in Owners, acc'[u][o] # 0
          PROVE  lock'[o] = u
      <4>1. CASE u = t /\ o = p
        BY <1>6, <4>1
      <4>2. CASE ~(u = t /\ o = p)
        <5>1. acc[u][o] # 0
          BY <1>5, <3>3, <4>2
        <5>2. lock[o] = u /\ u # None
          BY <3>1, <5>1, ManyToManyAssumption
        <5> QED BY <1>6, <4>2, <5>2
      <4> QED BY <4>1, <4>2
    <3> QED BY <1>2, <1>6, <3>1, <3>2, <3>3 DEF Own
  <2> QED BY <2>1, <2>2, TypeParts
<1>8. OrderInv'
  <2>1. ASSUME NEW u \in Tx
        PROVE  Signed(u)' /\ Holding(u)'
    <3>1. Signed(u) /\ Holding(u)
      BY Orders DEF IInv
    <3>2. Signed(u)'
      BY <1>1, <1>2, <1>4, <3>1 DEF Signed
    <3>3. Holding(u)'
      BY <1>2, <1>6, <1>t, <3>1, HoldingStays
    <3> QED BY <3>2, <3>3
  <2> QED BY <2>1, Orders
<1>9. ASSUME NEW u \in Tx, NEW o \in Owners
      PROVE  /\ Total(u, o)' + Running(u, o)' + Queued(u, o)' =
                   Total(u, o) + Running(u, o) + Queued(u, o)
             /\ Total(u, o)' >= 0
  <2>1. /\ Total(u, o) = total[o] + acc[u][o] /\ Total(u, o)' = total[o] + acc'[u][o]
        /\ total[o] \in Nat /\ acc[u][o] \in Int /\ Total(u, o) \in Nat
        /\ Queued(u, o) \in Int
    BY <1>2, Balanced DEF Total
  <2>2. Queued(u, o)' = Queued(u, o)
    <3>1. View(u)' = View(u) /\ ViewLinks(u)' = ViewLinks(u) /\ todo'[u] = todo[u]
      BY <1>2 DEF View, ViewLinks
    <3> QED BY <3>1, QueuedIsPending
  <2>3. CASE u = t /\ o = p
    <3>1. Running(u, o) = upd[t].amount /\ Running(u, o)' = 0
      BY <1>1, <1>4, <2>3 DEF Running
    <3>2. Total(u, o)' = Total(u, o) + upd[t].amount
      BY <1>3, <1>5, <2>1, <2>3
    <3>3. Total(u, o) + upd[t].amount >= 0
      BY <1>1, <2>3
    <3>4. (Total(u, o) + upd[t].amount) + 0 + Queued(u, o) =
             Total(u, o) + upd[t].amount + Queued(u, o)
      BY <1>3, <2>1
    <3> QED BY <2>2, <3>1, <3>2, <3>3, <3>4
  <2>4. CASE ~(u = t /\ o = p)
    <3>1. Total(u, o)' = Total(u, o)
      BY <1>5, <2>1, <2>4
    <3>2. Running(u, o)' = Running(u, o)
      BY <1>4, <2>4 DEF Running
    <3> QED BY <2>1, <2>2, <3>1, <3>2
  <2> QED BY <2>3, <2>4
<1>10. FloorInv'
  BY <1>9 DEF FloorInv
<1>11. \A l \in Links : lock'[l] = lock[l]
  BY <1>6
<1> QED BY <1>2, <1>7, <1>8, <1>9, <1>10, <1>11, SameViews

Cleared(t) == /\ buf[t] = Untouched /\ add[t] = {} /\ rem[t] = {}
              /\ acc[t] = Zero /\ todo[t] = <<>> /\ upd[t] = Done

(* The end of a transaction releases what is its own.                      *)
LEMMA EndKeeps ==
  ASSUME IInv, NEW t \in Tx, End(t), UNCHANGED <<ops, raced>>,
         item' \in Tables, links' \subseteq {l \in Links : item'[l[1]] # Absent},
         total' \in [Owners -> Nat], rejected' \subseteq Owners,
         \A u \in Tx \ {t} : add[u] \cap links' = {} /\ rem[u] \subseteq links'
  PROVE  /\ TypeOK' /\ OrderInv' /\ RaceInv' /\ Cleared(t)'
         /\ \A u \in Tx \ {t} :
              /\ buf'[u] = buf[u] /\ add'[u] = add[u] /\ rem'[u] = rem[u]
              /\ acc'[u] = acc[u] /\ todo'[u] = todo[u] /\ upd'[u] = upd[u]
<1>t. TypeOK /\ Shapes /\ \A u \in Tx : Own(u)
  BY TypeParts DEF IInv
<1>1. /\ buf' \in [Tx -> [Items -> Content \cup {Absent, Same}]] /\ buf'[t] = Untouched
      /\ \A u \in Tx \ {t} : buf'[u] = buf[u]
  <2>1. buf \in [Tx -> [Items -> Content \cup {Absent, Same}]]
    BY <1>t DEF Shapes
  <2> QED BY <2>1, Beginnings DEF End
<1>2. /\ add' \in [Tx -> SUBSET Links] /\ rem' \in [Tx -> SUBSET Links]
      /\ add'[t] = {} /\ rem'[t] = {}
      /\ \A u \in Tx \ {t} : add'[u] = add[u] /\ rem'[u] = rem[u]
  <2>1. add \in [Tx -> SUBSET Links] /\ rem \in [Tx -> SUBSET Links]
    BY <1>t DEF Shapes
  <2> QED BY <2>1 DEF End
<1>3. /\ acc' \in [Tx -> [Owners -> Int]] /\ acc'[t] = Zero
      /\ \A u \in Tx \ {t} : acc'[u] = acc[u]
  <2>1. acc \in [Tx -> [Owners -> Int]]
    BY <1>t DEF Shapes
  <2>2. Zero \in [Owners -> Int]
    BY Beginnings
  <2> QED BY <2>1, <2>2 DEF End
<1>4. /\ todo' \in [Tx -> Seq(Action)] /\ todo'[t] = <<>>
      /\ \A u \in Tx \ {t} : todo'[u] = todo[u]
  <2>1. todo \in [Tx -> Seq(Action)]
    BY <1>t DEF Shapes
  <2> QED BY <2>1, NoAction DEF End
<1>5. /\ upd' \in [Tx -> [owners : SUBSET Owners, amount : Int]] /\ upd'[t] = Done
      /\ \A u \in Tx \ {t} : upd'[u] = upd[u]
  <2>1. upd \in [Tx -> [owners : SUBSET Owners, amount : Int]]
    BY <1>t DEF Shapes
  <2>2. Done \in [owners : SUBSET Owners, amount : Int]
    BY Beginnings
  <2> QED BY <2>1, <2>2 DEF End
<1>6. /\ lock' \in [Items \cup Links \cup Owners -> Tx \cup {None}]
      /\ \A x \in Items \cup Links \cup Owners :
            /\ lock[x] # t => lock'[x] = lock[x]
            /\ lock'[x] # None => lock'[x] = lock[x] /\ lock'[x] # t
  <2>1. lock \in [Items \cup Links \cup Owners -> Tx \cup {None}]
    BY <1>t DEF Shapes
  <2> QED BY <2>1, ManyToManyAssumption DEF End
<1>7. TypeOK'
  <2>1. Shapes'
    BY <1>1, <1>2, <1>3, <1>4, <1>5, <1>6, <1>t DEF Shapes, Tables, Value
  <2>2. Own(t)'
    <3>1. \A i \in Items : ~(buf'[t][i] # Same)
      BY <1>1, Beginnings
    <3>2. \A o \in Owners : ~(acc'[t][o] # 0)
      BY <1>3, Beginnings
    <3> QED BY <1>2, <3>1, <3>2 DEF Own
  <2>3. ASSUME NEW u \in Tx \ {t}
        PROVE  Own(u)'
    <3>1. /\ \A j \in Items : buf[u][j] # Same => lock[j] = u
          /\ \A l \in add[u] \cup rem[u] : lock[l] = u
          /\ \A o \in Owners : acc[u][o] # 0 => lock[o] = u
      BY <1>t DEF Own
    <3>2. \A l \in add[u] \cup rem[u] : l \in Links
      BY <1>t DEF Shapes
    <3> QED BY <1>1, <1>2, <1>3, <1>6, <3>1, <3>2 DEF Own
  <2> QED BY <2>1, <2>2, <2>3, TypeParts
<1>8. OrderInv'
  <2>1. Signed(t)' /\ Holding(t)'
    <3>1. Len(todo'[t]) = 0
      BY <1>4, NoAction
    <3> QED BY <3>1 DEF Signed, Holding
  <2>2. ASSUME NEW u \in Tx \ {t}
        PROVE  Signed(u)' /\ Holding(u)'
    <3>1. Signed(u) /\ Holding(u)
      BY Orders DEF IInv
    <3>2. Signed(u)'
      BY <1>4, <1>5, <3>1 DEF Signed
    <3>3. \A l \in Links : lock[l] = u => lock'[l] = u
      BY <1>6
    <3>4. Holding(u)'
      BY <1>1, <1>4, <1>t, <3>1, <3>3, HoldingStays
    <3> QED BY <3>2, <3>4
  <2> QED BY <2>1, <2>2, Orders
<1>9. RaceInv'
  <2> SUFFICES ASSUME NEW s \in Tx, NEW u \in Tx, NEW i \in Items, NEW o \in Owners,
                      s # u, o \notin raced, lock'[<<i, o>>] = s
               PROVE  buf'[u][i] = Same
    BY DEF RaceInv
  <2>1. <<i, o>> \in Links /\ s # None
    BY ManyToManyAssumption DEF Links
  <2>2. lock[<<i, o>>] = s
    BY <1>6, <2>1
  <2>3. buf[u][i] = Same
    BY <2>2 DEF IInv, RaceInv
  <2> QED BY <1>1, <2>3, Beginnings
<1> QED BY <1>1, <1>2, <1>3, <1>4, <1>5, <1>7, <1>8, <1>9 DEF Cleared

(* A transaction that has ended sees the committed state.                  *)
LEMMA ClearView ==
  ASSUME TypeOK', NEW t \in Tx, Cleared(t)', NEW o \in Owners
  PROVE  /\ View(t)' = item' /\ ViewLinks(t)' = links'
         /\ Total(t, o)' = total'[o]
         /\ Total(t, o)' + Running(t, o)' + Queued(t, o)' = total'[o]
<1>1. View(t)' = item' /\ ViewLinks(t)' = links'
  <2>1. item' \in [Items -> Value]
    BY DEF TypeOK, Value
  <2>2. \A i \in Items : buf'[t][i] = Same
    BY Beginnings DEF Cleared
  <2> QED BY <2>1, <2>2 DEF View, ViewLinks, Cleared
<1>2. Total(t, o)' = total'[o] + 0
  BY Beginnings DEF Total, Cleared
<1>3. Running(t, o)' = 0 /\ Queued(t, o)' = 0
  BY Beginnings DEF Running, Queued, Cleared
<1>4. total'[o] \in Nat
  BY DEF TypeOK
<1>5. Total(t, o)' = total'[o]
  BY <1>2, <1>4
<1>6. total'[o] + 0 + 0 = total'[o]
  BY <1>4
<1> QED BY <1>1, <1>3, <1>5, <1>6

(* An abort takes back the rows, the links and the columns together.       *)
LEMMA BackStep ==
  ASSUME IInv, NEW t \in Tx, End(t), UNCHANGED <<item, links, total, ops, raced>>,
         rejected' \subseteq Owners, RejectsOnlyByRace'
  PROVE  IInv'
<1>t. Shapes /\ \A u \in Tx : Own(u)
  BY TypeParts DEF IInv
<1>1. /\ item' \in Tables /\ links' \subseteq {l \in Links : item'[l[1]] # Absent}
      /\ total' \in [Owners -> Nat]
  BY <1>t DEF Shapes, Tables, Value
<1>2. /\ TypeOK' /\ OrderInv' /\ RaceInv' /\ Cleared(t)'
      /\ \A u \in Tx \ {t} :
           /\ buf'[u] = buf[u] /\ add'[u] = add[u] /\ rem'[u] = rem[u]
           /\ acc'[u] = acc[u] /\ todo'[u] = todo[u] /\ upd'[u] = upd[u]
  <2>1. \A u \in Tx \ {t} : add[u] \cap links' = {} /\ rem[u] \subseteq links'
    BY <1>t DEF Own
  <2> QED BY <1>1, <2>1, EndKeeps
<1>3. ASSUME NEW u \in Tx, NEW o \in Owners
      PROVE  /\ Total(u, o)' >= 0
             /\ o \notin raced =>
                  Total(u, o)' + Running(u, o)' + Queued(u, o)' =
                    FromScratch(View(u)', ViewLinks(u)', o)
  <2>1. CASE u = t
    <3>1. total[o] \in Nat /\ (o \notin raced => total[o] = FromScratch(item, links, o))
      BY Balanced
    <3>2. /\ View(t)' = item /\ ViewLinks(t)' = links
          /\ Total(t, o)' = total[o]
          /\ Total(t, o)' + Running(t, o)' + Queued(t, o)' = total[o]
      BY <1>2, ClearView
    <3> QED BY <2>1, <3>1, <3>2
  <2>2. CASE u # t
    <3>1. /\ View(u)' = View(u) /\ ViewLinks(u)' = ViewLinks(u)
          /\ Total(u, o)' = Total(u, o) /\ Running(u, o)' = Running(u, o)
      BY <1>2, <2>2 DEF View, ViewLinks, Total, Running
    <3>2. Queued(u, o)' = Queued(u, o)
      BY <1>2, <2>2, <3>1, QueuedIsPending
    <3> QED BY <3>1, <3>2, Balanced
  <2> QED BY <2>1, <2>2
<1>4. FloorInv' /\ BalanceInv'
  BY <1>3 DEF FloorInv, BalanceInv
<1>5. DriftsOnlyByRace'
  BY DEF IInv, DriftsOnlyByRace
<1> QED BY <1>2, <1>4, <1>5 DEF IInv

LEMMA AbortStep ==
  ASSUME IInv, NEW t \in Tx, Abort(t)
  PROVE  IInv'
<1>1. End(t) /\ UNCHANGED <<item, links, total, ops, rejected, raced>>
  BY DEF Abort, committed
<1>2. rejected' \subseteq Owners /\ RejectsOnlyByRace'
  BY <1>1 DEF IInv, TypeOK, RejectsOnlyByRace
<1> QED BY <1>1, <1>2, BackStep

(* Without a race, a trigger's UPDATE leads to no less than the column of  *)
(* the rows: what is still queued only subtracts.                          *)
LEMMA RejectStep ==
  ASSUME IInv, NEW t \in Tx, Reject(t)
  PROVE  IInv'
<1>1. PICK o \in upd[t].owners :
        /\ Total(t, o) + upd[t].amount < 0
        /\ rejected' = rejected \cup {o}
  BY DEF Reject
<1>2. End(t) /\ UNCHANGED <<item, links, total, ops, raced>>
  BY DEF Reject, committed
<1>3. o \in Owners /\ upd[t].amount \in Int
  BY <1>1 DEF IInv, TypeOK
<1>4. o \in raced
  <2> SUFFICES ASSUME o \notin raced PROVE FALSE
    OBVIOUS
  <2>1. Running(t, o) = upd[t].amount
    BY <1>1 DEF Running
  <2>2. Queued(t, o) <= 0 /\ Queued(t, o) \in Int
    <3>1. View(t) \in Tables /\ Actions(todo[t])
      BY Views, QueueOf DEF IInv
    <3>2. Signed(t)
      BY Orders DEF IInv
    <3>3. Queued(t, o) = Pending(View(t), ViewLinks(t), todo[t], o)
      BY <1>3, QueuedIsPending
    <3>4. CASE todo[t] = <<>>
      BY <3>3, <3>4, NoAction
    <3>5. CASE todo[t] # <<>>
      <4>1. Len(todo[t]) \in {1, 2}
        BY <3>1, <3>5, Queue
      <4>2. Len(todo[t]) = 1 /\ todo[t][1].sign = -1
        BY <1>1, <3>2, <4>1 DEF Signed
      <4> QED BY <3>1, <3>3, <4>2, Pendings
    <3> QED BY <3>4, <3>5
  <2>3. /\ Total(t, o) + Running(t, o) + Queued(t, o) =
              FromScratch(View(t), ViewLinks(t), o)
        /\ FromScratch(View(t), ViewLinks(t), o) \in Nat /\ Total(t, o) \in Nat
    BY <1>3, Balanced
  <2> QED BY <1>1, <1>3, <2>1, <2>2, <2>3
<1>5. rejected' \subseteq Owners /\ RejectsOnlyByRace'
  BY <1>1, <1>2, <1>3, <1>4 DEF IInv, TypeOK, RejectsOnlyByRace
<1> QED BY <1>2, <1>5, BackStep

-----------------------------------------------------------------------------
(* Without a race, what t has written and what u has written of the column *)
(* of o are different rows of the column.                                  *)
Written(t, o) ==
    {i \in Items : buf[t][i] # Same \/ <<i, o>> \in add[t] \cup rem[t]}

LEMMA WritesApart ==
  ASSUME IInv, NEW t \in Tx, NEW u \in Tx \ {t}, NEW o \in Owners \ raced,
         NEW i \in Written(t, o)
  PROVE  buf[u][i] = Same /\ <<i, o>> \notin add[u] \cup rem[u]
<1>t. Own(t) /\ Own(u) /\ i \in Items
  BY TypeParts DEF IInv, Written
<1>1. CASE buf[t][i] # Same
  <2>1. lock[i] = t
    BY <1>t, <1>1 DEF Own
  <2>2. buf[u][i] = Same
    BY <1>t, <2>1 DEF Own
  <2>3. lock[<<i, o>>] # u
    BY <1>t, <1>1 DEF IInv, RaceInv
  <2> QED BY <1>t, <2>2, <2>3 DEF Own
<1>2. CASE <<i, o>> \in add[t] \cup rem[t]
  <2>1. lock[<<i, o>>] = t
    BY <1>t, <1>2 DEF Own
  <2>2. buf[u][i] = Same
    BY <1>t, <2>1 DEF IInv, RaceInv
  <2> QED BY <1>t, <2>1, <2>2 DEF Own
<1> QED BY <1>1, <1>2 DEF Written

(* What a queued action finds does not depend on what another transaction  *)
(* commits.                                                                *)
LEMMA QueuedStays ==
  ASSUME IInv, NEW t \in Tx, NEW u \in Tx \ {t}, NEW o \in Owners \ raced,
         NEW V \in Tables, NEW L,
         \A i \in Items : buf[u][i] # Same =>
            (<<i, o>> \in L <=> <<i, o>> \in ViewLinks(u)),
         \A i \in Items : lock[<<i, o>>] = u => V[i] = View(u)[i]
  PROVE  Pending(V, L, todo[u], o) = Pending(View(u), ViewLinks(u), todo[u], o)
<1> DEFINE q == todo[u]
<1>1. Actions(q) /\ Holding(u)
  BY QueueOf, Orders DEF IInv
<1>2. ASSUME NEW n \in 1 .. Len(q), q[n] \in Action
      PROVE  Gain(V, L, q[n], o) = Gain(View(u), ViewLinks(u), q[n], o)
  <2> DEFINE a == q[n]
  <2>1. Held(u, a) /\ a \in Action
    BY <1>1, <1>2 DEF Holding
  <2> HIDE DEF a
  <2>2. CASE a.content \in Content /\ a.owner = None /\ buf[u][a.item] # Same
    <3>1. a.item \in Items /\ a.content # None
      BY <2>1, <2>2, Amounts DEF Action
    <3>2. <<a.item, o>> \in L <=> <<a.item, o>> \in ViewLinks(u)
      BY <2>2, <3>1
    <3>3. Gain(V, L, a, o) = Gain(View(u), ViewLinks(u), a, o)
      BY <2>2, <3>1, <3>2 DEF Gain
    <3> QED BY <3>3 DEF a
  <2>3. CASE a.content = None /\ a.owner \in Owners /\ lock[<<a.item, a.owner>>] = u
    <3>1. a.item \in Items /\ a.owner # None
      BY <2>1, <2>3, ManyToManyAssumption DEF Action
    <3>2. CASE a.owner = o
      <4>1. V[a.item] = View(u)[a.item]
        BY <2>3, <3>1, <3>2
      <4>2. Gain(V, L, a, o) = Gain(View(u), ViewLinks(u), a, o)
        BY <2>3, <3>1, <4>1 DEF Gain
      <4> QED BY <4>2 DEF a
    <3>3. CASE a.owner # o
      <4>1. Gain(V, L, a, o) = 0 /\ Gain(View(u), ViewLinks(u), a, o) = 0
        BY <3>1, <3>3 DEF Gain
      <4> QED BY <4>1 DEF a
    <3> QED BY <3>2, <3>3
  <2> QED BY <2>1, <2>2, <2>3 DEF Held
<1>3. CASE q = <<>>
  BY <1>3 DEF Pending
<1>4. CASE q # <<>>
  <2>1. /\ q[1] \in Action /\ Len(q) \in {1, 2}
        /\ Len(q) = 2 => q[2] \in Action
    BY <1>1, <1>4, Queue
  <2> HIDE DEF q
  <2>2. 1 \in 1 .. Len(q) /\ (Len(q) = 2 => 2 \in 1 .. Len(q))
    BY <2>1
  <2>3. /\ Gain(V, L, q[1], o) = Gain(View(u), ViewLinks(u), q[1], o)
        /\ Len(q) = 2 => Gain(V, L, q[2], o) = Gain(View(u), ViewLinks(u), q[2], o)
    BY <1>2, <2>1, <2>2
  <2>4. Pending(V, L, q, o) = Pending(View(u), ViewLinks(u), q, o)
    BY <2>3 DEF Pending
  <2> QED BY <2>4 DEF q
<1> QED BY <1>3, <1>4

(* What one transaction commits and what the other one has added make up   *)
(* both changes.                                                           *)
LEMMA CommitStep ==
  ASSUME IInv, NEW t \in Tx, Commit(t)
  PROVE  IInv'
<1>1. /\ Quiet(t) /\ item' = View(t) /\ links' = ViewLinks(t)
      /\ \A l \in ViewLinks(t) : View(t)[l[1]] # Absent
      /\ total' = [o \in Owners |-> Total(t, o)]
      /\ End(t) /\ UNCHANGED <<ops, rejected, raced>>
  BY DEF Commit
<1>t. TypeOK /\ Shapes /\ \A u \in Tx : Own(u)
  BY TypeParts DEF IInv
<1>2. View(t) \in Tables /\ item \in Tables
  BY <1>t, Views
<1>3. \A o \in Owners : total'[o] = Total(t, o) /\ total'[o] \in Nat
  BY <1>1, Balanced
<1>4. /\ item' \in Tables /\ total' \in [Owners -> Nat]
      /\ links' \subseteq {l \in Links : item'[l[1]] # Absent}
      /\ rejected' \subseteq Owners
  <2>1. ViewLinks(t) \subseteq Links
    BY <1>t DEF Shapes, ViewLinks
  <2> QED BY <1>1, <1>2, <1>3, <1>t, <2>1 DEF Shapes
<1>5. ASSUME NEW u \in Tx \ {t}
      PROVE  add[u] \cap links' = {} /\ rem[u] \subseteq links'
  <2>1. /\ add[u] \cap links = {} /\ rem[u] \subseteq links
        /\ \A l \in add[u] \cup rem[u] : lock[l] = u
        /\ \A l \in add[t] \cup rem[t] : lock[l] = t
    BY <1>t DEF Own
  <2> QED BY <1>1, <2>1 DEF ViewLinks
<1>6. /\ TypeOK' /\ OrderInv' /\ RaceInv' /\ Cleared(t)'
      /\ \A u \in Tx \ {t} :
           /\ buf'[u] = buf[u] /\ add'[u] = add[u] /\ rem'[u] = rem[u]
           /\ acc'[u] = acc[u] /\ todo'[u] = todo[u] /\ upd'[u] = upd[u]
  BY <1>1, <1>4, <1>5, EndKeeps
<1>7. ASSUME NEW o \in Owners \ raced
      PROVE  total'[o] = FromScratch(item', links', o)
  BY <1>1, <1>3, Balanced
<1>8. ASSUME NEW u \in Tx, NEW o \in Owners
      PROVE  Total(u, o)' >= 0
  <2>1. CASE u = t
    BY <1>3, <1>6, <2>1, ClearView
  <2>2. CASE u # t
    <3>1. /\ total[o] \in Nat /\ acc[t][o] \in Int /\ acc[u][o] \in Int
          /\ Total(t, o) = total[o] + acc[t][o] /\ Total(t, o) \in Nat
          /\ Total(u, o) = total[o] + acc[u][o] /\ Total(u, o) \in Nat
      BY Balanced
    <3>2. acc[t][o] = 0 \/ acc[u][o] = 0
      BY <1>t, <2>2 DEF Own
    <3>3. Total(u, o)' = (total[o] + acc[t][o]) + acc[u][o]
      BY <1>3, <1>6, <2>2, <3>1 DEF Total
    <3> QED BY <3>1, <3>2, <3>3
  <2> QED BY <2>1, <2>2
<1>9. ASSUME NEW u \in Tx \ {t}, NEW o \in Owners \ raced
      PROVE  Total(u, o)' + Running(u, o)' + Queued(u, o)' =
                FromScratch(View(u)', ViewLinks(u)', o)
  <2> DEFINE W == Written(t, o)
             R == Column(item, links, o)
             A == Column(View(t), ViewLinks(t), o)
             U == Column(View(u), ViewLinks(u), o)
             N == Column(View(u)', ViewLinks(u)', o)
  <2>0. View(u) \in Tables /\ View(u)' \in Tables
    BY <1>6, <1>t, Views, ViewsNext
  <2>1. \A i \in Items : View(u)'[i] = IF buf[u][i] = Same THEN View(t)[i] ELSE buf[u][i]
    BY <1>1, <1>6 DEF View
  <2>2. ViewLinks(u)' = (ViewLinks(t) \ rem[u]) \cup add[u]
    BY <1>1, <1>6 DEF ViewLinks
  <2>3. ASSUME NEW i \in W
        PROVE  /\ View(u)'[i] = View(t)[i] /\ View(u)[i] = item[i]
               /\ <<i, o>> \in ViewLinks(u)' <=> <<i, o>> \in ViewLinks(t)
               /\ <<i, o>> \in ViewLinks(u) <=> <<i, o>> \in links
    <3>1. /\ i \in Items /\ buf[u][i] = Same
          /\ <<i, o>> \notin add[u] /\ <<i, o>> \notin rem[u]
      BY WritesApart DEF Written
    <3> QED BY <2>1, <2>2, <3>1 DEF View, ViewLinks
  <2>4. ASSUME NEW i \in Items \ W
        PROVE  /\ View(t)[i] = item[i] /\ View(u)'[i] = View(u)[i]
               /\ <<i, o>> \in ViewLinks(t) <=> <<i, o>> \in links
               /\ <<i, o>> \in ViewLinks(u)' <=> <<i, o>> \in ViewLinks(u)
    <3>1. /\ buf[t][i] = Same
          /\ <<i, o>> \notin add[t] /\ <<i, o>> \notin rem[t]
      BY DEF Written
    <3>2. View(t)[i] = item[i] /\ (<<i, o>> \in ViewLinks(t) <=> <<i, o>> \in links)
      BY <3>1 DEF View, ViewLinks
    <3>3. View(u)[i] = IF buf[u][i] = Same THEN item[i] ELSE buf[u][i]
      BY DEF View
    <3>4. ViewLinks(u) = (links \ rem[u]) \cup add[u]
      BY DEF ViewLinks
    <3> QED BY <2>1, <2>2, <3>2, <3>3, <3>4
  <2>5. Joined(R, A, U, N, W)
    BY <2>3, <2>4 DEF Joined, Column, Share
  <2>6. /\ R \in Columns /\ A \in Columns /\ U \in Columns /\ N \in Columns
        /\ FromScratch(item, links, o) = Size(R)
        /\ FromScratch(View(t), ViewLinks(t), o) = Size(A)
        /\ FromScratch(View(u), ViewLinks(u), o) = Size(U)
        /\ FromScratch(View(u)', ViewLinks(u)', o) = Size(N)
        /\ Size(R) \in Nat /\ Size(A) \in Nat /\ Size(U) \in Nat /\ Size(N) \in Nat
    BY <1>2, <2>0, ColumnType, Counted, CellsFinite
  <2>7. Pending(View(u)', ViewLinks(u)', todo[u], o) =
          Pending(View(u), ViewLinks(u), todo[u], o)
    <3>1. ASSUME NEW i \in Items, buf[u][i] # Same
          PROVE  <<i, o>> \in ViewLinks(u)' <=> <<i, o>> \in ViewLinks(u)
      <4>1. i \notin W
        BY <3>1, WritesApart
      <4> QED BY <2>4, <4>1
    <3>2. ASSUME NEW i \in Items, lock[<<i, o>>] = u
          PROVE  View(u)'[i] = View(u)[i]
      <4>1. buf[t][i] = Same
        BY <3>2 DEF IInv, RaceInv
      <4>2. View(t)[i] = item[i]
        BY <4>1 DEF View
      <4> QED BY <2>1, <4>2 DEF View
    <3> DEFINE V == View(u)'
               L == ViewLinks(u)'
    <3>3. /\ V \in Tables
          /\ \A i \in Items : buf[u][i] # Same =>
                (<<i, o>> \in L <=> <<i, o>> \in ViewLinks(u))
          /\ \A i \in Items : lock[<<i, o>>] = u => V[i] = View(u)[i]
      BY <2>0, <3>1, <3>2
    <3> HIDE DEF V, L
    <3>4. Pending(V, L, todo[u], o) = Pending(View(u), ViewLinks(u), todo[u], o)
      BY <3>3, QueuedStays
    <3> QED BY <3>4 DEF V, L
  <2>8. /\ Queued(u, o)' = Queued(u, o) /\ Running(u, o)' = Running(u, o)
    <3>1. todo'[u] = todo[u] /\ upd'[u] = upd[u] /\ o \in Owners
      BY <1>6
    <3> QED BY <2>7, <3>1, QueuedIsPending DEF Running
  <2> HIDE DEF R, A, U, N, W
  <2>9. Size(N) + Size(R) = Size(A) + Size(U)
    <3>1. Additive(R, A, U, N)
      BY <2>5, <2>6, Apart, Zenon
    <3> QED BY <3>1 DEF Additive
  <2>10. /\ total[o] \in Nat /\ acc[t][o] \in Int /\ acc[u][o] \in Int
         /\ Running(u, o) \in Int /\ Queued(u, o) \in Int
         /\ Size(R) = total[o]
         /\ Size(A) = total[o] + acc[t][o]
         /\ Size(U) = total[o] + acc[u][o] + Running(u, o) + Queued(u, o)
    BY <1>1, <2>6, Balanced
  <2>11. Total(u, o)' = (total[o] + acc[t][o]) + acc[u][o]
    <3>1. Total(u, o)' = total'[o] + acc'[u][o]
      BY DEF Total
    <3>2. total'[o] = total[o] + acc[t][o] /\ acc'[u][o] = acc[u][o]
      BY <1>3, <1>6, Balanced
    <3> QED BY <3>1, <3>2
  <2>12. ((total[o] + acc[t][o]) + acc[u][o]) + Running(u, o) + Queued(u, o) = Size(N)
    BY <2>6, <2>9, <2>10
  <2> QED BY <2>6, <2>8, <2>11, <2>12
<1>10. BalanceInv'
  <2>1. ASSUME NEW o \in Owners \ raced
        PROVE  Total(t, o)' + Running(t, o)' + Queued(t, o)' =
                  FromScratch(View(t)', ViewLinks(t)', o)
    BY <1>6, <1>7, ClearView
  <2> QED BY <1>1, <1>9, <2>1 DEF BalanceInv
<1>11. FloorInv'
  BY <1>8 DEF FloorInv
<1>12. DriftsOnlyByRace' /\ RejectsOnlyByRace'
  BY <1>1, <1>7 DEF IInv, DriftsOnlyByRace, RejectsOnlyByRace
<1> QED BY <1>6, <1>10, <1>11, <1>12 DEF IInv

-----------------------------------------------------------------------------
LEMMA IInvStep == IInv /\ [Next]_vars => IInv'
<1> SUFFICES ASSUME IInv, [Next]_vars PROVE IInv'
  OBVIOUS
<1>1. ASSUME NEW t \in Tx,
             \/ InsertItem(t) \/ UpdateItem(t) \/ DeleteItem(t)
             \/ AddLink(t) \/ RemoveLink(t) \/ MoveLink(t)
             \/ Select(t) \/ Apply(t)
             \/ Commit(t) \/ Abort(t) \/ Reject(t)
      PROVE  IInv'
  <2>1. CASE InsertItem(t)
    BY <2>1, InsertItemStep
  <2>2. CASE UpdateItem(t)
    BY <2>2, UpdateItemStep
  <2>3. CASE DeleteItem(t)
    BY <2>3, DeleteItemStep
  <2>4. CASE AddLink(t)
    BY <2>4, AddLinkStep
  <2>5. CASE RemoveLink(t)
    BY <2>5, RemoveLinkStep
  <2>6. CASE MoveLink(t)
    BY <2>6, MoveLinkStep
  <2>7. CASE Select(t)
    BY <2>7, SelectStep
  <2>8. CASE Apply(t)
    BY <2>8, ApplyStep
  <2>9. CASE Commit(t)
    BY <2>9, CommitStep
  <2>10. CASE Abort(t)
    BY <2>10, AbortStep
  <2>11. CASE Reject(t)
    BY <2>11, RejectStep
  <2> QED BY <1>1, <2>1, <2>2, <2>3, <2>4, <2>5, <2>6, <2>7, <2>8, <2>9, <2>10, <2>11
<1>2. CASE UNCHANGED vars
  <2>1. UNCHANGED <<item, links, total, lock, buf, add, rem, acc, todo, upd, ops,
                    rejected, raced>>
    BY <1>2 DEF vars
  <2>2. TypeOK' /\ OrderInv'
    BY <2>1 DEF IInv, TypeOK, OrderInv, Held
  <2>3. \A t \in Tx, o \in Owners :
          /\ Total(t, o)' = Total(t, o)
          /\ Running(t, o)' = Running(t, o)
          /\ Queued(t, o)' = Queued(t, o)
    <3> TAKE t \in Tx, o \in Owners
    <3>1. View(t)' = View(t) /\ ViewLinks(t)' = ViewLinks(t)
      BY <2>1 DEF View, ViewLinks
    <3> QED BY <2>1, <3>1, QueuedIsPending DEF Total, Running
  <2>4. FloorInv'
    BY <2>3 DEF IInv, FloorInv
  <2> QED BY <2>1, <2>2, <2>3, <2>4, SameViews
<1> QED BY <1>1, <1>2 DEF Next

(* In every state, for an owner without a race, the column a transaction   *)
(* sees and what its triggers still have to add make up the aggregate of   *)
(* the rows and links it sees (denorms/aggregate.py:148-374).              *)
THEOREM ManyToManyInvariant == Spec => []IInv
BY InitIInv, IInvStep, PTL DEF Spec

(* Types, and that only the transaction that holds a lock has written the  *)
(* row or the link, or added to the column (denorms/aggregate.py:148-374). *)
THEOREM ManyToManyTypeCorrect == Spec => []TypeOK
<1>1. IInv => TypeOK
  BY DEF IInv
<1> QED BY <1>1, ManyToManyInvariant, PTL

(* The race of a link with its row is the only way for a committed column  *)
(* to differ from the aggregate of the committed rows and links            *)
(* (denorms/aggregate.py:148-268, 281-374).                                *)
THEOREM OnlyTheRaceDrifts == Spec => []DriftsOnlyByRace
<1>1. IInv => DriftsOnlyByRace
  BY DEF IInv
<1> QED BY <1>1, ManyToManyInvariant, PTL

(* And the only way for a trigger to take more from a column than it holds *)
(* (denorms/aggregate.py:148-374, fields.py:255).                          *)
THEOREM OnlyTheRaceRejects == Spec => []RejectsOnlyByRace
<1>1. IInv => RejectsOnlyByRace
  BY DEF IInv
<1> QED BY <1>1, ManyToManyInvariant, PTL
=============================================================================
