----------------------- MODULE DenormAggregateProofs -----------------------
(***************************************************************************)
(* The aggregate columns are exact in every state, and no decrement is     *)
(* refused, for any finite set of related rows and any connections, owners *)
(* and contents.                                                           *)
(***************************************************************************)
EXTENDS DenormAggregate, FiniteSetTheorems, SequenceTheorems, TLAPS

Value == Content \cup {Absent}
Tables == [Rows -> Value]

(* What a row counts for in the column of o.                               *)
Worth(v, o) ==
    IF v # Absent /\ v.parent = o /\ v.passes THEN Abstract!Amount(v) ELSE 0

LEMMA Amounts ==
  ASSUME NEW v \in Content
  PROVE  /\ v.amount \in Nat \cup {Null} /\ v.parent \in Owners \cup {None}
         /\ v.passes \in BOOLEAN /\ Abstract!Amount(v) \in Nat
BY ContentAssumption DEF Abstract!Amount

LEMMA Worths ==
  ASSUME NEW v \in Value, NEW o
  PROVE  Worth(v, o) \in Nat
BY Amounts DEF Worth, Value

-----------------------------------------------------------------------------
(* Units: the sums of this module count them *)

LEMMA SameCardinality ==
  ASSUME NEW S
  PROVE  Abstract!Cardinality(S) = Cardinality(S)
BY DEF Abstract!Cardinality, Cardinality

LEMMA RowUnits ==
  ASSUME NEW r, NEW n \in Nat
  PROVE  IsFiniteSet({r} \X (1 .. n)) /\ Cardinality({r} \X (1 .. n)) = n
<1>1. IsFiniteSet(1 .. n) /\ Cardinality(1 .. n) = n
  <2>1. 1 \in Int /\ n \in Int /\ (n >= 1 => n - 1 + 1 = n) /\ (1 > n => n = 0)
    OBVIOUS
  <2>2. /\ IsFiniteSet(1 .. n)
        /\ Cardinality(1 .. n) = IF 1 > n THEN 0 ELSE n - 1 + 1
    BY <2>1, FS_Interval
  <2> QED BY <2>1, <2>2
<1>2. IsFiniteSet({r}) /\ Cardinality({r}) = 1
  BY FS_Singleton
<1> DEFINE S == {r}
           T == 1 .. n
<1> HIDE DEF S, T
<1>3. IsFiniteSet(S) /\ Cardinality(S) = 1 /\ IsFiniteSet(T) /\ Cardinality(T) = n
  BY <1>1, <1>2 DEF S, T
<1>4. IsFiniteSet(S \X T) /\ Cardinality(S \X T) = Cardinality(S) * Cardinality(T)
  BY <1>3, FS_Product
<1>5. Cardinality(S \X T) = n
  BY <1>3, <1>4
<1> QED BY <1>4, <1>5 DEF S, T

LEMMA UnitOf ==
  ASSUME NEW A, NEW o, NEW x
  PROVE  x \in Abstract!Units(A, o) <=>
           \E r \in Rows : /\ A[r] # Absent /\ A[r].parent = o /\ A[r].passes
                           /\ x \in {r} \X (1 .. Abstract!Amount(A[r]))
BY DEF Abstract!Units, Abstract!Related

LEMMA Counted ==
  ASSUME NEW A, NEW o
  PROVE  Abstract!FromScratch(A, o) = Cardinality(Abstract!Units(A, o))
BY SameCardinality DEF Abstract!FromScratch

LEMMA UnitsFinite ==
  ASSUME NEW A \in Tables, NEW o
  PROVE  /\ IsFiniteSet(Abstract!Units(A, o))
         /\ Abstract!FromScratch(A, o) \in Nat
<1> DEFINE R == Abstract!Related(A, o)
           f == [r \in R |-> {r} \X (1 .. Abstract!Amount(A[r]))]
           S == {f[r] : r \in R}
<1>1. IsFiniteSet(R) /\ \A r \in R : r \in Rows /\ A[r] \in Content
  <2>1. R \in SUBSET Rows /\ \A r \in R : A[r] # Absent
    BY DEF Abstract!Related
  <2>2. IsFiniteSet(R)
    BY <2>1, ContentAssumption, FS_Subset
  <2> QED BY <2>1, <2>2 DEF Tables, Value
<1>2. \A r \in R : IsFiniteSet(f[r])
  <2> SUFFICES ASSUME NEW r \in R
               PROVE  IsFiniteSet({r} \X (1 .. Abstract!Amount(A[r])))
    OBVIOUS
  <2>1. Abstract!Amount(A[r]) \in Nat
    BY <1>1, Amounts
  <2> QED BY <2>1, RowUnits
<1>3. Abstract!Units(A, o) = UNION S
  BY DEF Abstract!Units
<1> HIDE DEF R
<1>4. f \in Surjection(R, S)
  BY DEF Surjection
<1>5. IsFiniteSet(S)
  BY <1>1, <1>4, FS_Surjection
<1>6. \A T \in S : IsFiniteSet(T)
  BY <1>2
<1> HIDE DEF S
<1>7. IsFiniteSet(UNION S)
  BY <1>5, <1>6, FS_UNION
<1> DEFINE V == UNION S
<1> HIDE DEF V
<1>8. Cardinality(V) \in Nat
  BY <1>7, FS_CardinalityType DEF V
<1> QED BY <1>3, <1>7, <1>8, Counted DEF V

(* The units of the rows in W.                                             *)
Part(A, o, W) == {x \in Abstract!Units(A, o) : x[1] \in W}

LEMMA Parts ==
  ASSUME NEW A \in Tables, NEW o, NEW W
  PROVE  /\ Cardinality(Part(A, o, W)) \in Nat
         /\ Cardinality(Part(A, o, Rows \ W)) \in Nat
         /\ Abstract!FromScratch(A, o) =
              Cardinality(Part(A, o, W)) + Cardinality(Part(A, o, Rows \ W))
<1> DEFINE U == Abstract!Units(A, o)
           P == Part(A, o, W)
           Q == Part(A, o, Rows \ W)
<1>1. \A x \in U : x[1] \in Rows
  <2> TAKE x \in U
  <2>1. PICK r \in Rows : x \in {r} \X (1 .. Abstract!Amount(A[r]))
    BY UnitOf
  <2> QED BY <2>1
<1>2. P \subseteq U /\ Q \subseteq U /\ U = P \cup Q /\ P \cap Q = {}
  BY <1>1 DEF Part
<1>3. IsFiniteSet(U)
  BY UnitsFinite
<1> HIDE DEF U, P, Q
<1>4. IsFiniteSet(P) /\ IsFiniteSet(Q)
  BY <1>2, <1>3, FS_Subset
<1>5. /\ Cardinality(P) \in Nat /\ Cardinality(Q) \in Nat
      /\ Cardinality(P \cap Q) = 0
      /\ Cardinality(P \cup Q) = Cardinality(P) + Cardinality(Q) - Cardinality(P \cap Q)
  BY <1>2, <1>4, FS_CardinalityType, FS_EmptySet, FS_Union
<1>6. Cardinality(U) = Cardinality(P) + Cardinality(Q)
  BY <1>2, <1>5
<1> QED BY <1>5, <1>6, Counted DEF U, P, Q

LEMMA SamePart ==
  ASSUME NEW A \in Tables, NEW B \in Tables, NEW o, NEW W,
         \A r \in Rows \cap W : A[r] = B[r]
  PROVE  Part(A, o, W) = Part(B, o, W)
<1>1. ASSUME NEW x, NEW C \in {A, B}
      PROVE  x \in Part(C, o, W) <=>
               \E r \in Rows \cap W :
                  /\ C[r] # Absent /\ C[r].parent = o /\ C[r].passes
                  /\ x \in {r} \X (1 .. Abstract!Amount(C[r]))
  BY UnitOf DEF Part
<1>2. \A x : x \in Part(A, o, W) <=> x \in Part(B, o, W)
  <2> TAKE x
  <2> DEFINE In(C) == \E r \in Rows \cap W :
                  /\ C[r] # Absent /\ C[r].parent = o /\ C[r].passes
                  /\ x \in {r} \X (1 .. Abstract!Amount(C[r]))
  <2>1. In(A) <=> In(B)
    OBVIOUS
  <2>2. (x \in Part(A, o, W) <=> In(A)) /\ (x \in Part(B, o, W) <=> In(B))
    BY <1>1
  <2> QED BY <2>1, <2>2
<1> QED BY <1>2 DEF Part

(* One change turns the rows of W from R to A, another one the other rows  *)
(* from R to U: N has both, and both make up its difference.               *)
Joined(R, A, U, N, W) ==
    /\ \A r \in Rows \cap W : N[r] = A[r] /\ U[r] = R[r]
    /\ \A r \in Rows \ W : N[r] = U[r] /\ A[r] = R[r]

Additive(R, A, U, N, o) ==
    Abstract!FromScratch(N, o) + Abstract!FromScratch(R, o) =
      Abstract!FromScratch(A, o) + Abstract!FromScratch(U, o)

LEMMA Apart ==
  ASSUME NEW R \in Tables, NEW A \in Tables, NEW U \in Tables, NEW N \in Tables,
         NEW W, NEW o, Joined(R, A, U, N, W)
  PROVE  Additive(R, A, U, N, o)
<1>1. /\ Part(N, o, W) = Part(A, o, W) /\ Part(U, o, W) = Part(R, o, W)
      /\ Part(N, o, Rows \ W) = Part(U, o, Rows \ W)
      /\ Part(A, o, Rows \ W) = Part(R, o, Rows \ W)
  BY SamePart DEF Joined
<1> QED BY <1>1, Parts DEF Additive

(* One row changes.                                                        *)
LEMMA RowPart ==
  ASSUME NEW A \in Tables, NEW o, NEW r \in Rows
  PROVE  Cardinality(Part(A, o, {r})) = Worth(A[r], o)
<1>1. A[r] \in Value
  BY DEF Tables
<1>2. CASE A[r] # Absent /\ A[r].parent = o /\ A[r].passes
  <2>1. Abstract!Amount(A[r]) \in Nat
    BY <1>1, <1>2, Amounts DEF Value
  <2>2. Part(A, o, {r}) = {r} \X (1 .. Abstract!Amount(A[r]))
    BY <1>2, UnitOf DEF Part
  <2>3. Cardinality({r} \X (1 .. Abstract!Amount(A[r]))) = Abstract!Amount(A[r])
    BY <2>1, RowUnits
  <2> QED BY <1>2, <2>2, <2>3 DEF Worth
<1>3. CASE ~(A[r] # Absent /\ A[r].parent = o /\ A[r].passes)
  <2>1. Part(A, o, {r}) = {}
    BY <1>3, UnitOf DEF Part
  <2> QED BY <1>3, <2>1, FS_EmptySet DEF Worth
<1> QED BY <1>2, <1>3

LEMMA OneRow ==
  ASSUME NEW A \in Tables, NEW r \in Rows, NEW v \in Value, NEW o
  PROVE  Abstract!FromScratch([A EXCEPT ![r] = v], o) =
           Abstract!FromScratch(A, o) - Worth(A[r], o) + Worth(v, o)
<1> DEFINE B == [A EXCEPT ![r] = v]
<1>1. B \in Tables /\ B[r] = v /\ \A q \in Rows \ {r} : B[q] = A[q]
  BY DEF Tables
<1> HIDE DEF B
<1>2. Part(B, o, Rows \ {r}) = Part(A, o, Rows \ {r})
  BY <1>1, SamePart
<1>3. /\ Cardinality(Part(A, o, {r})) = Worth(A[r], o)
      /\ Cardinality(Part(B, o, {r})) = Worth(v, o)
  BY <1>1, RowPart
<1>4. B \in Tables
  BY <1>1
<1>5. /\ Cardinality(Part(A, o, {r})) \in Nat /\ Cardinality(Part(A, o, Rows \ {r})) \in Nat
      /\ Abstract!FromScratch(A, o) =
           Cardinality(Part(A, o, {r})) + Cardinality(Part(A, o, Rows \ {r}))
      /\ Cardinality(Part(B, o, {r})) \in Nat
      /\ Abstract!FromScratch(B, o) =
           Cardinality(Part(B, o, {r})) + Cardinality(Part(B, o, Rows \ {r}))
  BY <1>4, Parts
<1>6. Abstract!FromScratch(B, o) =
           Abstract!FromScratch(A, o) - Worth(A[r], o) + Worth(v, o)
  BY <1>2, <1>3, <1>5
<1> QED BY <1>6 DEF B

-----------------------------------------------------------------------------
(* The actions of a trigger make up the change of the row *)

Actions(q) == /\ q \in Seq(Action) /\ Len(q) <= 2
              /\ Len(q) = 2 => q[1].sign = 1 /\ q[2].sign = -1

LEMMA Effects ==
  ASSUME NEW a \in Action, NEW o
  PROVE  /\ Effect(a, o) \in Int
         /\ a.sign = -1 => Effect(a, o) <= 0
         /\ a.amount # Null => Effect(a, a.owner) = a.sign * a.amount
<1>1. a.sign \in {-1, 1} /\ a.amount \in Nat \cup {Null}
  BY DEF Action
<1>2. a.amount # Null => /\ a.sign * a.amount \in Int
                         /\ a.sign = -1 => a.sign * a.amount <= 0
  BY <1>1
<1> QED BY <1>2 DEF Effect

LEMMA Pendings ==
  /\ \A o : Pending(<<>>, o) = 0
  /\ \A o : \A a \in Action : Pending(<<a>>, o) = Effect(a, o)
  /\ \A o : \A a \in Action, b \in Action :
        Pending(<<a, b>>, o) = Effect(a, o) + Effect(b, o)
BY Effects DEF Pending

LEMMA PendingType ==
  ASSUME NEW q \in Seq(Action), NEW o
  PROVE  Pending(q, o) \in Int
<1>1. CASE q = <<>>
  BY <1>1, Pendings
<1>2. CASE q # <<>>
  <2>1. Len(q) \in Nat /\ Len(q) # 0
    BY <1>2, EmptySeq
  <2>2. 1 \in 1 .. Len(q) /\ (Len(q) = 2 => 2 \in 1 .. Len(q))
    BY <2>1
  <2>3. q[1] \in Action /\ (Len(q) = 2 => q[2] \in Action)
    BY <2>2, ElementOfSeq
  <2>4. Effect(q[1], o) \in Int /\ (Len(q) = 2 => Effect(q[2], o) \in Int)
    BY <2>3, Effects
  <2> QED BY <1>2, <2>4 DEF Pending
<1> QED BY <1>1, <1>2

(* What an action for one row does to the columns.                         *)
LEMMA EffectOfRow ==
  ASSUME NEW v \in Content, v.parent # None, v.passes, NEW sign \in {-1, 1}, NEW a,
         a = [owner |-> v.parent, sign |-> sign, amount |-> v.amount]
  PROVE  /\ a \in Action /\ a.sign = sign
         /\ \A o \in Owners : Effect(a, o) = sign * Worth(v, o)
<1>1. /\ v.amount \in Nat \cup {Null} /\ v.parent \in Owners
      /\ v # Absent
  BY Amounts, ContentAssumption
<1>2. a \in Action /\ a.sign = sign /\ a.owner = v.parent /\ a.amount = v.amount
  BY <1>1 DEF Action
<1>3. ASSUME NEW o \in Owners
      PROVE  Effect(a, o) = sign * Worth(v, o)
  <2>1. CASE v.parent = o /\ v.amount # Null
    BY <1>1, <1>2, <2>1 DEF Effect, Worth, Abstract!Amount
  <2>2. CASE v.parent = o /\ v.amount = Null
    <3>1. Effect(a, o) = 0 /\ Worth(v, o) = 0
      BY <1>1, <1>2, <2>2 DEF Effect, Worth, Abstract!Amount
    <3> QED BY <3>1
  <2>3. CASE v.parent # o
    <3>1. Effect(a, o) = 0 /\ Worth(v, o) = 0
      BY <1>1, <1>2, <2>3 DEF Effect, Worth
    <3> QED BY <3>1
  <2> QED BY <2>1, <2>2, <2>3
<1> QED BY <1>2, <1>3

LEMMA FewActions ==
  ASSUME NEW q, q = <<>> \/ \E a \in Action : q = <<a>>
  PROVE  Actions(q)
<1>1. CASE q = <<>>
  BY <1>1 DEF Actions
<1>2. ASSUME NEW a \in Action, q = <<a>>
      PROVE  Actions(q)
  <2>1. <<a>> \in Seq(Action) /\ Len(<<a>>) = 1
    OBVIOUS
  <2> QED BY <1>2, <2>1 DEF Actions
<1> QED BY <1>1, <1>2

LEMMA Increments ==
  ASSUME NEW v \in Content
  PROVE  /\ \/ Increment(v) = <<>>
            \/ \E a \in Action : Increment(v) = <<a>> /\ a.sign = 1
         /\ \A o \in Owners : Pending(Increment(v), o) = Worth(v, o)
<1>1. CASE v.parent = None \/ ~v.passes
  <2>1. Increment(v) = <<>>
    BY <1>1 DEF Increment
  <2>2. \A o \in Owners : Worth(v, o) = 0
    BY <1>1, ContentAssumption DEF Worth
  <2> QED BY <2>1, <2>2, Pendings
<1>2. CASE ~(v.parent = None \/ ~v.passes)
  <2> DEFINE a == [owner |-> v.parent, sign |-> 1, amount |-> v.amount]
  <2>1. Increment(v) = <<a>>
    BY <1>2 DEF Increment
  <2>2. a \in Action /\ a.sign = 1 /\ \A o \in Owners : Effect(a, o) = 1 * Worth(v, o)
    BY <1>2, EffectOfRow
  <2>3. \A o \in Owners : Worth(v, o) \in Nat
    BY Worths DEF Value
  <2> HIDE DEF a
  <2>4. \A o \in Owners : Pending(<<a>>, o) = Worth(v, o)
    BY <2>2, <2>3, Pendings
  <2> QED BY <2>1, <2>2, <2>4
<1> QED BY <1>1, <1>2

LEMMA Decrements ==
  ASSUME NEW v \in Content
  PROVE  /\ \/ Decrement(v) = <<>>
            \/ \E a \in Action : Decrement(v) = <<a>> /\ a.sign = -1
         /\ \A o \in Owners : Pending(Decrement(v), o) = 0 - Worth(v, o)
<1>1. CASE v.parent = None \/ ~v.passes
  <2>1. Decrement(v) = <<>>
    BY <1>1 DEF Decrement
  <2>2. \A o \in Owners : Worth(v, o) = 0
    BY <1>1, ContentAssumption DEF Worth
  <2> QED BY <2>1, <2>2, Pendings
<1>2. CASE ~(v.parent = None \/ ~v.passes)
  <2> DEFINE a == [owner |-> v.parent, sign |-> -1, amount |-> v.amount]
  <2>1. Decrement(v) = <<a>>
    BY <1>2 DEF Decrement
  <2> HIDE DEF a
  <2>0. a = [owner |-> v.parent, sign |-> -1, amount |-> v.amount] /\ -1 \in {-1, 1}
    BY DEF a
  <2>2. a \in Action /\ a.sign = -1 /\ \A o \in Owners : Effect(a, o) = (-1) * Worth(v, o)
    BY <1>2, <2>0, EffectOfRow
  <2>3. \A o \in Owners : Worth(v, o) \in Nat
    BY Worths DEF Value
  <2>4. \A o \in Owners : Pending(<<a>>, o) = 0 - Worth(v, o)
    BY <2>2, <2>3, Pendings
  <2> QED BY <2>1, <2>2, <2>4
<1> QED BY <1>1, <1>2

LEMMA Moves ==
  ASSUME NEW new \in Content, NEW old \in Content
  PROVE  /\ Actions(Increment(new) \o Decrement(old))
         /\ \A o \in Owners :
              Pending(Increment(new) \o Decrement(old), o) = Worth(new, o) - Worth(old, o)
<1> DEFINE I == Increment(new)
           D == Decrement(old)
<1>w. \A o \in Owners : Worth(new, o) \in Nat /\ Worth(old, o) \in Nat
  BY Worths DEF Value
<1>i. /\ I = <<>> \/ \E a \in Action : I = <<a>> /\ a.sign = 1
      /\ \A o \in Owners : Pending(I, o) = Worth(new, o)
  BY Increments
<1>d. /\ D = <<>> \/ \E a \in Action : D = <<a>> /\ a.sign = -1
      /\ \A o \in Owners : Pending(D, o) = 0 - Worth(old, o)
  BY Decrements
<1> HIDE DEF I, D
<1>c. /\ \A q \in Seq(Action) : <<>> \o q = q /\ q \o <<>> = q
      /\ \A a \in Action, b \in Action : <<a>> \o <<b>> = <<a, b>>
  <2>1. \A q \in Seq(Action) : <<>> \o q = q /\ q \o <<>> = q
    BY ConcatEmptySeq
  <2>2. ASSUME NEW a \in Action, NEW b \in Action
        PROVE  <<a>> \o <<b>> = <<a, b>>
    <3> DEFINE q == <<a>>
               w == <<b>>
               p == <<a, b>>
    <3>1. /\ q \in Seq(Action) /\ Len(q) = 1 /\ q[1] = a
          /\ w \in Seq(Action) /\ Len(w) = 1 /\ w[1] = b
          /\ p \in Seq(Action) /\ Len(p) = 2 /\ p[1] = a /\ p[2] = b
      OBVIOUS
    <3> HIDE DEF q, p, w
    <3>2. /\ q \o w \in Seq(Action) /\ Len(q \o w) = 2
          /\ (q \o w)[1] = a /\ (q \o w)[2] = b
      <4>1. /\ q \o w \in Seq(Action) /\ Len(q \o w) = Len(q) + Len(w)
            /\ \A i \in 1 .. Len(q) + Len(w) :
                  (q \o w)[i] = IF i <= Len(q) THEN q[i] ELSE w[i - Len(q)]
        BY <3>1, ConcatProperties, Z3
      <4> QED BY <3>1, <4>1
    <3>3. \A i \in 1 .. Len(p) : p[i] = (q \o w)[i]
      BY <3>1, <3>2
    <3>4. p = q \o w
      BY <3>1, <3>2, <3>3, SeqEqual
    <3> QED BY <3>4 DEF q, p, w
  <2> QED BY <2>1, <2>2
<1>s. /\ Actions(<<>>) /\ <<>> \in Seq(Action)
      /\ \A a \in Action : Actions(<<a>>) /\ <<a>> \in Seq(Action)
      /\ \A a \in Action, b \in Action :
            a.sign = 1 /\ b.sign = -1 => Actions(<<a, b>>)
  <2>1. Actions(<<>>) /\ <<>> \in Seq(Action)
    BY DEF Actions
  <2>2. ASSUME NEW a \in Action
        PROVE  Actions(<<a>>) /\ <<a>> \in Seq(Action)
    <3>1. <<a>> \in Seq(Action) /\ Len(<<a>>) = 1
      OBVIOUS
    <3> QED BY <3>1 DEF Actions
  <2>3. ASSUME NEW a \in Action, NEW b \in Action, a.sign = 1, b.sign = -1
        PROVE  Actions(<<a, b>>)
    <3>1. /\ <<a, b>> \in Seq(Action) /\ Len(<<a, b>>) = 2
          /\ <<a, b>>[1] = a /\ <<a, b>>[2] = b
      OBVIOUS
    <3> QED BY <2>3, <3>1 DEF Actions
  <2> QED BY <2>1, <2>2, <2>3
<1>1. CASE I = <<>>
  <2>1. I \o D = D /\ Actions(D)
    BY <1>1, <1>c, <1>d, <1>s
  <2>2. \A o \in Owners : Worth(new, o) = 0
    BY <1>1, <1>i, Pendings
  <2> QED BY <1>d, <1>w, <2>1, <2>2 DEF I, D
<1>2. CASE D = <<>>
  <2>1. I \o D = I /\ Actions(I)
    BY <1>2, <1>c, <1>i, <1>s
  <2>2. \A o \in Owners : 0 - Worth(old, o) = 0
    BY <1>2, <1>d, Pendings
  <2>3. \A o \in Owners : Worth(new, o) - Worth(old, o) = Worth(new, o)
    BY <1>w, <2>2
  <2> QED BY <1>i, <2>1, <2>3 DEF I, D
<1>3. ASSUME NEW a \in Action, I = <<a>>, a.sign = 1, NEW b \in Action, D = <<b>>, b.sign = -1
      PROVE  /\ Actions(I \o D)
             /\ \A o \in Owners : Pending(I \o D, o) = Worth(new, o) - Worth(old, o)
  <2>1. I \o D = <<a, b>>
    BY <1>3, <1>c
  <2>2. Actions(<<a, b>>)
    BY <1>3, <1>s
  <2>3. \A o \in Owners : Effect(a, o) = Worth(new, o) /\ Effect(b, o) = 0 - Worth(old, o)
    BY <1>3, <1>i, <1>d, Pendings
  <2>4. \A o \in Owners : Pending(<<a, b>>, o) = Worth(new, o) - Worth(old, o)
    BY <1>w, <2>3, Pendings
  <2> QED BY <2>1, <2>2, <2>4
<1> QED BY <1>1, <1>2, <1>3, <1>i, <1>d DEF I, D

-----------------------------------------------------------------------------
(* The invariant *)

LEMMA Views ==
  ASSUME TypeOK, NEW t \in Tx
  PROVE  View(t) \in Tables
<1>0. /\ row \in [Rows -> Value]
      /\ buf \in [Tx -> [Rows -> Content \cup {Absent, Same}]]
  BY DEF TypeOK, Value
<1>1. \A r \in Rows : row[r] \in Value /\ buf[t][r] \in Value \cup {Same}
  BY <1>0 DEF Value
<1>2. \A r \in Rows : (IF buf[t][r] = Same THEN row[r] ELSE buf[t][r]) \in Value
  BY <1>1
<1> QED BY <1>2 DEF View, Tables

(* The column a transaction sees, with what its triggers still add.        *)
LEMMA Balanced ==
  ASSUME IInv, NEW t \in Tx, NEW o \in Owners
  PROVE  /\ total[o] \in Nat /\ acc[t][o] \in Int
         /\ Total(t, o) = total[o] + acc[t][o]
         /\ Total(t, o) + Pending(todo[t], o) = Abstract!FromScratch(View(t), o)
         /\ total[o] = Abstract!FromScratch(row, o)
         /\ Abstract!FromScratch(View(t), o) \in Nat
         /\ todo[t] = <<>> => Total(t, o) = Abstract!FromScratch(View(t), o)
<1>1. /\ total[o] \in Nat /\ acc[t][o] \in Int
      /\ Total(t, o) = total[o] + acc[t][o]
  BY DEF IInv, TypeOK, Total
<1>2. Total(t, o) + Pending(todo[t], o) = Abstract!FromScratch(View(t), o)
  BY DEF IInv, BalanceInv
<1>3. total[o] = Abstract!FromScratch(row, o)
  BY DEF IInv, ExactInv, Abstract!Exact
<1>4. Abstract!FromScratch(View(t), o) \in Nat
  BY Views, UnitsFinite DEF IInv
<1>5. todo[t] = <<>> => Pending(todo[t], o) = 0
  BY Pendings
<1>6. todo[t] = <<>> => Total(t, o) = Abstract!FromScratch(View(t), o)
  <2> HAVE todo[t] = <<>>
  <2>1. Total(t, o) + 0 = Abstract!FromScratch(View(t), o)
    BY <1>2, <1>5
  <2> QED BY <1>1, <2>1
<1> QED BY <1>1, <1>2, <1>3, <1>4, <1>6

LEMMA InitIInv == Init => IInv
<1> SUFFICES ASSUME Init PROVE IInv
  OBVIOUS
<1>1. Row0 \in Tables
  BY ContentAssumption DEF Tables, Value
<1>2. \A o \in Owners : total[o] = Abstract!FromScratch(Row0, o) /\ total[o] \in Nat
  BY <1>1, UnitsFinite DEF Init
<1>3. TypeOK
  BY <1>1, <1>2, ContentAssumption DEF Init, TypeOK, Untouched, Zero, Tables, Value
<1>4. \A t \in Tx : View(t) = Row0
  BY <1>1 DEF Init, View, Untouched, Tables
<1>5. BalanceInv
  <2> SUFFICES ASSUME NEW t \in Tx, NEW o \in Owners
               PROVE  Total(t, o) + Pending(todo[t], o) = Abstract!FromScratch(View(t), o)
    BY DEF BalanceInv
  <2>1. Total(t, o) = total[o] + 0 /\ todo[t] = <<>>
    BY DEF Init, Total, Zero
  <2>2. Pending(todo[t], o) = 0
    BY <2>1, Pendings
  <2> QED BY <1>2, <1>4, <2>1, <2>2
<1>6. OrderInv
  BY DEF Init, OrderInv
<1>7. ExactInv
  BY <1>2 DEF Init, ExactInv, Abstract!Exact
<1> QED BY <1>3, <1>5, <1>6, <1>7 DEF Init, IInv, NeverNegative

LEMMA StatementStep ==
  ASSUME IInv, NEW t \in Tx, NEW r \in Rows, NEW v \in Value, NEW actions,
         Actions(actions), Statement(t, r, v, actions),
         \A o \in Owners : Pending(actions, o) = Worth(v, o) - Worth(View(t)[r], o)
  PROVE  IInv'
<1>a. actions \in Seq(Action) /\ Len(actions) <= 2 /\ v # Same /\ v \in Content \cup {Absent}
  BY ContentAssumption DEF Actions, Value
<1>t. TypeOK
  BY DEF IInv
<1>1. TypeOK'
  <2>1. /\ row' \in [Rows -> Content \cup {Absent}] /\ total' \in [Owners -> Nat]
        /\ acc' \in [Tx -> [Owners -> Int]]
        /\ inst' \in [Tx -> [owner : Owners, column : Nat] \cup {None}]
        /\ rejected' \subseteq {"not null", "check"}
    BY <1>t DEF TypeOK, Statement
  <2>2. lock' \in [Rows \cup Owners -> Tx \cup {None}]
    BY <1>t DEF TypeOK, Statement
  <2>3. buf' \in [Tx -> [Rows -> Content \cup {Absent, Same}]]
    BY <1>a, <1>t DEF TypeOK, Statement
  <2>4. todo' \in [Tx -> Seq(Action)]
    BY <1>a, <1>t DEF TypeOK, Statement
  <2>5. ops' \in [Tx -> 0 .. MaxOps]
    <3>0. /\ ops \in [Tx -> 0 .. MaxOps] /\ ops[t] < MaxOps
          /\ ops' = [ops EXCEPT ![t] = @ + 1] /\ MaxOps \in Nat
      BY <1>t, ContentAssumption DEF TypeOK, Statement
    <3>1. ops[t] + 1 \in 0 .. MaxOps
      BY <3>0
    <3> QED BY <3>0, <3>1
  <2>6. ASSUME NEW u \in Tx, NEW q \in Rows, buf'[u][q] # Same
        PROVE  lock'[q] = u
    <3>1. CASE u = t /\ q = r
      BY <1>t, <3>1 DEF TypeOK, Statement
    <3>2. CASE ~(u = t /\ q = r)
      <4>1. buf[u][q] # Same
        BY <1>t, <2>6, <3>2 DEF TypeOK, Statement
      <4>2. lock[q] = u
        BY <1>t, <4>1 DEF TypeOK
      <4>3. q # r \/ u = t
        BY <4>2, ContentAssumption DEF Statement, Free
      <4> QED BY <1>t, <4>2, <4>3 DEF TypeOK, Statement
    <3> QED BY <3>1, <3>2
  <2>7. ASSUME NEW u \in Tx, NEW o \in Owners, acc'[u][o] # 0
        PROVE  lock'[o] = u
    BY <1>t, <2>7, ContentAssumption DEF TypeOK, Statement
  <2> QED BY <2>1, <2>2, <2>3, <2>4, <2>5, <2>6, <2>7 DEF TypeOK
<1>2. BalanceInv'
  <2>1. View(t)' = [View(t) EXCEPT ![r] = v]
    BY <1>a, <1>t DEF TypeOK, Statement, View
  <2>2. \A u \in Tx \ {t} : View(u)' = View(u) /\ todo'[u] = todo[u]
    BY <1>t DEF TypeOK, Statement, View
  <2>3. ASSUME NEW o \in Owners
        PROVE  Total(t, o)' + Pending(todo'[t], o) = Abstract!FromScratch(View(t)', o)
    <3>1. View(t) \in Tables
      BY <1>t, Views
    <3>2. View(t)[r] \in Value
      BY <3>1 DEF Tables
    <3>3. Abstract!FromScratch([View(t) EXCEPT ![r] = v], o) =
            Abstract!FromScratch(View(t), o) - Worth(View(t)[r], o) + Worth(v, o)
      BY <3>1, OneRow
    <3>4. Total(t, o)' = Total(t, o) /\ todo'[t] = actions /\ todo[t] = <<>>
      BY <1>t DEF TypeOK, Statement, Total
    <3>5. Total(t, o) = Abstract!FromScratch(View(t), o) /\ Total(t, o) \in Int
      BY <3>4, Balanced
    <3>6. Worth(v, o) \in Nat /\ Worth(View(t)[r], o) \in Nat
      BY <3>2, Worths
    <3> QED BY <2>1, <3>3, <3>4, <3>5, <3>6
  <2>4. ASSUME NEW u \in Tx \ {t}, NEW o \in Owners
        PROVE  Total(u, o)' + Pending(todo'[u], o) = Abstract!FromScratch(View(u)', o)
    <3>1. Total(u, o)' = Total(u, o)
      BY <1>t DEF TypeOK, Statement, Total
    <3> QED BY <2>2, <3>1, Balanced
  <2> QED BY <2>3, <2>4 DEF BalanceInv
<1>3. OrderInv'
  BY <1>a, <1>t DEF IInv, OrderInv, TypeOK, Statement, Actions
<1>4. ExactInv' /\ NeverNegative'
  BY DEF IInv, ExactInv, NeverNegative, Statement, Abstract!Exact
<1> QED BY <1>1, <1>2, <1>3, <1>4 DEF IInv

LEMMA InsertStep ==
  ASSUME IInv, NEW t \in Tx, Insert(t)
  PROVE  IInv'
<1>1. PICK r \in Rows, new \in Content :
        /\ View(t)[r] = Absent
        /\ Statement(t, r, new, Increment(new))
  BY DEF Insert
<1>2. Actions(Increment(new)) /\ \A o \in Owners : Pending(Increment(new), o) = Worth(new, o)
  BY Increments, FewActions
<1>3. \A o \in Owners : Pending(Increment(new), o) = Worth(new, o) - Worth(View(t)[r], o)
  <2> TAKE o \in Owners
  <2>1. Worth(View(t)[r], o) = 0 /\ Worth(new, o) \in Nat
    BY <1>1, Worths DEF Worth, Value
  <2> QED BY <1>2, <2>1
<1>4. new \in Value
  BY DEF Value
<1> QED BY <1>1, <1>2, <1>3, <1>4, StatementStep

LEMMA UpdateStep ==
  ASSUME IInv, NEW t \in Tx, Update(t)
  PROVE  IInv'
<1>1. PICK r \in Rows, new \in Content :
        /\ View(t)[r] \notin {Absent, new}
        /\ Statement(t, r, new, Increment(new) \o Decrement(View(t)[r]))
  BY DEF Update
<1>2. View(t)[r] \in Content /\ new \in Value
  BY <1>1, Views DEF IInv, Tables, Value
<1>3. /\ Actions(Increment(new) \o Decrement(View(t)[r]))
      /\ \A o \in Owners :
            Pending(Increment(new) \o Decrement(View(t)[r]), o) =
              Worth(new, o) - Worth(View(t)[r], o)
  BY <1>2, Moves
<1> QED BY <1>1, <1>2, <1>3, StatementStep

LEMMA DeleteStep ==
  ASSUME IInv, NEW t \in Tx, Delete(t)
  PROVE  IInv'
<1>1. PICK r \in Rows :
        /\ View(t)[r] # Absent
        /\ Statement(t, r, Absent, Decrement(View(t)[r]))
  BY DEF Delete
<1>2. View(t)[r] \in Content /\ Absent \in Value
  BY <1>1, Views DEF IInv, Tables, Value
<1>3. /\ Actions(Decrement(View(t)[r]))
      /\ \A o \in Owners : Pending(Decrement(View(t)[r]), o) = 0 - Worth(View(t)[r], o)
  BY <1>2, Decrements, FewActions
<1>4. \A o \in Owners : Worth(Absent, o) = 0
  BY DEF Worth
<1>5. \A o \in Owners :
        Pending(Decrement(View(t)[r]), o) = Worth(Absent, o) - Worth(View(t)[r], o)
  BY <1>3, <1>4
<1> QED BY <1>1, <1>2, <1>3, <1>5, StatementStep

(* The first queued action and the rest of the queue.                      *)
LEMMA Queue ==
  ASSUME IInv, NEW t \in Tx, todo[t] # <<>>
  PROVE  /\ Head(todo[t]) \in Action /\ Tail(todo[t]) \in Seq(Action)
         /\ Len(Tail(todo[t])) <= 1
         /\ \A o : /\ Pending(Tail(todo[t]), o) \in Int
                   /\ Pending(todo[t], o) =
                        Effect(Head(todo[t]), o) + Pending(Tail(todo[t]), o)
                   /\ Head(todo[t]).sign = -1 \/ Pending(Tail(todo[t]), o) <= 0
         /\ Head(todo[t]).sign = -1 => Tail(todo[t]) = <<>>
<1> DEFINE q == todo[t]
<1>1. q \in Seq(Action) /\ q # <<>>
  BY DEF IInv, TypeOK
<1>l. Len(q) <= 2
  BY DEF IInv, OrderInv
<1>s. Len(q) = 2 => q[1].sign = 1 /\ q[2].sign = -1
  BY DEF IInv, OrderInv
<1>e. \A s \in Seq(Action) : Len(s) \in Nat /\ (Len(s) = 0 <=> s = <<>>)
  <2> TAKE s \in Seq(Action)
  <2> QED BY EmptySeq, LenProperties
<1> HIDE DEF q
<1>2. /\ Head(q) = q[1] /\ Head(q) \in Action /\ Tail(q) \in Seq(Action)
      /\ Len(q) \in {1, 2} /\ Len(Tail(q)) = Len(q) - 1
      /\ Len(q) = 2 => q[2] \in Action /\ Tail(q)[1] = q[2]
  <2>1. /\ Head(q) = q[1] /\ Head(q) \in Action /\ Tail(q) \in Seq(Action)
        /\ Len(Tail(q)) = Len(q) - 1
        /\ \A i \in 1 .. Len(Tail(q)) : Tail(q)[i] = q[i + 1]
    BY <1>1, HeadTailProperties, Z3
  <2>2. Len(q) \in {1, 2}
    <3>1. Len(q) \in Nat /\ Len(q) # 0
      BY <1>1, <1>e
    <3> DEFINE n == Len(q)
    <3>2. n \in Nat /\ n # 0 /\ n <= 2
      BY <1>l, <3>1
    <3> HIDE DEF n
    <3>3. n \in {1, 2}
      BY <3>2
    <3> QED BY <3>3 DEF n
  <2>3. ASSUME Len(q) = 2
        PROVE  q[2] \in Action /\ Tail(q)[1] = q[2]
    <3>1. 2 \in 1 .. Len(q) /\ 1 \in 1 .. Len(Tail(q)) /\ 1 + 1 = 2
      BY <2>1, <2>3
    <3>2. q[2] \in Action
      BY <1>1, <3>1, ElementOfSeq, Z3
    <3> QED BY <2>1, <3>1, <3>2
  <2> QED BY <2>1, <2>2, <2>3
<1>3. CASE Len(q) = 1
  <2>1. Tail(q) = <<>>
    <3>1. Len(Tail(q)) = 0 /\ Tail(q) \in Seq(Action)
      BY <1>2, <1>3
    <3> QED BY <3>1, <1>e, Zenon
  <2>2. \A o : /\ Pending(Tail(q), o) = 0
               /\ Pending(q, o) = Effect(Head(q), o) + 0
    BY <1>1, <1>2, <1>3, <2>1, Effects, Pendings DEF Pending
  <2> QED BY <1>2, <1>3, <2>1, <2>2 DEF q
<1>4. CASE Len(q) = 2
  <2>1. Tail(q) # <<>> /\ Len(Tail(q)) = 1
    <3>1. Len(Tail(q)) = 1 /\ Tail(q) \in Seq(Action) /\ 1 # 0
      BY <1>2, <1>4
    <3> QED BY <3>1, <1>e, Zenon
  <2>2. \A o : /\ Effect(q[1], o) \in Int /\ Effect(q[2], o) \in Int
               /\ Effect(q[2], o) <= 0
    BY <1>s, <1>2, <1>4, Effects, Zenon
  <2>3. \A o : /\ Pending(Tail(q), o) = Effect(q[2], o)
               /\ Pending(q, o) = Effect(q[1], o) + Effect(q[2], o)
    BY <1>1, <1>2, <1>4, <2>1, <2>2 DEF Pending
  <2>4. Head(q).sign = 1 /\ Head(q).sign # -1 /\ Len(Tail(q)) <= 1
    <3>1. Head(q).sign = 1
      BY <1>s, <1>2, <1>4, Zenon
    <3>2. 1 # -1 /\ 1 <= 1
      OBVIOUS
    <3> QED BY <2>1, <3>1, <3>2, Zenon
  <2>5. \A o : /\ Pending(Tail(q), o) \in Int
               /\ Pending(q, o) = Effect(Head(q), o) + Pending(Tail(q), o)
               /\ Pending(Tail(q), o) <= 0
    <3> TAKE o
    <3> QED BY <1>2, <2>2, <2>3
  <2> QED BY <1>2, <2>4, <2>5 DEF q
<1> QED BY <1>2, <1>3, <1>4

(* Every table and every column of what a transaction sees is unchanged.   *)
LEMMA SameViews ==
  ASSUME IInv, TypeOK', OrderInv', NeverNegative', UNCHANGED <<row, total, buf>>,
         \A t \in Tx, o \in Owners :
            Total(t, o)' + Pending(todo'[t], o) = Total(t, o) + Pending(todo[t], o)
  PROVE  IInv'
<1>1. BalanceInv'
  <2> SUFFICES ASSUME NEW t \in Tx, NEW o \in Owners
               PROVE  Total(t, o)' + Pending(todo'[t], o) = Abstract!FromScratch(View(t)', o)
    BY DEF BalanceInv
  <2>1. View(t)' = View(t)
    BY DEF View
  <2> QED BY <2>1, Balanced
<1>2. ExactInv'
  BY DEF IInv, ExactInv, Abstract!Exact
<1> QED BY <1>1, <1>2 DEF IInv

LEMMA RunActionStep ==
  ASSUME IInv, NEW t \in Tx, RunAction(t)
  PROVE  IInv'
<1> DEFINE a == Head(todo[t])
<1>1. /\ todo[t] # <<>> /\ Free(t, a.owner) /\ Broken(t, a) = {}
      /\ lock' = [lock EXCEPT ![a.owner] = t]
      /\ acc' = [acc EXCEPT ![t][a.owner] = @ + a.sign * a.amount]
      /\ todo' = [todo EXCEPT ![t] = Tail(@)]
      /\ UNCHANGED <<row, total, buf, inst, ops, rejected>>
  BY DEF RunAction
<1>2. a \in Action /\ Tail(todo[t]) \in Seq(Action) /\ Len(Tail(todo[t])) <= 1
  BY <1>1, Queue
<1>p. \A o : /\ Pending(Tail(todo[t]), o) \in Int
             /\ Pending(todo[t], o) = Effect(a, o) + Pending(Tail(todo[t]), o)
  BY <1>1, Queue
<1> HIDE DEF a
<1>3. a.amount # Null /\ a.owner \in Owners
  BY <1>1, <1>2 DEF Broken, Action
<1>4. a.sign * a.amount \in Int
  BY <1>2, <1>3 DEF Action
<1>t. TypeOK
  BY DEF IInv
<1>a. acc \in [Tx -> [Owners -> Int]]
  BY <1>t DEF TypeOK
<1>5. /\ acc' \in [Tx -> [Owners -> Int]]
      /\ acc'[t][a.owner] = acc[t][a.owner] + a.sign * a.amount
      /\ \A u \in Tx, o \in Owners : u # t \/ o # a.owner => acc'[u][o] = acc[u][o]
  <2>1. acc[t][a.owner] + a.sign * a.amount \in Int
    BY <1>a, <1>3, <1>4
  <2> QED BY <1>a, <1>1, <1>3, <2>1
<1>6. /\ todo'[t] = Tail(todo[t]) /\ todo' \in [Tx -> Seq(Action)]
      /\ \A u \in Tx \ {t} : todo'[u] = todo[u]
  <2>1. todo \in [Tx -> Seq(Action)]
    BY <1>t DEF TypeOK
  <2> QED BY <1>1, <1>2, <2>1
<1>7. TypeOK'
  <2>1. /\ row' \in [Rows -> Content \cup {Absent}] /\ total' \in [Owners -> Nat]
        /\ buf' \in [Tx -> [Rows -> Content \cup {Absent, Same}]]
        /\ inst' \in [Tx -> [owner : Owners, column : Nat] \cup {None}]
        /\ ops' \in [Tx -> 0 .. MaxOps]
        /\ rejected' \subseteq {"not null", "check"}
    BY <1>1, <1>t DEF TypeOK
  <2>2. /\ lock \in [Rows \cup Owners -> Tx \cup {None}]
        /\ lock' \in [Rows \cup Owners -> Tx \cup {None}] /\ lock'[a.owner] = t
        /\ \A x \in Rows \cup Owners : x # a.owner => lock'[x] = lock[x]
    BY <1>1, <1>3, <1>t DEF TypeOK
  <2>3. ASSUME NEW u \in Tx, NEW r \in Rows, buf'[u][r] # Same
        PROVE  lock'[r] = u
    <3>1. lock[r] = u
      BY <1>1, <1>t, <2>3 DEF TypeOK
    <3>2. r # a.owner
      BY <1>3, ContentAssumption
    <3> QED BY <2>2, <3>1, <3>2
  <2>4. ASSUME NEW u \in Tx, NEW o \in Owners, acc'[u][o] # 0
        PROVE  lock'[o] = u
    <3>1. CASE u = t /\ o = a.owner
      BY <2>2, <3>1
    <3>2. CASE ~(u = t /\ o = a.owner)
      <4>0. acc[u][o] # 0
        BY <1>5, <2>4, <3>2
      <4>1. lock[o] = u
        BY <1>t, <4>0 DEF TypeOK
      <4>2. o # a.owner
        BY <1>1, <3>2, <4>1, ContentAssumption DEF Free
      <4> QED BY <2>2, <4>1, <4>2
    <3> QED BY <3>1, <3>2
  <2> QED BY <1>5, <1>6, <2>1, <2>2, <2>3, <2>4 DEF TypeOK
<1>8. OrderInv'
  <2> SUFFICES ASSUME NEW u \in Tx
               PROVE  /\ Len(todo'[u]) <= 2
                      /\ Len(todo'[u]) = 2 =>
                            todo'[u][1].sign = 1 /\ todo'[u][2].sign = -1
    BY DEF OrderInv
  <2>1. CASE u = t
    <3>1. Len(todo'[u]) <= 1 /\ Len(todo'[u]) \in Nat
      <4>1. Len(Tail(todo[t])) \in Nat
        BY <1>2, LenProperties
      <4> QED BY <1>2, <1>6, <2>1, <4>1
    <3>2. Len(todo'[u]) <= 2 /\ Len(todo'[u]) # 2
      BY <3>1
    <3> QED BY <3>2
  <2>2. CASE u # t
    BY <1>6, <2>2 DEF IInv, OrderInv
  <2> QED BY <2>1, <2>2
<1>9. NeverNegative'
  BY <1>1 DEF IInv, NeverNegative
<1>10. ASSUME NEW u \in Tx, NEW o \in Owners
       PROVE  Total(u, o)' + Pending(todo'[u], o) = Total(u, o) + Pending(todo[u], o)
  <2>1. /\ Total(u, o)' = total[o] + acc'[u][o] /\ Total(u, o) = total[o] + acc[u][o]
        /\ total[o] \in Nat /\ acc[u][o] \in Int
    BY <1>1, Balanced DEF Total
  <2>2. CASE u = t /\ o = a.owner
    <3>1. Effect(a, o) = a.sign * a.amount
      BY <1>2, <1>3, <2>2, Effects
    <3>2. acc'[u][o] = acc[u][o] + Effect(a, o) /\ Effect(a, o) \in Int
      BY <1>4, <1>5, <2>2, <3>1
    <3>3. /\ Pending(todo'[u], o) \in Int
          /\ Pending(todo[u], o) = Effect(a, o) + Pending(todo'[u], o)
      BY <1>p, <1>6, <2>2
    <3> QED BY <2>1, <3>2, <3>3
  <2>3. CASE u = t /\ o # a.owner
    <3>1. Effect(a, o) = 0 /\ acc'[u][o] = acc[u][o]
      BY <1>5, <2>3 DEF Effect
    <3>2. /\ Pending(todo'[u], o) \in Int
          /\ Pending(todo[u], o) = 0 + Pending(todo'[u], o)
      BY <1>p, <1>6, <2>3, <3>1
    <3> QED BY <2>1, <3>1, <3>2
  <2>4. CASE u # t
    BY <1>5, <1>6, <2>1, <2>4
  <2> QED BY <2>2, <2>3, <2>4
<1> QED BY <1>1, <1>7, <1>8, <1>9, <1>10, SameViews

LEMMA LoadStep ==
  ASSUME IInv, NEW t \in Tx, Load(t)
  PROVE  IInv'
<1>1. PICK o \in Owners : inst' = [inst EXCEPT ![t] = [owner |-> o, column |-> Total(t, o)]]
  BY DEF Load
<1>2. todo[t] = <<>> /\ UNCHANGED <<row, total, lock, buf, acc, todo, ops, rejected>>
  BY DEF Load, txVars
<1>t. TypeOK
  BY DEF IInv
<1>3. Total(t, o) \in Nat
  BY <1>2, Balanced
<1>4. inst' \in [Tx -> [owner : Owners, column : Nat] \cup {None}]
  <2>1. inst \in [Tx -> [owner : Owners, column : Nat] \cup {None}]
    BY <1>t DEF TypeOK
  <2>2. [owner |-> o, column |-> Total(t, o)] \in [owner : Owners, column : Nat]
    BY <1>3
  <2> QED BY <1>1, <2>1, <2>2
<1>5. TypeOK'
  BY <1>2, <1>4, <1>t DEF TypeOK
<1>6. OrderInv' /\ NeverNegative'
  BY <1>2 DEF IInv, OrderInv, NeverNegative
<1>7. \A u \in Tx, p \in Owners :
        Total(u, p)' + Pending(todo'[u], p) = Total(u, p) + Pending(todo[u], p)
  BY <1>2 DEF Total
<1> QED BY <1>2, <1>5, <1>6, <1>7, SameViews

LEMMA SaveStep ==
  ASSUME IInv, NEW t \in Tx, Save(t)
  PROVE  IInv'
<1> DEFINE o == inst[t].owner
<1>1. /\ inst[t] # None /\ todo[t] = <<>> /\ ops[t] < MaxOps
      /\ ops' = [ops EXCEPT ![t] = @ + 1]
      /\ Free(t, o)
      /\ lock' = [lock EXCEPT ![o] = t]
      /\ acc' = [acc EXCEPT ![t][o] = Saved(t, o) - total[o]]
      /\ inst' = [inst EXCEPT ![t] = None]
      /\ UNCHANGED <<row, total, buf, todo, rejected>>
  BY DEF Save
<1>t. TypeOK
  BY DEF IInv
<1>2. o \in Owners
  <2>1. inst[t] \in [owner : Owners, column : Nat]
    BY <1>1, <1>t DEF TypeOK
  <2> QED BY <2>1
<1> HIDE DEF o
<1>3. Saved(t, o) - total[o] = acc[t][o]
  BY <1>2, Balanced DEF Saved
<1>4. acc' = acc
  <2>1. acc \in [Tx -> [Owners -> Int]]
    BY <1>t DEF TypeOK
  <2> QED BY <1>1, <1>2, <1>3, <2>1
<1>5. TypeOK'
  <2>1. /\ row' \in [Rows -> Content \cup {Absent}] /\ total' \in [Owners -> Nat]
        /\ buf' \in [Tx -> [Rows -> Content \cup {Absent, Same}]]
        /\ acc' \in [Tx -> [Owners -> Int]] /\ todo' \in [Tx -> Seq(Action)]
        /\ inst' \in [Tx -> [owner : Owners, column : Nat] \cup {None}]
        /\ rejected' \subseteq {"not null", "check"}
    BY <1>1, <1>4, <1>t DEF TypeOK
  <2>2. ops' \in [Tx -> 0 .. MaxOps]
    <3>1. ops \in [Tx -> 0 .. MaxOps] /\ MaxOps \in Nat
      BY <1>t, ContentAssumption DEF TypeOK
    <3>2. ops[t] + 1 \in 0 .. MaxOps
      BY <1>1, <3>1
    <3> QED BY <1>1, <3>1, <3>2
  <2>3. /\ lock' \in [Rows \cup Owners -> Tx \cup {None}] /\ lock'[o] = t
        /\ \A x \in Rows \cup Owners : x # o => lock'[x] = lock[x]
    BY <1>1, <1>2, <1>t DEF TypeOK
  <2>4. ASSUME NEW u \in Tx, NEW r \in Rows, buf'[u][r] # Same
        PROVE  lock'[r] = u
    <3>1. lock[r] = u
      BY <1>1, <1>t, <2>4 DEF TypeOK
    <3>2. r # o
      BY <1>2, ContentAssumption
    <3> QED BY <2>3, <3>1, <3>2
  <2>5. ASSUME NEW u \in Tx, NEW p \in Owners, acc'[u][p] # 0
        PROVE  lock'[p] = u
    <3>1. lock[p] = u
      BY <1>4, <1>t, <2>5 DEF TypeOK
    <3>2. p # o \/ u = t
      BY <1>1, <3>1, ContentAssumption DEF Free
    <3> QED BY <2>3, <3>1, <3>2
  <2> QED BY <2>1, <2>2, <2>3, <2>4, <2>5 DEF TypeOK
<1>6. OrderInv' /\ NeverNegative'
  BY <1>1 DEF IInv, OrderInv, NeverNegative
<1>7. \A u \in Tx, p \in Owners :
        Total(u, p)' + Pending(todo'[u], p) = Total(u, p) + Pending(todo[u], p)
  BY <1>1, <1>4 DEF Total
<1> QED BY <1>1, <1>5, <1>6, <1>7, SameViews

LEMMA Beginnings ==
  /\ Zero \in [Owners -> Int]
  /\ Len(<<>>) <= 2 /\ Len(<<>>) # 2
BY DEF Zero

LEMMA Sums ==
  ASSUME NEW n \in Nat
  PROVE  (n + 0) + 0 = n
OBVIOUS

(* The end of a transaction releases what is its own.                      *)
LEMMA EndKeepsTypes ==
  ASSUME IInv, NEW t \in Tx, End(t), UNCHANGED <<inst, ops>>,
         row' \in Tables, total' \in [Owners -> Nat],
         rejected' \subseteq {"not null", "check"}
  PROVE  /\ TypeOK' /\ OrderInv'
         /\ buf'[t] = Untouched /\ acc'[t] = Zero /\ todo'[t] = <<>>
         /\ \A u \in Tx \ {t} : buf'[u] = buf[u] /\ acc'[u] = acc[u] /\ todo'[u] = todo[u]
<1>t. TypeOK
  BY DEF IInv
<1>1. /\ buf \in [Tx -> [Rows -> Content \cup {Absent, Same}]]
      /\ acc \in [Tx -> [Owners -> Int]]
      /\ todo \in [Tx -> Seq(Action)]
      /\ lock \in [Rows \cup Owners -> Tx \cup {None}]
  BY <1>t DEF TypeOK
<1>2. /\ buf' \in [Tx -> [Rows -> Content \cup {Absent, Same}]] /\ buf'[t] = Untouched
      /\ \A u \in Tx \ {t} : buf'[u] = buf[u]
  <2>1. Untouched \in [Rows -> Content \cup {Absent, Same}]
    BY DEF Untouched
  <2> QED BY <1>1, <2>1 DEF End
<1>3. /\ acc' \in [Tx -> [Owners -> Int]] /\ acc'[t] = Zero
      /\ \A u \in Tx \ {t} : acc'[u] = acc[u]
  <2>1. Zero \in [Owners -> Int]
    BY Beginnings
  <2> QED BY <1>1, <2>1 DEF End
<1>4. /\ todo' \in [Tx -> Seq(Action)] /\ todo'[t] = <<>>
      /\ \A u \in Tx \ {t} : todo'[u] = todo[u]
  <2>1. <<>> \in Seq(Action)
    BY EmptySeq
  <2> QED BY <1>1, <2>1 DEF End
<1>5. /\ lock' \in [Rows \cup Owners -> Tx \cup {None}]
      /\ \A x \in Rows \cup Owners : lock[x] # t => lock'[x] = lock[x]
  BY <1>1 DEF End
<1>6. ASSUME NEW u \in Tx, NEW r \in Rows, buf'[u][r] # Same
      PROVE  lock'[r] = u
  <2>1. u # t
    BY <1>2, <1>6 DEF Untouched
  <2>2. buf[u][r] # Same
    BY <1>2, <1>6, <2>1
  <2>3. lock[r] = u
    BY <1>t, <2>2 DEF TypeOK
  <2> QED BY <1>5, <2>1, <2>3
<1>7. ASSUME NEW u \in Tx, NEW o \in Owners, acc'[u][o] # 0
      PROVE  lock'[o] = u
  <2>1. u # t
    BY <1>3, <1>7 DEF Zero
  <2>2. acc[u][o] # 0
    BY <1>3, <1>7, <2>1
  <2>3. lock[o] = u
    BY <1>t, <2>2 DEF TypeOK
  <2> QED BY <1>5, <2>1, <2>3
<1>8. TypeOK'
  <2>1. /\ inst' \in [Tx -> [owner : Owners, column : Nat] \cup {None}]
        /\ ops' \in [Tx -> 0 .. MaxOps]
    BY <1>t DEF TypeOK
  <2> QED BY <1>2, <1>3, <1>4, <1>5, <1>6, <1>7, <2>1 DEF TypeOK, Tables, Value
<1>9. OrderInv'
  <2>1. Len(<<>>) <= 2 /\ Len(<<>>) # 2
    BY Beginnings
  <2> QED BY <1>4, <2>1 DEF IInv, OrderInv
<1> QED BY <1>2, <1>3, <1>4, <1>8, <1>9

(* An abort takes back the rows and the columns together.                  *)
LEMMA BackStep ==
  ASSUME IInv, NEW t \in Tx, End(t), UNCHANGED <<row, total, inst, ops>>,
         rejected' \subseteq {"not null", "check"}, NeverNegative'
  PROVE  IInv'
<1>1. row' \in Tables /\ total' \in [Owners -> Nat]
  BY DEF IInv, TypeOK, Tables, Value
<1>2. /\ TypeOK' /\ OrderInv'
      /\ buf'[t] = Untouched /\ acc'[t] = Zero /\ todo'[t] = <<>>
      /\ \A u \in Tx \ {t} : buf'[u] = buf[u] /\ acc'[u] = acc[u] /\ todo'[u] = todo[u]
  BY <1>1, EndKeepsTypes
<1>3. BalanceInv'
  <2>1. ASSUME NEW o \in Owners
        PROVE  Total(t, o)' + Pending(todo'[t], o) = Abstract!FromScratch(View(t)', o)
    <3>1. View(t)' = row
      <4>1. row \in [Rows -> Value]
        BY <1>1 DEF Tables
      <4>2. \A r \in Rows : buf'[t][r] = Same
        BY <1>2 DEF Untouched
      <4> QED BY <4>1, <4>2 DEF View
    <3>2. Total(t, o)' = total[o] + 0 /\ Pending(todo'[t], o) = 0
      BY <1>2, Pendings DEF Total, Zero
    <3>3. total[o] \in Nat /\ total[o] = Abstract!FromScratch(row, o)
      BY Balanced
    <3>4. Total(t, o)' + Pending(todo'[t], o) = (total[o] + 0) + 0
      BY <3>2, Zenon
    <3>5. (total[o] + 0) + 0 = total[o]
      BY <3>3, Sums
    <3> QED BY <3>1, <3>3, <3>4, <3>5, Zenon
  <2>2. ASSUME NEW u \in Tx \ {t}, NEW o \in Owners
        PROVE  Total(u, o)' + Pending(todo'[u], o) = Abstract!FromScratch(View(u)', o)
    <3>1. View(u)' = View(u) /\ Total(u, o)' = Total(u, o) /\ todo'[u] = todo[u]
      BY <1>2 DEF View, Total
    <3> QED BY <3>1, Balanced
  <2> QED BY <2>1, <2>2 DEF BalanceInv
<1>4. ExactInv'
  BY DEF IInv, ExactInv, Abstract!Exact
<1> QED BY <1>2, <1>3, <1>4 DEF IInv

LEMMA AbortStep ==
  ASSUME IInv, NEW t \in Tx, Abort(t)
  PROVE  IInv'
<1>1. End(t) /\ UNCHANGED <<row, total, inst, ops, rejected>>
  BY DEF Abort
<1>2. rejected' \subseteq {"not null", "check"} /\ NeverNegative'
  BY <1>1 DEF IInv, TypeOK, NeverNegative
<1> QED BY <1>1, <1>2, BackStep

(* What a trigger refuses is never too small a column: if the action is    *)
(* the last of the queue, the column it leads to is that of the rows; if   *)
(* another one follows, that one only subtracts.                           *)
LEMMA RejectStep ==
  ASSUME IInv, NEW t \in Tx, Reject(t)
  PROVE  IInv'
<1> DEFINE a == Head(todo[t])
           o == a.owner
<1>1. /\ todo[t] # <<>> /\ rejected' = rejected \cup Broken(t, a)
      /\ End(t) /\ UNCHANGED <<row, total, inst, ops>>
  BY DEF Reject
<1>2. "check" \notin Broken(t, a)
  <2> SUFFICES ASSUME a.amount # Null
               PROVE  ~(Total(t, o) + a.sign * a.amount < 0)
    BY DEF Broken
  <2>1. a \in Action
    BY <1>1, Queue
  <2>2. /\ Pending(Tail(todo[t]), o) \in Int
        /\ Pending(todo[t], o) = Effect(a, o) + Pending(Tail(todo[t]), o)
        /\ a.sign = -1 \/ Pending(Tail(todo[t]), o) <= 0
        /\ a.sign = -1 => Tail(todo[t]) = <<>>
    BY <1>1, Queue
  <2> HIDE DEF a
  <2>3. o \in Owners
    BY <2>1 DEF Action
  <2>4. Effect(a, o) = a.sign * a.amount /\ Effect(a, o) \in Int
    BY <2>1, Effects
  <2>5. Pending(Tail(todo[t]), o) <= 0
    <3>1. CASE a.sign = -1
      <4>1. Pending(Tail(todo[t]), o) = 0
        BY <2>2, <3>1, Pendings
      <4> QED BY <4>1
    <3>2. CASE a.sign # -1
      BY <2>2, <3>2
    <3> QED BY <3>1, <3>2
  <2> HIDE DEF o
  <2>6. /\ Total(t, o) + Pending(todo[t], o) = Abstract!FromScratch(View(t), o)
        /\ Abstract!FromScratch(View(t), o) \in Nat
        /\ total[o] \in Nat /\ acc[t][o] \in Int /\ Total(t, o) = total[o] + acc[t][o]
    BY <2>3, Balanced
  <2>7. Total(t, o) \in Int
    BY <2>6
  <2>8. Total(t, o) + (Effect(a, o) + Pending(Tail(todo[t]), o)) >= 0
    BY <2>2, <2>6
  <2>9. ~(Total(t, o) + Effect(a, o) < 0)
    BY <2>2, <2>4, <2>5, <2>7, <2>8
  <2> QED BY <2>4, <2>9
<1>3. rejected' \subseteq {"not null", "check"} /\ NeverNegative'
  <2>1. Broken(t, a) \subseteq {"not null", "check"}
    BY DEF Broken
  <2> HIDE DEF a
  <2> QED BY <1>1, <1>2, <2>1 DEF IInv, TypeOK, NeverNegative
<1> QED BY <1>1, <1>3, BackStep

(* The rows of two transactions are disjoint: what one commits and what    *)
(* the other has added make up both changes.                               *)
LEMMA CommitStep ==
  ASSUME IInv, NEW t \in Tx, Commit(t)
  PROVE  IInv'
<1>1. /\ todo[t] = <<>> /\ row' = View(t) /\ total' = [o \in Owners |-> Total(t, o)]
      /\ End(t) /\ UNCHANGED <<inst, ops, rejected>>
  BY DEF Commit
<1>2. View(t) \in Tables /\ row \in Tables
  BY Views DEF IInv, TypeOK, Tables, Value
<1>3. \A o \in Owners : /\ total'[o] = Total(t, o)
                        /\ total'[o] = Abstract!FromScratch(row', o)
                        /\ total'[o] \in Nat
  <2> TAKE o \in Owners
  <2>1. total'[o] = Total(t, o)
    BY <1>1
  <2>2. /\ Total(t, o) = Abstract!FromScratch(View(t), o)
        /\ Abstract!FromScratch(View(t), o) \in Nat
    BY <1>1, Balanced
  <2> QED BY <1>1, <2>1, <2>2
<1>4. total' \in [Owners -> Nat] /\ row' \in Tables
  BY <1>1, <1>2, <1>3
<1>5. rejected' \subseteq {"not null", "check"} /\ NeverNegative'
  BY <1>1 DEF IInv, TypeOK, NeverNegative
<1>6. /\ TypeOK' /\ OrderInv'
      /\ buf'[t] = Untouched /\ acc'[t] = Zero /\ todo'[t] = <<>>
      /\ \A u \in Tx \ {t} : buf'[u] = buf[u] /\ acc'[u] = acc[u] /\ todo'[u] = todo[u]
  BY <1>1, <1>4, <1>5, EndKeepsTypes
<1>7. BalanceInv'
  <2>1. ASSUME NEW o \in Owners
        PROVE  Total(t, o)' + Pending(todo'[t], o) = Abstract!FromScratch(View(t)', o)
    <3>1. View(t)' = row'
      <4>1. \A r \in Rows : buf'[t][r] = Same
        BY <1>6 DEF Untouched
      <4>2. row' \in [Rows -> Value]
        BY <1>4 DEF Tables
      <4> QED BY <4>1, <4>2 DEF View
    <3>2. Total(t, o)' = total'[o] + 0 /\ Pending(todo'[t], o) = 0
      BY <1>6, Pendings DEF Total, Zero
    <3>3. Total(t, o)' + Pending(todo'[t], o) = (total'[o] + 0) + 0
      BY <3>2, Zenon
    <3>4. (total'[o] + 0) + 0 = total'[o]
      BY <1>3, Sums
    <3> QED BY <1>3, <3>1, <3>3, <3>4, Zenon
  <2>2. ASSUME NEW u \in Tx \ {t}, NEW o \in Owners
        PROVE  Total(u, o)' + Pending(todo'[u], o) = Abstract!FromScratch(View(u)', o)
    <3> DEFINE W == {r \in Rows : buf[t][r] # Same}
               N == View(u)'
    <3>1. View(u) \in Tables
      BY Views DEF IInv
    <3>2. TypeOK' /\ u \in Tx
      BY <1>6
    <3>3. N \in Tables
      BY <1>4, <1>6, <3>1 DEF View, Tables, IInv, TypeOK, Value
    <3>4. \A r \in Rows \cap W : N[r] = View(t)[r] /\ View(u)[r] = row[r]
      <4> TAKE r \in Rows \cap W
      <4>1. lock[r] = t
        BY DEF IInv, TypeOK
      <4>2. buf[u][r] = Same
        BY <4>1 DEF IInv, TypeOK
      <4> QED BY <1>1, <1>6, <4>2 DEF View
    <3>5. \A r \in Rows \ W : N[r] = View(u)[r] /\ View(t)[r] = row[r]
      <4> TAKE r \in Rows \ W
      <4>1. View(t)[r] = row[r] /\ row'[r] = row[r]
        BY <1>1 DEF View
      <4> QED BY <1>6, <4>1 DEF View
    <3> HIDE DEF W, N
    <3>6. Abstract!FromScratch(N, o) + Abstract!FromScratch(row, o) =
            Abstract!FromScratch(View(t), o) + Abstract!FromScratch(View(u), o)
      <4> DEFINE A == View(t)
                 U == View(u)
      <4>1. /\ row \in Tables /\ A \in Tables /\ U \in Tables /\ N \in Tables
            /\ Joined(row, A, U, N, W)
        BY <1>2, <3>1, <3>3, <3>4, <3>5 DEF Joined
      <4> HIDE DEF A, U
      <4>2. Additive(row, A, U, N, o)
        BY <4>1, Apart, Zenon
      <4> QED BY <4>2 DEF A, U, Additive
    <3>7. Abstract!FromScratch(N, o) \in Nat
      BY <3>3, UnitsFinite
    <3>8. /\ total[o] \in Nat /\ acc[t][o] \in Int /\ acc[u][o] \in Int
          /\ Abstract!FromScratch(row, o) = total[o]
          /\ Abstract!FromScratch(View(t), o) = total[o] + acc[t][o]
          /\ Abstract!FromScratch(View(u), o) =
                total[o] + acc[u][o] + Pending(todo[u], o)
          /\ Abstract!FromScratch(View(u), o) \in Nat
      BY <1>1, Balanced
    <3>9. /\ Total(u, o)' = total'[o] + acc[u][o]
          /\ total'[o] = total[o] + acc[t][o]
          /\ todo'[u] = todo[u]
      BY <1>3, <1>6, Balanced DEF Total
    <3>10. Pending(todo[u], o) \in Int
      BY PendingType DEF IInv, TypeOK
    <3>11. (total[o] + acc[t][o] + acc[u][o]) + Pending(todo[u], o) =
              Abstract!FromScratch(N, o)
      BY <3>6, <3>7, <3>8, <3>10
    <3> QED BY <3>9, <3>11 DEF N
  <2> QED BY <2>1, <2>2 DEF BalanceInv
<1>8. ExactInv'
  BY <1>3 DEF ExactInv, Abstract!Exact
<1> QED BY <1>5, <1>6, <1>7, <1>8 DEF IInv

-----------------------------------------------------------------------------
LEMMA IInvStep == IInv /\ [Next]_vars => IInv'
<1> SUFFICES ASSUME IInv, [Next]_vars PROVE IInv'
  OBVIOUS
<1>1. ASSUME NEW t \in Tx,
             \/ Insert(t) \/ Update(t) \/ Delete(t) \/ RunAction(t)
             \/ Load(t) \/ Save(t) \/ Commit(t) \/ Abort(t) \/ Reject(t)
      PROVE  IInv'
  <2>1. CASE Insert(t)
    BY <2>1, InsertStep
  <2>2. CASE Update(t)
    BY <2>2, UpdateStep
  <2>3. CASE Delete(t)
    BY <2>3, DeleteStep
  <2>4. CASE RunAction(t)
    BY <2>4, RunActionStep
  <2>5. CASE Load(t)
    BY <2>5, LoadStep
  <2>6. CASE Save(t)
    BY <2>6, SaveStep
  <2>7. CASE Commit(t)
    BY <2>7, CommitStep
  <2>8. CASE Abort(t)
    BY <2>8, AbortStep
  <2>9. CASE Reject(t)
    BY <2>9, RejectStep
  <2> QED BY <1>1, <2>1, <2>2, <2>3, <2>4, <2>5, <2>6, <2>7, <2>8, <2>9
<1>2. CASE UNCHANGED vars
  <2>1. UNCHANGED <<row, total, buf, lock, acc, todo, inst, ops, rejected>>
    BY <1>2 DEF vars
  <2>2. TypeOK' /\ OrderInv' /\ NeverNegative'
    BY <2>1 DEF IInv, TypeOK, OrderInv, NeverNegative
  <2>3. \A t \in Tx, o \in Owners :
          Total(t, o)' + Pending(todo'[t], o) = Total(t, o) + Pending(todo[t], o)
    BY <2>1 DEF Total
  <2> QED BY <2>1, <2>2, <2>3, SameViews
<1> QED BY <1>1, <1>2 DEF Next

(* In every state, the column a transaction sees and what its triggers     *)
(* still have to add make up the aggregate of the rows it sees, and the    *)
(* committed columns are those of the committed rows                       *)
(* (denorms/aggregate.py:271-374).                                         *)
THEOREM AggregateInvariant == Spec => []IInv
BY InitIInv, IInvStep, PTL DEF Spec

(* Types, and that only the transaction that holds a lock has written the  *)
(* row or added to the column (denorms/aggregate.py:271-374).              *)
THEOREM AggregateTypeCorrect == Spec => []TypeOK
<1>1. IInv => TypeOK
  BY DEF IInv
<1> QED BY <1>1, AggregateInvariant, PTL

(* The triggers implement the materialized aggregate: every committed      *)
(* column equals the aggregate computed from scratch, after any number of  *)
(* concurrent statements, commits, aborts and saves of an owner loaded     *)
(* earlier (fields.py:303-317, denorms/aggregate.py:396-407).              *)
THEOREM ColumnsStayExact == Spec => AlwaysExact
<1>1. IInv => Abstract!Init
  BY DEF IInv, TypeOK, ExactInv, Abstract!Init, Tables, Value
<1>2. IInv' => [Abstract!Next]_<<row, total>>
  <2> SUFFICES ASSUME IInv' PROVE Abstract!Next
    OBVIOUS
  <2>1. row' \in [Rows -> Content \cup {Absent}]
    BY DEF IInv, TypeOK
  <2>2. Abstract!Exact(row', total')
    BY DEF IInv, ExactInv
  <2> QED BY <2>1, <2>2 DEF Abstract!Next
<1> QED BY <1>1, <1>2, AggregateInvariant, PTL DEF AlwaysExact, Abstract!Spec

(* The CHECK of a PositiveIntegerField never refuses a trigger's UPDATE:   *)
(* a decrement finds what it takes, also between the two actions of a row  *)
(* that moves (fields.py:255, denorms/aggregate.py:271-374).               *)
THEOREM DecrementsFit == Spec => []NeverNegative
<1>1. IInv => NeverNegative
  BY DEF IInv
<1> QED BY <1>1, AggregateInvariant, PTL
=============================================================================
