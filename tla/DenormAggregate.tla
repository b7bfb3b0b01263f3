-------------------------- MODULE DenormAggregate --------------------------
(***************************************************************************)
(* CountField and SumField over a foreign key: AFTER triggers of the       *)
(* related table add to and subtract from the column of the owner, inside  *)
(* the transaction that changes the related rows (denorms/aggregate.py,    *)
(* fields.py: AggregateField).  Several transactions run at once on        *)
(* PostgreSQL READ COMMITTED; an UPDATE of a row locks it and reads its    *)
(* latest committed version.                                               *)
(***************************************************************************)
EXTENDS Integers, Sequences, FiniteSets

CONSTANTS
    Tx,         \* connections
    Rows,       \* rows of the related model
    Owners,     \* rows of the model that has the aggregate column
    Content,    \* what a related row may hold
    Row0,       \* the related rows to begin with
    Absent,     \* a row that is not there
    Same,       \* a row a transaction has not written
    Null,       \* SQL NULL
    None,       \* nobody, nothing
    MaxOps      \* bound: statements of each connection

(* Of a row the triggers look at the foreign key, at whether it passes     *)
(* filter and exclude, and at the summed column (1 for a CountField).  The *)
(* triggers watch all of these: they are not in "skip".                    *)
ASSUME ContentAssumption ==
    /\ IsFiniteSet(Rows)
    /\ Content \subseteq
         [parent : Owners \cup {None}, passes : BOOLEAN, amount : Nat \cup {Null}]
    /\ Row0 \in [Rows -> Content \cup {Absent}]
    /\ Rows \cap Owners = {}
    /\ {Absent, Same} \cap Content = {} /\ Absent # Same
    /\ None \notin Tx \cup Owners
    /\ Null \notin Int
    /\ MaxOps \in Nat

VARIABLES
    row,        \* committed related rows
    total,      \* committed aggregate columns
    lock,       \* row locks, of related rows and of owners
    buf,        \* related rows a transaction has written
    acc,        \* what it has added to each aggregate column
    todo,       \* actions of the last statement's triggers, still to run
    inst,       \* the in-memory owner a connection has loaded
    ops,        \* statements run
    rejected    \* history: constraints that trigger UPDATEs have broken

vars == <<row, total, lock, buf, acc, todo, inst, ops, rejected>>
txVars == <<buf, acc, todo>>

Untouched == [r \in Rows |-> Same]
Zero == [o \in Owners |-> 0]

Abstract == INSTANCE MaterializedAggregate WITH
    Rows <- Rows,
    Owners <- Owners,
    Content <- Content,
    Absent <- Absent,
    Null <- Null,
    row <- row,
    total <- total

View(t) == [r \in Rows |-> IF buf[t][r] = Same THEN row[r] ELSE buf[t][r]]

Total(t, o) == total[o] + acc[t][o]

Init ==
    /\ row = Row0
    /\ total = [o \in Owners |-> Abstract!FromScratch(Row0, o)]
    /\ lock = [x \in Rows \cup Owners |-> None]
    /\ buf = [t \in Tx |-> Untouched]
    /\ acc = [t \in Tx |-> Zero]
    /\ todo = [t \in Tx |-> <<>>]
    /\ inst = [t \in Tx |-> None]
    /\ ops = [t \in Tx |-> 0]
    /\ rejected = {}

-----------------------------------------------------------------------------
(* Trigger actions: UPDATE owner SET column = column + amount              *)
(* WHERE id = NEW.fk AND filter(NEW), and the same with - and OLD.         *)

DecrementAny(old) ==
    IF old.parent = None THEN <<>>
    ELSE <<[owner |-> old.parent, sign |-> -1, amount |-> old.amount]>>

Increment(new) ==
    IF new.parent = None \/ ~new.passes THEN <<>>
    ELSE <<[owner |-> new.parent, sign |-> 1, amount |-> new.amount]>>

Decrement(old) ==
    IF old.parent = None \/ ~old.passes THEN <<>>
    ELSE <<[owner |-> old.parent, sign |-> -1, amount |-> old.amount]>>

Unlocked(t, x) == lock[x] = lock[x]
Free(t, x) == lock[x] \in {None, t}

(* A statement on row r turns it into v and queues the trigger's actions.  *)
Statement(t, r, v, actions) ==
    /\ todo[t] = <<>>
    /\ ops[t] < MaxOps
    /\ ops' = [ops EXCEPT ![t] = @ + 1]
    /\ Free(t, r)
    /\ lock' = [lock EXCEPT ![r] = t]
    /\ buf' = [buf EXCEPT ![t][r] = v]
    /\ todo' = [todo EXCEPT ![t] = actions]
    /\ UNCHANGED <<row, total, acc, inst, rejected>>

Insert(t) ==
    \E r \in Rows, new \in Content :
        /\ View(t)[r] = Absent
        /\ Statement(t, r, new, Increment(new))

(* The WHEN clause: nothing fires unless a watched column changes.         *)
Update(t) ==
    \E r \in Rows, new \in Content :
        LET old == View(t)[r]
        IN  /\ old \notin {Absent, new}
            /\ Statement(t, r, new, Increment(new) \o Decrement(old))

Delete(t) ==
    \E r \in Rows :
        LET old == View(t)[r]
        IN  /\ old # Absent
            /\ Statement(t, r, Absent, Decrement(old))

(* PositiveIntegerField: NOT NULL, CHECK (column >= 0).                    *)
Broken(t, a) ==
    IF a.amount = Null THEN {"not null"}
    ELSE IF Total(t, a.owner) + a.sign * a.amount < 0 THEN {"check"}
    ELSE {}

RunAction(t) ==
    /\ todo[t] # <<>>
    /\ LET a == Head(todo[t])
       IN  /\ Free(t, a.owner)
           /\ Broken(t, a) = {}
           /\ lock' = [lock EXCEPT ![a.owner] = t]
           /\ acc' = [acc EXCEPT ![t][a.owner] = @ + a.sign * a.amount]
    /\ todo' = [todo EXCEPT ![t] = Tail(@)]
    /\ UNCHANGED <<row, total, buf, inst, ops, rejected>>

-----------------------------------------------------------------------------
(* The ORM saves an owner: an application's save(), or flush_single's.     *)

Load(t) ==
    /\ inst[t] = None
    /\ todo[t] = <<>>
    /\ ops[t] < MaxOps
    /\ \E o \in Owners :
        inst' = [inst EXCEPT ![t] = [owner |-> o, column |-> Total(t, o)]]
    /\ UNCHANGED <<row, total, lock, txVars, ops, rejected>>

(* AggregateField.pre_save: F(column), resolved inside the UPDATE.         *)
Snapshot(t, o) == inst[t].column
Saved(t, o) == Total(t, o)

Save(t) ==
    /\ inst[t] # None
    /\ todo[t] = <<>>
    /\ ops[t] < MaxOps
    /\ ops' = [ops EXCEPT ![t] = @ + 1]
    /\ LET o == inst[t].owner
       IN  /\ Free(t, o)
           /\ lock' = [lock EXCEPT ![o] = t]
           /\ acc' = [acc EXCEPT ![t][o] = Saved(t, o) - total[o]]
    /\ inst' = [inst EXCEPT ![t] = None]
    /\ UNCHANGED <<row, total, buf, todo, rejected>>

-----------------------------------------------------------------------------
End(t) ==
    /\ lock' = [x \in Rows \cup Owners |-> IF lock[x] = t THEN None ELSE lock[x]]
    /\ buf' = [buf EXCEPT ![t] = Untouched]
    /\ acc' = [acc EXCEPT ![t] = Zero]
    /\ todo' = [todo EXCEPT ![t] = <<>>]

Open(t) == \E x \in Rows \cup Owners : lock[x] = t

Commit(t) ==
    /\ Open(t)
    /\ todo[t] = <<>>
    /\ row' = View(t)
    /\ total' = [o \in Owners |-> Total(t, o)]
    /\ End(t)
    /\ UNCHANGED <<inst, ops, rejected>>

(* An error of the application, a crash, or the deadlock detector: a row   *)
(* that moves locks its new owner before its old one.                      *)
Abort(t) ==
    /\ Open(t)
    /\ End(t)
    /\ UNCHANGED <<row, total, inst, ops, rejected>>

(* The trigger's UPDATE breaks a constraint: the whole statement fails.    *)
Reject(t) ==
    /\ todo[t] # <<>>
    /\ LET a == Head(todo[t])
       IN  /\ Free(t, a.owner)
           /\ Broken(t, a) # {}
           /\ rejected' = rejected \cup Broken(t, a)
    /\ End(t)
    /\ UNCHANGED <<row, total, inst, ops>>

Next ==
    \E t \in Tx :
        \/ Insert(t) \/ Update(t) \/ Delete(t) \/ RunAction(t)
        \/ Load(t) \/ Save(t)
        \/ Commit(t) \/ Abort(t) \/ Reject(t)

Spec == Init /\ [][Next]_vars
-----------------------------------------------------------------------------
(* Properties *)

Action == [owner : Owners, sign : {-1, 1}, amount : Nat \cup {Null}]

(* Types, and that what a transaction has not committed is locked by it.   *)
TypeOK ==
    /\ row \in [Rows -> Content \cup {Absent}]
    /\ total \in [Owners -> Nat]
    /\ lock \in [Rows \cup Owners -> Tx \cup {None}]
    /\ buf \in [Tx -> [Rows -> Content \cup {Absent, Same}]]
    /\ acc \in [Tx -> [Owners -> Int]]
    /\ todo \in [Tx -> Seq(Action)]
    /\ inst \in [Tx -> [owner : Owners, column : Nat] \cup {None}]
    /\ ops \in [Tx -> 0 .. MaxOps]
    /\ rejected \subseteq {"not null", "check"}
    /\ \A t \in Tx :
        /\ \A r \in Rows : buf[t][r] # Same => lock[r] = t
        /\ \A o \in Owners : acc[t][o] # 0 => lock[o] = t

(* The committed column of every owner is, in every state, the aggregate   *)
(* of the committed rows: increments of concurrent transactions, moves     *)
(* between owners, rows that start or stop to pass the filter, aborts and  *)
(* saves of an owner loaded earlier lose or double nothing                 *)
(* (fields.py:303-317, denorms/aggregate.py:271-374).                      *)
AlwaysExact == Abstract!Spec

(* No decrement takes more from a column than it holds: its CHECK would    *)
(* refuse the application's statement (fields.py:255, a                    *)
(* PositiveIntegerField).                                                  *)
NeverNegative == "check" \notin rejected

(* "The value will be incrementally updated when related objects are added *)
(* and removed" (fields.py:359-366): no constraint of the column refuses   *)
(* an increment, and the application's statement with it.                  *)
NeverRejected == rejected = {}

-----------------------------------------------------------------------------
(* The inductive invariant of the proofs *)

(* What the queued actions of a trigger will add to a column.              *)
Effect(a, o) == IF a.owner = o /\ a.amount # Null THEN a.sign * a.amount ELSE 0
Pending(q, o) ==
    IF q = <<>> THEN 0
    ELSE Effect(q[1], o) + (IF Len(q) = 2 THEN Effect(q[2], o) ELSE 0)

(* With them, the column a transaction sees is the aggregate of the rows   *)
(* it sees.                                                                *)
BalanceInv ==
    \A t \in Tx, o \in Owners :
        Total(t, o) + Pending(todo[t], o) = Abstract!FromScratch(View(t), o)

(* A trigger adds before it subtracts.                                     *)
OrderInv ==
    \A t \in Tx :
        /\ Len(todo[t]) <= 2
        /\ Len(todo[t]) = 2 => todo[t][1].sign = 1 /\ todo[t][2].sign = -1

ExactInv == Abstract!Exact(row, total)

(* The parts together; every step keeps them.                              *)
IInv == TypeOK /\ BalanceInv /\ OrderInv /\ ExactInv /\ NeverNegative
=============================================================================
