-------------------------- MODULE DenormManyToMany --------------------------
(***************************************************************************)
(* CountField and SumField over a ManyToMany relation: triggers of the     *)
(* through table and of the related table keep the column of the owners    *)
(* (denorms/aggregate.py: m2m_triggers, get_related_where,                 *)
(* get_related_value, get_triggers).  The trigger of a link looks the      *)
(* related row up, the trigger of a related row looks its links up, each   *)
(* in a snapshot of its own: on READ COMMITTED neither sees what the       *)
(* other's transaction has not committed.                                  *)
(***************************************************************************)
EXTENDS Integers, Sequences, FiniteSets

CONSTANTS
    Tx,         \* connections
    Items,      \* rows of the related model
    Owners,     \* rows of the model with the aggregate column
    Content,    \* what a related row may hold: [passes, amount]
    Item0,      \* the related rows to begin with
    Links0,     \* the rows of the through table to begin with
    Absent,     \* a row that is not there
    Same,       \* a row a transaction has not written
    None,
    MaxOps      \* bound: statements of each connection

Links == Items \X Owners

ASSUME ManyToManyAssumption ==
    /\ IsFiniteSet(Items)
    /\ Items \cap Owners = {} /\ Links \cap (Items \cup Owners) = {}
    /\ Content \subseteq [passes : BOOLEAN, amount : Nat]
    /\ Item0 \in [Items -> Content \cup {Absent}]
    /\ Links0 \subseteq {l \in Links : Item0[l[1]] # Absent}
    /\ {Absent, Same, None} \cap Content = {} /\ Absent # Same
    /\ None \notin Tx \cup Owners
    /\ MaxOps \in Nat

VARIABLES
    (* committed *)
    item,       \* related rows
    links,      \* through table
    total,      \* aggregate columns
    lock,       \* locks of related rows, links and owners
    (* of each transaction *)
    buf,        \* related rows it has written
    add, rem,   \* links it has inserted and deleted
    acc,        \* what it has added to each column
    todo,       \* actions of the last statement's triggers, still to run
    upd,        \* the running action: owners it has found, amount to add
    ops,
    (* history *)
    rejected,   \* owners whose CHECK has refused a trigger's UPDATE
    raced       \* owners a link of which was written by one transaction
                \* while another had written the linked row

vars == <<item, links, total, lock, buf, add, rem, acc, todo, upd, ops,
          rejected, raced>>
committed == <<item, links, total>>

Untouched == [i \in Items |-> Same]
Zero == [o \in Owners |-> 0]
Done == [owners |-> {}, amount |-> 0]

View(t) == [i \in Items |-> IF buf[t][i] = Same THEN item[i] ELSE buf[t][i]]
ViewLinks(t) == (links \ rem[t]) \cup add[t]

(* denorm.func: the aggregate of the linked rows that pass the filter.     *)
Passes(v) == v # Absent /\ v.passes

(* The sum of the amounts is the number of their units.                    *)
Linked(r, L, o) == {i \in Items : <<i, o>> \in L /\ Passes(r[i])}
Units(r, L, o) == UNION {{i} \X (1 .. r[i].amount) : i \in Linked(r, L, o)}
FromScratch(r, L, o) == Cardinality(Units(r, L, o))

Init ==
    /\ item = Item0
    /\ links = Links0
    /\ total = [o \in Owners |-> FromScratch(Item0, Links0, o)]
    /\ lock = [x \in Items \cup Links \cup Owners |-> None]
    /\ buf = [t \in Tx |-> Untouched]
    /\ add = [t \in Tx |-> {}]
    /\ rem = [t \in Tx |-> {}]
    /\ acc = [t \in Tx |-> Zero]
    /\ todo = [t \in Tx |-> <<>>]
    /\ upd = [t \in Tx |-> Done]
    /\ ops = [t \in Tx |-> 0]
    /\ rejected = {} /\ raced = {}

-----------------------------------------------------------------------------
(* Trigger actions: UPDATE owner SET column = column + sign * amount.      *)

(* Of a related row: WHERE id IN (SELECT owner FROM link WHERE related =   *)
(* NEW.id) AND filter(NEW), the amount is NEW's; or with OLD.              *)
OfItem(sign, i, v) == [sign |-> sign, item |-> i, content |-> v, owner |-> None]

(* Of a link: WHERE id = NEW.owner AND (SELECT COUNT of the related row    *)
(* that passes the filter) > 0, the amount is selected as well; or OLD.    *)
OfLink(sign, l) == [sign |-> sign, item |-> l[1], content |-> None, owner |-> l[2]]

Unlocked(t, x) == TRUE
Free(t, x) == lock[x] \in {None, t}
Quiet(t) == todo[t] = <<>> /\ upd[t].owners = {}

(* An action takes its snapshot.                                           *)
Subject(t, a) == IF a.content # None THEN a.content ELSE View(t)[a.item]
Found(t, a) ==
    IF a.owner # None THEN {a.owner}
    ELSE {o \in Owners : <<a.item, o>> \in ViewLinks(t)}
(* get_related_subquery without filtered.                                  *)
CountsAny(a, v) == IF a.owner # None THEN v # Absent ELSE Passes(v)
(* The decrement without its filter.                                       *)
CountsOld(a, v) == v # Absent /\ (a.sign = 1 => v.passes)
(* Both kinds of action apply filter and exclude.                          *)
Counts(a, v) == Passes(v)

Select(t) ==
    /\ todo[t] # <<>>
    /\ upd[t].owners = {}
    /\ LET a == Head(todo[t])
           v == Subject(t, a)
       IN  upd' = [upd EXCEPT ![t] =
                IF Counts(a, v)
                THEN [owners |-> Found(t, a), amount |-> a.sign * v.amount]
                ELSE Done]
    /\ todo' = [todo EXCEPT ![t] = Tail(@)]
    /\ UNCHANGED <<committed, lock, buf, add, rem, acc, ops, rejected, raced>>

(* It updates the latest version of each owner, once it has the row lock.  *)
Total(t, o) == total[o] + acc[t][o]
Rest(u, o) == IF u.owners = {o} THEN Done ELSE [u EXCEPT !.owners = @ \ {o}]

Apply(t) ==
    /\ \E o \in upd[t].owners :
        /\ Free(t, o)
        /\ Total(t, o) + upd[t].amount >= 0
        /\ lock' = [lock EXCEPT ![o] = t]
        /\ acc' = [acc EXCEPT ![t][o] = @ + upd[t].amount]
        /\ upd' = [upd EXCEPT ![t] = Rest(@, o)]
    /\ UNCHANGED <<committed, buf, add, rem, todo, ops, rejected, raced>>

-----------------------------------------------------------------------------
(* Statements *)

Ready(t) ==
    /\ Quiet(t)
    /\ ops[t] < MaxOps
    /\ ops' = [ops EXCEPT ![t] = @ + 1]

WriteItem(t, i, v, actions) ==
    /\ Ready(t)
    /\ Free(t, i)
    /\ lock' = [lock EXCEPT ![i] = t]
    /\ buf' = [buf EXCEPT ![t][i] = v]
    /\ todo' = [todo EXCEPT ![t] = actions]
    /\ raced' = raced \cup {o \in Owners : ~Free(t, <<i, o>>)}
    /\ UNCHANGED <<committed, add, rem, acc, upd, rejected>>

InsertItem(t) ==
    \E i \in Items, new \in Content :
        /\ View(t)[i] = Absent
        /\ WriteItem(t, i, new, <<OfItem(1, i, new)>>)

UpdateItem(t) ==
    \E i \in Items, new \in Content :
        LET old == View(t)[i]
        IN  /\ old \notin {Absent, new}
            /\ WriteItem(t, i, new, <<OfItem(1, i, new), OfItem(-1, i, old)>>)

DeleteItem(t) ==
    \E i \in Items :
        LET old == View(t)[i]
        IN  /\ old # Absent
            /\ WriteItem(t, i, Absent, <<OfItem(-1, i, old)>>)

(* The links of L go, those of M come; none of M may be there: a unique    *)
(* index, whose conflicts wait for the other transaction.                  *)
WriteLinks(t, L, M, actions) ==
    /\ Ready(t)
    /\ L \subseteq ViewLinks(t) /\ M \cap ViewLinks(t) = {}
    /\ \A l \in L \cup M : Free(t, l)
    /\ lock' = [x \in DOMAIN lock |-> IF x \in L \cup M THEN t ELSE lock[x]]
    /\ add' = [add EXCEPT ![t] = (@ \ L) \cup (M \ links)]
    /\ rem' = [rem EXCEPT ![t] = (@ \ M) \cup (L \cap links)]
    /\ todo' = [todo EXCEPT ![t] = actions]
    /\ raced' = raced \cup
            {o \in Owners : \E l \in L \cup M, u \in Tx \ {t} :
                l[2] = o /\ buf[u][l[1]] # Same}
    /\ UNCHANGED <<committed, buf, acc, upd, rejected>>

AddLink(t) ==
    \E l \in Links :
        /\ View(t)[l[1]] # Absent
        /\ WriteLinks(t, {}, {l}, <<OfLink(1, l)>>)

RemoveLink(t) == \E l \in Links : WriteLinks(t, {l}, {}, <<OfLink(-1, l)>>)

(* UPDATE of the through table: the link goes to another owner, to another *)
(* row, or to both.                                                        *)
MoveLink(t) ==
    \E l \in Links : \E m \in Links \ {l} :
        WriteLinks(t, {l}, {m}, <<OfLink(1, m), OfLink(-1, l)>>)

-----------------------------------------------------------------------------
End(t) ==
    /\ lock' = [x \in DOMAIN lock |-> IF lock[x] = t THEN None ELSE lock[x]]
    /\ buf' = [buf EXCEPT ![t] = Untouched]
    /\ add' = [add EXCEPT ![t] = {}]
    /\ rem' = [rem EXCEPT ![t] = {}]
    /\ acc' = [acc EXCEPT ![t] = Zero]
    /\ todo' = [todo EXCEPT ![t] = <<>>]
    /\ upd' = [upd EXCEPT ![t] = Done]

Open(t) == \E x \in DOMAIN lock : lock[x] = t

(* The foreign keys of the through table are checked at COMMIT (DEFERRABLE *)
(* INITIALLY DEFERRED).                                                    *)
Commit(t) ==
    /\ Open(t)
    /\ Quiet(t)
    /\ \A l \in ViewLinks(t) : View(t)[l[1]] # Absent
    /\ item' = View(t)
    /\ links' = ViewLinks(t)
    /\ total' = [o \in Owners |-> Total(t, o)]
    /\ End(t)
    /\ UNCHANGED <<ops, rejected, raced>>

(* An error, a violated foreign key, a crash, or the deadlock detector.    *)
Abort(t) ==
    /\ Open(t)
    /\ End(t)
    /\ UNCHANGED <<committed, ops, rejected, raced>>

(* PositiveIntegerField: the UPDATE of a trigger breaks CHECK (column >= 0) *)
(* and the application's statement fails.                                  *)
Reject(t) ==
    /\ \E o \in upd[t].owners :
        /\ Free(t, o)
        /\ Total(t, o) + upd[t].amount < 0
        /\ rejected' = rejected \cup {o}
    /\ End(t)
    /\ UNCHANGED <<committed, ops, raced>>

Next ==
    \E t \in Tx :
        \/ InsertItem(t) \/ UpdateItem(t) \/ DeleteItem(t)
        \/ AddLink(t) \/ RemoveLink(t) \/ MoveLink(t)
        \/ Select(t) \/ Apply(t)
        \/ Commit(t) \/ Abort(t) \/ Reject(t)

Spec == Init /\ [][Next]_vars
-----------------------------------------------------------------------------
Action == [sign : {-1, 1}, item : Items, content : Content \cup {None},
           owner : Owners \cup {None}]

TypeOK ==
    /\ item \in [Items -> Content \cup {Absent}]
    /\ links \subseteq {l \in Links : item[l[1]] # Absent}
    /\ total \in [Owners -> Nat]
    /\ lock \in [Items \cup Links \cup Owners -> Tx \cup {None}]
    /\ buf \in [Tx -> [Items -> Content \cup {Absent, Same}]]
    /\ add \in [Tx -> SUBSET Links] /\ rem \in [Tx -> SUBSET Links]
    /\ acc \in [Tx -> [Owners -> Int]]
    /\ todo \in [Tx -> Seq(Action)]
    /\ upd \in [Tx -> [owners : SUBSET Owners, amount : Int]]
    /\ ops \in [Tx -> 0 .. MaxOps]
    /\ rejected \subseteq Owners /\ raced \subseteq Owners
    /\ \A t \in Tx :
        /\ add[t] \cap links = {} /\ rem[t] \subseteq links
        /\ \A i \in Items : buf[t][i] # Same => lock[i] = t
        /\ \A l \in add[t] \cup rem[t] : lock[l] = t
        /\ \A o \in Owners : acc[t][o] # 0 => lock[o] = t

(* The committed column of an owner is the aggregate of its committed      *)
(* rows, unless a link of it was written while another transaction had     *)
(* written the linked row: links that come, go and move, rows that start   *)
(* or stop to pass the filter, change their amount or are deleted, in the  *)
(* same or in another transaction, lose or double nothing                  *)
(* (denorms/aggregate.py:148-268, 281-374).                                *)
DriftsOnlyByRace ==
    \A o \in Owners : total[o] # FromScratch(item, links, o) => o \in raced

(* Nor does a trigger ever take more from a column than it holds, which    *)
(* would refuse the application's statement.                               *)
RejectsOnlyByRace == rejected \subseteq raced

-----------------------------------------------------------------------------
(* The inductive invariant of the proofs *)

(* What the running and the queued actions will add to a column.           *)
Effect(t, a, o) ==
    IF o \in Found(t, a) /\ Counts(a, Subject(t, a))
    THEN a.sign * Subject(t, a).amount ELSE 0
Running(t, o) == IF o \in upd[t].owners THEN upd[t].amount ELSE 0
Queued(t, o) ==
    IF todo[t] = <<>> THEN 0
    ELSE Effect(t, todo[t][1], o)
            + (IF Len(todo[t]) = 2 THEN Effect(t, todo[t][2], o) ELSE 0)

(* The link of an action, or its row, is what its transaction has written. *)
Held(t, a) ==
    \/ a.content \in Content /\ a.owner = None /\ buf[t][a.item] # Same
    \/ a.content = None /\ a.owner \in Owners /\ lock[<<a.item, a.owner>>] = t

(* A trigger adds before it subtracts.                                     *)
OrderInv ==
    \A t \in Tx :
        /\ Len(todo[t]) <= 2
        /\ Len(todo[t]) = 2 =>
            upd[t].owners = {} /\ todo[t][1].sign = 1 /\ todo[t][2].sign = -1
        /\ Len(todo[t]) = 1 /\ upd[t].owners # {} => todo[t][1].sign = -1
        /\ \A n \in 1 .. Len(todo[t]) : Held(t, todo[t][n])

(* No transaction sees a column below zero.                                *)
FloorInv == \A t \in Tx, o \in Owners : Total(t, o) >= 0

(* Of an owner without a race, nobody has written a row whose link another *)
(* transaction has locked.                                                 *)
RaceInv ==
    \A t \in Tx, u \in Tx, i \in Items, o \in Owners :
        t # u /\ o \notin raced /\ lock[<<i, o>>] = t => buf[u][i] = Same

(* The column such an owner has in the view of a transaction, with what    *)
(* its triggers still add, is the aggregate of that view.                  *)
BalanceInv ==
    \A t \in Tx, o \in Owners \ raced :
        Total(t, o) + Running(t, o) + Queued(t, o) =
            FromScratch(View(t), ViewLinks(t), o)

(* The parts together; every step keeps them.                              *)
IInv ==
    /\ TypeOK
    /\ OrderInv
    /\ FloorInv
    /\ RaceInv
    /\ BalanceInv
    /\ DriftsOnlyByRace
    /\ RejectsOnlyByRace
=============================================================================
