------------------------ MODULE DenormTriggersProofs ------------------------
(***************************************************************************)
(* The triggers cover the declarations, for every schema, every            *)
(* declaration and every sequence of statements, flushes, deployments,     *)
(* commands and crashes.                                                   *)
(***************************************************************************)
EXTENDS DenormTriggers, FiniteSetTheorems, TLAPS

LEMMA Same == \A f : Table(f) = f
BY DEF Table

(* A declaration resolves to one of its candidates.                        *)
LEMMA Resolves ==
  ASSUME NEW d \in Declared, NEW dep \in d.related
  PROVE  Relation(d.model, dep) \in Candidates(d.model, dep)
<1>1. PICK v \in Versions : d \in Code[v]
  BY DEF Declared
<1>2. Cardinality(Candidates(d.model, dep)) = 1
  BY <1>1, ResolutionAssumption
<1>3. Candidates(d.model, dep) # {}
  BY <1>2, FS_EmptySet
<1>4. <<d.model, dep>> \in Dependencies
  BY <1>1 DEF Dependencies
<1>5. Relation(d.model, dep) = CHOOSE c \in Candidates(d.model, dep) : TRUE
  <2>1. Table([x \in Dependencies |-> CHOOSE c \in Candidates(x[1], x[2]) : TRUE])
            = [x \in Dependencies |-> CHOOSE c \in Candidates(x[1], x[2]) : TRUE]
    BY Same
  <2> QED BY <1>4, <2>1 DEF Relation, Resolved
<1> QED BY <1>3, <1>5

Types == {"forward", "backward", "forward_m2m", "backward_m2m"}

(* What it resolves to is a relation of the right ends.                    *)
LEMMA Ends ==
  ASSUME NEW d \in Declared, NEW dep \in d.related,
         NEW c, c = Relation(d.model, dep), NEW r, r = c.field
  PROVE  /\ c.type \in Types /\ r \in Relations
         /\ c.type = "forward" =>
              r.kind = "fk" /\ r.from = d.model /\ r.to = dep.other
         /\ c.type = "backward" =>
              r.kind = "fk" /\ r.from = dep.other /\ r.to = d.model
         /\ c.type = "forward_m2m" =>
              r.kind \in {"m2m", "generic"} /\ r.from = d.model /\ r.to = dep.other
         /\ c.type = "backward_m2m" =>
              r.kind = "m2m" /\ r.from = dep.other /\ r.to = d.model
<1>1. c \in Candidates(d.model, dep)
  BY Resolves
<1>2. \/ c \in Typed("forward", Fks(d.model, dep.other, dep.fk))
      \/ c \in Typed("backward", Fks(dep.other, d.model, dep.fk))
      \/ c \in Typed("forward_m2m", M2ms(d.model, dep.other, dep.fk))
      \/ c \in Typed("backward_m2m", M2ms(dep.other, d.model, dep.fk))
  BY <1>1 DEF Candidates
<1>3. r.kind = "generic" => c.type = "forward_m2m"
  BY FollowAssumption DEF Follows
<1>4. CASE c \in Typed("forward", Fks(d.model, dep.other, dep.fk))
  <2>1. PICK f \in Fks(d.model, dep.other, dep.fk) : c = [type |-> "forward", field |-> f]
    BY <1>4 DEF Typed
  <2> QED BY <2>1 DEF Fks, Types
<1>5. CASE c \in Typed("backward", Fks(dep.other, d.model, dep.fk))
  <2>1. PICK f \in Fks(dep.other, d.model, dep.fk) : c = [type |-> "backward", field |-> f]
    BY <1>5 DEF Typed
  <2> QED BY <2>1 DEF Fks, Types
<1>6. CASE c \in Typed("forward_m2m", M2ms(d.model, dep.other, dep.fk))
  <2>1. PICK f \in M2ms(d.model, dep.other, dep.fk) : c = [type |-> "forward_m2m", field |-> f]
    BY <1>6 DEF Typed
  <2> QED BY <2>1 DEF M2ms, Types
<1>7. CASE c \in Typed("backward_m2m", M2ms(dep.other, d.model, dep.fk))
  <2>1. PICK f \in M2ms(dep.other, d.model, dep.fk) : c = [type |-> "backward_m2m", field |-> f]
    BY <1>7 DEF Typed
  <2> QED BY <1>3, <2>1 DEF M2ms, Types
<1> QED BY <1>2, <1>4, <1>5, <1>6, <1>7

(* The triggers of a dependency, by its type.                              *)
Kinds(d, dep, ids, T) ==
    LET c == Relation(d.model, dep)
        r == c.field
    IN \/ c.type = "forward" /\ r.kind = "fk" /\ T = ForwardTriggers(d, dep, r)
       \/ c.type = "backward" /\ r.kind = "fk" /\ T = BackwardTriggers(d, dep, r)
       \/ c.type = "forward_m2m" /\ r.kind = "generic" /\ T = GenericTriggers(d, InColumn(r.column), r, ids)
       \/ c.type = "forward_m2m" /\ r.kind = "m2m" /\ T = M2mTriggers(d, dep, r.column, r.reverse, r)
       \/ c.type = "backward_m2m" /\ r.kind = "m2m" /\ T = M2mTriggers(d, dep, r.reverse, r.column, r)

LEMMA ByType ==
  ASSUME NEW d \in Declared, NEW dep \in d.related, NEW ids
  PROVE  Kinds(d, dep, ids, RelatedTriggers(d, dep, ids))
<1> DEFINE c == Relation(d.model, dep)
           r == c.field
<1>1. /\ c.type \in Types
      /\ c.type \in {"forward", "backward"} => r.kind = "fk"
      /\ c.type = "forward_m2m" => r.kind \in {"m2m", "generic"}
      /\ c.type = "backward_m2m" => r.kind = "m2m"
  BY Ends
<1>2. CASE c.type = "forward"
  BY <1>1, <1>2 DEF Kinds, RelatedTriggers
<1>3. CASE c.type = "backward"
  BY <1>1, <1>3 DEF Kinds, RelatedTriggers
<1>4. CASE c.type = "forward_m2m" /\ r.kind = "generic"
  <2> DEFINE find == IF c.type = "forward_m2m" THEN InColumn(r.column) ELSE Itself
  <2>1. find = InColumn(r.column)
    BY <1>4
  <2>2. c.type # "forward" /\ c.type # "backward"
    BY <1>4
  <2>3. RelatedTriggers(d, dep, ids) = GenericTriggers(d, find, r, ids)
    BY <1>4, <2>2 DEF RelatedTriggers
  <2> HIDE DEF find
  <2> QED BY <1>4, <2>1, <2>3 DEF Kinds
<1>5. CASE c.type = "forward_m2m" /\ r.kind = "m2m"
  BY <1>1, <1>5 DEF Kinds, RelatedTriggers
<1>6. CASE c.type = "backward_m2m"
  BY <1>1, <1>6 DEF Kinds, RelatedTriggers
<1> QED BY <1>1, <1>2, <1>3, <1>4, <1>5, <1>6 DEF Types

(* A trigger that is built belongs to one part of a declaration.           *)
LEMMA PartsOf ==
  ASSUME NEW d, NEW ids, NEW t \in Triggers(d, ids)
  PROVE  \/ t \in SelfTriggers(d)
         \/ t \in FieldTriggers(d)
         \/ \E dep \in d.related : t \in RelatedTriggers(d, dep, ids)
BY DEF Triggers

LEMMA SelfParts ==
  ASSUME NEW d
  PROVE  /\ \A t \in SelfTriggers(d) :
                d.kind # "cachekey" /\ t \in {OwnInsertTrigger(d), OwnUpdateTrigger(d)}
         /\ d.kind # "cachekey" => OwnInsertTrigger(d) \in SelfTriggers(d)
         /\ d.kind # "cachekey" /\ d.fields = Undeclared =>
                OwnUpdateTrigger(d) \in SelfTriggers(d)
BY DEF SelfTriggers

(* A content type is asked for by the triggers of generic relations only.  *)
Asks(d, ids, t) ==
    \/ t.generic = None
    \/ \E r \in Relations :
        /\ r.kind = "generic" /\ r.from = d.model /\ r.to = t.table
        /\ t.generic = [column |-> r.ctcolumn, id |-> ids[d.model]]

LEMMA AllAsk ==
  ASSUME NEW d \in Declared, NEW ids, NEW t \in Triggers(d, ids)
  PROVE  Asks(d, ids, t)
<1>1. CASE t \in SelfTriggers(d)
  <2>1. t = OwnInsertTrigger(d) \/ t = OwnUpdateTrigger(d)
    BY <1>1, SelfParts
  <2>2. OwnInsertTrigger(d).generic = None /\ OwnUpdateTrigger(d).generic = None
    BY DEF OwnInsertTrigger, OwnUpdateTrigger, Trigger
  <2> QED BY <2>1, <2>2 DEF Asks
<1>2. CASE t \in FieldTriggers(d)
  BY <1>2 DEF FieldTriggers, Trigger, Asks
<1>3. ASSUME NEW dep \in d.related, t \in RelatedTriggers(d, dep, ids)
      PROVE  Asks(d, ids, t)
  <2> DEFINE r == Relation(d.model, dep).field
  <2>1. CASE t \in ForwardTriggers(d, dep, r)
    BY <2>1 DEF ForwardTriggers, OnEvents, Trigger, Asks
  <2>2. CASE t \in BackwardTriggers(d, dep, r)
    BY <2>2 DEF BackwardTriggers, OnEvents, Trigger, Asks
  <2>3. ASSUME NEW this, NEW that, t \in M2mTriggers(d, dep, this, that, r)
        PROVE  Asks(d, ids, t)
    BY <2>3 DEF M2mTriggers, OnEvents, Trigger, Asks
  <2>4. CASE Relation(d.model, dep).type = "forward_m2m" /\ r.kind = "generic"
             /\ t \in GenericTriggers(d, InColumn(r.column), r, ids)
    <3>1. r \in Relations /\ r.from = d.model
      BY <2>4, Ends
    <3>2. t.table = r.to /\ t.generic = [column |-> r.ctcolumn, id |-> ids[d.model]]
      BY <2>4 DEF GenericTriggers, OnEvents, Trigger
    <3> QED BY <2>4, <3>1, <3>2 DEF Asks
  <2>5. Kinds(d, dep, ids, RelatedTriggers(d, dep, ids))
    BY ByType
  <2> QED BY <1>3, <2>1, <2>2, <2>3, <2>4, <2>5 DEF Kinds
<1> QED BY <1>1, <1>2, <1>3, PartsOf

-----------------------------------------------------------------------------
(* Triggers that are merged *)

Built(v, ids) == UNION {Triggers(d, ids) : d \in Code[v]}

LEMMA BuiltBy ==
  ASSUME NEW v \in Versions, NEW ids, NEW t \in Built(v, ids)
  PROVE  \E d \in Declared : d \in Code[v] /\ t \in Triggers(d, ids)
BY DEF Built, Declared

LEMMA Numbered ==
  ASSUME NEW ids \in Numberings, NEW m \in DOMAIN Ct0
  PROVE  /\ ids[m] \in CtIds /\ ids[m] # None /\ DOMAIN ids = DOMAIN Ct0
         /\ \A n \in DOMAIN Ct0 : ids[m] = ids[n] => m = n
BY SchemaAssumption DEF Numberings

LEMMA Models ==
  ASSUME NEW d \in Declared
  PROVE  /\ d.model \in DOMAIN Ct0 /\ d.model \in Tables /\ d.field \in Columns[d.model]
         /\ d.kind \in {"callback", "cachekey"}
         /\ \A dep \in d.related : dep.other \in Tables
BY SchemaAssumption

(* Triggers of one name are for one table, event and content type.         *)
LEMMA OneName ==
  ASSUME NEW v \in Versions, NEW ids \in Numberings,
         NEW t \in Built(v, ids), NEW u \in Built(v, ids), Name(t) = Name(u)
  PROVE  t.table = u.table /\ t.event = u.event /\ t.generic = u.generic
<1>1. /\ t.table = u.table /\ t.event = u.event
      /\ (IF t.generic = None THEN None ELSE t.generic.id)
           = (IF u.generic = None THEN None ELSE u.generic.id)
  BY DEF Name
<1>2. PICK d \in Declared : Asks(d, ids, t)
  BY BuiltBy, AllAsk
<1>3. PICK e \in Declared : Asks(e, ids, u)
  BY BuiltBy, AllAsk
<1>4. d.model \in DOMAIN Ct0 /\ e.model \in DOMAIN Ct0
  BY Models
<1>5. /\ ids[d.model] # None /\ ids[e.model] # None
      /\ ids[d.model] = ids[e.model] => d.model = e.model
  BY <1>4, Numbered
<1>6. CASE t.generic # None /\ u.generic # None
  <2>1. PICK r \in Relations :
          /\ r.kind = "generic" /\ r.from = d.model /\ r.to = t.table
          /\ t.generic = [column |-> r.ctcolumn, id |-> ids[d.model]]
    BY <1>2, <1>6 DEF Asks
  <2>2. PICK s \in Relations :
          /\ s.kind = "generic" /\ s.from = e.model /\ s.to = u.table
          /\ u.generic = [column |-> s.ctcolumn, id |-> ids[e.model]]
    BY <1>3, <1>6 DEF Asks
  <2>3. t.generic.id = ids[d.model] /\ u.generic.id = ids[e.model]
    BY <2>1, <2>2
  <2>4. d.model = e.model
    BY <1>1, <1>5, <1>6, <2>3
  <2>5. r.ctcolumn = s.ctcolumn
    BY <1>1, <2>1, <2>2, <2>4, FollowAssumption
  <2> QED BY <1>1, <2>1, <2>2, <2>4, <2>5
<1>7. ASSUME NEW x, NEW f \in Declared, Asks(f, ids, x), x.generic # None
      PROVE  x.generic.id = ids[f.model]
  <2>1. PICK r \in Relations : x.generic = [column |-> r.ctcolumn, id |-> ids[f.model]]
    BY <1>7 DEF Asks
  <2> QED BY <2>1
<1>8. CASE t.generic = None
  <2>1. (IF u.generic = None THEN None ELSE u.generic.id) = None
    BY <1>1, <1>8
  <2> QED BY <1>3, <1>5, <1>7, <1>8, <2>1, <1>1
<1>9. CASE u.generic = None
  <2>1. (IF t.generic = None THEN None ELSE t.generic.id) = None
    BY <1>1, <1>9
  <2> QED BY <1>2, <1>5, <1>7, <1>9, <2>1, <1>1
<1> QED BY <1>6, <1>8, <1>9

(* What is merged does all that its parts do, when they would.             *)
LEMMA Merged ==
  ASSUME NEW v \in Versions, NEW ids \in Numberings, NEW t \in Built(v, ids)
  PROVE  LET n == Name(t)
             b == Build(v, ids)
         IN  /\ n \in DOMAIN b
             /\ b[n].table = t.table /\ b[n].event = t.event /\ b[n].generic = t.generic
             /\ t.watch \subseteq b[n].watch /\ t.actions \subseteq b[n].actions
<1> DEFINE n == Name(t)
           same == {u \in Built(v, ids) : Name(u) = n}
           u == CHOOSE x \in same : TRUE
<1>1. Build(v, ids) = [k \in {Name(x) : x \in Built(v, ids)} |->
                         Merge({x \in Built(v, ids) : Name(x) = k})]
  BY Same DEF Build, Built
<1>2. n \in DOMAIN Build(v, ids) /\ Build(v, ids)[n] = Merge(same)
  BY <1>1
<1>3. t \in same /\ u \in same
  OBVIOUS
<1>4. u \in Built(v, ids) /\ Name(u) = Name(t)
  BY <1>3
<1>5. u.table = t.table /\ u.event = t.event /\ u.generic = t.generic
  BY <1>4, OneName
<1>6. /\ Merge(same).table = u.table /\ Merge(same).event = u.event
      /\ Merge(same).generic = u.generic
      /\ Merge(same).actions = UNION {x.actions : x \in same}
      /\ Merge(same).watch = UNION {x.watch : x \in same}
  BY DEF Merge, Together, Trigger
<1>7. /\ t.actions \subseteq UNION {x.actions : x \in same}
      /\ t.watch \subseteq UNION {x.watch : x \in same}
  BY <1>3
<1> HIDE DEF same, u
<1> QED BY <1>2, <1>5, <1>6, <1>7

-----------------------------------------------------------------------------
(* What fires *)

Known == code \in Versions /\ ctId \in Numberings

LEMMA CurrentSet == Known => Current = Build(code, ctId)
<1> SUFFICES ASSUME Known PROVE Current = Build(code, ctId)
  OBVIOUS
<1>1. TriggerSets = [o \in Versions \X Numberings |-> Build(o[1], o[2])]
  BY Same DEF TriggerSets
<1>2. <<code, ctId>> \in Versions \X Numberings
  BY DEF Known
<1> QED BY <1>1, <1>2 DEF Current

(* Everything an installed trigger does for an event is done.              *)
LEMMA DoneBy ==
  ASSUME NEW what, NEW E, NEW db, NEW x
  PROVE  x \in Done(what, E, db) <=>
           \E e \in E : \E n \in DOMAIN installed : \E a \in installed[n].actions :
             /\ When(installed[n], e) /\ a.do = what
             /\ \E p \in Targets(a, e, db) : x = <<a.model, p, a.field>>
BY DEF Done

(* While the triggers are up to date, so is what those of a declaration do. *)
LEMMA Fires ==
  ASSUME Known, UpToDate, NEW d \in Code[code], NEW t \in Triggers(d, ctId),
         NEW E, NEW e \in E, When(t, e),
         NEW a \in t.actions, NEW db, NEW p \in Targets(a, e, db)
  PROVE  <<a.model, p, a.field>> \in Done(a.do, E, db)
<1> DEFINE n == Name(t)
           b == Build(code, ctId)
<1>1. t \in Built(code, ctId) /\ code \in Versions /\ ctId \in Numberings
  BY DEF Built, Known
<1>2. /\ n \in DOMAIN b
      /\ b[n].table = t.table /\ b[n].event = t.event /\ b[n].generic = t.generic
      /\ t.watch \subseteq b[n].watch /\ t.actions \subseteq b[n].actions
  BY <1>1, Merged
<1>3. n \in DOMAIN installed /\ installed[n] = b[n]
  BY <1>2, CurrentSet DEF UpToDate, Contains
<1>4. When(installed[n], e)
  BY <1>2, <1>3 DEF When
<1>5. a \in installed[n].actions
  BY <1>2, <1>3
<1> HIDE DEF n, b
<1> QED BY <1>3, <1>4, <1>5, DoneBy

-----------------------------------------------------------------------------
(* A statement changes one row, and its event says how                     *)

Steps(e, db) ==
    /\ e.table \in Tables /\ e.pk \in Pks[e.table]
    /\ e.old = rows[e.table][e.pk] /\ e.new = db[e.table][e.pk]
    /\ \A t \in Tables : \A p \in Pks[t] :
          t # e.table \/ p # e.pk => db[t][p] = rows[t][p]
    /\ \/ /\ e.event = "insert"
          /\ e.old = Absent /\ e.new \in Contents[e.table]
       \/ /\ e.event = "delete"
          /\ e.old \in Contents[e.table] /\ e.new = Absent
       \/ /\ e.event = "update"
          /\ e.old \in Contents[e.table] /\ e.new \in Contents[e.table]
          /\ \A c \in DOMAIN e.new : e.old[c] # e.new[c] => c \in e.changed

LEMMA ContentOf ==
  ASSUME NEW t \in Tables, NEW v \in Contents[t]
  PROVE  /\ v # Absent /\ DOMAIN v \subseteq Columns[t]
         /\ \A w \in Contents[t] : DOMAIN v = DOMAIN w
BY SchemaAssumption

(* What is seen of a row differs only if the statement has changed a       *)
(* column of it that counts.                                               *)
LEMMA SeenDiffers ==
  ASSUME NEW e, NEW db, Steps(e, db), NEW t \in Tables, NEW q, NEW cols,
         Seen(t, q, cols, rows) # Seen(t, q, cols, db)
  PROVE  /\ t = e.table /\ q = e.pk
         /\ e.event = "update" => cols \cap Columns[t] \cap e.changed # {}
<1>1. q \in Pks[t] /\ rows[t][q] # db[t][q]
  BY DEF Seen
<1>2. t = e.table /\ q = e.pk
  BY <1>1 DEF Steps
<1>3. ASSUME e.event = "update" PROVE cols \cap Columns[t] \cap e.changed # {}
  <2>1. /\ e.old \in Contents[t] /\ e.new \in Contents[t]
        /\ \A c \in DOMAIN e.new : e.old[c] # e.new[c] => c \in e.changed
        /\ e.old = rows[t][q] /\ e.new = db[t][q]
    BY <1>2, <1>3 DEF Steps
  <2>2. /\ e.old # Absent /\ e.new # Absent
        /\ DOMAIN e.new \subseteq Columns[t] /\ DOMAIN e.old = DOMAIN e.new
    BY <2>1, ContentOf
  <2>3. /\ Seen(t, q, cols, rows) = [c \in cols \cap DOMAIN e.old |-> e.old[c]]
        /\ Seen(t, q, cols, db) = [c \in cols \cap DOMAIN e.new |-> e.new[c]]
    BY <1>1, <2>1, <2>2 DEF Seen
  <2>4. PICK c \in cols \cap DOMAIN e.new : e.old[c] # e.new[c]
    BY <2>2, <2>3
  <2> QED BY <2>1, <2>2, <2>4
<1> QED BY <1>2, <1>3

(* Where an action finds its rows.                                         *)
LEMMA TargetsOf ==
  ASSUME NEW a, NEW e, NEW db
  PROVE  /\ a.find = Itself => Targets(a, e, db) = {e.pk}
         /\ \A c : a.find = InColumn(c) =>
              Targets(a, e, db) = {(IF a.side = "new" THEN e.new ELSE e.old)[c]}
         /\ \A table, where, get : a.find = InTable(table, where, get) =>
              Targets(a, e, db) =
                LET found == {p \in Live(table, db) : db[table][p][where] = e.pk}
                IN IF get = None THEN found ELSE {db[table][p][get] : p \in found}
<1>1. ASSUME a.find = Itself PROVE Targets(a, e, db) = {e.pk}
  <2>1. a.find.in = "pk"
    BY <1>1 DEF Itself
  <2> QED BY <2>1 DEF Targets
<1>2. ASSUME NEW c, a.find = InColumn(c)
      PROVE  Targets(a, e, db) = {(IF a.side = "new" THEN e.new ELSE e.old)[c]}
  <2>1. a.find.in = "column" /\ a.find.column = c
    BY <1>2 DEF InColumn
  <2> QED BY <2>1 DEF Targets
<1>3. ASSUME NEW table, NEW where, NEW get, a.find = InTable(table, where, get)
      PROVE  Targets(a, e, db) =
                LET found == {p \in Live(table, db) : db[table][p][where] = e.pk}
                IN IF get = None THEN found ELSE {db[table][p][get] : p \in found}
  <2>1. /\ a.find.in = "table" /\ a.find.table = table
        /\ a.find.where = where /\ a.find.get = get
    BY <1>3 DEF InTable
  <2> QED BY <2>1 DEF Targets
<1> QED BY <1>1, <1>2, <1>3

-----------------------------------------------------------------------------
(* A change of an input reaches the column                                 *)

Shaped(db) == \A t \in Tables : db[t] \in [Pks[t] -> Contents[t] \cup {Absent}]

Does(d, a) ==
    /\ a.do = IF d.kind = "callback" THEN "mark" ELSE "touch"
    /\ a.model = d.model /\ a.field = d.field
Reaches(d, q, e, db) ==
    \E t \in Triggers(d, ctId) : \E a \in t.actions :
        When(t, e) /\ Does(d, a) /\ q \in Targets(a, e, db)

LEMMA ActionDoes ==
  \A d, side, find : Does(d, Action(d, side, find)) /\ Action(d, side, find).find = find
                                                   /\ Action(d, side, find).side = side
BY DEF Does, Action

LEMMA RowsDiffer ==
  ASSUME NEW e, NEW db, Steps(e, db), NEW t \in Tables, NEW q \in Pks[t],
         rows[t][q] # db[t][q]
  PROVE  /\ t = e.table /\ q = e.pk
         /\ e.old = rows[t][q] /\ e.new = db[t][q]
BY DEF Steps

LEMMA EventKinds ==
  ASSUME NEW e, NEW db, Steps(e, db)
  PROVE  /\ e.event \in {"insert", "delete", "update"}
         /\ e.event = "insert" <=> e.old = Absent
         /\ e.event = "delete" <=> e.new = Absent
         /\ e.old # Absent => e.old \in Contents[e.table]
         /\ e.new # Absent => e.new \in Contents[e.table]
         /\ e.old = Absent => e.new # Absent
         /\ e.table \in Tables
         /\ e.event = "update" =>
              \A c \in DOMAIN e.new : e.old[c] # e.new[c] => c \in e.changed
<1>1. e.table \in Tables
  BY DEF Steps
<1>2. Absent \notin Contents[e.table]
  BY <1>1, SchemaAssumption
<1> QED BY <1>1, <1>2 DEF Steps

(* A new row marks the functions of its model.                             *)
LEMMA OwnRowReaches ==
  ASSUME NEW d \in Declared, d.kind # "cachekey", NEW e, NEW db, Steps(e, db),
         NEW q \in Live(d.model, db), rows[d.model][q] = Absent
  PROVE  Reaches(d, q, e, db)
<1> DEFINE t == OwnInsertTrigger(d)
           a == Action(d, "new", Itself)
<1>1. d.model \in Tables /\ q \in Pks[d.model] /\ db[d.model][q] # Absent
  BY Models DEF Live
<1>2. d.model = e.table /\ q = e.pk /\ e.event = "insert"
  BY <1>1, RowsDiffer, EventKinds
<1>3. t \in Triggers(d, ctId)
  BY SelfParts DEF Triggers
<1>4. /\ t.table = d.model /\ t.event = "insert" /\ t.generic = None
      /\ t.actions = {a}
  BY DEF OwnInsertTrigger, Trigger
<1>5. When(t, e)
  BY <1>2, <1>4 DEF When
<1>6. q \in Targets(a, e, db) /\ Does(d, a)
  BY <1>2, ActionDoes, TargetsOf
<1> QED BY <1>3, <1>4, <1>5, <1>6 DEF Reaches

(* So does a change of a column the function reads of its own row.         *)
LEMMA OwnInputsReach ==
  ASSUME NEW d \in Declared, NEW e, NEW db, Steps(e, db),
         NEW q \in Live(d.model, db), rows[d.model][q] # Absent,
         Seen(d.model, q, OwnInputs(d), rows) # Seen(d.model, q, OwnInputs(d), db)
  PROVE  Reaches(d, q, e, db)
<1> DEFINE a == Action(d, "new", Itself)
           m == d.model
<1>1. m \in Tables /\ q \in Pks[m] /\ db[m][q] # Absent
      /\ d.kind \in {"callback", "cachekey"}
  BY Models DEF Live
<1>2. /\ m = e.table /\ q = e.pk
      /\ e.event = "update" => OwnInputs(d) \cap Columns[m] \cap e.changed # {}
  BY <1>1, SeenDiffers
<1>3. e.event = "update"
  <2>1. e.old = rows[m][q] /\ e.new = db[m][q]
    BY <1>2 DEF Steps
  <2> QED BY <1>1, <2>1, EventKinds
<1>4. d.kind = "callback"
  <2>1. d.kind = "cachekey" => OwnInputs(d) = {}
    BY DEF OwnInputs
  <2> QED BY <1>1, <1>2, <1>3, <2>1
<1>5. q \in Targets(a, e, db) /\ Does(d, a)
  BY <1>2, ActionDoes, TargetsOf
<1>6. CASE d.fields = Undeclared
  <2> DEFINE t == OwnUpdateTrigger(d)
  <2>1. t \in Triggers(d, ctId)
    BY <1>4, <1>6, SelfParts DEF Triggers
  <2>2. OwnInputs(d) = Watch(d.model, d.skip \cup {d.field}, d.only)
    BY <1>4, <1>6 DEF OwnInputs
  <2>3. /\ t.table = m /\ t.event = "update" /\ t.generic = None
        /\ t.actions = {a} /\ t.watch = OwnInputs(d)
    BY <2>2 DEF OwnUpdateTrigger, Trigger
  <2>4. When(t, e)
    BY <1>2, <1>3, <2>3 DEF When
  <2> QED BY <1>5, <2>1, <2>3, <2>4 DEF Reaches
<1>7. CASE d.fields # Undeclared
  <2> DEFINE w == Watch(d.model, {}, d.fields)
             t == Trigger(d.model, "update", {a}, w, Suffix(d), None)
  <2>1. OwnInputs(d) = d.fields \ AlwaysSkip[m]
    BY <1>4, <1>7 DEF OwnInputs
  <2>2. d.fields # {}
    BY <1>2, <1>3, <2>1
  <2>3. t \in FieldTriggers(d)
    BY <1>7, <2>2 DEF FieldTriggers
  <2>4. t \in Triggers(d, ctId)
    BY <2>3 DEF Triggers
  <2>5. w = ((d.fields \cup AlwaysOnly[m]) \cap Columns[m]) \ AlwaysSkip[m]
    BY <2>2 DEF Watch
  <2>6. OwnInputs(d) \cap Columns[m] \subseteq w
    BY <2>1, <2>5
  <2>7. /\ t.table = m /\ t.event = "update" /\ t.generic = None
        /\ t.actions = {a} /\ t.watch = w
    BY DEF Trigger
  <2> HIDE DEF t, w
  <2>8. When(t, e)
    BY <1>2, <1>3, <2>6, <2>7 DEF When
  <2> QED BY <1>5, <2>4, <2>7, <2>8 DEF Reaches
<1> QED BY <1>6, <1>7

(* The triggers of a dependency are among those of the declaration.        *)
LEMMA DependencyTriggers ==
  ASSUME NEW d, NEW dep \in d.related, NEW t \in RelatedTriggers(d, dep, ctId),
         NEW e, When(t, e), NEW a \in t.actions, Does(d, a), NEW db,
         NEW q \in Targets(a, e, db)
  PROVE  Reaches(d, q, e, db)
BY DEF Reaches, Triggers

LEMMA ForwardReaches ==
  ASSUME NEW d \in Declared, NEW dep \in d.related,
         NEW r, r = Relation(d.model, dep).field,
         RelatedTriggers(d, dep, ctId) = ForwardTriggers(d, dep, r),
         NEW e, NEW db, Steps(e, db),
         NEW q \in Live(d.model, db), 
         rows[d.model][q][r.column] = db[d.model][q][r.column],
         ForwardInput(d, q, dep, r, rows) # ForwardInput(d, q, dep, r, db)
  PROVE  Reaches(d, q, e, db)
<1> DEFINE w == Watch(dep.other, dep.skip, dep.only)
           k == db[d.model][q][r.column]
           find == InTable(d.model, r.column, None)
           new == Action(d, "new", find)
           old == Action(d, "old", find)
           t(event, a) == Trigger(dep.other, event, {a}, w, Suffix(d), None)
<1>1. dep.other \in Tables
  BY Models
<1>2. Seen(dep.other, k, w, rows) # Seen(dep.other, k, w, db)
  BY DEF ForwardInput, Watched
<1> HIDE DEF w, k
<1>3. /\ dep.other = e.table /\ k = e.pk
      /\ e.event = "update" => w \cap Columns[dep.other] \cap e.changed # {}
  BY <1>1, <1>2, SeenDiffers
<1> USE DEF w, k
<1>4. ASSUME NEW a \in {new, old} PROVE q \in Targets(a, e, db) /\ Does(d, a)
  <2>1. a.find = InTable(d.model, r.column, None) /\ Does(d, a)
    BY ActionDoes
  <2>2. Targets(a, e, db) = {p \in Live(d.model, db) : db[d.model][p][r.column] = e.pk}
    BY <2>1, TargetsOf
  <2> QED BY <1>3, <2>1, <2>2
<1>5. /\ t("update", new) \in RelatedTriggers(d, dep, ctId)
      /\ t("insert", new) \in RelatedTriggers(d, dep, ctId)
      /\ t("delete", old) \in RelatedTriggers(d, dep, ctId)
  BY DEF ForwardTriggers, OnEvents
<1>6. ASSUME NEW event, NEW a, t(event, a) \in RelatedTriggers(d, dep, ctId),
             e.event = event, a \in {new, old}
      PROVE  Reaches(d, q, e, db)
  <2>1. /\ t(event, a).table = dep.other /\ t(event, a).event = event
        /\ t(event, a).watch = w /\ t(event, a).generic = None
        /\ t(event, a).actions = {a}
    BY DEF Trigger
  <2> HIDE DEF t, w, k
  <2>2. When(t(event, a), e)
    BY <1>3, <1>6, <2>1 DEF When
  <2>3. a \in t(event, a).actions
    BY <2>1
  <2> HIDE DEF new, old
  <2> QED BY <1>4, <1>6, <2>2, <2>3, DependencyTriggers
<1> HIDE DEF t, w, k, new, old
<1>7. e.event \in {"insert", "delete", "update"}
  BY EventKinds
<1> QED BY <1>5, <1>6, <1>7

(* A row that names q in a column, before or after the statement: the      *)
(* triggers that mark by that column find q.                               *)
LEMMA ColumnReaches ==
  ASSUME NEW d, NEW dep \in d.related, NEW e, NEW db, Steps(e, db),
         NEW c, NEW watch, NEW generic,
         OnEvents(e.table,
                  {Action(d, "new", InColumn(c)), Action(d, "old", InColumn(c))},
                  {Action(d, "new", InColumn(c))}, {Action(d, "old", InColumn(c))},
                  watch, Suffix(d), generic)
            \subseteq RelatedTriggers(d, dep, ctId),
         NEW row \in {e.old, e.new}, row # Absent,
         e.event = "update" => watch \cap e.changed # {},
         generic # None => row[generic.column] = generic.id
  PROVE  Reaches(d, row[c], e, db)
<1> DEFINE new == Action(d, "new", InColumn(c))
           old == Action(d, "old", InColumn(c))
           t(event, actions) ==
              Trigger(e.table, event, actions, watch, Suffix(d), generic)
<1>1. /\ t("update", {new, old}) \in RelatedTriggers(d, dep, ctId)
      /\ t("insert", {new}) \in RelatedTriggers(d, dep, ctId)
      /\ t("delete", {old}) \in RelatedTriggers(d, dep, ctId)
  BY DEF OnEvents
<1>2. /\ e.event \in {"insert", "delete", "update"}
      /\ e.event = "insert" => row = e.new
      /\ e.event = "delete" => row = e.old
  BY EventKinds
<1>3. \A a \in {new, old} : Does(d, a) /\ a.find = InColumn(c)
  BY ActionDoes
<1>4. new.side = "new" /\ old.side = "old"
  BY ActionDoes
<1>5. row[c] \in Targets(new, e, db) \/ row = e.old
  <2>1. Targets(new, e, db) = {e.new[c]}
    BY <1>3, <1>4, TargetsOf
  <2> QED BY <2>1
<1>6. row[c] \in Targets(old, e, db) \/ row = e.new
  <2>1. Targets(old, e, db) = {e.old[c]}
    BY <1>3, <1>4, TargetsOf
  <2> QED BY <2>1
<1>7. ASSUME NEW event, NEW actions, t(event, actions) \in RelatedTriggers(d, dep, ctId),
             e.event = event, NEW a \in actions, a \in {new, old},
             row[c] \in Targets(a, e, db)
      PROVE  Reaches(d, row[c], e, db)
  <2>1. /\ t(event, actions).table = e.table /\ t(event, actions).event = event
        /\ t(event, actions).watch = watch /\ t(event, actions).generic = generic
        /\ t(event, actions).actions = actions
    BY DEF Trigger
  <2> HIDE DEF t, new, old
  <2>2. When(t(event, actions), e)
    BY <1>2, <1>7, <2>1 DEF When
  <2>3. a \in t(event, actions).actions
    BY <2>1, <1>7
  <2> QED BY <1>3, <1>7, <2>2, <2>3, DependencyTriggers
<1> HIDE DEF t, new, old
<1>8. CASE e.event = "update"
  <2>1. CASE row[c] \in Targets(new, e, db)
    BY <1>1, <1>7, <1>8, <2>1
  <2>2. CASE row[c] \in Targets(old, e, db)
    BY <1>1, <1>7, <1>8, <2>2
  <2>3. e.old # Absent /\ e.new # Absent
    BY <1>8, EventKinds
  <2>4. CASE row = e.new
    <3>1. Targets(new, e, db) = {e.new[c]}
      BY <1>3, <1>4, TargetsOf
    <3> QED BY <2>1, <2>4, <3>1
  <2>5. CASE row = e.old
    <3>1. Targets(old, e, db) = {e.old[c]}
      BY <1>3, <1>4, TargetsOf
    <3> QED BY <2>2, <2>5, <3>1
  <2> QED BY <2>4, <2>5
<1>9. CASE e.event = "insert"
  <2>1. Targets(new, e, db) = {e.new[c]}
    BY <1>3, <1>4, TargetsOf
  <2>2. row[c] \in Targets(new, e, db)
    BY <1>2, <1>9, <2>1
  <2> QED BY <1>1, <1>7, <1>9, <2>2
<1>10. CASE e.event = "delete"
  <2>1. Targets(old, e, db) = {e.old[c]}
    BY <1>3, <1>4, TargetsOf
  <2>2. row[c] \in Targets(old, e, db)
    BY <1>2, <1>10, <2>1
  <2> QED BY <1>1, <1>7, <1>10, <2>2
<1> QED BY <1>2, <1>8, <1>9, <1>10

(* Where a row is seen differently, or is in a selection before or after   *)
(* the statement only, a watched column of it has changed.                 *)
LEMMA ColumnChanged ==
  ASSUME NEW e, NEW db, Steps(e, db), e.event = "update",
         NEW c, e.old[c] # e.new[c], \A v \in Contents[e.table] : c \in DOMAIN v
  PROVE  c \in e.changed /\ c \in Columns[e.table]
<1>1. e.new # Absent /\ e.new \in Contents[e.table] /\ e.table \in Tables
  BY EventKinds
<1>2. c \in DOMAIN e.new /\ DOMAIN e.new \subseteq Columns[e.table]
  BY <1>1, ContentOf
<1> QED BY <1>2, EventKinds

LEMMA BackwardReaches ==
  ASSUME NEW d \in Declared, NEW dep \in d.related,
         NEW r, r = Relation(d.model, dep).field,
         Relation(d.model, dep).type = "backward",
         RelatedTriggers(d, dep, ctId) = BackwardTriggers(d, dep, r),
         NEW e, NEW db, Steps(e, db), NEW q,
         BackwardInput(q, dep, r, rows) # BackwardInput(q, dep, r, db)
  PROVE  Reaches(d, q, e, db)
<1> DEFINE w == Watch(dep.other, dep.skip, dep.only)
           In(x, b) == x \in Live(dep.other, b) /\ b[dep.other][x][r.column] = q
<1>1. /\ dep.other \in Tables
      /\ r.column \in w
      /\ \A v \in Contents[dep.other] : r.column \in DOMAIN v
  <2>1. r \in Relations /\ r.kind = "fk" /\ r.from = dep.other
    BY Ends
  <2>2. Holds(dep.other, r.column, r.to)
    BY <2>1, RelationAssumption
  <2> QED BY Models, <2>2, FollowAssumption DEF Follows, Holds
<1>2. PICK x : /\ In(x, rows) \/ In(x, db)
               /\ ~(/\ In(x, rows) /\ In(x, db)
                    /\ Watched(dep, x, rows) = Watched(dep, x, db))
  BY DEF BackwardInput
<1>3. x \in Pks[dep.other]
  BY <1>2 DEF Live
<1>4. /\ dep.other = e.table /\ x = e.pk
      /\ e.old = rows[dep.other][x] /\ e.new = db[dep.other][x]
  <2>1. CASE rows[dep.other][x] = db[dep.other][x]
    <3>1. Watched(dep, x, rows) # Watched(dep, x, db)
      BY <1>2, <2>1 DEF Live
    <3>2. Watched(dep, x, rows) = Watched(dep, x, db)
      BY <2>1 DEF Watched, Seen
    <3> QED BY <3>1, <3>2
  <2> QED BY <1>1, <1>3, <2>1, RowsDiffer
<1>5. PICK row \in {e.old, e.new} : row # Absent /\ row[r.column] = q
  BY <1>2, <1>4 DEF Live
<1>6. ASSUME e.event = "update" PROVE w \cap e.changed # {}
  <2>1. e.old # Absent /\ e.new # Absent
    BY <1>6, EventKinds
  <2>2. CASE e.old[r.column] # e.new[r.column]
    BY <1>1, <1>4, <1>6, <2>2, ColumnChanged
  <2>3. CASE e.old[r.column] = e.new[r.column]
    <3>1. In(x, rows) /\ In(x, db)
      BY <1>2, <1>3, <1>4, <2>1, <2>3 DEF Live
    <3>2. Seen(dep.other, x, w, rows) # Seen(dep.other, x, w, db)
      BY <1>2, <3>1 DEF Watched
    <3> HIDE DEF w
    <3> QED BY <1>1, <1>6, <3>2, SeenDiffers
  <2> QED BY <2>2, <2>3
<1>7. OnEvents(e.table,
                  {Action(d, "new", InColumn(r.column)), Action(d, "old", InColumn(r.column))},
                  {Action(d, "new", InColumn(r.column))}, {Action(d, "old", InColumn(r.column))},
                  w, Suffix(d), None)
            \subseteq RelatedTriggers(d, dep, ctId)
  BY <1>4 DEF BackwardTriggers
<1> HIDE DEF w
<1>8. Reaches(d, row[r.column], e, db)
  BY <1>5, <1>6, <1>7, ColumnReaches
<1> QED BY <1>5, <1>8

LEMMA GenericReaches ==
  ASSUME NEW d \in Declared, NEW dep \in d.related,
         NEW r \in Relations, r.kind = "generic", 
         RelatedTriggers(d, dep, ctId) = GenericTriggers(d, InColumn(r.column), r, ctId),
         NEW e, NEW db, Steps(e, db), NEW q,
         GenericInput(d, q, r, rows) # GenericInput(d, q, r, db)
  PROVE  Reaches(d, q, e, db)
<1> DEFINE w == Columns[r.to]
           In(x, b) == /\ x \in Live(r.to, b) /\ b[r.to][x][r.column] = q
                       /\ b[r.to][x][r.ctcolumn] = ctId[d.model]
           g == [column |-> r.ctcolumn, id |-> ctId[d.model]]
<1>1. /\ r.to \in Tables
      /\ \A v \in Contents[r.to] : r.column \in DOMAIN v /\ r.ctcolumn \in DOMAIN v
  BY RelationAssumption DEF Holds
<1>2. PICK x : /\ In(x, rows) \/ In(x, db)
               /\ ~(/\ In(x, rows) /\ In(x, db)
                    /\ Seen(r.to, x, w, rows) = Seen(r.to, x, w, db))
  BY DEF GenericInput
<1>3. x \in Pks[r.to]
  BY <1>2 DEF Live
<1>4. /\ r.to = e.table /\ x = e.pk
      /\ e.old = rows[r.to][x] /\ e.new = db[r.to][x]
  <2>1. CASE rows[r.to][x] = db[r.to][x]
    <3>1. Seen(r.to, x, w, rows) # Seen(r.to, x, w, db)
      BY <1>2, <2>1 DEF Live
    <3>2. Seen(r.to, x, w, rows) = Seen(r.to, x, w, db)
      BY <2>1 DEF Seen
    <3> QED BY <3>1, <3>2
  <2> QED BY <1>1, <1>3, <2>1, RowsDiffer
<1>5. PICK row \in {e.old, e.new} :
        row # Absent /\ row[r.column] = q /\ row[r.ctcolumn] = ctId[d.model]
  BY <1>2, <1>4 DEF Live
<1>6. ASSUME e.event = "update" PROVE w \cap e.changed # {}
  <2>1. e.old # Absent /\ e.new # Absent
    BY <1>6, EventKinds
  <2>2. CASE e.old[r.column] # e.new[r.column]
    BY <1>1, <1>4, <1>6, <2>2, ColumnChanged
  <2>3. CASE e.old[r.ctcolumn] # e.new[r.ctcolumn]
    BY <1>1, <1>4, <1>6, <2>3, ColumnChanged
  <2>4. CASE e.old[r.column] = e.new[r.column] /\ e.old[r.ctcolumn] = e.new[r.ctcolumn]
    <3>1. In(x, rows) /\ In(x, db)
      BY <1>2, <1>3, <1>4, <2>1, <2>4 DEF Live
    <3>2. Seen(r.to, x, w, rows) # Seen(r.to, x, w, db)
      BY <1>2, <3>1
    <3> HIDE DEF w
    <3> QED BY <1>1, <1>6, <3>2, SeenDiffers
  <2> QED BY <2>2, <2>3, <2>4
<1>7. OnEvents(e.table,
                  {Action(d, "new", InColumn(r.column)), Action(d, "old", InColumn(r.column))},
                  {Action(d, "new", InColumn(r.column))}, {Action(d, "old", InColumn(r.column))},
                  w, Suffix(d), g)
            \subseteq RelatedTriggers(d, dep, ctId)
  BY <1>4 DEF GenericTriggers
<1>8. row[g.column] = g.id
  BY <1>5
<1> HIDE DEF w, g
<1>9. Reaches(d, row[r.column], e, db)
  BY <1>5, <1>6, <1>7, <1>8, ColumnReaches
<1> QED BY <1>5, <1>9

(* The ends of a link: this is the column of the model that declares.      *)
Link(d, dep, this, that, r) ==
    /\ r.table \in Tables
    /\ \A v \in Contents[r.table] : this \in DOMAIN v /\ that \in DOMAIN v
    /\ \A l \in Live(r.table, rows) : rows[r.table][l][that] \in Live(dep.other, rows)

LEMMA M2mReaches ==
  ASSUME NEW d \in Declared, NEW dep \in d.related, NEW this, NEW that, NEW r,
         RelatedTriggers(d, dep, ctId) = M2mTriggers(d, dep, this, that, r),
         NEW e, NEW db, Steps(e, db), Shaped(db), NEW q,
         Link(d, dep, this, that, r),
         \A l \in Live(r.table, db) : db[r.table][l][that] \in Live(dep.other, db),
         M2mInput(q, dep, this, that, r, rows) # M2mInput(q, dep, this, that, r, db)
  PROVE  Reaches(d, q, e, db)
<1> DEFINE T == r.table
           w == Watch(dep.other, dep.skip, dep.only)
           In(x, b) == x \in Live(T, b) /\ b[T][x][this] = q
           Same2(x) == rows[T][x][that] = db[T][x][that]
<1>1. dep.other \in Tables /\ T \in Tables
  BY Models DEF Link
<1>2. PICK x : /\ In(x, rows) \/ In(x, db)
               /\ ~(/\ In(x, rows) /\ In(x, db) /\ Same2(x)
                    /\ Watched(dep, rows[T][x][that], rows)
                         = Watched(dep, db[T][x][that], db))
  BY DEF M2mInput
<1>3. x \in Pks[T]
  BY <1>2 DEF Live
<1>4. CASE In(x, rows) /\ In(x, db) /\ Same2(x)
  <2> DEFINE k == db[T][x][that]
             find == InTable(T, that, this)
             a == Action(d, "new", find)
             t == Trigger(dep.other, "update", {a}, w, Suffix(d), None)
  <2>1. Seen(dep.other, k, w, rows) # Seen(dep.other, k, w, db)
    BY <1>2, <1>4 DEF Watched
  <2>2. k \in Live(dep.other, rows) /\ k \in Live(dep.other, db)
    BY <1>4 DEF Link
  <2>3. this # None
    <3>1. db[T][x] \in Contents[T]
      BY <1>1, <1>3, <1>4 DEF Shaped, Live
    <3>2. this \in Columns[T]
      BY <1>1, <3>1, ContentOf DEF Link
    <3> QED BY <1>1, <3>2, SchemaAssumption
  <2> HIDE DEF w, k
  <2>4. /\ dep.other = e.table /\ k = e.pk
        /\ e.event = "update" => w \cap Columns[dep.other] \cap e.changed # {}
    BY <1>1, <2>1, SeenDiffers
  <2>5. e.event = "update"
    <3>1. e.old = rows[dep.other][k] /\ e.new = db[dep.other][k]
      BY <2>4 DEF Steps
    <3> QED BY <2>2, <3>1, EventKinds DEF Live
  <2>6. /\ t.table = dep.other /\ t.event = "update" /\ t.watch = w
        /\ t.generic = None /\ t.actions = {a}
    BY DEF Trigger
  <2>7. t \in RelatedTriggers(d, dep, ctId)
    BY DEF M2mTriggers, w
  <2>8. a.find = InTable(T, that, this) /\ Does(d, a)
    BY ActionDoes
  <2>9. q \in Targets(a, e, db)
    <3>1. Targets(a, e, db) =
            {db[T][p][this] : p \in {y \in Live(T, db) : db[T][y][that] = e.pk}}
      BY <2>3, <2>8, TargetsOf
    <3> QED BY <1>4, <2>4, <3>1 DEF k
  <2> HIDE DEF t, a
  <2>10. When(t, e)
    BY <2>4, <2>5, <2>6 DEF When
  <2>11. a \in t.actions
    BY <2>6
  <2> QED BY <2>7, <2>8, <2>9, <2>10, <2>11, DependencyTriggers
<1>5. CASE ~(In(x, rows) /\ In(x, db) /\ Same2(x))
  <2>1. rows[T][x] # db[T][x]
    BY <1>2, <1>5 DEF Live
  <2>2. T = e.table /\ x = e.pk /\ e.old = rows[T][x] /\ e.new = db[T][x]
    BY <1>1, <1>3, <2>1, RowsDiffer
  <2>3. PICK row \in {e.old, e.new} : row # Absent /\ row[this] = q
    BY <1>2, <2>2 DEF Live
  <2>4. ASSUME e.event = "update" PROVE {this, that} \cap e.changed # {}
    <3>1. e.old # Absent /\ e.new # Absent
      BY <2>4, EventKinds
    <3>2. e.old[this] # e.new[this] \/ e.old[that] # e.new[that]
      BY <1>2, <1>3, <1>5, <2>2, <3>1 DEF Live
    <3>3. \A v \in Contents[e.table] : this \in DOMAIN v /\ that \in DOMAIN v
      BY <2>2 DEF Link
    <3> QED BY <2>2, <2>4, <3>2, <3>3, ColumnChanged
  <2>5. OnEvents(e.table,
                  {Action(d, "new", InColumn(this)), Action(d, "old", InColumn(this))},
                  {Action(d, "new", InColumn(this))}, {Action(d, "old", InColumn(this))},
                  {this, that}, Suffix(d), None)
            \subseteq RelatedTriggers(d, dep, ctId)
    BY <2>2 DEF M2mTriggers
  <2>6. Reaches(d, row[this], e, db)
    BY <2>3, <2>4, <2>5, ColumnReaches
  <2> QED BY <2>3, <2>6
<1> QED BY <1>4, <1>5

(* What a dependency reads, by its type.                                   *)
Reads(d, q, dep, db, I) ==
    LET c == Relation(d.model, dep)
        r == c.field
    IN /\ c.type = "forward" => I = ForwardInput(d, q, dep, r, db)
       /\ c.type = "backward" => I = BackwardInput(q, dep, r, db)
       /\ c.type = "forward_m2m" /\ r.kind = "generic" => I = GenericInput(d, q, r, db)
       /\ c.type = "forward_m2m" /\ r.kind = "m2m" =>
            I = M2mInput(q, dep, r.column, r.reverse, r, db)
       /\ c.type = "backward_m2m" /\ r.kind = "m2m" =>
            I = M2mInput(q, dep, r.reverse, r.column, r, db)

LEMMA ReadsByType ==
  ASSUME NEW d \in Declared, NEW dep \in d.related, NEW q, NEW db
  PROVE  Reads(d, q, dep, db, RelatedInput(d, q, dep, db))
<1> DEFINE c == Relation(d.model, dep)
           r == c.field
           I == RelatedInput(d, q, dep, db)
<1>0. c.type \in {"forward", "backward"} => r.kind = "fk"
  BY Ends
<1>1. ASSUME c.type = "forward" PROVE I = ForwardInput(d, q, dep, r, db)
  BY <1>0, <1>1 DEF RelatedInput
<1>2. ASSUME c.type = "backward" PROVE I = BackwardInput(q, dep, r, db)
  BY <1>0, <1>2 DEF RelatedInput
<1>3. ASSUME c.type = "forward_m2m", r.kind = "generic" PROVE I = GenericInput(d, q, r, db)
  BY <1>3 DEF RelatedInput
<1>4. ASSUME c.type = "forward_m2m", r.kind = "m2m"
      PROVE I = M2mInput(q, dep, r.column, r.reverse, r, db)
  BY <1>4 DEF RelatedInput
<1>5. ASSUME c.type = "backward_m2m", r.kind = "m2m"
      PROVE I = M2mInput(q, dep, r.reverse, r.column, r, db)
  BY <1>5 DEF RelatedInput
<1> HIDE DEF c, r, I
<1> QED BY <1>1, <1>2, <1>3, <1>4, <1>5 DEF Reads, c, r, I

LEMMA DependencyReaches ==
  ASSUME NEW d \in Declared, NEW dep \in d.related,
         NEW e, NEW db, Steps(e, db), Shaped(rows), Shaped(db), Kept(rows), Kept(db),
         NEW q \in Live(d.model, db), rows[d.model][q] # Absent,
         d.kind = "cachekey" => rows[d.model][q] = db[d.model][q],
         RelatedInput(d, q, dep, rows) # RelatedInput(d, q, dep, db)
  PROVE  Reaches(d, q, e, db)
<1> DEFINE c == Relation(d.model, dep)
           r == c.field
           T == RelatedTriggers(d, dep, ctId)
<1>1. Kinds(d, dep, ctId, T)
  BY ByType
<1>2. /\ Reads(d, q, dep, rows, RelatedInput(d, q, dep, rows))
      /\ Reads(d, q, dep, db, RelatedInput(d, q, dep, db))
  BY ReadsByType
<1>3. CASE c.type = "forward" /\ r.kind = "fk" /\ T = ForwardTriggers(d, dep, r)
  <2>1. ForwardInput(d, q, dep, r, rows) # ForwardInput(d, q, dep, r, db)
    BY <1>2, <1>3 DEF Reads
  <2>2. CASE rows[d.model][q][r.column] = db[d.model][q][r.column]
    BY <1>3, <2>1, <2>2, ForwardReaches
  <2>3. CASE rows[d.model][q][r.column] # db[d.model][q][r.column]
    <3>1. d.kind = "callback"
      BY <2>3, Models
    <3>2. r.column \in OwnInputs(d)
      BY <1>3, <3>1, FollowAssumption DEF Follows
    <3>3. d.model \in Tables /\ q \in Pks[d.model]
      BY Models DEF Live
    <3>4. /\ rows[d.model][q] \in Contents[d.model] /\ rows[d.model][q] # Absent
          /\ db[d.model][q] \in Contents[d.model] /\ db[d.model][q] # Absent
      BY <3>3 DEF Shaped, Live
    <3>5. \A v \in Contents[d.model] : r.column \in DOMAIN v
      <4>1. r \in Relations /\ r.from = d.model
        BY <1>3, Ends
      <4> QED BY <1>3, <4>1, RelationAssumption DEF Holds
    <3> DEFINE old == Seen(d.model, q, OwnInputs(d), rows)
               new == Seen(d.model, q, OwnInputs(d), db)
    <3>6. old[r.column] = rows[d.model][q][r.column] /\ new[r.column] = db[d.model][q][r.column]
      BY <3>2, <3>3, <3>4, <3>5 DEF Seen
    <3>7. old # new
      BY <2>3, <3>6
    <3> HIDE DEF old, new
    <3> QED BY <3>4, <3>7, OwnInputsReach DEF old, new
  <2> QED BY <2>2, <2>3
<1>4. CASE c.type = "backward" /\ r.kind = "fk" /\ T = BackwardTriggers(d, dep, r)
  <2>1. BackwardInput(q, dep, r, rows) # BackwardInput(q, dep, r, db)
    BY <1>2, <1>4 DEF Reads
  <2> QED BY <1>4, <2>1, BackwardReaches
<1>5. CASE /\ c.type = "forward_m2m" /\ r.kind = "generic"
           /\ T = GenericTriggers(d, InColumn(r.column), r, ctId)
  <2>1. GenericInput(d, q, r, rows) # GenericInput(d, q, r, db)
    BY <1>2, <1>5 DEF Reads
  <2>2. r \in Relations
    BY Ends
  <2> QED BY <1>5, <2>1, <2>2, GenericReaches
<1>6. CASE /\ c.type = "forward_m2m" /\ r.kind = "m2m"
           /\ T = M2mTriggers(d, dep, r.column, r.reverse, r)
  <2>1. M2mInput(q, dep, r.column, r.reverse, r, rows)
          # M2mInput(q, dep, r.column, r.reverse, r, db)
    BY <1>2, <1>6 DEF Reads
  <2>2. r \in Relations /\ r.to = dep.other
    BY <1>6, Ends
  <2>3. Link(d, dep, r.column, r.reverse, r)
    BY <1>6, <2>2, RelationAssumption DEF Link, Holds, Kept
  <2>4. \A l \in Live(r.table, db) : db[r.table][l][r.reverse] \in Live(dep.other, db)
    BY <1>6, <2>2 DEF Kept
  <2> QED BY <1>6, <2>1, <2>3, <2>4, M2mReaches
<1>7. CASE /\ c.type = "backward_m2m" /\ r.kind = "m2m"
           /\ T = M2mTriggers(d, dep, r.reverse, r.column, r)
  <2>1. M2mInput(q, dep, r.reverse, r.column, r, rows)
          # M2mInput(q, dep, r.reverse, r.column, r, db)
    BY <1>2, <1>7 DEF Reads
  <2>2. r \in Relations /\ r.from = dep.other
    BY <1>7, Ends
  <2>3. Link(d, dep, r.reverse, r.column, r)
    BY <1>7, <2>2, RelationAssumption DEF Link, Holds, Kept
  <2>4. \A l \in Live(r.table, db) : db[r.table][l][r.column] \in Live(dep.other, db)
    BY <1>7, <2>2 DEF Kept
  <2> QED BY <1>7, <2>1, <2>3, <2>4, M2mReaches
<1> HIDE DEF c, r, T
<1> QED BY <1>1, <1>3, <1>4, <1>5, <1>6, <1>7 DEF Kinds, c, r, T

(* The triggers of a declaration cover what it says it depends on.         *)
LEMMA Covered ==
  ASSUME NEW d \in Declared, NEW e, NEW db, Steps(e, db), 
         Shaped(rows), Shaped(db), Kept(rows), Kept(db),
         NEW q \in Live(d.model, db), Input(d, q, rows) # Input(d, q, db),
         d.kind = "cachekey" => rows[d.model][q] = db[d.model][q]
  PROVE  Reaches(d, q, e, db)
<1>1. db[d.model][q] # Absent
  BY DEF Live
<1>2. CASE rows[d.model][q] = Absent
  BY <1>1, <1>2, OwnRowReaches
<1>3. CASE rows[d.model][q] # Absent
  <2>1. \/ Seen(d.model, q, OwnInputs(d), rows) # Seen(d.model, q, OwnInputs(d), db)
        \/ \E dep \in d.related : RelatedInput(d, q, dep, rows) # RelatedInput(d, q, dep, db)
    BY <1>1, <1>3 DEF Input
  <2> QED BY <1>3, <2>1, OwnInputsReach, DependencyReaches
<1> QED BY <1>2, <1>3

(* So what a statement makes stale is marked or given a new key.           *)
LEMMA MarkedOrTouched ==
  ASSUME Known, UpToDate, NEW e, NEW db, Steps(e, db),
         Shaped(rows), Shaped(db), Kept(rows), Kept(db), NEW c \in Changed(db)
  PROVE  c \in Done("mark", Cascade(e, db), db) \cup Touched(Cascade(e, db), db)
<1> DEFINE E == Cascade(e, db)
<1>1. e \in E
  BY DEF Cascade
<1> HIDE DEF E
<1>2. PICK d \in Code[code] : \E q \in Live(d.model, db) :
        /\ c = Cell(d, q) /\ Input(d, q, rows) # Input(d, q, db)
        /\ d.kind = "cachekey" => rows[d.model][q] = db[d.model][q]
  BY DEF Changed
<1>3. PICK q \in Live(d.model, db) :
        /\ c = Cell(d, q) /\ Input(d, q, rows) # Input(d, q, db)
        /\ d.kind = "cachekey" => rows[d.model][q] = db[d.model][q]
  BY <1>2
<1>4. d \in Declared
  BY DEF Known, Declared
<1>5. Reaches(d, q, e, db)
  BY <1>3, <1>4, Covered
<1>6. PICK t \in Triggers(d, ctId) : \E a \in t.actions :
        When(t, e) /\ Does(d, a) /\ q \in Targets(a, e, db)
  BY <1>5 DEF Reaches
<1>7. PICK a \in t.actions : When(t, e) /\ Does(d, a) /\ q \in Targets(a, e, db)
  BY <1>6
<1>8. <<a.model, q, a.field>> \in Done(a.do, E, db)
  BY <1>1, <1>7, Fires
<1>9. c = <<a.model, q, a.field>> /\ a.do \in {"mark", "touch"} /\ a.model = d.model
  BY <1>3, <1>7 DEF Does, Cell
<1> QED BY <1>3, <1>8, <1>9 DEF Touched, E

-----------------------------------------------------------------------------
(* What the triggers mark are rows                                         *)

LEMMA FindsByActions ==
  ASSUME NEW t, NEW u, NEW a, t.table = u.table, t.event = u.event, FindsRows(t, a)
  PROVE  FindsRows(u, a)
BY DEF FindsRows

LEMMA FindsItself ==
  ASSUME NEW d, d.model \in DOMAIN Ct0, d.field \in Columns[d.model],
         NEW t, t.table = d.model, NEW side
  PROVE  FindsRows(t, Action(d, side, Itself))
BY DEF FindsRows, Action, Itself

LEMMA FindsInColumn ==
  ASSUME NEW d \in Declared, NEW c, NEW t, NEW side, 
         t.event \in {"update", IF side = "new" THEN "insert" ELSE "delete"},
         Holds(t.table, c, d.model)
  PROVE  FindsRows(t, Action(d, side, InColumn(c)))
BY Models DEF FindsRows, Action, InColumn, Holds

LEMMA FindsInTable ==
  ASSUME NEW d \in Declared, NEW t, NEW side, NEW table, NEW where, NEW get,
         \/ get = None /\ table = d.model
         \/ table \in Tables /\ Holds(table, get, d.model)
  PROVE  FindsRows(t, Action(d, side, InTable(table, where, get)))
<1> DEFINE a == Action(d, side, InTable(table, where, get))
<1>1. /\ a.model = d.model /\ a.field = d.field /\ a.find.in = "table"
      /\ a.find.table = table /\ a.find.get = get
  BY DEF Action, InTable
<1>2. d.model \in DOMAIN Ct0 /\ d.model \in Tables /\ d.field \in Columns[d.model]
  BY Models
<1> SUFFICES FindsRows(t, a)
  OBVIOUS
<1> HIDE DEF a
<1>3. CASE get = None /\ table = d.model
  BY <1>1, <1>2, <1>3 DEF FindsRows
<1>4. CASE table \in Tables /\ Holds(table, get, d.model)
  <2>1. get # None
    BY <1>4, SchemaAssumption DEF Holds
  <2> QED BY <1>1, <1>2, <1>4, <2>1 DEF FindsRows, Holds
<1> QED BY <1>3, <1>4

LEMMA EventsFind ==
  ASSUME NEW d \in Declared, NEW c, NEW table, Holds(table, c, d.model),
         NEW watch, NEW func, NEW generic, 
         NEW t \in OnEvents(table,
                {Action(d, "new", InColumn(c)), Action(d, "old", InColumn(c))},
                {Action(d, "new", InColumn(c))}, {Action(d, "old", InColumn(c))},
                watch, func, generic),
         NEW a \in t.actions
  PROVE  FindsRows(t, a)
<1> DEFINE new == Action(d, "new", InColumn(c))
           old == Action(d, "old", InColumn(c))
<1>1. \/ t = Trigger(table, "update", {new, old}, watch, func, generic)
      \/ t = Trigger(table, "insert", {new}, watch, func, generic)
      \/ t = Trigger(table, "delete", {old}, watch, func, generic)
  BY DEF OnEvents
<1> HIDE DEF new, old
<1>2. /\ t.table = table
      /\ \/ t.event = "update" /\ a \in {new, old}
         \/ t.event = "insert" /\ a = new
         \/ t.event = "delete" /\ a = old
  BY <1>1 DEF Trigger
<1> QED BY <1>2, FindsInColumn DEF new, old

LEMMA RelatedFind ==
  ASSUME NEW d \in Declared, NEW dep \in d.related, NEW ids,
         NEW t \in RelatedTriggers(d, dep, ids), NEW a \in t.actions
  PROVE  FindsRows(t, a)
<1> DEFINE c == Relation(d.model, dep)
           r == c.field
           T == RelatedTriggers(d, dep, ids)
<1>1. Kinds(d, dep, ids, T)
  BY ByType
<1>2. r \in Relations
  BY Ends
<1>3. CASE T = ForwardTriggers(d, dep, r)
  <2> DEFINE find == InTable(d.model, r.column, None)
  <2>1. a \in {Action(d, "new", find), Action(d, "old", find)}
    BY <1>3 DEF ForwardTriggers, OnEvents, Trigger
  <2> QED BY <2>1, FindsInTable
<1>4. CASE c.type = "backward" /\ r.kind = "fk" /\ T = BackwardTriggers(d, dep, r)
  <2>1. Holds(dep.other, r.column, d.model)
    BY <1>2, <1>4, Ends, RelationAssumption
  <2> QED BY <1>4, <2>1, EventsFind DEF BackwardTriggers
<1>5. CASE /\ c.type = "forward_m2m" /\ r.kind = "generic"
           /\ T = GenericTriggers(d, InColumn(r.column), r, ids)
  <2>1. Holds(r.to, r.column, d.model)
    BY <1>2, <1>5, Ends, RelationAssumption
  <2> QED BY <1>5, <2>1, EventsFind DEF GenericTriggers
<1>6. ASSUME NEW this, NEW that, T = M2mTriggers(d, dep, this, that, r),
             r.table \in Tables, Holds(r.table, this, d.model)
      PROVE  FindsRows(t, a)
  <2> DEFINE new == Action(d, "new", InColumn(this))
             old == Action(d, "old", InColumn(this))
             other == Action(d, "new", InTable(r.table, that, this))
             w == Watch(dep.other, dep.skip, dep.only)
  <2>1. \/ t \in OnEvents(r.table, {new, old}, {new}, {old}, {this, that}, Suffix(d), None)
        \/ t = Trigger(dep.other, "update", {other}, w, Suffix(d), None)
    BY <1>6 DEF M2mTriggers
  <2>2. CASE t \in OnEvents(r.table, {new, old}, {new}, {old}, {this, that}, Suffix(d), None)
    BY <1>6, <2>2, EventsFind
  <2>3. CASE t = Trigger(dep.other, "update", {other}, w, Suffix(d), None)
    <3>1. a = other
      BY <2>3 DEF Trigger
    <3> QED BY <1>6, <3>1, FindsInTable
  <2> QED BY <2>1, <2>2, <2>3
<1>7. CASE /\ c.type = "forward_m2m" /\ r.kind = "m2m"
           /\ T = M2mTriggers(d, dep, r.column, r.reverse, r)
  <2>1. r.table \in Tables /\ Holds(r.table, r.column, d.model)
    BY <1>2, <1>7, Ends, RelationAssumption
  <2> QED BY <1>6, <1>7, <2>1
<1>8. CASE /\ c.type = "backward_m2m" /\ r.kind = "m2m"
           /\ T = M2mTriggers(d, dep, r.reverse, r.column, r)
  <2>1. r.table \in Tables /\ Holds(r.table, r.reverse, d.model)
    BY <1>2, <1>8, Ends, RelationAssumption
  <2> QED BY <1>6, <1>8, <2>1
<1> HIDE DEF c, r, T
<1> QED BY <1>1, <1>3, <1>4, <1>5, <1>7, <1>8 DEF Kinds, c, r, T

LEMMA AllFind ==
  ASSUME NEW d \in Declared, NEW ids, NEW t \in Triggers(d, ids), NEW a \in t.actions
  PROVE  FindsRows(t, a)
<1>1. d.model \in DOMAIN Ct0 /\ d.field \in Columns[d.model]
  BY Models
<1>2. CASE t \in SelfTriggers(d)
  <2>1. t = OwnInsertTrigger(d) \/ t = OwnUpdateTrigger(d)
    BY <1>2, SelfParts
  <2>2. /\ OwnInsertTrigger(d).table = d.model
        /\ OwnInsertTrigger(d).actions = {Action(d, "new", Itself)}
        /\ OwnUpdateTrigger(d).table = d.model
        /\ OwnUpdateTrigger(d).actions = {Action(d, "new", Itself)}
    BY DEF OwnInsertTrigger, OwnUpdateTrigger, Trigger
  <2>3. t.table = d.model /\ a = Action(d, "new", Itself)
    BY <2>1, <2>2
  <2> QED BY <1>1, <2>3, FindsItself
<1>3. CASE t \in FieldTriggers(d)
  <2>1. t = Trigger(d.model, "update", {Action(d, "new", Itself)},
                    Watch(d.model, {}, d.fields), Suffix(d), None)
    BY <1>3 DEF FieldTriggers
  <2>2. t.table = d.model /\ t.actions = {Action(d, "new", Itself)}
    BY <2>1 DEF Trigger
  <2> QED BY <1>1, <2>2, FindsItself
<1> QED BY <1>2, <1>3, PartsOf, RelatedFind

(* The triggers of a version, after merging.                               *)
LEMMA BuildFinds ==
  ASSUME NEW v \in Versions, NEW ids \in Numberings, NEW n \in DOMAIN Build(v, ids),
         NEW a \in Build(v, ids)[n].actions
  PROVE  FindsRows(Build(v, ids)[n], a)
<1> DEFINE same == {x \in Built(v, ids) : Name(x) = n}
           u == CHOOSE x \in same : TRUE
           b == Build(v, ids)[n]
<1>1. Build(v, ids) = [k \in {Name(x) : x \in Built(v, ids)} |->
                         Merge({x \in Built(v, ids) : Name(x) = k})]
  BY Same DEF Build, Built
<1>2. b = Merge(same) /\ n \in {Name(x) : x \in Built(v, ids)}
  BY <1>1
<1>3. same # {}
  BY <1>2
<1>4. u \in same
  BY <1>3
<1>5. /\ b.table = u.table /\ b.event = u.event
      /\ b.actions = UNION {x.actions : x \in same}
  BY <1>2 DEF Merge, Together, Trigger
<1> HIDE DEF u, b
<1>6. PICK t \in same : a \in t.actions
  BY <1>5 DEF b
<1>7. t.table = u.table /\ t.event = u.event
  BY <1>4, OneName
<1>8. FindsRows(t, a)
  BY <1>6, BuiltBy, AllFind
<1>9. FindsRows(b, a)
  BY <1>5, <1>7, <1>8, FindsByActions
<1> QED BY <1>9 DEF b

LEMMA LegacyFinds ==
  ASSUME NEW n \in DOMAIN Legacy, NEW a \in Legacy[n].actions
  PROVE  FindsRows(Legacy[n], a)
<1> DEFINE old(d) == [OwnUpdateTrigger(d) EXCEPT
                        !.watch = @ \cup {d.field}, !.func = <<d.func, "">>]
           all == {old(d) : d \in LegacySelf}
           t == CHOOSE x \in all : Name(x) = n
<1>1. Legacy = [k \in {Name(x) : x \in all} |-> CHOOSE x \in all : Name(x) = k]
  BY DEF Legacy
<1> HIDE DEF all
<1>2. n \in {Name(x) : x \in all} /\ Legacy[n] = t
  BY <1>1
<1>3. t \in all
  BY <1>2
<1> HIDE DEF t
<1>4. PICK d \in LegacySelf : t = old(d)
  BY <1>3 DEF all
<1>5. t.table = d.model /\ t.actions = {Action(d, "new", Itself)}
  BY <1>4 DEF OwnUpdateTrigger, Trigger
<1>6. d.model \in DOMAIN Ct0 /\ d.field \in Columns[d.model]
  BY SchemaAssumption
<1> QED BY <1>2, <1>5, <1>6, FindsItself

(* A statement's event, and the new keys it sets off.                      *)
Proper(e) ==
    /\ e.table \in Tables /\ e.pk \in Pks[e.table]
    /\ e.event \in {"insert", "delete", "update"}
    /\ e.event # "insert" => e.old \in Contents[e.table]
    /\ e.event # "delete" => e.new \in Contents[e.table]

LEMMA CascadeProper ==
  ASSUME NEW event, Proper(event), NEW db, Shaped(db), NEW e \in Cascade(event, db)
  PROVE  Proper(e)
<1> DEFINE key(k, p) ==
              Event(k[1], "update", p, db[k[1]][p], db[k[1]][p], {k[2]})
           keys == UNION {{key(k, p) : p \in Live(k[1], db)} : k \in Keyed}
<1>1. e = event \/ e \in keys
  BY DEF Cascade
<1>2. ASSUME NEW k \in Keyed, NEW p \in Live(k[1], db) PROVE Proper(key(k, p))
  <2>1. k[1] \in Tables
    BY SchemaAssumption
  <2>2. p \in Pks[k[1]] /\ db[k[1]][p] \in Contents[k[1]]
    BY <2>1 DEF Live, Shaped
  <2> QED BY <2>1, <2>2 DEF Proper, Event
<1>3. e \in keys => \E k \in Keyed : \E p \in Live(k[1], db) : e = key(k, p)
  OBVIOUS
<1> HIDE DEF key, keys
<1> QED BY <1>1, <1>2, <1>3

IsMarker(x) ==
    /\ x[1] \in DOMAIN Ct0
    /\ x[2] \in Pks[x[1]] \cup {Null}
    /\ x[3] = None \/ x[3] \in Columns[x[1]]

LEMMA DoneMarks ==
  ASSUME TriggersInv, NEW db, Shaped(db), NEW E, \A e \in E : Proper(e),
         NEW what, NEW x \in Done(what, E, db)
  PROVE  IsMarker(x)
<1>1. PICK e \in E : \E n \in DOMAIN installed : \E a \in installed[n].actions :
             /\ When(installed[n], e) /\ a.do = what
             /\ \E p \in Targets(a, e, db) : x = <<a.model, p, a.field>>
  BY DoneBy
<1>2. PICK n \in DOMAIN installed : \E a \in installed[n].actions :
             /\ When(installed[n], e) /\ a.do = what
             /\ \E p \in Targets(a, e, db) : x = <<a.model, p, a.field>>
  BY <1>1
<1>3. PICK a \in installed[n].actions :
             /\ When(installed[n], e) /\ a.do = what
             /\ \E p \in Targets(a, e, db) : x = <<a.model, p, a.field>>
  BY <1>2
<1>4. PICK p \in Targets(a, e, db) : x = <<a.model, p, a.field>>
  BY <1>3
<1> DEFINE t == installed[n]
<1>5. FindsRows(t, a) /\ Proper(e) /\ t.table = e.table /\ t.event = e.event
  BY <1>3 DEF TriggersInv, When
<1> HIDE DEF t
<1>6. CASE a.find.in = "pk"
  <2>1. p = e.pk
    BY <1>6, <1>4 DEF Targets
  <2> QED BY <1>4, <1>5, <1>6, <2>1 DEF FindsRows, Proper, IsMarker
<1>7. CASE a.find.in = "column"
  <2> DEFINE row == IF a.side = "new" THEN e.new ELSE e.old
  <2>1. p = row[a.find.column]
    BY <1>7, <1>4 DEF Targets
  <2>2. row \in Contents[e.table]
    BY <1>5, <1>7 DEF FindsRows, Proper
  <2> HIDE DEF row
  <2>3. p \in Pks[a.model] \cup {Null}
    BY <1>5, <1>7, <2>1, <2>2 DEF FindsRows
  <2> QED BY <1>4, <1>5, <2>3 DEF FindsRows, IsMarker
<1>8. CASE a.find.in = "table"
  <2> DEFINE u == a.find.table
             found == {y \in Live(u, db) : db[u][y][a.find.where] = e.pk}
  <2>1. p \in IF a.find.get = None THEN found ELSE {db[u][y][a.find.get] : y \in found}
    BY <1>8, <1>4 DEF Targets
  <2>2. u \in Tables
    BY <1>5, <1>8 DEF FindsRows
  <2>3. CASE a.find.get = None
    <3>1. p \in Pks[u] /\ u = a.model
      BY <1>5, <1>8, <2>1, <2>3 DEF FindsRows, Live
    <3> QED BY <1>4, <1>5, <3>1 DEF FindsRows, IsMarker
  <2>4. CASE a.find.get # None
    <3>1. PICK y \in found : p = db[u][y][a.find.get]
      BY <2>1, <2>4
    <3>2. db[u][y] \in Contents[u]
      BY <2>2 DEF Live, Shaped
    <3>3. p \in Pks[a.model] \cup {Null}
      BY <1>5, <1>8, <2>4, <3>1, <3>2 DEF FindsRows
    <3> QED BY <1>4, <1>5, <3>3 DEF FindsRows, IsMarker
  <2> QED BY <2>3, <2>4
<1> QED BY <1>5, <1>6, <1>7, <1>8 DEF FindsRows

-----------------------------------------------------------------------------
(* The steps                                                               *)

Whole(db) ==
    /\ db \in [Tables -> UNION {[Pks[t] -> Contents[t] \cup {Absent}] : t \in Tables}]
    /\ Shaped(db)

Edited(t, p, new) == [rows EXCEPT ![t][p] = new]

LEMMA EditRow ==
  ASSUME Whole(rows), NEW t \in Tables, NEW p \in Pks[t],
         NEW new \in Contents[t] \cup {Absent}, NEW db, db = Edited(t, p, new)
  PROVE  /\ Whole(db) /\ db[t][p] = new
         /\ \A u \in Tables : \A q \in Pks[u] : u # t \/ q # p => db[u][q] = rows[u][q]
<1>1. rows[t] \in [Pks[t] -> Contents[t] \cup {Absent}]
  BY DEF Whole, Shaped
<1> USE DEF Edited
<1>2. /\ DOMAIN db = Tables /\ db[t] = [rows[t] EXCEPT ![p] = new]
      /\ \A u \in Tables : u # t => db[u] = rows[u]
  BY DEF Whole
<1>3. db[t] \in [Pks[t] -> Contents[t] \cup {Absent}]
  BY <1>1, <1>2
<1>4. Shaped(db)
  BY <1>2, <1>3 DEF Whole, Shaped
<1>5. Whole(db)
  <2>1. \A u \in Tables :
          db[u] \in UNION {[Pks[s] -> Contents[s] \cup {Absent}] : s \in Tables}
    BY <1>4 DEF Shaped
  <2>2. db = [u \in Tables |-> db[u]]
    BY DEF Whole
  <2> QED BY <1>4, <2>1, <2>2 DEF Whole
<1>6. /\ db[t][p] = new
      /\ \A q \in Pks[t] : q # p => db[t][q] = rows[t][q]
  BY <1>1, <1>2
<1> QED BY <1>2, <1>5, <1>6

LEMMA StepsProper ==
  ASSUME NEW e, NEW db, Steps(e, db)
  PROVE  Proper(e)
BY DEF Steps, Proper

LEMMA MarkedMore ==
  ASSUME NEW c, NEW ms, NEW more, Marked(c, ms), ms \subseteq more
  PROVE  Marked(c, more)
BY DEF Marked

(* A statement and its triggers.  What it takes from the markers (a flush  *)
(* does) must be of the cells it computes.                                 *)
LEMMA ApplyKeeps ==
  ASSUME IInv, NEW e, NEW db, NEW base, NEW fresh, Apply(db, e, base, fresh),
         Steps(e, db), Whole(db), Kept(db), base \subseteq markers,
         \A c \in stale \ fresh : Marked(c, markers) => Marked(c, base),
         UNCHANGED <<ctId, installed, code, backlog, covers>>
  PROVE  IInv'
<1> DEFINE E == Cascade(e, db)
           ch == Changed(db)
           now == (((stale \ fresh) \cup ch) \cap Cells(code, db)) \ Touched(E, db)
<1>1. /\ rows' = db
      /\ markers' = base \cup Done("mark", E, db)
      /\ stale' = now
      /\ missed' = {c \in now : /\ ~Marked(c, markers')
                                /\ c \in missed \/ (c \in ch /\ ~UpToDate)}
  BY DEF Apply
<1>2. /\ Known /\ Shaped(rows) /\ Kept(rows) /\ TriggersInv /\ missed \subseteq stale
      /\ DOMAIN ctId = DOMAIN Ct0
  BY Numbered DEF IInv, TypeOK, Known, Shaped, Numberings
<1>3. UpToDate => \A c \in ch : c \in Done("mark", E, db) \/ c \in Touched(E, db)
  <2> SUFFICES ASSUME UpToDate, NEW c \in Changed(db)
               PROVE  c \in Done("mark", E, db) \cup Touched(E, db)
    OBVIOUS
  <2> QED BY <1>2, MarkedOrTouched DEF Whole
<1>4. \A x \in Done("mark", E, db) : IsMarker(x)
  <2>1. \A x \in E : Proper(x)
    BY StepsProper, CascadeProper DEF Whole
  <2> HIDE DEF E
  <2> QED BY <1>2, <2>1, DoneMarks DEF Whole
<1> HIDE DEF E, ch, now
<1>5. stale' \subseteq Cells(code', rows') /\ missed' \subseteq stale'
  BY <1>1 DEF now
<1>6. \A x \in markers' : IsMarker(x)
  <2>1. \A x \in markers : IsMarker(x)
    BY <1>2 DEF IInv, TypeOK, IsMarker
  <2> QED BY <1>1, <1>4, <2>1
<1>7. TypeOK'
  BY <1>1, <1>2, <1>5, <1>6 DEF TypeOK, Whole, Shaped, IsMarker
<1>8. NoUnderFire'
  <2> SUFFICES ASSUME NEW c \in now, ~Marked(c, markers') PROVE c \in missed'
    BY <1>1 DEF NoUnderFire
  <2>1. CASE c \in ch
    <3>1. CASE UpToDate
      <4>1. c \notin Touched(E, db)
        BY DEF now
      <4>2. c \in markers'
        BY <1>1, <1>3, <2>1, <3>1, <4>1
      <4> QED BY <4>2 DEF Marked
    <3>2. CASE ~UpToDate
      BY <1>1, <2>1, <3>2
    <3> QED BY <3>1, <3>2
  <2>2. CASE c \in stale \ fresh
    <3>1. CASE Marked(c, markers)
      <4>1. Marked(c, base)
        BY <2>2, <3>1
      <4> QED BY <1>1, <4>1, MarkedMore
    <3>2. CASE c \in missed
      BY <1>1, <3>2
    <3> QED BY <2>2, <3>1, <3>2 DEF IInv, NoUnderFire
  <2> QED BY <2>1, <2>2 DEF now
<1>9. CoversInv'
  <2>1. UpToDate' = UpToDate
    BY DEF UpToDate, Current
  <2>2. UpToDate => missed' \subseteq missed
    BY <1>1
  <2> QED BY <2>1, <2>2 DEF IInv, CoversInv
<1>10. TriggersInv'
  BY <1>2 DEF TriggersInv, FindsRows
<1>11. Kept(rows)'
  BY <1>1 DEF Kept, Live
<1> QED BY <1>7, <1>8, <1>9, <1>10, <1>11 DEF IInv

LEMMA StatementKeeps ==
  ASSUME IInv, NEW t \in Tables, NEW p \in Pks[t],
         \/ \E new \in Contents[t] : Insert(t, p, new) \/ Update(t, p, new)
         \/ Delete(t, p)
  PROVE  IInv'
<1>1. Whole(rows) /\ Absent \notin Contents[t]
  BY SchemaAssumption DEF IInv, TypeOK, Whole, Shaped
<1>2. rows[t][p] \in Contents[t] \cup {Absent}
  BY <1>1 DEF Whole, Shaped
<1>3. ASSUME NEW new \in Contents[t] \cup {Absent}, NEW e, NEW db,
             db = [rows EXCEPT ![t][p] = new], Statement(db, e),
             e.table = t, e.pk = p, e.old = rows[t][p], e.new = new,
             \/ e.event = "insert" /\ e.old = Absent /\ new # Absent
             \/ e.event = "delete" /\ e.old # Absent /\ new = Absent
             \/ /\ e.event = "update" /\ e.old # Absent /\ new # Absent
                /\ \A c \in DOMAIN new : e.old[c] # new[c] => c \in e.changed
      PROVE  IInv'
  <2>1. /\ Whole(db) /\ db[t][p] = new
        /\ \A u \in Tables : \A q \in Pks[u] : u # t \/ q # p => db[u][q] = rows[u][q]
    <3>1. db = Edited(t, p, new)
      BY <1>3 DEF Edited
    <3> QED BY <1>1, <3>1, EditRow
  <2>2. Steps(e, db)
    BY <1>1, <1>2, <1>3, <2>1 DEF Steps
  <2>3. /\ Kept(db) /\ Apply(db, e, markers, {})
        /\ UNCHANGED <<ctId, installed, code, backlog, covers>>
    BY <1>3 DEF Statement
  <2> QED BY <2>1, <2>2, <2>3, ApplyKeeps
<1>4. ASSUME NEW new \in Contents[t], Insert(t, p, new) PROVE IInv'
  <2> DEFINE e == Event(t, "insert", p, Absent, new, {})
             db == [rows EXCEPT ![t][p] = new]
  <2>1. Statement(db, e) /\ rows[t][p] = Absent
    BY <1>4 DEF Insert
  <2>2. /\ e.table = t /\ e.pk = p /\ e.old = rows[t][p] /\ e.new = new
        /\ e.event = "insert" /\ e.old = Absent /\ new # Absent
    BY <1>1, <2>1 DEF Event
  <2> HIDE DEF e
  <2> QED BY <1>3, <2>1, <2>2
<1>5. ASSUME NEW new \in Contents[t], Update(t, p, new) PROVE IInv'
  <2> DEFINE e == Event(t, "update", p, rows[t][p], new,
                        {c \in DOMAIN new : rows[t][p][c] # new[c]})
             db == [rows EXCEPT ![t][p] = new]
  <2>1. Statement(db, e) /\ rows[t][p] # Absent
    BY <1>5 DEF Update
  <2>2. /\ e.table = t /\ e.pk = p /\ e.old = rows[t][p] /\ e.new = new
        /\ e.event = "update" /\ e.old # Absent /\ new # Absent
        /\ \A c \in DOMAIN new : e.old[c] # new[c] => c \in e.changed
    BY <1>1, <2>1 DEF Event
  <2> HIDE DEF e
  <2> QED BY <1>3, <2>1, <2>2
<1>6. ASSUME Delete(t, p) PROVE IInv'
  <2> DEFINE e == Event(t, "delete", p, rows[t][p], Absent, {})
             db == [rows EXCEPT ![t][p] = Absent]
  <2>1. Statement(db, e) /\ rows[t][p] # Absent
    BY <1>6 DEF Delete
  <2>2. /\ e.table = t /\ e.pk = p /\ e.old = rows[t][p] /\ e.new = Absent
        /\ e.event = "delete" /\ e.old # Absent
    BY <2>1 DEF Event
  <2> HIDE DEF e
  <2> QED BY <1>3, <2>1, <2>2
<1> QED BY <1>4, <1>5, <1>6

(* What a flush takes from the markers is of the cells it saves.           *)
Mine(m, p) == {x \in markers : x[1] = m /\ x[2] = p}
SavedBy(m, p) == Saved(m, {x[3] : x \in Mine(m, p)})
Fresh(m, p) == {Cell(d, p) : d \in SavedBy(m, p)}
Base(m, p) ==
    markers \ (Mine(m, p) \cup {Cell(d, p) : d \in {f \in SavedBy(m, p) : Safe(f)}})

LEMMA SavesWhatItTakes ==
  ASSUME NEW m, NEW p, IInv, NEW c \in stale \ Fresh(m, p), Marked(c, markers)
  PROVE  Marked(c, Base(m, p))
<1> DEFINE mine == Mine(m, p)
           saved == SavedBy(m, p)
           names == {x[3] : x \in mine}
           of == {d \in Code[code] : d.model = m}
           known == {d \in of : d.field \in names}
<1>1. PICK d \in Code[code] : \E q \in Live(d.model, rows) : c = Cell(d, q)
  BY DEF IInv, TypeOK, Cells
<1>2. PICK q \in Live(d.model, rows) : c = <<d.model, q, d.field>>
  BY <1>1 DEF Cell
<1>3. saved = IF None \in names \/ known = {} THEN of ELSE known
  BY DEF Saved, SavedBy
<1>4. saved \subseteq of
  BY <1>3
<1>5. \A d2 \in of : d2.field # None
  <2>1. \A d2 \in of : d2 \in Declared
    BY DEF IInv, Declared
  <2> QED BY <2>1, Models, SchemaAssumption
<1>6. ASSUME NEW x \in mine, x = c \/ x = <<c[1], c[2], None>> PROVE FALSE
  <2>1. d.model = m /\ q = p /\ x[3] \in names /\ x[3] \in {d.field, None}
    BY <1>2, <1>6 DEF Mine
  <2>2. d \in saved
    BY <1>3, <2>1
  <2>3. c = Cell(d, p)
    BY <1>2, <2>1 DEF Cell
  <2> QED BY <2>2, <2>3 DEF Fresh
<1>7. \A d2 \in saved : Cell(d2, p) # c /\ Cell(d2, p) # <<c[1], c[2], None>>
  BY <1>4, <1>5 DEF Cell, Fresh
<1> HIDE DEF names, of, known
<1> QED BY <1>6, <1>7 DEF Marked, Base

LEMMA FlushKeeps ==
  ASSUME IInv, NEW x \in {<<y[1], y[2]>> : y \in markers}, NEW new \in Contents[x[1]],
         Flush(x[1], x[2], new)
  PROVE  IInv'
<1> DEFINE m == x[1]
           p == x[2]
           mine == {y \in markers : y[1] = m /\ y[2] = p}
<1>1. m \in Tables
  <2>1. PICK y \in markers : x = <<y[1], y[2]>>
    OBVIOUS
  <2>2. m \in DOMAIN ctId /\ DOMAIN ctId = DOMAIN Ct0
    BY <2>1, Numbered DEF IInv, TypeOK, Numberings
  <2> QED BY <2>2, SchemaAssumption
<1>2. UNCHANGED <<ctId, installed, code, backlog, covers>>
  BY DEF Flush
<1>3. CASE p \in Pks[m] /\ rows[m][p] # Absent
  <2> DEFINE old == rows[m][p]
             saved == Saved(m, {y[3] : y \in mine})
             written == {d.field : d \in saved}
             keys == {c \in written : <<m, c>> \in Keyed}
             changed == keys \cup {c \in DOMAIN new : new[c] # old[c]}
             e == Event(m, "update", p, old, new, changed)
             db == [rows EXCEPT ![m][p] = new]
             safe == {Cell(d, p) : d \in {f \in saved : Safe(f)}}
             base == markers \ (mine \cup safe)
             fresh == {Cell(d, p) : d \in saved}
  <2>1. FlushRow(m, p, mine, new)
    BY <1>3 DEF Flush
  <2>2. /\ Apply(db, e, base, fresh)
        /\ \A c \in DOMAIN new : new[c] # old[c] => c \in written
    BY <2>1 DEF FlushRow
  <2>3. /\ e.table = m /\ e.pk = p /\ e.event = "update"
        /\ e.old = old /\ e.new = new /\ e.changed = changed
    BY DEF Event
  <2>4. Whole(rows) /\ Absent \notin Contents[m]
    BY <1>1, SchemaAssumption DEF IInv, TypeOK, Whole, Shaped
  <2>5. old \in Contents[m]
    BY <1>1, <1>3, <2>4 DEF Whole, Shaped
  <2>6. /\ Whole(db) /\ db[m][p] = new
        /\ \A u \in Tables : \A q \in Pks[u] : u # m \/ q # p => db[u][q] = rows[u][q]
    BY <1>1, <1>3, <2>4, EditRow DEF Edited
  <2>7. \A c \in DOMAIN new : old[c] # new[c] => c \in changed
    OBVIOUS
  <2>8. Steps(e, db)
    <3> HIDE DEF e, db, changed, old
    <3> QED BY <1>1, <1>3, <2>3, <2>5, <2>6, <2>7 DEF Steps, old
  <2>9. \A c \in stale \ fresh : Marked(c, markers) => Marked(c, base)
    <3>1. fresh = Fresh(m, p) /\ base = Base(m, p)
      BY DEF Fresh, Base, Mine, SavedBy
    <3> HIDE DEF fresh, base
    <3> QED BY <3>1, SavesWhatItTakes
  <2>10. \A u \in Tables : Live(u, db) = Live(u, rows)
    <3> HIDE DEF db
    <3> QED BY <1>3, <2>4, <2>6 DEF Live
  <2>11. ASSUME NEW r \in Relations, r.kind = "m2m", NEW l \in Live(r.table, db),
                NEW c \in {r.column, r.reverse}
         PROVE  db[r.table][l][c] = rows[r.table][l][c]
    <3>1. r.table \in Tables /\ l \in Pks[r.table]
      BY <2>11, RelationAssumption DEF Live
    <3>2. CASE r.table = m /\ l = p
      <4>1. c \in DOMAIN new
        BY <2>11, <3>2, RelationAssumption DEF Holds
      <4>2. c \notin written
        <5>1. ASSUME NEW d \in saved PROVE d \in Declared /\ d.model = m
          BY DEF Saved, IInv, Declared
        <5> HIDE DEF saved
        <5> QED BY <2>11, <3>2, <5>1, RowsAssumption
      <4>3. new[c] = old[c]
        BY <2>2, <4>1, <4>2
      <4> HIDE DEF db
      <4> QED BY <2>6, <3>2, <4>3
    <3>3. CASE ~(r.table = m /\ l = p)
      <4> HIDE DEF db
      <4> QED BY <2>6, <3>1, <3>3
    <3> QED BY <3>2, <3>3
  <2> HIDE DEF e, db, base, fresh
  <2>12. Kept(db)
    <3> SUFFICES ASSUME NEW r \in Relations, r.kind = "m2m", NEW l \in Live(r.table, db)
                 PROVE  /\ db[r.table][l][r.column] \in Live(r.from, db)
                        /\ db[r.table][l][r.reverse] \in Live(r.to, db)
      BY DEF Kept
    <3>1. r.table \in Tables /\ r.from \in Tables /\ r.to \in Tables
      BY RelationAssumption
    <3>2. l \in Live(r.table, rows)
      BY <2>10, <3>1
    <3> QED BY <2>10, <2>11, <3>1, <3>2 DEF IInv, Kept
  <2>13. base \subseteq markers
    BY DEF base
  <2> QED BY <1>2, <2>2, <2>6, <2>8, <2>9, <2>12, <2>13, ApplyKeeps
<1>4. CASE ~(p \in Pks[m] /\ rows[m][p] # Absent)
  <2>1. markers' = markers \ mine /\ UNCHANGED <<rows, stale, missed>>
    BY <1>4 DEF Flush
  <2>2. ASSUME NEW c \in stale, Marked(c, markers) PROVE Marked(c, markers')
    <3>1. PICK d \in Code[code] : \E q \in Live(d.model, rows) : c = Cell(d, q)
      BY DEF IInv, TypeOK, Cells
    <3>2. c[2] \in Live(c[1], rows)
      BY <3>1 DEF Cell
    <3>3. ~(c[1] = m /\ c[2] = p)
      BY <1>4, <3>2 DEF Live
    <3> QED BY <2>1, <2>2, <3>3 DEF Marked
  <2>3. NoUnderFire'
    BY <2>1, <2>2 DEF IInv, NoUnderFire
  <2>4. TypeOK'
    BY <1>2, <2>1 DEF IInv, TypeOK, Cells, Live
  <2>5. CoversInv' /\ TriggersInv' /\ Kept(rows)'
    BY <1>2, <2>1 DEF IInv, CoversInv, UpToDate, Current, TriggersInv, Kept, Live
  <2> QED BY <1>2, <2>3, <2>4, <2>5 DEF IInv
<1> QED BY <1>3, <1>4

Finding(f) == \A n \in DOMAIN f : \A a \in f[n].actions : FindsRows(f[n], a)

LEMMA OverwriteFinds ==
  ASSUME NEW f, NEW g, Finding(f), Finding(g)
  PROVE  Finding(Overwrite(f, g)) /\ Contains(Overwrite(f, g), g)
<1> DEFINE h == Overwrite(f, g)
<1>1. /\ DOMAIN h = DOMAIN f \cup DOMAIN g
      /\ \A n \in DOMAIN h : h[n] = IF n \in DOMAIN g THEN g[n] ELSE f[n]
  BY DEF Overwrite
<1> HIDE DEF h
<1>2. Finding(h) /\ Contains(h, g)
  BY <1>1 DEF Finding, Contains
<1> QED BY <1>2 DEF h

LEMMA CurrentFinds == Known => Finding(Current)
BY CurrentSet, BuildFinds DEF Known, Finding

LEMMA InitKeeps == Init => IInv
<1> SUFFICES ASSUME Init PROVE IInv
  OBVIOUS
<1>1. Known
  BY SchemaAssumption DEF Init, Known
<1>2. TriggersInv
  <2>1. Finding(Legacy) /\ Finding(Current)
    BY <1>1, CurrentFinds, LegacyFinds DEF Finding
  <2>2. Finding(Overwrite(Legacy, Current))
    BY <2>1, OverwriteFinds
  <2>3. installed = Overwrite(Legacy, Current)
    BY DEF Init
  <2> QED BY <2>2, <2>3 DEF TriggersInv, Finding
<1>3. Whole(rows) /\ Kept(rows)
  BY RowsAssumption DEF Init, Whole, Shaped
<1>4. TypeOK
  BY <1>3 DEF Init, TypeOK, Whole, Shaped
<1> QED BY <1>1, <1>2, <1>3, <1>4 DEF Init, IInv, Known, CoversInv, NoUnderFire

(* Where the tables, the markers and the version stay as they are.         *)
LEMMA QuietKeeps ==
  ASSUME IInv, UNCHANGED <<rows, ctId, markers, code, stale, missed>>
  PROVE  /\ TypeOK' /\ Kept(rows)' /\ NoUnderFire'
         /\ code' \in Versions /\ ctId' \in Numberings
BY DEF IInv, TypeOK, Cells, Live, Kept, NoUnderFire

LEMMA InstallKeeps ==
  ASSUME IInv, Install, UNCHANGED <<rows, ctId, markers, code, backlog, stale, missed, covers>>
  PROVE  IInv'
<1>1. Known /\ Finding(installed)
  BY DEF IInv, Known, TriggersInv, Finding
<1>2. Finding(installed') /\ Contains(installed', Current)
  BY <1>1, CurrentFinds, OverwriteFinds DEF Install
<1>3. TriggersInv'
  BY <1>2 DEF TriggersInv, Finding, FindsRows
<1>4. CoversInv'
  <2>1. Current' = Current
    BY DEF Current
  <2>2. UpToDate'
    BY <1>2, <2>1 DEF UpToDate
  <2> QED BY <2>2 DEF IInv, CoversInv
<1> QED BY <1>3, <1>4, QuietKeeps DEF IInv

LEMMA DropKeeps ==
  ASSUME IInv, Drop, covers' = FALSE,
         UNCHANGED <<rows, ctId, markers, code, backlog, stale, missed>>
  PROVE  IInv'
<1>1. DOMAIN installed' = {}
  BY DEF Drop
<1>2. TriggersInv' /\ CoversInv'
  BY <1>1 DEF TriggersInv, CoversInv
<1> QED BY <1>2, QuietKeeps DEF IInv

LEMMA DeployKeeps ==
  ASSUME IInv, NEW v \in Versions, Deploy(v)
  PROVE  IInv'
<1>1. /\ code' = v /\ covers' = FALSE
      /\ stale' = stale \cap Cells(v, rows) /\ missed' = missed \cap Cells(v, rows)
      /\ UNCHANGED <<rows, ctId, markers, installed, backlog>>
  BY DEF Deploy
<1>2. TypeOK'
  BY <1>1 DEF IInv, TypeOK
<1>3. NoUnderFire'
  BY <1>1 DEF IInv, NoUnderFire
<1>4. Kept(rows)' /\ TriggersInv' /\ CoversInv'
  BY <1>1 DEF IInv, Kept, Live, TriggersInv, CoversInv
<1> QED BY <1>1, <1>2, <1>3, <1>4 DEF IInv

LEMMA RenumberKeeps ==
  ASSUME IInv, NEW ids \in Numberings, Renumber(ids)
  PROVE  IInv'
<1>1. /\ ctId' = ids /\ rows' = [t \in Tables |-> [p \in Pks[t] |-> Absent]]
      /\ markers' = {} /\ stale' = {} /\ missed' = {} /\ covers' = FALSE
      /\ UNCHANGED <<installed, code, backlog>>
  BY DEF Renumber
<1>2. \A t \in Tables : rows'[t] \in [Pks[t] -> Contents[t] \cup {Absent}]
  BY <1>1
<1>3. rows' \in [Tables -> UNION {[Pks[t] -> Contents[t] \cup {Absent}] : t \in Tables}]
  <2>1. \A t \in Tables :
          rows'[t] \in UNION {[Pks[s] -> Contents[s] \cup {Absent}] : s \in Tables}
    BY <1>2
  <2> QED BY <1>1, <2>1
<1>4. TypeOK' /\ NoUnderFire'
  BY <1>1, <1>2, <1>3 DEF TypeOK, NoUnderFire
<1>5. Kept(rows)'
  <2>1. \A r \in Relations : r.kind = "m2m" => Live(r.table, rows') = {}
    BY <1>1, RelationAssumption DEF Live
  <2> QED BY <2>1 DEF Kept
<1>6. TriggersInv' /\ CoversInv'
  BY <1>1 DEF IInv, TriggersInv, CoversInv
<1> QED BY <1>1, <1>4, <1>5, <1>6 DEF IInv

LEMMA RebuildAllKeeps ==
  ASSUME IInv, RebuildAll
  PROVE  IInv'
<1>1. /\ backlog' = UNION {{<<m, p>> : p \in Live(m, rows)} : m \in RebuildModels}
      /\ covers' = UpToDate
      /\ UNCHANGED <<rows, ctId, markers, installed, code, stale, missed>>
  BY DEF RebuildAll
<1>2. backlog' \subseteq UNION {{m} \X Pks[m] : m \in DOMAIN Ct0}
  <2>1. \A m \in RebuildModels : m \in DOMAIN Ct0
    <3>1. \A d \in Code[code] : d \in Declared
      BY DEF IInv, Declared
    <3> QED BY <3>1, Models DEF RebuildModels
  <2>2. \A m : Live(m, rows) \subseteq Pks[m]
    BY DEF Live
  <2> QED BY <1>1, <2>1, <2>2
<1>3. CoversInv'
  <2> SUFFICES ASSUME UpToDate
               PROVE  UpToDate' /\ \A c \in missed' : <<c[1], c[2]>> \in backlog'
    BY <1>1 DEF CoversInv
  <2>1. UpToDate'
    BY <1>1 DEF UpToDate, Current
  <2>2. ASSUME NEW c \in missed PROVE <<c[1], c[2]>> \in backlog'
    <3>1. PICK d \in Code[code] : \E q \in Live(d.model, rows) : c = Cell(d, q)
      BY DEF IInv, TypeOK, Cells
    <3>2. c[1] = d.model /\ c[2] \in Live(d.model, rows)
      BY <3>1 DEF Cell
    <3> QED BY <1>1, <3>2 DEF RebuildModels
  <2> QED BY <1>1, <2>1, <2>2
<1>4. TriggersInv'
  BY <1>1 DEF IInv, TriggersInv
<1> QED BY <1>1, <1>2, <1>3, <1>4, QuietKeeps DEF IInv

LEMMA RebuildBatchKeeps ==
  ASSUME IInv, NEW batch \in SUBSET backlog, RebuildBatch(batch)
  PROVE  IInv'
<1>1. /\ backlog' = backlog \ batch
      /\ markers' = markers \cup {<<x[1], x[2], None>> : x \in batch}
      /\ missed' = {c \in missed : ~Marked(c, markers')}
      /\ UNCHANGED <<rows, ctId, installed, code, stale, covers>>
  BY DEF RebuildBatch
<1>2. TypeOK'
  <2>1. DOMAIN ctId = DOMAIN Ct0
    BY Numbered DEF IInv, Numberings
  <2>2. \A x \in batch : x[1] \in DOMAIN Ct0 /\ x[2] \in Pks[x[1]]
    BY DEF IInv
  <2>3. \A x \in markers' :
          /\ x[1] \in DOMAIN ctId /\ x[2] \in Pks[x[1]] \cup {Null}
          /\ x[3] = None \/ x[3] \in Columns[x[1]]
    BY <1>1, <2>1, <2>2 DEF IInv, TypeOK
  <2> QED BY <1>1, <2>3 DEF IInv, TypeOK, Cells, Live
<1>3. NoUnderFire'
  <2> SUFFICES ASSUME NEW c \in stale, ~Marked(c, markers') PROVE c \in missed'
    BY <1>1 DEF NoUnderFire
  <2>1. ~Marked(c, markers)
    BY <1>1, MarkedMore
  <2> QED BY <1>1, <2>1 DEF IInv, NoUnderFire
<1>4. CoversInv'
  <2>1. ASSUME NEW c \in missed', <<c[1], c[2]>> \in backlog
        PROVE  <<c[1], c[2]>> \in backlog'
    <3>1. ~Marked(c, markers')
      BY <1>1, <2>1
    <3>2. <<c[1], c[2]>> \notin batch
      BY <1>1, <3>1 DEF Marked
    <3> QED BY <1>1, <2>1, <3>2
  <2>2. UpToDate' = UpToDate
    BY <1>1 DEF UpToDate, Current
  <2> QED BY <1>1, <2>1, <2>2 DEF IInv, CoversInv
<1>5. Kept(rows)' /\ TriggersInv'
  BY <1>1 DEF IInv, Kept, Live, TriggersInv
<1> QED BY <1>1, <1>2, <1>3, <1>4, <1>5 DEF IInv

LEMMA CrashKeeps ==
  ASSUME IInv, Crash
  PROVE  IInv'
<1>1. /\ backlog' = {} /\ covers' = FALSE
      /\ UNCHANGED <<rows, ctId, markers, installed, code, stale, missed>>
  BY DEF Crash
<1>2. TriggersInv' /\ CoversInv'
  BY <1>1 DEF IInv, TriggersInv, CoversInv
<1> QED BY <1>1, <1>2, QuietKeeps DEF IInv

(* No step leaves a change of what a column depends on without a marker or *)
(* a record of why there is none.                                          *)
LEMMA NextKeeps == IInv /\ [Next]_vars => IInv'
<1> SUFFICES ASSUME IInv, [Next]_vars PROVE IInv'
  OBVIOUS
<1>1. ASSUME NEW t \in Tables, NEW p \in Pks[t],
             \/ \E new \in Contents[t] : Insert(t, p, new) \/ Update(t, p, new)
             \/ Delete(t, p)
      PROVE  IInv'
  BY <1>1, StatementKeeps
<1>2. ASSUME NEW x \in {<<y[1], y[2]>> : y \in markers}, NEW new \in Contents[x[1]],
             Flush(x[1], x[2], new)
      PROVE  IInv'
  BY <1>2, FlushKeeps
<1>3. ASSUME NEW v \in Versions, Deploy(v) PROVE IInv'
  BY <1>3, DeployKeeps
<1>4. CASE DenormInit
  BY <1>4, InstallKeeps DEF DenormInit
<1>5. CASE DenormDrop
  BY <1>5, DropKeeps DEF DenormDrop
<1>6. CASE RebuildTriggers
  BY <1>6, DropKeeps DEF RebuildTriggers
<1>7. CASE ReinstallTriggers
  BY <1>7, InstallKeeps DEF ReinstallTriggers
<1>8. ASSUME NEW ids \in Numberings, Renumber(ids) PROVE IInv'
  BY <1>8, RenumberKeeps
<1>9. CASE RebuildAll
  BY <1>9, RebuildAllKeeps
<1>10. ASSUME NEW batch \in SUBSET backlog, RebuildBatch(batch) PROVE IInv'
  BY <1>10, RebuildBatchKeeps
<1>11. CASE Crash
  BY <1>11, CrashKeeps
<1>12. CASE UNCHANGED vars
  <2>1. TriggersInv' /\ CoversInv'
    BY <1>12 DEF vars, IInv, TriggersInv, CoversInv, UpToDate, Current
  <2>2. UNCHANGED <<rows, ctId, markers, code, stale, missed, backlog>>
    BY <1>12 DEF vars
  <2> QED BY <2>1, <2>2, QuietKeeps DEF IInv
<1> QED BY <1>1, <1>2, <1>3, <1>4, <1>5, <1>6, <1>7, <1>8, <1>9, <1>10, <1>11, <1>12
        DEF Next

(* What is typed, marked, installed and still to be rebuilt fit together   *)
(* after every statement, flush, command and crash.                        *)
THEOREM TriggersInvariant == Spec => []IInv
<1>1. Init => IInv
  BY InitKeeps
<1>2. IInv /\ [Next]_vars => IInv'
  BY NextKeeps
<1> QED BY <1>1, <1>2, PTL DEF Spec

(* Markers name rows and columns of models that have a content type, and   *)
(* what is stale or missed is a cell of the running code.                  *)
THEOREM TriggersTypeCorrect == Spec => []TypeOK
<1>1. IInv => TypeOK
  BY DEF IInv
<1> QED BY <1>1, TriggersInvariant, PTL

(* Whatever a declaration says a column depends on, through foreign keys,  *)
(* many-to-manys and generic relations and through merged triggers: while  *)
(* the installed triggers are those of the code, a change of it leaves a   *)
(* marker or a new key (build_triggerset, TriggerSet.append).              *)
THEOREM TriggersCover == Spec => []NoUnderFire
<1>1. IInv => NoUnderFire
  BY DEF IInv
<1> QED BY <1>1, TriggersInvariant, PTL

(* rebuildall leaves a marker for whatever had been missed before, if the  *)
(* triggers were up to date while it ran.                                  *)
THEOREM RebuildMakesUp == Spec => RebuildCovers
<1>1. IInv' => (backlog # {} /\ backlog' = {} /\ covers' => missed' = {})
  BY DEF IInv, CoversInv
<1>2. IInv' => [backlog # {} /\ backlog' = {} /\ covers' => missed' = {}]_vars
  BY <1>1
<1> QED BY <1>2, TriggersInvariant, PTL DEF RebuildCovers
=============================================================================
