--------------------------- MODULE DenormTriggers ---------------------------
(***************************************************************************)
(* From declarations to triggers: what depend_on_related, depend_on_fields *)
(* and CacheKeyField declare is resolved against the model registry        *)
(* (dependencies/base.py), turned into row triggers                        *)
(* (dependencies/callback.py, onfields.py, cachekey.py,                    *)
(* denorms/callback.py), merged by name (db/base.py, db/triggers.py) and   *)
(* installed, replaced and dropped while code versions come and go         *)
(* (denorms/triggerset.py, apps.py, denorm_init, denorm_drop,              *)
(* denorm_rebuild_triggers, denorm_rebuild).  Statements and saves run     *)
(* one after the other: concurrency is the subject of DenormFlush.         *)
(*                                                                         *)
(* A declaration d of a denormalized column is a record                    *)
(*   model, field   the column                                             *)
(*   func           __qualname__ of the function, None for a CacheKeyField *)
(*   kind           "callback" or "cachekey"                               *)
(*   fields         the columns @depend_on_fields declares, or Undeclared  *)
(*   related        its depend_on_related declarations                     *)
(*   skip, only     arguments of the field                                 *)
(* and a depend_on_related a record other, fk, type, skip, only, where fk  *)
(* and type may be None.  A random cache key is not stored: a write to it  *)
(* always changes it.                                                      *)
(***************************************************************************)
EXTENDS Naturals, FiniteSets

CONSTANTS
    Tables,         \* models and through tables
    Columns,        \* table -> its columns but the primary key
    Keyed,          \* the cache-key columns, <<table, column>>
    Pks,            \* table -> primary keys
    Contents,       \* table -> contents of a row, cache keys left out
    Relations,      \* foreign keys, many-to-manys and generic relations
    AlwaysSkip,     \* model -> denorm_always_skip
    AlwaysOnly,     \* model -> denorm_always_only
    Versions,       \* versions of the application's code
    Code,           \* version -> its declarations
    Rows0,          \* the tables to begin with
    CtIds,          \* content type ids
    Ct0,            \* model -> its content type id to begin with
    None, Undeclared, Absent, Null,
    Unset,          \* what a denormalized column of a new row holds
    LegacySelf,     \* declarations whose release 1.11 self-trigger is installed
    BatchSize,      \* DENORM_BATCH_SIZE
    MaxStatements,  \* bound: statements of the application
    MaxFlushes,     \* bound: rows flushed
    MaxAdmin,       \* bound: deployments and management commands
    MaxSteps        \* bound: all of these

VARIABLES
    rows,       \* the tables: pk -> content or Absent
    ctId,       \* table django_content_type: model -> id
    markers,    \* table denorm_dirtyinstance: <<model, pk, func or None>>
    installed,  \* the database's triggers, by name
    code,       \* the running version
    dropping,   \* denorm_rebuild_triggers is between its two transactions
    backlog,    \* rows rebuildall has read and not marked yet
    (* history *)
    stale,      \* cells whose inputs changed since they were computed
    missed,     \* of these, the unmarked ones: the triggers were not up to date
    covers,     \* rebuildall has run with up-to-date triggers so far
    clean,      \* denorm_rebuild_triggers has run to its end for this code
    statements, flushes, admin

vars == <<rows, ctId, markers, installed, code, dropping, backlog,
          stale, missed, covers, clean, statements, flushes, admin>>
counters == <<statements, flushes, admin>>

-----------------------------------------------------------------------------
(* Resolving a declaration *)

(* The foreign keys, and the many-to-manys and generic relations, from one *)
(* model to another that carry the name, if one is given.                  *)
Fks(from, to, name) ==
    {r \in Relations : /\ r.kind = "fk" /\ r.from = from /\ r.to = to
                       /\ name \in {None, r.name}}
M2ms(from, to, name) ==
    {r \in Relations : /\ r.kind \in {"m2m", "generic"}
                       /\ r.from = from /\ r.to = to /\ name \in {None, r.name}}

Typed(type, rels) == {[type |-> type, field |-> r] : r \in rels}

(* A recursive relation is taken forward unless a type asks for more.      *)
Candidates(this, dep) ==
    LET back(s) == IF dep.other # this \/ dep.type # None THEN s ELSE {}
        all == Typed("forward", Fks(this, dep.other, dep.fk))
            \cup back(Typed("backward", Fks(dep.other, this, dep.fk)))
            \cup Typed("forward_m2m", M2ms(this, dep.other, dep.fk))
            \cup back(Typed("backward_m2m", M2ms(dep.other, this, dep.fk)))
    IN {c \in all : dep.type \in {None, c.type}}

(* The same function; the comparison has TLC evaluate it once.             *)
Table(f) == IF f = <<>> THEN <<>> ELSE f

Dependencies ==
    UNION {UNION {{<<d.model, dep>> : dep \in d.related} : d \in Code[v]} : v \in Versions}
Resolved ==
    Table([x \in Dependencies |-> CHOOSE c \in Candidates(x[1], x[2]) : TRUE])
Relation(this, dep) == Resolved[this, dep]

(* resolved_model raises ValueError unless exactly one candidate is left.  *)
ASSUME ResolutionAssumption ==
    \A v \in Versions : \A d \in Code[v] : \A dep \in d.related :
        Cardinality(Candidates(d.model, dep)) = 1

-----------------------------------------------------------------------------
(* The triggers of a declaration *)

Watch(table, skip, only) ==
    LET wanted == only \cup AlwaysOnly[table]
    IN (IF wanted = {} THEN Columns[table] ELSE wanted \cap Columns[table])
        \ (skip \cup AlwaysSkip[table])

(* Trigger.__init__ refuses an empty watch-list.                           *)
ASSUME WatchAssumption ==
    \A v \in Versions : \A d \in Code[v] :
        /\ Watch(d.model, d.skip \cup {d.field}, d.only) # {}
        /\ \A dep \in d.related : Watch(dep.other, dep.skip, dep.only) # {}
        /\ d.fields = Undeclared \/ d.field \notin d.fields

Trigger(table, event, actions, watch, func, generic) ==
    [table |-> table, event |-> event, actions |-> actions, watch |-> watch,
     func |-> func, generic |-> generic]

(* What a trigger does: mark, or give a new key to, the rows of d.model    *)
(* whose pk is that of the changed row, or a column of it, or is found in  *)
(* another table.                                                          *)
Action(d, side, find) ==
    [do |-> IF d.kind = "callback" THEN "mark" ELSE "touch",
     model |-> d.model, field |-> d.field, side |-> side, find |-> find]
Itself == [in |-> "pk"]
InColumn(c) == [in |-> "column", column |-> c]
InTable(table, where, get) ==
    [in |-> "table", table |-> table, where |-> where, get |-> get]

OnEvents(table, update, insert, delete, watch, func, generic) ==
    {Trigger(table, "update", update, watch, func, generic),
     Trigger(table, "insert", insert, watch, func, generic),
     Trigger(table, "delete", delete, watch, func, generic)}

(* depend_on_related hands the function to the triggers; a CacheKeyField    *)
(* has none to hand.                                                       *)
Suffix(d) == <<d.func, "">>

ForwardTriggers(d, dep, r) ==
    LET find == InTable(d.model, r.column, None)
        new == Action(d, "new", find)
        old == Action(d, "old", find)
    IN OnEvents(dep.other, {new}, {new}, {old},
                Watch(dep.other, dep.skip, dep.only), Suffix(d), None)

BackwardTriggers(d, dep, r) ==
    LET new == Action(d, "new", InColumn(r.column))
        old == Action(d, "old", InColumn(r.column))
    IN OnEvents(dep.other, {new, old}, {new}, {old},
                Watch(dep.other, dep.skip, dep.only), Suffix(d), None)

(* Of the through table the two keys are watched (db/base.py:115-118),     *)
(* whatever skip and only say: those are about the other model, whose      *)
(* inserts and deletes go through the table.                               *)
M2mTriggers(d, dep, this, that, r) ==
    LET new == Action(d, "new", InColumn(this))
        old == Action(d, "old", InColumn(this))
        other == Action(d, "new", InTable(r.table, that, this))
    IN OnEvents(r.table, {new, old}, {new}, {old},
                {this, that}, Suffix(d), None)
        \cup {Trigger(dep.other, "update", {other},
                      Watch(dep.other, dep.skip, dep.only), Suffix(d), None)}

(* A generic relation has no through table; the content type of the model  *)
(* that declares is baked into the trigger's WHEN and into its name.       *)
GenericTriggers(d, find, r, ids) ==
    LET new == Action(d, "new", find)
        old == Action(d, "old", find)
    IN OnEvents(r.to, {new, old}, {new}, {old}, Columns[r.to], Suffix(d),
                [column |-> r.ctcolumn, id |-> ids[d.model]])

RelatedTriggers(d, dep, ids) ==
    LET c == Relation(d.model, dep)
        r == c.field
    IN CASE c.type = "forward" -> ForwardTriggers(d, dep, r)
         [] c.type = "backward" -> BackwardTriggers(d, dep, r)
         [] r.kind = "generic" ->
                GenericTriggers(d, IF c.type = "forward_m2m" THEN InColumn(r.column)
                                   ELSE Itself, r, ids)
         [] r.kind = "m2m" /\ c.type = "forward_m2m" ->
                M2mTriggers(d, dep, r.column, r.reverse, r)
         [] r.kind = "m2m" /\ c.type = "backward_m2m" ->
                M2mTriggers(d, dep, r.reverse, r.column, r)

(* @depend_on_fields: one update trigger on the declared columns.          *)
FieldTriggers(d) ==
    IF d.fields \in {Undeclared, {}} THEN {}
    ELSE {Trigger(d.model, "update", {Action(d, "new", Itself)},
                  Watch(d.model, {}, d.fields), Suffix(d), None)}

(* The self-triggers of a function.  The insert trigger names no function, *)
(* so one serves the whole model; the update trigger of an undeclared      *)
(* function leaves out its own column, under a name of its own.            *)
OwnInsertTrigger(d) ==
    Trigger(d.model, "insert", {Action(d, "new", Itself)},
            Watch(d.model, d.skip, d.only), <<None, "">>, None)
OwnUpdateTrigger(d) ==
    Trigger(d.model, "update", {Action(d, "new", Itself)},
            Watch(d.model, d.skip \cup {d.field}, d.only),
            <<d.func, "_self">>, None)
SelfTriggers(d) ==
    IF d.kind = "cachekey" THEN {}
    ELSE {OwnInsertTrigger(d)}
         \cup (IF d.fields = Undeclared THEN {OwnUpdateTrigger(d)} ELSE {})

Triggers(d, ids) ==
    SelfTriggers(d) \cup FieldTriggers(d)
        \cup UNION {RelatedTriggers(d, dep, ids) : dep \in d.related}

Name(t) ==
    <<t.table, t.event, IF t.generic = None THEN None ELSE t.generic.id, t.func>>

Together(same, watch) ==
    LET t == CHOOSE t \in same : TRUE
    IN Trigger(t.table, t.event, UNION {u.actions : u \in same}, watch, t.func, t.generic)

(* Of triggers that collide the watch-list of one only.                    *)
MergeKeepFirst(same) == Together(same, (CHOOSE t \in same : TRUE).watch)

(* TriggerSet.append: triggers of one name become one, with the actions    *)
(* and the watch-lists of all.                                             *)
Merge(same) == Together(same, UNION {u.watch : u \in same})

Build(v, ids) ==
    LET all == UNION {Triggers(d, ids) : d \in Code[v]}
    IN Table([n \in {Name(t) : t \in all} |-> Merge({t \in all : Name(t) = n})])

(* Before release 1.12 the self-trigger had the name of the function's     *)
(* other triggers and watched the function's own column as well.           *)
Legacy ==
    LET all == {[OwnUpdateTrigger(d) EXCEPT
                    !.watch = @ \cup {d.field}, !.func = <<d.func, "">>] :
                d \in LegacySelf}
    IN [n \in {Name(t) : t \in all} |-> CHOOSE t \in all : Name(t) = n]

(* The trigger sets there are, by the version and the content types they   *)
(* are built from.                                                         *)
Numberings ==
    {ids \in [DOMAIN Ct0 -> CtIds] :
        \A m, n \in DOMAIN Ct0 : m # n => ids[m] # ids[n]}
TriggerSets ==
    Table([o \in Versions \X Numberings |-> Build(o[1], o[2])])
Current == TriggerSets[code, ctId]

(* CREATE OR REPLACE: same-named triggers are overwritten, others stay.    *)
Overwrite(old, new) ==
    [n \in DOMAIN old \cup DOMAIN new |-> IF n \in DOMAIN new THEN new[n] ELSE old[n]]

Contains(old, new) ==
    \A n \in DOMAIN new : n \in DOMAIN old /\ old[n] = new[n]
UpToDate == Contains(installed, Current)

-----------------------------------------------------------------------------
(* What a statement fires *)

Live(table, db) == {p \in Pks[table] : db[table][p] # Absent}

Event(table, event, pk, old, new, changed) ==
    [table |-> table, event |-> event, pk |-> pk, old |-> old, new |-> new,
     changed |-> changed]

(* The WHEN clause.                                                        *)
When(t, e) ==
    /\ t.table = e.table /\ t.event = e.event
    /\ e.event = "update" => t.watch \cap e.changed # {}
    /\ t.generic # None =>
        \/ e.event # "insert" /\ e.old[t.generic.column] = t.generic.id
        \/ e.event # "delete" /\ e.new[t.generic.column] = t.generic.id

(* The pks an action finds; NULL where a column of the row is NULL.        *)
Targets(a, e, db) ==
    CASE a.find.in = "pk" -> {e.pk}
      [] a.find.in = "column" ->
            {(IF a.side = "new" THEN e.new ELSE e.old)[a.find.column]}
      [] a.find.in = "table" ->
            LET found == {p \in Live(a.find.table, db) :
                            db[a.find.table][p][a.find.where] = e.pk}
            IN IF a.find.get = None THEN found
               ELSE {db[a.find.table][p][a.find.get] : p \in found}

Done(what, events, db) ==
    UNION {LET fired == {n \in DOMAIN installed : When(installed[n], e)}
               actions == {a \in UNION {installed[n].actions : n \in fired} :
                            a.do = what}
           IN UNION {{<<a.model, p, a.field>> : p \in Targets(a, e, db)} :
                     a \in actions} : e \in events}

(* A new key is an UPDATE of a row, if the row is there, and fires         *)
(* triggers in its turn.                                                   *)
Touched(events, db) ==
    {x \in Done("touch", events, db) : x[2] \in Live(x[1], db)}
KeyEvents(events, db) ==
    {Event(x[1], "update", x[2], db[x[1]][x[2]], db[x[1]][x[2]], {x[3]}) :
        x \in Touched(events, db)}

(* What a statement sets off: itself and the least set of new keys that    *)
(* has all its events' triggers write, those no closed set goes without.   *)
Cascade(event, db) ==
    LET keys == UNION {{Event(k[1], "update", p, db[k[1]][p], db[k[1]][p], {k[2]}) :
                            p \in Live(k[1], db)} : k \in Keyed}
        closed(S) == KeyEvents({event} \cup S, db) \subseteq S
    IN {event} \cup {e \in keys : \A S \in SUBSET (keys \ {e}) : ~closed(S)}

-----------------------------------------------------------------------------
(* What a column depends on, by its declaration alone *)

Seen(table, p, cols, db) ==
    IF p \notin Pks[table] \/ db[table][p] = Absent THEN Absent
    ELSE [c \in cols \cap DOMAIN db[table][p] |-> db[table][p][c]]

OwnInputs(d) ==
    CASE d.kind = "cachekey" -> {}
      [] d.kind = "callback" /\ d.fields = Undeclared ->
            Watch(d.model, d.skip \cup {d.field}, d.only)
      [] OTHER -> d.fields \ AlwaysSkip[d.model]

(* Through each kind of relation: what is watched of the rows at the other *)
(* end, and of a relation to many which rows these are.                    *)
Watched(dep, q, db) == Seen(dep.other, q, Watch(dep.other, dep.skip, dep.only), db)

ForwardInput(d, p, dep, r, db) == Watched(dep, db[d.model][p][r.column], db)
BackwardInput(p, dep, r, db) ==
    {<<q, Watched(dep, q, db)>> :
        q \in {x \in Live(dep.other, db) : db[dep.other][x][r.column] = p}}
GenericInput(d, p, r, db) ==
    {<<q, Seen(r.to, q, Columns[r.to], db)>> :
        q \in {x \in Live(r.to, db) : /\ db[r.to][x][r.column] = p
                                     /\ db[r.to][x][r.ctcolumn] = ctId[d.model]}}
M2mInput(p, dep, this, that, r, db) ==
    {<<l, db[r.table][l][that], Watched(dep, db[r.table][l][that], db)>> :
        l \in {x \in Live(r.table, db) : db[r.table][x][this] = p}}

RelatedInput(d, p, dep, db) ==
    LET c == Relation(d.model, dep)
        r == c.field
    IN CASE c.type = "forward" -> ForwardInput(d, p, dep, r, db)
         [] c.type = "backward" -> BackwardInput(p, dep, r, db)
         [] r.kind = "generic" -> GenericInput(d, p, r, db)
         [] r.kind = "m2m" /\ c.type = "forward_m2m" ->
                M2mInput(p, dep, r.column, r.reverse, r, db)
         [] r.kind = "m2m" /\ c.type = "backward_m2m" ->
                M2mInput(p, dep, r.reverse, r.column, r, db)

Input(d, p, db) ==
    IF db[d.model][p] = Absent THEN Absent
    ELSE <<Seen(d.model, p, OwnInputs(d), db),
           [dep \in d.related |-> RelatedInput(d, p, dep, db)]>>

Cell(d, p) == <<d.model, p, d.field>>
Cells(v, db) == UNION {{Cell(d, p) : p \in Live(d.model, db)} : d \in Code[v]}
(* The cells a statement makes stale.  A row is born with a fresh key, and *)
(* a key "cannot detect a direct (bulk)update to the model it is declared  *)
(* in" (CacheKeyField).                                                    *)
Changed(db) ==
    UNION {{Cell(d, p) : p \in {q \in Live(d.model, db) :
                /\ Input(d, q, rows) # Input(d, q, db)
                /\ d.kind = "cachekey" => rows[d.model][q] = db[d.model][q]}} :
           d \in Code[code]}
Marked(cell, ms) == cell \in ms \/ <<cell[1], cell[2], None>> \in ms

-----------------------------------------------------------------------------
(* What the proofs assume of a schema *)

Declared == UNION {Code[v] : v \in Versions}

(* Tables, rows and declarations have the shape the comments above say.    *)
ASSUME SchemaAssumption ==
    /\ DOMAIN Ct0 \subseteq Tables /\ Ct0 \in Numberings
    /\ None \notin CtIds
    /\ Keyed \subseteq UNION {{t} \X Columns[t] : t \in Tables}
    /\ \A t \in Tables :
        /\ None \notin Columns[t] /\ Absent \notin Contents[t]
        /\ \A v \in Contents[t] :
            DOMAIN v \subseteq Columns[t] /\ \A w \in Contents[t] : DOMAIN v = DOMAIN w
    /\ \A d \in Declared \cup LegacySelf :
        d.model \in DOMAIN Ct0 /\ d.field \in Columns[d.model]
    /\ \A d \in Declared :
        /\ d.kind \in {"callback", "cachekey"}
        /\ \A dep \in d.related : dep.other \in Tables

(* The columns a relation has its ends in hold primary keys.  The object   *)
(* id of a generic relation is a number, like every primary key.           *)
Holds(table, column, to) ==
    /\ column \in Columns[table]
    /\ \A v \in Contents[table] : column \in DOMAIN v /\ v[column] \in Pks[to] \cup {Null}
ASSUME RelationAssumption ==
    \A r \in Relations :
        /\ r.from \in Tables /\ r.to \in Tables
        /\ r.kind = "fk" => Holds(r.from, r.column, r.to)
        /\ r.kind = "m2m" =>
            r.table \in Tables /\ Holds(r.table, r.column, r.from)
                              /\ Holds(r.table, r.reverse, r.to)
        /\ r.kind = "generic" =>
            /\ Holds(r.to, r.column, r.from)
            /\ \A v \in Contents[r.to] : r.ctcolumn \in DOMAIN v

(* A function that follows a foreign key forward reads it, a backward      *)
(* dependency does not skip it (what is not watched is declared not to     *)
(* matter); a generic relation is not followed backwards, and two of them  *)
(* between the same models share the content type's column, as their       *)
(* triggers share a name.                                                  *)
Follows(d, dep) ==
    LET c == Relation(d.model, dep)
        r == c.field
    IN /\ c.type = "forward" /\ d.kind = "callback" =>
            r.column \in OwnInputs(d)
       /\ c.type = "backward" => r.column \in Watch(dep.other, dep.skip, dep.only)
       /\ r.kind = "generic" => c.type = "forward_m2m"
ASSUME FollowAssumption ==
    /\ \A d \in Declared : \A dep \in d.related : Follows(d, dep)
    /\ \A r, s \in Relations :
        r.kind = "generic" /\ s.kind = "generic" /\ r.from = s.from /\ r.to = s.to
            => r.ctcolumn = s.ctcolumn

(* Through tables keep their foreign keys; others may dangle for a while,  *)
(* the constraints are deferred.                                           *)
Kept(db) ==
    \A r \in Relations : r.kind = "m2m" =>
        \A l \in Live(r.table, db) :
            /\ db[r.table][l][r.column] \in Live(r.from, db)
            /\ db[r.table][l][r.reverse] \in Live(r.to, db)

(* So do the tables to begin with; and none of these keys is computed.     *)
ASSUME RowsAssumption ==
    /\ \A db \in Rows0 :
        /\ db \in [Tables -> UNION {[Pks[t] -> Contents[t] \cup {Absent}] : t \in Tables}]
        /\ \A t \in Tables : db[t] \in [Pks[t] -> Contents[t] \cup {Absent}]
        /\ Kept(db)
    /\ \A r \in Relations : r.kind = "m2m" =>
        \A d \in Declared : d.model = r.table => d.field \notin {r.column, r.reverse}

-----------------------------------------------------------------------------
Init ==
    /\ rows \in Rows0
    /\ ctId = Ct0
    /\ markers = {}
    /\ code \in Versions
    /\ installed = Overwrite(Legacy, Current)
    /\ dropping = FALSE
    /\ backlog = {}
    /\ stale = {} /\ missed = {} /\ covers = FALSE /\ clean = FALSE
    /\ statements = 0 /\ flushes = 0 /\ admin = 0

(* The effects of a statement that makes the tables db.  base: the markers *)
(* it starts from; fresh: the cells it computes.                           *)
Apply(db, event, base, fresh) ==
    LET events == Cascade(event, db)
        changed == Changed(db)
        now == (((stale \ fresh) \cup changed) \cap Cells(code, db))
                    \ Touched(events, db)
    IN /\ rows' = db
       /\ markers' = base \cup Done("mark", events, db)
       /\ stale' = now
       /\ missed' = {c \in now : /\ ~Marked(c, markers')
                                 /\ c \in missed \/ (c \in changed /\ ~UpToDate)}

Room == statements + flushes + admin < MaxSteps

MayWrite == statements < MaxStatements /\ Room

Statement(db, event) ==
    /\ Kept(db)
    /\ Apply(db, event, markers, {})
    /\ statements' = statements + 1
    /\ UNCHANGED <<ctId, installed, code, dropping, backlog, covers, clean,
                   flushes, admin>>

(* The application writes plain columns; to write a denormalized one with  *)
(* raw SQL is unsupported (denorms/callback.py:103).                       *)
Computed(t) == {d.field : d \in {e \in Code[code] : e.model = t}}

Insert(t, p, new) ==
    /\ MayWrite
    /\ rows[t][p] = Absent
    /\ \A c \in DOMAIN new \cap Computed(t) : new[c] = Unset
    /\ Statement([rows EXCEPT ![t][p] = new],
                 Event(t, "insert", p, Absent, new, {}))

Update(t, p, new) ==
    LET old == rows[t][p]
    IN /\ MayWrite
       /\ old \notin {Absent, new}
       /\ \A c \in DOMAIN new \cap Computed(t) : new[c] = old[c]
       /\ Statement([rows EXCEPT ![t][p] = new],
                    Event(t, "update", p, old, new,
                          {c \in DOMAIN new : old[c] # new[c]}))

Delete(t, p) ==
    /\ MayWrite
    /\ rows[t][p] # Absent
    /\ Statement([rows EXCEPT ![t][p] = Absent],
                 Event(t, "delete", p, rows[t][p], Absent, {}))

(* A column of a safe function: post_save drops its marker.                *)
Safe(d) ==
    /\ d.kind = "callback" /\ d.related = {}
    /\ d.fields \notin {Undeclared, {}}
    /\ \A e \in Code[code] : e.model = d.model => e.field \notin d.fields

(* The columns flush saves for the markers it claimed: all of the row for  *)
(* a whole-object marker, or where no name is one of the model.            *)
Saved(m, names) ==
    LET known == {d \in Code[code] : d.model = m /\ d.field \in names}
    IN IF None \in names \/ known = {}
       THEN {d \in Code[code] : d.model = m} ELSE known

(* flush_single for one pair, one convergence pass.  What functions return *)
(* is left open: some are not deterministic.                               *)
FlushRow(m, p, mine, new) ==
    LET old == rows[m][p]
        saved == Saved(m, {x[3] : x \in mine})
        written == {d.field : d \in saved}
        keys == {c \in written : <<m, c>> \in Keyed}
    IN /\ new \in Contents[m]
       /\ \A c \in DOMAIN new : new[c] # old[c] => c \in written
       /\ Apply([rows EXCEPT ![m][p] = new],
                Event(m, "update", p, old, new,
                      keys \cup {c \in DOMAIN new : new[c] # old[c]}),
                markers \ (mine \cup {Cell(d, p) : d \in {e \in saved : Safe(e)}}),
                {Cell(d, p) : d \in saved})

Flush(m, p, new) ==
    LET mine == {x \in markers : x[1] = m /\ x[2] = p}
    IN /\ flushes < MaxFlushes /\ Room
       /\ mine # {}
       /\ IF p \in Pks[m] /\ rows[m][p] # Absent
          THEN FlushRow(m, p, mine, new)
          ELSE markers' = markers \ mine /\ UNCHANGED <<rows, stale, missed>>
       /\ flushes' = flushes + 1
       /\ UNCHANGED <<ctId, installed, code, dropping, backlog, covers,
                      clean, statements, admin>>

-----------------------------------------------------------------------------
(* Deployments and management commands *)

Command == admin < MaxAdmin /\ Room /\ admin' = admin + 1
Install == installed' = Overwrite(installed, Current)
(* The pattern denorm_%, which matches none of the names.                  *)
DropNone == UNCHANGED installed
(* The names of TriggerSet.drop_atomic's pattern: all of denorm's.         *)
Drop == installed' = <<>>

Deploy(v) ==
    /\ Command
    /\ v # code
    /\ code' = v
    /\ stale' = stale \cap Cells(v, rows)
    /\ missed' = missed \cap Cells(v, rows)
    /\ covers' = FALSE /\ clean' = FALSE
    /\ UNCHANGED <<rows, ctId, markers, installed, dropping, backlog, statements, flushes>>

(* denorm_init, and the post_migrate handler.                              *)
DenormInit ==
    /\ Command
    /\ Install
    /\ UNCHANGED <<rows, ctId, markers, code, dropping, backlog,
                   stale, missed, covers, clean, statements, flushes>>

DenormDrop ==
    /\ Command
    /\ Drop
    /\ covers' = FALSE
    /\ UNCHANGED <<rows, ctId, markers, code, dropping, backlog,
                   stale, missed, clean, statements, flushes>>

(* denorm_rebuild_triggers: two transactions, the process may die between. *)
RebuildTriggers ==
    /\ Command
    /\ ~dropping
    /\ Drop
    /\ dropping' = TRUE
    /\ covers' = FALSE
    /\ UNCHANGED <<rows, ctId, markers, code, backlog,
                   stale, missed, clean, statements, flushes>>

ReinstallTriggers ==
    /\ dropping
    /\ Install
    /\ dropping' = FALSE
    /\ clean' = TRUE
    /\ UNCHANGED <<rows, ctId, markers, code, backlog,
                   stale, missed, covers, statements, flushes, admin>>

(* The tables are emptied and the content types numbered afresh, as a test *)
(* database is between two tests.                                          *)
Renumber(ids) ==
    /\ Command
    /\ ids # ctId
    /\ ctId' = ids
    /\ rows' = [t \in Tables |-> [p \in Pks[t] |-> Absent]]
    /\ markers' = {} /\ stale' = {} /\ missed' = {}
    /\ covers' = FALSE /\ clean' = FALSE
    /\ UNCHANGED <<installed, code, dropping, backlog, statements, flushes>>

(* Tables without a denormalized column too; the last model only.          *)
EveryTable == Tables
OneModel == {CHOOSE m \in {d.model : d \in Code[code]} : TRUE}
(* rebuildall: every row of every model with a denormalized column.        *)
RebuildModels == {d.model : d \in Code[code]}
RebuildAll ==
    /\ Command
    /\ backlog = {}
    /\ backlog' = UNION {{<<m, p>> : p \in Live(m, rows)} : m \in RebuildModels}
    /\ backlog' # {}
    /\ covers' = UpToDate
    /\ UNCHANGED <<rows, ctId, markers, installed, code, dropping,
                   stale, missed, clean, statements, flushes>>

RebuildBatch(batch) ==
    /\ batch # {}
    /\ Cardinality(batch) = BatchSize \/ batch = backlog
    /\ Cardinality(batch) <= BatchSize
    /\ backlog' = backlog \ batch
    /\ markers' = markers \cup {<<x[1], x[2], None>> : x \in batch}
    /\ missed' = {c \in missed : ~Marked(c, markers')}
    /\ UNCHANGED <<rows, ctId, installed, code, dropping, stale, covers,
                   clean, statements, flushes, admin>>

(* The process of a management command dies.                               *)
Crash ==
    /\ dropping \/ backlog # {}
    /\ dropping' = FALSE
    /\ backlog' = {}
    /\ covers' = FALSE
    /\ UNCHANGED <<rows, ctId, markers, installed, code, stale, missed, clean, counters>>

Next ==
    \/ \E t \in Tables : \E p \in Pks[t] :
        \/ \E new \in Contents[t] : Insert(t, p, new) \/ Update(t, p, new)
        \/ Delete(t, p)
    \/ \E x \in {<<y[1], y[2]>> : y \in markers} : \E new \in Contents[x[1]] :
        Flush(x[1], x[2], new)
    \/ \E v \in Versions : Deploy(v)
    \/ DenormInit \/ DenormDrop \/ RebuildTriggers \/ ReinstallTriggers
    \/ \E ids \in Numberings : Renumber(ids)
    \/ RebuildAll
    \/ \E batch \in SUBSET backlog : RebuildBatch(batch)
    \/ Crash

Spec == Init /\ [][Next]_vars
-----------------------------------------------------------------------------
TypeOK ==
    /\ rows \in [Tables -> UNION {[Pks[t] -> Contents[t] \cup {Absent}] : t \in Tables}]
    /\ \A t \in Tables : rows[t] \in [Pks[t] -> Contents[t] \cup {Absent}]
    /\ stale \subseteq Cells(code, rows)
    /\ missed \subseteq stale
    /\ \A x \in markers :
        /\ x[1] \in DOMAIN ctId
        /\ x[2] \in Pks[x[1]] \cup {Null}
        /\ x[3] = None \/ x[3] \in Columns[x[1]]

(* Triggers cover declarations: a statement that changes what a column     *)
(* depends on, by its declaration, leaves a marker of it, or a new key,    *)
(* whatever relation it goes through and whichever triggers were merged    *)
(* into one; except while the installed triggers are not those of the      *)
(* running code.                                                           *)
NoUnderFire == \A c \in stale : Marked(c, markers) \/ c \in missed

(* Once denorm_rebuild_triggers has run, whatever triggers an earlier      *)
(* version or release had left, recomputing a function by its own marker   *)
(* never marks it again, deterministic or not, unless it depends on what   *)
(* the save has changed (denorms/callback.py:95-116, db/triggers.py:189).  *)
FlushedByName(m, p) ==
    /\ p \in Pks[m] /\ rows[m][p] # Absent
    /\ \E new \in Contents[m] : Flush(m, p, new)
    /\ {x[3] : x \in {y \in markers : y[1] = m /\ y[2] = p}} \subseteq Computed(m)
NoSelfRemark ==
    [][flushes' # flushes /\ clean =>
        \A x \in markers : FlushedByName(x[1], x[2]) =>
            (x \in markers' => x \in stale')]_vars

(* When rebuildall finishes, with the triggers up to date since it began,  *)
(* nothing that was missed before is left without a marker.                *)
RebuildCovers ==
    [][backlog # {} /\ backlog' = {} /\ covers' => missed' = {}]_vars

-----------------------------------------------------------------------------
(* The inductive invariant of the proofs *)

(* What an action of a trigger finds is a row of the model it marks.       *)
FindsRows(t, a) ==
    /\ a.model \in DOMAIN Ct0 /\ a.field \in Columns[a.model]
    /\ a.find.in \in {"pk", "column", "table"}
    /\ a.find.in = "pk" => t.table = a.model
    /\ a.find.in = "column" =>
        /\ t.event \in {"update", IF a.side = "new" THEN "insert" ELSE "delete"}
        /\ \A v \in Contents[t.table] : v[a.find.column] \in Pks[a.model] \cup {Null}
    /\ a.find.in = "table" =>
        /\ a.find.table \in Tables
        /\ IF a.find.get = None THEN a.find.table = a.model
           ELSE \A v \in Contents[a.find.table] : v[a.find.get] \in Pks[a.model] \cup {Null}
TriggersInv ==
    \A n \in DOMAIN installed : \A a \in installed[n].actions : FindsRows(installed[n], a)

(* While a rebuild covers, what is missed is of a row it has still to mark.*)
CoversInv ==
    covers => UpToDate /\ \A c \in missed : <<c[1], c[2]>> \in backlog

(* Markers, installed triggers and a rebuild under way fit the tables and  *)
(* the code: no trigger marks what is not a row's column, no change of an  *)
(* input is without a marker or a reason, and a rebuild that covers has    *)
(* what it owes before it (TriggerSet.install, rebuildall).                *)
IInv ==
    /\ TypeOK
    /\ code \in Versions /\ ctId \in Numberings
    /\ backlog \subseteq UNION {{m} \X Pks[m] : m \in DOMAIN Ct0}
    /\ Kept(rows)
    /\ TriggersInv
    /\ CoversInv
    /\ NoUnderFire
=============================================================================
