----------------------------- MODULE DenormSave -----------------------------
(***************************************************************************)
(* An application saves model instances (fields.py): pre_save computes the *)
(* denormalized columns, a new cache key and the cached value from the     *)
(* in-memory instance and remembers them on it; the UPDATE fires the       *)
(* self-triggers; post_save forgets what pre_save remembered and drops the *)
(* self-markers it deems redundant.  An instance may be older than the     *)
(* database, be edited, fail to save and be saved again, inside an atomic  *)
(* block or in autocommit, where the UPDATE is committed before post_save. *)
(*                                                                         *)
(* One row a with a foreign key to a row b:                                *)
(*   a.name    plain                                                       *)
(*   a.upper   denormalized, declared on a.name (a safe function)          *)
(*   a.letter  denormalized, depends on b.data, declares no own fields     *)
(*   a.key     a CachedField: key of a value computed from b.data          *)
(*   b.data    plain                                                       *)
(* The value of a function stands for what the function has read.  A       *)
(* random key never comes twice.  The transactions of DenormFlush are      *)
(* single steps here.                                                      *)
(***************************************************************************)
EXTENDS Naturals

CONSTANTS
    Sessions,       \* processes that save instances
    Value,          \* what a plain column may hold
    Start,          \* what it holds to begin with
    Modes,          \* how a save is run: "atomic", "autocommit"
    None,
    MaxSteps,       \* bound: loads, accesses, edits and saves
    MaxFailures,    \* bound: saves whose UPDATE fails
    MaxWrites,      \* bound: statements that bypass the ORM
    MaxKeys         \* bound: cache keys drawn

ASSUME SaveAssumption ==
    /\ Start \in Value
    /\ None \notin Value \cup Nat
    /\ Modes \subseteq {"atomic", "autocommit"}
    /\ {MaxSteps, MaxFailures, MaxWrites} \subseteq Nat /\ MaxKeys \in Nat \ {0}

Computed == {"upper", "letter", "key"}
Fields == {"name"} \cup Computed
Safe == {"upper"}
Source == [upper |-> "name", letter |-> "data", key |-> "data"]

VARIABLES
    (* the database and the cache *)
    val,        \* the columns but the key
    key,        \* column a.key
    keys,       \* keys drawn so far
    markers,    \* markers of a: "upper", "letter"
    store,      \* the external cache: key -> value
    (* sessions *)
    pc,
    inst,       \* the instance: its name, the b cached on it, the key being
                \* set while it loads, the memos of pre_save
    fields,     \* update_fields of the save
    mode,
    todo,       \* fields pre_save has not seen yet
    steps, failures, writes,
    (* history *)
    differs,    \* inputs in which the instance may differ from the database
    kept,       \* memos that a failed save has left
    slipped,    \* unmarked columns written from such inputs, or whose marker
                \* post_save has dropped after such a change
    badKeys     \* keys whose value was stored from such inputs

dbVars == <<val, key, markers>>
sessionVars == <<pc, inst, fields, mode, todo, steps>>
historyVars == <<differs, kept, slipped, badKeys>>
vars == <<dbVars, keys, store, sessionVars, failures, writes, historyVars>>

NoInstance ==
    [name |-> None, b |-> None, key |-> None, memo |-> [f \in Computed |-> None]]

Init ==
    /\ val = [c \in {"name", "upper", "letter", "data"} |-> Start]
    /\ key = 1 /\ keys = 1
    /\ markers = {}
    /\ store = [k \in 1 .. MaxKeys |-> None]
    /\ pc = [s \in Sessions |-> "out"]
    /\ inst = [s \in Sessions |-> NoInstance]
    /\ fields = [s \in Sessions |-> {}]
    /\ mode = [s \in Sessions |-> None]
    /\ todo = [s \in Sessions |-> {}]
    /\ steps = 0 /\ failures = 0 /\ writes = 0
    /\ differs = [s \in Sessions |-> {}]
    /\ kept = [s \in Sessions |-> {}]
    /\ slipped = {} /\ badKeys = {}

-----------------------------------------------------------------------------
(* What statements do *)

(* The self-triggers of a: upper declares name, letter declares nothing    *)
(* and so watches every column but its own.  A new key always changes it.  *)
FiredBy(changed) ==
    (IF "name" \in changed THEN {"upper"} ELSE {})
        \cup (IF changed \ {"letter"} # {} THEN {"letter"} ELSE {})

(* The instances of the sessions of S fall behind a change of an input.    *)
FallBehind(S, changed) ==
    differs' = [s \in Sessions |->
        IF s \notin S THEN differs[s]
        ELSE differs[s]
             \cup (IF inst[s].name # None THEN changed \cap {"name"} ELSE {})
             \cup (IF inst[s].b # None THEN changed \cap {"data"} ELSE {})]

(* QuerySet.update() of a.name.                                            *)
UpdateName(v) ==
    /\ writes < MaxWrites
    /\ writes' = writes + 1
    /\ v # val["name"]
    /\ val' = [val EXCEPT !["name"] = v]
    /\ markers' = markers \cup FiredBy({"name"})
    /\ FallBehind(Sessions, {"name"})
    /\ UNCHANGED <<key, keys, store, sessionVars, failures, kept, slipped, badKeys>>

(* A write of b.data: its triggers mark letter and give a a new key.       *)
UpdateData(v) ==
    /\ writes < MaxWrites
    /\ writes' = writes + 1
    /\ keys < MaxKeys
    /\ v # val["data"]
    /\ val' = [val EXCEPT !["data"] = v]
    /\ keys' = keys + 1
    /\ key' = keys'
    /\ markers' = markers \cup {"letter"} \cup FiredBy({"key"})
    /\ FallBehind(Sessions, {"data"})
    /\ UNCHANGED <<store, sessionVars, failures, kept, slipped, badKeys>>

Stale(d) == val[d] # val[Source[d]]

(* flush_single of a: a fresh instance, whose loading may fill the cache,  *)
(* and the claimed fields, with those that their change marks again.       *)
Flush ==
    LET claimed == markers \cup FiredBy({d \in markers : Stale(d)})
    IN  /\ markers # {}
        /\ val' = [c \in DOMAIN val |->
                IF c \in claimed THEN val[Source[c]] ELSE val[c]]
        /\ slipped' = slipped \ claimed
    /\ markers' = {}
    /\ store' = [store EXCEPT ![key] = IF @ = None THEN val["data"] ELSE @]
    /\ UNCHANGED <<key, keys, sessionVars, failures, writes, differs,
                   kept, badKeys>>

-----------------------------------------------------------------------------
(* Sessions *)

Advance(s, to) ==
    /\ steps < MaxSteps
    /\ steps' = steps + 1
    /\ pc' = [pc EXCEPT ![s] = to]

(* A SELECT of a; CacheWrapper.__set__ then gets the key.                  *)
Load(s) ==
    /\ pc[s] = "out"
    /\ Advance(s, "filling")
    /\ inst' = [inst EXCEPT ![s].name = val["name"], ![s].key = key]
    /\ UNCHANGED <<dbVars, keys, store, fields, mode, todo, failures, writes,
                   historyVars>>

(* The function of a CachedField follows the foreign key unless b is       *)
(* already cached on the instance.                                         *)
ReadB(s) == IF inst[s].b # None THEN inst[s].b ELSE val["data"]

(* CacheWrapper.__set__ on loading: the value of the key, or compute it.   *)
Fill(s) ==
    LET k == inst[s].key
    IN  /\ pc[s] = "filling"
        /\ pc' = [pc EXCEPT ![s] = "have"]
        /\ IF store[k] = None
           THEN /\ store' = [store EXCEPT ![k] = ReadB(s)]
                /\ inst' = [inst EXCEPT ![s].b = ReadB(s), ![s].key = None]
           ELSE /\ inst' = [inst EXCEPT ![s].key = None]
                /\ UNCHANGED store
        /\ UNCHANGED <<dbVars, keys, fields, mode, todo, steps, failures, writes,
                       historyVars>>

(* The application follows the foreign key: b stays cached.                *)
Follow(s) ==
    /\ pc[s] = "have"
    /\ inst[s].b = None
    /\ Advance(s, "have")
    /\ inst' = [inst EXCEPT ![s].b = ReadB(s)]
    /\ UNCHANGED <<dbVars, keys, store, fields, mode, todo, failures, writes,
                   historyVars>>

Edit(s, v) ==
    /\ pc[s] = "have"
    /\ v # inst[s].name
    /\ Advance(s, "have")
    /\ inst' = [inst EXCEPT ![s].name = v]
    /\ differs' = [differs EXCEPT ![s] = @ \cup {"name"}]
    /\ UNCHANGED <<dbVars, keys, store, fields, mode, todo, failures, writes,
                   kept, slipped, badKeys>>

Forget(s) ==
    /\ pc[s] = "have"
    /\ pc' = [pc EXCEPT ![s] = "out"]
    /\ inst' = [inst EXCEPT ![s] = NoInstance]
    /\ differs' = [differs EXCEPT ![s] = {}]
    /\ kept' = [kept EXCEPT ![s] = {}]
    /\ UNCHANGED <<dbVars, keys, store, fields, mode, todo, steps, failures,
                   writes, slipped, badKeys>>

(* save(), or save(update_fields=F).                                       *)
Save(s, F, m) ==
    /\ pc[s] = "have"
    /\ Advance(s, "pre")
    /\ fields' = [fields EXCEPT ![s] = F]
    /\ mode' = [mode EXCEPT ![s] = m]
    /\ todo' = [todo EXCEPT ![s] = F \cap Computed]
    /\ UNCHANGED <<dbVars, keys, store, inst, failures, writes, historyVars>>

(* pre_save of a field: what the instance remembers, or compute it.        *)
Remember(s, f, v) == [inst EXCEPT ![s].memo[f] = v]

PreSaveUpper(s) ==
    /\ inst' = Remember(s, "upper", inst[s].name)
    /\ UNCHANGED <<keys, store>>

PreSaveLetter(s) ==
    /\ inst' = [Remember(s, "letter", ReadB(s)) EXCEPT ![s].b = ReadB(s)]
    /\ UNCHANGED <<keys, store>>

(* The key of the row is taken again.                                      *)
PreSaveSameKey(s) ==
    /\ inst' = Remember(s, "key", key)
    /\ UNCHANGED <<keys, store>>

(* The value is computed on another, fresh instance of the row.            *)
PreSaveKeyAside(s) ==
    /\ keys < MaxKeys
    /\ keys' = keys + 1
    /\ store' = [store EXCEPT ![keys'] = val["data"]]
    /\ inst' = Remember(s, "key", keys')

(* The random key is set on the instance: CacheWrapper.__set__ computes    *)
(* the value for it and stores it before the key is in the database.       *)
PreSaveKey(s) ==
    /\ keys < MaxKeys
    /\ keys' = keys + 1
    /\ store' = [store EXCEPT ![keys'] = ReadB(s)]
    /\ inst' = [Remember(s, "key", keys') EXCEPT ![s].b = ReadB(s)]

PreSave(s) ==
    /\ pc[s] = "pre"
    /\ \E f \in todo[s] :
        /\ todo' = [todo EXCEPT ![s] = @ \ {f}]
        /\ \/ inst[s].memo[f] # None /\ UNCHANGED <<inst, keys, store>>
           \/ inst[s].memo[f] = None /\ f = "upper" /\ PreSaveUpper(s)
           \/ inst[s].memo[f] = None /\ f = "letter" /\ PreSaveLetter(s)
           \/ inst[s].memo[f] = None /\ f = "key" /\ PreSaveKey(s)
    /\ UNCHANGED <<dbVars, pc, fields, mode, steps, failures, writes, historyVars>>

(* _clear_denorm_pre_save_cache.                                           *)
ForgetNothing(s, i) == i
ClearMemo(s, i) == [i EXCEPT ![s].memo = NoInstance.memo]

(* _drop_redundant_self_markers: the markers of the safe functions this    *)
(* save has recomputed.                                                    *)
AllDroppable(F) == Computed \cap F
Droppable(F) == Safe \cap F

(* The columns the UPDATE writes.                                          *)
Written(s) ==
    [c \in DOMAIN val |->
        IF c \notin fields[s] THEN val[c]
        ELSE IF c = "name" THEN inst[s].name ELSE inst[s].memo[c]]

(* In an atomic block nothing comes between the UPDATE, which locks the    *)
(* row, post_save and the commit.  In autocommit the UPDATE is committed   *)
(* with the markers of its triggers, and post_save is to come.             *)
Update(s) ==
    LET new == Written(s)
        changed == {c \in DOMAIN val : new[c] # val[c]}
                       \cup (fields[s] \cap {"key"})
        outdated(f) == Source[f] \in differs[s] \ fields[s] \/ f \in kept[s]
        written == fields[s] \cap Computed
        bad == {f \in written : outdated(f)}
        marked == markers \cup FiredBy(changed)
    IN  /\ pc[s] = "pre"
        /\ todo[s] = {}
        /\ val' = new
        /\ key' = IF "key" \in fields[s] THEN inst[s].memo["key"] ELSE key
        /\ slipped' = (slipped \ written)
                         \cup ((bad \ {"key"}) \ (marked \ (Safe \cap written)))
        /\ badKeys' = badKeys \cup {inst[s].memo["key"] : f \in bad \cap {"key"}}
        /\ IF mode[s] = "atomic"
           THEN /\ markers' = marked \ Droppable(fields[s])
                /\ inst' = ClearMemo(s, inst)
                /\ kept' = [kept EXCEPT ![s] = {}]
                /\ pc' = [pc EXCEPT ![s] = "have"]
           ELSE /\ markers' = marked
                /\ pc' = [pc EXCEPT ![s] = "post"]
                /\ UNCHANGED <<inst, kept>>
        /\ differs' = [t \in Sessions |->
                IF t = s THEN differs[s] \ fields[s]
                ELSE differs[t] \cup
                     (IF inst[t].name # None THEN changed \cap {"name"} ELSE {})]
        /\ UNCHANGED <<keys, store, fields, mode, todo, steps, failures, writes>>

PostSave(s) ==
    /\ pc[s] = "post"
    /\ pc' = [pc EXCEPT ![s] = "have"]
    /\ inst' = ClearMemo(s, inst)
    /\ markers' = markers \ Droppable(fields[s])
    /\ slipped' = slipped \cup
            {f \in Safe \cap fields[s] : Source[f] \in differs[s]}
    /\ kept' = [kept EXCEPT ![s] = {}]
    /\ UNCHANGED <<val, key, keys, store, fields, mode, todo, steps, failures,
                   writes, differs, badKeys>>

(* The UPDATE fails: a constraint, a deadlock, a timeout.  No post_save.   *)
SaveFails(s) ==
    /\ pc[s] = "pre"
    /\ todo[s] = {}
    /\ failures < MaxFailures
    /\ failures' = failures + 1
    /\ pc' = [pc EXCEPT ![s] = "have"]
    /\ kept' = [kept EXCEPT ![s] = @ \cup (fields[s] \cap Computed)]
    /\ UNCHANGED <<dbVars, keys, store, inst, fields, mode, todo, steps, writes,
                   differs, slipped, badKeys>>

Next ==
    \/ \E v \in Value : UpdateName(v) \/ UpdateData(v)
    \/ Flush
    \/ \E s \in Sessions :
        \/ Load(s) \/ Fill(s) \/ Follow(s) \/ Forget(s)
        \/ \E v \in Value : Edit(s, v)
        \/ \E F \in {Fields, {"name"}, {"upper"}, {"letter"}}, m \in Modes :
            Save(s, F, m)
        \/ PreSave(s) \/ Update(s) \/ PostSave(s) \/ SaveFails(s)

Spec == Init /\ [][Next]_vars
-----------------------------------------------------------------------------
Drawn == 1 .. keys
Memos == [upper : Value \cup {None}, letter : Value \cup {None},
          key : Drawn \cup {None}]
Instance == [name : Value \cup {None}, b : Value \cup {None},
             key : Drawn \cup {None}, memo : Memos]
Types ==
    /\ val \in [{"name", "upper", "letter", "data"} -> Value]
    /\ keys \in 1 .. MaxKeys /\ key \in Drawn
    /\ markers \subseteq {"upper", "letter"}
    /\ store \in [1 .. MaxKeys -> Value \cup {None}]
    /\ \A k \in 1 .. MaxKeys : store[k] # None => k \in Drawn
    /\ pc \in [Sessions -> {"out", "filling", "have", "pre", "post"}]
    /\ inst \in [Sessions -> Instance]
    /\ fields \in [Sessions -> SUBSET Fields]
    /\ todo \in [Sessions -> SUBSET Computed]
    /\ mode \in [Sessions -> Modes \cup {None}]
    /\ steps \in 0 .. MaxSteps /\ failures \in 0 .. MaxFailures
    /\ writes \in 0 .. MaxWrites
    /\ differs \in [Sessions -> SUBSET {"name", "data"}]
    /\ kept \in [Sessions -> SUBSET Computed]
    /\ slipped \subseteq {"upper", "letter"} /\ badKeys \subseteq Drawn

(* Types; a session has an instance from its SELECT until it forgets it,   *)
(* the instance has neither a key nor b before it has loaded, and nothing  *)
(* but a failed save leaves a memo on it.                                  *)
Loaded(s) ==
    /\ pc[s] = "out" <=> inst[s].name = None
    /\ pc[s] \in {"out", "filling"} => inst[s].b = None
    /\ pc[s] = "filling" => inst[s].key # None
    /\ pc[s] = "post" => todo[s] = {}

TypeOK ==
    /\ Types
    /\ \A s \in Sessions :
        /\ Loaded(s)
        /\ pc[s] = "have" => \A f \in Computed \ kept[s] : inst[s].memo[f] = None

(* A stale column is marked, unless it was unmarked when it was saved from *)
(* an instance that differed from the database in what the column depends  *)
(* on, or with what a failed save had left on the instance; a safe column  *)
(* also loses its marker to the post_save of such a save, or of one after  *)
(* whose UPDATE its input has changed (fields.py:184-189, 76-101).  So the *)
(* marker of a related column outlives the save of an old instance, and a  *)
(* full save of an old instance keeps a safe column right: it writes what  *)
(* the function has read.                                                  *)
StaleForCause ==
    \A d \in {"upper", "letter"} : Stale(d) => d \in markers \/ d \in slipped

(* The value stored under the key of the row is right, unless the key was  *)
(* saved from an instance that had b cached before it changed: a load      *)
(* reads the key first and b later (fields.py:434-444).                    *)
CachedForCause ==
    store[key] \in {None, val["data"]} \/ key \in badKeys

-----------------------------------------------------------------------------
(* The inductive invariant of the proofs *)

(* What differs does not name agrees with the database.                    *)
Agrees(s) ==
    /\ inst[s].name \in {None, val["name"]} \/ "name" \in differs[s]
    /\ inst[s].b \in {None, val["data"]} \/ "data" \in differs[s]

(* Unless a failed save has left it there, a memo is of the save at hand   *)
(* and of the instance as it is.                                           *)
MemoOf(s) ==
    /\ pc[s] = "pre" => todo[s] \subseteq fields[s]
    /\ pc[s] = "pre" =>
        \A f \in fields[s] \cap Computed : f \in todo[s] \/ inst[s].memo[f] # None
    /\ \A f \in Computed \ kept[s] : inst[s].memo[f] # None =>
        pc[s] \in {"pre", "post"} /\ f \in fields[s] \ todo[s]
    /\ inst[s].memo["upper"] \in {None, inst[s].name} \/ "upper" \in kept[s]
    /\ inst[s].memo["letter"] \in {None, inst[s].b} \/ "letter" \in kept[s]
    /\ \/ inst[s].memo["key"] = None \/ "key" \in kept[s]
       \/ inst[s].b # None /\ store[inst[s].memo["key"]] = inst[s].b

(* Between an UPDATE in autocommit and its post_save the safe column it    *)
(* has written stays right, or what makes it wrong is known.               *)
AwaitsPost(s) ==
    pc[s] = "post" /\ "upper" \in fields[s] /\ Stale("upper") =>
        "name" \in differs[s] \/ "upper" \in slipped

Sound(s) == Loaded(s) /\ Agrees(s) /\ MemoOf(s) /\ AwaitsPost(s)
SessionInv == \A s \in Sessions : Sound(s)

(* The parts together; every step keeps them.                              *)
IInv == Types /\ SessionInv /\ StaleForCause /\ CachedForCause

-----------------------------------------------------------------------------
(* What the documentation says of the code *)

(* pre_save's memo is cleared "so that subsequent saves recompute the      *)
(* value" (fields.py:105-110): what a save writes is the function of the   *)
(* instance that is saved.                                                 *)
RecomputedBySave ==
    [][\A s \in Sessions :
        pc[s] = "pre" /\ pc'[s] \in {"have", "post"} /\ failures' = failures
            /\ "upper" \in fields[s] => val'["upper"] = inst[s].name]_vars
=============================================================================
